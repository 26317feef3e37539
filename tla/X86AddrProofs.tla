---------------------------- MODULE X86AddrProofs ---------------------------
(***************************************************************************)
(* Theorems about operands, for every width of a byte and every machine:   *)
(* what an instruction leaves alone, and where an access goes.             *)
(***************************************************************************)
EXTENDS X86AddrProps, X86Numbers

-----------------------------------------------------------------------------
(* Sizes: powers of two, a long is two words, a word two bytes.            *)
LEMMA WidthType ==
  ASSUME NEW k \in Nat
  PROVE  Width(k) \in Nat /\ (k > 0 => Width(k) > 0)
BY OperandAssumption, SMT DEF Width

(* Moduli are positive.                                                    *)
LEMMA ModType ==
  ASSUME NEW k \in Nat
  PROVE  Mod(k) \in Nat /\ Mod(k) > 0
BY WidthType, PowerIsNat DEF Mod

(* Sizes add up, moduli multiply.                                          *)
LEMMA ModSum ==
  ASSUME NEW j \in Nat, NEW k \in Nat
  PROVE  Mod(j + k) = Mod(j) * Mod(k)
<1>1. Width(j) \in Nat /\ Width(k) \in Nat
  BY WidthType
<1>2. \A b, x, y \in Nat : b * (x + y) = b * x + b * y
  BY SMT
<1>3. ByteBits \in Nat
  BY OperandAssumption
<1>4. Width(j + k) = Width(j) + Width(k)
  BY <1>2, <1>3 DEF Width
<1> QED BY <1>1, <1>4, PowerSum DEF Mod

(* The moduli of bytes, words and longs.                                   *)
LEMMA ModValues ==
  /\ Mod(0) = 1 /\ Mod(1) \in Nat /\ Mod(1) >= 2
  /\ Mod(2) = Mod(1) * Mod(1) /\ Mod(3) = Mod(1) * Mod(2) /\ Mod(4) = Mod(2) * Mod(2)
  /\ Mod(2) \in Nat /\ Mod(2) >= 4 /\ Mod(4) \in Nat /\ Mod(4) >= 16 /\ Mod(3) \in Nat
<1>1. Mod(1) \in Nat /\ Mod(2) \in Nat /\ Mod(3) \in Nat /\ Mod(4) \in Nat
  BY ModType
<1>2. Mod(0) = 1
  <2>1. Width(0) = 0
    BY OperandAssumption, SMT DEF Width
  <2> QED BY <2>1, PowerZero DEF Mod
<1>3. Mod(1) >= 2
  <2>1. Width(1) - 1 \in Nat /\ Width(1) = (Width(1) - 1) + 1
    BY WidthType, SMT
  <2>2. Mod(1) = 2 * 2 ^ (Width(1) - 1) /\ 2 ^ (Width(1) - 1) \in Nat /\ 2 ^ (Width(1) - 1) > 0
    <3>1. 2 ^ ((Width(1) - 1) + 1) = 2 * 2 ^ (Width(1) - 1)
      BY <2>1, PowerNext
    <3> QED BY <2>1, <3>1, PowerIsNat DEF Mod
  <2> QED BY <2>2, SMT
<1>4. Mod(2) = Mod(1) * Mod(1) /\ Mod(3) = Mod(1) * Mod(2) /\ Mod(4) = Mod(2) * Mod(2)
  <2>1. Mod(1 + 1) = Mod(1) * Mod(1) /\ Mod(1 + 2) = Mod(1) * Mod(2) /\ Mod(2 + 2) = Mod(2) * Mod(2)
    BY ModSum
  <2>2. 1 + 1 = 2 /\ 1 + 2 = 3 /\ 2 + 2 = 4
    OBVIOUS
  <2> QED BY <2>1, <2>2
<1>5. \A x, y \in Nat : \A b, c \in Nat : x >= b /\ y >= c => x * y >= b * c
  BY SMT
<1>6. Mod(2) >= 4
  BY <1>1, <1>3, <1>4, <1>5
<1>7. Mod(4) >= 16
  BY <1>1, <1>4, <1>5, <1>6
<1> QED BY <1>1, <1>2, <1>3, <1>4, <1>6, <1>7

(* Bytes and words are longs, as are numbers of registers.                 *)
LEMMA LongHolds ==
  /\ Mod(4) \in Nat \ {0} /\ \A k \in Size : k \in Nat /\ Mod(k) \in Nat \ {0} /\ Mod(k) <= Mod(4)
  /\ Gpr \subseteq Long /\ Byte \subseteq Long /\ Word \subseteq Long /\ 0 \in Long
  /\ \A x \in Int : x % Mod(4) \in Long
<1>1. \A b, c \in Nat : b >= 1 /\ c >= 1 => b * c >= b
  BY SMT
<1>2. Mod(1) <= Mod(2) /\ Mod(2) <= Mod(4)
  BY <1>1, ModValues
<1>3. Mod(1) \in Nat /\ Mod(2) \in Nat /\ Mod(4) \in Nat /\ Mod(1) >= 2 /\ Mod(2) >= 4 /\ Mod(4) >= 16
  BY ModValues
<1>4. Mod(4) \in Nat \ {0}
  BY <1>3
<1>5. ASSUME NEW x \in Int PROVE x % Mod(4) \in Long
  BY <1>4, DivMod DEF Long
<1> HIDE DEF Mod
<1> QED BY <1>2, <1>3, <1>4, <1>5 DEF Size, Gpr, Long, Word, Byte

-----------------------------------------------------------------------------
(* Bits of a number below, and from, a position: those of its remainder,   *)
(* and of its quotient.                                                    *)
LEMMA BitBelow ==
  ASSUME NEW v \in Int, NEW l \in Nat, NEW b \in Nat, b < l
  PROVE  Bit(v, b) <=> Bit(v % 2 ^ l, b)
<1> DEFINE j == l - b - 1
<1>1. j \in Nat /\ l = b + (1 + j) /\ 1 + j \in Nat
  BY SMT
<1> HIDE DEF j
<1>2. 2 ^ l = 2 ^ b * (2 * 2 ^ j)
  <2>1. 2 ^ (b + (1 + j)) = 2 ^ b * 2 ^ (1 + j) /\ 2 ^ (1 + j) = 2 ^ 1 * 2 ^ j
    BY <1>1, PowerSum
  <2>2. 2 ^ 1 = 2
    BY PowerNext
  <2> QED BY <1>1, <2>1, <2>2
<1>3. PICK p, q, r \in Nat \ {0} : p = 2 ^ b /\ q = 2 ^ l /\ r = 2 ^ j /\ q = p * (2 * r)
  <2>1. 2 ^ b \in Nat \ {0} /\ 2 ^ l \in Nat \ {0} /\ 2 ^ j \in Nat \ {0}
    BY <1>1, PowerIsNat
  <2> QED BY <1>2, <2>1
<1>4. PICK h \in Int : v % q \in 0 .. (q - 1) /\ v = q * h + (v % q)
  BY <1>3, DivMod
<1>5. PICK z \in 0 .. (q - 1) : z = v % q /\ v = q * h + z
  BY <1>4
<1>6. /\ z \div p \in Int /\ z % p \in 0 .. (p - 1) /\ z = p * (z \div p) + (z % p)
  <2>1. z \in Int /\ p \in Nat \ {0}
    BY <1>3, <1>5
  <2> QED BY <2>1, DivMod
<1>7. PICK y \in Int, u \in 0 .. (p - 1) : y = z \div p /\ z = p * y + u
  BY <1>6
<1>8. \A a, c, d, f, g \in Int : (a * (2 * d)) * f + (a * g + c) = a * (2 * (d * f) + g) + c
  BY SMT
<1>9. v = p * (2 * (r * h) + y) + u
  <2>1. p \in Int /\ q \in Int /\ r \in Int /\ u \in Int /\ h \in Int /\ y \in Int
    BY <1>3, <1>4, <1>7
  <2>2. (p * (2 * r)) * h + (p * y + u) = p * (2 * (r * h) + y) + u
    BY <1>8, <2>1
  <2> QED BY <1>3, <1>5, <1>7, <2>2
<1>10. r * h \in Int /\ 2 * (r * h) + y \in Int
  BY <1>3, <1>4, <1>7
<1>11. v \div p = 2 * (r * h) + y
  <2>1. p \in Nat \ {0} /\ u \in 0 .. (p - 1) /\ 2 * (r * h) + y \in Int
    BY <1>3, <1>7, <1>10
  <2>2. (p * (2 * (r * h) + y) + u) \div p = 2 * (r * h) + y
    BY <2>1, DivModUnique
  <2> QED BY <1>9, <2>2
<1>12. \A a, c \in Int : (2 * a + c) % 2 = c % 2
  BY SMT
<1>13. (2 * (r * h) + y) % 2 = y % 2
  BY <1>7, <1>10, <1>12
<1> QED BY <1>3, <1>5, <1>7, <1>11, <1>13 DEF Bit

(* Dividing twice divides by the product.                                  *)
LEMMA DivTwice ==
  ASSUME NEW v \in Int, NEW p \in Nat, NEW q \in Nat, p > 0, q > 0
  PROVE  v \div (p * q) = (v \div p) \div q
<1>1. PICK h, z \in Int : h = v \div p /\ z \in 0 .. (p - 1) /\ v = p * h + z
  BY DivMod
<1>2. PICK g, y \in Int : g = h \div q /\ y \in 0 .. (q - 1) /\ h = q * g + y
  BY <1>1, DivMod
<1>3. v = (p * q) * g + (p * y + z)
  BY <1>1, <1>2, SMT
<1>4. p * q \in Nat \ {0} /\ p * y + z \in 0 .. (p * q - 1)
  <2>1. p * y \in Nat /\ p * q \in Nat /\ p * q = p * (q - 1) + p /\ p * (q - 1) \in Nat
    BY <1>2, SMT
  <2>2. \A a, b, c \in Nat : a <= b => c * a <= c * b
    BY SMT
  <2>3. p * y <= p * (q - 1)
    BY <1>2, <2>2
  <2> HIDE DEF Bit
  <2> QED BY <1>1, <2>1, <2>3
<1> QED BY <1>1, <1>2, <1>3, <1>4, DivModUnique

(* A bit above l is one of the quotient.                                   *)
LEMMA BitAbove ==
  ASSUME NEW v \in Int, NEW l \in Nat, NEW b \in Nat, l <= b
  PROVE  Bit(v, b) <=> Bit(v \div 2 ^ l, b - l)
<1>1. b - l \in Nat /\ b = l + (b - l)
  BY SMT
<1>2. 2 ^ b = 2 ^ l * 2 ^ (b - l) /\ 2 ^ l \in Nat /\ 2 ^ l > 0 /\ 2 ^ (b - l) \in Nat /\ 2 ^ (b - l) > 0
  <2>1. 2 ^ (l + (b - l)) = 2 ^ l * 2 ^ (b - l)
    BY <1>1, PowerSum
  <2> QED BY <1>1, <2>1, PowerIsNat
<1>3. v \div 2 ^ b = (v \div 2 ^ l) \div 2 ^ (b - l)
  BY <1>2, DivTwice
<1> QED BY <1>3 DEF Bit

(* Powers of two are ordered as their exponents.                           *)
LEMMA PowerOrder ==
  ASSUME NEW l \in Nat, NEW b \in Nat
  PROVE  (b < l <=> 2 ^ b < 2 ^ l) /\ (l <= b <=> 2 ^ l <= 2 ^ b)
<1>1. ASSUME NEW m \in Nat, NEW n \in Nat, m <= n PROVE 2 ^ m <= 2 ^ n
  <2>1. n - m \in Nat /\ n = m + (n - m)
    BY <1>1, SMT
  <2>2. 2 ^ n = 2 ^ m * 2 ^ (n - m) /\ 2 ^ m \in Nat /\ 2 ^ (n - m) \in Nat /\ 2 ^ (n - m) >= 1
    <3>1. 2 ^ (m + (n - m)) = 2 ^ m * 2 ^ (n - m)
      BY <2>1, PowerSum
    <3>2. 2 ^ m \in Nat /\ 2 ^ (n - m) \in Nat /\ 2 ^ (n - m) > 0
      BY <2>1, PowerIsNat
    <3> QED BY <2>1, <3>1, <3>2
  <2>3. \A x, y \in Nat : y >= 1 => x <= x * y
    BY SMT
  <2> QED BY <2>2, <2>3
<1>2. ASSUME NEW m \in Nat, NEW n \in Nat, m < n PROVE 2 ^ m < 2 ^ n
  <2>1. 2 ^ (m + 1) <= 2 ^ n
    BY <1>1, <1>2
  <2>2. 2 ^ (m + 1) = 2 * 2 ^ m /\ 2 ^ m \in Nat /\ 2 ^ m > 0 /\ 2 ^ n \in Nat
    BY PowerNext, PowerIsNat
  <2> QED BY <2>1, <2>2
<1>3. 2 ^ b \in Nat /\ 2 ^ l \in Nat
  BY PowerIsNat
<1> QED BY <1>1, <1>2, <1>3

-----------------------------------------------------------------------------
(* A number of pieces: units below low, one of M in units of low, and the  *)
(* rest.  The middle one may be changed alone.                             *)
Made(X, low, M, h, g, z) ==
  /\ low \in Nat \ {0} /\ M \in Nat \ {0} /\ h \in Int /\ g \in 0 .. (M - 1) /\ z \in 0 .. (low - 1)
  /\ X = low * (M * h + g) + z

Pieced(X, low, M, h, g, z) == X % low = z /\ (X \div low) % M = g /\ X \div (low * M) = h

(* Three digits of mixed base, and how to get each back.                   *)
LEMMA Pieces ==
  ASSUME NEW X, NEW low, NEW M, NEW h, NEW g, NEW z, Made(X, low, M, h, g, z)
  PROVE  Pieced(X, low, M, h, g, z)
<1>1. /\ low \in Nat \ {0} /\ M \in Nat \ {0} /\ h \in Int /\ g \in 0 .. (M - 1) /\ z \in 0 .. (low - 1)
      /\ M * h + g \in Int /\ X = low * (M * h + g) + z
  BY SMT DEF Made
<1>2. X % low = z /\ X \div low = M * h + g
  BY <1>1, DivModUnique
<1>3. (M * h + g) % M = g /\ (M * h + g) \div M = h
  BY <1>1, DivModUnique
<1>4. X \div (low * M) = (X \div low) \div M
  <2>1. X \in Int /\ low \in Nat /\ M \in Nat /\ low > 0 /\ M > 0
    BY <1>1, SMT
  <2> QED BY <2>1, DivTwice
<1> QED BY <1>2, <1>3, <1>4 DEF Pieced

(* The middle piece replaced by v                                          *)
Replaced(X, R, low, M, v) ==
  X % low = R % low /\ X \div (low * M) = R \div (low * M) /\ (X \div low) % M = v

(* Replacing the middle digit keeps the other two.                         *)
LEMMA PieceSet ==
  ASSUME NEW low \in Nat \ {0}, NEW M \in Nat \ {0}, NEW q \in Nat \ {0},
         NEW R \in 0 .. (low * M * q - 1), NEW v \in 0 .. (M - 1),
         NEW X, X = R + low * (v - ((R \div low) % M))
  PROVE  X \in 0 .. (low * M * q - 1) /\ Replaced(X, R, low, M, v)
<1>1. low * M * q \in Nat /\ R \in Int
  BY SMT
<1>2. PICK a \in Int, z \in 0 .. (low - 1) : a = R \div low /\ R = low * a + z
  BY <1>1, DivMod
<1>3. PICK h \in Int, g \in 0 .. (M - 1) : g = a % M /\ a = M * h + g
  <2>1. a \div M \in Int /\ a % M \in 0 .. (M - 1) /\ a = M * (a \div M) + (a % M)
    BY DivMod
  <2> QED BY <2>1
<1>4. R = low * (M * h + g) + z
  BY <1>2, <1>3
<1>5. R + low * (v - g) = low * (M * h + v) + z
  <2>1. low * (M * h + g) + z + low * (v - g) = low * (M * h + v) + z
    BY SMT
  <2> QED BY <1>4, <2>1
<1>6. h >= 0 /\ h <= q - 1
  <2>1. \A t, y \in Nat \ {0} : \A i \in Int : \A u \in 0 .. (t - 1) :
          t * i + u >= 0 /\ t * i + u < t * y => i >= 0 /\ i <= y - 1
    <3> SUFFICES ASSUME NEW t \in Nat \ {0}, NEW y \in Nat \ {0}, NEW i \in Int, NEW u \in 0 .. (t - 1),
                        t * i + u >= 0 /\ t * i + u < t * y
                 PROVE  i >= 0 /\ i <= y - 1
      OBVIOUS
    <3>1. ASSUME i < 0 PROVE FALSE
      <4>1. t * (-i) >= t /\ t * i = -(t * (-i))
        BY <3>1, SMT
      <4> QED BY <4>1, SMT
    <3>2. ASSUME i >= y PROVE FALSE
      <4>1. t * i >= t * y
        BY <3>2, SMT
      <4> QED BY <4>1, SMT
    <3> QED BY <3>1, <3>2, SMT
  <2>2. low * M \in Nat \ {0} /\ low * g + z \in 0 .. (low * M - 1) /\ R = (low * M) * h + (low * g + z)
    <3>1. low * g <= low * (M - 1) /\ low * (M - 1) = low * M - low /\ low * g \in Nat /\ low * M \in Nat \ {0}
      BY SMT
    <3>2. R = (low * M) * h + (low * g + z)
      BY <1>4, SMT
    <3> QED BY <3>1, <3>2
  <2>3. R >= 0 /\ R < (low * M) * q
    BY <1>1
  <2> QED BY <2>1, <2>2, <2>3
<1>7. low * (M * h + v) + z \in 0 .. (low * M * q - 1)
  <2>1. low * v <= low * (M - 1) /\ low * (M - 1) = low * M - low /\ low * v \in Nat /\ low * M \in Nat \ {0}
    BY SMT
  <2>2. low * (M * h + v) + z = (low * M) * h + (low * v + z)
    BY SMT
  <2>3. (low * M) * h <= (low * M) * (q - 1) /\ (low * M) * (q - 1) = low * M * q - low * M /\ (low * M) * h \in Nat
    <3>1. \A t \in Nat : \A i, j \in Nat : i <= j => t * i <= t * j /\ t * i \in Nat
      BY SMT
    <3>2. (low * M) * (q - 1) = low * M * q - low * M
      BY SMT
    <3> QED BY <1>6, <2>1, <3>1, <3>2
  <2> QED BY <1>1, <2>1, <2>2, <2>3
<1>8. Pieced(R, low, M, h, g, z) /\ Pieced(low * (M * h + v) + z, low, M, h, v, z)
  <2>1. Made(R, low, M, h, g, z)
    BY <1>4 DEF Made
  <2>2. Made(low * (M * h + v) + z, low, M, h, v, z)
    BY DEF Made
  <2> QED BY <2>1, <2>2, Pieces
<1> QED BY <1>2, <1>3, <1>5, <1>7, <1>8 DEF Pieced, Replaced

-----------------------------------------------------------------------------
(* Machines, one field changed                                             *)
LEMMA WithReg ==
  ASSUME NEW m, IsMachine(m), NEW i \in Gpr, NEW X \in Long,
         NEW n, n = [m EXCEPT !.reg[i] = X]
  PROVE  /\ IsMachine(n) /\ n.reg[i] = X /\ \A j \in Gpr \ {i} : n.reg[j] = m.reg[j]
         /\ n.mem = m.mem /\ n.seg = m.seg /\ n.cf = m.cf /\ n.zf = m.zf /\ n.intr = m.intr
<1> DEFINE reg == [m.reg EXCEPT ![i] = X]
<1>1. /\ m = [reg |-> m.reg, mem |-> m.mem, seg |-> m.seg, cf |-> m.cf, zf |-> m.zf, intr |-> m.intr]
      /\ m.reg \in [Gpr -> Long]
  BY DEF IsMachine
<1>2. n = [m EXCEPT !.reg = reg]
  OBVIOUS
<1>3. reg \in [Gpr -> Long] /\ reg[i] = X /\ \A j \in Gpr \ {i} : reg[j] = m.reg[j]
  BY <1>1
<1> HIDE DEF reg
<1>4. n = [reg |-> reg, mem |-> m.mem, seg |-> m.seg, cf |-> m.cf, zf |-> m.zf, intr |-> m.intr]
  BY <1>1, <1>2
<1>5. n.reg = reg /\ n.mem = m.mem /\ n.seg = m.seg /\ n.cf = m.cf /\ n.zf = m.zf /\ n.intr = m.intr
  BY <1>4
<1>6. n = [reg |-> n.reg, mem |-> n.mem, seg |-> n.seg, cf |-> n.cf, zf |-> n.zf, intr |-> n.intr]
  BY <1>4, <1>5
<1>7. IsMachine(n)
  BY <1>3, <1>5, <1>6 DEF IsMachine
<1> QED BY <1>3, <1>5, <1>7

(* A machine with other memory.                                            *)
LEMMA WithMem ==
  ASSUME NEW m, IsMachine(m), NEW mem, DOMAIN mem \subseteq Long, mem \in [DOMAIN mem -> Byte \ {0}],
         NEW n, n = [m EXCEPT !.mem = mem]
  PROVE  /\ IsMachine(n) /\ n.mem = mem /\ n.reg = m.reg /\ n.seg = m.seg
         /\ n.cf = m.cf /\ n.zf = m.zf /\ n.intr = m.intr
<1>1. m = [reg |-> m.reg, mem |-> m.mem, seg |-> m.seg, cf |-> m.cf, zf |-> m.zf, intr |-> m.intr]
  BY DEF IsMachine
<1>2. n = [reg |-> m.reg, mem |-> mem, seg |-> m.seg, cf |-> m.cf, zf |-> m.zf, intr |-> m.intr]
  BY <1>1
<1>3. n.reg = m.reg /\ n.mem = mem /\ n.seg = m.seg /\ n.cf = m.cf /\ n.zf = m.zf /\ n.intr = m.intr
  BY <1>2
<1>4. n = [reg |-> n.reg, mem |-> n.mem, seg |-> n.seg, cf |-> n.cf, zf |-> n.zf, intr |-> n.intr]
  BY <1>2, <1>3
<1>5. IsMachine(n)
  BY <1>3, <1>4 DEF IsMachine
<1> QED BY <1>3, <1>5

(* CF, ZF and the interrupt do not touch registers and memory.             *)
Alike(m, n) == IsMachine(n) /\ n.reg = m.reg /\ n.mem = m.mem /\ n.seg = m.seg

(* A machine with other flags.                                             *)
LEMMA WithFlags ==
  ASSUME NEW m, IsMachine(m), NEW cf \in BOOLEAN, NEW zf \in BOOLEAN
  PROVE  /\ Alike(m, [m EXCEPT !.cf = cf]) /\ Alike(m, [m EXCEPT !.zf = zf])
         /\ Alike(m, Flagged(m, cf, zf))
<1>1. m = [reg |-> m.reg, mem |-> m.mem, seg |-> m.seg, cf |-> m.cf, zf |-> m.zf, intr |-> m.intr]
  BY DEF IsMachine
<1>2. \A c, z \in BOOLEAN : Alike(m, [reg |-> m.reg, mem |-> m.mem, seg |-> m.seg, cf |-> c, zf |-> z, intr |-> m.intr])
  BY <1>1 DEF IsMachine, Alike
<1>3. m.cf \in BOOLEAN /\ m.zf \in BOOLEAN
  BY DEF IsMachine
<1>4. [m EXCEPT !.cf = cf] = [reg |-> m.reg, mem |-> m.mem, seg |-> m.seg, cf |-> cf, zf |-> m.zf, intr |-> m.intr]
  BY <1>1
<1>5. [m EXCEPT !.zf = zf] = [reg |-> m.reg, mem |-> m.mem, seg |-> m.seg, cf |-> m.cf, zf |-> zf, intr |-> m.intr]
  BY <1>1
<1>6. Flagged(m, cf, zf) = [reg |-> m.reg, mem |-> m.mem, seg |-> m.seg, cf |-> cf, zf |-> zf, intr |-> m.intr]
  <2>1. Flagged(m, cf, zf) = [[m EXCEPT !.cf = cf] EXCEPT !.zf = zf]
    BY DEF Flagged
  <2> QED BY <1>4, <2>1
<1> QED BY <1>2, <1>3, <1>4, <1>5, <1>6

(* A machine that raised a fault.                                          *)
LEMMA WithIntr ==
  ASSUME NEW m, IsMachine(m), NEW fault \in {"UD", "GP"}
  PROVE  Alike(m, Raise(m, fault))
<1>1. m = [reg |-> m.reg, mem |-> m.mem, seg |-> m.seg, cf |-> m.cf, zf |-> m.zf, intr |-> m.intr]
  BY DEF IsMachine
<1>2. Alike(m, [reg |-> m.reg, mem |-> m.mem, seg |-> m.seg, cf |-> m.cf, zf |-> m.zf, intr |-> fault])
  BY <1>1 DEF IsMachine, Alike, Fault
<1>3. [m EXCEPT !.intr = fault] = [reg |-> m.reg, mem |-> m.mem, seg |-> m.seg, cf |-> m.cf, zf |-> m.zf, intr |-> fault]
  BY <1>1
<1> QED BY <1>2, <1>3 DEF Raise, Alike

(* Checking an access changes at most intr.                                *)
LEMMA WithCheck ==
  ASSUME NEW m, IsMachine(m), NEW p, NEW k
  PROVE  Alike(m, Check(m, p, k))
BY WithIntr DEF Check, Alike

-----------------------------------------------------------------------------
(* What may differ between machines m and n: parts w of registers, each a  *)
(* number and a size, and bytes at the addresses in A.                     *)
Differ(x, y, b) == Bit(x, b) # Bit(y, b)
InPart(w, b)    == 2 ^ b >= Part(w[1], w[2]).low /\ 2 ^ b < Part(w[1], w[2]).low * Mod(w[2])
Target(w)       == Part(w[1], w[2]).reg

OnlyRegs(m, n, W) ==
  \A r \in Gpr :
    /\ n.reg[r] # m.reg[r] => \E w \in W : Target(w) = r
    /\ \A b \in 0 .. (Width(4) - 1) : Differ(n.reg[r], m.reg[r], b) =>
         \E w \in W : Target(w) = r /\ InPart(w, b)

OnlyMem(m, n, A) ==
  /\ n.mem # m.mem => A # {}
  /\ \A a : MemAt(n, a) # MemAt(m, a) => a \in A

Only(m, n, W, A) == IsMachine(n) /\ OnlyRegs(m, n, W) /\ OnlyMem(m, n, A) /\ n.seg = m.seg

(* Of two changes of a bit one shows in the end, or none.                  *)
LEMMA DifferChain ==
  ASSUME NEW x, NEW y, NEW z, NEW b
  PROVE  /\ ~Differ(x, x, b)
         /\ Differ(x, z, b) => Differ(x, y, b) \/ Differ(y, z, b)
BY DEF Differ, Bit

(* Machines alike differ in no register and no byte.                       *)
LEMMA OnlyAlike ==
  ASSUME NEW m, NEW n, Alike(m, n)
  PROVE  Only(m, n, {}, {})
BY DifferChain DEF Alike, Only, OnlyRegs, OnlyMem, MemAt

(* What two steps may write, their sequence may.                           *)
LEMMA OnlyChain ==
  ASSUME NEW m, NEW n, NEW o, NEW W, NEW V, NEW A, NEW B,
         Only(m, n, W, A), Only(n, o, V, B)
  PROVE  Only(m, o, W \cup V, A \cup B)
<1>1. IsMachine(o) /\ o.seg = m.seg
  BY DEF Only
<1>2. OnlyRegs(m, o, W \cup V)
  <2> SUFFICES ASSUME NEW r \in Gpr
               PROVE  /\ o.reg[r] # m.reg[r] => \E w \in W \cup V : Target(w) = r
                      /\ \A b \in 0 .. (Width(4) - 1) : Differ(o.reg[r], m.reg[r], b) =>
                           \E w \in W \cup V : Target(w) = r /\ InPart(w, b)
    BY DEF OnlyRegs
  <2>1. o.reg[r] # m.reg[r] => \E w \in W \cup V : Target(w) = r
    BY DEF Only, OnlyRegs
  <2>2. ASSUME NEW b \in 0 .. (Width(4) - 1), Differ(o.reg[r], m.reg[r], b)
        PROVE  \E w \in W \cup V : Target(w) = r /\ InPart(w, b)
    <3>1. Differ(o.reg[r], n.reg[r], b) \/ Differ(n.reg[r], m.reg[r], b)
      BY <2>2, DifferChain
    <3> QED BY <3>1 DEF Only, OnlyRegs
  <2> QED BY <2>1, <2>2
<1>3. OnlyMem(m, o, A \cup B)
  BY DEF Only, OnlyMem
<1> QED BY <1>1, <1>2, <1>3 DEF Only

(* A step may write fewer places than allowed.                             *)
LEMMA OnlyMore ==
  ASSUME NEW m, NEW n, NEW W, NEW V, NEW A, NEW B, W \subseteq V, A \subseteq B,
         Only(m, n, W, A)
  PROVE  Only(m, n, V, B)
BY DEF Only, OnlyRegs, OnlyMem

-----------------------------------------------------------------------------
(* Parts of registers                                                      *)
LEMMA PartIs ==
  ASSUME NEW r \in Gpr, NEW k \in Size
  PROVE  /\ Part(r, k).reg \in Gpr
         /\ \E l \in Nat, q \in Nat \ {0} : Part(r, k).low = 2 ^ l /\ Mod(4) = Part(r, k).low * Mod(k) * q
<1>1. Part(r, k).reg \in Gpr
  BY SMT DEF Part, Gpr
<1>2. Mod(0) = 1 /\ Mod(1) \in Nat \ {0} /\ Mod(2) \in Nat \ {0} /\ Mod(3) \in Nat \ {0} /\ Mod(4) \in Nat \ {0}
  BY ModType, ModValues
<1>3. Width(0) \in Nat /\ Width(1) \in Nat
  BY WidthType
<1>4. k \in {1, 2, 4}
  BY DEF Size
<1>5. CASE k = 1 /\ r > 3
  <2>1. Part(r, k).low = Mod(1)
    BY <1>5 DEF Part
  <2>2. Mod(4) = Mod(1) * Mod(1) * Mod(2)
    BY ModValues
  <2> QED BY <1>1, <1>2, <1>3, <1>5, <2>1, <2>2 DEF Mod
<1>6. CASE ~(k = 1 /\ r > 3)
  <2>1. Part(r, k).low = 1 /\ 1 = 2 ^ Width(0)
    BY <1>2, <1>6 DEF Part, Mod
  <2>2. \E q \in Nat \ {0} : Mod(4) = 1 * Mod(k) * q
    <3>1. Mod(4) = Mod(1) * Mod(3)
      <4>1. Mod(1) * Mod(3) = Mod(1 + 3) /\ 1 + 3 = 4
        BY ModSum
      <4> QED BY <4>1
    <3>2. Mod(4) = Mod(2) * Mod(2)
      BY ModValues
    <3>3. \A x \in Nat : 1 * x = x /\ x * 1 = x
      OBVIOUS
    <3>4. CASE k = 1
      BY <1>2, <3>1, <3>3, <3>4
    <3>5. CASE k = 2
      BY <1>2, <3>2, <3>3, <3>5
    <3>6. CASE k = 4
      BY <1>2, <3>3, <3>6
    <3> QED BY <1>4, <3>4, <3>5, <3>6
  <2> QED BY <1>1, <1>3, <2>1, <2>2
<1> QED BY <1>5, <1>6

(* SetReg() replaces the named part of one register.                       *)
LEMMA SetRegIs ==
  ASSUME NEW m, IsMachine(m), NEW r \in Gpr, NEW k \in Size, NEW v \in Int
  PROVE  \E X \in Long : /\ SetReg(m, r, k, v) = [m EXCEPT !.reg[Part(r, k).reg] = X]
                         /\ Replaced(X, m.reg[Part(r, k).reg], Part(r, k).low, Mod(k), v % Mod(k))
<1> DEFINE i == Part(r, k).reg
           low == Part(r, k).low
           M == Mod(k)
           R == m.reg[i]
           X == R + low * ((v % M) - ((R \div low) % M))
<1>1. i \in Gpr /\ R \in Long
  BY PartIs DEF IsMachine
<1>2. PICK l \in Nat, q \in Nat \ {0} : low = 2 ^ l /\ Mod(4) = low * M * q
  BY PartIs
<1>3. low \in Nat \ {0} /\ M \in Nat \ {0}
  BY <1>2, PowerIsNat, LongHolds
<1>4. v % M \in 0 .. (M - 1)
  BY <1>3, DivMod
<1>5. SetReg(m, r, k, v) = [m EXCEPT !.reg[i] = X]
  BY DEF SetReg, GetReg
<1> HIDE DEF i, low, M, R
<1>6. R \in 0 .. (low * M * q - 1)
  BY <1>1, <1>2 DEF Long
<1>7. X = R + low * ((v % M) - ((R \div low) % M))
  OBVIOUS
<1> HIDE DEF X
<1>8. X \in 0 .. (low * M * q - 1) /\ Replaced(X, R, low, M, v % M)
  BY <1>3, <1>4, <1>6, <1>7, PieceSet
<1>9. X \in Long
  BY <1>2, <1>8 DEF Long
<1> QED BY <1>5, <1>8, <1>9 DEF i, low, M, R

(* A bit outside the piece is as before.                                   *)
LEMMA OutsideKept ==
  ASSUME NEW X \in Nat, NEW R \in Nat, NEW l \in Nat, NEW t \in Nat, NEW v,
         NEW b \in Nat, Replaced(X, R, 2 ^ l, 2 ^ t, v), Differ(X, R, b)
  PROVE  2 ^ b >= 2 ^ l /\ 2 ^ b < 2 ^ l * 2 ^ t
<1>1. X % 2 ^ l = R % 2 ^ l /\ X \div 2 ^ (l + t) = R \div 2 ^ (l + t) /\ l + t \in Nat
      /\ 2 ^ l * 2 ^ t = 2 ^ (l + t)
  <2>1. 2 ^ l * 2 ^ t = 2 ^ (l + t) /\ l + t \in Nat
    BY PowerSum
  <2> QED BY <2>1 DEF Replaced
<1>2. ~(b < l)
  <2> SUFFICES ASSUME b < l PROVE FALSE
    OBVIOUS
  <2>1. (Bit(X, b) <=> Bit(X % 2 ^ l, b)) /\ (Bit(R, b) <=> Bit(R % 2 ^ l, b))
    BY BitBelow
  <2> QED BY <1>1, <2>1 DEF Differ, Bit
<1>3. ~(l + t <= b)
  <2> SUFFICES ASSUME l + t <= b PROVE FALSE
    OBVIOUS
  <2>1. /\ Bit(X, b) <=> Bit(X \div 2 ^ (l + t), b - (l + t))
        /\ Bit(R, b) <=> Bit(R \div 2 ^ (l + t), b - (l + t))
    BY <1>1, BitAbove
  <2> QED BY <1>1, <2>1 DEF Differ, Bit
<1>4. /\ b < l <=> 2 ^ b < 2 ^ l
      /\ l + t <= b <=> 2 ^ (l + t) <= 2 ^ b
  BY <1>1, PowerOrder
<1>5. 2 ^ b \in Nat /\ 2 ^ l \in Nat /\ 2 ^ (l + t) \in Nat
  BY <1>1, PowerIsNat
<1> QED BY <1>1, <1>2, <1>3, <1>4, <1>5

(* SetReg() writes its part and nothing else.                              *)
LEMMA SetRegOnly ==
  ASSUME NEW m, IsMachine(m), NEW r \in Gpr, NEW k \in Size, NEW v \in Int
  PROVE  Only(m, SetReg(m, r, k, v), {<<r, k>>}, {})
<1> DEFINE n == SetReg(m, r, k, v)
           i == Part(r, k).reg
           w == <<r, k>>
<1>1. i \in Gpr /\ \A j \in Gpr : m.reg[j] \in Long
  BY PartIs DEF IsMachine
<1>2. PICK X \in Long : n = [m EXCEPT !.reg[i] = X] /\ Replaced(X, m.reg[i], Part(r, k).low, Mod(k), v % Mod(k))
  BY SetRegIs
<1>3. PICK l \in Nat : Part(r, k).low = 2 ^ l
  BY PartIs
<1> HIDE DEF n, i
<1>4. /\ IsMachine(n) /\ n.reg[i] = X /\ (\A j \in Gpr \ {i} : n.reg[j] = m.reg[j])
      /\ n.mem = m.mem /\ n.seg = m.seg
  BY <1>1, <1>2, WithReg
<1>5. ASSUME NEW b \in 0 .. (Width(4) - 1), Differ(n.reg[i], m.reg[i], b)
      PROVE  InPart(w, b)
  <2>1. X \in Nat /\ m.reg[i] \in Nat /\ b \in Nat /\ Width(k) \in Nat
    BY <1>1, WidthType, ModValues DEF Long, Size
  <2>2. Replaced(X, m.reg[i], 2 ^ l, 2 ^ Width(k), v % Mod(k))
    BY <1>2, <1>3 DEF Mod
  <2>3. 2 ^ b >= 2 ^ l /\ 2 ^ b < 2 ^ l * 2 ^ Width(k)
    BY <1>4, <1>5, <2>1, <2>2, OutsideKept
  <2> QED BY <1>3, <2>3 DEF InPart, Mod
<1>6. Target(w) = i
  BY DEF Target, i
<1>7. OnlyRegs(m, n, {w})
  <2> SUFFICES ASSUME NEW j \in Gpr
               PROVE  /\ n.reg[j] # m.reg[j] => \E x \in {w} : Target(x) = j
                      /\ \A b \in 0 .. (Width(4) - 1) : Differ(n.reg[j], m.reg[j], b) =>
                           \E x \in {w} : Target(x) = j /\ InPart(x, b)
    BY DEF OnlyRegs
  <2>1. CASE j = i
    BY <1>5, <1>6, <2>1
  <2>2. CASE j # i
    BY <1>4, <2>2, DifferChain
  <2> QED BY <2>1, <2>2
<1>8. OnlyMem(m, n, {})
  BY <1>4 DEF OnlyMem, MemAt
<1> QED BY <1>4, <1>7, <1>8 DEF Only, n

-----------------------------------------------------------------------------
(* Memory: the bytes of a place, and what a write makes of them.           *)
IsPlace(p) ==
  \/ p.seg = None /\ p.ofs \in Gpr
  \/ p.seg \in Seg /\ p.ofs \in Long

Cells(m, p, k) == {Cell(m, p, i) : i \in 0 .. (k - 1)}

(* Cells are addresses.                                                    *)
LEMMA CellType ==
  ASSUME NEW m, IsMachine(m), NEW p, p.seg \in Seg, p.ofs \in Long, NEW i \in Int
  PROVE  Cell(m, p, i) \in Long
<1>1. m.seg[p.seg].base \in Long
  BY DEF IsMachine
<1>2. m.seg[p.seg].base + p.ofs + i \in Int
  BY <1>1, ModValues DEF Long
<1> QED BY <1>2, LongHolds DEF Cell

(* Bytes of numbers are bytes.                                             *)
LEMMA ByteOfType ==
  ASSUME NEW v \in Int, NEW i \in Nat
  PROVE  ByteOf(v, i) \in Byte
<1>1. Mod(i) \in Nat \ {0} /\ Mod(1) \in Nat \ {0}
  BY ModType
<1>2. v \div Mod(i) \in Int
  BY <1>1, DivMod
<1>3. (v \div Mod(i)) % Mod(1) \in 0 .. (Mod(1) - 1)
  BY <1>1, <1>2, DivMod
<1> QED BY <1>3 DEF ByteOf, Byte

(* The byte of the value v at address a                                    *)
NewByte(m, p, v, a) == ByteOf(v, (a - m.seg[p.seg].base - p.ofs) % Mod(4))

(* A stored byte is a byte.                                                *)
LEMMA NewByteType ==
  ASSUME NEW m, IsMachine(m), NEW p, p.seg \in Seg, p.ofs \in Long, NEW v \in Int, NEW a \in Long
  PROVE  NewByte(m, p, v, a) \in Byte
<1>1. m.seg[p.seg].base \in Long
  BY DEF IsMachine
<1>2. a - m.seg[p.seg].base - p.ofs \in Int
  BY <1>1, ModValues DEF Long
<1>3. (a - m.seg[p.seg].base - p.ofs) % Mod(4) \in Nat
  BY <1>2, LongHolds, ModValues DEF Long
<1> QED BY <1>3, ByteOfType DEF NewByte

(* A write changes the cells of its place.                                 *)
LEMMA WrittenIs ==
  ASSUME NEW m, IsMachine(m), NEW p, p.seg \in Seg, p.ofs \in Long, NEW k \in Size, NEW v \in Int,
         NEW w, w = Written(m, p, k, v)
  PROVE  /\ DOMAIN w \subseteq Long /\ w \in [DOMAIN w -> Byte \ {0}]
         /\ \A a : (IF a \in DOMAIN w THEN w[a] ELSE 0)
                     = IF a \in Cells(m, p, k) THEN NewByte(m, p, v, a) ELSE MemAt(m, a)
<1> DEFINE C == Cells(m, p, k)
           all == [a \in C \cup DOMAIN m.mem |-> IF a \in C THEN NewByte(m, p, v, a) ELSE m.mem[a]]
           D == {b \in DOMAIN all : all[b] # 0}
<1>1. C \subseteq Long
  <2>1. \A i \in 0 .. (k - 1) : i \in Int
    BY DEF Size
  <2> QED BY <2>1, CellType DEF Cells
<1>2. DOMAIN m.mem \subseteq Long /\ \A a \in DOMAIN m.mem : m.mem[a] \in Byte \ {0}
  BY DEF IsMachine
<1>3. w = [a \in D |-> all[a]]
  BY DEF Written, Cells, NewByte
<1>4. \A a \in C : NewByte(m, p, v, a) \in Byte
  BY <1>1, NewByteType
<1> HIDE DEF C
<1>5. DOMAIN all = C \cup DOMAIN m.mem
  OBVIOUS
<1>6. \A a \in C \cup DOMAIN m.mem : all[a] = IF a \in C THEN NewByte(m, p, v, a) ELSE m.mem[a]
  OBVIOUS
<1> HIDE DEF all, D
<1>7. DOMAIN w = D /\ (\A a \in D : w[a] = all[a]) /\ w = [a \in DOMAIN w |-> w[a]]
  BY <1>3
<1>8. \A b : b \in D <=> b \in C \cup DOMAIN m.mem /\ all[b] # 0
  BY <1>5 DEF D
<1>9. DOMAIN w \subseteq Long /\ \A a \in DOMAIN w : w[a] \in Byte \ {0}
  BY <1>1, <1>2, <1>4, <1>6, <1>7, <1>8
<1>10. w \in [DOMAIN w -> Byte \ {0}]
  BY <1>7, <1>9
<1>11. ASSUME NEW a
       PROVE  (IF a \in DOMAIN w THEN w[a] ELSE 0)
                = IF a \in C THEN NewByte(m, p, v, a) ELSE MemAt(m, a)
  <2>1. CASE a \in C
    BY <1>6, <1>7, <1>8, <2>1
  <2>2. CASE a \notin C /\ a \in DOMAIN m.mem
    BY <1>2, <1>6, <1>7, <1>8, <2>2 DEF MemAt
  <2>3. CASE a \notin C /\ a \notin DOMAIN m.mem
    BY <1>7, <1>8, <2>3 DEF MemAt
  <2> QED BY <2>1, <2>2, <2>3
<1> QED BY <1>9, <1>10, <1>11 DEF C

(* What a store of k bytes at p may change                                 *)
PlaceRegs(p, k)    == IF p.seg = None THEN {<<p.ofs, k>>} ELSE {}
PlaceMem(m, p, k)  == IF p.seg = None THEN {} ELSE Cells(m, p, k)

(* Store() writes its place and nothing else.                              *)
LEMMA StoreOnly ==
  ASSUME NEW m, IsMachine(m), NEW p, IsPlace(p), NEW k \in Size, NEW v \in Int
  PROVE  Only(m, Store(m, p, k, v), PlaceRegs(p, k), PlaceMem(m, p, k))
<1>1. CASE p.seg = None
  <2>1. p.ofs \in Gpr
    BY <1>1, OperandAssumption DEF IsPlace
  <2>2. Only(m, SetReg(m, p.ofs, k, v), {<<p.ofs, k>>}, {})
    BY <2>1, SetRegOnly
  <2> QED BY <1>1, <2>2 DEF Store, PlaceRegs, PlaceMem
<1>2. CASE p.seg # None
  <2> DEFINE c == Check(m, p, k)
             w == Written(m, p, k, v)
             n == [c EXCEPT !.mem = w]
  <2>1. p.seg \in Seg /\ p.ofs \in Long
    BY <1>2 DEF IsPlace
  <2>2. IsMachine(c) /\ c.reg = m.reg /\ c.mem = m.mem /\ c.seg = m.seg
    BY WithCheck DEF Alike
  <2>3. /\ DOMAIN w \subseteq Long /\ w \in [DOMAIN w -> Byte \ {0}]
        /\ \A a : (IF a \in DOMAIN w THEN w[a] ELSE 0)
                    = IF a \in Cells(m, p, k) THEN NewByte(m, p, v, a) ELSE MemAt(m, a)
    BY <2>1, WrittenIs
  <2>4. Store(m, p, k, v) = n
    BY <1>2 DEF Store
  <2> HIDE DEF c, w
  <2>5. IsMachine(n) /\ n.mem = w /\ n.reg = c.reg /\ n.seg = c.seg
    BY <2>2, <2>3, WithMem
  <2> HIDE DEF n
  <2>6. OnlyRegs(m, n, {})
    BY <2>2, <2>5, DifferChain DEF OnlyRegs
  <2>7. OnlyMem(m, n, Cells(m, p, k))
    <3>1. Cells(m, p, k) # {}
      <4>1. 0 \in 0 .. (k - 1)
        BY DEF Size
      <4> QED BY <4>1 DEF Cells
    <3>2. \A a : MemAt(n, a) # MemAt(m, a) => a \in Cells(m, p, k)
      BY <2>3, <2>5 DEF MemAt
    <3> QED BY <3>1, <3>2 DEF OnlyMem
  <2>8. Only(m, n, {}, Cells(m, p, k))
    BY <2>2, <2>5, <2>6, <2>7 DEF Only
  <2> QED BY <1>2, <2>4, <2>8 DEF PlaceRegs, PlaceMem
<1> QED BY <1>1, <1>2

-----------------------------------------------------------------------------
(* Values of registers and of places, and sums of them, are numbers.       *)
LEMMA GetRegType ==
  ASSUME NEW m, IsMachine(m), NEW r \in Gpr, NEW k \in Size
  PROVE  GetReg(m, r, k) \in Nat /\ GetReg(m, r, k) \in 0 .. (Mod(k) - 1) /\ GetReg(m, r, k) \in Long
<1>1. m.reg[Part(r, k).reg] \in Int
  BY PartIs, ModValues DEF IsMachine, Long
<1>2. PICK l \in Nat : Part(r, k).low = 2 ^ l
  BY PartIs
<1>3. Part(r, k).low \in Nat \ {0} /\ Mod(k) \in Nat \ {0} /\ Mod(k) <= Mod(4)
  BY <1>2, PowerIsNat, LongHolds
<1>4. m.reg[Part(r, k).reg] \div Part(r, k).low \in Int
  BY <1>1, <1>3, DivMod
<1>5. GetReg(m, r, k) \in 0 .. (Mod(k) - 1)
  BY <1>3, <1>4, DivMod DEF GetReg
<1> QED BY <1>3, <1>5, ModValues DEF Long

(* Memory holds bytes.                                                     *)
LEMMA MemAtType ==
  ASSUME NEW m, IsMachine(m), NEW a
  PROVE  MemAt(m, a) \in Byte /\ MemAt(m, a) \in Nat
BY ModValues DEF MemAt, IsMachine, Byte

(* What MapThenSumSet makes of a sum over S                                *)
LEMMA ProductIsNat ==
  ASSUME NEW x \in Nat, NEW y \in Nat
  PROVE  x * y \in Nat
BY SMT

Loaded(m, p, k) == [i \in 0 .. (k - 1) |-> MemAt(m, Cell(m, p, i)) * Mod(i)]

(* Load() is a total over its bytes.                                       *)
LEMMA LoadIs ==
  ASSUME NEW m, IsMachine(m), NEW p, NEW k \in Size, p.seg # None
  PROVE  /\ Load(m, p, k) = Total(Loaded(m, p, k), 0 .. (k - 1))
         /\ \A i \in 0 .. (k - 1) : Loaded(m, p, k)[i] \in Nat
<1> DEFINE S == 0 .. (k - 1)
           w == Loaded(m, p, k)
           f(i) == MemAt(m, Cell(m, p, i)) * Mod(i)
           Is(G) == G = [s \in SUBSET S |-> IF s = {} THEN 0
                           ELSE f(CHOOSE x \in s : TRUE) + G[s \ {CHOOSE x \in s : TRUE}]]
           Of(G) == Recursion(G, S, w)
           G == CHOOSE g : Is(g)
<1>1. Load(m, p, k) = G[S]
  BY DEF Load, MapThenSumSet, MapThenFoldSet
<1>2. \A s \in SUBSET S : s # {} => (CHOOSE x \in s : TRUE) \in S
  OBVIOUS
<1>3. \A i \in S : i \in Nat
  BY DEF Size
<1>4. ASSUME NEW i \in S PROVE w[i] = f(i) /\ w[i] \in Nat
  <2>1. MemAt(m, Cell(m, p, i)) \in Nat /\ Mod(i) \in Nat
    BY <1>3, MemAtType, ModType
  <2> QED BY <2>1, ProductIsNat DEF Loaded
<1>5. \A i \in S : w[i] \in Nat
  BY <1>4
<1>6. IsFiniteSet(S)
  BY FS_Interval DEF Size
<1> HIDE DEF f, w, S
<1>7. \A g : Is(g) <=> Of(g)
  BY <1>2, <1>4 DEF Recursion
<1>8. (\A g : Of(g) => g[S] = Total(w, S)) /\ \E g : Of(g)
  BY <1>5, <1>6, RecursionIs
<1> HIDE DEF Is, Of
<1>9. Is(G)
  BY <1>7, <1>8
<1>10. G[S] = Total(w, S)
  BY <1>7, <1>8, <1>9
<1> QED BY <1>1, <1>5, <1>10 DEF S, w

(* Load() finds a natural.                                                 *)
LEMMA LoadType ==
  ASSUME NEW m, IsMachine(m), NEW p, IsPlace(p), NEW k \in Size
  PROVE  Load(m, p, k) \in Nat
<1>1. CASE p.seg = None
  BY <1>1, GetRegType, OperandAssumption DEF Load, IsPlace
<1>2. CASE p.seg # None
  <2>1. /\ Load(m, p, k) = Total(Loaded(m, p, k), 0 .. (k - 1))
        /\ \A i \in 0 .. (k - 1) : Loaded(m, p, k)[i] \in Nat
    BY <1>2, LoadIs
  <2>2. IsFiniteSet(0 .. (k - 1))
    BY FS_Interval DEF Size
  <2> QED BY <2>1, <2>2, TotalOfPowers
<1> QED BY <1>1, <1>2

(* An interval from 0 is finite.                                           *)
LEMMA UpToFinite ==
  ASSUME NEW n \in Nat
  PROVE  IsFiniteSet(0 .. n)
BY FS_Interval

Words16(m) == [x \in Gpr |-> GetReg(m, x, 2)]

(* The registers of the eight 16 bit addresses.                            *)
LEMMA PairsAre ==
  ASSUME NEW rm \in Gpr
  PROVE  /\ Pairs[rm] \subseteq Gpr /\ IsFiniteSet(Pairs[rm])
         /\ Pairs[0] = {BX, SI} /\ Pairs[1] = {BX, DI} /\ Pairs[2] = {BP, SI} /\ Pairs[3] = {BP, DI}
         /\ Pairs[4] = {SI} /\ Pairs[5] = {DI} /\ Pairs[6] = {BP} /\ Pairs[7] = {BX}
<1>1. /\ Pairs[0] = {BX, SI} /\ Pairs[1] = {BX, DI} /\ Pairs[2] = {BP, SI} /\ Pairs[3] = {BP, DI}
      /\ Pairs[4] = {SI} /\ Pairs[5] = {DI} /\ Pairs[6] = {BP} /\ Pairs[7] = {BX}
  BY DEF Pairs, Gpr
<1>2. rm \in {0, 1, 2, 3, 4, 5, 6, 7}
  BY DEF Gpr
<1>3. Pairs[rm] \subseteq Gpr
  BY <1>1, <1>2 DEF Gpr, BX, SI, DI, BP
<1>4. IsFiniteSet(Gpr)
  BY UpToFinite, Zenon DEF Gpr
<1>5. IsFiniteSet(Pairs[rm])
  BY <1>3, <1>4, FS_Subset
<1> QED BY <1>1, <1>3, <1>5

(* Their sum is a total over one or two words.                             *)
LEMMA Sum16Is ==
  ASSUME NEW m, IsMachine(m), NEW rm \in Gpr
  PROVE  Sum16(m, rm) = Total(Words16(m), Pairs[rm]) /\ Sum16(m, rm) \in Nat
<1> DEFINE S == Pairs[rm]
           w == Words16(m)
           f(x) == GetReg(m, x, 2)
           Is(G) == G = [s \in SUBSET S |-> IF s = {} THEN 0
                           ELSE f(CHOOSE x \in s : TRUE) + G[s \ {CHOOSE x \in s : TRUE}]]
           Of(G) == Recursion(G, S, w)
           G == CHOOSE g : Is(g)
<1>1. Sum16(m, rm) = G[S]
  BY DEF Sum16, MapThenSumSet, MapThenFoldSet
<1>2. \A s \in SUBSET S : s # {} => (CHOOSE x \in s : TRUE) \in S
  OBVIOUS
<1>3. S \subseteq Gpr /\ IsFiniteSet(S)
  BY PairsAre
<1>4. ASSUME NEW i \in S PROVE w[i] = f(i) /\ w[i] \in Nat
  BY <1>3, GetRegType DEF Words16, Size
<1>5. \A i \in S : w[i] \in Nat
  BY <1>4
<1> HIDE DEF f, w, S
<1>6. \A g : Is(g) <=> Of(g)
  BY <1>2, <1>4 DEF Recursion
<1>7. (\A g : Of(g) => g[S] = Total(w, S)) /\ \E g : Of(g)
  BY <1>3, <1>5, RecursionIs
<1> HIDE DEF Is, Of
<1>8. Is(G)
  BY <1>6, <1>7
<1>9. G[S] = Total(w, S)
  BY <1>6, <1>7, <1>8
<1>10. Total(w, S) \in Nat
  BY <1>3, <1>5, TotalOfPowers
<1> QED BY <1>1, <1>9, <1>10 DEF S, w

(* The bytes of a long the other way round                                 *)
Turned32(x) == MapThenSumSet(LAMBDA i : ByteOf(x, i) * Mod(3 - i), 0 .. 3)
Turn32(x)   == [i \in 0 .. 3 |-> ByteOf(x, i) * Mod(3 - i)]

(* BSWAP builds a total of four bytes.                                     *)
LEMMA TurnedIs ==
  ASSUME NEW x \in Int
  PROVE  /\ Turned32(x) = Total(Turn32(x), 0 .. 3) /\ Turned32(x) \in Nat
         /\ \A i \in 0 .. 3 : Turn32(x)[i] \in Nat
<1> DEFINE S == 0 .. 3
           w == Turn32(x)
           f(i) == ByteOf(x, i) * Mod(3 - i)
           Is(G) == G = [s \in SUBSET S |-> IF s = {} THEN 0
                           ELSE f(CHOOSE y \in s : TRUE) + G[s \ {CHOOSE y \in s : TRUE}]]
           Of(G) == Recursion(G, S, w)
           G == CHOOSE g : Is(g)
<1>1. Turned32(x) = G[S]
  BY DEF Turned32, MapThenSumSet, MapThenFoldSet
<1>2. \A s \in SUBSET S : s # {} => (CHOOSE y \in s : TRUE) \in S
  OBVIOUS
<1>3. IsFiniteSet(S)
  BY UpToFinite, Zenon
<1>4. ASSUME NEW i \in S PROVE w[i] = f(i) /\ w[i] \in Nat
  <2>1. ByteOf(x, i) \in Nat /\ Mod(3 - i) \in Nat
    <3>1. i \in Nat /\ 3 - i \in Nat
      OBVIOUS
    <3>2. ByteOf(x, i) \in Byte
      BY <3>1, ByteOfType
    <3> QED BY <3>1, <3>2, ModType, ModValues DEF Byte
  <2> QED BY <2>1, ProductIsNat DEF Turn32
<1>5. \A i \in S : w[i] \in Nat
  BY <1>4
<1> HIDE DEF f, w, S
<1>6. \A g : Is(g) <=> Of(g)
  BY <1>2, <1>4 DEF Recursion
<1>7. (\A g : Of(g) => g[S] = Total(w, S)) /\ \E g : Of(g)
  BY <1>3, <1>5, RecursionIs
<1> HIDE DEF Is, Of
<1>8. Is(G)
  BY <1>6, <1>7
<1>9. G[S] = Total(w, S)
  BY <1>6, <1>7, <1>8
<1>10. Total(w, S) \in Nat
  BY <1>3, <1>5, TotalOfPowers
<1> QED BY <1>1, <1>5, <1>9, <1>10 DEF S, w

-----------------------------------------------------------------------------
(* Addresses                                                               *)
LEMMA RemType ==
  ASSUME NEW x \in Int, NEW k \in Nat
  PROVE  x % Mod(k) \in Int /\ x % Mod(k) \in Nat /\ x % Mod(k) \in 0 .. (Mod(k) - 1)
<1>1. Mod(k) \in Nat \ {0}
  BY ModType
<1>2. x % Mod(k) \in 0 .. (Mod(k) - 1)
  BY <1>1, DivMod
<1> QED BY <1>1, <1>2

(* Sign extension finds an integer.                                        *)
LEMMA SignedType ==
  ASSUME NEW v \in Int, NEW k \in Nat
  PROVE  Signed(v, k) \in Int
<1>1. Mod(k) \in Nat \ {0}
  BY ModType
<1>2. v % Mod(k) \in Int
  BY <1>1, DivMod, SMTT(60)
<1> QED BY <1>1, <1>2 DEF Signed

(* The fields of an operand.                                               *)
LEMMA OperandIs ==
  ASSUME NEW o \in Operands
  PROVE  /\ o.mod \in 0 .. 3 /\ o.rm \in Gpr /\ o.r \in Gpr /\ o.scale \in 0 .. 3 /\ o.index \in Gpr
         /\ o.base \in Gpr /\ o.disp \in Long /\ o.addr32 \in BOOLEAN
         /\ o.over \in (Seg \ {LDT}) \cup {None} /\ o # None
BY OperandAssumption DEF Operand

IsAt(a) == a.ofs \in Long /\ a.ss \in BOOLEAN /\ a.len \in 0 .. 6

(* At() builds an address of at most six bytes of code.                    *)
LEMMA AtIs ==
  ASSUME NEW x \in Int, NEW ss \in BOOLEAN, NEW len \in 0 .. 6
  PROVE  IsAt(At(x, ss, len))
BY LongHolds DEF IsAt, At

(* A SIB byte, with four bytes of displacement or without.                 *)
LEMMA SibIs ==
  ASSUME NEW m, IsMachine(m), NEW o \in Operands
  PROVE  /\ IsAt(Sib(m, o)) /\ Sib(m, o).len \in 0 .. 5
         /\ o.mod # 0 => Sib(m, o).len = 1
<1> DEFINE absolute == o.base = BP /\ o.mod = 0
           base     == IF absolute THEN Raw(o, 4) ELSE m.reg[o.base]
           index    == IF o.index = SP THEN 0 ELSE m.reg[o.index] * 2 ^ o.scale
           ss       == o.base \in {SP, BP} /\ ~absolute
           len      == IF absolute THEN 5 ELSE 1
<1>1. \A r \in Gpr : m.reg[r] \in Nat
  BY ModValues DEF IsMachine, Long
<1>2. base \in Int
  BY <1>1, OperandIs, ModValues, LongHolds DEF Raw, Long
<1>3. index \in Int
  <2>1. 2 ^ o.scale \in Nat
    BY OperandIs, PowerIsNat
  <2> QED BY <1>1, <2>1, OperandIs, ProductIsNat
<1>4. ss \in BOOLEAN /\ len \in 0 .. 5 /\ len \in 0 .. 6 /\ (o.mod # 0 => len = 1)
  OBVIOUS
<1>5. Sib(m, o) = At(base + index, ss, len)
  BY DEF Sib
<1> HIDE DEF absolute, base, index, ss, len
<1>6. base + index \in Int
  BY <1>2, <1>3
<1>7. IsAt(Sib(m, o))
  BY <1>4, <1>5, <1>6, AtIs
<1>8. Sib(m, o).len = len
  BY <1>5 DEF At
<1> QED BY <1>4, <1>7, <1>8

(* An address is a long and at most six bytes of code.                     *)
LEMMA AddressIs ==
  ASSUME NEW m, IsMachine(m), NEW o \in Operands, o.mod # 3
  PROVE  IsAt(Address(m, o))
<1>1. \A r \in Gpr : m.reg[r] \in Nat
  BY ModValues DEF IsMachine, Long
<1>2. /\ o.mod \in 0 .. 3 /\ o.rm \in Gpr /\ o.r \in Gpr /\ o.disp \in Long /\ o.addr32 \in BOOLEAN
      /\ o.disp \in Int
  BY OperandIs, ModValues DEF Long
<1>3. Sum16(m, o.rm) \in Nat
  BY <1>2, Sum16Is
<1>4. IsAt(Sib(m, o)) /\ (o.mod # 0 => Sib(m, o).len = 1)
  BY SibIs
<1>5. ASSUME NEW k \in Nat PROVE o.disp % Mod(k) \in Int /\ Disp(o, k) \in Int
  BY <1>2, SignedType, RemType DEF Disp
<1>6. ASSUME NEW x \in Int PROVE x % Mod(2) \in Int
  BY RemType
<1>7. o.mod = 0 => IsAt(Rm00(m, o))
  <2> SUFFICES ASSUME o.mod = 0 PROVE IsAt(Rm00(m, o))
    OBVIOUS
  <2>1. CASE o.addr32
    <3>1. Raw(o, 4) \in Int /\ m.reg[o.rm] \in Int
      BY <1>1, <1>2, <1>5 DEF Raw
    <3>2. IsAt(At(Raw(o, 4), FALSE, 4)) /\ IsAt(At(m.reg[o.rm], FALSE, 0))
      <4>1. FALSE \in BOOLEAN /\ 4 \in 0 .. 6 /\ 0 \in 0 .. 6
        OBVIOUS
      <4> QED BY <3>1, <4>1, AtIs
    <3> QED BY <1>4, <2>1, <3>2 DEF Rm00
  <2>2. CASE ~o.addr32
    <3>1. Raw(o, 2) \in Int /\ Sum16(m, o.rm) % Mod(2) \in Int
      BY <1>3, <1>5, <1>6 DEF Raw
    <3>2. (BP \in Pairs[o.rm]) \in BOOLEAN
      OBVIOUS
    <3>3. IsAt(At(Raw(o, 2), FALSE, 2)) /\ IsAt(At(Sum16(m, o.rm) % Mod(2), BP \in Pairs[o.rm], 0))
      <4>1. FALSE \in BOOLEAN /\ 2 \in 0 .. 6 /\ 0 \in 0 .. 6
        OBVIOUS
      <4> QED BY <3>1, <3>2, <4>1, AtIs
    <3> QED BY <2>2, <3>3 DEF Rm00
  <2> QED BY <2>1, <2>2
<1>8. ASSUME NEW k \in {1, 2, 4}, o.mod # 0 PROVE IsAt(Displaced(m, o, k))
  <2>1. CASE o.addr32
    <3>1. m.reg[o.rm] + Disp(o, k) \in Int /\ Sib(m, o).ofs + Disp(o, k) \in Int
      BY <1>1, <1>2, <1>4, <1>5, ModValues DEF IsAt, Long
    <3>2. (o.rm = BP) \in BOOLEAN /\ k \in 0 .. 6 /\ Sib(m, o).len + k \in 0 .. 6 /\ Sib(m, o).ss \in BOOLEAN
      BY <1>4, <1>8 DEF IsAt
    <3>3. /\ IsAt(At(Sib(m, o).ofs + Disp(o, k), Sib(m, o).ss, Sib(m, o).len + k))
          /\ IsAt(At(m.reg[o.rm] + Disp(o, k), o.rm = BP, k))
      BY <3>1, <3>2, AtIs
    <3> QED BY <2>1, <3>3 DEF Displaced
  <2>2. CASE ~o.addr32
    <3>1. Sum16(m, o.rm) + Disp(o, k) \in Int
      BY <1>3, <1>5
    <3>2. (Sum16(m, o.rm) + Disp(o, k)) % Mod(2) \in Int /\ (BP \in Pairs[o.rm]) \in BOOLEAN /\ k \in 0 .. 6
      BY <1>6, <3>1
    <3>3. IsAt(At((Sum16(m, o.rm) + Disp(o, k)) % Mod(2), BP \in Pairs[o.rm], k))
      BY <3>2, AtIs
    <3> QED BY <2>2, <3>3 DEF Displaced
  <2> QED BY <2>1, <2>2
<1>9. o.mod # 0 => IsAt(Rm01(m, o)) /\ IsAt(Rm10(m, o))
  BY <1>8 DEF Rm01, Rm10
<1> QED BY <1>2, <1>7, <1>9 DEF Address

(* The place, and what its bytes tell, for the machine at hand             *)
LEMMA PlaceIs ==
  ASSUME NEW m, IsMachine(m), NEW o \in Operands
  PROVE  IsPlace(Place(m, o)) /\ (o.mod = 3 => Place(m, o) = InReg(o.rm))
                              /\ (o.mod # 3 => Place(m, o).seg \in Seg)
<1>1. o.mod = 3 => IsPlace(Place(m, o)) /\ Place(m, o) = InReg(o.rm)
  BY OperandIs DEF Place, InReg, IsPlace
<1>2. o.mod # 3 => IsPlace(Place(m, o)) /\ Place(m, o).seg \in Seg
  <2> SUFFICES ASSUME o.mod # 3 PROVE IsPlace(Place(m, o)) /\ Place(m, o).seg \in Seg
    OBVIOUS
  <2> DEFINE a == Address(m, o)
             s == DataSegment(o.over, Head(seg_ss) \/ a.ss)
  <2>1. a.ofs \in Int
    BY AddressIs, ModValues DEF IsAt, Long
  <2>2. s \in Seg
    BY OperandIs, OperandAssumption DEF DataSegment, Seg, SS, DS
  <2>3. Place(m, o) = InMem(s, a.ofs)
    BY DEF Place
  <2> HIDE DEF a, s
  <2>4. Place(m, o).seg = s /\ Place(m, o).ofs = a.ofs % Mod(4)
    BY <2>3 DEF InMem
  <2> QED BY <2>1, <2>2, <2>4, LongHolds DEF IsPlace
<1> QED BY <1>1, <1>2

(* So is the length of an operand.                                         *)
LEMMA LengthIs ==
  ASSUME IsMachine(cpu), NEW o \in Operands
  PROVE  Length(o) \in 0 .. 6 /\ MarksSs(o) \in BOOLEAN
BY AddressIs, OperandIs DEF Length, MarksSs, Head, IsAt

-----------------------------------------------------------------------------
(* What instructions are made of: flags, then one write                    *)
LEMMA AlikeSelf ==
  ASSUME NEW m, IsMachine(m)
  PROVE  Alike(m, m)
BY DEF Alike

(* Storing after a change of flags or a fault.                             *)
LEMMA StoreAfter ==
  ASSUME NEW m, IsMachine(m), NEW c, Alike(m, c), NEW p, IsPlace(p), NEW k \in Size, NEW v \in Int
  PROVE  Only(m, Store(c, p, k, v), PlaceRegs(p, k), PlaceMem(m, p, k))
<1>1. IsMachine(c) /\ c.seg = m.seg /\ Only(m, c, {}, {})
  BY OnlyAlike DEF Alike
<1>2. Only(c, Store(c, p, k, v), PlaceRegs(p, k), PlaceMem(c, p, k))
  BY <1>1, StoreOnly
<1>3. PlaceMem(c, p, k) = PlaceMem(m, p, k)
  BY <1>1 DEF PlaceMem, Cells, Cell
<1>4. Only(m, Store(c, p, k, v), {} \cup PlaceRegs(p, k), {} \cup PlaceMem(c, p, k))
  BY <1>1, <1>2, OnlyChain
<1>5. {} \cup PlaceRegs(p, k) = PlaceRegs(p, k) /\ {} \cup PlaceMem(c, p, k) = PlaceMem(m, p, k)
  BY <1>3
<1> QED BY <1>4, <1>5

(* Writing a register after a change of flags or a fault.                  *)
LEMMA SetRegAfter ==
  ASSUME NEW m, IsMachine(m), NEW c, Alike(m, c), NEW r \in Gpr, NEW k \in Size, NEW v \in Int
  PROVE  Only(m, SetReg(c, r, k, v), {<<r, k>>}, {})
<1>1. IsMachine(c) /\ Only(m, c, {}, {})
  BY OnlyAlike DEF Alike
<1>2. Only(c, SetReg(c, r, k, v), {<<r, k>>}, {})
  BY <1>1, SetRegOnly
<1>3. Only(m, SetReg(c, r, k, v), {} \cup {<<r, k>>}, {} \cup {})
  BY <1>1, <1>2, OnlyChain
<1>4. {} \cup {<<r, k>>} = {<<r, k>>} /\ {} \cup {} = {}
  OBVIOUS
<1> QED BY <1>3, <1>4

(* Writing a register after another step.                                  *)
LEMMA SetRegThen ==
  ASSUME NEW m, NEW c, NEW W, NEW A, Only(m, c, W, A), NEW r \in Gpr, NEW k \in Size, NEW v \in Int
  PROVE  Only(m, SetReg(c, r, k, v), W \cup {<<r, k>>}, A)
<1>1. IsMachine(c)
  BY DEF Only
<1>2. Only(c, SetReg(c, r, k, v), {<<r, k>>}, {})
  BY <1>1, SetRegOnly
<1>3. Only(m, SetReg(c, r, k, v), W \cup {<<r, k>>}, A \cup {})
  BY <1>2, OnlyChain
<1>4. A \cup {} = A
  OBVIOUS
<1> QED BY <1>3, <1>4

(* CMP writes nothing, the others their destination.                       *)
LEMMA ArithOnly ==
  ASSUME NEW m, IsMachine(m), NEW c, Alike(m, c), NEW op, NEW p, IsPlace(p), NEW k \in Size,
         NEW d \in Int, NEW s \in Int
  PROVE  /\ op = "cmp" => Only(m, Arith(c, op, p, k, d, s), {}, {})
         /\ op # "cmp" => Only(m, Arith(c, op, p, k, d, s), PlaceRegs(p, k), PlaceMem(m, p, k))
<1> DEFINE cf == Sum(op, d, s) \notin 0 .. (Mod(k) - 1)
           zf == Sum(op, d, s) % Mod(k) = 0
<1>1. cf \in BOOLEAN /\ zf \in BOOLEAN /\ Sum(op, d, s) \in Int
  BY DEF Sum
<1>2. \A y : ArithFlags(y, op, d, s, k) = Flagged(y, cf, zf)
  BY DEF ArithFlags
<1> HIDE DEF cf, zf
<1>3. ASSUME NEW y, Alike(m, y) PROVE Alike(m, Flagged(y, cf, zf))
  <2>1. IsMachine(y)
    BY <1>3 DEF Alike
  <2>2. Alike(y, Flagged(y, cf, zf))
    BY <1>1, <2>1, WithFlags
  <2> QED BY <1>3, <2>2 DEF Alike
<1>4. op = "cmp" => Only(m, Arith(c, op, p, k, d, s), {}, {})
  <2>1. IsMachine(c)
    BY DEF Alike
  <2>2. Alike(c, Check(c, p, k))
    BY <2>1, WithCheck
  <2>3. Alike(m, Check(c, p, k))
    BY <2>2 DEF Alike
  <2>4. Only(m, Flagged(Check(c, p, k), cf, zf), {}, {})
    BY <1>3, <2>3, OnlyAlike
  <2> QED BY <1>2, <2>4 DEF Arith
<1>5. op # "cmp" => Only(m, Arith(c, op, p, k, d, s), PlaceRegs(p, k), PlaceMem(m, p, k))
  <2>1. Alike(m, Flagged(c, cf, zf))
    BY <1>3
  <2>2. Only(m, Store(Flagged(c, cf, zf), p, k, Sum(op, d, s)), PlaceRegs(p, k), PlaceMem(m, p, k))
    BY <1>1, <2>1, StoreAfter
  <2> QED BY <1>2, <2>2 DEF Arith
<1> QED BY <1>4, <1>5

-----------------------------------------------------------------------------
(* Results are numbers.                                                    *)
LEMMA BitType ==
  ASSUME NEW v, NEW n
  PROVE  Bit(v, n) \in BOOLEAN
BY DEF Bit

(* Turning finds an integer.                                               *)
LEMMA TurnedType ==
  ASSUME NEW v \in Int, NEW n \in Int, NEW w \in Nat \ {0}
  PROVE  Turned(v, n, w) \in Int
<1>1. n % w \in 0 .. (w - 1)
  BY DivMod
<1>2. n % w \in Nat /\ w - (n % w) \in Nat
  BY <1>1
<1>3. 2 ^ (n % w) \in Nat \ {0} /\ 2 ^ (w - (n % w)) \in Nat \ {0} /\ 2 ^ w \in Nat \ {0}
  BY <1>2, PowerIsNat
<1>4. \A x, y \in Int : x * y \in Int
  BY SMT
<1>5. v * 2 ^ (n % w) \in Int
  BY <1>3, <1>4
<1>6. (v * 2 ^ (n % w)) % 2 ^ w \in Int /\ v \div 2 ^ (w - (n % w)) \in Int
  BY <1>3, <1>5, DivMod
<1> QED BY <1>6 DEF Turned

(* Rotating finds an integer and a carry.                                  *)
LEMMA RotatedType ==
  ASSUME NEW op \in {"rol", "ror", "rcl", "rcr"}, NEW v \in Int, NEW n \in Nat, NEW w \in Nat \ {0},
         NEW cf \in BOOLEAN
  PROVE  Rotated(op, v, n, w, cf).val \in Int /\ Rotated(op, v, n, w, cf).cf \in BOOLEAN
<1> DEFINE u == v + (IF cf THEN 2 ^ w ELSE 0)
           t == CASE op = "rol" -> Turned(v, n, w)     [] op = "ror" -> Turned(v, w - (n % w), w)
                  [] op = "rcl" -> Turned(u, n, w + 1) [] op = "rcr" -> Turned(u, w + 1 - (n % (w + 1)), w + 1)
           b == CASE op = "rol" -> 0 [] op = "ror" -> w - 1 [] OTHER -> w
<1>1. 2 ^ w \in Nat \ {0} /\ u \in Int
  BY PowerIsNat
<1>2. w + 1 \in Nat \ {0} /\ n \in Int
  OBVIOUS
<1>3. n % w \in Int /\ n % (w + 1) \in Int
  BY <1>2, DivMod
<1>4. w - (n % w) \in Int /\ w + 1 - (n % (w + 1)) \in Int
  BY <1>3
<1> HIDE DEF u
<1>5. /\ Turned(v, n, w) \in Int /\ Turned(v, w - (n % w), w) \in Int
      /\ Turned(u, n, w + 1) \in Int /\ Turned(u, w + 1 - (n % (w + 1)), w + 1) \in Int
  BY <1>1, <1>2, <1>4, TurnedType
<1>6. t \in Int
  BY <1>5
<1>7. Rotated(op, v, n, w, cf) = [val |-> t % 2 ^ w, cf |-> IF n = 0 THEN cf ELSE Bit(t, b)]
  BY DEF Rotated, u
<1> HIDE DEF t, b
<1>8. t % 2 ^ w \in Int
  BY <1>1, <1>6, DivMod
<1>9. (IF n = 0 THEN cf ELSE Bit(t, b)) \in BOOLEAN
  BY BitType
<1>10. Rotated(op, v, n, w, cf).cf = IF n = 0 THEN cf ELSE Bit(t, b)
  BY <1>7
<1> QED BY <1>7, <1>8, <1>9, <1>10

(* Changing a bit finds an integer.                                        *)
LEMMA WithBitType ==
  ASSUME NEW op, NEW v \in Int, NEW n \in Nat
  PROVE  WithBit(op, v, n) \in Int
<1>1. 2 ^ n \in Int
  BY PowerIsNat
<1> DEFINE on == CASE op = "bt" -> Bit(v, n) [] op = "bts" -> TRUE
                   [] op = "btr" -> FALSE [] op = "btc" -> ~Bit(v, n)
<1>3. v + (IF on THEN 2 ^ n ELSE 0) - (IF Bit(v, n) THEN 2 ^ n ELSE 0) \in Int
  <2> HIDE DEF on
  <2>1. (IF on THEN 2 ^ n ELSE 0) \in Int /\ (IF Bit(v, n) THEN 2 ^ n ELSE 0) \in Int
    BY <1>1
  <2> QED BY <2>1
<1> QED BY <1>3 DEF WithBit

(* Least and greatest element of a bounded set.                            *)
LEMMA LeastAndMost ==
  ASSUME NEW w \in Nat, NEW S \in SUBSET (0 .. w), S # {}
  PROVE  Min(S) \in Int /\ Max(S) \in Int
<1>1. Min(S) \in S
  <2>1. S \in SUBSET Nat
    OBVIOUS
  <2>2. \E n \in S : \A m \in S : n <= m
    BY <2>1, LeastNumber
  <2> QED BY <2>2 DEF Min
<1>2. Max(S) \in S
  <2> DEFINE T == {w - x : x \in S}
  <2>1. T \in SUBSET Nat /\ T # {}
    <3>1. \A x \in S : w - x \in Nat
      BY SMT
    <3>2. \A y \in T : y \in Nat
      BY <3>1
    <3>3. PICK x \in S : TRUE
      OBVIOUS
    <3>4. w - x \in T
      OBVIOUS
    <3> QED BY <3>2, <3>4
  <2>2. PICK n \in T : \A m \in T : n <= m
    BY <2>1, LeastNumber
  <2>3. PICK x \in S : n = w - x
    BY <2>2
  <2>4. \A y \in S : y <= x
    BY <2>2, <2>3
  <2> QED BY <2>4 DEF Max
<1>3. \A x \in S : x \in Int
  OBVIOUS
<1> QED BY <1>1, <1>2, <1>3

(* A scan finds an integer.                                                *)
LEMMA ScannedType ==
  ASSUME NEW op, NEW v \in Int, NEW k \in Nat
  PROVE  Scanned(op, v, k) \in Int
<1> DEFINE on == {n \in 0 .. (Width(k) - 1) : Bit(v, n)}
<1>1. Width(k) \in Nat
  BY WidthType
<1>2. on \cup {Width(k)} \in SUBSET (0 .. Width(k)) /\ on \cup {0} \in SUBSET (0 .. Width(k))
  BY <1>1
<1>3. Min(on \cup {Width(k)}) \in Int /\ Max(on \cup {0}) \in Int
  BY <1>1, <1>2, LeastAndMost
<1> QED BY <1>3 DEF Scanned

-----------------------------------------------------------------------------
(* The inductive invariant: with the types, what the last instruction      *)
(* named and that it changed only its targets.                             *)
IInv ==
  /\ TypeOK
  /\ ins.o \in Operands \cup {None} /\ ins.k \in Size
  /\ OnlyTarget

(* RegsWritten of an instruction                                           *)
Targets(op, k, o, p) ==
  UNION {{<<r, k>> : r \in {x \in {p.ofs} : op \in ToPlace /\ p.seg = None}},
         {<<r, k>> : r \in {x \in {IF o = None THEN AX ELSE o.r} : op \in ToReg}},
         {<<AX, k>> : x \in {1} \cap (IF op \in {"moffs", "xchgax", "cbw", "xlat"} THEN {1} ELSE {})},
         {<<p.ofs, k>> : x \in {1} \cap (IF op \in {"xchgax", "movri", "bswap", "cwd"} THEN {1} ELSE {})}}

TargetMem(op, k, p) == IF op \in ToPlace THEN PlaceMem(cpu, p, k) ELSE {}

(* An instruction that turns the machine into m and keeps to its targets   *)
Fine(op, k, o, p, m) ==
  /\ k \in Size /\ o \in Operands \cup {None} /\ IsPlace(p)
  /\ Only(cpu, m, Targets(op, k, o, p), TargetMem(op, k, p))

(* Which registers an instruction may write, by its name.                  *)
LEMMA TargetsHold ==
  ASSUME NEW op, NEW k, NEW o, NEW p
  PROVE  /\ op \in ToPlace => PlaceRegs(p, k) \subseteq Targets(op, k, o, p)
         /\ op \in ToReg => <<IF o = None THEN AX ELSE o.r, k>> \in Targets(op, k, o, p)
         /\ op \in {"moffs", "xchgax", "cbw", "xlat"} => <<AX, k>> \in Targets(op, k, o, p)
         /\ op \in {"xchgax", "movri", "bswap", "cwd"} => <<p.ofs, k>> \in Targets(op, k, o, p)
<1> DEFINE T1 == {<<r, k>> : r \in {x \in {p.ofs} : op \in ToPlace /\ p.seg = None}}
           T2 == {<<r, k>> : r \in {x \in {IF o = None THEN AX ELSE o.r} : op \in ToReg}}
           T3 == {<<AX, k>> : x \in {1} \cap (IF op \in {"moffs", "xchgax", "cbw", "xlat"} THEN {1} ELSE {})}
           T4 == {<<p.ofs, k>> : x \in {1} \cap (IF op \in {"xchgax", "movri", "bswap", "cwd"} THEN {1} ELSE {})}
<1>1. op \in ToPlace => PlaceRegs(p, k) \subseteq T1
  BY DEF PlaceRegs
<1>2. op \in ToReg => <<IF o = None THEN AX ELSE o.r, k>> \in T2
  OBVIOUS
<1>3. op \in {"moffs", "xchgax", "cbw", "xlat"} => <<AX, k>> \in T3
  OBVIOUS
<1>4. op \in {"xchgax", "movri", "bswap", "cwd"} => <<p.ofs, k>> \in T4
  OBVIOUS
<1>5. Targets(op, k, o, p) = UNION {T1, T2, T3, T4}
  BY DEF Targets
<1> HIDE DEF T1, T2, T3, T4
<1> QED BY <1>1, <1>2, <1>3, <1>4, <1>5

(* An instruction that writes nothing stays within its targets.            *)
LEMMA FineNothing ==
  ASSUME IsMachine(cpu), NEW op, NEW k \in Size, NEW o \in Operands \cup {None}, NEW p, IsPlace(p),
         NEW c, Alike(cpu, c)
  PROVE  Fine(op, k, o, p, c)
<1>1. Only(cpu, c, {}, {})
  BY OnlyAlike
<1>2. Only(cpu, c, Targets(op, k, o, p), TargetMem(op, k, p))
  BY <1>1, OnlyMore
<1> QED BY <1>2 DEF Fine

(* So does one that stores at its place.                                   *)
LEMMA FineStore ==
  ASSUME IsMachine(cpu), NEW op \in ToPlace, NEW k \in Size, NEW o \in Operands \cup {None},
         NEW p, IsPlace(p), NEW m, Only(cpu, m, PlaceRegs(p, k), PlaceMem(cpu, p, k))
  PROVE  Fine(op, k, o, p, m)
<1>1. PlaceRegs(p, k) \subseteq Targets(op, k, o, p) /\ PlaceMem(cpu, p, k) \subseteq TargetMem(op, k, p)
  BY TargetsHold DEF TargetMem
<1>2. Only(cpu, m, Targets(op, k, o, p), TargetMem(op, k, p))
  BY <1>1, OnlyMore
<1> QED BY <1>2 DEF Fine

(* So does one that writes one register.                                   *)
LEMMA FineReg ==
  ASSUME IsMachine(cpu), NEW op, NEW k \in Size, NEW o \in Operands \cup {None},
         NEW p, IsPlace(p), NEW r \in Gpr, NEW m, Only(cpu, m, {<<r, k>>}, {}),
         \/ op \in ToReg /\ r = IF o = None THEN AX ELSE o.r
         \/ op \in {"moffs", "xchgax", "cbw", "xlat"} /\ r = AX
         \/ op \in {"xchgax", "movri", "bswap", "cwd"} /\ r = p.ofs
  PROVE  Fine(op, k, o, p, m)
<1>1. {<<r, k>>} \subseteq Targets(op, k, o, p) /\ {} \subseteq TargetMem(op, k, p)
  BY TargetsHold
<1>2. Only(cpu, m, Targets(op, k, o, p), TargetMem(op, k, p))
  BY <1>1, OnlyMore
<1> QED BY <1>2 DEF Fine

(* An instruction within its targets keeps the invariant.                  *)
LEMMA DidInv ==
  ASSUME IInv, NEW op, NEW k, NEW o, NEW p, NEW x, NEW m, Fine(op, k, o, p, m),
         Did(op, k, o, p, x, m), count' = count + 1, Running
  PROVE  IInv'
<1>1. /\ cpu' = m /\ ins' = [op |-> op, k |-> k, o |-> o, p |-> p, x |-> x,
                             len |-> IF o = None THEN 0 ELSE Length(o)]
      /\ seg_ss' = IF o = None THEN Head(seg_ss) ELSE MarksSs(o)
      /\ was' = cpu
  BY DEF Did
<1>2. ins'.op = op /\ ins'.k = k /\ ins'.o = o /\ ins'.p = p /\ ins'.len = IF o = None THEN 0 ELSE Length(o)
  BY <1>1
<1>3. IsMachine(cpu) /\ IsMachine(m)
  BY DEF IInv, TypeOK, Fine, Only
<1>4. o \in Operands \cup {None} /\ k \in Size /\ IsPlace(p)
  BY DEF Fine
<1>5. TypeOK'
  <2>1. IsMachine(cpu')
    BY <1>1, <1>3
  <2>2. seg_ss' \in BOOLEAN
    BY <1>1, <1>3, <1>4, LengthIs DEF Head
  <2>3. count' \in 0 .. MaxInstr
    BY OperandAssumption DEF IInv, TypeOK, Running
  <2>4. p.seg \in Seg \cup {None} /\ p.ofs \in Long
    BY <1>4, LongHolds DEF IsPlace
  <2>5. ins'.len \in 0 .. 6
    BY <1>2, <1>3, <1>4, LengthIs
  <2> QED BY <1>2, <2>1, <2>2, <2>3, <2>4, <2>5 DEF TypeOK, IsMachine
<1>6. RegsWritten' = Targets(op, k, o, p)
  BY <1>2 DEF RegsWritten, Targets
<1>7. OnlyTarget'
  <2> DEFINE W == Targets(op, k, o, p)
             A == TargetMem(op, k, p)
  <2>1. OnlyRegs(cpu, m, W) /\ OnlyMem(cpu, m, A) /\ m.seg = cpu.seg
    BY DEF Fine, Only
  <2> HIDE DEF W
  <2>2. \A r \in Gpr : m.reg[r] # cpu.reg[r] =>
          /\ \E w \in W : Part(w[1], w[2]).reg = r
          /\ \A n \in 0 .. (Width(4) - 1) : Bit(m.reg[r], n) # Bit(cpu.reg[r], n) =>
               \E w \in W : /\ Part(w[1], w[2]).reg = r
                            /\ 2 ^ n >= Part(w[1], w[2]).low
                            /\ 2 ^ n < Part(w[1], w[2]).low * Mod(w[2])
    BY <2>1 DEF OnlyRegs, Differ, Target, InPart
  <2>3. m.mem # cpu.mem =>
          /\ op \in ToPlace /\ p.seg # None
          /\ \A a \in DOMAIN m.mem \cup DOMAIN cpu.mem : MemAt(m, a) # MemAt(cpu, a) =>
               \E i \in 0 .. (k - 1) : a = Cell(cpu, p, i)
    BY <2>1 DEF OnlyMem, TargetMem, PlaceMem, Cells
  <2> HIDE DEF A
  <2>4. /\ \A r \in Gpr : cpu'.reg[r] # was'.reg[r] =>
             /\ \E w \in RegsWritten' : Part(w[1], w[2]).reg = r
             /\ \A n \in 0 .. (Width(4) - 1) : Bit(cpu'.reg[r], n) # Bit(was'.reg[r], n) =>
                  \E w \in RegsWritten' :
                    /\ Part(w[1], w[2]).reg = r
                    /\ 2 ^ n >= Part(w[1], w[2]).low
                    /\ 2 ^ n < Part(w[1], w[2]).low * Mod(w[2])
    BY <1>1, <1>6, <2>2 DEF W
  <2>5. cpu'.mem # was'.mem =>
          /\ ins'.op \in ToPlace /\ ins'.p.seg # None
          /\ \A a \in DOMAIN cpu'.mem \cup DOMAIN was'.mem : MemAt(cpu', a) # MemAt(was', a) =>
               \E i \in 0 .. (ins'.k - 1) : a = Cell(was', ins'.p, i)
    BY <1>1, <1>2, <2>3
  <2>6. cpu'.seg = was'.seg
    BY <1>1, <2>1
  <2> QED BY <2>4, <2>5, <2>6 DEF OnlyTarget, Bit, MemAt, Cell
<1> QED BY <1>2, <1>4, <1>5, <1>7 DEF IInv

(* Instructions of one store, of one write to a register, and of neither   *)
LEMMA StoreInv ==
  ASSUME IInv, Running, count' = count + 1, NEW op \in ToPlace, NEW k \in Size,
         NEW o \in Operands \cup {None}, NEW p, IsPlace(p), NEW c, Alike(cpu, c), NEW v \in Int, NEW x,
         Did(op, k, o, p, x, Store(c, p, k, v))
  PROVE  IInv'
<1>1. IsMachine(cpu)
  BY DEF IInv, TypeOK
<1>2. Only(cpu, Store(c, p, k, v), PlaceRegs(p, k), PlaceMem(cpu, p, k))
  BY <1>1, StoreAfter
<1>3. Fine(op, k, o, p, Store(c, p, k, v))
  BY <1>1, <1>2, FineStore
<1> QED BY <1>3, DidInv

(* One that writes a register keeps it.                                    *)
LEMMA RegInv ==
  ASSUME IInv, Running, count' = count + 1, NEW op, NEW k \in Size,
         NEW o \in Operands \cup {None}, NEW p, IsPlace(p), NEW c, Alike(cpu, c),
         NEW r \in Gpr, NEW v \in Int, NEW x,
         \/ op \in ToReg /\ r = IF o = None THEN AX ELSE o.r
         \/ op \in {"moffs", "xchgax", "cbw", "xlat"} /\ r = AX
         \/ op \in {"xchgax", "movri", "bswap", "cwd"} /\ r = p.ofs,
         Did(op, k, o, p, x, SetReg(c, r, k, v))
  PROVE  IInv'
<1>1. IsMachine(cpu)
  BY DEF IInv, TypeOK
<1>2. Only(cpu, SetReg(c, r, k, v), {<<r, k>>}, {})
  BY <1>1, SetRegAfter
<1>3. Fine(op, k, o, p, SetReg(c, r, k, v))
  BY <1>1, <1>2, FineReg
<1> QED BY <1>3, DidInv

(* One that writes nothing keeps it.                                       *)
LEMMA NothingInv ==
  ASSUME IInv, Running, count' = count + 1, NEW op, NEW k \in Size,
         NEW o \in Operands \cup {None}, NEW p, IsPlace(p), NEW c, Alike(cpu, c), NEW x,
         Did(op, k, o, p, x, c)
  PROVE  IInv'
<1>1. IsMachine(cpu)
  BY DEF IInv, TypeOK
<1>2. Fine(op, k, o, p, c)
  BY <1>1, FineNothing
<1> QED BY <1>2, DidInv

(* What the instructions of an operand start from                          *)
LEMMA OperandFacts ==
  ASSUME IsMachine(cpu), NEW k \in Size, NEW o \in Operands
  PROVE  /\ IsPlace(Place(cpu, o)) /\ o \in Operands \cup {None} /\ o # None
         /\ o.r \in Gpr /\ GetReg(cpu, o.r, k) \in Int /\ Load(cpu, Place(cpu, o), k) \in Int
         /\ Alike(cpu, cpu) /\ Alike(cpu, Check(cpu, Place(cpu, o), k))
<1>1. IsPlace(Place(cpu, o))
  BY PlaceIs
<1>2. o.r \in Gpr /\ o # None
  BY OperandIs
<1>3. GetReg(cpu, o.r, k) \in Nat /\ Load(cpu, Place(cpu, o), k) \in Nat
  BY <1>1, <1>2, GetRegType, LoadType
<1> QED BY <1>1, <1>2, <1>3, AlikeSelf, WithCheck

(* The instructions that move operands keep it.                            *)
LEMMA MovesInv ==
  ASSUME IInv, Running, NEW k \in Size, NEW o \in Operands, Moves(k, o)
  PROVE  IInv'
<1> DEFINE p == Place(cpu, o)
<1>1. IsMachine(cpu)
  BY DEF IInv, TypeOK
<1>2. /\ IsPlace(p) /\ o \in Operands \cup {None} /\ o # None
      /\ o.r \in Gpr /\ Alike(cpu, cpu)
  BY <1>1, OperandFacts
<1>3. \A j \in Size : GetReg(cpu, o.r, j) \in Int /\ Load(cpu, p, j) \in Int /\ Alike(cpu, Check(cpu, p, j))
  BY <1>1, OperandFacts
<1>4. ASSUME NEW c, Alike(cpu, c) PROVE Alike(cpu, Raise(c, "UD"))
  <2>1. IsMachine(c)
    BY <1>4 DEF Alike
  <2>2. Alike(c, Raise(c, "UD"))
    BY <2>1, WithIntr
  <2> QED BY <1>4, <2>2 DEF Alike
<1>5. o.r = IF o = None THEN AX ELSE o.r
  BY <1>2
<1> HIDE DEF p
<1>6. ASSUME MovToRm(k, o) PROVE IInv'
  <2>1. count' = count + 1 /\ Did("mov", k, o, p, 0, Store(cpu, p, k, GetReg(cpu, o.r, k)))
    BY <1>6 DEF MovToRm, Goes, p
  <2>2. "mov" \in ToPlace
    BY DEF ToPlace
  <2> QED BY <1>2, <1>3, <2>1, <2>2, StoreInv
<1>7. ASSUME MovToReg(k, o) PROVE IInv'
  <2>1. count' = count + 1 /\ Did("load", k, o, p, 0, SetReg(Check(cpu, p, k), o.r, k, Load(cpu, p, k)))
    BY <1>7 DEF MovToReg, Goes, p
  <2>2. "load" \in ToReg
    BY DEF ToReg
  <2> QED BY <1>2, <1>3, <1>5, <2>1, <2>2, RegInv
<1>8. ASSUME Xchg(k, o) PROVE IInv'
  <2> DEFINE s == Store(cpu, p, k, GetReg(cpu, o.r, k))
             m == SetReg(s, o.r, k, Load(cpu, p, k))
  <2>1. count' = count + 1 /\ Did("xchg", k, o, p, 0, m)
    BY <1>8 DEF Xchg, Goes, p
  <2>2. Only(cpu, s, PlaceRegs(p, k), PlaceMem(cpu, p, k))
    BY <1>1, <1>2, <1>3, StoreAfter
  <2> HIDE DEF s
  <2>3. Only(cpu, m, PlaceRegs(p, k) \cup {<<o.r, k>>}, PlaceMem(cpu, p, k))
    BY <1>2, <1>3, <2>2, SetRegThen
  <2>4. "xchg" \in ToPlace /\ "xchg" \in ToReg
    BY DEF ToPlace, ToReg
  <2>5. /\ PlaceRegs(p, k) \cup {<<o.r, k>>} \subseteq Targets("xchg", k, o, p)
        /\ PlaceMem(cpu, p, k) \subseteq TargetMem("xchg", k, p)
    BY <1>2, <2>4, TargetsHold DEF TargetMem
  <2>6. Only(cpu, m, Targets("xchg", k, o, p), TargetMem("xchg", k, p))
    BY <2>3, <2>5, OnlyMore
  <2> HIDE DEF m
  <2>7. Fine("xchg", k, o, p, m)
    BY <1>2, <2>6 DEF Fine
  <2> QED BY <2>1, <2>7, DidInv
<1>9. ASSUME NEW imm \in ImmArg, MovImm(k, o, imm) PROVE IInv'
  <2> DEFINE c == IF o.r # 0 THEN Raise(cpu, "UD") ELSE cpu
  <2>1. count' = count + 1
        /\ Did("movimm", k, o, p, imm, IF o.r # 0 /\ k = 1 THEN c ELSE Store(c, p, k, imm))
    BY <1>9 DEF MovImm, Goes, p
  <2>2. Alike(cpu, c) /\ "movimm" \in ToPlace /\ imm \in Int
    BY <1>2, <1>4, OperandAssumption, ModValues DEF ToPlace, Long
  <2> HIDE DEF c
  <2>3. CASE o.r # 0 /\ k = 1
    <3>1. Did("movimm", k, o, p, imm, c)
      BY <2>1, <2>3
    <3> QED BY <1>2, <2>1, <2>2, <3>1, NothingInv
  <2>4. CASE ~(o.r # 0 /\ k = 1)
    <3>1. Did("movimm", k, o, p, imm, Store(c, p, k, imm))
      BY <2>1, <2>4
    <3> QED BY <1>2, <2>1, <2>2, <3>1, StoreInv
  <2> QED BY <2>3, <2>4
<1>10. ASSUME MovFromSeg(k, o) PROVE IInv'
  <2> DEFINE s == IF o.r > GS THEN LDT ELSE o.r
             c == IF o.r > GS THEN Raise(cpu, "UD") ELSE cpu
             j == IF o.mod = 3 THEN k ELSE 2
  <2>1. count' = count + 1 /\ Did("movsr", j, o, p, 0, Store(c, p, j, cpu.seg[s].sel))
    BY <1>10 DEF MovFromSeg, Goes, p
  <2>2. Alike(cpu, c) /\ "movsr" \in ToPlace /\ j \in Size
    BY <1>2, <1>4 DEF ToPlace, Size
  <2>3. cpu.seg[s].sel \in Int
    <3>1. s \in Seg
      BY <1>2 DEF Gpr, Seg, GS, LDT
    <3>2. cpu.seg[s].sel \in Word
      BY <1>1, <3>1 DEF IsMachine
    <3> QED BY <3>2, ModValues DEF Word
  <2> HIDE DEF c, j, s
  <2> QED BY <1>2, <2>1, <2>2, <2>3, StoreInv
<1>11. ASSUME Lea(k, o) PROVE IInv'
  <2> DEFINE c == Raise(cpu, "UD")
  <2>1. /\ count' = count + 1
        /\ Did("lea", k, o, p, 0, IF o.mod = 3 THEN c ELSE SetReg(cpu, o.r, k, Address(cpu, o).ofs))
    BY <1>11 DEF Lea, Goes, p
  <2>2. Alike(cpu, c) /\ "lea" \in ToReg
    BY <1>2, <1>4 DEF ToReg
  <2> HIDE DEF c
  <2>3. CASE o.mod = 3
    <3>1. Did("lea", k, o, p, 0, c)
      BY <2>1, <2>3
    <3> QED BY <1>2, <2>1, <2>2, <3>1, NothingInv
  <2>4. CASE o.mod # 3
    <3>1. Did("lea", k, o, p, 0, SetReg(cpu, o.r, k, Address(cpu, o).ofs))
      BY <2>1, <2>4
    <3>2. Address(cpu, o).ofs \in Int
      BY <1>1, <2>4, AddressIs, ModValues DEF IsAt, Long
    <3> QED BY <1>2, <1>5, <2>1, <2>2, <3>1, <3>2, RegInv
  <2> QED BY <2>3, <2>4
<1>12. ASSUME NEW cond \in BOOLEAN, Cmov(k, o, cond) PROVE IInv'
  <2>1. /\ count' = count + 1 /\ "cmov" \in ToReg
        /\ \/ Did("cmov", k, o, p, 0, SetReg(Check(cpu, p, k), o.r, k, Load(cpu, p, k)))
           \/ Did("cmov", k, o, p, 0, cpu)
    BY <1>12 DEF Cmov, Goes, p, ToReg
  <2>2. CASE Did("cmov", k, o, p, 0, SetReg(Check(cpu, p, k), o.r, k, Load(cpu, p, k)))
    BY <1>2, <1>3, <1>5, <2>1, <2>2, RegInv
  <2>3. CASE Did("cmov", k, o, p, 0, cpu)
    BY <1>2, <2>1, <2>3, NothingInv
  <2> QED BY <2>1, <2>2, <2>3
<1>13. ASSUME NEW j \in {1, 2}, MovZx(k, j, o) \/ MovSx(k, j, o) PROVE IInv'
  <2>1. j \in Size /\ "movzx" \in ToReg /\ "movsx" \in ToReg
    BY DEF Size, ToReg
  <2>2. Load(cpu, p, j) \in Int /\ Signed(Load(cpu, p, j), j) \in Int /\ Alike(cpu, Check(cpu, p, j))
    BY <1>3, <2>1, SignedType
  <2>3. CASE MovZx(k, j, o)
    <3>1. count' = count + 1 /\ Did("movzx", k, o, p, j, SetReg(Check(cpu, p, j), o.r, k, Load(cpu, p, j)))
      BY <2>3 DEF MovZx, Goes, p
    <3> QED BY <1>2, <1>5, <2>1, <2>2, <3>1, RegInv
  <2>4. CASE MovSx(k, j, o)
    <3>1. /\ count' = count + 1
          /\ Did("movsx", k, o, p, j, SetReg(Check(cpu, p, j), o.r, k, Signed(Load(cpu, p, j), j)))
      BY <2>4 DEF MovSx, Goes, p
    <3> QED BY <1>2, <1>5, <2>1, <2>2, <3>1, RegInv
  <2> QED BY <1>13, <2>3, <2>4
<1> QED BY <1>6, <1>7, <1>8, <1>9, <1>10, <1>11, <1>12, <1>13 DEF Moves

(* Arithmetic on a place: CMP writes nothing.                              *)
LEMMA ArithInv ==
  ASSUME IInv, Running, count' = count + 1, NEW op, NEW as, NEW k \in Size,
         NEW o \in Operands \cup {None}, NEW p, IsPlace(p), NEW q, IsPlace(q), NEW c, Alike(cpu, c),
         NEW d \in Int, NEW s \in Int, NEW x,
         op = "cmp" \/ (as \in ToPlace /\ q = p) \/ (as \in ToReg /\ o # None /\ q = InReg(o.r)),
         Did(as, k, o, p, x, Arith(c, op, q, k, d, s))
  PROVE  IInv'
<1> DEFINE m == Arith(c, op, q, k, d, s)
<1>1. IsMachine(cpu)
  BY DEF IInv, TypeOK
<1>2. /\ op = "cmp" => Only(cpu, m, {}, {})
      /\ op # "cmp" => Only(cpu, m, PlaceRegs(q, k), PlaceMem(cpu, q, k))
  BY <1>1, ArithOnly
<1>3. Did(as, k, o, p, x, m)
  OBVIOUS
<1> HIDE DEF m
<1>4. CASE op = "cmp"
  <2>1. Only(cpu, m, Targets(as, k, o, p), TargetMem(as, k, p))
    BY <1>2, <1>4, OnlyMore
  <2>2. Fine(as, k, o, p, m)
    BY <2>1 DEF Fine
  <2> QED BY <1>3, <2>2, DidInv
<1>5. CASE op # "cmp" /\ as \in ToPlace /\ q = p
  <2>1. Fine(as, k, o, p, m)
    BY <1>1, <1>2, <1>5, FineStore
  <2> QED BY <1>3, <2>1, DidInv
<1>6. CASE op # "cmp" /\ as \in ToReg /\ o # None /\ q = InReg(o.r)
  <2>1. o.r \in Gpr
    BY <1>6, OperandIs
  <2>2. PlaceRegs(q, k) = {<<o.r, k>>} /\ PlaceMem(cpu, q, k) = {}
    BY <1>6 DEF PlaceRegs, PlaceMem, InReg
  <2>3. Fine(as, k, o, p, m)
    <3>1. Only(cpu, m, {<<o.r, k>>}, {})
      BY <1>2, <1>6, <2>2
    <3> QED BY <1>1, <1>6, <2>1, <3>1, FineReg
  <2> QED BY <1>3, <2>3, DidInv
<1> QED BY <1>4, <1>5, <1>6

(* Bit instructions: BT writes nothing but CF.                             *)
LEMMA BitInv ==
  ASSUME IInv, Running, count' = count + 1, NEW op \in {"bt", "bts", "btr", "btc"}, NEW as,
         NEW k \in Size, NEW o \in Operands \cup {None}, NEW p, IsPlace(p), NEW n \in Nat, NEW x,
         op = "bt" \/ as \in ToPlace,
         Did(as, k, o, p, x, BitDone(op, p, k, n))
  PROVE  IInv'
<1> DEFINE v == Load(cpu, p, k)
           c == [Check(cpu, p, k) EXCEPT !.cf = Bit(v, n)]
<1>1. IsMachine(cpu)
  BY DEF IInv, TypeOK
<1>2. v \in Int
  BY <1>1, LoadType
<1>3. BitDone(op, p, k, n) = IF op = "bt" THEN c ELSE Store(c, p, k, WithBit(op, v, n))
  BY DEF BitDone
<1> HIDE DEF v
<1>4. Alike(cpu, c)
  <2>1. Alike(cpu, Check(cpu, p, k))
    BY <1>1, WithCheck
  <2>2. IsMachine(Check(cpu, p, k)) /\ Bit(v, n) \in BOOLEAN
    BY <2>1, BitType DEF Alike
  <2>3. \A b \in BOOLEAN : Alike(Check(cpu, p, k), [Check(cpu, p, k) EXCEPT !.cf = b])
    BY <2>2, WithFlags
  <2>4. Alike(Check(cpu, p, k), c)
    BY <2>2, <2>3
  <2> QED BY <2>1, <2>4 DEF Alike
<1>5. WithBit(op, v, n) \in Int
  BY <1>2, WithBitType
<1> HIDE DEF c
<1>6. CASE op = "bt"
  <2>1. Did(as, k, o, p, x, c)
    BY <1>3, <1>6
  <2> QED BY <1>4, <2>1, NothingInv
<1>7. CASE op # "bt"
  <2>1. Did(as, k, o, p, x, Store(c, p, k, WithBit(op, v, n)))
    BY <1>3, <1>7
  <2> QED BY <1>4, <1>5, <1>7, <2>1, StoreInv
<1> QED BY <1>6, <1>7

(* The instructions that change operands keep it.                          *)
LEMMA ChangesInv ==
  ASSUME IInv, Running, NEW k \in Size, NEW o \in Operands, Changes(k, o)
  PROVE  IInv'
<1> DEFINE p == Place(cpu, o)
           d == Load(cpu, p, k)
           g == GetReg(cpu, o.r, k)
<1>1. IsMachine(cpu)
  BY DEF IInv, TypeOK
<1>2. /\ IsPlace(p) /\ o \in Operands \cup {None} /\ o # None
      /\ o.r \in Gpr /\ g \in Int /\ d \in Int /\ Alike(cpu, cpu) /\ Alike(cpu, Check(cpu, p, k))
      /\ p = Place(cpu, o)
  BY <1>1, OperandFacts
<1>3. o.r = IF o = None THEN AX ELSE o.r
  BY <1>2
<1>4. cpu.cf \in BOOLEAN
  BY <1>1 DEF IsMachine
<1>5. IsPlace(InReg(o.r))
  BY <1>2 DEF IsPlace, InReg
<1>6. \A imm \in ImmArg : imm \in Int
  BY OperandAssumption, ModValues DEF Long
<1>7. /\ o.mod = 3 => p = InReg(o.rm)
      /\ o.mod # 3 => p.seg \in Seg
  BY <1>1, PlaceIs
<1>8. Width(k) \in Nat \ {0}
  BY WidthType DEF Size
<1> HIDE DEF p, d, g
<1>9. ASSUME NEW op \in Arithmetics, ArithToRm(op, k, o) PROVE IInv'
  <2>1. count' = count + 1 /\ Did(op, k, o, p, g, Arith(cpu, op, p, k, d, g))
    BY <1>9 DEF ArithToRm, Goes, p, d, g
  <2>2. op = "cmp" \/ op \in ToPlace
    BY DEF Arithmetics, ToPlace
  <2> QED BY <1>2, <2>1, <2>2, ArithInv
<1>10. ASSUME NEW op \in Arithmetics, ArithToReg(op, k, o) PROVE IInv'
  <2> DEFINE as == IF op = "cmp" THEN "cmp" ELSE "arith"
  <2>1. count' = count + 1 /\ Did(as, k, o, p, d, Arith(Check(cpu, p, k), op, InReg(o.r), k, g, d))
    BY <1>10 DEF ArithToReg, Goes, p, d, g
  <2>2. op = "cmp" \/ as \in ToReg
    BY DEF ToReg
  <2> HIDE DEF as
  <2> QED BY <1>2, <1>5, <2>1, <2>2, ArithInv
<1>11. ASSUME NEW imm \in ImmArg, NEW short \in BOOLEAN, ArithImm(k, o, imm, short) PROVE IInv'
  <2> DEFINE s  == (IF short THEN Signed(imm, 1) ELSE imm) % Mod(k)
             op == CASE o.r = 0 -> "add" [] o.r = 5 -> "sub" [] o.r = 7 -> "cmp"
             as == IF op = "cmp" THEN "cmp" ELSE "arithi"
  <2>1. count' = count + 1 /\ Did(as, k, o, p, s, Arith(cpu, op, p, k, d, s))
    BY <1>11 DEF ArithImm, Goes, p, d
  <2>2. op = "cmp" \/ as \in ToPlace
    BY DEF ToPlace
  <2>3. s \in Int
    <3>1. imm \in Int /\ Signed(imm, 1) \in Int
      BY <1>6, SignedType
    <3>2. (IF short THEN Signed(imm, 1) ELSE imm) \in Int
      BY <3>1
    <3> QED BY <3>2, RemType DEF Size
  <2> HIDE DEF as, op, s
  <2> QED BY <1>2, <2>1, <2>2, <2>3, ArithInv
<1>12. ASSUME NEW x \in ImmArg \cup {GetReg(cpu, o.r, k)}, Test(k, o, x) PROVE IInv'
  <2> DEFINE both == \E n \in 0 .. (Width(k) - 1) : Bit(d, n) /\ Bit(x % Mod(k), n)
             c == Flagged(Check(cpu, p, k), FALSE, ~both)
  <2>1. count' = count + 1 /\ Did("test", k, o, p, x, c)
    BY <1>12 DEF Test, Goes, p, d
  <2>2. Alike(cpu, c)
    <3>1. IsMachine(Check(cpu, p, k)) /\ FALSE \in BOOLEAN /\ (~both) \in BOOLEAN
      BY <1>2 DEF Alike
    <3>2. Alike(Check(cpu, p, k), c)
      <4> HIDE DEF both
      <4> QED BY <3>1, WithFlags
    <3> QED BY <1>2, <3>2 DEF Alike
  <2> HIDE DEF c
  <2> QED BY <1>2, <2>1, <2>2, NothingInv
<1>13. ASSUME NEW op \in {"rol", "ror", "rcl", "rcr"}, NEW n \in Nat, Rotate(op, k, o, n) PROVE IInv'
  <2> DEFINE t == Rotated(op, d, n, Width(k), cpu.cf)
             c == [cpu EXCEPT !.cf = t.cf]
  <2>1. count' = count + 1 /\ Did(op, k, o, p, n, Store(c, p, k, t.val))
    BY <1>13 DEF Rotate, Goes, p, d
  <2>2. t.val \in Int /\ t.cf \in BOOLEAN
    BY <1>2, <1>4, <1>8, RotatedType
  <2> HIDE DEF t
  <2>3. Alike(cpu, c)
    <3>1. \A b \in BOOLEAN : Alike(cpu, [cpu EXCEPT !.cf = b])
      BY <1>1, WithFlags
    <3> QED BY <2>2, <3>1
  <2>4. op \in ToPlace
    BY DEF ToPlace
  <2> HIDE DEF c
  <2> QED BY <1>2, <2>1, <2>2, <2>3, <2>4, StoreInv
<1>14. ASSUME NEW op \in {"rol", "ror", "rcl", "rcr"}, RotateImm(op, k, o) \/ RotateCl(op, k, o) PROVE IInv'
  <2>1. GetReg(cpu, CX, 1) \in Nat
    BY <1>1, GetRegType DEF CX, Gpr, Size
  <2>2. \E n \in Nat : Rotate(op, k, o, n)
    BY <1>14, <2>1, OperandAssumption DEF RotateImm, RotateCl
  <2> QED BY <1>13, <2>2
<1>15. ASSUME NotRm(k, o) PROVE IInv'
  <2>1. count' = count + 1 /\ Did("not", k, o, p, 0, Store(cpu, p, k, -1 - d)) /\ "not" \in ToPlace
    BY <1>15 DEF NotRm, Goes, p, d, ToPlace
  <2>2. -1 - d \in Int
    BY <1>2
  <2> QED BY <1>2, <2>1, <2>2, StoreInv
<1>16. ASSUME NegRm(k, o) PROVE IInv'
  <2> DEFINE c == Flagged(cpu, d # 0, d = 0)
  <2>1. count' = count + 1 /\ Did("neg", k, o, p, 0, Store(c, p, k, -d)) /\ "neg" \in ToPlace
    BY <1>16 DEF NegRm, Goes, p, d, ToPlace
  <2>2. -d \in Int /\ Alike(cpu, c)
    <3>1. (d # 0) \in BOOLEAN /\ (d = 0) \in BOOLEAN /\ -d \in Int
      BY <1>2
    <3> QED BY <1>1, <3>1, WithFlags
  <2> HIDE DEF c
  <2> QED BY <1>2, <2>1, <2>2, StoreInv
<1>17. ASSUME NEW op \in {"inc", "dec"}, StepRm(op, k, o) PROVE IInv'
  <2> DEFINE n == d + (IF op = "inc" THEN 1 ELSE -1)
             c == Flagged(cpu, cpu.cf, n % Mod(k) = 0)
  <2>1. count' = count + 1 /\ Did(op, k, o, p, 0, Store(c, p, k, n)) /\ op \in ToPlace
    BY <1>17 DEF StepRm, Goes, p, d, ToPlace
  <2>2. n \in Int
    BY <1>2
  <2> HIDE DEF n
  <2>3. Alike(cpu, c)
    <3>1. (n % Mod(k) = 0) \in BOOLEAN
      OBVIOUS
    <3> QED BY <1>1, <1>4, <3>1, WithFlags
  <2> HIDE DEF c
  <2> QED BY <1>2, <2>1, <2>2, <2>3, StoreInv
<1>18. ASSUME k = 1, NEW cond \in BOOLEAN, SetCc(o, cond) PROVE IInv'
  <2> DEFINE v == IF cond THEN 1 ELSE 0
  <2>1. count' = count + 1 /\ Did("setcc", k, o, p, 0, Store(cpu, p, k, v)) /\ "setcc" \in ToPlace
    BY <1>18 DEF SetCc, Goes, p, ToPlace
  <2>2. v \in Int
    OBVIOUS
  <2> HIDE DEF v
  <2> QED BY <1>2, <2>1, <2>2, StoreInv
<1>19. ASSUME NEW op \in {"bt", "bts", "btr", "btc"}, BitReg(op, k, o) PROVE IInv'
  <2> DEFINE x == Signed(g, k)
             j == x \div BitStep(op, k)
             q == IF o.mod = 3 THEN p ELSE InMem(p.seg, p.ofs + j)
             n == x % Width(k)
  <2>1. count' = count + 1 /\ Did(op, k, o, q, x, BitDone(op, q, k, n))
    BY <1>19 DEF BitReg, Goes, p, g
  <2>2. op = "bt" \/ op \in ToPlace
    BY DEF ToPlace
  <2>3. x \in Int
    BY <1>2, SignedType DEF Size
  <2>4. BitStep(op, k) \in Nat \ {0}
    BY <1>8, WidthType DEF BitStep
  <2>5. j \in Int /\ n \in Nat
    <3>1. j \in Int
      BY <2>3, <2>4, DivMod
    <3>2. n \in 0 .. (Width(k) - 1)
      BY <1>8, <2>3, DivMod
    <3> QED BY <1>8, <3>1, <3>2
  <2> HIDE DEF x, j, n
  <2>6. IsPlace(q)
    <3>1. CASE o.mod = 3
      BY <1>2, <3>1
    <3>2. CASE o.mod # 3
      <4>1. p.seg \in Seg /\ p.ofs \in Int
        BY <1>2, <1>7, <3>2, OperandAssumption, ModValues DEF IsPlace, Long
      <4>2. (p.ofs + j) % Mod(4) \in Long
        BY <2>5, <4>1, LongHolds
      <4>3. q = [seg |-> p.seg, ofs |-> (p.ofs + j) % Mod(4)]
        BY <3>2 DEF InMem
      <4> QED BY <4>1, <4>2, <4>3 DEF IsPlace
    <3> QED BY <3>1, <3>2
  <2> HIDE DEF q
  <2> QED BY <1>2, <2>1, <2>2, <2>5, <2>6, BitInv
<1>20. ASSUME NEW op \in {"bt", "bts", "btr", "btc"}, NEW imm \in ImmArg, BitImm(op, k, o, imm) PROVE IInv'
  <2> DEFINE w == Width(IF o.mod = 3 THEN 4 ELSE k)
             n == imm % w
             c == [cpu EXCEPT !.cf = FALSE]
  <2>1. count' = count + 1
        /\ Did("biti", k, o, p, n, IF n < Width(k) THEN BitDone(op, p, k, n) ELSE c)
    BY <1>20 DEF BitImm, Goes, p
  <2>2. w \in Nat \ {0}
    BY <1>8, WidthType
  <2>3. n \in Nat
    <3>1. n \in 0 .. (w - 1)
      BY <1>6, <2>2, DivMod
    <3> QED BY <2>2, <3>1
  <2>4. "biti" \in ToPlace
    BY DEF ToPlace
  <2>5. Alike(cpu, c)
    <3>1. FALSE \in BOOLEAN
      OBVIOUS
    <3> QED BY <1>1, <3>1, WithFlags
  <2> HIDE DEF n, c
  <2>6. CASE n < Width(k)
    <3>1. Did("biti", k, o, p, n, BitDone(op, p, k, n))
      BY <2>1, <2>6
    <3> QED BY <1>2, <2>1, <2>3, <2>4, <3>1, BitInv
  <2>7. CASE ~(n < Width(k))
    <3>1. Did("biti", k, o, p, n, c)
      BY <2>1, <2>7
    <3> QED BY <1>2, <2>1, <2>5, <3>1, NothingInv
  <2> QED BY <2>6, <2>7
<1>21. ASSUME NEW op \in {"bsf", "bsr"}, Scan(op, k, o) PROVE IInv'
  <2> DEFINE c == [Check(cpu, p, k) EXCEPT !.zf = (d = 0)]
             v == Scanned(op, d, k)
  <2>1. count' = count + 1 /\ Did(op, k, o, p, 0, SetReg(c, o.r, k, v)) /\ op \in ToReg
    BY <1>21 DEF Scan, Goes, p, d, ToReg
  <2>2. v \in Int
    BY <1>2, ScannedType DEF Size
  <2>3. Alike(cpu, c)
    <3>1. IsMachine(Check(cpu, p, k)) /\ (d = 0) \in BOOLEAN
      BY <1>2 DEF Alike
    <3>2. \A b \in BOOLEAN : Alike(Check(cpu, p, k), [Check(cpu, p, k) EXCEPT !.zf = b])
      BY <3>1, WithFlags
    <3>3. Alike(Check(cpu, p, k), c)
      BY <3>1, <3>2
    <3> QED BY <1>2, <3>3 DEF Alike
  <2> HIDE DEF c, v
  <2> QED BY <1>2, <1>3, <2>1, <2>2, <2>3, RegInv
<1> QED BY <1>9, <1>10, <1>11, <1>12, <1>14, <1>15, <1>16, <1>17, <1>18, <1>19, <1>20, <1>21 DEF Changes

(* An offset of the data segment is a place.                               *)
LEMMA DataPlaceIs ==
  ASSUME NEW over \in {None, ES}, NEW x \in Int
  PROVE  IsPlace(InMem(DataSegment(over, Head(seg_ss)), x))
<1>1. DataSegment(over, Head(seg_ss)) \in Seg
  BY DEF DataSegment, Head, Seg, ES, DS
<1>2. x % Mod(4) \in Long
  BY LongHolds
<1>3. /\ InMem(DataSegment(over, Head(seg_ss)), x).seg = DataSegment(over, Head(seg_ss))
      /\ InMem(DataSegment(over, Head(seg_ss)), x).ofs = x % Mod(4)
  BY DEF InMem
<1> QED BY <1>1, <1>2, <1>3 DEF IsPlace

(* Registers and numbers as operands.                                      *)
LEMMA RegisterFacts ==
  ASSUME IsMachine(cpu)
  PROVE  /\ AX \in Gpr /\ BX \in Gpr /\ DX \in Gpr /\ None \in Operands \cup {None} /\ Alike(cpu, cpu)
         /\ \A r \in Gpr : IsPlace(InReg(r)) /\ InReg(r).ofs = r /\ cpu.reg[r] \in Int
         /\ \A imm \in ImmArg \cup DispArg : imm \in Int
<1>1. \A imm \in ImmArg \cup DispArg : imm \in Int
  BY OperandAssumption, ModValues DEF Long
<1>2. \A r \in Gpr : cpu.reg[r] \in Int
  BY ModValues DEF IsMachine, Long
<1> QED BY <1>1, <1>2, AlikeSelf DEF AX, BX, DX, Gpr, IsPlace, InReg

(* INC and DEC of registers keep the invariant.                            *)
LEMMA StepRegInv ==
  ASSUME IInv, Running, NEW k \in Size, NEW r \in Gpr, NEW op \in {"incr", "decr"}, NEW n \in Int,
         StepReg(op, k, r, n)
  PROVE  IInv'
<1> DEFINE c == Flagged(cpu, cpu.cf, n % Mod(k) = 0)
<1>1. IsMachine(cpu)
  BY DEF IInv, TypeOK
<1>2. Alike(cpu, c)
  <2>1. cpu.cf \in BOOLEAN /\ (n % Mod(k) = 0) \in BOOLEAN
    BY <1>1 DEF IsMachine
  <2> QED BY <1>1, <2>1, WithFlags
<1>3. count' = count + 1 /\ Did(op, k, None, InReg(r), 0, SetReg(c, r, k, n)) /\ op \in ToPlace
  BY DEF StepReg, Goes, ToPlace
<1> HIDE DEF c
<1>4. IsPlace(InReg(r)) /\ None \in Operands \cup {None}
  BY <1>1, RegisterFacts
<1>5. SetReg(c, r, k, n) = Store(c, InReg(r), k, n)
  BY DEF Store, InReg
<1>6. Did(op, k, None, InReg(r), 0, Store(c, InReg(r), k, n))
  BY <1>3, <1>5
<1> QED BY <1>2, <1>3, <1>4, <1>6, StoreInv

(* So do the instructions without ModRM byte.                              *)
LEMMA AccumulatorInv ==
  ASSUME IInv, Running, NEW k \in Size, Accumulator(k)
  PROVE  IInv'
<1> DEFINE g(r) == GetReg(cpu, r, k)
<1>1. IsMachine(cpu)
  BY DEF IInv, TypeOK
<1>2. /\ AX \in Gpr /\ BX \in Gpr /\ DX \in Gpr /\ None \in Operands \cup {None} /\ Alike(cpu, cpu)
      /\ \A r \in Gpr : IsPlace(InReg(r)) /\ InReg(r).ofs = r /\ cpu.reg[r] \in Int
      /\ \A imm \in ImmArg \cup DispArg : imm \in Int
  BY <1>1, RegisterFacts
<1>3. ASSUME NEW r \in Gpr PROVE g(r) \in Int
  BY <1>1, GetRegType
<1> HIDE DEF g
<1>4. ASSUME NEW a \in DispArg, NEW addr32 \in BOOLEAN, NEW over \in {None, ES}, NEW toAcc \in BOOLEAN,
             MovAcc(k, a, addr32, over, toAcc)
      PROVE  IInv'
  <2> DEFINE x == a % Mod(IF addr32 THEN 4 ELSE 2)
             p == InMem(DataSegment(over, Head(seg_ss)), x)
             c == Check(cpu, p, k)
             v == Load(cpu, p, k)
  <2>1. /\ count' = count + 1
        /\ Did("moffs", k, None, p, x, IF toAcc THEN SetReg(c, AX, k, v) ELSE Store(cpu, p, k, g(AX)))
    BY <1>4 DEF MovAcc, Goes, g
  <2>2. x \in Int
    BY <1>2, RemType
  <2> HIDE DEF x
  <2>3. IsPlace(p)
    BY <2>2, DataPlaceIs
  <2> HIDE DEF p
  <2>4. Alike(cpu, c) /\ v \in Int /\ g(AX) \in Int
    BY <1>1, <1>2, <1>3, <2>3, WithCheck, LoadType
  <2> HIDE DEF c, v
  <2>5. CASE toAcc
    <3>1. Did("moffs", k, None, p, x, SetReg(c, AX, k, v))
      BY <2>1, <2>5
    <3> QED BY <1>2, <2>1, <2>3, <2>4, <3>1, RegInv
  <2>6. CASE ~toAcc
    <3>1. Did("moffs", k, None, p, x, Store(cpu, p, k, g(AX))) /\ "moffs" \in ToPlace
      BY <2>1, <2>6 DEF ToPlace
    <3> QED BY <1>2, <2>1, <2>3, <2>4, <3>1, StoreInv
  <2> QED BY <2>5, <2>6
<1>5. ASSUME NEW r \in Gpr, XchgAx(k, r) PROVE IInv'
  <2> DEFINE s == SetReg(cpu, AX, k, g(r))
             m == SetReg(s, r, k, g(AX))
             p == InReg(r)
  <2>1. count' = count + 1 /\ Did("xchgax", k, None, p, 0, m)
    BY <1>5 DEF XchgAx, Goes, g
  <2>2. Only(cpu, s, {<<AX, k>>}, {})
    BY <1>1, <1>2, <1>3, SetRegOnly
  <2> HIDE DEF s
  <2>3. Only(cpu, m, {<<AX, k>>} \cup {<<r, k>>}, {})
    BY <1>2, <1>3, <2>2, SetRegThen
  <2>4. {<<AX, k>>} \cup {<<r, k>>} \subseteq Targets("xchgax", k, None, p) /\ {} \subseteq TargetMem("xchgax", k, p)
    <3>1. "xchgax" \in {"moffs", "xchgax", "cbw", "xlat"} /\ "xchgax" \in {"xchgax", "movri", "bswap", "cwd"}
      OBVIOUS
    <3> QED BY <1>2, <3>1, TargetsHold
  <2>5. Only(cpu, m, Targets("xchgax", k, None, p), TargetMem("xchgax", k, p))
    BY <2>3, <2>4, OnlyMore
  <2> HIDE DEF m
  <2>6. Fine("xchgax", k, None, p, m)
    BY <1>2, <2>5 DEF Fine
  <2> QED BY <2>1, <2>6, DidInv
<1>6. ASSUME NEW r \in Gpr, NEW imm \in ImmArg, MovRegImm(k, r, imm) PROVE IInv'
  <2>1. count' = count + 1 /\ Did("movri", k, None, InReg(r), imm, SetReg(cpu, r, k, imm))
    BY <1>6 DEF MovRegImm, Goes
  <2>2. imm \in Int /\ IsPlace(InReg(r)) /\ r = InReg(r).ofs
    BY <1>2
  <2> QED BY <1>2, <2>1, <2>2, RegInv
<1>7. ASSUME NEW r \in Gpr, Bswap(k, r) PROVE IInv'
  <2> DEFINE v == Turned32(cpu.reg[r])
  <2>1. /\ k # 1 /\ count' = count + 1
        /\ Did("bswap", k, None, InReg(r), 0, IF k = 2 THEN cpu ELSE SetReg(cpu, r, 4, v))
    BY <1>7 DEF Bswap, Goes, Turned32
  <2>2. v \in Int
    BY <1>2, TurnedIs
  <2>3. IsPlace(InReg(r)) /\ r = InReg(r).ofs
    BY <1>2
  <2> HIDE DEF v
  <2>4. CASE k = 2
    <3>1. Did("bswap", k, None, InReg(r), 0, cpu)
      BY <2>1, <2>4
    <3> QED BY <1>2, <2>1, <2>3, <3>1, NothingInv
  <2>5. CASE k = 4
    <3>1. Did("bswap", k, None, InReg(r), 0, SetReg(cpu, r, k, v))
      BY <2>1, <2>5
    <3> QED BY <1>2, <2>1, <2>2, <2>3, <3>1, RegInv
  <2> QED BY <2>1, <2>4, <2>5 DEF Size
<1>8. ASSUME NEW op \in Arithmetics, NEW imm \in ImmArg, ArithAcc(op, k, imm) PROVE IInv'
  <2> DEFINE s == imm % Mod(k)
             p == InReg(AX)
  <2>1. count' = count + 1 /\ Did(op, k, None, p, imm, Arith(cpu, op, p, k, g(AX), s))
    BY <1>8 DEF ArithAcc, Goes, g
  <2>2. s \in Int /\ g(AX) \in Int /\ IsPlace(p)
    BY <1>2, <1>3, RemType DEF Size
  <2>3. op = "cmp" \/ op \in ToPlace
    BY DEF Arithmetics, ToPlace
  <2> HIDE DEF s, p
  <2> QED BY <1>2, <2>1, <2>2, <2>3, ArithInv
<1>9. ASSUME NEW r \in Gpr, IncReg(k, r) \/ DecReg(k, r) PROVE IInv'
  <2>1. g(r) + 1 \in Int /\ g(r) - 1 \in Int
    BY <1>3
  <2>2. StepReg("incr", k, r, g(r) + 1) \/ StepReg("decr", k, r, g(r) - 1)
    BY <1>9 DEF IncReg, DecReg, g
  <2> QED BY <2>1, <2>2, StepRegInv
<1>10. ASSUME Cbw(k) PROVE IInv'
  <2> DEFINE v == Signed(cpu.reg[AX], k \div 2)
  <2>1. count' = count + 1 /\ Did("cbw", k, None, InReg(AX), 0, SetReg(cpu, AX, k, v)) /\ k # 1
    BY <1>10 DEF Cbw, Goes
  <2>2. k \div 2 \in Nat
    BY DEF Size
  <2>3. v \in Int /\ IsPlace(InReg(AX))
    BY <1>2, <2>2, SignedType
  <2> HIDE DEF v
  <2> QED BY <1>2, <2>1, <2>3, RegInv
<1>11. ASSUME Cwd(k) PROVE IInv'
  <2> DEFINE v == IF Signed(cpu.reg[AX], k) < 0 THEN -1 ELSE 0
  <2>1. count' = count + 1 /\ Did("cwd", k, None, InReg(DX), 0, SetReg(cpu, DX, k, v))
    BY <1>11 DEF Cwd, Goes
  <2>2. v \in Int
    OBVIOUS
  <2>3. IsPlace(InReg(DX)) /\ DX = InReg(DX).ofs
    BY <1>2
  <2> HIDE DEF v
  <2> QED BY <1>2, <2>1, <2>2, <2>3, RegInv
<1> QED BY <1>4, <1>5, <1>6, <1>7, <1>8, <1>9, <1>10, <1>11 DEF Accumulator

(* So does XLAT.                                                           *)
LEMMA XlatInv ==
  ASSUME IInv, Running, NEW data32 \in BOOLEAN, NEW over \in {None, ES}, Xlat(data32, over)
  PROVE  IInv'
<1> DEFINE j == IF data32 THEN 4 ELSE 2
           a == GetReg(cpu, BX, j) + GetReg(cpu, AX, 1)
           b == IF data32 THEN a ELSE a % Mod(2)
           p == InMem(DataSegment(over, Head(seg_ss)), b)
<1>1. IsMachine(cpu)
  BY DEF IInv, TypeOK
<1>2. AX \in Gpr /\ BX \in Gpr /\ None \in Operands \cup {None} /\ 1 \in Size /\ j \in Size
  BY <1>1, RegisterFacts DEF Size
<1>3. count' = count + 1 /\ Did("xlat", 1, None, p, 0, SetReg(Check(cpu, p, 1), AX, 1, Load(cpu, p, 1)))
  BY DEF Xlat, Goes
<1> HIDE DEF j
<1>4. a \in Int
  <2>1. GetReg(cpu, BX, j) \in Nat /\ GetReg(cpu, AX, 1) \in Nat
    BY <1>1, <1>2, GetRegType
  <2> QED BY <2>1
<1> HIDE DEF a
<1>5. b \in Int
  BY <1>4, RemType
<1> HIDE DEF b
<1>6. IsPlace(p)
  BY <1>5, DataPlaceIs
<1> HIDE DEF p
<1>7. Load(cpu, p, 1) \in Int /\ Alike(cpu, Check(cpu, p, 1))
  BY <1>1, <1>2, <1>6, LoadType, WithCheck
<1> QED BY <1>2, <1>3, <1>6, <1>7, RegInv

-----------------------------------------------------------------------------
(* The invariant holds at the start ...                                    *)
LEMMA InitInv == Init => IInv
<1> SUFFICES ASSUME Init PROVE IInv
  OBVIOUS
<1>1. IsMachine(cpu) /\ cpu = was /\ seg_ss = FALSE /\ count = 0 /\ ins = Nothing
  BY OperandAssumption DEF Init
<1>2. ins.p.seg = None /\ ins.p.ofs = AX /\ ins.len = 0 /\ ins.o = None /\ ins.k = 1
  BY <1>1 DEF Nothing, InReg
<1>3. AX \in Long
  BY LongHolds DEF AX
<1>4. TypeOK
  <2>1. seg_ss \in BOOLEAN /\ count \in 0 .. MaxInstr
    <3>1. seg_ss \in BOOLEAN
      BY <1>1, Zenon
    <3>2. MaxInstr \in Nat
      BY OperandAssumption
    <3>3. count = 0
      BY <1>1
    <3>4. count \in 0 .. MaxInstr
      BY <3>2, <3>3
    <3> QED BY <3>1, <3>4
  <2>2. ins.p.seg \in Seg \cup {None} /\ ins.p.ofs \in Long /\ ins.len \in 0 .. 6
    BY <1>2, <1>3
  <2> QED BY <1>1, <2>1, <2>2 DEF TypeOK
<1>5. OnlyTarget
  BY <1>1 DEF OnlyTarget
<1> QED BY <1>2, <1>4, <1>5 DEF IInv, Size

(* ... and every step keeps it.                                            *)
LEMMA StepInv == IInv /\ [Next]_vars => IInv'
<1>1. ASSUME IInv, Next PROVE IInv'
  <2>1. Running
    BY <1>1 DEF Next
  <2>2. ASSUME NEW k \in Size, Accumulator(k) PROVE IInv'
    BY <1>1, <2>1, <2>2, AccumulatorInv
  <2>3. ASSUME NEW data32 \in BOOLEAN, NEW over \in {None, ES}, Xlat(data32, over) PROVE IInv'
    BY <1>1, <2>1, <2>3, XlatInv
  <2>4. ASSUME NEW k \in Size, NEW o \in Choice, Moves(k, o) \/ Changes(k, o) PROVE IInv'
    <3>1. o \in Operands
      BY <1>1 DEF Choice, IInv
    <3> QED BY <1>1, <2>1, <2>4, <3>1, MovesInv, ChangesInv
  <2> QED BY <1>1, <2>2, <2>3, <2>4 DEF Next
<1>2. ASSUME IInv, UNCHANGED vars PROVE IInv'
  BY <1>2 DEF vars, IInv, TypeOK, OnlyTarget, RegsWritten, MemAt, Cell, Bit, IsMachine
<1> QED BY <1>1, <1>2

(* The machine keeps its types whatever it executes: registers stay longs, *)
(* bytes bytes, and an instruction is at most six bytes behind its opcode. *)
THEOREM TypeCorrect == Spec => []TypeOK
<1>1. IInv => TypeOK
  BY DEF IInv
<1> QED BY InitInv, StepInv, <1>1, PTL DEF Spec

(* An instruction changes the named part of its target register and the    *)
(* bytes of its place, and nothing else (decode.c, the store_data_... and  *)
(* decode_rm_..._register functions), whatever the bits of a byte, the     *)
(* machine and the operand.                                                *)
THEOREM TargetOnly == Spec => []OnlyTarget
<1>1. IInv => OnlyTarget
  BY DEF IInv
<1> QED BY InitInv, StepInv, <1>1, PTL DEF Spec

-----------------------------------------------------------------------------
(* Remainders of sums, and what a displacement means                       *)
LEMMA RemTwice ==
  ASSUME NEW x \in Int, NEW y \in Int, NEW m \in Nat \ {0}
  PROVE  ((x % m) + y) % m = (x + y) % m
<1>1. PICK q \in Int, z \in 0 .. (m - 1) : z = x % m /\ x = m * q + z
  <2>1. x \div m \in Int /\ x % m \in 0 .. (m - 1) /\ x = m * (x \div m) + (x % m)
    BY DivMod
  <2> QED BY <2>1
<1>2. PICK p \in Int, u \in 0 .. (m - 1) : z + y = m * p + u /\ u = (z + y) % m
  <2>1. z + y \in Int
    OBVIOUS
  <2>2. (z + y) \div m \in Int /\ (z + y) % m \in 0 .. (m - 1) /\ z + y = m * ((z + y) \div m) + ((z + y) % m)
    BY <2>1, DivMod
  <2> QED BY <2>2
<1>3. x + y = m * (q + p) + u
  <2>1. \A a, b, c, d \in Int : a * b + (a * c + d) = a * (b + c) + d
    BY SMT
  <2>2. m * q + (m * p + u) = m * (q + p) + u
    BY <2>1
  <2>3. x + y = m * q + (z + y)
    BY <1>1
  <2> QED BY <1>2, <2>2, <2>3
<1>4. q + p \in Int
  OBVIOUS
<1>5. (m * (q + p) + u) % m = u
  BY <1>4, DivModUnique
<1> QED BY <1>1, <1>2, <1>3, <1>5

(* A remainder is its own remainder.                                       *)
LEMMA RemOfSmall ==
  ASSUME NEW m \in Nat \ {0}, NEW z \in 0 .. (m - 1)
  PROVE  z % m = z
<1>1. 0 \in Int /\ m * 0 + z = z
  BY SMT
<1>2. (m * 0 + z) % m = z
  BY <1>1, DivModUnique
<1> QED BY <1>1, <1>2

(* Moduli are even.                                                        *)
LEMMA HalfOfMod ==
  ASSUME NEW k \in Size
  PROVE  Mod(k) \div 2 \in Nat \ {0} /\ Mod(k) = 2 * (Mod(k) \div 2)
<1>1. Width(k) \in Nat /\ Width(k) > 0
  BY WidthType DEF Size
<1>2. Width(k) - 1 \in Nat /\ Width(k) = (Width(k) - 1) + 1
  BY <1>1
<1>3. 2 ^ ((Width(k) - 1) + 1) = 2 * 2 ^ (Width(k) - 1) /\ 2 ^ (Width(k) - 1) \in Nat \ {0}
  BY <1>2, PowerNext, PowerIsNat
<1>4. PICK h \in Nat \ {0} : Mod(k) = 2 * h
  BY <1>2, <1>3 DEF Mod
<1>5. (2 * h) \div 2 = h
  BY SMT
<1> QED BY <1>4, <1>5

(* The integer k bytes mean is their sign extension.                       *)
LEMMA MeaningIs ==
  ASSUME NEW v \in Int, NEW k \in Size
  PROVE  Meaning(v, k) = Signed(v, k) /\ Signed(v, k) \in Int
<1> DEFINE M == Mod(k)
           h == Mod(k) \div 2
           S == -h .. h - 1
           s == Signed(v, k)
           Q(i) == (v - i) % M = 0
<1>1. h \in Nat \ {0} /\ M = 2 * h /\ M \in Nat \ {0}
  BY HalfOfMod, LongHolds
<1>2. v % M \in 0 .. (M - 1) /\ v \div M \in Int /\ v = M * (v \div M) + (v % M)
  BY <1>1, DivMod
<1>3. s = v % M \/ s = (v % M) - M
  BY DEF Signed
<1>4. s \in S
  <2>1. s = IF (v % M) * 2 >= M THEN (v % M) - M ELSE v % M
    BY DEF Signed
  <2> HIDE DEF M, h, s
  <2> QED BY <1>1, <1>2, <2>1
<1>5. \E c \in Int : v - s = M * c
  <2> HIDE DEF M, s, h
  <2>1. PICK q \in Int, z \in 0 .. (M - 1) : z = v % M /\ v = M * q + z
    BY <1>2
  <2>2. CASE s = z
    <3>1. M * q \in Int
      BY <1>1
    <3>2. \A y, a, b \in Int : a = y + b => a - b = y
      OBVIOUS
    <3>3. z \in Int
      BY <1>1
    <3>4. v - z = M * q
      BY <2>1, <3>1, <3>2, <3>3
    <3> QED BY <2>2, <3>4
  <2>3. CASE s = z - M
    <3>1. \A a, b \in Int : a * b + a = a * (b + 1) /\ a * b \in Int
      BY SMT
    <3>2. M * (q + 1) = M * q + M /\ M * q \in Int
      BY <1>1, <3>1
    <3>3. v - s = M * (q + 1) /\ q + 1 \in Int
      BY <1>1, <2>1, <2>3, <3>2
    <3> QED BY <3>3
  <2> QED BY <1>3, <2>1, <2>2, <2>3
<1>6. PICK c \in Int : v - s = M * c
  BY <1>5
<1>7. \A i \in S : i \in Int
  BY <1>1
<1>8. s \in Int
  BY <1>4, <1>7
<1> HIDE DEF M, s
<1>9. Q(s)
  <2>1. (M * c + 0) % M = 0 /\ M * c + 0 = M * c
    <3>1. 0 \in 0 .. (M - 1) /\ M * c \in Int
      BY <1>1
    <3> QED BY <1>1, <3>1, DivModUnique
  <2> QED BY <1>6, <2>1
<1>10. ASSUME NEW i \in S, Q(i) PROVE i = s
  <2>1. i \in Int /\ v - i \in Int
    BY <1>7
  <2>2. (v - i) % M = 0
    BY <1>10
  <2>3. PICK d \in Int : v - i = M * d
    <3> DEFINE x == v - i
    <3>1. x \in Int /\ x % M = 0
      BY <2>1, <2>2
    <3> HIDE DEF x
    <3>2. x \div M \in Int /\ x = M * (x \div M) + (x % M)
      BY <1>1, <3>1, DivMod
    <3>3. x = M * (x \div M)
      BY <1>1, <3>1, <3>2
    <3> QED BY <3>2, <3>3 DEF x
  <2>4. M * (d - c) = s - i /\ M * (c - d) = i - s
    <3>1. \A a, x, y \in Int : a * (x - y) = a * x - a * y
      BY SMT
    <3>2. M * (d - c) = M * d - M * c /\ M * (c - d) = M * c - M * d
      BY <1>1, <3>1
    <3> QED BY <1>6, <1>8, <2>1, <2>3, <3>2
  <2>5. s - i < M /\ i - s < M
    BY <1>1, <1>4
  <2>6. \A a \in Nat \ {0} : \A x \in Int : x >= 1 => a * x >= a
    BY SMT
  <2>7. d - c \in Int /\ c - d \in Int /\ (d - c >= 1 \/ c - d >= 1 \/ d = c)
    OBVIOUS
  <2>8. ~(d - c >= 1)
    BY <1>1, <1>8, <2>1, <2>4, <2>5, <2>6, <2>7
  <2>9. ~(c - d >= 1)
    BY <1>1, <1>8, <2>1, <2>4, <2>5, <2>6, <2>7
  <2>10. d = c
    BY <2>7, <2>8, <2>9
  <2> QED BY <1>6, <1>8, <2>1, <2>3, <2>10
<1>11. Meaning(v, k) = CHOOSE i \in S : Q(i)
  BY DEF Meaning, M
<1> HIDE DEF Q, S
<1>12. (CHOOSE i \in S : Q(i)) = s
  BY <1>4, <1>9, <1>10
<1> QED BY <1>8, <1>11, <1>12 DEF s

(* Adding a displacement is adding its bytes, modulo the word.             *)
LEMMA SignedAdds ==
  ASSUME NEW x \in Int, NEW v \in Int, NEW k \in Size
  PROVE  (x + Signed(v, k)) % Mod(k) = (x + (v % Mod(k))) % Mod(k)
<1> DEFINE M == Mod(k)
           z == v % M
<1>1. M \in Nat \ {0}
  BY LongHolds
<1>2. z \in 0 .. (M - 1) /\ z \in Int
  BY <1>1, DivMod
<1>3. Signed(v, k) = z \/ Signed(v, k) = z - M
  BY DEF Signed
<1> HIDE DEF M, z
<1>4. (x + (z - M)) % M = (x + z) % M
  <2>1. x + z \in Int
    BY <1>2
  <2>2. PICK q \in Int, u \in 0 .. (M - 1) : u = (x + z) % M /\ x + z = M * q + u
    <3>1. (x + z) \div M \in Int /\ (x + z) % M \in 0 .. (M - 1) /\ x + z = M * ((x + z) \div M) + ((x + z) % M)
      BY <1>1, <2>1, DivMod
    <3> QED BY <3>1
  <2>3. x + (z - M) = M * (q - 1) + u
    <3>1. \A a, b \in Int : a * (b - 1) = a * b - a
      BY SMT
    <3>2. M * (q - 1) = M * q - M
      BY <1>1, <3>1
    <3> QED BY <1>1, <1>2, <2>2, <3>2
  <2>4. q - 1 \in Int
    OBVIOUS
  <2>5. (M * (q - 1) + u) % M = u
    BY <1>1, <2>4, DivModUnique
  <2> QED BY <2>2, <2>3, <2>5
<1> QED BY <1>3, <1>4 DEF M, z

-----------------------------------------------------------------------------
(* What an assembler writes for an operand, and that its address is that   *)
Decoded(m, o, t) ==
  LET k == IF o.addr32 THEN 4 ELSE 2
  IN  /\ t \in IF o.addr32 THEN Written32 ELSE Written16
      /\ Encodes(t, o)
      /\ Address(m, o).ofs = Effective(m, t, k)
      /\ Address(m, o).ss <=> t.base \in {BP, SP}
      /\ Address(m, o).len = Bytes(t, o)

(* A long is the whole register.                                           *)
LEMMA GetLong ==
  ASSUME NEW m, IsMachine(m), NEW r \in Gpr
  PROVE  GetReg(m, r, 4) = m.reg[r]
<1>1. Part(r, 4).reg = r /\ Part(r, 4).low = 1
  BY DEF Part
<1>2. m.reg[r] \in 0 .. (Mod(4) - 1) /\ Mod(4) \in Nat \ {0} /\ m.reg[r] \in Int
  BY LongHolds, ModValues DEF IsMachine, Long
<1>3. \A x \in Int : x \div 1 = x
  BY SMT
<1>4. m.reg[r] % Mod(4) = m.reg[r]
  BY <1>2, RemOfSmall
<1> QED BY <1>1, <1>2, <1>3, <1>4 DEF GetReg

(* Displacements: their meaning, and their bytes without sign.             *)
LEMMA DispIs ==
  ASSUME NEW o \in Operands, NEW k \in Size
  PROVE  /\ Meaning(o.disp, k) \in Disps /\ 0 \in Disps
         /\ Meaning(o.disp, k) = Disp(o, k) /\ Disp(o, k) \in Int
         /\ \A x \in Int : (x + Disp(o, k)) % Mod(k) = (x + Raw(o, k)) % Mod(k)
         /\ Raw(o, k) \in 0 .. (Mod(k) - 1)
<1>1. o.disp \in DispArg /\ o.disp \in Int
  BY OperandAssumption, OperandIs, ModValues DEF Long
<1>2. Meaning(o.disp, k) \in Disps /\ 0 \in Disps
  BY <1>1 DEF Disps
<1>3. Meaning(o.disp, k) = Disp(o, k) /\ Disp(o, k) \in Int
  BY <1>1, MeaningIs DEF Disp
<1>4. ASSUME NEW x \in Int PROVE (x + Disp(o, k)) % Mod(k) = (x + Raw(o, k)) % Mod(k)
  BY <1>1, SignedAdds DEF Disp, Raw
<1>5. Raw(o, k) \in 0 .. (Mod(k) - 1)
  BY <1>1, RemType DEF Raw, Size
<1> QED BY <1>2, <1>3, <1>4, <1>5

(* The address, case by case                                               *)
LEMMA AddressOf ==
  ASSUME NEW m, NEW o
  PROVE  /\ o.mod = 0 => Address(m, o) = Rm00(m, o)
         /\ o.mod = 1 => Address(m, o) = Displaced(m, o, 1)
         /\ o.mod = 2 /\ o.addr32 => Address(m, o) = Displaced(m, o, 4)
         /\ o.mod = 2 /\ ~o.addr32 => Address(m, o) = Displaced(m, o, 2)
<1>1. o.mod = 0 => Address(m, o) = Rm00(m, o)
  BY DEF Address
<1>2. o.mod = 1 => Address(m, o) = Rm01(m, o)
  BY DEF Address
<1>3. o.mod = 2 => Address(m, o) = Rm10(m, o)
  BY DEF Address
<1> QED BY <1>1, <1>2, <1>3 DEF Rm01, Rm10

(* decode_rm00_address(), case by case.                                    *)
LEMMA WithoutDisp ==
  ASSUME NEW m, NEW o
  PROVE  /\ o.addr32 /\ o.rm = 4 => Rm00(m, o) = Sib(m, o)
         /\ o.addr32 /\ o.rm = 5 => Rm00(m, o) = At(Raw(o, 4), FALSE, 4)
         /\ o.addr32 /\ o.rm # 4 /\ o.rm # 5 => Rm00(m, o) = At(m.reg[o.rm], FALSE, 0)
         /\ ~o.addr32 /\ o.rm = 6 => Rm00(m, o) = At(Raw(o, 2), FALSE, 2)
         /\ ~o.addr32 /\ o.rm # 6 => Rm00(m, o) = At(Sum16(m, o.rm) % Mod(2), BP \in Pairs[o.rm], 0)
<1> DEFINE a == Sib(m, o)
           b == At(Raw(o, 4), FALSE, 4)
           c == At(m.reg[o.rm], FALSE, 0)
           d == At(Raw(o, 2), FALSE, 2)
           e == At(Sum16(m, o.rm) % Mod(2), BP \in Pairs[o.rm], 0)
<1>1. Rm00(m, o) = IF o.addr32 THEN CASE o.rm = 4 -> a [] o.rm = 5 -> b [] OTHER -> c
                   ELSE IF o.rm = 6 THEN d ELSE e
  BY DEF Rm00
<1> HIDE DEF a, b, c, d, e
<1>2. 4 # 5
  OBVIOUS
<1>3. /\ o.addr32 /\ o.rm = 4 => Rm00(m, o) = a
      /\ o.addr32 /\ o.rm = 5 => Rm00(m, o) = b
      /\ o.addr32 /\ o.rm # 4 /\ o.rm # 5 => Rm00(m, o) = c
      /\ ~o.addr32 /\ o.rm = 6 => Rm00(m, o) = d
      /\ ~o.addr32 /\ o.rm # 6 => Rm00(m, o) = e
  BY <1>1, <1>2
<1> QED BY <1>3 DEF a, b, c, d, e

(* decode_rm01_address() and decode_rm10_address(), case by case.          *)
LEMMA WithDisp ==
  ASSUME NEW m, NEW o, NEW k
  PROVE  /\ o.addr32 /\ o.rm = 4 => Displaced(m, o, k) = At(Sib(m, o).ofs + Disp(o, k), Sib(m, o).ss, Sib(m, o).len + k)
         /\ o.addr32 /\ o.rm # 4 => Displaced(m, o, k) = At(m.reg[o.rm] + Disp(o, k), o.rm = BP, k)
         /\ ~o.addr32 => Displaced(m, o, k) = At((Sum16(m, o.rm) + Disp(o, k)) % Mod(2), BP \in Pairs[o.rm], k)
<1> DEFINE a == At(Sib(m, o).ofs + Disp(o, k), Sib(m, o).ss, Sib(m, o).len + k)
           b == At(m.reg[o.rm] + Disp(o, k), o.rm = BP, k)
           c == At((Sum16(m, o.rm) + Disp(o, k)) % Mod(2), BP \in Pairs[o.rm], k)
<1>1. Displaced(m, o, k) = IF o.addr32 THEN (IF o.rm = 4 THEN a ELSE b) ELSE c
  BY DEF Displaced
<1> HIDE DEF a, b, c
<1>2. /\ o.addr32 /\ o.rm = 4 => Displaced(m, o, k) = a
      /\ o.addr32 /\ o.rm # 4 => Displaced(m, o, k) = b
      /\ ~o.addr32 => Displaced(m, o, k) = c
  BY <1>1
<1> QED BY <1>2 DEF a, b, c

(* 32 bit: base, index and scale; no base but a displacement of 4 bytes    *)
LEMMA Decoded32 ==
  ASSUME NEW m, IsMachine(m), NEW o \in Operands, o.mod # 3, o.addr32
  PROVE  \E t : Decoded(m, o, t)
<1> DEFINE sib  == o.rm = SP
           none == o.mod = 0 /\ (IF sib THEN o.base = BP ELSE o.rm = BP)
           reg  == IF sib THEN o.base ELSE o.rm
           nb   == IF o.mod = 0 THEN (IF none THEN 4 ELSE 0) ELSE IF o.mod = 1 THEN 1 ELSE 4
           D    == IF nb = 0 THEN 0 ELSE Meaning(o.disp, nb)
           base == IF none THEN None ELSE reg
           ind  == IF sib /\ o.index # SP THEN o.index ELSE None
           sc   == IF sib THEN o.scale ELSE 0
           t    == [base |-> base, index |-> ind, scale |-> sc, disp |-> D]
           B    == IF none THEN 0 ELSE m.reg[reg]
           X    == IF sib /\ o.index # SP THEN m.reg[o.index] * 2 ^ o.scale ELSE 0
           M    == Mod(4)
<1>1. /\ o.mod \in {0, 1, 2} /\ o.rm \in Gpr /\ o.index \in Gpr /\ o.base \in Gpr /\ o.scale \in 0 .. 3
      /\ o.addr32
  BY OperandIs
<1>2. reg \in Gpr /\ None \notin Gpr
  BY <1>1, OperandAssumption
<1>3. \A r \in Gpr : m.reg[r] \in Nat /\ GetReg(m, r, 4) = m.reg[r]
  BY GetLong, ModValues DEF IsMachine, Long
<1>4. M \in Nat \ {0} /\ \A k \in Size : k \in {1, 2, 4}
  BY LongHolds DEF Size
<1>5. 2 ^ sc \in Nat /\ X \in Int /\ B \in Int
  <2>1. 2 ^ o.scale \in Nat /\ 2 ^ sc \in Nat
    BY <1>1, PowerIsNat
  <2>2. m.reg[o.index] * 2 ^ o.scale \in Nat
    BY <1>1, <1>3, <2>1, ProductIsNat
  <2> QED BY <1>2, <1>3, <2>1, <2>2
<1>6. nb \in {0, 1, 4} /\ D \in Disps /\ D \in Int
  <2>1. \A k \in {1, 4} : Meaning(o.disp, k) \in Disps /\ Meaning(o.disp, k) \in Int /\ 0 \in Disps
    BY DispIs DEF Size
  <2> QED BY <2>1
<1>7. t.base = base /\ t.index = ind /\ t.scale = sc /\ t.disp = D
  OBVIOUS
<1>8. t \in Written32
  <2>1. base \in Gpr \cup {None} /\ ind \in (Gpr \ {SP}) \cup {None} /\ sc \in 0 .. 3
    BY <1>1, <1>2
  <2> HIDE DEF base, ind, sc, D
  <2> QED BY <1>6, <2>1 DEF Written32
<1> HIDE DEF t
<1>9. DispBytes(t, o, 4) = nb
  BY <1>1, <1>2, <1>7 DEF DispBytes
<1>10. Encodes(t, o)
  <2>1. Encodes32(t, o)
    BY <1>1, <1>2, <1>7 DEF Encodes32
  <2>2. HasDisp(t, o, nb)
    BY <1>7 DEF HasDisp
  <2> QED BY <1>1, <1>9, <2>1, <2>2 DEF Encodes
<1>11. Bytes(t, o) = nb + (IF sib THEN 1 ELSE 0)
  BY <1>1, <1>9 DEF Bytes
<1>12. Effective(m, t, 4) = (B + X + D) % M
  <2> DEFINE value(r) == IF r = None THEN 0 ELSE GetReg(m, r, 4)
  <2>1. Effective(m, t, 4) = (value(base) + value(ind) * 2 ^ sc + D) % Mod(4)
    BY <1>7 DEF Effective
  <2>2. value(base) = B
    BY <1>2, <1>3
  <2>3. value(ind) * 2 ^ sc = X
    <3>1. CASE sib /\ o.index # SP
      BY <1>1, <1>2, <1>3, <3>1
    <3>2. CASE ~(sib /\ o.index # SP)
      <4>1. value(ind) = 0 /\ X = 0
        BY <3>2
      <4>2. \A x \in Nat : 0 * x = 0
        OBVIOUS
      <4> HIDE DEF sc
      <4> QED BY <1>5, <4>1, <4>2
    <3> QED BY <3>1, <3>2
  <2> HIDE DEF value, base, ind, sc, X, B, D
  <2> QED BY <2>1, <2>2, <2>3
<1> DEFINE A == Address(m, o)
<1>13. CASE sib
  <2> DEFINE s == Sib(m, o)
  <2>1. s = At((IF none THEN Raw(o, 4) ELSE m.reg[o.base]) + X, o.base \in {SP, BP} /\ ~none, IF none THEN 5 ELSE 1)
    BY <1>13 DEF Sib
  <2>2. /\ s.ofs = ((IF none THEN Raw(o, 4) ELSE m.reg[o.base]) + X) % M
        /\ s.ss <=> o.base \in {SP, BP} /\ ~none
        /\ s.len = IF none THEN 5 ELSE 1
    <3> HIDE DEF s, none, X
    <3> QED BY <2>1 DEF At
  <2> HIDE DEF s
  <2>3. CASE o.mod = 0 /\ none
    <3>1. A = s
      <4>1. o.addr32 /\ o.rm = 4 /\ o.mod = 0
        BY <1>1, <1>13, <2>3 DEF SP
      <4>2. Address(m, o) = Rm00(m, o) /\ Rm00(m, o) = Sib(m, o)
        BY <4>1, AddressOf, WithoutDisp
      <4> QED BY <4>2 DEF s
    <3>2. Raw(o, 4) \in Int /\ D = Disp(o, 4) /\ B = 0
      <4>1. Raw(o, 4) \in 0 .. (Mod(4) - 1) /\ Meaning(o.disp, 4) = Disp(o, 4)
        BY DispIs DEF Size
      <4> QED BY <1>4, <2>3, <4>1
    <3>3. (X + Disp(o, 4)) % M = (X + Raw(o, 4)) % M
      BY <1>5, DispIs DEF Size
    <3>4. A.ofs = (B + X + D) % M
      <4>1. A.ofs = (Raw(o, 4) + X) % M
        BY <2>2, <2>3, <3>1
      <4> HIDE DEF A, X, B, D, M
      <4>2. Raw(o, 4) + X = X + Raw(o, 4) /\ B + X + D = X + Disp(o, 4)
        BY <1>5, <1>6, <3>2
      <4> QED BY <3>3, <4>1, <4>2
    <3>5. (A.ss <=> base \in {BP, SP}) /\ A.len = nb + 1
      BY <1>2, <2>2, <2>3, <3>1 DEF BP, SP, Gpr
    <3> QED BY <1>1, <1>7, <1>8, <1>10, <1>11, <1>12, <1>13, <3>4, <3>5 DEF Decoded
  <2>4. CASE o.mod = 0 /\ ~none
    <3>1. A = s
      <4>1. o.addr32 /\ o.rm = 4 /\ o.mod = 0
        BY <1>1, <1>13, <2>4 DEF SP
      <4>2. Address(m, o) = Rm00(m, o) /\ Rm00(m, o) = Sib(m, o)
        BY <4>1, AddressOf, WithoutDisp
      <4> QED BY <4>2 DEF s
    <3>2. D = 0 /\ B = m.reg[o.base]
      BY <1>13, <2>4
    <3>3. A.ofs = (B + X + D) % M
      <4>1. A.ofs = (B + X) % M
        BY <2>2, <2>4, <3>1, <3>2
      <4> HIDE DEF A, X, B, D, M
      <4>2. B + X + D = B + X
        BY <1>5, <1>6, <3>2
      <4> QED BY <4>1, <4>2
    <3>4. (A.ss <=> base \in {BP, SP}) /\ A.len = nb + 1
      BY <1>2, <1>13, <2>2, <2>4, <3>1
    <3> QED BY <1>1, <1>7, <1>8, <1>10, <1>11, <1>12, <1>13, <3>3, <3>4 DEF Decoded
  <2>5. CASE o.mod # 0
    <3>1. ~none /\ nb \in {1, 4} /\ B = m.reg[o.base]
      BY <1>1, <1>13, <2>5
    <3>2. A = At(s.ofs + Disp(o, nb), s.ss, s.len + nb)
      BY <1>1, <1>13, <2>5, AddressOf, WithDisp DEF SP, s
    <3>3. A.ofs = (s.ofs + Disp(o, nb)) % M /\ A.ss = s.ss /\ A.len = s.len + nb
      <4> HIDE DEF A, M, nb
      <4> QED BY <3>2 DEF At, M
    <3>4. D = Disp(o, nb) /\ s.ofs = (B + X) % M
      <4>1. Meaning(o.disp, nb) = Disp(o, nb) /\ nb # 0
        <5> HIDE DEF nb
        <5>1. nb \in Size
          BY <3>1 DEF Size
        <5> QED BY <3>1, <5>1, DispIs
      <4> QED BY <2>2, <3>1, <4>1
    <3>5. A.ofs = (B + X + D) % M
      <4> HIDE DEF A, X, B, D, M, nb
      <4>1. B + X \in Int
        BY <1>5
      <4>2. (((B + X) % M) + D) % M = (B + X + D) % M
        BY <1>4, <1>6, <4>1, RemTwice
      <4> QED BY <3>3, <3>4, <4>2
    <3>6. (A.ss <=> base \in {BP, SP}) /\ A.len = nb + 1
      <4>1. A.ss <=> base \in {BP, SP}
        BY <1>2, <1>13, <2>2, <3>1, <3>3
      <4>2. A.len = 1 + nb
        BY <2>2, <3>1, <3>3
      <4> QED BY <3>1, <4>1, <4>2
    <3> QED BY <1>1, <1>7, <1>8, <1>10, <1>11, <1>12, <1>13, <3>5, <3>6 DEF Decoded
  <2> QED BY <2>3, <2>4, <2>5
<1>14. CASE ~sib
  <2>1. X = 0 /\ reg = o.rm /\ o.rm # SP
    BY <1>14
  <2>2. CASE o.mod = 0 /\ none
    <3>1. A = At(Raw(o, 4), FALSE, 4)
      BY <1>1, <1>14, <2>2, AddressOf, WithoutDisp DEF SP, BP
    <3>2. A.ofs = Raw(o, 4) % M /\ ~A.ss /\ A.len = 4
      <4> HIDE DEF A
      <4> QED BY <3>1 DEF At
    <3>3. Raw(o, 4) \in Int /\ D = Disp(o, 4) /\ B = 0
      <4>1. Raw(o, 4) \in 0 .. (Mod(4) - 1) /\ Meaning(o.disp, 4) = Disp(o, 4)
        BY DispIs DEF Size
      <4> QED BY <1>4, <2>2, <4>1
    <3>4. (0 + Disp(o, 4)) % M = (0 + Raw(o, 4)) % M
      BY DispIs DEF Size
    <3>5. A.ofs = (B + X + D) % M
      <4> HIDE DEF A, X, B, D, M
      <4>1. 0 + Raw(o, 4) = Raw(o, 4) /\ B + X + D = 0 + Disp(o, 4)
        BY <1>6, <2>1, <3>3
      <4> QED BY <3>2, <3>4, <4>1
    <3>6. (A.ss <=> base \in {BP, SP}) /\ A.len = nb + 0
      BY <1>2, <2>2, <3>2 DEF BP, SP, Gpr
    <3> QED BY <1>1, <1>7, <1>8, <1>10, <1>11, <1>12, <1>14, <3>5, <3>6 DEF Decoded
  <2>3. CASE o.mod = 0 /\ ~none
    <3>1. A = At(m.reg[o.rm], FALSE, 0)
      <4>1. o.addr32 /\ o.rm # 4 /\ o.rm # 5 /\ o.mod = 0
        BY <1>1, <1>14, <2>3 DEF SP, BP
      <4>2. Address(m, o) = Rm00(m, o) /\ Rm00(m, o) = At(m.reg[o.rm], FALSE, 0)
        BY <4>1, AddressOf, WithoutDisp
      <4> QED BY <4>2
    <3>2. A.ofs = m.reg[o.rm] % M /\ ~A.ss /\ A.len = 0
      <4> HIDE DEF A
      <4> QED BY <3>1 DEF At
    <3>3. D = 0 /\ B = m.reg[o.rm]
      BY <1>14, <2>3
    <3>4. A.ofs = (B + X + D) % M
      <4> HIDE DEF A, X, B, D, M
      <4>1. B + X + D = B
        BY <1>5, <2>1, <3>3
      <4> QED BY <3>2, <3>3, <4>1
    <3>5. (A.ss <=> base \in {BP, SP}) /\ A.len = nb + 0
      BY <1>2, <1>14, <2>3, <3>2
    <3> QED BY <1>1, <1>7, <1>8, <1>10, <1>11, <1>12, <1>14, <3>4, <3>5 DEF Decoded
  <2>4. CASE o.mod # 0
    <3>1. ~none /\ nb \in {1, 4} /\ B = m.reg[o.rm]
      BY <1>1, <1>14, <2>4
    <3>2. A = At(m.reg[o.rm] + Disp(o, nb), o.rm = BP, nb)
      BY <1>1, <1>14, <2>4, AddressOf, WithDisp DEF SP
    <3>3. A.ofs = (m.reg[o.rm] + Disp(o, nb)) % M /\ (A.ss <=> o.rm = BP) /\ A.len = nb
      <4> HIDE DEF A, nb
      <4> QED BY <3>2 DEF At
    <3>4. D = Disp(o, nb)
      <4>1. Meaning(o.disp, nb) = Disp(o, nb) /\ nb # 0
        <5> HIDE DEF nb
        <5>1. nb \in Size
          BY <3>1 DEF Size
        <5> QED BY <3>1, <5>1, DispIs
      <4> QED BY <4>1
    <3>5. A.ofs = (B + X + D) % M
      <4> HIDE DEF A, X, B, D, M, nb
      <4>1. B + X + D = m.reg[o.rm] + Disp(o, nb)
        BY <1>5, <1>6, <2>1, <3>1, <3>4
      <4> QED BY <3>3, <4>1
    <3>6. (A.ss <=> base \in {BP, SP}) /\ A.len = nb + 0
      <4>1. A.ss <=> base \in {BP, SP}
        BY <1>2, <1>14, <2>1, <3>1, <3>3
      <4> QED BY <3>1, <3>3, <4>1
    <3> QED BY <1>1, <1>7, <1>8, <1>10, <1>11, <1>12, <1>14, <3>5, <3>6 DEF Decoded
  <2> QED BY <2>2, <2>3, <2>4
<1> QED BY <1>13, <1>14

(* 16 bit: at most BX or BP, and SI or DI                                  *)
LEMMA TotalOfTwo ==
  ASSUME NEW S, IsFiniteSet(S), NEW w, \A i \in S : w[i] \in Nat, NEW a \in S
  PROVE  /\ Total(w, {a}) = w[a]
         /\ \A b \in S \ {a} : Total(w, {a, b}) = w[a] + w[b]
<1>1. /\ \A s \in SUBSET S : IsFiniteSet(Marks(w, s)) /\ Total(w, s) \in Nat
      /\ Total(w, {}) = 0
      /\ \A s \in SUBSET S : \A x \in s : Total(w, s) = w[x] + Total(w, s \ {x})
  BY TotalIs
<1>2. ASSUME NEW x \in S PROVE Total(w, {x}) = w[x]
  <2>1. {x} \in SUBSET S /\ x \in {x} /\ {x} \ {x} = {}
    OBVIOUS
  <2>2. Total(w, {x}) = w[x] + Total(w, {x} \ {x})
    BY <1>1, <2>1
  <2>3. Total(w, {x}) = w[x] + 0 /\ w[x] \in Nat
    BY <1>1, <2>1, <2>2
  <2> QED BY <2>3
<1>3. ASSUME NEW b \in S \ {a} PROVE Total(w, {a, b}) = w[a] + w[b]
  <2>1. {a, b} \in SUBSET S /\ a \in {a, b} /\ {a, b} \ {a} = {b}
    OBVIOUS
  <2>2. Total(w, {a, b}) = w[a] + Total(w, {a, b} \ {a})
    BY <1>1, <2>1
  <2> QED BY <1>2, <2>1, <2>2
<1> QED BY <1>2, <1>3

Base16(rm)  == IF rm \in {0, 1, 7} THEN BX ELSE IF rm \in {2, 3, 6} THEN BP ELSE None
Index16(rm) == IF rm \in {0, 2, 4} THEN SI ELSE IF rm \in {1, 3, 5} THEN DI ELSE None
Value16(m, r) == IF r = None THEN 0 ELSE GetReg(m, r, 2)

(* The registers of a 16 bit address are a base and an index.              *)
LEMMA Sum16Pair ==
  ASSUME NEW m, IsMachine(m), NEW rm \in Gpr
  PROVE  /\ Sum16(m, rm) = Value16(m, Base16(rm)) + Value16(m, Index16(rm))
         /\ BP \in Pairs[rm] <=> Base16(rm) = BP
         /\ Value16(m, Base16(rm)) \in Nat /\ Value16(m, Index16(rm)) \in Nat
<1> DEFINE w == Words16(m)
           T(s) == Total(w, s)
<1>1. None \notin Gpr /\ BX \in Gpr /\ BP \in Gpr /\ SI \in Gpr /\ DI \in Gpr
  BY OperandAssumption DEF BX, BP, SI, DI, Gpr
<1>2. /\ BX # BP /\ BX # SI /\ BX # DI /\ BP # SI /\ BP # DI /\ SI # DI
  BY DEF BX, BP, SI, DI
<1>3. \A r \in Gpr : w[r] = GetReg(m, r, 2) /\ w[r] \in Nat
  BY GetRegType DEF Words16, Size
<1>4. IsFiniteSet(Gpr)
  BY UpToFinite, Zenon DEF Gpr
<1> HIDE DEF w
<1>5. /\ \A r \in Gpr : T({r}) = w[r]
      /\ \A r \in Gpr : \A q \in Gpr \ {r} : T({r, q}) = w[r] + w[q]
  <2>1. \A i \in Gpr : w[i] \in Nat
    BY <1>3
  <2>2. ASSUME NEW r \in Gpr
        PROVE  Total(w, {r}) = w[r] /\ \A q \in Gpr \ {r} : Total(w, {r, q}) = w[r] + w[q]
    BY <1>4, <2>1, TotalOfTwo
  <2> QED BY <2>2
<1>6. Sum16(m, rm) = T(Pairs[rm])
  BY Sum16Is DEF w
<1>7. /\ Pairs[0] = {BX, SI} /\ Pairs[1] = {BX, DI} /\ Pairs[2] = {BP, SI} /\ Pairs[3] = {BP, DI}
      /\ Pairs[4] = {SI} /\ Pairs[5] = {DI} /\ Pairs[6] = {BP} /\ Pairs[7] = {BX}
  BY PairsAre
<1> HIDE DEF T
<1>8. rm \in {0, 1, 2, 3, 4, 5, 6, 7}
  BY DEF Gpr
<1>9. Value16(m, None) = 0 /\ \A r \in Gpr : Value16(m, r) = w[r]
  BY <1>1, <1>3 DEF Value16
<1>10. \A r \in Gpr : w[r] + 0 = w[r] /\ 0 + w[r] = w[r]
  BY <1>3
<1>11. CASE rm = 0
  <2>1. Base16(rm) = BX /\ Index16(rm) = SI
    BY <1>11 DEF Base16, Index16
  <2>2. SI \in Gpr \ {BX}
    BY <1>1, <1>2
  <2>3. T({BX, SI}) = w[BX] + w[SI]
    BY <1>1, <1>5, <2>2
  <2>4. Sum16(m, rm) = w[BX] + w[SI]
    BY <1>6, <1>7, <1>11, <2>3
  <2>5. Value16(m, BX) = w[BX] /\ Value16(m, SI) = w[SI]
    BY <1>1, <1>9
  <2>6. BP \in {BX, SI} <=> BX = BP
    BY <1>2
  <2>7. Pairs[rm] = {BX, SI}
    BY <1>7, <1>11
  <2> QED BY <1>1, <1>3, <2>1, <2>4, <2>5, <2>6, <2>7
<1>12. CASE rm = 1
  <2>1. Base16(rm) = BX /\ Index16(rm) = DI
    BY <1>12 DEF Base16, Index16
  <2>2. DI \in Gpr \ {BX}
    BY <1>1, <1>2
  <2>3. T({BX, DI}) = w[BX] + w[DI]
    BY <1>1, <1>5, <2>2
  <2>4. Sum16(m, rm) = w[BX] + w[DI]
    BY <1>6, <1>7, <1>12, <2>3
  <2>5. Value16(m, BX) = w[BX] /\ Value16(m, DI) = w[DI]
    BY <1>1, <1>9
  <2>6. BP \in {BX, DI} <=> BX = BP
    BY <1>2
  <2>7. Pairs[rm] = {BX, DI}
    BY <1>7, <1>12
  <2> QED BY <1>1, <1>3, <2>1, <2>4, <2>5, <2>6, <2>7
<1>13. CASE rm = 2
  <2>1. Base16(rm) = BP /\ Index16(rm) = SI
    BY <1>13 DEF Base16, Index16
  <2>2. SI \in Gpr \ {BP}
    BY <1>1, <1>2
  <2>3. T({BP, SI}) = w[BP] + w[SI]
    BY <1>1, <1>5, <2>2
  <2>4. Sum16(m, rm) = w[BP] + w[SI]
    BY <1>6, <1>7, <1>13, <2>3
  <2>5. Value16(m, BP) = w[BP] /\ Value16(m, SI) = w[SI]
    BY <1>1, <1>9
  <2>6. BP \in {BP, SI} <=> BP = BP
    BY <1>2
  <2>7. Pairs[rm] = {BP, SI}
    BY <1>7, <1>13
  <2> QED BY <1>1, <1>3, <2>1, <2>4, <2>5, <2>6, <2>7
<1>14. CASE rm = 3
  <2>1. Base16(rm) = BP /\ Index16(rm) = DI
    BY <1>14 DEF Base16, Index16
  <2>2. DI \in Gpr \ {BP}
    BY <1>1, <1>2
  <2>3. T({BP, DI}) = w[BP] + w[DI]
    BY <1>1, <1>5, <2>2
  <2>4. Sum16(m, rm) = w[BP] + w[DI]
    BY <1>6, <1>7, <1>14, <2>3
  <2>5. Value16(m, BP) = w[BP] /\ Value16(m, DI) = w[DI]
    BY <1>1, <1>9
  <2>6. BP \in {BP, DI} <=> BP = BP
    BY <1>2
  <2>7. Pairs[rm] = {BP, DI}
    BY <1>7, <1>14
  <2> QED BY <1>1, <1>3, <2>1, <2>4, <2>5, <2>6, <2>7
<1>15. CASE rm = 4
  <2>1. Base16(rm) = None /\ Index16(rm) = SI
    BY <1>15 DEF Base16, Index16
  <2>2. T({SI}) = w[SI]
    BY <1>1, <1>5
  <2>3. Sum16(m, rm) = w[SI] /\ Pairs[rm] = {SI}
    BY <1>6, <1>7, <1>15, <2>2
  <2>4. Value16(m, None) + Value16(m, SI) = w[SI]
    BY <1>1, <1>9, <1>10
  <2>5. Value16(m, None) \in Nat /\ Value16(m, SI) \in Nat
    BY <1>1, <1>3, <1>9
  <2> QED BY <1>1, <1>2, <2>1, <2>3, <2>4, <2>5
<1>16. CASE rm = 5
  <2>1. Base16(rm) = None /\ Index16(rm) = DI
    BY <1>16 DEF Base16, Index16
  <2>2. T({DI}) = w[DI]
    BY <1>1, <1>5
  <2>3. Sum16(m, rm) = w[DI] /\ Pairs[rm] = {DI}
    BY <1>6, <1>7, <1>16, <2>2
  <2>4. Value16(m, None) + Value16(m, DI) = w[DI]
    BY <1>1, <1>9, <1>10
  <2>5. Value16(m, None) \in Nat /\ Value16(m, DI) \in Nat
    BY <1>1, <1>3, <1>9
  <2> QED BY <1>1, <1>2, <2>1, <2>3, <2>4, <2>5
<1>17. CASE rm = 6
  <2>1. Base16(rm) = BP /\ Index16(rm) = None
    BY <1>17 DEF Base16, Index16
  <2>2. T({BP}) = w[BP]
    BY <1>1, <1>5
  <2>3. Sum16(m, rm) = w[BP] /\ Pairs[rm] = {BP}
    BY <1>6, <1>7, <1>17, <2>2
  <2>4. Value16(m, BP) + Value16(m, None) = w[BP]
    BY <1>1, <1>9, <1>10
  <2>5. Value16(m, BP) \in Nat /\ Value16(m, None) \in Nat
    BY <1>1, <1>3, <1>9
  <2> QED BY <1>1, <1>2, <2>1, <2>3, <2>4, <2>5
<1>18. CASE rm = 7
  <2>1. Base16(rm) = BX /\ Index16(rm) = None
    BY <1>18 DEF Base16, Index16
  <2>2. T({BX}) = w[BX]
    BY <1>1, <1>5
  <2>3. Sum16(m, rm) = w[BX] /\ Pairs[rm] = {BX}
    BY <1>6, <1>7, <1>18, <2>2
  <2>4. Value16(m, BX) + Value16(m, None) = w[BX]
    BY <1>1, <1>9, <1>10
  <2>5. Value16(m, BX) \in Nat /\ Value16(m, None) \in Nat
    BY <1>1, <1>3, <1>9
  <2> QED BY <1>1, <1>2, <2>1, <2>3, <2>4, <2>5
<1> QED BY <1>8, <1>11, <1>12, <1>13, <1>14, <1>15, <1>16, <1>17, <1>18

(* The base and index that rm names are written so.                        *)
LEMMA Code16 ==
  ASSUME NEW t, NEW o, NEW none \in BOOLEAN, o.rm \in Gpr,
         none => o.rm = 6 /\ o.mod = 0, ~none => ~(o.rm = 6 /\ o.mod = 0),
         t.base = IF none THEN None ELSE Base16(o.rm), t.index = Index16(o.rm)
  PROVE  Encodes16(t, o) /\ t.base \in {BX, BP, None} /\ t.index \in {SI, DI, None}
<1>1. None \notin Gpr /\ BX \in Gpr /\ BP \in Gpr /\ SI \in Gpr /\ DI \in Gpr
  BY OperandAssumption DEF BX, BP, SI, DI, Gpr
<1>2. /\ BX # BP /\ BX # SI /\ BX # DI /\ BP # SI /\ BP # DI /\ SI # DI
      /\ None # BX /\ None # BP /\ None # SI /\ None # DI
  BY <1>1 DEF BX, BP, SI, DI
<1>3. o.rm \in {0, 1, 2, 3, 4, 5, 6, 7}
  BY DEF Gpr
<1>4. CASE o.rm = 0
  <2>1. t.base = BX /\ t.index = SI
    BY <1>4 DEF Base16, Index16
  <2> QED BY <1>2, <1>4, <2>1 DEF Encodes16
<1>5. CASE o.rm = 1
  <2>1. t.base = BX /\ t.index = DI
    BY <1>5 DEF Base16, Index16
  <2> QED BY <1>2, <1>5, <2>1 DEF Encodes16
<1>6. CASE o.rm = 2
  <2>1. t.base = BP /\ t.index = SI
    BY <1>6 DEF Base16, Index16
  <2> QED BY <1>2, <1>6, <2>1 DEF Encodes16
<1>7. CASE o.rm = 3
  <2>1. t.base = BP /\ t.index = DI
    BY <1>7 DEF Base16, Index16
  <2> QED BY <1>2, <1>7, <2>1 DEF Encodes16
<1>8. CASE o.rm = 4
  <2>1. t.base = None /\ t.index = SI
    BY <1>8 DEF Base16, Index16
  <2> QED BY <1>2, <1>8, <2>1 DEF Encodes16
<1>9. CASE o.rm = 5
  <2>1. t.base = None /\ t.index = DI
    BY <1>9 DEF Base16, Index16
  <2> QED BY <1>2, <1>9, <2>1 DEF Encodes16
<1>10. CASE o.rm = 6 /\ none
  <2>1. t.base = None /\ t.index = None
    BY <1>10 DEF Index16
  <2> QED BY <1>2, <1>10, <2>1 DEF Encodes16
<1>11. CASE o.rm = 6 /\ ~none
  <2>1. t.base = BP /\ t.index = None /\ o.mod # 0
    BY <1>11 DEF Base16, Index16
  <2> QED BY <1>2, <1>11, <2>1 DEF Encodes16
<1>12. CASE o.rm = 7
  <2>1. t.base = BX /\ t.index = None
    BY <1>12 DEF Base16, Index16
  <2> QED BY <1>2, <1>12, <2>1 DEF Encodes16
<1> QED BY <1>3, <1>4, <1>5, <1>6, <1>7, <1>8, <1>9, <1>10, <1>11, <1>12

(* 16 bit: the sum is cut to a word                                        *)
LEMMA Decoded16 ==
  ASSUME NEW m, IsMachine(m), NEW o \in Operands, o.mod # 3, ~o.addr32
  PROVE  \E t : Decoded(m, o, t)
<1> DEFINE none == o.mod = 0 /\ o.rm = 6
           nb   == IF o.mod = 0 THEN (IF none THEN 2 ELSE 0) ELSE IF o.mod = 1 THEN 1 ELSE 2
           D    == IF nb = 0 THEN 0 ELSE Meaning(o.disp, nb)
           base == IF none THEN None ELSE Base16(o.rm)
           ind  == Index16(o.rm)
           t    == [base |-> base, index |-> ind, scale |-> 0, disp |-> D]
           B    == Value16(m, base)
           X    == Value16(m, ind)
           M    == Mod(2)
<1>1. o.mod \in {0, 1, 2} /\ o.rm \in Gpr /\ ~o.addr32
  BY OperandIs
<1>2. M \in Nat \ {0} /\ Mod(4) \in Nat \ {0} /\ M <= Mod(4)
  BY LongHolds DEF Size
<1>3. /\ Sum16(m, o.rm) = Value16(m, Base16(o.rm)) + X
      /\ BP \in Pairs[o.rm] <=> Base16(o.rm) = BP
      /\ Value16(m, Base16(o.rm)) \in Nat /\ X \in Nat
  BY <1>1, Sum16Pair
<1>4. None \notin Gpr /\ BP \in Gpr /\ SP \in Gpr /\ BX # SP /\ BX # BP /\ BX \in Gpr
  BY OperandAssumption DEF BP, SP, BX, Gpr
<1>5. B \in Nat /\ (~none => Sum16(m, o.rm) = B + X) /\ (none => B = 0 /\ X = 0)
  <2>1. none => base = None /\ ind = None
    BY DEF Index16
  <2>2. ~none => base = Base16(o.rm)
    OBVIOUS
  <2>3. Value16(m, None) = 0
    BY DEF Value16
  <2> HIDE DEF none, base, ind
  <2> QED BY <1>3, <2>1, <2>2, <2>3
<1>6. nb \in {0, 1, 2} /\ D \in Disps /\ D \in Int
  <2>1. \A k \in {1, 2} : Meaning(o.disp, k) \in Disps /\ Meaning(o.disp, k) \in Int /\ 0 \in Disps
    BY DispIs DEF Size
  <2> QED BY <2>1
<1>7. t.base = base /\ t.index = ind /\ t.scale = 0 /\ t.disp = D
  OBVIOUS
<1>8. none => o.rm = 6 /\ o.mod = 0
  OBVIOUS
<1>9. ~none => ~(o.rm = 6 /\ o.mod = 0)
  OBVIOUS
<1>10. none \in BOOLEAN
  OBVIOUS
<1>11. t.base = (IF none THEN None ELSE Base16(o.rm)) /\ t.index = Index16(o.rm)
  OBVIOUS
<1>12. ind = None => (base = None <=> none)
  <2>1. ind = None => o.rm \in {6, 7}
    BY <1>1, <1>4, OperandAssumption DEF Index16, SI, DI, Gpr
  <2>2. o.rm \in {6, 7} => Base16(o.rm) # None
    BY <1>4 DEF Base16
  <2>3. base = IF none THEN None ELSE Base16(o.rm)
    OBVIOUS
  <2> HIDE DEF none, base, ind
  <2> QED BY <2>1, <2>2, <2>3
<1>13. ind = None => o.rm \in {6, 7}
  BY <1>1, <1>4, OperandAssumption DEF Index16, SI, DI, Gpr
<1>14. base \in {BP, SP} <=> ~none /\ Base16(o.rm) = BP
  BY <1>4 DEF Base16
<1> HIDE DEF none
<1>15. Encodes16(t, o) /\ t.base \in {BX, BP, None} /\ t.index \in {SI, DI, None}
  <2> HIDE DEF t
  <2> QED BY <1>1, <1>8, <1>9, <1>10, <1>11, Code16
<1>16. t \in Written16
  <2>1. base \in {BX, BP, None} /\ ind \in {SI, DI, None}
    BY <1>15
  <2> HIDE DEF base, ind, D
  <2> QED BY <1>6, <2>1 DEF Written16
<1> HIDE DEF t
<1>17. (IF t.index # None /\ o.mod = 0 THEN 0 ELSE DispBytes(t, o, 2)) = nb
  <2>1. o.mod = 0 => DispBytes(t, o, 2) = IF base = None THEN 2 ELSE 0
    BY <1>7 DEF DispBytes
  <2>2. o.mod = 1 => DispBytes(t, o, 2) = 1
    BY DEF DispBytes
  <2>3. o.mod = 2 => DispBytes(t, o, 2) = 2
    BY DEF DispBytes
  <2>4. none => ind = None
    BY <1>8 DEF Index16
  <2> HIDE DEF base, ind
  <2> QED BY <1>1, <1>7, <1>8, <1>9, <1>12, <1>13, <2>1, <2>2, <2>3, <2>4
<1>18. Encodes(t, o)
  BY <1>1, <1>7, <1>15, <1>17 DEF Encodes, HasDisp
<1>19. Bytes(t, o) = nb
  BY <1>1, <1>17 DEF Bytes
<1>20. Effective(m, t, 2) = (B + X + D) % M
  <2>1. Effective(m, t, 2) = (Value16(m, base) + Value16(m, ind) * 2 ^ 0 + D) % Mod(2)
    BY <1>7 DEF Effective, Value16
  <2>2. \A x \in Nat : x * 2 ^ 0 = x
    BY PowerZero, SMT
  <2> HIDE DEF D, base, ind
  <2> QED BY <1>3, <2>1, <2>2
<1> DEFINE A == Address(m, o)
<1>21. \A x \in Int : (x % M) % Mod(4) = x % M
  <2>1. ASSUME NEW x \in Int PROVE x % M \in 0 .. (Mod(4) - 1)
    <3>1. x % M \in 0 .. (M - 1)
      BY <1>2, DivMod
    <3> QED BY <1>2, <3>1
  <2> QED BY <1>2, <2>1, RemOfSmall
<1>22. CASE none
  <2>1. A = At(Raw(o, 2), FALSE, 2)
    BY <1>1, <1>8, <1>22, AddressOf, WithoutDisp
  <2>2. A.ofs = Raw(o, 2) % Mod(4) /\ ~A.ss /\ A.len = 2
    <3> HIDE DEF A
    <3> QED BY <2>1 DEF At
  <2>3. A.ofs = Raw(o, 2) /\ Raw(o, 2) % M = Raw(o, 2) /\ Raw(o, 2) \in Nat
    <3>1. Raw(o, 2) \in 0 .. (M - 1)
      BY DispIs DEF Size
    <3>2. Raw(o, 2) \in 0 .. (Mod(4) - 1)
      BY <1>2, <3>1
    <3> HIDE DEF A, M
    <3> QED BY <1>2, <2>2, <3>1, <3>2, RemOfSmall
  <2>4. nb = 2 /\ D = Disp(o, 2) /\ Disp(o, 2) \in Int
    <3>1. Meaning(o.disp, 2) = Disp(o, 2) /\ Disp(o, 2) \in Int
      BY DispIs DEF Size
    <3> QED BY <1>8, <1>22, <3>1
  <2>5. (0 + Disp(o, 2)) % M = (0 + Raw(o, 2)) % M
    BY DispIs DEF Size
  <2>6. A.ofs = (B + X + D) % M
    <3> HIDE DEF A, X, B, D, M, nb
    <3>1. 0 + Raw(o, 2) = Raw(o, 2) /\ B + X + D = 0 + Disp(o, 2)
      BY <1>5, <1>22, <2>3, <2>4
    <3> QED BY <2>3, <2>5, <3>1
  <2>7. A.ss <=> t.base \in {BP, SP}
    BY <1>7, <1>14, <1>22, <2>2
  <2> QED BY <1>1, <1>16, <1>18, <1>19, <1>20, <2>2, <2>4, <2>6, <2>7 DEF Decoded
<1>23. CASE ~none /\ o.mod = 0
  <2>1. A = At(Sum16(m, o.rm) % M, BP \in Pairs[o.rm], 0)
    <3>1. ~o.addr32 /\ o.rm # 6 /\ o.mod = 0
      BY <1>1, <1>9, <1>23
    <3>2. Rm00(m, o) = At(Sum16(m, o.rm) % Mod(2), BP \in Pairs[o.rm], 0)
      BY <3>1, WithoutDisp
    <3>3. A = Rm00(m, o)
      BY <3>1, AddressOf
    <3> QED BY <3>2, <3>3
  <2>2. A.ofs = (Sum16(m, o.rm) % M) % Mod(4) /\ (A.ss <=> BP \in Pairs[o.rm]) /\ A.len = 0
    <3> HIDE DEF A, M
    <3> QED BY <2>1 DEF At
  <2>3. nb = 0 /\ D = 0
    BY <1>23
  <2>4. A.ofs = (B + X + D) % M
    <3> HIDE DEF A, X, B, D, M, nb
    <3>1. Sum16(m, o.rm) = B + X + D /\ B + X + D \in Int
      BY <1>3, <1>5, <1>23, <2>3
    <3> QED BY <1>21, <2>2, <3>1
  <2>5. A.ss <=> t.base \in {BP, SP}
    BY <1>3, <1>7, <1>14, <1>23, <2>2
  <2> QED BY <1>1, <1>16, <1>18, <1>19, <1>20, <2>2, <2>3, <2>4, <2>5 DEF Decoded
<1>24. CASE o.mod # 0
  <2>1. ~none /\ nb \in {1, 2}
    BY <1>1, <1>8, <1>24
  <2>2. A = At((Sum16(m, o.rm) + Disp(o, nb)) % M, BP \in Pairs[o.rm], nb)
    BY <1>1, <1>24, AddressOf, WithDisp
  <2>3. /\ A.ofs = ((Sum16(m, o.rm) + Disp(o, nb)) % M) % Mod(4)
        /\ A.ss <=> BP \in Pairs[o.rm]
        /\ A.len = nb
    <3> HIDE DEF A, M, nb
    <3> QED BY <2>2 DEF At
  <2>4. D = Disp(o, nb)
    <3>1. Meaning(o.disp, nb) = Disp(o, nb) /\ nb # 0
      <4> HIDE DEF nb
      <4>1. nb \in Size
        BY <2>1 DEF Size
      <4> QED BY <2>1, <4>1, DispIs
    <3> QED BY <3>1
  <2>5. A.ofs = (B + X + D) % M
    <3> HIDE DEF A, X, B, D, M, nb
    <3>1. Sum16(m, o.rm) + Disp(o, nb) = B + X + D /\ B + X + D \in Int
      BY <1>3, <1>5, <1>6, <2>1, <2>4
    <3> QED BY <1>21, <2>3, <3>1
  <2>6. A.ss <=> t.base \in {BP, SP}
    BY <1>3, <1>7, <1>14, <2>1, <2>3
  <2> QED BY <1>1, <1>16, <1>18, <1>19, <1>20, <2>3, <2>5, <2>6 DEF Decoded
<1> QED BY <1>1, <1>22, <1>23, <1>24

-----------------------------------------------------------------------------
(* What the history tells of the instruction                               *)
LEMMA OtherOp ==
  ASSUME NEW op, NEW k, NEW o, NEW p, NEW x, NEW m,
         Did(op, k, o, p, x, m), op \notin {"load", "moffs"}
  PROVE  DecodesOperand'
<1>1. ins'.op = op
  BY DEF Did
<1> QED BY <1>1 DEF DecodesOperand

(* A load goes where the operand says.                                     *)
LEMMA LoadDecodes ==
  ASSUME IsMachine(cpu), NEW k, NEW o \in Operands, MovToReg(k, o)
  PROVE  DecodesOperand'
<1>1. PICK m : Did("load", k, o, Place(cpu, o), 0, m)
  BY DEF MovToReg
<1>2. /\ ins'.op = "load" /\ ins'.o = o /\ ins'.p = Place(cpu, o) /\ was' = cpu
      /\ ins'.len = Length(o)
  BY <1>1, OperandIs DEF Did
<1>3. ASSUME o.mod # 3
      PROVE  \E t \in IF o.addr32 THEN Written32 ELSE Written16 :
               /\ Encodes(t, o)
               /\ Place(cpu, o).ofs = Effective(cpu, t, IF o.addr32 THEN 4 ELSE 2)
               /\ Place(cpu, o).seg = IF o.over # None THEN o.over
                                      ELSE IF t.base \in {BP, SP} THEN SS ELSE DS
               /\ Length(o) = Bytes(t, o)
  <2>1. PICK t : Decoded(cpu, o, t)
    BY <1>3, Decoded32, Decoded16
  <2> DEFINE A == Address(cpu, o)
             k2 == IF o.addr32 THEN 4 ELSE 2
  <2>2. /\ t \in IF o.addr32 THEN Written32 ELSE Written16
        /\ Encodes(t, o)
        /\ A.ofs = Effective(cpu, t, k2)
        /\ A.ss <=> t.base \in {BP, SP}
        /\ A.len = Bytes(t, o)
    BY <2>1 DEF Decoded
  <2>3. Length(o) = A.len
    BY <1>3 DEF Length
  <2>4. Place(cpu, o) = InMem(DataSegment(o.over, Head(seg_ss) \/ A.ss), A.ofs)
    BY <1>3 DEF Place
  <2>5. Place(cpu, o).seg = DataSegment(o.over, Head(seg_ss) \/ A.ss)
    <3> HIDE DEF A
    <3> QED BY <2>4 DEF InMem
  <2>6. Place(cpu, o).ofs = A.ofs
    <3>1. A.ofs \in Long
      BY <1>3, AddressIs DEF IsAt
    <3>2. Place(cpu, o).ofs = A.ofs % Mod(4)
      <4> HIDE DEF A
      <4> QED BY <2>4 DEF InMem
    <3> HIDE DEF A
    <3> QED BY <3>1, <3>2, LongHolds, RemOfSmall DEF Long
  <2>7. DataSegment(o.over, Head(seg_ss) \/ A.ss)
          = IF o.over # None THEN o.over ELSE IF t.base \in {BP, SP} THEN SS ELSE DS
    <3> HIDE DEF A
    <3> QED BY <2>2 DEF DataSegment, Head
  <2> HIDE DEF A, k2
  <2> QED BY <2>2, <2>3, <2>5, <2>6, <2>7 DEF k2
<1> QED BY <1>2, <1>3 DEF DecodesOperand

Rotations4 == {"rol", "ror", "rcl", "rcr"}

(* Every action but one says what it did, and that it is no load           *)
LEMMA MovesDecode ==
  ASSUME IInv, NEW k, NEW o \in Operands, Moves(k, o)
  PROVE  DecodesOperand'
<1>1. CASE MovToReg(k, o)
  BY <1>1, LoadDecodes DEF IInv, TypeOK
<1>2. CASE MovToRm(k, o)
  BY <1>2, OtherOp DEF MovToRm
<1>3. CASE Xchg(k, o)
  BY <1>3, OtherOp DEF Xchg
<1>4. CASE \E imm \in ImmArg : MovImm(k, o, imm)
  BY <1>4, OtherOp DEF MovImm
<1>5. CASE MovFromSeg(k, o)
  BY <1>5, OtherOp DEF MovFromSeg
<1>6. CASE Lea(k, o)
  BY <1>6, OtherOp DEF Lea
<1>7. CASE \E cond \in BOOLEAN : Cmov(k, o, cond)
  BY <1>7, OtherOp DEF Cmov
<1>8. CASE \E j \in {1, 2} : MovZx(k, j, o)
  BY <1>8, OtherOp DEF MovZx
<1>9. CASE \E j \in {1, 2} : MovSx(k, j, o)
  BY <1>9, OtherOp DEF MovSx
<1> QED BY <1>1, <1>2, <1>3, <1>4, <1>5, <1>6, <1>7, <1>8, <1>9 DEF Moves

(* The instructions that change operands are no loads.                     *)
LEMMA ChangesDecode ==
  ASSUME NEW k, NEW o, Changes(k, o)
  PROVE  DecodesOperand'
<1>1. ASSUME NEW op \in Arithmetics, ArithToRm(op, k, o) PROVE DecodesOperand'
  BY <1>1, OtherOp DEF ArithToRm, Arithmetics
<1>2. ASSUME NEW op \in Arithmetics, ArithToReg(op, k, o) PROVE DecodesOperand'
  BY <1>2, OtherOp DEF ArithToReg
<1>3. ASSUME NEW imm, NEW short, ArithImm(k, o, imm, short) PROVE DecodesOperand'
  <2>1. PICK op, p, s, m : Did(IF op = "cmp" THEN "cmp" ELSE "arithi", k, o, p, s, m)
    BY <1>3 DEF ArithImm
  <2> DEFINE done == IF op = "cmp" THEN "cmp" ELSE "arithi"
  <2>2. done \notin {"load", "moffs"}
    OBVIOUS
  <2>3. Did(done, k, o, p, s, m)
    BY <2>1
  <2> HIDE DEF done
  <2> QED BY <2>2, <2>3, OtherOp
<1>4. ASSUME NEW x, Test(k, o, x) PROVE DecodesOperand'
  <2>1. PICK p, m : Did("test", k, o, p, x, m)
    BY <1>4, Zenon DEF Test
  <2> QED BY <2>1, OtherOp
<1>5. ASSUME NEW op \in Rotations4, NEW n, Rotate(op, k, o, n) PROVE DecodesOperand'
  BY <1>5, OtherOp DEF Rotate, Rotations4
<1>6. ASSUME NEW op \in Rotations4, RotateImm(op, k, o) \/ RotateCl(op, k, o)
      PROVE  DecodesOperand'
  BY <1>5, <1>6 DEF RotateImm, RotateCl
<1>7. CASE NotRm(k, o)
  BY <1>7, OtherOp DEF NotRm
<1>8. CASE NegRm(k, o)
  BY <1>8, OtherOp DEF NegRm
<1>9. ASSUME NEW op \in {"inc", "dec"}, StepRm(op, k, o) PROVE DecodesOperand'
  BY <1>9, OtherOp DEF StepRm
<1>10. ASSUME NEW cond, SetCc(o, cond) PROVE DecodesOperand'
  BY <1>10, OtherOp DEF SetCc
<1>11. ASSUME NEW op \in {"bt", "bts", "btr", "btc"}, BitReg(op, k, o) PROVE DecodesOperand'
  BY <1>11, OtherOp DEF BitReg
<1>12. ASSUME NEW op, NEW imm, BitImm(op, k, o, imm) PROVE DecodesOperand'
  BY <1>12, OtherOp DEF BitImm
<1>13. ASSUME NEW op \in {"bsf", "bsr"}, Scan(op, k, o) PROVE DecodesOperand'
  BY <1>13, OtherOp DEF Scan
<1> QED
  BY <1>1, <1>2, <1>3, <1>4, <1>6, <1>7, <1>8, <1>9, <1>10, <1>11, <1>12, <1>13
  DEF Changes, Rotations4

(* MOV of the accumulator uses the data segment or the override.           *)
LEMMA AccumulatorDecodes ==
  ASSUME NEW k, Accumulator(k)
  PROVE  DecodesOperand'
<1>1. ASSUME NEW a, NEW addr32, NEW over \in {None, ES}, NEW toAcc, MovAcc(k, a, addr32, over, toAcc)
      PROVE  DecodesOperand'
  <2> DEFINE b == a % Mod(IF addr32 THEN 4 ELSE 2)
             p == InMem(DataSegment(over, Head(seg_ss)), b)
  <2>1. PICK m : Did("moffs", k, None, p, b, m)
    BY <1>1 DEF MovAcc
  <2>2. p.seg \in {DS, ES}
    BY DEF InMem, DataSegment, Head
  <2> HIDE DEF p, b
  <2>3. ins'.op = "moffs" /\ ins'.p = p
    BY <2>1 DEF Did
  <2> QED BY <2>2, <2>3 DEF DecodesOperand
<1>2. ASSUME NEW r, XchgAx(k, r) PROVE DecodesOperand'
  BY <1>2, OtherOp DEF XchgAx
<1>3. ASSUME NEW r, NEW imm, MovRegImm(k, r, imm) PROVE DecodesOperand'
  BY <1>3, OtherOp DEF MovRegImm
<1>4. ASSUME NEW r, Bswap(k, r) PROVE DecodesOperand'
  <2>1. PICK m : Did("bswap", k, None, InReg(r), 0, m)
    BY <1>4, Zenon DEF Bswap
  <2> QED BY <2>1, OtherOp
<1>5. ASSUME NEW op \in Arithmetics, NEW imm, ArithAcc(op, k, imm) PROVE DecodesOperand'
  BY <1>5, OtherOp DEF ArithAcc, Arithmetics
<1>6. ASSUME NEW r, IncReg(k, r) \/ DecReg(k, r) PROVE DecodesOperand'
  BY <1>6, OtherOp DEF IncReg, DecReg, StepReg
<1>7. CASE Cbw(k)
  BY <1>7, OtherOp DEF Cbw
<1>8. CASE Cwd(k)
  BY <1>8, OtherOp DEF Cwd
<1> QED
  BY <1>1, <1>2, <1>3, <1>4, <1>5, <1>6, <1>7, <1>8 DEF Accumulator

(* Every step keeps DecodesOperand.                                        *)
LEMMA StepDecodes == IInv /\ DecodesOperand /\ [Next]_vars => DecodesOperand'
<1>1. ASSUME IInv, Next PROVE DecodesOperand'
  <2>1. ASSUME NEW k \in Size, Accumulator(k) PROVE DecodesOperand'
    BY <2>1, AccumulatorDecodes
  <2>2. ASSUME NEW data32, NEW over, Xlat(data32, over) PROVE DecodesOperand'
    BY <2>2, OtherOp DEF Xlat
  <2>3. ASSUME NEW k \in Size, NEW o \in Choice, Moves(k, o) \/ Changes(k, o)
        PROVE  DecodesOperand'
    <3>1. o \in Operands
      BY <1>1 DEF Choice, IInv
    <3> QED BY <1>1, <2>3, <3>1, MovesDecode, ChangesDecode
  <2> QED BY <1>1, <2>1, <2>2, <2>3 DEF Next
<1>2. ASSUME DecodesOperand, UNCHANGED vars PROVE DecodesOperand'
  <2>1. ins' = ins /\ was' = was
    BY <1>2 DEF vars
  <2> QED BY <1>2, <2>1 DEF DecodesOperand
<1> QED BY <1>1, <1>2

(* A load goes where the assembler's operand says: for each encoding there *)
(* is an operand in brackets that is written so, and whose offset, segment *)
(* and length of code decode_rm_address(), decode_sib_address() and        *)
(* get_data_segment() find, the stack segment not inherited from the       *)
(* instruction before.                                                     *)
THEOREM OperandsDecode == Spec => []DecodesOperand
<1>1. Init => DecodesOperand
  BY DEF Init, Nothing, DecodesOperand
<1> QED BY InitInv, StepInv, StepDecodes, <1>1, PTL DEF Spec

-----------------------------------------------------------------------------
-----------------------------------------------------------------------------
(* Numbers of one, two or four bytes *)
Number(b, k) ==
  LET B == Mod(1)
  IN  IF k = 1 THEN b[0] ELSE IF k = 2 THEN b[0] + B * b[1]
      ELSE b[0] + B * (b[1] + B * (b[2] + B * b[3]))

AreBytes(b, k) == \A i \in 0 .. (k - 1) : b[i] \in 0 .. (Mod(1) - 1)

(* A digit in front.                                                       *)
LEMMA Digit ==
  ASSUME NEW B \in Nat \ {0}, NEW a \in 0 .. (B - 1), NEW M \in Nat \ {0}, NEW y \in 0 .. (M - 1)
  PROVE  a + B * y \in 0 .. (B * M - 1) /\ (a + B * y) % B = a /\ (a + B * y) \div B = y
<1>1. B * y \in Nat /\ B * y <= B * (M - 1) /\ B * (M - 1) = B * M - B /\ B * M \in Nat
  BY SMT
<1>2. B * y + a = a + B * y
  BY <1>1
<1>3. (B * y + a) % B = a /\ (B * y + a) \div B = y
  <2>1. y \in Int
    OBVIOUS
  <2> QED BY <2>1, DivModUnique
<1>4. a + B * y \in 0 .. (B * M - 1)
  BY <1>1
<1> QED BY <1>2, <1>3, <1>4

(* The bytes of v are the remainders of its repeated quotients.            *)
LEMMA BytesAre ==
  ASSUME NEW v \in Int
  PROVE  LET B == Mod(1)
         IN  /\ ByteOf(v, 0) = v % B /\ ByteOf(v, 1) = (v \div B) % B
             /\ ByteOf(v, 2) = ((v \div B) \div B) % B /\ ByteOf(v, 3) = (((v \div B) \div B) \div B) % B
<1> DEFINE B == Mod(1)
<1>1. B \in Nat /\ B > 0 /\ Mod(2) = B * B /\ Mod(3) = B * Mod(2) /\ Mod(2) \in Nat /\ Mod(2) > 0 /\ Mod(0) = 1
  BY ModType, ModValues
<1>2. v \div 1 = v
  BY SMT
<1> HIDE DEF B
<1>3. v \div (B * B) = (v \div B) \div B
  BY <1>1, DivTwice
<1>4. v \div B \in Int
  BY <1>1, DivMod
<1>5. v \div (B * Mod(2)) = (v \div B) \div Mod(2) /\ (v \div B) \div (B * B) = ((v \div B) \div B) \div B
  BY <1>1, <1>4, DivTwice
<1>6. /\ ByteOf(v, 0) = (v \div Mod(0)) % B /\ ByteOf(v, 1) = (v \div B) % B
      /\ ByteOf(v, 2) = (v \div Mod(2)) % B /\ ByteOf(v, 3) = (v \div Mod(3)) % B
  BY DEF ByteOf, B
<1>7. /\ ByteOf(v, 0) = v % B /\ ByteOf(v, 1) = (v \div B) % B
      /\ ByteOf(v, 2) = ((v \div B) \div B) % B /\ ByteOf(v, 3) = (((v \div B) \div B) \div B) % B
  BY <1>1, <1>2, <1>3, <1>5, <1>6
<1> QED BY <1>7 DEF B

(* A number of bytes is in range, and its bytes are those it is made of.   *)
LEMMA NumberIs ==
  ASSUME NEW k \in Size, NEW b, AreBytes(b, k)
  PROVE  /\ Number(b, k) \in 0 .. (Mod(k) - 1)
         /\ \A i \in 0 .. (k - 1) : ByteOf(Number(b, k), i) = b[i]
<1> DEFINE B == Mod(1)
           v == Number(b, k)
<1>1. /\ B \in Nat \ {0} /\ Mod(2) = B * B /\ Mod(3) = B * Mod(2) /\ Mod(4) = B * Mod(3)
      /\ Mod(2) \in Nat \ {0} /\ Mod(3) \in Nat \ {0} /\ Mod(4) \in Nat \ {0}
  <2>1. Mod(1 + 3) = Mod(1) * Mod(3) /\ 1 + 3 = 4
    BY ModSum
  <2> QED BY <2>1, ModType, ModValues
<1>2. \A x \in Int : /\ ByteOf(x, 0) = x % B /\ ByteOf(x, 1) = (x \div B) % B
                     /\ ByteOf(x, 2) = ((x \div B) \div B) % B /\ ByteOf(x, 3) = (((x \div B) \div B) \div B) % B
  BY BytesAre, Zenon
<1>3. \A a \in 0 .. (B - 1) : a % B = a
  BY <1>1, RemOfSmall
<1>4. \A a \in 0 .. (B - 1) : \A M \in Nat \ {0} : \A y \in 0 .. (M - 1) :
        a + B * y \in 0 .. (B * M - 1) /\ (a + B * y) % B = a /\ (a + B * y) \div B = y
  BY <1>1, Digit
<1>5. /\ k = 1 => v = b[0]
      /\ k = 2 => v = b[0] + B * b[1]
      /\ k = 4 => v = b[0] + B * (b[1] + B * (b[2] + B * b[3]))
  BY DEF Number
<1>6. \A i \in 0 .. (k - 1) : b[i] \in 0 .. (B - 1)
  BY DEF AreBytes
<1> HIDE DEF v, B
<1>7. CASE k = 1
  <2>1. b[0] \in 0 .. (B - 1) /\ 0 .. (k - 1) = {0} /\ Mod(k) = B
    BY <1>6, <1>7 DEF B
  <2>2. v \in 0 .. (B - 1) /\ v % B = b[0] /\ v \in Int
    BY <1>1, <1>3, <1>5, <1>7, <2>1
  <2>3. ByteOf(v, 0) = b[0]
    BY <1>2, <2>2
  <2> QED BY <2>1, <2>2, <2>3 DEF v
<1>8. CASE k = 2
  <2>1. b[0] \in 0 .. (B - 1) /\ b[1] \in 0 .. (B - 1) /\ 0 .. (k - 1) = {0, 1}
    BY <1>6, <1>8
  <2>2. v \in 0 .. (B * B - 1) /\ v % B = b[0] /\ v \div B = b[1]
    <3> DEFINE y == b[0] + B * b[1]
    <3>1. y \in 0 .. (B * B - 1) /\ y % B = b[0] /\ y \div B = b[1]
      BY <1>1, <1>4, <2>1
    <3>2. v = y
      BY <1>5, <1>8
    <3> HIDE DEF y
    <3> QED BY <3>1, <3>2
  <2>3. v \in Int /\ b[1] % B = b[1]
    BY <1>1, <1>3, <2>1, <2>2
  <2>4. ByteOf(v, 0) = b[0] /\ ByteOf(v, 1) = b[1]
    BY <1>2, <2>2, <2>3
  <2> QED BY <1>1, <1>8, <2>1, <2>2, <2>4 DEF v
<1>9. CASE k = 4
  <2> DEFINE x2 == b[2] + B * b[3]
             x1 == b[1] + B * x2
  <2>1. /\ b[0] \in 0 .. (B - 1) /\ b[1] \in 0 .. (B - 1) /\ b[2] \in 0 .. (B - 1) /\ b[3] \in 0 .. (B - 1)
        /\ v = b[0] + B * x1 /\ 0 .. (k - 1) = {0, 1, 2, 3}
    BY <1>5, <1>6, <1>9
  <2>2. x2 \in 0 .. (B * B - 1) /\ x2 % B = b[2] /\ x2 \div B = b[3] /\ b[3] % B = b[3]
    BY <1>1, <1>3, <1>4, <2>1
  <2> HIDE DEF x2
  <2>3. x1 \in 0 .. (B * Mod(2) - 1) /\ x1 % B = b[1] /\ x1 \div B = x2
    <3> DEFINE M == Mod(2)
    <3>1. M \in Nat \ {0} /\ x2 \in 0 .. (M - 1) /\ b[1] \in 0 .. (B - 1)
      BY <1>1, <2>1, <2>2
    <3> HIDE DEF M
    <3>2. \A y \in 0 .. (M - 1) :
            b[1] + B * y \in 0 .. (B * M - 1) /\ (b[1] + B * y) % B = b[1] /\ (b[1] + B * y) \div B = y
      BY <1>4, <3>1
    <3> QED BY <3>1, <3>2 DEF M
  <2> HIDE DEF x1
  <2>4. v \in 0 .. (B * Mod(3) - 1) /\ v % B = b[0] /\ v \div B = x1
    BY <1>1, <1>4, <2>1, <2>3
  <2>5. v \in Int
    BY <1>1, <2>4
  <2>6. ByteOf(v, 0) = b[0] /\ ByteOf(v, 1) = b[1] /\ ByteOf(v, 2) = b[2] /\ ByteOf(v, 3) = b[3]
    BY <1>2, <2>2, <2>3, <2>4, <2>5
  <2>7. v \in 0 .. (Mod(k) - 1)
    BY <1>1, <1>9, <2>4
  <2> QED BY <2>1, <2>6, <2>7 DEF v
<1> QED BY <1>7, <1>8, <1>9 DEF Size

BytesOf(v, k) == [i \in 0 .. (k - 1) |-> ByteOf(v, i)]

(* The number of the lowest k bytes of v is v, cut to k bytes.             *)
LEMMA NumberOfBytes ==
  ASSUME NEW k \in Size, NEW v \in Int
  PROVE  AreBytes(BytesOf(v, k), k) /\ Number(BytesOf(v, k), k) = v % Mod(k)
<1> DEFINE B == Mod(1)
           b == BytesOf(v, k)
           v1 == v \div B
           v2 == v1 \div B
           v3 == v2 \div B
           v4 == v3 \div B
<1>1. /\ B \in Nat \ {0} /\ Mod(2) = B * B /\ Mod(4) = (B * B) * (B * B)
      /\ Mod(2) \in Nat \ {0} /\ Mod(4) \in Nat \ {0}
  BY ModType, ModValues
<1>2. /\ ByteOf(v, 0) = v % B /\ ByteOf(v, 1) = v1 % B /\ ByteOf(v, 2) = v2 % B /\ ByteOf(v, 3) = v3 % B
  BY BytesAre, Zenon
<1>3. AreBytes(b, k)
  <2>1. \A i \in 0 .. (k - 1) : i \in Nat
    BY DEF Size
  <2> QED BY <2>1, ByteOfType DEF AreBytes, BytesOf, Byte
<1>4. /\ k = 1 => b[0] = v % B
      /\ k = 2 => b[0] = v % B /\ b[1] = v1 % B
      /\ k = 4 => b[0] = v % B /\ b[1] = v1 % B /\ b[2] = v2 % B /\ b[3] = v3 % B
  BY <1>2 DEF BytesOf
<1>5. /\ k = 1 => Number(b, k) = b[0]
      /\ k = 2 => Number(b, k) = b[0] + B * b[1]
      /\ k = 4 => Number(b, k) = b[0] + B * (b[1] + B * (b[2] + B * b[3]))
  BY DEF Number
<1>6. Number(b, k) \in 0 .. (Mod(k) - 1)
  BY <1>3, NumberIs
<1>7. (k = 1 => Mod(k) = B) /\ (k = 2 => Mod(k) = B * B) /\ (k = 4 => Mod(k) = (B * B) * (B * B))
  BY <1>1
<1> HIDE DEF B, b
<1>8. \A x \in Int : x \div B \in Int /\ x % B \in Int /\ x = B * (x \div B) + (x % B)
  <2> TAKE x \in Int
  <2>1. x \div B \in Int /\ x % B \in 0 .. (B - 1) /\ x = B * (x \div B) + (x % B)
    BY <1>1, DivMod
  <2> QED BY <2>1
<1>9. v1 \in Int /\ v2 \in Int /\ v3 \in Int /\ v4 \in Int
  BY <1>8
<1>10. v = B * v1 + (v % B) /\ v1 = B * v2 + (v1 % B) /\ v2 = B * v3 + (v2 % B) /\ v3 = B * v4 + (v3 % B)
  BY <1>8, <1>9
<1>11. v % B \in Int /\ v1 % B \in Int /\ v2 % B \in Int /\ v3 % B \in Int
  BY <1>8, <1>9
<1> HIDE DEF v1, v2, v3, v4
<1>12. \E q \in Int : v = Mod(k) * q + Number(b, k)
  <2>1. CASE k = 1
    BY <1>4, <1>5, <1>7, <1>9, <1>10, <2>1
  <2>2. CASE k = 2
    <3>1. \A c, d, q, z \in Int : z = B * c + d /\ c = B * q + d => z = B * c + d
      OBVIOUS
    <3>2. \A a, c, q \in Int : B * (B * q + c) + a = (B * B) * q + (a + B * c)
      BY <1>1, SMT
    <3>3. v = (B * B) * v2 + ((v % B) + B * (v1 % B))
      BY <1>9, <1>10, <1>11, <3>2
    <3> QED BY <1>4, <1>5, <1>7, <1>9, <2>2, <3>3
  <2>3. CASE k = 4
    <3>1. \A a, c, d, e, q \in Int : B * (B * (B * (B * q + e) + d) + c) + a = ((B * B) * (B * B)) * q + (a + B * (c + B * (d + B * e)))
      BY <1>1, SMT
    <3>2. v = ((B * B) * (B * B)) * v4 + ((v % B) + B * ((v1 % B) + B * ((v2 % B) + B * (v3 % B))))
      BY <1>9, <1>10, <1>11, <3>1
    <3> QED BY <1>4, <1>5, <1>7, <1>9, <2>3, <3>2
  <2> QED BY <2>1, <2>2, <2>3 DEF Size
<1>13. Number(b, k) = v % Mod(k)
  <2>1. Mod(k) \in Nat \ {0}
    BY LongHolds
  <2>2. PICK q \in Int : v = Mod(k) * q + Number(b, k)
    BY <1>12
  <2> QED BY <1>6, <2>1, <2>2, DivModUnique
<1> QED BY <1>3, <1>13 DEF b

(* TotalIs, with the empty set and the rest in the shape the sums of a      *)
(* number's bytes take.                                                    *)
LEMMA TotalsOf ==
  ASSUME NEW S, IsFiniteSet(S), NEW w, \A i \in S : w[i] \in Nat
  PROVE  /\ Total(w, {}) = 0
         /\ \A s \in SUBSET S : Total(w, s) \in Nat /\ \A x \in s : Total(w, s) = w[x] + Total(w, s \ {x})
<1>1. /\ \A s \in SUBSET S : IsFiniteSet(Marks(w, s)) /\ Total(w, s) \in Nat
      /\ Total(w, {}) = 0
      /\ \A s \in SUBSET S : \A x \in s : Total(w, s) = w[x] + Total(w, s \ {x})
  BY TotalIs
<1> QED BY <1>1

(* A total of one, two or four bytes                                       *)
LEMMA TotalOfBytes ==
  ASSUME NEW k \in Size, NEW w, \A i \in 0 .. (k - 1) : w[i] \in Nat
  PROVE  /\ k = 1 => Total(w, 0 .. (k - 1)) = w[0]
         /\ k = 2 => Total(w, 0 .. (k - 1)) = w[0] + w[1]
         /\ k = 4 => Total(w, 0 .. (k - 1)) = w[0] + (w[1] + (w[2] + w[3]))
<1> DEFINE S == 0 .. (k - 1)
<1>1. IsFiniteSet(S)
  BY FS_Interval DEF Size
<1>2. /\ Total(w, {}) = 0
      /\ \A s \in SUBSET S : Total(w, s) \in Nat /\ \A x \in s : Total(w, s) = w[x] + Total(w, s \ {x})
  <2>1. \A i \in S : w[i] \in Nat
    OBVIOUS
  <2> HIDE DEF S
  <2> QED BY <1>1, <2>1, TotalsOf
<1>3. ASSUME NEW x \in S PROVE Total(w, {x}) = w[x]
  <2>1. {x} \in SUBSET S /\ x \in {x} /\ {x} \ {x} = {} /\ w[x] \in Nat
    OBVIOUS
  <2>2. Total(w, {x}) = w[x] + Total(w, {x} \ {x})
    BY <1>2, <2>1
  <2> QED BY <1>2, <2>1, <2>2
<1>4. k = 1 => Total(w, S) = w[0]
  BY <1>3
<1>5. ASSUME k = 2 PROVE Total(w, S) = w[0] + w[1]
  <2>1. S \in SUBSET S /\ 0 \in S /\ 1 \in S /\ S \ {0} = {1}
    BY <1>5
  <2> HIDE DEF S
  <2>2. Total(w, S) = w[0] + Total(w, S \ {0})
    BY <1>2, <2>1
  <2> QED BY <1>3, <2>1, <2>2
<1>6. ASSUME k = 4 PROVE Total(w, S) = w[0] + (w[1] + (w[2] + w[3]))
  <2>1. /\ S \in SUBSET S /\ 0 \in S /\ S \ {0} = {1, 2, 3} /\ 3 \in S
        /\ {1, 2, 3} \in SUBSET S /\ {1, 2, 3} \ {1} = {2, 3}
        /\ {2, 3} \in SUBSET S /\ {2, 3} \ {2} = {3}
    BY <1>6
  <2> HIDE DEF S
  <2>2. Total(w, S) = w[0] + Total(w, {1, 2, 3})
    BY <1>2, <2>1
  <2>3. Total(w, {1, 2, 3}) = w[1] + Total(w, {2, 3})
    <3>1. 1 \in {1, 2, 3}
      OBVIOUS
    <3> QED BY <1>2, <2>1, <3>1
  <2>4. Total(w, {2, 3}) = w[2] + Total(w, {3})
    <3>1. 2 \in {2, 3}
      OBVIOUS
    <3> QED BY <1>2, <2>1, <3>1
  <2> QED BY <1>3, <2>1, <2>2, <2>3, <2>4
<1> QED BY <1>4, <1>5, <1>6

(* The bytes at a place in memory                                          *)
Stored(m, p, k) == [i \in 0 .. (k - 1) |-> MemAt(m, Cell(m, p, i))]

(* Load() makes a number of them.                                          *)
LEMMA LoadNumber ==
  ASSUME NEW m, IsMachine(m), NEW p, NEW k \in Size, p.seg # None
  PROVE  AreBytes(Stored(m, p, k), k) /\ Load(m, p, k) = Number(Stored(m, p, k), k)
<1> DEFINE B == Mod(1)
           b == Stored(m, p, k)
           w == Loaded(m, p, k)
<1>1. Load(m, p, k) = Total(w, 0 .. (k - 1)) /\ \A i \in 0 .. (k - 1) : w[i] \in Nat
  BY LoadIs
<1>2. AreBytes(b, k)
  BY MemAtType DEF AreBytes, Stored, Byte
<1>3. \A i \in 0 .. (k - 1) : w[i] = b[i] * Mod(i) /\ b[i] \in Nat
  BY MemAtType DEF Loaded, Stored
<1>4. Mod(0) = 1 /\ Mod(2) = B * B /\ Mod(3) = B * (B * B) /\ B \in Nat
  BY ModType, ModValues
<1>5. /\ k = 1 => Number(b, k) = b[0]
      /\ k = 2 => Number(b, k) = b[0] + B * b[1]
      /\ k = 4 => Number(b, k) = b[0] + B * (b[1] + B * (b[2] + B * b[3]))
  BY DEF Number
<1> HIDE DEF B, b, w
<1>6. /\ k = 1 => Load(m, p, k) = w[0]
      /\ k = 2 => Load(m, p, k) = w[0] + w[1]
      /\ k = 4 => Load(m, p, k) = w[0] + (w[1] + (w[2] + w[3]))
  BY <1>1, TotalOfBytes
<1>7. /\ k = 1 => 0 .. (k - 1) = {0}
      /\ k = 2 => 0 .. (k - 1) = {0, 1}
      /\ k = 4 => 0 .. (k - 1) = {0, 1, 2, 3}
  OBVIOUS
<1>8. CASE k = 1
  <2>1. w[0] = b[0] * 1 /\ b[0] \in Nat
    BY <1>3, <1>4, <1>7, <1>8
  <2> QED BY <1>2, <1>5, <1>6, <1>8, <2>1 DEF b
<1>9. CASE k = 2
  <2>1. w[0] = b[0] * 1 /\ w[1] = b[1] * B /\ b[0] \in Nat /\ b[1] \in Nat
    BY <1>3, <1>4, <1>7, <1>9 DEF B
  <2>2. b[0] * 1 + b[1] * B = b[0] + B * b[1]
    BY <1>4, <2>1
  <2> QED BY <1>2, <1>5, <1>6, <1>9, <2>1, <2>2 DEF b
<1>10. CASE k = 4
  <2>1. /\ w[0] = b[0] * 1 /\ w[1] = b[1] * B /\ w[2] = b[2] * (B * B) /\ w[3] = b[3] * (B * (B * B))
        /\ b[0] \in Nat /\ b[1] \in Nat /\ b[2] \in Nat /\ b[3] \in Nat
    BY <1>3, <1>4, <1>7, <1>10 DEF B
  <2>2. \A a, c, d, e \in Nat : a * 1 + (c * B + (d * (B * B) + e * (B * (B * B)))) = a + B * (c + B * (d + B * e))
    BY <1>4, SMT
  <2>3. w[0] + (w[1] + (w[2] + w[3])) = b[0] + B * (b[1] + B * (b[2] + B * b[3]))
    BY <2>1, <2>2
  <2> QED BY <1>2, <1>5, <1>6, <1>10, <2>3 DEF b
<1> QED BY <1>8, <1>9, <1>10 DEF Size

(* Numbers of the same bytes are the same.                                 *)
LEMMA SameNumber ==
  ASSUME NEW k \in Size, NEW b, NEW c, \A i \in 0 .. (k - 1) : b[i] = c[i]
  PROVE  Number(b, k) = Number(c, k)
<1>1. /\ k = 1 => 0 .. (k - 1) = {0}
      /\ k = 2 => 0 .. (k - 1) = {0, 1}
      /\ k = 4 => 0 .. (k - 1) = {0, 1, 2, 3}
  OBVIOUS
<1> QED BY <1>1 DEF Number, Size

(* BSWAP makes a number of the bytes the other way round.                  *)
Reversed(x) == [i \in 0 .. 3 |-> ByteOf(x, 3 - i)]

(* The number of the reversed bytes is what BSWAP makes of a number.       *)
LEMMA TurnedNumber ==
  ASSUME NEW x \in Int
  PROVE  AreBytes(Reversed(x), 4) /\ Turned32(x) = Number(Reversed(x), 4)
<1> DEFINE B == Mod(1)
           b == Reversed(x)
           w == Turn32(x)
<1>1. Turned32(x) = Total(w, 0 .. (4 - 1)) /\ \A i \in 0 .. (4 - 1) : w[i] \in Nat
  <2>1. 4 - 1 = 3
    OBVIOUS
  <2> QED BY <2>1, TurnedIs
<1>2. AreBytes(b, 4) /\ \A i \in 0 .. 3 : b[i] \in Nat
  <2>1. \A i \in 0 .. 3 : 3 - i \in Nat
    OBVIOUS
  <2>2. \A i \in 0 .. 3 : ByteOf(x, 3 - i) \in 0 .. (Mod(1) - 1)
    BY <2>1, ByteOfType DEF Byte
  <2>3. \A i \in 0 .. 3 : b[i] = ByteOf(x, 3 - i)
    BY DEF Reversed
  <2>4. 4 - 1 = 3
    OBVIOUS
  <2> QED BY <2>2, <2>3, <2>4, ModValues DEF AreBytes
<1>3. /\ w[0] = b[3] * Mod(3) /\ w[1] = b[2] * Mod(2) /\ w[2] = b[1] * Mod(1) /\ w[3] = b[0] * Mod(0)
  BY DEF Turn32, Reversed
<1>4. Mod(0) = 1 /\ Mod(2) = B * B /\ Mod(3) = B * (B * B) /\ B \in Nat /\ Mod(1) = B
  BY ModType, ModValues
<1>5. Number(b, 4) = b[0] + B * (b[1] + B * (b[2] + B * b[3]))
  BY DEF Number
<1> HIDE DEF B, b, w
<1>6. Turned32(x) = w[0] + (w[1] + (w[2] + w[3]))
  <2>1. 4 \in Size
    BY DEF Size
  <2> QED BY <1>1, <2>1, TotalOfBytes
<1>7. b[0] \in Nat /\ b[1] \in Nat /\ b[2] \in Nat /\ b[3] \in Nat
  BY <1>2
<1>8. \A a, c, d, e \in Nat : e * (B * (B * B)) + (d * (B * B) + (c * B + a * 1)) = a + B * (c + B * (d + B * e))
  BY <1>4, SMT
<1>9. Turned32(x) = b[0] + B * (b[1] + B * (b[2] + B * b[3]))
  BY <1>3, <1>4, <1>6, <1>7, <1>8
<1> QED BY <1>2, <1>5, <1>9 DEF b

(* BSWAP undoes itself.                                                    *)
LEMMA TurnedTwice ==
  ASSUME NEW x \in Long
  PROVE  Turned32(x) \in Long /\ Turned32(Turned32(x)) = x
<1> DEFINE y == Turned32(x)
<1>1. x \in Int /\ 4 \in Size /\ Mod(4) \in Nat \ {0}
  BY ModValues, LongHolds DEF Long, Size
<1>2. AreBytes(Reversed(x), 4) /\ y = Number(Reversed(x), 4)
  BY <1>1, TurnedNumber
<1>3. y \in 0 .. (Mod(4) - 1) /\ \A i \in 0 .. (4 - 1) : ByteOf(y, i) = Reversed(x)[i]
  BY <1>1, <1>2, NumberIs
<1> HIDE DEF y
<1>4. y \in Int
  BY <1>1, <1>3
<1>5. Turned32(y) = Number(Reversed(y), 4)
  BY <1>4, TurnedNumber
<1>6. \A i \in 0 .. (4 - 1) : Reversed(y)[i] = BytesOf(x, 4)[i]
  <2> TAKE i \in 0 .. (4 - 1)
  <2>1. i \in 0 .. 3 /\ 3 - i \in 0 .. 3 /\ 3 - i \in 0 .. (4 - 1) /\ 3 - (3 - i) = i
    OBVIOUS
  <2>2. Reversed(y)[i] = ByteOf(y, 3 - i)
    BY <2>1 DEF Reversed
  <2>3. ByteOf(y, 3 - i) = ByteOf(x, 3 - (3 - i))
    BY <1>3, <2>1 DEF Reversed
  <2> QED BY <2>1, <2>2, <2>3 DEF BytesOf
<1>7. Number(Reversed(y), 4) = Number(BytesOf(x, 4), 4)
  BY <1>1, <1>6, SameNumber
<1>8. Number(BytesOf(x, 4), 4) = x % Mod(4)
  BY <1>1, NumberOfBytes
<1>9. x % Mod(4) = x
  BY <1>1, RemOfSmall DEF Long
<1> QED BY <1>3, <1>5, <1>7, <1>8, <1>9 DEF y, Long

-----------------------------------------------------------------------------
(* Machines m and n that agree beside the place p of k bytes               *)
Beside(m, n, p, k) ==
  /\ IsMachine(n) /\ n.seg = m.seg
  /\ p.seg = None => /\ n.mem = m.mem
                     /\ \A j \in Gpr : n.reg[j] = m.reg[j] +
                          (IF j = Part(p.ofs, k).reg
                           THEN Part(p.ofs, k).low * (GetReg(n, p.ofs, k) - GetReg(m, p.ofs, k)) ELSE 0)
  /\ p.seg # None => /\ n.reg = m.reg
                     /\ \A a : a \notin Cells(m, p, k) => MemAt(n, a) = MemAt(m, a)

(* Memories with the same bytes are the same.                              *)
LEMMA SameMemory ==
  ASSUME NEW m, IsMachine(m), NEW n, IsMachine(n), \A a : MemAt(n, a) = MemAt(m, a)
  PROVE  n.mem = m.mem
<1>1. /\ m.mem = [a \in DOMAIN m.mem |-> m.mem[a]] /\ n.mem = [a \in DOMAIN n.mem |-> n.mem[a]]
      /\ \A a \in DOMAIN m.mem : m.mem[a] # 0
      /\ \A a \in DOMAIN n.mem : n.mem[a] # 0
  BY DEF IsMachine
<1>2. DOMAIN n.mem = DOMAIN m.mem
  BY <1>1 DEF MemAt
<1>3. \A a \in DOMAIN m.mem : n.mem[a] = m.mem[a]
  BY <1>1, <1>2 DEF MemAt
<1> QED BY <1>1, <1>2, <1>3

(* What is read at a place depends on registers, segments and memory.      *)
LEMMA SameRead ==
  ASSUME NEW m, IsMachine(m), NEW n, IsMachine(n), n.reg = m.reg, n.mem = m.mem, n.seg = m.seg
  PROVE  /\ \A r, k : GetReg(n, r, k) = GetReg(m, r, k)
         /\ \A p, i : Cell(n, p, i) = Cell(m, p, i)
         /\ \A a : MemAt(n, a) = MemAt(m, a)
         /\ \A p : \A k \in Size : Load(n, p, k) = Load(m, p, k)
<1>1. \A r, k : GetReg(n, r, k) = GetReg(m, r, k)
  BY DEF GetReg
<1>2. \A p, i : Cell(n, p, i) = Cell(m, p, i)
  BY DEF Cell
<1>3. \A a : MemAt(n, a) = MemAt(m, a)
  BY DEF MemAt
<1>4. ASSUME NEW p, NEW k \in Size PROVE Load(n, p, k) = Load(m, p, k)
  <2>1. CASE p.seg = None
    BY <1>1, <2>1 DEF Load
  <2>2. CASE p.seg # None
    <3>1. Load(n, p, k) = Total(Loaded(n, p, k), 0 .. (k - 1)) /\ Load(m, p, k) = Total(Loaded(m, p, k), 0 .. (k - 1))
      BY <2>2, LoadIs
    <3>2. Loaded(n, p, k) = Loaded(m, p, k)
      BY <1>2, <1>3 DEF Loaded
    <3> QED BY <3>1, <3>2
  <2> QED BY <2>1, <2>2
<1> QED BY <1>1, <1>2, <1>3, <1>4

(* The cells of a place, by their number                                   *)
LEMMA CellNumber ==
  ASSUME NEW m, IsMachine(m), NEW p, p.seg \in Seg, p.ofs \in Long, NEW k \in Size, NEW i \in 0 .. (k - 1)
  PROVE  (Cell(m, p, i) - m.seg[p.seg].base - p.ofs) % Mod(4) = i
<1> DEFINE b == m.seg[p.seg].base
           x == b + p.ofs + i
           M == Mod(4)
<1>1. b \in Int /\ p.ofs \in Int /\ i \in 0 .. (M - 1) /\ M \in Nat \ {0} /\ i \in Int
  <2>1. m.seg[p.seg].base \in Long
    BY DEF IsMachine
  <2> QED BY <2>1, ModValues, LongHolds DEF Long, Size
<1>2. Cell(m, p, i) = x % M
  BY DEF Cell
<1> HIDE DEF b, M
<1>3. x \in Int /\ (-b - p.ofs) \in Int /\ x + (-b - p.ofs) = i
  BY <1>1
<1>4. i % M = i
  BY <1>1, RemOfSmall
<1> HIDE DEF x
<1>5. ((x % M) + (-b - p.ofs)) % M = (x + (-b - p.ofs)) % M
  BY <1>1, <1>3, RemTwice
<1>6. x % M \in Int
  BY <1>1, <1>3, DivMod
<1>7. (x % M) - b - p.ofs = (x % M) + (-b - p.ofs)
  BY <1>1, <1>6
<1> QED BY <1>2, <1>3, <1>4, <1>5, <1>7 DEF b, M

(* SetReg() adds to one register, and the part reads as it was written.    *)
LEMMA SetRegAdds ==
  ASSUME NEW m, IsMachine(m), NEW r \in Gpr, NEW k \in Size, NEW v \in Int
  PROVE  LET n == SetReg(m, r, k, v) IN
         /\ IsMachine(n) /\ n.mem = m.mem /\ n.seg = m.seg /\ n.cf = m.cf /\ n.zf = m.zf
         /\ GetReg(n, r, k) = v % Mod(k)
         /\ \A j \in Gpr : n.reg[j] = m.reg[j] +
              (IF j = Part(r, k).reg THEN Part(r, k).low * (GetReg(n, r, k) - GetReg(m, r, k)) ELSE 0)
<1> DEFINE n == SetReg(m, r, k, v)
           i == Part(r, k).reg
           low == Part(r, k).low
           new == m.reg[i] + low * ((v % Mod(k)) - GetReg(m, r, k))
<1>1. i \in Gpr /\ \A j \in Gpr : m.reg[j] \in Int
  BY PartIs, ModValues DEF IsMachine, Long
<1>2. PICK X \in Long : n = [m EXCEPT !.reg[i] = X] /\ Replaced(X, m.reg[i], low, Mod(k), v % Mod(k))
  BY SetRegIs
<1>3. n = [m EXCEPT !.reg[i] = new]
  BY DEF SetReg
<1>4. m.reg \in [Gpr -> Long] /\ m = [reg |-> m.reg, mem |-> m.mem, seg |-> m.seg, cf |-> m.cf, zf |-> m.zf, intr |-> m.intr]
  BY DEF IsMachine
<1>5. GetReg(n, r, k) = (n.reg[i] \div low) % Mod(k)
  BY DEF GetReg
<1> HIDE DEF n, i, low, new
<1>6. n.reg[i] = new
  BY <1>1, <1>3, <1>4
<1>7. /\ IsMachine(n) /\ n.reg[i] = X /\ (\A j \in Gpr \ {i} : n.reg[j] = m.reg[j])
      /\ n.mem = m.mem /\ n.seg = m.seg /\ n.cf = m.cf /\ n.zf = m.zf
  <2>1. \A j \in Gpr : m.reg[j] \in Long
    BY <1>4
  <2> QED BY <1>1, <1>2, <2>1, WithReg
<1>8. GetReg(n, r, k) = v % Mod(k)
  BY <1>2, <1>5, <1>7 DEF Replaced
<1>9. n.reg[i] = m.reg[i] + low * (GetReg(n, r, k) - GetReg(m, r, k))
  BY <1>6, <1>8 DEF new
<1>10. \A j \in Gpr : n.reg[j] = m.reg[j] + (IF j = i THEN low * (GetReg(n, r, k) - GetReg(m, r, k)) ELSE 0)
  BY <1>1, <1>7, <1>9
<1> QED BY <1>7, <1>8, <1>10 DEF n, i, low

(* The memory behind a store                                               *)
LEMMA StoreCells ==
  ASSUME NEW m, IsMachine(m), NEW c, Alike(m, c), NEW p, p.seg \in Seg, p.ofs \in Long, p.seg # None,
         NEW k \in Size, NEW v \in Int, NEW n, n = Store(c, p, k, v)
  PROVE  /\ IsMachine(n) /\ n.reg = m.reg /\ n.seg = m.seg /\ n.cf = c.cf
         /\ \A a : a \notin Cells(m, p, k) => MemAt(n, a) = MemAt(m, a)
         /\ \A i \in 0 .. (k - 1) : MemAt(n, Cell(m, p, i)) = ByteOf(v, i)
<1> DEFINE d == Check(c, p, k)
           w == Written(c, p, k, v)
<1>1. IsMachine(c) /\ c.reg = m.reg /\ c.mem = m.mem /\ c.seg = m.seg
  BY DEF Alike
<1>2. IsMachine(d) /\ d.reg = c.reg /\ d.mem = c.mem /\ d.seg = c.seg
  BY <1>1, WithCheck DEF Alike
<1>3. d.cf = c.cf
  <2>1. c = [reg |-> c.reg, mem |-> c.mem, seg |-> c.seg, cf |-> c.cf, zf |-> c.zf, intr |-> c.intr]
    BY <1>1 DEF IsMachine
  <2> QED BY <2>1 DEF Check, Raise
<1>4. n = [d EXCEPT !.mem = w]
  BY DEF Store
<1>5. /\ DOMAIN w \subseteq Long /\ w \in [DOMAIN w -> Byte \ {0}]
      /\ \A a : (IF a \in DOMAIN w THEN w[a] ELSE 0)
                  = IF a \in Cells(c, p, k) THEN NewByte(c, p, v, a) ELSE MemAt(c, a)
  BY <1>1, WrittenIs
<1> HIDE DEF d, w
<1>6. IsMachine(n) /\ n.mem = w /\ n.reg = d.reg /\ n.seg = d.seg /\ n.cf = d.cf
  BY <1>2, <1>4, <1>5, WithMem
<1>7. Cells(c, p, k) = Cells(m, p, k) /\ \A a : MemAt(c, a) = MemAt(m, a) /\ NewByte(c, p, v, a) = NewByte(m, p, v, a)
  BY <1>1 DEF Cells, Cell, MemAt, NewByte
<1>8. \A a : MemAt(n, a) = IF a \in Cells(m, p, k) THEN NewByte(m, p, v, a) ELSE MemAt(m, a)
  BY <1>5, <1>6, <1>7 DEF MemAt
<1>9. ASSUME NEW i \in 0 .. (k - 1) PROVE MemAt(n, Cell(m, p, i)) = ByteOf(v, i)
  <2>1. Cell(m, p, i) \in Cells(m, p, k)
    BY DEF Cells
  <2>2. NewByte(m, p, v, Cell(m, p, i)) = ByteOf(v, i)
    BY CellNumber DEF NewByte
  <2> QED BY <1>8, <2>1, <2>2
<1> QED BY <1>1, <1>2, <1>3, <1>6, <1>8, <1>9

(* A store changes its place only, and is read there.                      *)
LEMMA StoreReads ==
  ASSUME NEW m, IsMachine(m), NEW c, Alike(m, c), NEW p, IsPlace(p), NEW k \in Size, NEW v \in Int,
         NEW n, n = Store(c, p, k, v)
  PROVE  Beside(m, n, p, k) /\ Load(n, p, k) = v % Mod(k) /\ n.cf = c.cf
<1>1. CASE p.seg = None
  <2>1. p.ofs \in Gpr /\ n = SetReg(c, p.ofs, k, v) /\ Load(n, p, k) = GetReg(n, p.ofs, k)
    BY <1>1, OperandAssumption DEF IsPlace, Store, Load
  <2>2. IsMachine(c) /\ c.reg = m.reg /\ c.mem = m.mem /\ c.seg = m.seg
    BY DEF Alike
  <2>3. GetReg(c, p.ofs, k) = GetReg(m, p.ofs, k)
    BY <2>2, SameRead
  <2>4. /\ IsMachine(n) /\ n.mem = c.mem /\ n.seg = c.seg /\ n.cf = c.cf
        /\ GetReg(n, p.ofs, k) = v % Mod(k)
        /\ \A j \in Gpr : n.reg[j] = c.reg[j] + (IF j = Part(p.ofs, k).reg
             THEN Part(p.ofs, k).low * (GetReg(n, p.ofs, k) - GetReg(c, p.ofs, k)) ELSE 0)
    <3> DEFINE q == SetReg(c, p.ofs, k, v)
    <3>1. /\ IsMachine(q) /\ q.mem = c.mem /\ q.seg = c.seg /\ q.cf = c.cf
          /\ GetReg(q, p.ofs, k) = v % Mod(k)
          /\ \A j \in Gpr : q.reg[j] = c.reg[j] + (IF j = Part(p.ofs, k).reg
               THEN Part(p.ofs, k).low * (GetReg(q, p.ofs, k) - GetReg(c, p.ofs, k)) ELSE 0)
      BY <2>1, <2>2, SetRegAdds
    <3> HIDE DEF q
    <3>2. n = q
      BY <2>1 DEF q
    <3> QED BY <3>1, <3>2
  <2> QED BY <1>1, <2>1, <2>2, <2>3, <2>4 DEF Beside
<1>2. CASE p.seg # None
  <2>1. p.seg \in Seg /\ p.ofs \in Long
    BY <1>2 DEF IsPlace
  <2>2. /\ IsMachine(n) /\ n.reg = m.reg /\ n.seg = m.seg /\ n.cf = c.cf
        /\ \A a : a \notin Cells(m, p, k) => MemAt(n, a) = MemAt(m, a)
        /\ \A i \in 0 .. (k - 1) : MemAt(n, Cell(m, p, i)) = ByteOf(v, i)
    BY <1>2, <2>1, StoreCells
  <2>3. Load(n, p, k) = Number(Stored(n, p, k), k)
    BY <1>2, <2>2, LoadNumber
  <2>4. \A i \in 0 .. (k - 1) : Stored(n, p, k)[i] = BytesOf(v, k)[i]
    BY <2>2 DEF Stored, BytesOf, Cell
  <2>5. Number(Stored(n, p, k), k) = Number(BytesOf(v, k), k)
    BY <2>4, SameNumber
  <2>6. Number(BytesOf(v, k), k) = v % Mod(k)
    BY NumberOfBytes
  <2> QED BY <1>2, <2>2, <2>3, <2>5, <2>6 DEF Beside
<1> QED BY <1>1, <1>2

(* A machine is beside itself, and what is beside beside it is.            *)
LEMMA BesideAlike ==
  ASSUME NEW m, IsMachine(m), NEW n, Alike(m, n), NEW p, IsPlace(p), NEW k \in Size
  PROVE  Beside(m, n, p, k) /\ Load(n, p, k) = Load(m, p, k)
<1>1. IsMachine(n) /\ n.reg = m.reg /\ n.mem = m.mem /\ n.seg = m.seg
  BY DEF Alike
<1>2. /\ \A r, j : GetReg(n, r, j) = GetReg(m, r, j)
      /\ \A a : MemAt(n, a) = MemAt(m, a)
      /\ Load(n, p, k) = Load(m, p, k)
  BY <1>1, SameRead
<1>3. CASE p.seg = None
  <2>1. p.ofs \in Gpr
    BY <1>3, OperandAssumption DEF IsPlace
  <2>2. GetReg(m, p.ofs, k) \in Int /\ Part(p.ofs, k).low \in Int /\ \A j \in Gpr : m.reg[j] \in Int
    <3>1. PICK l \in Nat : Part(p.ofs, k).low = 2 ^ l
      BY <2>1, PartIs
    <3> QED BY <2>1, <3>1, GetRegType, PowerIsNat, ModValues DEF IsMachine, Long
  <2>3. Part(p.ofs, k).low * (GetReg(m, p.ofs, k) - GetReg(m, p.ofs, k)) = 0
    BY <2>2, SMT
  <2> QED BY <1>1, <1>2, <1>3, <2>2, <2>3 DEF Beside
<1>4. CASE p.seg # None
  BY <1>1, <1>2, <1>4 DEF Beside
<1> QED BY <1>2, <1>3, <1>4

(* What differs only at a place, twice, differs only at the place.         *)
LEMMA BesideChain ==
  ASSUME NEW m, IsMachine(m), NEW n, NEW o, NEW p, IsPlace(p), NEW k \in Size,
         Beside(m, n, p, k), Beside(n, o, p, k)
  PROVE  Beside(m, o, p, k)
<1>1. IsMachine(n) /\ IsMachine(o) /\ n.seg = m.seg /\ o.seg = n.seg
  BY DEF Beside
<1>2. CASE p.seg = None
  <2> DEFINE r == p.ofs
             low == Part(r, k).low
             x == GetReg(m, r, k)
             y == GetReg(n, r, k)
             z == GetReg(o, r, k)
  <2>1. r \in Gpr
    BY <1>2, OperandAssumption DEF IsPlace
  <2>2. x \in Int /\ y \in Int /\ z \in Int /\ low \in Int /\ \A j \in Gpr : m.reg[j] \in Int
    <3>1. PICK l \in Nat : Part(r, k).low = 2 ^ l
      BY <2>1, PartIs
    <3> QED BY <1>1, <2>1, <3>1, GetRegType, PowerIsNat, ModValues DEF IsMachine, Long
  <2>3. /\ \A j \in Gpr : n.reg[j] = m.reg[j] + (IF j = Part(r, k).reg THEN low * (y - x) ELSE 0)
        /\ \A j \in Gpr : o.reg[j] = n.reg[j] + (IF j = Part(r, k).reg THEN low * (z - y) ELSE 0)
        /\ n.mem = m.mem /\ o.mem = n.mem
    BY <1>2 DEF Beside
  <2> HIDE DEF r, low, x, y, z
  <2>4. low * (y - x) \in Int /\ low * (z - y) \in Int /\ low * (y - x) + low * (z - y) = low * (z - x)
    BY <2>2, SMT
  <2>5. \A j \in Gpr : o.reg[j] = m.reg[j] + (IF j = Part(r, k).reg THEN low * (z - x) ELSE 0)
    BY <2>2, <2>3, <2>4
  <2> QED BY <1>1, <1>2, <2>3, <2>5 DEF Beside, r, low, x, z
<1>3. CASE p.seg # None
  <2>1. Cells(n, p, k) = Cells(m, p, k)
    BY <1>1 DEF Cells, Cell
  <2> QED BY <1>1, <1>3, <2>1 DEF Beside
<1> QED BY <1>2, <1>3

(* Memories that agree beside the cells and are read the same there        *)
LEMMA SameCells ==
  ASSUME NEW m, IsMachine(m), NEW n, IsMachine(n), n.seg = m.seg, NEW p, p.seg # None, NEW k \in Size,
         \A a : a \notin Cells(m, p, k) => MemAt(n, a) = MemAt(m, a), Load(n, p, k) = Load(m, p, k)
  PROVE  n.mem = m.mem
<1>1. /\ AreBytes(Stored(m, p, k), k) /\ Load(m, p, k) = Number(Stored(m, p, k), k)
      /\ AreBytes(Stored(n, p, k), k) /\ Load(n, p, k) = Number(Stored(n, p, k), k)
  BY LoadNumber
<1>2. \A i \in 0 .. (k - 1) : Stored(n, p, k)[i] = Stored(m, p, k)[i]
  <2> TAKE i \in 0 .. (k - 1)
  <2>1. /\ ByteOf(Number(Stored(m, p, k), k), i) = Stored(m, p, k)[i]
        /\ ByteOf(Number(Stored(n, p, k), k), i) = Stored(n, p, k)[i]
    BY <1>1, NumberIs
  <2> QED BY <1>1, <2>1
<1>3. \A i \in 0 .. (k - 1) : MemAt(n, Cell(m, p, i)) = MemAt(m, Cell(m, p, i))
  BY <1>2 DEF Stored, Cell
<1>4. \A a : MemAt(n, a) = MemAt(m, a)
  BY <1>3 DEF Cells
<1> QED BY <1>4, SameMemory

(* Machines that agree beside the place and there are the same.            *)
LEMMA BesideSame ==
  ASSUME NEW m, IsMachine(m), NEW n, NEW p, IsPlace(p), NEW k \in Size,
         Beside(m, n, p, k), Load(n, p, k) = Load(m, p, k)
  PROVE  n.reg = m.reg /\ n.mem = m.mem
<1>1. IsMachine(n) /\ n.seg = m.seg /\ m.reg \in [Gpr -> Long] /\ n.reg \in [Gpr -> Long]
  BY DEF Beside, IsMachine
<1>2. CASE p.seg = None
  <2>1. p.ofs \in Gpr
    BY <1>2, OperandAssumption DEF IsPlace
  <2>2. GetReg(m, p.ofs, k) \in Int /\ Part(p.ofs, k).low \in Int /\ \A j \in Gpr : m.reg[j] \in Int
    <3>1. PICK l \in Nat : Part(p.ofs, k).low = 2 ^ l
      BY <2>1, PartIs
    <3> QED BY <1>1, <2>1, <3>1, GetRegType, PowerIsNat, ModValues DEF Long
  <2>3. Part(p.ofs, k).low * (GetReg(m, p.ofs, k) - GetReg(m, p.ofs, k)) = 0
    BY <2>2, SMT
  <2>4. GetReg(n, p.ofs, k) = GetReg(m, p.ofs, k)
    BY <1>2 DEF Load
  <2>5. n.mem = m.mem /\ \A j \in Gpr : n.reg[j] = m.reg[j]
    BY <1>2, <2>2, <2>3, <2>4 DEF Beside
  <2> QED BY <1>1, <2>5
<1>3. CASE p.seg # None
  <2>1. /\ n.reg = m.reg /\ \A a : a \notin Cells(m, p, k) => MemAt(n, a) = MemAt(m, a)
    BY <1>3 DEF Beside
  <2> QED BY <1>1, <1>3, <2>1, SameCells
<1> QED BY <1>2, <1>3

(* What is loaded is a number of its size.                                 *)
LEMMA LoadRange ==
  ASSUME NEW m, IsMachine(m), NEW p, IsPlace(p), NEW k \in Size
  PROVE  /\ Load(m, p, k) \in 0 .. (Mod(k) - 1) /\ Load(m, p, k) \in Nat
         /\ Load(m, p, k) % Mod(k) = Load(m, p, k)
<1>1. Load(m, p, k) \in 0 .. (Mod(k) - 1)
  <2>1. CASE p.seg = None
    BY <2>1, GetRegType, OperandAssumption DEF IsPlace, Load
  <2>2. CASE p.seg # None
    BY <2>2, LoadNumber, NumberIs
  <2> QED BY <2>1, <2>2
<1>2. Mod(k) \in Nat \ {0}
  BY LongHolds
<1> QED BY <1>1, <1>2, RemOfSmall

(* Writing a register leaves every other one of its size.                  *)
LEMMA PartsApart ==
  ASSUME NEW m, IsMachine(m), NEW r \in Gpr, NEW q \in Gpr, q # r, NEW k \in Size, NEW v \in Int
  PROVE  GetReg(SetReg(m, r, k, v), q, k) = GetReg(m, q, k)
<1> DEFINE n == SetReg(m, r, k, v)
           i == Part(r, k).reg
           R == m.reg[i]
           B == Mod(1)
<1>1. i \in Gpr /\ \A j \in Gpr : m.reg[j] \in Long
  BY PartIs DEF IsMachine
<1>2. PICK X \in Long : n = [m EXCEPT !.reg[i] = X] /\ Replaced(X, R, Part(r, k).low, Mod(k), v % Mod(k))
  BY SetRegIs
<1>3. B \in Nat \ {0} /\ R \in Int /\ X \in Int
  BY <1>1, ModType, ModValues DEF Long
<1> HIDE DEF n, i
<1>4. n.reg[i] = X /\ \A j \in Gpr \ {i} : n.reg[j] = m.reg[j]
  BY <1>1, <1>2, WithReg
<1>5. CASE Part(q, k).reg # i
  <2>1. Part(q, k).reg \in Gpr
    BY PartIs
  <2> QED BY <1>4, <1>5, <2>1 DEF GetReg, n
<1>6. CASE Part(q, k).reg = i
  <2>1. k = 1 /\ (r > 3 <=> ~(q > 3))
    <3>1. k # 1 => Part(q, k).reg = q /\ Part(r, k).reg = r
      BY DEF Part
    <3>2. Part(q, 1).reg = q % 4 /\ Part(r, 1).reg = r % 4
      BY DEF Part
    <3>3. \A x, y \in Gpr : x % 4 = y % 4 /\ x # y => (x > 3 <=> ~(y > 3))
      BY SMT DEF Gpr
    <3> QED BY <1>6, <3>1, <3>2, <3>3 DEF i
  <2> HIDE DEF R
  <2>2. GetReg(n, q, k) = (X \div Part(q, k).low) % B /\ GetReg(m, q, k) = (R \div Part(q, k).low) % B
    BY <1>4, <1>6, <2>1 DEF GetReg, R
  <2>3. R \div 1 = R /\ X \div 1 = X
    BY <1>3
  <2>4. CASE r > 3
    <3>1. Part(r, k).low = B /\ Part(q, k).low = 1
      BY <2>1, <2>4 DEF Part
    <3>2. X % B = R % B
      BY <1>2, <3>1 DEF Replaced
    <3> QED BY <2>2, <2>3, <3>1, <3>2 DEF n
  <2>5. CASE ~(r > 3)
    <3>1. Part(r, k).low = 1 /\ Part(q, k).low = B /\ Mod(k) = B
      BY <2>1, <2>5 DEF Part
    <3>2. X \div (1 * B) = R \div (1 * B)
      BY <1>2, <3>1 DEF Replaced
    <3>3. 1 * B = B
      BY <1>3
    <3> QED BY <2>2, <3>1, <3>2, <3>3 DEF n
  <2> QED BY <2>4, <2>5
<1> QED BY <1>5, <1>6

(* A place and a register that is not it do not meet.                      *)
Apart(p, r) == p.seg = None => p.ofs # r

(* A store at one of them leaves what is at the other.                     *)
LEMMA PlacesApart ==
  ASSUME NEW m, IsMachine(m), NEW p, IsPlace(p), NEW r \in Gpr, Apart(p, r), NEW k \in Size, NEW v \in Int
  PROVE  /\ Load(SetReg(m, r, k, v), p, k) = Load(m, p, k)
         /\ GetReg(Store(m, p, k, v), r, k) = GetReg(m, r, k)
<1>1. CASE p.seg = None
  <2>1. p.ofs \in Gpr /\ p.ofs # r
    BY <1>1, OperandAssumption DEF IsPlace, Apart
  <2>2. GetReg(SetReg(m, r, k, v), p.ofs, k) = GetReg(m, p.ofs, k)
    BY <2>1, PartsApart
  <2>3. GetReg(SetReg(m, p.ofs, k, v), r, k) = GetReg(m, r, k)
    BY <2>1, PartsApart
  <2> QED BY <1>1, <2>2, <2>3 DEF Load, Store
<1>2. CASE p.seg # None
  <2> DEFINE n == SetReg(m, r, k, v)
             s == Store(m, p, k, v)
  <2>1. p.seg \in Seg /\ p.ofs \in Long
    BY <1>2 DEF IsPlace
  <2>2. IsMachine(n) /\ n.mem = m.mem /\ n.seg = m.seg
    BY SetRegAdds
  <2>3. s.reg = m.reg
    BY <1>2, <2>1, AlikeSelf, StoreCells
  <2> HIDE DEF n, s
  <2>4. GetReg(s, r, k) = GetReg(m, r, k)
    BY <2>3 DEF GetReg
  <2>5. Load(n, p, k) = Total(Loaded(n, p, k), 0 .. (k - 1)) /\ Load(m, p, k) = Total(Loaded(m, p, k), 0 .. (k - 1))
    BY <1>2, <2>2, LoadIs
  <2>6. Loaded(n, p, k) = Loaded(m, p, k)
    BY <2>2 DEF Loaded, MemAt, Cell
  <2> QED BY <2>4, <2>5, <2>6 DEF n, s
<1> QED BY <1>1, <1>2

(* XCHG of a place and a register                                          *)
Exchanged(m, p, r, k) == SetReg(Store(m, p, k, GetReg(m, r, k)), r, k, Load(m, p, k))

LowOf(r, k) == Part(r, k).low
Added(m, n, r, k) == [j \in Gpr |-> IF j = Part(r, k).reg THEN LowOf(r, k) * (GetReg(n, r, k) - GetReg(m, r, k)) ELSE 0]

(* An exchange swaps the two numbers and changes nothing else.             *)
LEMMA ExchangedIs ==
  ASSUME NEW m, IsMachine(m), NEW p, IsPlace(p), NEW r \in Gpr, NEW k \in Size
  PROVE  LET n == Exchanged(m, p, r, k) IN
         /\ IsMachine(n) /\ n.seg = m.seg
         /\ GetReg(n, r, k) = Load(m, p, k) /\ Load(n, p, k) = GetReg(m, r, k)
         /\ p.seg = None =>
              /\ n.mem = m.mem
              /\ p.ofs = r => n.reg = m.reg
              /\ p.ofs # r => \A j \in Gpr : n.reg[j] = (m.reg[j] + Added(m, n, p.ofs, k)[j]) + Added(m, n, r, k)[j]
         /\ p.seg # None =>
              /\ \A a : a \notin Cells(m, p, k) => MemAt(n, a) = MemAt(m, a)
              /\ \A j \in Gpr : n.reg[j] = m.reg[j] + Added(m, n, r, k)[j]
<1> DEFINE g == GetReg(m, r, k)
           l == Load(m, p, k)
           t == Store(m, p, k, g)
           n == SetReg(t, r, k, l)
<1>1. g \in Int /\ l \in Int /\ g % Mod(k) = g /\ l % Mod(k) = l
  <2>1. g \in 0 .. (Mod(k) - 1) /\ Mod(k) \in Nat \ {0}
    BY GetRegType, LongHolds
  <2> QED BY <2>1, LoadRange, RemOfSmall
<1>2. Exchanged(m, p, r, k) = n
  BY DEF Exchanged
<1> HIDE DEF g, l
<1>3. Beside(m, t, p, k) /\ Load(t, p, k) = g
  BY <1>1, AlikeSelf, StoreReads
<1>4. IsMachine(t) /\ t.seg = m.seg
  BY <1>3 DEF Beside
<1>5. Apart(p, r) => GetReg(t, r, k) = g
  BY <1>1, PlacesApart DEF g
<1> HIDE DEF t
<1>6. /\ IsMachine(n) /\ n.mem = t.mem /\ n.seg = t.seg /\ GetReg(n, r, k) = l
      /\ \A j \in Gpr : n.reg[j] = t.reg[j] +
           (IF j = Part(r, k).reg THEN Part(r, k).low * (GetReg(n, r, k) - GetReg(t, r, k)) ELSE 0)
  BY <1>1, <1>4, SetRegAdds
<1>7. Apart(p, r) => Load(n, p, k) = g
  BY <1>1, <1>3, <1>4, PlacesApart
<1> HIDE DEF n
<1>8. \A j \in Gpr : m.reg[j] \in Int
  BY ModValues DEF IsMachine, Long
<1>9. CASE p.seg = None /\ p.ofs = r
  <2>1. l = g
    BY <1>9 DEF l, g, Load
  <2>2. Beside(t, n, p, k)
    BY <1>4, <1>6, <1>9 DEF Beside
  <2>3. Beside(m, n, p, k)
    BY <1>3, <2>2, BesideChain
  <2>4. Load(n, p, k) = g /\ Load(n, p, k) = Load(m, p, k)
    BY <1>6, <1>9, <2>1 DEF Load, l
  <2>5. n.reg = m.reg /\ n.mem = m.mem
    BY <2>3, <2>4, BesideSame
  <2> QED BY <1>2, <1>4, <1>6, <1>9, <2>4, <2>5 DEF l, g
<1>10. CASE p.seg = None /\ p.ofs # r
  <2>1. Apart(p, r) /\ GetReg(t, p.ofs, k) = GetReg(n, p.ofs, k)
    <3>1. Apart(p, r)
      BY <1>10 DEF Apart
    <3> QED BY <1>3, <1>7, <1>10, <3>1 DEF Load
  <2>2. /\ t.mem = m.mem
        /\ \A j \in Gpr : t.reg[j] = m.reg[j] +
             (IF j = Part(p.ofs, k).reg THEN Part(p.ofs, k).low * (GetReg(n, p.ofs, k) - GetReg(m, p.ofs, k)) ELSE 0)
    BY <1>3, <1>10, <2>1 DEF Beside
  <2>3. GetReg(t, r, k) = GetReg(m, r, k)
    BY <1>5, <2>1 DEF g
  <2>4. \A j \in Gpr : n.reg[j] = (m.reg[j] + Added(m, n, p.ofs, k)[j]) + Added(m, n, r, k)[j]
    BY <1>6, <2>2, <2>3 DEF Added, LowOf
  <2> QED BY <1>2, <1>4, <1>6, <1>7, <1>10, <2>1, <2>2, <2>4 DEF l, g
<1>11. CASE p.seg # None
  <2>1. Apart(p, r)
    BY <1>11 DEF Apart
  <2>2. t.reg = m.reg /\ \A a : a \notin Cells(m, p, k) => MemAt(t, a) = MemAt(m, a)
    BY <1>3, <1>11 DEF Beside
  <2>3. \A a : a \notin Cells(m, p, k) => MemAt(n, a) = MemAt(m, a)
    BY <1>6, <2>2 DEF MemAt
  <2>4. \A j \in Gpr : n.reg[j] = m.reg[j] + Added(m, n, r, k)[j]
    BY <1>5, <1>6, <2>1, <2>2 DEF Added, LowOf, g
  <2> QED BY <1>2, <1>4, <1>6, <1>7, <1>11, <2>1, <2>3, <2>4 DEF l, g
<1> QED BY <1>9, <1>10, <1>11

(* Exchanging twice gives the machine back.                                *)
LEMMA ExchangedTwice ==
  ASSUME NEW m, IsMachine(m), NEW p, IsPlace(p), NEW r \in Gpr, NEW k \in Size
  PROVE  LET o == Exchanged(Exchanged(m, p, r, k), p, r, k) IN o.reg = m.reg /\ o.mem = m.mem
<1> DEFINE n == Exchanged(m, p, r, k)
           o == Exchanged(n, p, r, k)
<1>1. /\ IsMachine(n) /\ n.seg = m.seg
      /\ GetReg(n, r, k) = Load(m, p, k) /\ Load(n, p, k) = GetReg(m, r, k)
      /\ p.seg = None =>
           /\ n.mem = m.mem
           /\ p.ofs = r => n.reg = m.reg
           /\ p.ofs # r => \A j \in Gpr : n.reg[j] = (m.reg[j] + Added(m, n, p.ofs, k)[j]) + Added(m, n, r, k)[j]
      /\ p.seg # None =>
           /\ \A a : a \notin Cells(m, p, k) => MemAt(n, a) = MemAt(m, a)
           /\ \A j \in Gpr : n.reg[j] = m.reg[j] + Added(m, n, r, k)[j]
  BY ExchangedIs
<1> HIDE DEF n
<1>2. /\ IsMachine(o) /\ o.seg = n.seg
      /\ GetReg(o, r, k) = Load(n, p, k) /\ Load(o, p, k) = GetReg(n, r, k)
      /\ p.seg = None =>
           /\ o.mem = n.mem
           /\ p.ofs = r => o.reg = n.reg
           /\ p.ofs # r => \A j \in Gpr : o.reg[j] = (n.reg[j] + Added(n, o, p.ofs, k)[j]) + Added(n, o, r, k)[j]
      /\ p.seg # None =>
           /\ \A a : a \notin Cells(n, p, k) => MemAt(o, a) = MemAt(n, a)
           /\ \A j \in Gpr : o.reg[j] = n.reg[j] + Added(n, o, r, k)[j]
  BY <1>1, ExchangedIs
<1> HIDE DEF o
<1>3. m.reg \in [Gpr -> Long] /\ o.reg \in [Gpr -> Long] /\ \A j \in Gpr : m.reg[j] \in Int
  BY <1>2, ModValues DEF IsMachine, Long
<1>4. ASSUME NEW q \in Gpr, GetReg(o, q, k) = GetReg(m, q, k), NEW j \in Gpr
      PROVE  Added(m, n, q, k)[j] \in Int /\ Added(n, o, q, k)[j] = -Added(m, n, q, k)[j]
  <2>1. GetReg(m, q, k) \in Int /\ GetReg(n, q, k) \in Int /\ LowOf(q, k) \in Int
    <3>1. PICK e \in Nat : Part(q, k).low = 2 ^ e
      BY PartIs
    <3> QED BY <1>1, <3>1, GetRegType, PowerIsNat DEF LowOf
  <2>2. \A x, y, z \in Int : x * (y - z) \in Int /\ x * (z - y) = -(x * (y - z))
    BY SMT
  <2>3. /\ LowOf(q, k) * (GetReg(n, q, k) - GetReg(m, q, k)) \in Int
        /\ LowOf(q, k) * (GetReg(m, q, k) - GetReg(n, q, k)) = -(LowOf(q, k) * (GetReg(n, q, k) - GetReg(m, q, k)))
    BY <2>1, <2>2
  <2> QED BY <1>4, <2>3 DEF Added
<1>5. GetReg(o, r, k) = GetReg(m, r, k) /\ Load(o, p, k) = Load(m, p, k)
  BY <1>1, <1>2
<1>6. CASE p.seg = None
  <2>1. o.mem = m.mem
    BY <1>1, <1>2, <1>6
  <2>2. CASE p.ofs = r
    BY <1>1, <1>2, <1>6, <2>1, <2>2 DEF o, n
  <2>3. CASE p.ofs # r
    <3>1. p.ofs \in Gpr /\ GetReg(o, p.ofs, k) = GetReg(m, p.ofs, k)
      BY <1>5, <1>6, OperandAssumption DEF IsPlace, Load
    <3>2. ASSUME NEW j \in Gpr PROVE o.reg[j] = m.reg[j]
      <4>1. /\ n.reg[j] = (m.reg[j] + Added(m, n, p.ofs, k)[j]) + Added(m, n, r, k)[j]
            /\ o.reg[j] = (n.reg[j] + Added(n, o, p.ofs, k)[j]) + Added(n, o, r, k)[j]
        BY <1>1, <1>2, <1>6, <2>3
      <4>2. /\ Added(m, n, r, k)[j] \in Int /\ Added(n, o, r, k)[j] = -Added(m, n, r, k)[j]
            /\ Added(m, n, p.ofs, k)[j] \in Int /\ Added(n, o, p.ofs, k)[j] = -Added(m, n, p.ofs, k)[j]
        BY <1>4, <1>5, <3>1
      <4> QED BY <1>3, <4>1, <4>2
    <3> QED BY <1>3, <2>1, <3>2 DEF o, n
  <2> QED BY <2>2, <2>3
<1>7. CASE p.seg # None
  <2>1. \A a : a \notin Cells(m, p, k) => MemAt(o, a) = MemAt(m, a)
    BY <1>1, <1>2, <1>7 DEF Cells, Cell
  <2>2. o.mem = m.mem
    BY <1>1, <1>2, <1>5, <1>7, <2>1, SameCells
  <2>3. ASSUME NEW j \in Gpr PROVE o.reg[j] = m.reg[j]
    <3>1. /\ n.reg[j] = m.reg[j] + Added(m, n, r, k)[j]
          /\ o.reg[j] = n.reg[j] + Added(n, o, r, k)[j]
      BY <1>1, <1>2, <1>7
    <3>2. Added(m, n, r, k)[j] \in Int /\ Added(n, o, r, k)[j] = -Added(m, n, r, k)[j]
      BY <1>4, <1>5
    <3> QED BY <1>3, <3>1, <3>2
  <2> QED BY <1>3, <2>2, <2>3 DEF o, n
<1> QED BY <1>6, <1>7

-----------------------------------------------------------------------------
(* Values that come back: mirrored, moved to and fro, a bit changed        *)
LEMMA MirroredTwice ==
  ASSUME NEW M \in Nat \ {0}, NEW v \in 0 .. (M - 1), NEW c \in Int
  PROVE  (c - ((c - v) % M)) % M = v
<1> DEFINE y == (c - v) % M
           q == (c - v) \div M
<1>1. q \in Int /\ y \in 0 .. (M - 1) /\ c - v = M * q + y
  <2>1. c - v \in Int
    OBVIOUS
  <2> QED BY <2>1, DivMod
<1> HIDE DEF y, q
<1>2. c - y = M * q + v
  <2>1. M * q \in Int
    BY <1>1, SMT
  <2> QED BY <1>1, <2>1
<1>3. (M * q + v) % M = v
  BY <1>1, DivModUnique
<1> QED BY <1>2, <1>3 DEF y

(* Adding what was subtracted, and the other way round.                    *)
LEMMA MovedBack ==
  ASSUME NEW M \in Nat \ {0}, NEW v \in 0 .. (M - 1), NEW s \in Int
  PROVE  (((v + s) % M) - s) % M = v /\ (((v - s) % M) + s) % M = v
<1>1. v % M = v
  BY RemOfSmall
<1>2. v + s \in Int /\ v - s \in Int /\ -s \in Int /\ v \in Int
  OBVIOUS
<1>3. (((v + s) % M) + (-s)) % M = ((v + s) + (-s)) % M
  BY <1>2, RemTwice
<1>4. (((v - s) % M) + s) % M = ((v - s) + s) % M
  BY <1>2, RemTwice
<1>5. (v + s) + (-s) = v /\ (v - s) + s = v
  BY <1>2
<1>6. (v + s) % M \in Int
  BY <1>2, DivMod
<1>7. ((v + s) % M) - s = ((v + s) % M) + (-s)
  BY <1>6
<1> QED BY <1>1, <1>3, <1>4, <1>5, <1>7

(* A bit set, reset or complemented                                        *)
LEMMA WithBitIs ==
  ASSUME NEW w \in Nat, NEW v \in 0 .. (2 ^ w - 1), NEW n \in 0 .. (w - 1)
  PROVE  /\ WithBit("bts", v, n) \in 0 .. (2 ^ w - 1) /\ Bit(WithBit("bts", v, n), n)
         /\ WithBit("btr", v, n) \in 0 .. (2 ^ w - 1) /\ ~Bit(WithBit("btr", v, n), n)
         /\ WithBit("btc", v, n) \in 0 .. (2 ^ w - 1) /\ (Bit(WithBit("btc", v, n), n) <=> ~Bit(v, n))
         /\ WithBit("btc", WithBit("btc", v, n), n) = v
<1> DEFINE low == 2 ^ n
           q == 2 ^ (w - n - 1)
           d == (v \div low) % 2
           to(b) == v + low * (b - d)
<1>1. low \in Nat \ {0} /\ q \in Nat \ {0} /\ 2 \in Nat \ {0}
  <2>1. n \in Nat /\ w - n - 1 \in Nat
    OBVIOUS
  <2> QED BY <2>1, PowerIsNat
<1>2. 2 ^ w = low * 2 * q
  <2>1. n \in Nat /\ w - n - 1 \in Nat /\ n + 1 \in Nat /\ (n + 1) + (w - n - 1) = w
    OBVIOUS
  <2>2. 2 ^ (n + 1) = 2 * 2 ^ n
    BY <2>1, PowerNext
  <2>3. 2 ^ ((n + 1) + (w - n - 1)) = 2 ^ (n + 1) * 2 ^ (w - n - 1)
    BY <2>1, PowerSum
  <2>4. 2 ^ w = (2 * low) * q
    BY <2>1, <2>2, <2>3
  <2>5. 2 * low = low * 2
    BY <1>1
  <2> QED BY <2>4, <2>5
<1>3. d \in {0, 1} /\ (Bit(v, n) <=> d = 1) /\ v \in Int
  <2>1. 2 ^ w \in Nat
    BY PowerIsNat
  <2>2. v \in Int
    BY <2>1
  <2>3. v \div low \in Int
    BY <1>1, <2>2, DivMod
  <2>4. d \in 0 .. (2 - 1)
    BY <1>1, <2>3, DivMod
  <2> QED BY <2>2, <2>4 DEF Bit
<1>4. ASSUME NEW b \in 0 .. (2 - 1)
      PROVE  to(b) \in 0 .. (2 ^ w - 1) /\ (to(b) \div low) % 2 = b
  <2> DEFINE X == v + low * (b - ((v \div low) % 2))
  <2>1. v \in 0 .. (low * 2 * q - 1)
    BY <1>2
  <2>2. X = v + low * (b - ((v \div low) % 2))
    OBVIOUS
  <2>3. to(b) = X
    OBVIOUS
  <2> HIDE DEF X, low, q
  <2>4. X \in 0 .. (low * 2 * q - 1) /\ Replaced(X, v, low, 2, b)
    BY <1>1, <2>1, <2>2, PieceSet
  <2> QED BY <1>2, <2>3, <2>4 DEF Replaced
<1>5. Bit(to(0), n) <=> FALSE
  BY <1>4 DEF Bit
<1>6. Bit(to(1), n) <=> TRUE
  BY <1>4 DEF Bit
<1>7. WithBit("bts", v, n) = v + low - (IF Bit(v, n) THEN low ELSE 0)
  BY DEF WithBit
<1>8. WithBit("btr", v, n) = v + 0 - (IF Bit(v, n) THEN low ELSE 0)
  BY DEF WithBit
<1>9. \A x : WithBit("btc", x, n) = x + (IF ~Bit(x, n) THEN low ELSE 0) - (IF Bit(x, n) THEN low ELSE 0)
  BY DEF WithBit
<1>10. to(0) = v - (IF d = 1 THEN low ELSE 0) /\ to(1) = v + low - (IF d = 1 THEN low ELSE 0)
  <2> HIDE DEF low, d
  <2>1. low * (0 - d) = -(IF d = 1 THEN low ELSE 0) /\ low * (1 - d) = low - (IF d = 1 THEN low ELSE 0)
    <3>1. low * (0 - 0) = 0 /\ low * (0 - 1) = -low /\ low * (1 - 0) = low /\ low * (1 - 1) = 0
      BY <1>1, SMT
    <3> QED BY <1>1, <1>3, <3>1
  <2> QED BY <1>1, <1>3, <2>1
<1>11. 0 \in 0 .. (2 - 1) /\ 1 \in 0 .. (2 - 1)
  OBVIOUS
<1>12. to(0) \in 0 .. (2 ^ w - 1) /\ to(1) \in 0 .. (2 ^ w - 1) /\ 2 ^ w \in Nat
  BY <1>4, <1>11, PowerIsNat
<1> HIDE DEF to, d
<1>13. WithBit("bts", v, n) = to(1) /\ WithBit("btr", v, n) = to(0)
  <2> HIDE DEF low
  <2> QED BY <1>1, <1>3, <1>7, <1>8, <1>10
<1>14. CASE Bit(v, n)
  <2>1. d = 1
    BY <1>3, <1>14
  <2>2. WithBit("btc", v, n) = v + 0 - low
    BY <1>9, <1>14
  <2>3. WithBit("btc", v, n) = to(0) /\ to(0) + low - 0 = v
    <3> HIDE DEF low
    <3> QED BY <1>1, <1>3, <1>10, <2>1, <2>2
  <2>4. WithBit("btc", to(0), n) = to(0) + low - 0
    BY <1>5, <1>9
  <2> QED BY <1>5, <1>6, <1>12, <1>13, <1>14, <2>3, <2>4
<1>15. CASE ~Bit(v, n)
  <2>1. d = 0
    BY <1>3, <1>15
  <2>2. WithBit("btc", v, n) = v + low - 0
    BY <1>9, <1>15
  <2>3. WithBit("btc", v, n) = to(1) /\ to(1) + 0 - low = v
    <3> HIDE DEF low
    <3> QED BY <1>1, <1>3, <1>10, <2>1, <2>2
  <2>4. WithBit("btc", to(1), n) = to(1) + 0 - low
    BY <1>6, <1>9
  <2> QED BY <1>5, <1>6, <1>12, <1>13, <1>15, <2>3, <2>4
<1> QED BY <1>14, <1>15

(* Turning by as much to the other side                                    *)
Back(a, c, w) == \/ a = 0 /\ c = 0
                 \/ a \in 1 .. (w - 1) /\ c = w - a

(* A turn to the one side and the other turns nothing.                     *)
LEMMA TurnedBack ==
  ASSUME NEW w \in Nat \ {0}, NEW v \in 0 .. (2 ^ w - 1), NEW x \in Int, NEW y \in Int,
         Back(x % w, y % w, w)
  PROVE  Turned(v, x, w) \in 0 .. (2 ^ w - 1) /\ Turned(Turned(v, x, w), y, w) = v
<1> DEFINE a == x % w
<1>1. 2 ^ w \in Nat \ {0} /\ 2 ^ 0 = 1 /\ v \in Int
  BY PowerIsNat, PowerZero
<1>2. CASE a = 0
  <2>1. y % w = 0 /\ w - 0 = w
    BY <1>2 DEF Back
  <2>2. v * 1 = v /\ v % 2 ^ w = v
    BY <1>1, RemOfSmall
  <2>3. v \div 2 ^ w = 0
    <3>1. (2 ^ w * 0 + v) \div 2 ^ w = 0
      BY <1>1, DivModUnique
    <3>2. 2 ^ w * 0 + v = v
      BY <1>1
    <3> QED BY <3>1, <3>2
  <2>4. \A z : z % w = 0 => Turned(v, z, w) = ((v * 2 ^ 0) % 2 ^ w) + v \div 2 ^ w
    BY <2>1 DEF Turned
  <2>5. Turned(v, x, w) = v /\ Turned(v, y, w) = v
    BY <1>1, <1>2, <2>1, <2>2, <2>3, <2>4
  <2> QED BY <2>5
<1>3. CASE a # 0
  <2> DEFINE c == w - a
             A == 2 ^ a
             C == 2 ^ c
             h == v \div C
             l == v % C
             t == A * l + h
  <2>1. a \in 1 .. (w - 1) /\ y % w = c
    BY <1>3 DEF Back
  <2>2. a \in Nat /\ c \in Nat /\ a + c = w /\ w - c = a
    BY <2>1
  <2>3. A \in Nat \ {0} /\ C \in Nat \ {0} /\ 2 ^ w = A * C
    <3>1. 2 ^ (a + c) = 2 ^ a * 2 ^ c
      BY <2>2, PowerSum
    <3>2. A \in Nat \ {0} /\ C \in Nat \ {0}
      BY <2>2, PowerIsNat
    <3> QED BY <2>2, <3>1, <3>2
  <2>4. h \in Int /\ l \in 0 .. (C - 1) /\ v = C * h + l
    BY <1>1, <2>3, DivMod
  <2>5. /\ Turned(v, x, w) = ((v * A) % 2 ^ w) + v \div C
        /\ Turned(t, y, w) = ((t * C) % 2 ^ w) + t \div A
    BY <2>1, <2>2 DEF Turned
  <2> HIDE DEF a, c, A, C, h, l
  <2>6. h \in 0 .. (A - 1)
    <3>1. C * h + l >= 0 /\ C * h + l < A * C
      BY <1>1, <2>3, <2>4
    <3>2. ASSUME h < 0 PROVE FALSE
      <4>1. C * (-h) >= C /\ C * h = -(C * (-h)) /\ C * (-h) \in Int
        BY <2>3, <2>4, <3>2, SMT
      <4> QED BY <2>3, <2>4, <3>1, <4>1
    <3>3. ASSUME h >= A PROVE FALSE
      <4>1. C * h >= C * A /\ C * A = A * C /\ C * h \in Int /\ A * C \in Int
        BY <2>3, <2>4, <3>3, SMT
      <4> QED BY <2>3, <2>4, <3>1, <4>1
    <3> QED BY <2>3, <2>4, <3>2, <3>3
  <2>7. t = h + A * l /\ t \in 0 .. (A * C - 1) /\ t % A = h /\ t \div A = l
    <3>1. h + A * l \in 0 .. (A * C - 1) /\ (h + A * l) % A = h /\ (h + A * l) \div A = l
      BY <2>3, <2>4, <2>6, Digit
    <3>2. A * l + h = h + A * l
      <4>1. A * l \in Int /\ h \in Int
        BY <2>3, <2>4, SMT
      <4> QED BY <4>1
    <3> QED BY <3>1, <3>2
  <2>8. (v * A) % 2 ^ w = A * l
    <3>1. A * l \in 0 .. (A * C - 1)
      <4>1. A * l \in Nat /\ A * l <= A * (C - 1) /\ A * (C - 1) = A * C - A /\ A * C \in Nat
        BY <2>3, <2>4, SMT
      <4> QED BY <2>3, <4>1
    <3>2. v * A = (A * C) * h + A * l
      <4>1. \A p, q, r, s \in Int : (q * r + s) * p = (p * q) * r + p * s
        BY SMT
      <4> QED BY <2>3, <2>4, <4>1
    <3>3. A * C \in Nat \ {0}
      BY <1>1, <2>3
    <3>4. ((A * C) * h + A * l) % (A * C) = A * l
      BY <2>4, <3>1, <3>3, DivModUnique
    <3> QED BY <2>3, <3>2, <3>4
  <2>9. Turned(v, x, w) = t
    BY <2>5, <2>8 DEF h
  <2> HIDE DEF t
  <2>10. (t * C) % 2 ^ w = C * h
    <3>1. C * h \in 0 .. (A * C - 1)
      <4>1. C * h \in Nat /\ C * h <= C * (A - 1) /\ C * (A - 1) = A * C - C /\ A * C \in Nat
        BY <2>3, <2>6, SMT
      <4> QED BY <2>3, <4>1
    <3>2. t * C = (A * C) * l + C * h
      <4>1. \A p, q, r, s \in Int : (s + p * r) * q = (p * q) * r + q * s
        BY SMT
      <4>2. l \in Int
        BY <2>3, <2>4
      <4> QED BY <2>3, <2>4, <2>7, <4>1, <4>2
    <3>3. A * C \in Nat \ {0} /\ l \in Int
      BY <1>1, <2>3, <2>4
    <3>4. ((A * C) * l + C * h) % (A * C) = C * h
      BY <3>1, <3>3, DivModUnique
    <3> QED BY <2>3, <3>2, <3>4
  <2>11. Turned(t, y, w) = v
    BY <2>4, <2>5, <2>7, <2>10
  <2> QED BY <2>3, <2>7, <2>9, <2>11
<1> QED BY <1>2, <1>3

(* To the left and to the right by the same number                         *)
LEMMA LeftRight ==
  ASSUME NEW w \in Nat \ {0}, NEW n \in Nat
  PROVE  /\ n \in Int /\ w - (n % w) \in Int
         /\ Back(n % w, (w - (n % w)) % w, w) /\ Back((w - (n % w)) % w, n % w, w)
<1>1. n % w \in 0 .. (w - 1) /\ n \in Int
  BY DivMod
<1>2. w - (n % w) \in Int
  BY <1>1
<1>3. CASE n % w = 0
  <2>1. w % w = 0 /\ w - 0 = w
    BY SMT
  <2> QED BY <1>1, <1>2, <1>3, <2>1 DEF Back
<1>4. CASE n % w # 0
  <2>1. w - (n % w) \in 1 .. (w - 1) /\ w - (w - (n % w)) = n % w /\ w - (n % w) \in 0 .. (w - 1) /\ n % w \in 1 .. (w - 1)
    BY <1>1, <1>4
  <2>2. (w - (n % w)) % w = w - (n % w)
    BY <2>1, RemOfSmall
  <2> QED BY <1>1, <1>2, <2>1, <2>2 DEF Back
<1> QED BY <1>3, <1>4

Around == {<<"rol", "ror">>, <<"ror", "rol">>}

(* ROL and ROR, in whatever state CF is                                    *)
LEMMA RolRorBack ==
  ASSUME NEW w \in Nat \ {0}, NEW v \in 0 .. (2 ^ w - 1), NEW n \in Nat, NEW op, NEW to,
         <<op, to>> \in Around, NEW cf \in BOOLEAN, NEW cg \in BOOLEAN
  PROVE  /\ Rotated(op, v, n, w, cf).val \in 0 .. (2 ^ w - 1)
         /\ Rotated(to, Rotated(op, v, n, w, cf).val, n, w, cg).val = v
<1>1. 2 ^ w \in Nat \ {0}
  BY PowerIsNat
<1>2. \A x, c : /\ Rotated("rol", x, n, w, c).val = Turned(x, n, w) % 2 ^ w
                /\ Rotated("ror", x, n, w, c).val = Turned(x, w - (n % w), w) % 2 ^ w
  BY DEF Rotated
<1>3. /\ n \in Int /\ w - (n % w) \in Int
      /\ Back(n % w, (w - (n % w)) % w, w) /\ Back((w - (n % w)) % w, n % w, w)
  BY LeftRight
<1>4. /\ Turned(v, n, w) \in 0 .. (2 ^ w - 1) /\ Turned(Turned(v, n, w), w - (n % w), w) = v
      /\ Turned(v, w - (n % w), w) \in 0 .. (2 ^ w - 1) /\ Turned(Turned(v, w - (n % w), w), n, w) = v
  BY <1>3, TurnedBack
<1>5. \A z \in 0 .. (2 ^ w - 1) : z % 2 ^ w = z
  BY <1>1, RemOfSmall
<1>6. CASE op = "rol" /\ to = "ror"
  BY <1>2, <1>4, <1>5, <1>6
<1>7. CASE op = "ror" /\ to = "rol"
  BY <1>2, <1>4, <1>5, <1>7
<1> QED BY <1>6, <1>7 DEF Around

(* The carry is one more bit on the left.                                  *)
Carried(v, w, cf) == v + (IF cf THEN 2 ^ w ELSE 0)

(* The number and CF are the parts of the longer number.                   *)
LEMMA CarriedIs ==
  ASSUME NEW w \in Nat \ {0}
  PROVE  /\ \A v \in 0 .. (2 ^ w - 1) : \A cf :
              /\ Carried(v, w, cf) \in 0 .. (2 ^ (w + 1) - 1) /\ Carried(v, w, cf) % 2 ^ w = v
              /\ Bit(Carried(v, w, cf), w) <=> (cf <=> TRUE)
         /\ \A u \in 0 .. (2 ^ (w + 1) - 1) :
              u % 2 ^ w \in 0 .. (2 ^ w - 1) /\ Carried(u % 2 ^ w, w, Bit(u, w)) = u
<1> DEFINE P == 2 ^ w
<1>1. P \in Nat \ {0} /\ 2 ^ (w + 1) = 2 * P
  BY PowerIsNat, PowerNext
<1>2. ASSUME NEW v \in 0 .. (P - 1), NEW cf
      PROVE  /\ Carried(v, w, cf) \in 0 .. (2 * P - 1) /\ Carried(v, w, cf) % P = v
             /\ Bit(Carried(v, w, cf), w) <=> (cf <=> TRUE)
  <2> DEFINE d == IF cf THEN 1 ELSE 0
  <2>1. d \in {0, 1} /\ (d = 1 <=> (cf <=> TRUE)) /\ d \in Int
    OBVIOUS
  <2>2. Carried(v, w, cf) = P * d + v
    <3>1. P * 0 + v = v + 0 /\ P * 1 + v = v + P
      BY <1>1
    <3> QED BY <3>1 DEF Carried
  <2> HIDE DEF d
  <2>3. (P * d + v) % P = v /\ (P * d + v) \div P = d
    BY <1>1, <2>1, DivModUnique
  <2>4. P * d + v \in 0 .. (2 * P - 1)
    <3>1. P * 0 + v \in 0 .. (2 * P - 1) /\ P * 1 + v \in 0 .. (2 * P - 1)
      BY <1>1
    <3> QED BY <2>1, <3>1
  <2>5. Bit(P * d + v, w) <=> d % 2 = 1
    BY <2>3 DEF Bit
  <2>6. d % 2 = d
    BY <2>1
  <2> QED BY <2>1, <2>2, <2>3, <2>4, <2>5, <2>6
<1>3. ASSUME NEW u \in 0 .. (2 * P - 1)
      PROVE  u % P \in 0 .. (P - 1) /\ Carried(u % P, w, Bit(u, w)) = u
  <2>1. u \in Int
    BY <1>1
  <2>2. u \div P \in Int /\ u % P \in 0 .. (P - 1) /\ u = P * (u \div P) + (u % P)
    BY <1>1, <2>1, DivMod
  <2> DEFINE d == u \div P
             z == u % P
  <2>3. Bit(u, w) <=> d % 2 = 1
    BY DEF Bit
  <2>4. Carried(z, w, Bit(u, w)) = z + (IF d % 2 = 1 THEN P ELSE 0)
    BY <2>3 DEF Carried
  <2>5. d \in Int /\ z \in 0 .. (P - 1) /\ u = P * d + z
    BY <2>2
  <2> HIDE DEF d, z, P
  <2>6. d \in {0, 1}
    <3>1. ASSUME d < 0 PROVE FALSE
      <4>1. P * (-d) >= P /\ P * d = -(P * (-d)) /\ P * (-d) \in Int
        BY <1>1, <2>5, <3>1, SMT
      <4> QED BY <1>1, <2>5, <4>1
    <3>2. ASSUME d >= 2 PROVE FALSE
      <4>1. P * d >= P * 2 /\ P * 2 = 2 * P /\ P * d \in Int
        BY <1>1, <2>5, <3>2, SMT
      <4> QED BY <1>1, <2>5, <4>1
    <3> QED BY <2>5, <3>1, <3>2
  <2>7. P * 0 + z = z /\ P * 1 + z = z + P /\ 0 % 2 = 0 /\ 1 % 2 = 1
    BY <1>1, <2>5
  <2>8. Carried(z, w, Bit(u, w)) = u
    BY <1>1, <2>4, <2>5, <2>6, <2>7
  <2> QED BY <2>5, <2>8 DEF z
<1> QED BY <1>1, <1>2, <1>3

(* RCL and RCR turn a value and its carry.                                 *)
LEMMA ThroughBack ==
  ASSUME NEW w \in Nat \ {0}, NEW v \in 0 .. (2 ^ w - 1), NEW n \in Nat, NEW op, NEW to,
         <<op, to>> \in Through, NEW cf \in BOOLEAN
  PROVE  LET r == Rotated(op, v, n, w, cf)
             s == Rotated(to, r.val, n, w, r.cf)
         IN  r.val \in 0 .. (2 ^ w - 1) /\ s.val = v /\ s.cf = cf
<1> DEFINE W == w + 1
           left == n
           right == W - (n % W)
           by(o) == IF o = "rcl" THEN left ELSE right
           turn(o, x, c) == Turned(Carried(x, w, c), by(o), W)
<1>1. W \in Nat \ {0} /\ 2 ^ w \in Nat \ {0}
  BY PowerIsNat
<1>2. /\ left \in Int /\ right \in Int
      /\ Back(left % W, right % W, W) /\ Back(right % W, left % W, W)
  BY <1>1, LeftRight
<1>3. op \in {"rcl", "rcr"} /\ to \in {"rcl", "rcr"} /\ op # to
  BY DEF Through
<1>4. \A o \in {"rcl", "rcr"} : \A x, c :
        /\ Rotated(o, x, n, w, c).val = turn(o, x, c) % 2 ^ w
        /\ Rotated(o, x, n, w, c).cf = IF n = 0 THEN c ELSE Bit(turn(o, x, c), w)
  BY DEF Rotated, Carried
<1>5. n = 0 => left % W = 0 /\ right % W = 0
  <2>1. 0 % W = 0 /\ W % W = 0 /\ W - 0 = W
    BY <1>1, SMT
  <2> QED BY <2>1
<1> HIDE DEF left, right, W
<1>6. \A u \in 0 .. (2 ^ W - 1) :
        /\ Turned(u, by(op), W) \in 0 .. (2 ^ W - 1)
        /\ Turned(Turned(u, by(op), W), by(to), W) = u
        /\ by(op) \in Int /\ by(to) \in Int /\ (n = 0 => by(op) % W = 0 /\ by(to) % W = 0)
  <2> TAKE u \in 0 .. (2 ^ W - 1)
  <2>1. /\ Turned(u, left, W) \in 0 .. (2 ^ W - 1) /\ Turned(Turned(u, left, W), right, W) = u
        /\ Turned(u, right, W) \in 0 .. (2 ^ W - 1) /\ Turned(Turned(u, right, W), left, W) = u
    BY <1>1, <1>2, TurnedBack
  <2>2. by("rcl") = left /\ by("rcr") = right
    OBVIOUS
  <2> HIDE DEF by
  <2> QED BY <1>2, <1>3, <1>5, <2>1, <2>2
<1> HIDE DEF by
<1>7. \A u \in 0 .. (2 ^ W - 1) : n = 0 => Turned(u, by(op), W) = u /\ Turned(u, by(to), W) = u
  <2> TAKE u \in 0 .. (2 ^ W - 1)
  <2> HAVE n = 0
  <2>1. 2 ^ W \in Nat \ {0} /\ 2 ^ 0 = 1
    BY <1>1, PowerIsNat, PowerZero
  <2>2. u * 1 = u /\ u % 2 ^ W = u /\ u \div 2 ^ W = 0 /\ W - 0 = W
    <3>1. u % 2 ^ W = u
      BY <2>1, RemOfSmall
    <3>2. (2 ^ W * 0 + u) \div 2 ^ W = 0
      BY <2>1, DivModUnique
    <3>3. 2 ^ W * 0 + u = u /\ u * 1 = u /\ W - 0 = W
      BY <1>1, <2>1
    <3> QED BY <3>1, <3>2, <3>3
  <2>3. \A z : z % W = 0 => Turned(u, z, W) = ((u * 2 ^ 0) % 2 ^ W) + u \div 2 ^ W
    BY <2>2 DEF Turned
  <2> QED BY <1>6, <2>1, <2>2, <2>3
<1> DEFINE r == Rotated(op, v, n, w, cf)
           s == Rotated(to, r.val, n, w, r.cf)
           u == Carried(v, w, cf)
           t == Turned(u, by(op), W)
<1>8. u \in 0 .. (2 ^ W - 1) /\ u % 2 ^ w = v /\ (Bit(u, w) <=> cf)
  BY CarriedIs DEF W
<1>9. t \in 0 .. (2 ^ W - 1) /\ Turned(t, by(to), W) = u
  BY <1>6, <1>8
<1>10. r.val = t % 2 ^ w /\ r.cf = IF n = 0 THEN cf ELSE Bit(t, w)
  BY <1>3, <1>4
<1>11. s.val = turn(to, r.val, r.cf) % 2 ^ w /\ s.cf = IF n = 0 THEN r.cf ELSE Bit(turn(to, r.val, r.cf), w)
  BY <1>3, <1>4
<1> HIDE DEF r, s
<1>12. n = 0 => t = u
  BY <1>7, <1>8
<1> HIDE DEF u, t
<1>13. r.cf <=> Bit(t, w)
  BY <1>8, <1>10, <1>12
<1>14. t % 2 ^ w \in 0 .. (2 ^ w - 1) /\ Carried(t % 2 ^ w, w, Bit(t, w)) = t
  BY <1>9, CarriedIs DEF W
<1>15. Carried(r.val, w, r.cf) = t
  BY <1>10, <1>13, <1>14 DEF Carried
<1>16. turn(to, r.val, r.cf) = u
  BY <1>9, <1>15
<1> HIDE DEF turn
<1>17. s.val = v
  BY <1>8, <1>11, <1>16
<1>18. s.cf = cf
  <2>1. CASE n = 0
    BY <1>10, <1>11, <2>1
  <2>2. CASE n # 0
    <3>1. s.cf = Bit(u, w)
      BY <1>11, <1>16, <2>2
    <3>2. Bit(u, w) \in BOOLEAN
      BY BitType
    <3> QED BY <1>8, <3>1, <3>2
  <2> QED BY <2>1, <2>2
<1> QED BY <1>10, <1>14, <1>17, <1>18 DEF r, s

-----------------------------------------------------------------------------
(* Two stores at a place, the second of what was there                     *)
LEMMA StoredBack ==
  ASSUME NEW m, IsMachine(m), NEW d, Alike(m, d), NEW p, IsPlace(p), NEW k \in Size, NEW v \in Int,
         NEW n, n = Store(d, p, k, v), NEW e, Alike(n, e), NEW u \in Int,
         u % Mod(k) = Load(m, p, k), NEW o, o = Store(e, p, k, u)
  PROVE  o.reg = m.reg /\ o.mem = m.mem
<1>1. Beside(m, n, p, k)
  BY StoreReads
<1>2. IsMachine(n)
  BY <1>1 DEF Beside
<1>3. Beside(n, o, p, k) /\ Load(o, p, k) = u % Mod(k)
  BY <1>2, StoreReads
<1>4. Beside(m, o, p, k)
  BY <1>1, <1>3, BesideChain
<1> QED BY <1>3, <1>4, BesideSame

(* Store(), read back, after a change of flags                             *)
LEMMA StoreLoads ==
  ASSUME NEW m, IsMachine(m), NEW d, Alike(m, d), NEW p, IsPlace(p), NEW k \in Size, NEW v \in Int
  PROVE  /\ IsMachine(Store(d, p, k, v)) /\ Load(Store(d, p, k, v), p, k) = v % Mod(k)
         /\ Store(d, p, k, v).cf = d.cf
<1> DEFINE n == Store(d, p, k, v)
<1>1. \A q : q = n => Beside(m, q, p, k) /\ Load(q, p, k) = v % Mod(k) /\ q.cf = d.cf
  BY StoreReads
<1> QED BY <1>1 DEF Beside

(* What instruction i made of the machine m: the machine n.                *)
PlaceOf(m, o) ==
  IF o.mod = 3 THEN InReg(o.rm)
  ELSE InMem(DataSegment(o.over, FALSE \/ Address(m, o).ss), Address(m, o).ofs)

MoveEffect(m, i, n) ==
  LET p == PlaceOf(m, i.o)
      g == GetReg(m, i.o.r, i.k)
  IN  /\ i.op = "mov"  => n = Store(m, p, i.k, g)
      /\ i.op = "load" => n = SetReg(Check(m, p, i.k), i.o.r, i.k, Load(m, p, i.k))
      /\ i.op = "xchg" => n = Exchanged(m, p, i.o.r, i.k)

Step(op) == IF op \in {"inc", "incr"} THEN 1 ELSE -1

ChangeEffect(m, i, n) ==
  LET p == PlaceOf(m, i.o)
      d == Load(m, p, i.k)
      s == GetReg(m, i.o.r, i.k)
      t == Rotated(i.op, d, i.x, Width(i.k), m.cf)
  IN  /\ i.op \in {"add", "sub"} => n = Store(ArithFlags(m, i.op, d, s, i.k), p, i.k, Sum(i.op, d, s))
      /\ i.op = "not" => n = Store(m, p, i.k, -1 - d)
      /\ i.op = "neg" => n = Store(Flagged(m, d # 0, d = 0), p, i.k, -d)
      /\ i.op \in {"inc", "dec"} =>
           n = Store(Flagged(m, m.cf, (d + Step(i.op)) % Mod(i.k) = 0), p, i.k, d + Step(i.op))
      /\ i.op \in {"rol", "ror", "rcl", "rcr"} =>
           i.x \in Nat /\ n = Store([m EXCEPT !.cf = t.cf], p, i.k, t.val)

BitPlace(m, op, k, o, x) ==
  LET p == PlaceOf(m, o) IN IF o.mod = 3 THEN p ELSE InMem(p.seg, p.ofs + x \div BitStep(op, k))

BitChanged(m, op, p, k, n) ==
  LET v == Load(m, p, k)
      c == [Check(m, p, k) EXCEPT !.cf = Bit(v, n)]
  IN  IF op = "bt" THEN c ELSE Store(c, p, k, WithBit(op, v, n))

BitEffect(m, i, n) ==
  i.op \in {"bt", "bts", "btr", "btc"} =>
    /\ i.k # 1 /\ i.x = Signed(GetReg(m, i.o.r, i.k), i.k)
    /\ n = BitChanged(m, i.op, BitPlace(m, i.op, i.k, i.o, i.x), i.k, i.x % Width(i.k))

RegEffect(m, i, n) ==
  \E r \in Gpr :
    LET v == GetReg(m, r, i.k) + Step(i.op)
    IN  /\ i.op \in {"bswap", "xchgax", "incr", "decr"} => i.p = InReg(r)
        /\ i.op = "bswap"  => n = IF i.k = 2 THEN m ELSE SetReg(m, r, 4, Turned32(m.reg[r]))
        /\ i.op = "xchgax" => n = Exchanged(m, InReg(AX), r, i.k)
        /\ i.op \in {"incr", "decr"} => n = SetReg(Flagged(m, m.cf, v % Mod(i.k) = 0), r, i.k, v)

Effect(m, i, n) ==
  /\ IsMachine(m) /\ IsMachine(n)
  /\ i.o # None => MoveEffect(m, i, n) /\ ChangeEffect(m, i, n) /\ BitEffect(m, i, n)
  /\ RegEffect(m, i, n)

(* Two such instructions f and i of the same operand                       *)
Pair(m, f, n, i, c) ==
  /\ Effect(m, f, n) /\ Effect(n, i, c)
  /\ i.k = f.k /\ i.k \in Size /\ i.o = f.o /\ i.o \in Operands
  /\ PlaceOf(m, i.o) = PlaceOf(n, i.o)

(* The mode word is fresh, so a place depends on the machine alone.        *)
LEMMA PlaceOfIs ==
  ASSUME NEW m, NEW o
  PROVE  Place(m, o) = PlaceOf(m, o)
BY DEF Place, PlaceOf, Head

(* What the proofs about pairs begin with                                  *)
LEMMA PairFacts ==
  ASSUME NEW m, NEW f, NEW n, NEW i, NEW c, Pair(m, f, n, i, c)
  PROVE  LET p == PlaceOf(m, i.o)
             k == i.k
         IN  /\ IsMachine(m) /\ IsMachine(n) /\ IsMachine(c) /\ k \in Size /\ IsPlace(p)
             /\ f.k = k /\ f.o = i.o /\ PlaceOf(n, i.o) = p /\ i.o \in Operands /\ i.o # None /\ i.o.r \in Gpr
             /\ Mod(k) \in Nat \ {0}
             /\ Load(m, p, k) \in 0 .. (Mod(k) - 1) /\ Load(m, p, k) \in Int
             /\ Load(n, p, k) \in 0 .. (Mod(k) - 1) /\ Load(n, p, k) \in Int
             /\ GetReg(m, i.o.r, k) \in 0 .. (Mod(k) - 1) /\ GetReg(m, i.o.r, k) \in Int
             /\ GetReg(n, i.o.r, k) \in 0 .. (Mod(k) - 1) /\ GetReg(n, i.o.r, k) \in Int
             /\ MoveEffect(m, f, n) /\ ChangeEffect(m, f, n) /\ BitEffect(m, f, n)
             /\ MoveEffect(n, i, c) /\ ChangeEffect(n, i, c) /\ BitEffect(n, i, c)
<1>1. /\ IsMachine(m) /\ IsMachine(n) /\ IsMachine(c) /\ i.k \in Size
      /\ f.k = i.k /\ f.o = i.o /\ PlaceOf(n, i.o) = PlaceOf(m, i.o) /\ i.o \in Operands
  BY DEF Pair, Effect
<1>2. IsPlace(PlaceOf(m, i.o))
  BY <1>1, PlaceIs, PlaceOfIs
<1>3. i.o # None /\ i.o.r \in Gpr
  BY <1>1, OperandIs
<1>4. Mod(i.k) \in Nat \ {0}
  BY <1>1, LongHolds
<1>5. /\ Load(m, PlaceOf(m, i.o), i.k) \in 0 .. (Mod(i.k) - 1) /\ Load(n, PlaceOf(m, i.o), i.k) \in 0 .. (Mod(i.k) - 1)
      /\ GetReg(m, i.o.r, i.k) \in 0 .. (Mod(i.k) - 1) /\ GetReg(n, i.o.r, i.k) \in 0 .. (Mod(i.k) - 1)
  BY <1>1, <1>2, <1>3, LoadRange, GetRegType
<1>6. /\ MoveEffect(m, f, n) /\ ChangeEffect(m, f, n) /\ BitEffect(m, f, n)
      /\ MoveEffect(n, i, c) /\ ChangeEffect(n, i, c) /\ BitEffect(n, i, c)
  BY <1>1, <1>3 DEF Pair, Effect
<1>7. \A x \in 0 .. (Mod(i.k) - 1) : x \in Int
  BY <1>4
<1> QED BY <1>1, <1>2, <1>3, <1>4, <1>5, <1>6, <1>7

(* NOT and NEG, twice                                                      *)
LEMMA NotBack ==
  ASSUME NEW m, NEW f, NEW n, NEW i, NEW c, Pair(m, f, n, i, c), f.op = i.op, i.op \in {"not", "neg"}
  PROVE  c.reg = m.reg /\ c.mem = m.mem
<1> DEFINE p == PlaceOf(m, i.o)
           k == i.k
           M == Mod(k)
           v == Load(m, p, k)
           w == Load(n, p, k)
<1>1. /\ IsMachine(m) /\ IsMachine(n) /\ k \in Size /\ IsPlace(p) /\ M \in Nat \ {0}
      /\ v \in 0 .. (M - 1) /\ v \in Int /\ w \in Int
      /\ f.k = k /\ PlaceOf(m, f.o) = p /\ PlaceOf(n, i.o) = p
      /\ ChangeEffect(m, f, n) /\ ChangeEffect(n, i, c)
  BY PairFacts
<1>2. /\ i.op = "not" => n = Store(m, p, k, -1 - v) /\ c = Store(n, p, k, -1 - w)
      /\ i.op = "neg" => n = Store(Flagged(m, v # 0, v = 0), p, k, -v) /\ c = Store(Flagged(n, w # 0, w = 0), p, k, -w)
  BY <1>1 DEF ChangeEffect
<1> HIDE DEF p, k, v, w, M
<1>3. CASE i.op = "not"
  <2>1. -1 - v \in Int /\ -1 - w \in Int
    BY <1>1
  <2>2. w = (-1 - v) % Mod(k)
    BY <1>1, <1>2, <1>3, <2>1, AlikeSelf, StoreLoads DEF w
  <2>3. (-1 - w) % Mod(k) = Load(m, p, k)
    BY <1>1, <2>2, MirroredTwice DEF v, M
  <2> QED BY <1>1, <1>2, <1>3, <2>1, <2>3, AlikeSelf, StoredBack
<1>4. CASE i.op = "neg"
  <2>1. -v \in Int /\ -w \in Int /\ 0 - v = -v /\ 0 - w = -w
    BY <1>1
  <2> DEFINE d == Flagged(m, v # 0, v = 0)
             e == Flagged(n, w # 0, w = 0)
  <2>2. Alike(m, d) /\ Alike(n, e)
    BY <1>1, WithFlags
  <2>3. n = Store(d, p, k, -v) /\ c = Store(e, p, k, -w)
    BY <1>2, <1>4
  <2> HIDE DEF d, e
  <2>4. w = (-v) % Mod(k)
    BY <1>1, <2>1, <2>2, <2>3, StoreLoads DEF w
  <2>5. (0 - ((0 - v) % M)) % M = v
    BY <1>1, MirroredTwice
  <2>6. (-w) % Mod(k) = Load(m, p, k)
    BY <2>1, <2>4, <2>5 DEF v, M
  <2> QED BY <1>1, <2>1, <2>2, <2>3, <2>6, StoredBack
<1> QED BY <1>3, <1>4

(* ADD and SUB of the same operand                                         *)
LEMMA SumBack ==
  ASSUME NEW m, NEW f, NEW n, NEW i, NEW c, Pair(m, f, n, i, c),
         (f.op = "add" /\ i.op = "sub") \/ (f.op = "sub" /\ i.op = "add"), GetReg(m, i.o.r, i.k) = GetReg(n, i.o.r, i.k)
  PROVE  c.reg = m.reg /\ c.mem = m.mem
<1> DEFINE p == PlaceOf(m, i.o)
           k == i.k
           M == Mod(k)
           v == Load(m, p, k)
           w == Load(n, p, k)
           s == GetReg(m, i.o.r, k)
           a == Sum(f.op, v, s)
           b == Sum(i.op, w, s)
           d == ArithFlags(m, f.op, v, s, k)
           e == ArithFlags(n, i.op, w, s, k)
<1>1. /\ IsMachine(m) /\ IsMachine(n) /\ k \in Size /\ IsPlace(p) /\ M \in Nat \ {0}
      /\ v \in 0 .. (M - 1) /\ v \in Int /\ w \in Int /\ s \in Int
      /\ f.k = k /\ f.o = i.o /\ PlaceOf(n, i.o) = p
      /\ ChangeEffect(m, f, n) /\ ChangeEffect(n, i, c)
  BY PairFacts
<1>2. n = Store(d, p, k, a)
  BY <1>1 DEF ChangeEffect
<1>3. c = Store(e, p, k, b)
  BY <1>1 DEF ChangeEffect
<1>4. a \in Int /\ b \in Int
  BY <1>1 DEF Sum
<1>5. Alike(m, d) /\ Alike(n, e)
  <2>1. \A cf, zf \in BOOLEAN : Alike(m, Flagged(m, cf, zf)) /\ Alike(n, Flagged(n, cf, zf))
    BY <1>1, WithFlags
  <2>2. /\ d = Flagged(m, a \notin 0 .. (M - 1), a % M = 0)
        /\ e = Flagged(n, b \notin 0 .. (M - 1), b % M = 0)
    BY Zenon DEF ArithFlags
  <2> HIDE DEF M, a, b, d, e
  <2> QED BY <2>1, <2>2
<1>6. (f.op = "add" /\ i.op = "sub") \/ (f.op = "sub" /\ i.op = "add")
  OBVIOUS
<1>7. f.op = "add" => a = v + s /\ b = w - s
  BY <1>6 DEF Sum
<1>8. f.op = "sub" => a = v - s /\ b = w + s
  BY <1>6 DEF Sum
<1> HIDE DEF p, k, v, w, M, s, a, b, d, e
<1>9. w = a % M
  BY <1>1, <1>2, <1>4, <1>5, StoreLoads DEF w, M
<1>10. (((v + s) % M) - s) % M = v /\ (((v - s) % M) + s) % M = v
  BY <1>1, MovedBack
<1>11. b % M = v
  BY <1>6, <1>7, <1>8, <1>9, <1>10
<1>12. b % Mod(k) = Load(m, p, k)
  BY <1>11 DEF M, v
<1> QED BY <1>1, <1>2, <1>3, <1>4, <1>5, <1>12, StoredBack

(* INC and DEC                                                             *)
LEMMA StepBack ==
  ASSUME NEW m, NEW f, NEW n, NEW i, NEW c, Pair(m, f, n, i, c),
         (f.op = "inc" /\ i.op = "dec") \/ (f.op = "dec" /\ i.op = "inc")
  PROVE  c.reg = m.reg /\ c.mem = m.mem
<1> DEFINE p == PlaceOf(m, i.o)
           k == i.k
           M == Mod(k)
           v == Load(m, p, k)
           w == Load(n, p, k)
           a == v + Step(f.op)
           b == w + Step(i.op)
           d == Flagged(m, m.cf, a % Mod(k) = 0)
           e == Flagged(n, n.cf, b % Mod(k) = 0)
<1>1. /\ IsMachine(m) /\ IsMachine(n) /\ k \in Size /\ IsPlace(p) /\ M \in Nat \ {0}
      /\ v \in 0 .. (M - 1) /\ v \in Int /\ w \in Int
      /\ f.k = k /\ f.o = i.o /\ PlaceOf(n, i.o) = p
      /\ ChangeEffect(m, f, n) /\ ChangeEffect(n, i, c)
  BY PairFacts
<1>2. n = Store(d, p, k, a)
  BY <1>1 DEF ChangeEffect
<1>3. c = Store(e, p, k, b)
  BY <1>1 DEF ChangeEffect
<1>4. (Step(f.op) = 1 /\ Step(i.op) = -1) \/ (Step(f.op) = -1 /\ Step(i.op) = 1)
  <2>1. (f.op = "inc" /\ i.op = "dec") \/ (f.op = "dec" /\ i.op = "inc")
    OBVIOUS
  <2> QED BY <2>1 DEF Step
<1>5. a \in Int /\ b \in Int
  BY <1>1, <1>4
<1>6. Alike(m, d) /\ Alike(n, e)
  <2>1. m.cf \in BOOLEAN /\ n.cf \in BOOLEAN
    BY <1>1 DEF IsMachine
  <2> QED BY <1>1, <2>1, WithFlags
<1>7. (a = v + 1 /\ b = w - 1) \/ (a = v - 1 /\ b = w + 1)
  BY <1>1, <1>4
<1> HIDE DEF p, k, v, w, M, a, b, d, e
<1>8. w = a % M
  BY <1>1, <1>2, <1>5, <1>6, StoreLoads DEF w, M
<1>9. (((v + 1) % M) - 1) % M = v /\ (((v - 1) % M) + 1) % M = v
  BY <1>1, MovedBack
<1>10. b % M = v
  BY <1>7, <1>8, <1>9
<1>11. b % Mod(k) = Load(m, p, k)
  BY <1>10 DEF M, v
<1> QED BY <1>1, <1>2, <1>3, <1>5, <1>6, <1>11, StoredBack

(* XCHG                                                                    *)
LEMMA XchgBack ==
  ASSUME NEW m, NEW f, NEW n, NEW i, NEW c, Pair(m, f, n, i, c), f.op = "xchg", i.op = "xchg"
  PROVE  c.reg = m.reg /\ c.mem = m.mem
<1> DEFINE p == PlaceOf(m, i.o)
           k == i.k
<1>1. /\ IsMachine(m) /\ k \in Size /\ IsPlace(p) /\ i.o.r \in Gpr
      /\ f.k = k /\ f.o = i.o /\ PlaceOf(n, i.o) = p
      /\ MoveEffect(m, f, n) /\ MoveEffect(n, i, c)
  BY PairFacts
<1>2. n = Exchanged(m, p, i.o.r, k) /\ c = Exchanged(n, p, i.o.r, k)
  BY <1>1 DEF MoveEffect
<1> HIDE DEF p, k
<1> QED BY <1>1, <1>2, ExchangedTwice

(* Rotations to the left and the right by the same count                   *)
LEMMA RotateBack ==
  ASSUME NEW m, NEW f, NEW n, NEW i, NEW c, Pair(m, f, n, i, c), <<f.op, i.op>> \in Rotations, i.x = f.x
  PROVE  /\ c.reg = m.reg /\ c.mem = m.mem
         /\ <<f.op, i.op>> \in Through => c.cf = m.cf
<1> DEFINE p == PlaceOf(m, i.o)
           k == i.k
           w == Width(k)
           v == Load(m, p, k)
           u == Load(n, p, k)
           x == i.x
           s == Rotated(f.op, v, x, w, m.cf)
           t == Rotated(i.op, u, x, w, n.cf)
           d == [m EXCEPT !.cf = s.cf]
           e == [n EXCEPT !.cf = t.cf]
<1>1. /\ IsMachine(m) /\ IsMachine(n) /\ k \in Size /\ IsPlace(p) /\ Mod(k) \in Nat \ {0}
      /\ v \in 0 .. (Mod(k) - 1) /\ u \in Int
      /\ f.k = k /\ f.o = i.o /\ PlaceOf(n, i.o) = p
      /\ ChangeEffect(m, f, n) /\ ChangeEffect(n, i, c)
  BY PairFacts
<1>2. /\ f.op \in {"rol", "ror", "rcl", "rcr"} /\ i.op \in {"rol", "ror", "rcl", "rcr"}
      /\ <<f.op, i.op>> \in Around \/ <<f.op, i.op>> \in Through
  BY DEF Rotations, Through, Around
<1>3. x \in Nat /\ n = Store(d, p, k, s.val)
  BY <1>1, <1>2 DEF ChangeEffect
<1>4. c = Store(e, p, k, t.val)
  BY <1>1, <1>2 DEF ChangeEffect
<1>5. m.cf \in BOOLEAN /\ n.cf \in BOOLEAN
  BY <1>1 DEF IsMachine
<1>6. s.cf \in BOOLEAN /\ t.cf \in BOOLEAN
  BY <1>5 DEF Rotated, Bit
<1>7. Alike(m, d) /\ Alike(n, e)
  BY <1>1, <1>6, WithFlags
<1>8. d.cf = s.cf /\ e.cf = t.cf
  BY <1>1 DEF IsMachine
<1>9. w \in Nat \ {0} /\ Mod(k) = 2 ^ w
  BY <1>1, WidthType DEF Size, Mod
<1> DEFINE from == f.op
           to == i.op
           g == m.cf
           j == n.cf
<1>10. /\ s = Rotated(from, v, x, w, g) /\ t = Rotated(to, u, x, w, j)
       /\ <<from, to>> \in Around \/ <<from, to>> \in Through
       /\ g \in BOOLEAN /\ j \in BOOLEAN
  BY <1>2, <1>5, Zenon
<1> HIDE DEF p, k, v, u, w, x, d, e, from, to, g, j
<1>11. s.val \in 0 .. (2 ^ w - 1)
  <2>1. CASE <<from, to>> \in Around
    <3>1. \A c1, c2 \in BOOLEAN : Rotated(from, v, x, w, c1).val \in 0 .. (2 ^ w - 1)
      BY <1>1, <1>3, <1>9, <2>1, RolRorBack
    <3> QED BY <1>10, <3>1
  <2>2. CASE <<from, to>> \in Through
    BY <1>1, <1>3, <1>9, <1>10, <2>2, ThroughBack
  <2> QED BY <1>10, <2>1, <2>2
<1>12. s.val \in Int /\ s.val % Mod(k) = s.val
  BY <1>1, <1>9, <1>11, RemOfSmall
<1>13. u = s.val /\ j = s.cf
  <2>1. u = s.val % Mod(k) /\ j = d.cf
    BY <1>1, <1>3, <1>7, <1>12, StoreLoads DEF u, j
  <2> QED BY <1>8, <1>12, <2>1
<1>14. t.val = v /\ (<<from, to>> \in Through => t.cf = g)
  <2>1. CASE <<from, to>> \in Around
    <3>1. <<from, to>> \notin Through
      BY <2>1 DEF Through, Around
    <3>2. t.val = v
      <4>1. \A c1, c2 \in BOOLEAN : Rotated(to, Rotated(from, v, x, w, c1).val, x, w, c2).val = v
        BY <1>1, <1>3, <1>9, <2>1, RolRorBack
      <4> QED BY <1>10, <1>13, <4>1
    <3> QED BY <3>1, <3>2
  <2>2. CASE <<from, to>> \in Through
    <3> DEFINE y == Rotated(from, v, x, w, g)
               z == Rotated(to, y.val, x, w, y.cf)
    <3>1. z.val = v /\ z.cf = g
      BY <1>1, <1>3, <1>9, <1>10, <2>2, ThroughBack
    <3>2. t = z
      BY <1>10, <1>13
    <3> HIDE DEF z
    <3> QED BY <3>1, <3>2
  <2> QED BY <1>10, <2>1, <2>2
<1>15. t.val \in Int /\ t.val % Mod(k) = Load(m, p, k)
  <2>1. v % Mod(k) = v /\ v \in Int
    BY <1>1, RemOfSmall
  <2> QED BY <1>14, <2>1 DEF v
<1>16. c.reg = m.reg /\ c.mem = m.mem
  <2> DEFINE a == s.val
             y == t.val
  <2>1. /\ IsMachine(m) /\ Alike(m, d) /\ IsPlace(p) /\ k \in Size /\ a \in Int /\ n = Store(d, p, k, a)
        /\ Alike(n, e) /\ y \in Int /\ y % Mod(k) = Load(m, p, k) /\ c = Store(e, p, k, y)
    BY <1>1, <1>3, <1>4, <1>7, <1>12, <1>15
  <2> HIDE DEF a, y
  <2> QED BY <2>1, StoredBack
<1>17. c.cf = t.cf
  <2>1. c.cf = e.cf
    BY <1>1, <1>4, <1>7, <1>15, StoreLoads
  <2> QED BY <1>8, <2>1
<1> QED BY <1>14, <1>16, <1>17 DEF from, to, g

(* A register is a place.                                                  *)
LEMMA RegPlace ==
  ASSUME NEW r \in Gpr
  PROVE  /\ IsPlace(InReg(r))
         /\ \A m, k, v : Load(m, InReg(r), k) = GetReg(m, r, k) /\ Store(m, InReg(r), k, v) = SetReg(m, r, k, v)
BY DEF IsPlace, InReg, Load, Store

(* What is where p is, if p is the register r                              *)
LEMMA NotApart ==
  ASSUME NEW m, NEW p, NEW r, NEW k, ~Apart(p, r)
  PROVE  Load(m, p, k) = GetReg(m, r, k)
BY DEF Apart, Load

(* What is stored is loaded again.                                         *)
LEMMA StoredLoaded ==
  ASSUME NEW m, NEW f, NEW n, NEW i, NEW c, Pair(m, f, n, i, c), f.op = "mov", i.op = "load"
  PROVE  c.reg = n.reg /\ c.mem = n.mem
<1> DEFINE p == PlaceOf(m, i.o)
           k == i.k
           r == i.o.r
           g == GetReg(m, r, k)
           x == Load(n, p, k)
           d == Check(n, p, k)
<1>1. /\ IsMachine(m) /\ IsMachine(n) /\ k \in Size /\ IsPlace(p) /\ r \in Gpr /\ Mod(k) \in Nat \ {0}
      /\ g \in 0 .. (Mod(k) - 1) /\ g \in Int /\ x \in 0 .. (Mod(k) - 1) /\ x \in Int
      /\ f.k = k /\ f.o = i.o /\ PlaceOf(n, i.o) = p
      /\ MoveEffect(m, f, n) /\ MoveEffect(n, i, c)
  BY PairFacts
<1>2. n = Store(m, p, k, g) /\ c = SetReg(d, r, k, x)
  BY <1>1 DEF MoveEffect
<1> HIDE DEF p, k, r, g, d
<1>3. x = g
  <2>1. x = g % Mod(k)
    BY <1>1, <1>2, AlikeSelf, StoreLoads
  <2> QED BY <1>1, <2>1, RemOfSmall
<1>4. GetReg(n, r, k) = x
  <2>1. CASE Apart(p, r)
    BY <1>1, <1>2, <1>3, <2>1, PlacesApart DEF g
  <2>2. CASE ~Apart(p, r)
    BY <2>2, NotApart
  <2> QED BY <2>1, <2>2
<1> HIDE DEF x
<1>5. Alike(n, d)
  BY <1>1, WithCheck DEF d
<1> DEFINE q == InReg(r)
<1>6. IsPlace(q) /\ c = Store(d, q, k, x) /\ Load(n, q, k) = x
  BY <1>1, <1>2, <1>4, RegPlace
<1> HIDE DEF q
<1>7. x % Mod(k) = x
  BY <1>1, RemOfSmall
<1>8. Beside(n, c, q, k) /\ Load(c, q, k) = x
  BY <1>1, <1>5, <1>6, <1>7, StoreReads
<1> QED BY <1>1, <1>6, <1>8, BesideSame

(* What was loaded is there already.                                       *)
LEMMA LoadedStored ==
  ASSUME NEW m, NEW f, NEW n, NEW i, NEW c, Pair(m, f, n, i, c), f.op = "load", i.op = "mov"
  PROVE  c.reg = n.reg /\ c.mem = n.mem
<1> DEFINE p == PlaceOf(m, i.o)
           k == i.k
           r == i.o.r
           v == Load(m, p, k)
           x == GetReg(n, r, k)
           d == Check(m, p, k)
<1>1. /\ IsMachine(m) /\ IsMachine(n) /\ k \in Size /\ IsPlace(p) /\ r \in Gpr /\ Mod(k) \in Nat \ {0}
      /\ v \in 0 .. (Mod(k) - 1) /\ v \in Int /\ x \in 0 .. (Mod(k) - 1) /\ x \in Int
      /\ f.k = k /\ f.o = i.o /\ PlaceOf(n, i.o) = p
      /\ MoveEffect(m, f, n) /\ MoveEffect(n, i, c)
  BY PairFacts
<1>2. n = SetReg(d, r, k, v) /\ c = Store(n, p, k, x)
  BY <1>1 DEF MoveEffect
<1> HIDE DEF p, k, r, v, d, x
<1>3. Alike(m, d) /\ IsMachine(d)
  BY <1>1, WithCheck DEF d, Alike
<1>4. x = v
  <2>1. x = v % Mod(k)
    BY <1>1, <1>2, <1>3, SetRegAdds DEF x
  <2> QED BY <1>1, <2>1, RemOfSmall
<1>5. Load(n, p, k) = x
  <2>1. CASE Apart(p, r)
    <3>1. Load(n, p, k) = Load(d, p, k)
      BY <1>1, <1>2, <1>3, <2>1, PlacesApart
    <3>2. Load(d, p, k) = v
      BY <1>1, <1>3, BesideAlike DEF v
    <3> QED BY <1>4, <3>1, <3>2
  <2>2. CASE ~Apart(p, r)
    BY <2>2, NotApart DEF x
  <2> QED BY <2>1, <2>2
<1>6. x % Mod(k) = x
  BY <1>1, RemOfSmall
<1>7. Beside(n, c, p, k) /\ Load(c, p, k) = x
  BY <1>1, <1>2, <1>6, AlikeSelf, StoreReads
<1> QED BY <1>1, <1>5, <1>7, BesideSame

(* The bit a bit instruction is about: a place and a number.               *)
LEMMA BitPlaceIs ==
  ASSUME NEW m, NEW o \in Operands, IsMachine(m), NEW op, NEW k \in Size, NEW x \in Int
  PROVE  IsPlace(BitPlace(m, op, k, o, x)) /\ x % Width(k) \in 0 .. (Width(k) - 1)
<1>1. IsPlace(PlaceOf(m, o)) /\ (o.mod # 3 => PlaceOf(m, o).seg \in Seg)
  BY PlaceIs, PlaceOfIs
<1>2. \A j \in Size : Width(j) \in Nat \ {0}
  BY WidthType DEF Size
<1>3. BitStep(op, k) \in Nat \ {0}
  BY <1>2 DEF BitStep, Size
<1>4. x \div BitStep(op, k) \in Int /\ x % Width(k) \in 0 .. (Width(k) - 1)
  BY <1>2, <1>3, DivMod
<1>5. CASE o.mod = 3
  BY <1>1, <1>4, <1>5 DEF BitPlace
<1>6. CASE o.mod # 3
  <2>1. PlaceOf(m, o).seg \in Seg /\ PlaceOf(m, o).ofs \in Long
    BY <1>1, <1>6, OperandAssumption DEF IsPlace
  <2>2. PlaceOf(m, o).ofs \in Int
    BY <2>1 DEF Long
  <2>3. PlaceOf(m, o).ofs + x \div BitStep(op, k) \in Int
    BY <1>4, <2>2
  <2>4. (PlaceOf(m, o).ofs + x \div BitStep(op, k)) % Mod(4) \in Long
    BY <2>3, LongHolds
  <2> QED BY <1>4, <1>6, <2>1, <2>4, OperandAssumption DEF BitPlace, InMem, IsPlace
<1> QED BY <1>5, <1>6

Writing == {"bts", "btr", "btc"}

(* BTS, BTR and BTC store, with CF the bit as it was.                      *)
LEMMA BitIs ==
  ASSUME NEW m, IsMachine(m), NEW p, IsPlace(p), NEW k \in Size, NEW b \in 0 .. (Width(k) - 1),
         NEW op \in Writing, NEW n, n = BitChanged(m, op, p, k, b)
  PROVE  LET v == Load(m, p, k)
             y == WithBit(op, v, b)
         IN  /\ v \in 0 .. (2 ^ Width(k) - 1) /\ y \in 0 .. (Mod(k) - 1) /\ y \in Int
             /\ \E d : Alike(m, d) /\ n = Store(d, p, k, y)
             /\ Load(n, p, k) = y /\ (n.cf <=> Bit(v, b))
<1> DEFINE v == Load(m, p, k)
           y == WithBit(op, v, b)
           bit == Bit(v, b)
           e == Check(m, p, k)
           d == [e EXCEPT !.cf = bit]
<1>1. v \in 0 .. (Mod(k) - 1) /\ Mod(k) = 2 ^ Width(k) /\ Width(k) \in Nat /\ Mod(k) \in Nat \ {0}
  BY LoadRange, WidthType, LongHolds DEF Size, Mod
<1>2. y \in 0 .. (2 ^ Width(k) - 1)
  BY <1>1, WithBitIs DEF Writing
<1>3. y \in Int /\ y % Mod(k) = y
  BY <1>1, <1>2, RemOfSmall
<1>4. Alike(m, e) /\ IsMachine(e)
  BY WithCheck DEF Alike
<1>5. bit \in BOOLEAN
  BY DEF Bit
<1>6. n = Store(d, p, k, y)
  BY DEF BitChanged, Writing
<1> HIDE DEF v, y, bit, e
<1>7. Alike(e, d) /\ d.cf = bit
  BY <1>4, <1>5, WithFlags DEF IsMachine
<1>8. Alike(m, d)
  BY <1>4, <1>7 DEF Alike
<1> HIDE DEF d
<1>9. Load(n, p, k) = y /\ n.cf = bit
  BY <1>3, <1>6, <1>7, <1>8, StoreLoads
<1> QED BY <1>1, <1>2, <1>3, <1>6, <1>8, <1>9 DEF v, y, bit, d, e

(* BTC, twice                                                              *)
LEMMA BtcBack ==
  ASSUME NEW m, NEW f, NEW n, NEW i, NEW c, Pair(m, f, n, i, c), f.op = "btc", i.op = "btc",
         GetReg(m, i.o.r, i.k) = GetReg(n, i.o.r, i.k)
  PROVE  c.reg = m.reg /\ c.mem = m.mem
<1> DEFINE k == i.k
           x == i.x
           w == Width(k)
           b == x % w
           q == BitPlace(m, "btc", k, i.o, x)
           v == Load(m, q, k)
           y == WithBit("btc", v, b)
           z == WithBit("btc", y, b)
<1>1. /\ IsMachine(m) /\ IsMachine(n) /\ k \in Size /\ i.o \in Operands
      /\ GetReg(n, i.o.r, k) \in Int
      /\ f.k = k /\ f.o = i.o /\ PlaceOf(n, i.o) = PlaceOf(m, i.o)
      /\ BitEffect(m, f, n) /\ BitEffect(n, i, c)
  BY PairFacts
<1>2. /\ f.x = Signed(GetReg(m, i.o.r, k), k) /\ i.x = Signed(GetReg(n, i.o.r, k), k)
      /\ n = BitChanged(m, "btc", BitPlace(m, "btc", k, i.o, f.x), k, f.x % w)
      /\ c = BitChanged(n, "btc", BitPlace(n, "btc", k, i.o, i.x), k, i.x % w)
  BY <1>1, Zenon DEF BitEffect
<1>3. f.x = x
  BY <1>2
<1>4. x \in Int
  BY <1>1, <1>2, SignedType DEF Size
<1>5. BitPlace(n, "btc", k, i.o, x) = q
  BY <1>1 DEF BitPlace
<1>6. IsPlace(q) /\ b \in 0 .. (w - 1)
  BY <1>1, <1>4, BitPlaceIs
<1>7. n = BitChanged(m, "btc", q, k, b) /\ c = BitChanged(n, "btc", q, k, b)
  BY <1>2, <1>3, <1>5
<1>8. w \in Nat
  BY <1>1, WidthType DEF Size
<1> HIDE DEF k, w, b, q
<1>9. /\ v \in 0 .. (2 ^ w - 1) /\ y \in Int /\ Load(n, q, k) = y
      /\ \E d : Alike(m, d) /\ n = Store(d, q, k, y)
  BY <1>1, <1>6, <1>7, BitIs DEF w, Writing
<1>10. /\ z \in Int /\ Load(c, q, k) = z /\ z \in 0 .. (Mod(k) - 1)
       /\ \E d : Alike(n, d) /\ c = Store(d, q, k, z)
  BY <1>1, <1>6, <1>7, <1>9, BitIs DEF w, Writing
<1>11. z = v
  BY <1>6, <1>8, <1>9, WithBitIs
<1>12. z % Mod(k) = Load(m, q, k)
  BY <1>1, <1>10, <1>11, LongHolds, RemOfSmall
<1> HIDE DEF v, y, z
<1>13. PICK d : Alike(m, d) /\ n = Store(d, q, k, y)
  BY <1>9
<1>14. PICK e : Alike(n, e) /\ c = Store(e, q, k, z)
  BY <1>10
<1> QED BY <1>1, <1>6, <1>9, <1>10, <1>12, <1>13, <1>14, StoredBack

(* BT after BTS, BTR and BTC                                               *)
LEMMA BitRemembered ==
  ASSUME NEW m, NEW f, NEW n, NEW i, NEW c, Pair(m, f, n, i, c), f.op \in {"bts", "btr", "btc"}, i.op = "bt",
         GetReg(m, i.o.r, i.k) = GetReg(n, i.o.r, i.k),
         i.k = 4 \/ i.o.mod = 3 \/ i.x \in 0 .. (Width(2) - 1)
  PROVE  /\ f.op = "bts" => (c.cf <=> TRUE)
         /\ f.op = "btr" => (c.cf <=> FALSE)
         /\ f.op = "btc" => (c.cf <=> ~n.cf)
<1> DEFINE k == i.k
           x == i.x
           w == Width(k)
           b == x % w
           op == f.op
           q == BitPlace(m, op, k, i.o, x)
           v == Load(m, q, k)
           y == WithBit(op, v, b)
<1>1. /\ IsMachine(m) /\ IsMachine(n) /\ k \in Size /\ i.o \in Operands
      /\ GetReg(n, i.o.r, k) \in Int
      /\ f.k = k /\ f.o = i.o /\ PlaceOf(n, i.o) = PlaceOf(m, i.o)
      /\ BitEffect(m, f, n) /\ BitEffect(n, i, c)
  BY PairFacts
<1>2. /\ f.x = Signed(GetReg(m, i.o.r, k), k) /\ i.x = Signed(GetReg(n, i.o.r, k), k)
      /\ n = BitChanged(m, op, BitPlace(m, op, k, i.o, f.x), k, f.x % w)
  BY <1>1, Zenon DEF BitEffect
<1>3. k # 1 /\ c = BitChanged(n, "bt", BitPlace(n, "bt", k, i.o, i.x), k, i.x % w)
  BY <1>1, Zenon DEF BitEffect
<1>4. f.x = x
  BY <1>2
<1>5. x \in Int
  BY <1>1, <1>2, SignedType DEF Size
<1>6. BitPlace(n, "bt", k, i.o, x) = q
  <2>1. i.o.mod = 3 \/ x \div BitStep("bt", k) = x \div BitStep(op, k)
    <3>1. BitStep("bt", k) = Width(k) /\ BitStep(op, k) = Width(4)
      BY DEF BitStep
    <3>2. CASE k = 4
      BY <3>1, <3>2
    <3>3. CASE x \in 0 .. (Width(2) - 1)
      <4>1. k = 2 \/ k = 4
        BY <1>1, <1>3 DEF Size
      <4>2. Width(2) \in Nat \ {0} /\ Width(4) \in Nat /\ Width(4) >= Width(2)
        BY OperandAssumption, SMT DEF Width
      <4>3. \A u \in Nat \ {0} : x \in 0 .. (u - 1) => x \div u = 0
        <5>1. ASSUME NEW u \in Nat \ {0}, x \in 0 .. (u - 1) PROVE x \div u = 0
          <6>1. u * 0 + x = x /\ 0 \in Int
            BY <5>1, SMT
          <6> QED BY <5>1, <6>1, DivModUnique
        <5> QED BY <5>1
      <4>4. x \div Width(2) = 0 /\ x \div Width(4) = 0
        BY <3>3, <4>2, <4>3
      <4> QED BY <3>1, <4>1, <4>4
    <3> QED BY <3>2, <3>3
  <2> QED BY <1>1, <2>1 DEF BitPlace
<1>7. IsPlace(q) /\ b \in 0 .. (w - 1)
  BY <1>1, <1>5, BitPlaceIs
<1>8. n = BitChanged(m, op, q, k, b) /\ c = BitChanged(n, "bt", q, k, b)
  BY <1>2, <1>3, <1>4, <1>6
<1>9. w \in Nat /\ op \in Writing
  BY <1>1, WidthType DEF Size, Writing
<1> HIDE DEF k, w, b, q, op
<1>10. v \in 0 .. (2 ^ w - 1) /\ Load(n, q, k) = y /\ (n.cf <=> Bit(v, b))
  BY <1>1, <1>7, <1>8, <1>9, BitIs DEF w
<1> DEFINE bit == Bit(y, b)
<1>11. c.cf <=> bit
  <2> DEFINE e == Check(n, q, k)
  <2>1. IsMachine(e)
    BY <1>1, WithCheck DEF Alike
  <2>2. c = [e EXCEPT !.cf = bit]
    BY <1>8, <1>10 DEF BitChanged
  <2> HIDE DEF e, bit
  <2> QED BY <2>1, <2>2 DEF IsMachine
<1>12. /\ op = "bts" => bit
       /\ op = "btr" => ~bit
       /\ op = "btc" => (bit <=> ~Bit(v, b))
  BY <1>7, <1>9, <1>10, WithBitIs DEF Writing
<1> QED BY <1>10, <1>11, <1>12 DEF op

(* BSWAP, twice                                                            *)
LEMMA SwapBack ==
  ASSUME NEW m, IsMachine(m), NEW n, IsMachine(n), NEW r \in Gpr, NEW c,
         n = SetReg(m, r, 4, Turned32(m.reg[r])), c = SetReg(n, r, 4, Turned32(n.reg[r]))
  PROVE  c.reg = m.reg /\ c.mem = m.mem
<1> DEFINE x == m.reg[r]
           y == Turned32(x)
           z == Turned32(n.reg[r])
           p == InReg(r)
<1>1. \A o : IsMachine(o) => o.reg[r] \in Long /\ GetReg(o, r, 4) = o.reg[r]
  <2>1. ASSUME NEW o, IsMachine(o) PROVE o.reg[r] \in Long /\ GetReg(o, r, 4) = o.reg[r]
    <3>1. o.reg[r] \in Long
      BY <2>1 DEF IsMachine
    <3>2. GetReg(o, r, 4) = (o.reg[r] \div 1) % Mod(4)
      BY DEF GetReg, Part
    <3>3. \A u \in Int : u \div 1 = u
      BY SMT
    <3>4. o.reg[r] % Mod(4) = o.reg[r] /\ o.reg[r] \in Int
      <4>1. Mod(4) \in Nat \ {0} /\ o.reg[r] \in 0 .. (Mod(4) - 1)
        BY <3>1, LongHolds DEF Long
      <4> QED BY <4>1, RemOfSmall
    <3> QED BY <3>1, <3>2, <3>3, <3>4
  <2> QED BY <2>1
<1>2. y \in Long /\ Turned32(y) = x /\ x \in Long
  BY <1>1, TurnedTwice
<1> HIDE DEF x, y
<1>3. y \in Int /\ y % Mod(4) = y /\ x \in Int /\ x % Mod(4) = x
  BY <1>2, LongHolds, RemOfSmall DEF Long
<1>4. IsPlace(p) /\ \A o, k, v : Load(o, p, k) = GetReg(o, r, k) /\ Store(o, p, k, v) = SetReg(o, r, k, v)
  BY RegPlace
<1>5. 4 \in Size
  BY DEF Size
<1>6. n = Store(m, p, 4, y) /\ c = Store(n, p, 4, z)
  BY <1>4 DEF x, y
<1>7. Load(m, p, 4) = x
  BY <1>1, <1>4 DEF x
<1> HIDE DEF p
<1>8. Load(n, p, 4) = y
  BY <1>3, <1>5, <1>6, <1>4, AlikeSelf, StoreLoads
<1>9. n.reg[r] = y
  BY <1>1, <1>4, <1>8
<1>10. z = x
  BY <1>2, <1>9
<1> HIDE DEF z
<1> QED BY <1>3, <1>4, <1>5, <1>6, <1>7, <1>10, AlikeSelf, StoredBack

(* The INC and DEC of registers                                            *)
LEMMA StepRegBack ==
  ASSUME NEW m, IsMachine(m), NEW n, IsMachine(n), NEW r \in Gpr, NEW k \in Size, NEW c,
         NEW s, NEW t, (s = 1 /\ t = -1) \/ (s = -1 /\ t = 1),
         n = SetReg(Flagged(m, m.cf, (GetReg(m, r, k) + s) % Mod(k) = 0), r, k, GetReg(m, r, k) + s),
         c = SetReg(Flagged(n, n.cf, (GetReg(n, r, k) + t) % Mod(k) = 0), r, k, GetReg(n, r, k) + t)
  PROVE  c.reg = m.reg /\ c.mem = m.mem
<1> DEFINE p == InReg(r)
           M == Mod(k)
           v == GetReg(m, r, k)
           w == GetReg(n, r, k)
           a == v + s
           b == w + t
           d == Flagged(m, m.cf, a % Mod(k) = 0)
           e == Flagged(n, n.cf, b % Mod(k) = 0)
<1>1. /\ v \in 0 .. (M - 1) /\ v \in Nat /\ w \in Nat /\ M \in Nat \ {0}
  BY GetRegType, LongHolds
<1>2. IsPlace(p) /\ n = Store(d, p, k, a) /\ c = Store(e, p, k, b) /\ Load(m, p, k) = v /\ Load(n, p, k) = w
  BY RegPlace
<1>3. a \in Int /\ b \in Int
  BY <1>1
<1>4. Alike(m, d) /\ Alike(n, e)
  <2>1. m.cf \in BOOLEAN /\ n.cf \in BOOLEAN
    BY DEF IsMachine
  <2> QED BY <2>1, WithFlags
<1>5. (a = v + 1 /\ b = w - 1) \/ (a = v - 1 /\ b = w + 1)
  BY <1>1
<1> HIDE DEF p, v, w, M, a, b, d, e
<1>6. w = a % M
  BY <1>2, <1>3, <1>4, StoreLoads DEF M
<1>7. (((v + 1) % M) - 1) % M = v /\ (((v - 1) % M) + 1) % M = v
  BY <1>1, MovedBack
<1>8. b % M = v
  BY <1>5, <1>6, <1>7
<1>9. b % Mod(k) = Load(m, p, k)
  BY <1>2, <1>8 DEF M
<1> QED BY <1>2, <1>3, <1>4, <1>9, StoredBack

(* The instructions of a register that undo each other                     *)
LEMMA RegBack ==
  ASSUME NEW m, NEW f, NEW n, NEW i, NEW c, Effect(m, f, n), Effect(n, i, c),
         i.k = f.k, i.k \in Size, i.p = f.p,
         \/ f.op = "bswap" /\ i.op = "bswap"
         \/ f.op = "xchgax" /\ i.op = "xchgax"
         \/ f.op = "incr" /\ i.op = "decr"
         \/ f.op = "decr" /\ i.op = "incr"
  PROVE  c.reg = m.reg /\ c.mem = m.mem
<1>1. IsMachine(m) /\ IsMachine(n) /\ RegEffect(m, f, n) /\ RegEffect(n, i, c)
  BY DEF Effect
<1>2. /\ f.op \in {"bswap", "xchgax", "incr", "decr"} /\ i.op \in {"bswap", "xchgax", "incr", "decr"}
  OBVIOUS
<1> DEFINE k == i.k
           v(o, r, op) == GetReg(o, r, k) + Step(op)
           Of(o, op, r, u) ==
             /\ op = "bswap"  => u = IF k = 2 THEN o ELSE SetReg(o, r, 4, Turned32(o.reg[r]))
             /\ op = "xchgax" => u = Exchanged(o, InReg(AX), r, k)
             /\ op \in {"incr", "decr"} =>
                  u = SetReg(Flagged(o, o.cf, v(o, r, op) % Mod(k) = 0), r, k, v(o, r, op))
<1>3. PICK r \in Gpr : f.p = InReg(r) /\ Of(m, f.op, r, n)
  BY <1>1, <1>2 DEF RegEffect
<1>4. PICK s \in Gpr : i.p = InReg(s) /\ Of(n, i.op, s, c)
  BY <1>1, <1>2 DEF RegEffect
<1>5. s = r
  BY <1>3, <1>4 DEF InReg
<1>6. Of(m, f.op, r, n) /\ Of(n, i.op, r, c)
  BY <1>3, <1>4, <1>5
<1> HIDE DEF k
<1>7. k \in Size
  BY DEF k
<1>8. CASE f.op = "bswap" /\ i.op = "bswap"
  <2>1. CASE k = 2
    BY <1>6, <1>8, <2>1
  <2>2. CASE k # 2
    BY <1>1, <1>6, <1>8, <2>2, SwapBack
  <2> QED BY <2>1, <2>2
<1>9. CASE f.op = "xchgax" /\ i.op = "xchgax"
  <2>1. IsPlace(InReg(AX))
    BY RegPlace DEF AX, Gpr
  <2>2. n = Exchanged(m, InReg(AX), r, k) /\ c = Exchanged(n, InReg(AX), r, k)
    BY <1>6, <1>9
  <2> QED BY <1>1, <1>7, <2>1, <2>2, ExchangedTwice
<1>10. CASE (f.op = "incr" /\ i.op = "decr") \/ (f.op = "decr" /\ i.op = "incr")
  <2>1. (Step(f.op) = 1 /\ Step(i.op) = -1) \/ (Step(f.op) = -1 /\ Step(i.op) = 1)
    BY <1>10 DEF Step
  <2> DEFINE s1 == Step(f.op)
             s2 == Step(i.op)
  <2>2. /\ n = SetReg(Flagged(m, m.cf, (GetReg(m, r, k) + s1) % Mod(k) = 0), r, k, GetReg(m, r, k) + s1)
        /\ c = SetReg(Flagged(n, n.cf, (GetReg(n, r, k) + s2) % Mod(k) = 0), r, k, GetReg(n, r, k) + s2)
    BY <1>6, <1>10
  <2>3. (s1 = 1 /\ s2 = -1) \/ (s1 = -1 /\ s2 = 1)
    BY <2>1
  <2> HIDE DEF s1, s2
  <2> QED BY <1>1, <1>7, <2>2, <2>3, StepRegBack
<1> QED BY <1>8, <1>9, <1>10

Steps2  == {"add", "sub", "not", "neg", "inc", "dec", "rol", "ror", "rcl", "rcr"}
Bits4   == {"bt", "bts", "btr", "btc"}
OfReg   == {"bswap", "xchgax", "incr", "decr"}
Tracked == {"mov", "load", "xchg"} \cup Steps2 \cup Bits4 \cup OfReg

(* Most instructions have no effect that pairs are about.                  *)
LEMMA NoRegEffect ==
  ASSUME NEW m, NEW i, NEW n, i.op \notin OfReg
  PROVE  RegEffect(m, i, n)
<1>1. 0 \in Gpr
  BY DEF Gpr
<1>2. i.op # "bswap" /\ i.op # "xchgax" /\ i.op # "incr" /\ i.op # "decr"
  BY DEF OfReg
<1> QED BY <1>1, <1>2, Zenon DEF RegEffect

(* Moves are MOV and XCHG.                                                 *)
LEMMA NoMoveEffect ==
  ASSUME NEW m, NEW i, NEW n, i.op \notin {"mov", "load", "xchg"}
  PROVE  MoveEffect(m, i, n)
BY Zenon DEF MoveEffect

(* Changes are those of arithmetic and the rotations.                      *)
LEMMA NoChangeEffect ==
  ASSUME NEW m, NEW i, NEW n, i.op \notin Steps2
  PROVE  ChangeEffect(m, i, n)
<1>1. /\ i.op \notin {"add", "sub"} /\ i.op # "not" /\ i.op # "neg" /\ i.op \notin {"inc", "dec"}
      /\ i.op \notin {"rol", "ror", "rcl", "rcr"}
  BY DEF Steps2
<1> QED BY <1>1, Zenon DEF ChangeEffect

(* Bit instructions are the four.                                          *)
LEMMA NoBitEffect ==
  ASSUME NEW m, NEW i, NEW n, i.op \notin Bits4
  PROVE  BitEffect(m, i, n)
BY Zenon DEF BitEffect, Bits4

(* An instruction's effect is the one of its kind.                         *)
LEMMA EffectIs ==
  ASSUME NEW m, IsMachine(m), NEW n, IsMachine(n), NEW i
  PROVE  /\ i.op \notin Tracked => Effect(m, i, n)
         /\ i.op \in {"mov", "load", "xchg"} /\ MoveEffect(m, i, n) => Effect(m, i, n)
         /\ i.op \in Steps2 /\ (i.o = None \/ ChangeEffect(m, i, n)) => Effect(m, i, n)
         /\ i.op \in Bits4 /\ BitEffect(m, i, n) => Effect(m, i, n)
         /\ i.op \in OfReg /\ RegEffect(m, i, n) => Effect(m, i, n)
<1> DEFINE Mv == {"mov", "load", "xchg"}
<1>1. /\ i.op \notin Tracked => i.op \notin Mv /\ i.op \notin Steps2 /\ i.op \notin Bits4 /\ i.op \notin OfReg
      /\ i.op \in Mv => i.op \notin Steps2 /\ i.op \notin Bits4 /\ i.op \notin OfReg
      /\ i.op \in Steps2 => i.op \notin Mv /\ i.op \notin Bits4 /\ i.op \notin OfReg
      /\ i.op \in Bits4 => i.op \notin Mv /\ i.op \notin Steps2 /\ i.op \notin OfReg
      /\ i.op \in OfReg => i.op \notin Mv /\ i.op \notin Steps2 /\ i.op \notin Bits4
  BY DEF Tracked, Steps2, Bits4, OfReg
<1>2. /\ i.op \notin Mv => MoveEffect(m, i, n)
      /\ i.op \notin Steps2 => ChangeEffect(m, i, n)
      /\ i.op \notin Bits4 => BitEffect(m, i, n)
      /\ i.op \notin OfReg => RegEffect(m, i, n)
  BY NoMoveEffect, NoChangeEffect, NoBitEffect, NoRegEffect
<1> HIDE DEF Mv
<1>3. i.op \notin Tracked => Effect(m, i, n)
  BY <1>1, <1>2 DEF Effect
<1>4. i.op \in Mv /\ MoveEffect(m, i, n) => Effect(m, i, n)
  BY <1>1, <1>2 DEF Effect
<1>5. i.op \in Steps2 /\ (i.o = None \/ ChangeEffect(m, i, n)) => Effect(m, i, n)
  BY <1>1, <1>2 DEF Effect
<1>6. i.op \in Bits4 /\ BitEffect(m, i, n) => Effect(m, i, n)
  BY <1>1, <1>2 DEF Effect
<1>7. i.op \in OfReg /\ RegEffect(m, i, n) => Effect(m, i, n)
  BY <1>1, <1>2 DEF Effect
<1> QED BY <1>3, <1>4, <1>5, <1>6, <1>7 DEF Mv

(* What a step leaves in the history                                       *)
Recorded ==
  /\ count' = count + 1 /\ prev' = ins /\ was' = cpu /\ first' = IF count = 0 THEN cpu ELSE first
  /\ Effect(cpu, ins', cpu')
  /\ ins'.op \in Rotations4 => count = 0 \/ ins'.x = ins.x

(* The fields of an instruction that was executed                          *)
LEMMA DidIs ==
  ASSUME NEW op, NEW k, NEW o, NEW p, NEW x, NEW m, NEW by, NEW j, Goes(by, j, o), Did(op, k, o, p, x, m),
         IInv, IInv'
  PROVE  /\ cpu' = m /\ ins'.op = op /\ ins'.k = k /\ ins'.o = o /\ ins'.p = p /\ ins'.x = x
         /\ IsMachine(cpu) /\ IsMachine(cpu')
         /\ (op \notin Rotations4 \/ count = 0 \/ x = ins.x) /\ Effect(cpu, ins', cpu') => Recorded
<1>1. /\ cpu' = m /\ ins'.op = op /\ ins'.k = k /\ ins'.o = o /\ ins'.p = p /\ ins'.x = x
      /\ prev' = ins /\ was' = cpu /\ first' = IF count = 0 THEN cpu ELSE first
  BY DEF Did
<1>2. count' = count + 1
  BY DEF Goes
<1>3. IsMachine(cpu) /\ IsMachine(cpu')
  BY DEF IInv, TypeOK
<1> QED BY <1>1, <1>2, <1>3 DEF Recorded

(* An instruction no pair is about                                         *)
LEMMA OtherRecorded ==
  ASSUME NEW op, op \notin Tracked, NEW k, NEW o, NEW p, NEW x, NEW m, NEW by, NEW j,
         Goes(by, j, o), Did(op, k, o, p, x, m), IInv, IInv'
  PROVE  Recorded
<1>1. op \notin Rotations4
  BY DEF Rotations4, Tracked, Steps2
<1>2. /\ ins'.op = op /\ IsMachine(cpu) /\ IsMachine(cpu')
      /\ (op \notin Rotations4 \/ count = 0 \/ x = ins.x) /\ Effect(cpu, ins', cpu') => Recorded
  BY DidIs
<1>3. Effect(cpu, ins', cpu')
  BY <1>2, EffectIs
<1> QED BY <1>1, <1>2, <1>3

(* Moves                                                                   *)
LEMMA MovesRecorded ==
  ASSUME IInv, IInv', NEW k \in Size, NEW o \in Operands, Moves(k, o)
  PROVE  Recorded
<1> DEFINE p == PlaceOf(cpu, o)
<1>1. Place(cpu, o) = p
  BY PlaceOfIs
<1>2. \A op \in {"mov", "load", "xchg"} : \A m, x :
         /\ Goes(op, k, o) /\ Did(op, k, o, p, x, m)
         /\ op = "mov" => m = Store(cpu, p, k, GetReg(cpu, o.r, k))
         /\ op = "load" => m = SetReg(Check(cpu, p, k), o.r, k, Load(cpu, p, k))
         /\ op = "xchg" => m = Exchanged(cpu, p, o.r, k)
         => Recorded
  <2>1. ASSUME NEW op \in {"mov", "load", "xchg"}, NEW m, NEW x, Goes(op, k, o), Did(op, k, o, p, x, m),
               op = "mov" => m = Store(cpu, p, k, GetReg(cpu, o.r, k)),
               op = "load" => m = SetReg(Check(cpu, p, k), o.r, k, Load(cpu, p, k)),
               op = "xchg" => m = Exchanged(cpu, p, o.r, k)
        PROVE  Recorded
    <3>1. /\ cpu' = m /\ ins'.op = op /\ ins'.k = k /\ ins'.o = o
          /\ IsMachine(cpu) /\ IsMachine(cpu')
          /\ (op \notin Rotations4 \/ count = 0 \/ x = ins.x) /\ Effect(cpu, ins', cpu') => Recorded
      BY <2>1, DidIs
    <3>2. MoveEffect(cpu, ins', cpu')
      BY <2>1, <3>1 DEF MoveEffect
    <3>3. op \notin Rotations4
      BY DEF Rotations4
    <3>4. Effect(cpu, ins', cpu')
      BY <3>1, <3>2, EffectIs
    <3> QED BY <3>1, <3>3, <3>4
  <2> QED BY <2>1
<1>3. CASE MovToRm(k, o)
  BY <1>1, <1>2, <1>3 DEF MovToRm
<1>4. CASE MovToReg(k, o)
  BY <1>1, <1>2, <1>4 DEF MovToReg
<1>5. CASE Xchg(k, o)
  BY <1>1, <1>2, <1>5 DEF Xchg, Exchanged
<1>6. /\ "movimm" \notin Tracked /\ "movsr" \notin Tracked /\ "lea" \notin Tracked /\ "cmov" \notin Tracked
      /\ "movzx" \notin Tracked /\ "movsx" \notin Tracked
  BY DEF Tracked, Steps2, Bits4, OfReg
<1>7. ASSUME NEW imm \in ImmArg, MovImm(k, o, imm) PROVE Recorded
  BY <1>6, <1>7, OtherRecorded DEF MovImm
<1>8. CASE MovFromSeg(k, o)
  BY <1>6, <1>8, OtherRecorded DEF MovFromSeg
<1>9. CASE Lea(k, o)
  BY <1>6, <1>9, OtherRecorded DEF Lea
<1>10. ASSUME NEW cond \in BOOLEAN, Cmov(k, o, cond) PROVE Recorded
  BY <1>6, <1>10, OtherRecorded DEF Cmov
<1>11. ASSUME NEW j \in {1, 2}, MovZx(k, j, o) \/ MovSx(k, j, o) PROVE Recorded
  BY <1>6, <1>11, OtherRecorded DEF MovZx, MovSx
<1> QED BY <1>3, <1>4, <1>5, <1>7, <1>8, <1>9, <1>10, <1>11 DEF Moves

(* Instructions that change their operand                                  *)
LEMMA ChangeRecorded ==
  ASSUME NEW op \in Steps2, NEW k, NEW o, NEW p, NEW x, NEW m, NEW by, NEW j,
         Goes(by, j, o), Did(op, k, o, p, x, m), IInv, IInv',
         op \notin Rotations4 \/ count = 0 \/ x = ins.x,
         o = None \/ ChangeEffect(cpu, ins', cpu')
  PROVE  Recorded
<1>1. /\ ins'.op = op /\ ins'.o = o /\ IsMachine(cpu) /\ IsMachine(cpu')
      /\ (op \notin Rotations4 \/ count = 0 \/ x = ins.x) /\ Effect(cpu, ins', cpu') => Recorded
  BY DidIs
<1>2. Effect(cpu, ins', cpu')
  BY <1>1, EffectIs
<1> QED BY <1>1, <1>2

(* ADD, SUB and CMP, under whatever name                                   *)
LEMMA ArithRecorded ==
  ASSUME IInv, IInv', NEW k \in Size, NEW o \in Operands, NEW op \in Arithmetics, ArithToRm(op, k, o)
  PROVE  Recorded
<1> DEFINE p == PlaceOf(cpu, o)
           s == GetReg(cpu, o.r, k)
           d == Load(cpu, p, k)
           m == Arith(cpu, op, p, k, d, s)
<1>1. Goes(op, k, o) /\ Did(op, k, o, p, s, m)
  BY PlaceOfIs DEF ArithToRm
<1>2. CASE op = "cmp"
  <2>1. "cmp" \notin Tracked
    BY DEF Tracked, Steps2, Bits4, OfReg
  <2> HIDE DEF p, s, m
  <2> QED BY <1>1, <1>2, <2>1, OtherRecorded
<1>3. CASE op # "cmp"
  <2>1. op \in {"add", "sub"}
    BY <1>3 DEF Arithmetics
  <2>2. op \in Steps2 /\ op \notin Rotations4
    BY <2>1 DEF Steps2, Rotations4
  <2>3. cpu' = m /\ ins'.op = op /\ ins'.k = k /\ ins'.o = o
    BY <1>1, DidIs
  <2>4. m = Store(ArithFlags(cpu, op, d, s, k), p, k, Sum(op, d, s))
    BY <1>3 DEF Arith
  <2>5. ChangeEffect(cpu, ins', cpu')
    <3>1. op # "not" /\ op # "neg" /\ op \notin {"inc", "dec"} /\ op \notin {"rol", "ror", "rcl", "rcr"}
      BY <2>1
    <3> QED BY <2>3, <2>4, <3>1, Zenon DEF ChangeEffect
  <2> HIDE DEF p, s, m, d
  <2> QED BY <1>1, <2>2, <2>5, ChangeRecorded
<1> QED BY <1>2, <1>3

(* Rotations by a number                                                   *)
LEMMA RotateRecorded ==
  ASSUME IInv, IInv', NEW k \in Size, NEW o \in Operands, NEW op \in Rotations4, NEW n \in Nat, Rotate(op, k, o, n)
  PROVE  Recorded
<1> DEFINE p == PlaceOf(cpu, o)
           t == Rotated(op, Load(cpu, p, k), n, Width(k), cpu.cf)
           m == Store([cpu EXCEPT !.cf = t.cf], p, k, t.val)
<1>1. (count = 0 \/ n = ins.x) /\ Goes(op, k, o) /\ Did(op, k, o, p, n, m)
  BY PlaceOfIs, Zenon DEF Rotate
<1>2. op \in Steps2
  BY DEF Steps2, Rotations4
<1>3. cpu' = m /\ ins'.op = op /\ ins'.k = k /\ ins'.o = o /\ ins'.x = n
  <2> HIDE DEF m, p
  <2> QED BY <1>1, DidIs
<1>4. ChangeEffect(cpu, ins', cpu')
  <2>1. op # "not" /\ op # "neg" /\ op \notin {"inc", "dec"} /\ op \notin {"add", "sub"}
    BY DEF Rotations4
  <2> QED BY <1>3, <2>1, Zenon DEF ChangeEffect
<1> HIDE DEF p, m
<1> QED BY <1>1, <1>2, <1>4, ChangeRecorded

(* NOT, NEG, INC and DEC                                                   *)
LEMMA OnesRecorded ==
  ASSUME IInv, IInv', NEW k \in Size, NEW o \in Operands,
         NotRm(k, o) \/ NegRm(k, o) \/ \E op \in {"inc", "dec"} : StepRm(op, k, o)
  PROVE  Recorded
<1> DEFINE p == PlaceOf(cpu, o)
           d == Load(cpu, p, k)
<1>1. Place(cpu, o) = p
  BY PlaceOfIs
<1>2. "not" \in Steps2 /\ "neg" \in Steps2 /\ "inc" \in Steps2 /\ "dec" \in Steps2
      /\ "not" \notin Rotations4 /\ "neg" \notin Rotations4 /\ "inc" \notin Rotations4 /\ "dec" \notin Rotations4
  BY DEF Steps2, Rotations4
<1>3. CASE NotRm(k, o)
  <2> DEFINE m == Store(cpu, p, k, -1 - d)
  <2>1. Goes("not", k, o) /\ Did("not", k, o, p, 0, m)
    BY <1>1, <1>3 DEF NotRm
  <2>2. cpu' = m /\ ins'.op = "not" /\ ins'.k = k /\ ins'.o = o
    BY <2>1, DidIs
  <2>3. ChangeEffect(cpu, ins', cpu')
    BY <2>2 DEF ChangeEffect
  <2> HIDE DEF p, m
  <2> QED BY <1>2, <2>1, <2>3, ChangeRecorded
<1>4. CASE NegRm(k, o)
  <2> DEFINE m == Store(Flagged(cpu, d # 0, d = 0), p, k, -d)
  <2>1. Goes("neg", k, o) /\ Did("neg", k, o, p, 0, m)
    BY <1>1, <1>4, Zenon DEF NegRm
  <2>2. cpu' = m /\ ins'.op = "neg" /\ ins'.k = k /\ ins'.o = o
    <3> HIDE DEF p, m
    <3> QED BY <2>1, DidIs
  <2>3. ChangeEffect(cpu, ins', cpu')
    <3>1. "neg" # "not" /\ "neg" \notin {"inc", "dec"} /\ "neg" \notin {"add", "sub"} /\ "neg" \notin {"rol", "ror", "rcl", "rcr"}
      OBVIOUS
    <3> QED BY <2>2, <3>1, Zenon DEF ChangeEffect
  <2> HIDE DEF p, m
  <2> QED BY <1>2, <2>1, <2>3, ChangeRecorded
<1>5. ASSUME NEW op \in {"inc", "dec"}, StepRm(op, k, o) PROVE Recorded
  <2> DEFINE y == d + Step(op)
             m == Store(Flagged(cpu, cpu.cf, y % Mod(k) = 0), p, k, y)
  <2>1. Goes(op, k, o) /\ Did(op, k, o, p, 0, m)
    <3>1. Step(op) = IF op = "inc" THEN 1 ELSE -1
      BY <1>5 DEF Step
    <3> QED BY <1>1, <1>5, <3>1, Zenon DEF StepRm
  <2>2. cpu' = m /\ ins'.op = op /\ ins'.k = k /\ ins'.o = o
    <3> HIDE DEF p, m
    <3> QED BY <2>1, DidIs
  <2>3. ChangeEffect(cpu, ins', cpu')
    <3>1. op # "not" /\ op # "neg" /\ op \notin {"add", "sub"} /\ op \notin {"rol", "ror", "rcl", "rcr"}
      BY <1>5
    <3> QED BY <2>2, <3>1, Zenon DEF ChangeEffect
  <2>4. op \in Steps2 /\ op \notin Rotations4
    BY <1>2, <1>5
  <2> HIDE DEF p, m
  <2> QED BY <2>1, <2>3, <2>4, ChangeRecorded
<1> QED BY <1>3, <1>4, <1>5

(* BT, BTS, BTR and BTC with a register                                    *)
LEMMA BitRecorded ==
  ASSUME IInv, IInv', NEW k \in Size, NEW o \in Operands, NEW op \in Bits4, BitReg(op, k, o)
  PROVE  Recorded
<1> DEFINE p == PlaceOf(cpu, o)
           x == Signed(GetReg(cpu, o.r, k), k)
           q == BitPlace(cpu, op, k, o, x)
           m == BitChanged(cpu, op, q, k, x % Width(k))
<1>1. k # 1 /\ Goes(op, k, o) /\ Did(op, k, o, q, x, m)
  <2>1. Place(cpu, o) = p
    BY PlaceOfIs
  <2>2. q = IF o.mod = 3 THEN p ELSE InMem(p.seg, p.ofs + x \div BitStep(op, k))
    BY DEF BitPlace
  <2>3. m = BitDone(op, q, k, x % Width(k))
    BY Zenon DEF BitChanged, BitDone
  <2> HIDE DEF m, q, x, p
  <2>4. k # 1 /\ Goes(op, k, o) /\ Did(op, k, o, q, x, BitDone(op, q, k, x % Width(k)))
    BY <2>1, <2>2 DEF BitReg, x
  <2> QED BY <2>3, <2>4
<1> HIDE DEF p, m, x, q
<1>2. /\ cpu' = m /\ ins'.op = op /\ ins'.k = k /\ ins'.o = o /\ ins'.x = x
      /\ IsMachine(cpu) /\ IsMachine(cpu')
      /\ (op \notin Rotations4 \/ count = 0 \/ x = ins.x) /\ Effect(cpu, ins', cpu') => Recorded
  BY <1>1, DidIs
<1>3. BitEffect(cpu, ins', cpu')
  BY <1>1, <1>2 DEF BitEffect, x, q, m
<1>4. Effect(cpu, ins', cpu')
  BY <1>2, <1>3, EffectIs
<1>5. op \notin Rotations4
  BY DEF Bits4, Rotations4
<1> QED BY <1>2, <1>4, <1>5

(* Instructions that change operands                                       *)
LEMMA ChangesRecorded ==
  ASSUME IInv, IInv', NEW k \in Size, NEW o \in Operands, Changes(k, o)
  PROVE  Recorded
<1>0. /\ "cmp" \notin Tracked /\ "arith" \notin Tracked /\ "arithi" \notin Tracked /\ "test" \notin Tracked
      /\ "setcc" \notin Tracked /\ "biti" \notin Tracked /\ "bsf" \notin Tracked /\ "bsr" \notin Tracked
  BY DEF Tracked, Steps2, Bits4, OfReg
<1>1. ASSUME NEW op \in Arithmetics, ArithToReg(op, k, o) PROVE Recorded
  <2> DEFINE done == IF op = "cmp" THEN "cmp" ELSE "arith"
  <2>1. PICK p, s, m : Goes(op, k, o) /\ Did(done, k, o, p, s, m)
    BY <1>1 DEF ArithToReg
  <2>2. done \notin Tracked
    BY <1>0
  <2> HIDE DEF done
  <2> QED BY <2>1, <2>2, OtherRecorded
<1>2. ASSUME NEW imm, NEW short, ArithImm(k, o, imm, short) PROVE Recorded
  <2>1. PICK op, p, s, m : Goes(op, k, o) /\ Did(IF op = "cmp" THEN "cmp" ELSE "arithi", k, o, p, s, m)
    BY <1>2 DEF ArithImm
  <2> DEFINE done == IF op = "cmp" THEN "cmp" ELSE "arithi"
  <2>2. done \notin Tracked
    BY <1>0
  <2>3. Did(done, k, o, p, s, m)
    BY <2>1
  <2> HIDE DEF done
  <2> QED BY <2>1, <2>2, <2>3, OtherRecorded
<1>3. ASSUME NEW x, Test(k, o, x) PROVE Recorded
  <2>1. PICK p, m : Goes("test", k, o) /\ Did("test", k, o, p, x, m)
    BY <1>3, Zenon DEF Test
  <2> QED BY <1>0, <2>1, OtherRecorded
<1>4. ASSUME NEW op \in Rotations4, RotateImm(op, k, o) \/ RotateCl(op, k, o) PROVE Recorded
  <2>1. IsMachine(cpu)
    BY DEF IInv, TypeOK
  <2>2. GetReg(cpu, CX, 1) \in Nat
    BY <2>1, GetRegType DEF CX, Gpr, Size
  <2>3. \E n \in Nat : Rotate(op, k, o, n)
    BY <1>4, <2>2, OperandAssumption DEF RotateImm, RotateCl
  <2> QED BY <2>3, RotateRecorded
<1>5. ASSUME NEW cond, SetCc(o, cond) PROVE Recorded
  BY <1>0, <1>5, OtherRecorded DEF SetCc
<1>6. ASSUME NEW op, NEW imm, BitImm(op, k, o, imm) PROVE Recorded
  <2>1. PICK p, n, m : Goes(op, k, o) /\ Did("biti", k, o, p, n, m)
    BY <1>6, Zenon DEF BitImm
  <2> QED BY <1>0, <2>1, OtherRecorded
<1>7. ASSUME NEW op \in {"bsf", "bsr"}, Scan(op, k, o) PROVE Recorded
  <2>1. PICK p, m : Goes(op, k, o) /\ Did(op, k, o, p, 0, m)
    BY <1>7, Zenon DEF Scan
  <2>2. op \notin Tracked
    BY <1>0, <1>7
  <2> QED BY <2>1, <2>2, OtherRecorded
<1> QED
  BY <1>1, <1>2, <1>3, <1>4, <1>5, <1>6, <1>7, ArithRecorded, OnesRecorded, BitRecorded
  DEF Changes, Rotations4, Bits4

(* XCHG, BSWAP, INC and DEC of registers                                   *)
LEMMA RegRecorded ==
  ASSUME IInv, IInv', NEW k \in Size, NEW r \in Gpr, NEW op \in OfReg, NEW m, NEW by, NEW j,
         Goes(by, j, None), Did(op, k, None, InReg(r), 0, m),
         op = "bswap" => m = IF k = 2 THEN cpu ELSE SetReg(cpu, r, 4, Turned32(cpu.reg[r])),
         op = "xchgax" => m = Exchanged(cpu, InReg(AX), r, k),
         op \in {"incr", "decr"} =>
           m = SetReg(Flagged(cpu, cpu.cf, (GetReg(cpu, r, k) + Step(op)) % Mod(k) = 0), r, k, GetReg(cpu, r, k) + Step(op))
  PROVE  Recorded
<1>1. /\ cpu' = m /\ ins'.op = op /\ ins'.k = k /\ ins'.p = InReg(r)
      /\ IsMachine(cpu) /\ IsMachine(cpu')
      /\ (op \notin Rotations4 \/ count = 0 \/ 0 = ins.x) /\ Effect(cpu, ins', cpu') => Recorded
  BY DidIs
<1>2. RegEffect(cpu, ins', cpu')
  <2> DEFINE v == GetReg(cpu, r, k) + Step(op)
  <2>1. /\ op \in {"bswap", "xchgax", "incr", "decr"} => ins'.p = InReg(r)
        /\ op = "bswap"  => m = IF k = 2 THEN cpu ELSE SetReg(cpu, r, 4, Turned32(cpu.reg[r]))
        /\ op = "xchgax" => m = Exchanged(cpu, InReg(AX), r, k)
        /\ op \in {"incr", "decr"} => m = SetReg(Flagged(cpu, cpu.cf, v % Mod(k) = 0), r, k, v)
    BY <1>1, Zenon
  <2> QED BY <1>1, <2>1, Zenon DEF RegEffect
<1>3. Effect(cpu, ins', cpu')
  BY <1>1, <1>2, EffectIs
<1>4. op \notin Rotations4
  BY DEF OfReg, Rotations4
<1> QED BY <1>1, <1>3, <1>4

(* The registers of XCHG with the accumulator as a place and a register    *)
LEMMA AxExchanged ==
  ASSUME NEW m, NEW r, NEW k
  PROVE  Exchanged(m, InReg(AX), r, k) = SetReg(SetReg(m, AX, k, GetReg(m, r, k)), r, k, GetReg(m, AX, k))
BY DEF Exchanged, InReg, Load, Store

(* Instructions without operand                                            *)
LEMMA AccumulatorRecorded ==
  ASSUME IInv, IInv', NEW k \in Size, Accumulator(k)
  PROVE  Recorded
<1>0. "moffs" \notin Tracked /\ "movri" \notin Tracked /\ "cmp" \notin Tracked /\ "cbw" \notin Tracked /\ "cwd" \notin Tracked
  BY DEF Tracked, Steps2, Bits4, OfReg
<1>1. ASSUME NEW a, NEW addr32, NEW over, NEW toAcc, MovAcc(k, a, addr32, over, toAcc) PROVE Recorded
  <2>1. PICK p, x, m : Goes("moffs", k, None) /\ Did("moffs", k, None, p, x, m)
    BY <1>1, Zenon DEF MovAcc
  <2> QED BY <1>0, <2>1, OtherRecorded
<1>2. ASSUME NEW r \in Gpr, XchgAx(k, r) PROVE Recorded
  <2> DEFINE m == Exchanged(cpu, InReg(AX), r, k)
  <2>1. Goes("xchgax", k, None) /\ Did("xchgax", k, None, InReg(r), 0, m) /\ "xchgax" \in OfReg
    BY <1>2, AxExchanged DEF XchgAx, OfReg
  <2>2. "xchgax" # "bswap" /\ "xchgax" \notin {"incr", "decr"}
    OBVIOUS
  <2>3. m = Exchanged(cpu, InReg(AX), r, k)
    OBVIOUS
  <2> HIDE DEF m
  <2> QED BY <2>1, <2>2, <2>3, RegRecorded
<1>3. ASSUME NEW r, NEW imm, MovRegImm(k, r, imm) PROVE Recorded
  BY <1>0, <1>3, OtherRecorded DEF MovRegImm
<1>4. ASSUME NEW r \in Gpr, Bswap(k, r) PROVE Recorded
  <2> DEFINE m == IF k = 2 THEN cpu ELSE SetReg(cpu, r, 4, Turned32(cpu.reg[r]))
  <2>1. Goes("bswap", k, None) /\ Did("bswap", k, None, InReg(r), 0, m)
    BY <1>4, Zenon DEF Bswap, Turned32
  <2>2. "bswap" # "xchgax" /\ "bswap" \notin {"incr", "decr"} /\ "bswap" \in OfReg
    BY DEF OfReg
  <2>3. m = IF k = 2 THEN cpu ELSE SetReg(cpu, r, 4, Turned32(cpu.reg[r]))
    OBVIOUS
  <2> HIDE DEF m
  <2> QED BY <2>1, <2>2, <2>3, RegRecorded
<1>5. ASSUME NEW op \in Arithmetics, NEW imm, ArithAcc(op, k, imm) PROVE Recorded
  <2>1. PICK x, m : Goes(op, k, None) /\ Did(op, k, None, InReg(AX), x, m)
    BY <1>5, Zenon DEF ArithAcc
  <2>2. CASE op = "cmp"
    BY <1>0, <2>1, <2>2, OtherRecorded
  <2>3. CASE op # "cmp"
    <3>1. op \in Steps2 /\ op \notin Rotations4
      BY <2>3 DEF Steps2, Arithmetics, Rotations4
    <3> QED BY <2>1, <3>1, ChangeRecorded
  <2> QED BY <2>2, <2>3
<1>6. ASSUME NEW op \in {"incr", "decr"}, NEW r \in Gpr, StepReg(op, k, r, GetReg(cpu, r, k) + Step(op)) PROVE Recorded
  <2> DEFINE m == SetReg(Flagged(cpu, cpu.cf, (GetReg(cpu, r, k) + Step(op)) % Mod(k) = 0), r, k, GetReg(cpu, r, k) + Step(op))
  <2>1. Goes(op, k, None) /\ Did(op, k, None, InReg(r), 0, m)
    BY <1>6, Zenon DEF StepReg
  <2>2. op # "bswap" /\ op # "xchgax" /\ op \in OfReg
    BY <1>6 DEF OfReg
  <2>3. m = SetReg(Flagged(cpu, cpu.cf, (GetReg(cpu, r, k) + Step(op)) % Mod(k) = 0), r, k, GetReg(cpu, r, k) + Step(op))
    BY Zenon
  <2> HIDE DEF m
  <2> QED BY <2>1, <2>2, <2>3, RegRecorded
<1>7. ASSUME NEW r \in Gpr, IncReg(k, r) \/ DecReg(k, r) PROVE Recorded
  <2>1. Step("incr") = 1 /\ Step("decr") = -1
    BY DEF Step
  <2>2. GetReg(cpu, r, k) \in Int
    BY GetRegType DEF IInv, TypeOK
  <2>3. GetReg(cpu, r, k) - 1 = GetReg(cpu, r, k) + (-1)
    BY <2>2
  <2>4. \/ StepReg("incr", k, r, GetReg(cpu, r, k) + Step("incr"))
        \/ StepReg("decr", k, r, GetReg(cpu, r, k) + Step("decr"))
    BY <1>7, <2>1, <2>3 DEF IncReg, DecReg
  <2> QED BY <1>6, <2>4
<1>8. CASE Cbw(k)
  BY <1>0, <1>8, OtherRecorded DEF Cbw
<1>9. CASE Cwd(k)
  BY <1>0, <1>9, OtherRecorded DEF Cwd
<1> QED BY <1>1, <1>2, <1>3, <1>4, <1>5, <1>7, <1>8, <1>9 DEF Accumulator

(* Every instruction is recorded.                                          *)
LEMMA NextRecorded ==
  ASSUME IInv, IInv', Next
  PROVE  Recorded
<1>1. ASSUME NEW data32, NEW over, Xlat(data32, over) PROVE Recorded
  <2>1. PICK p, m : Goes("xlat", 1, None) /\ Did("xlat", 1, None, p, 0, m)
    BY <1>1, Zenon DEF Xlat
  <2>2. "xlat" \notin Tracked
    BY DEF Tracked, Steps2, Bits4, OfReg
  <2> QED BY <2>1, <2>2, OtherRecorded
<1>2. ASSUME NEW k \in Size, NEW o \in Choice, Moves(k, o) \/ Changes(k, o) PROVE Recorded
  <2>1. o \in Operands
    BY DEF Choice, IInv
  <2> QED BY <1>2, <2>1, MovesRecorded, ChangesRecorded
<1> QED BY <1>1, <1>2, AccumulatorRecorded DEF Next

(* The machines between the last two instructions                          *)
HInv ==
  /\ count \in Nat
  /\ count = 1 => first = was /\ Effect(was, ins, cpu)
  /\ count = 2 => /\ Effect(first, prev, was) /\ Effect(was, ins, cpu)
                  /\ ins.op \in Rotations4 => ins.x = prev.x

(* What is recorded continues the history.                                 *)
LEMMA RecordedHistory ==
  ASSUME HInv, Recorded
  PROVE  HInv'
<1>1. count \in Nat /\ count' = count + 1 /\ prev' = ins /\ was' = cpu
  BY DEF HInv, Recorded
<1>2. count' \in Nat
  BY <1>1
<1>3. Effect(was', ins', cpu')
  BY <1>1 DEF Recorded
<1>4. count' = 1 => first' = was'
  <2>1. count' = 1 => count = 0
    BY <1>1
  <2> QED BY <1>1, <2>1 DEF Recorded
<1>5. count' = 2 => Effect(first', prev', was') /\ (ins'.op \in Rotations4 => ins'.x = prev'.x)
  <2>1. ASSUME count' = 2 PROVE Effect(first', prev', was') /\ (ins'.op \in Rotations4 => ins'.x = prev'.x)
    <3>1. count = 1 /\ count # 0
      BY <1>1, <2>1
    <3>2. first' = first /\ first = was /\ Effect(was, ins, cpu)
      BY <3>1 DEF HInv, Recorded
    <3>3. first' = was
      BY <3>2
    <3>4. Effect(first', prev', was')
      BY <1>1, <3>2, <3>3
    <3> QED BY <1>1, <3>1, <3>4 DEF Recorded
  <2> QED BY <2>1
<1> QED BY <1>2, <1>3, <1>4, <1>5 DEF HInv

(* Every step continues the history.                                       *)
LEMMA StepHistory == IInv /\ IInv' /\ HInv /\ [Next]_vars => HInv'
<1>1. ASSUME IInv, IInv', HInv, Next PROVE HInv'
  BY <1>1, NextRecorded, RecordedHistory
<1>2. ASSUME HInv, UNCHANGED vars PROVE HInv'
  BY <1>2 DEF HInv, vars
<1> QED BY <1>1, <1>2

(* Two instructions of the same operand are a pair.                        *)
LEMMA SamePair ==
  ASSUME IInv, HInv, Same
  PROVE  Pair(first, prev, was, ins, cpu) /\ (ins.op \in Rotations4 => ins.x = prev.x)
<1>1. count = 2 /\ ins.o # None /\ ins.k = prev.k /\ ins.o = prev.o /\ Place(first, ins.o) = Place(was, ins.o)
  BY DEF Same
<1>2. /\ Effect(first, prev, was) /\ Effect(was, ins, cpu)
      /\ ins.op \in Rotations4 => ins.x = prev.x
  BY <1>1 DEF HInv
<1>3. ins.o \in Operands /\ ins.k \in Size
  BY <1>1 DEF IInv
<1>4. PlaceOf(first, ins.o) = PlaceOf(was, ins.o)
  BY <1>1, PlaceOfIs
<1> QED BY <1>1, <1>2, <1>3, <1>4 DEF Pair

(* What pairs undo, from the history                                       *)
LEMMA HistoryUndone ==
  ASSUME IInv, HInv
  PROVE  Undone
<1>1. ASSUME Same, prev.op = ins.op, ins.op \in Involution PROVE Unchanged
  <2>1. ins.op \in {"not", "neg"} \/ ins.op = "xchg"
    BY <1>1 DEF Involution
  <2>2. Pair(first, prev, was, ins, cpu)
    BY <1>1, SamePair
  <2> QED BY <1>1, <2>1, <2>2, NotBack, XchgBack DEF Unchanged
<1>2. ASSUME SameRegister, <<prev.op, ins.op>> \in Opposite PROVE Unchanged
  <2>1. \/ (prev.op = "add" /\ ins.op = "sub") \/ (prev.op = "sub" /\ ins.op = "add")
        \/ (prev.op = "inc" /\ ins.op = "dec") \/ (prev.op = "dec" /\ ins.op = "inc")
    BY <1>2 DEF Opposite
  <2>2. Same /\ GetReg(first, ins.o.r, ins.k) = GetReg(was, ins.o.r, ins.k)
    BY <1>2 DEF SameRegister
  <2>3. Pair(first, prev, was, ins, cpu)
    BY <2>2, SamePair
  <2> QED BY <2>1, <2>2, <2>3, SumBack, StepBack DEF Unchanged
<1>3. ASSUME SameRegister, prev.op = "btc", ins.op = "btc" PROVE Unchanged
  <2>1. Same /\ GetReg(first, ins.o.r, ins.k) = GetReg(was, ins.o.r, ins.k)
    BY <1>3 DEF SameRegister
  <2>2. Pair(first, prev, was, ins, cpu)
    BY <2>1, SamePair
  <2> QED BY <1>3, <2>1, <2>2, BtcBack DEF Unchanged
<1>4. ASSUME Same, <<prev.op, ins.op>> \in Rotations
      PROVE  /\ cpu.reg = first.reg /\ cpu.mem = first.mem
             /\ <<prev.op, ins.op>> \in Through => cpu.cf = first.cf
  <2>1. ins.op \in Rotations4
    BY <1>4 DEF Rotations, Through, Rotations4
  <2>2. Pair(first, prev, was, ins, cpu) /\ ins.x = prev.x
    BY <1>4, <2>1, SamePair
  <2> QED BY <1>4, <2>2, RotateBack
<1>5. <<prev.op, ins.op>> \in Through => <<prev.op, ins.op>> \in Rotations
  BY DEF Rotations
<1>6. ASSUME Same, <<prev.op, ins.op>> \in Copies PROVE cpu.reg = was.reg /\ cpu.mem = was.mem
  <2>1. (prev.op = "mov" /\ ins.op = "load") \/ (prev.op = "load" /\ ins.op = "mov")
    BY <1>6 DEF Copies
  <2>2. Pair(first, prev, was, ins, cpu)
    BY <1>6, SamePair
  <2> QED BY <2>1, <2>2, StoredLoaded, LoadedStored
<1>7. ASSUME count = 2, prev.k = ins.k, prev.p = ins.p,
             \/ prev.op = ins.op /\ ins.op \in {"bswap", "xchgax"}
             \/ <<prev.op, ins.op>> \in {<<"incr", "decr">>, <<"decr", "incr">>}
      PROVE  Unchanged
  <2>1. \/ prev.op = "bswap" /\ ins.op = "bswap"
        \/ prev.op = "xchgax" /\ ins.op = "xchgax"
        \/ prev.op = "incr" /\ ins.op = "decr"
        \/ prev.op = "decr" /\ ins.op = "incr"
    BY <1>7
  <2>2. Effect(first, prev, was) /\ Effect(was, ins, cpu) /\ ins.k \in Size
    BY <1>7 DEF HInv, IInv
  <2> QED BY <1>7, <2>1, <2>2, RegBack DEF Unchanged
<1>8. ASSUME Tested, ins.k = 4 \/ ins.o.mod = 3 \/ ins.x \in 0 .. (Width(2) - 1) PROVE Remembers
  <2>1. /\ Same /\ GetReg(first, ins.o.r, ins.k) = GetReg(was, ins.o.r, ins.k)
        /\ prev.op \in {"bts", "btr", "btc"} /\ ins.op = "bt"
    BY <1>8 DEF Tested, SameRegister
  <2>2. Pair(first, prev, was, ins, cpu)
    BY <2>1, SamePair
  <2>3. /\ prev.op = "bts" => (cpu.cf <=> TRUE)
        /\ prev.op = "btr" => (cpu.cf <=> FALSE)
        /\ prev.op = "btc" => (cpu.cf <=> ~was.cf)
    BY <1>8, <2>1, <2>2, BitRemembered
  <2>4. cpu.cf \in BOOLEAN /\ was.cf \in BOOLEAN
    BY <2>2 DEF Pair, Effect, IsMachine
  <2> QED BY <2>1, <2>3, <2>4 DEF Remembers
<1> QED BY <1>1, <1>2, <1>3, <1>4, <1>5, <1>6, <1>7, <1>8, Zenon DEF Undone

(* XCHG, NOT, NEG, BTC and BSWAP undo themselves, ADD and SUB, INC and DEC *)
(* and the rotations each other; what is stored is loaded, and BT finds    *)
(* what BTS, BTR and BTC left. Behind it: decode_rm_address() and its      *)
(* callers find the same place twice, store_data_*() then reach only the   *)
(* bytes fetch_data_*() read, and the handlers of ops.c and ops2.c store   *)
(* what the inverse of the computation takes back, at no other place.      *)
THEOREM PairsUndo == Spec => []Undone
<1>1. Init => HInv
  <2>1. 0 \in Nat /\ 0 # 1 /\ 0 # 2
    OBVIOUS
  <2> QED BY <2>1 DEF Init, HInv
<1>2. IInv /\ HInv => Undone
  BY HistoryUndone
<1> QED BY InitInv, StepInv, StepHistory, <1>1, <1>2, PTL DEF Spec
=============================================================================
