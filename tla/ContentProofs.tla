--------------------------- MODULE ContentProofs ----------------------------
(***************************************************************************)
(* Theorems about the parts that carry contents: what is cut up, put       *)
(* together, protected or replicated comes out as it went in.              *)
(*                                                                         *)
(* For limbs of any size (26 bits in the code, 5 in the run) no            *)
(* intermediate value of the authenticator outgrows its integer, the       *)
(* accumulator is always congruent to the polynomial of the blocks, the    *)
(* final reduction yields the residue, and the tag is it plus the pad, to  *)
(* the bit.  For every polynomial that ends in the lowest power, the       *)
(* builds of the checksum agree and a burst of damage is noticed.  What    *)
(* opens is what was sealed.  Datagrams, batches and slices give back      *)
(* their messages, a client shows what was replicated, and every entity    *)
(* has its turn.                                                           *)
(***************************************************************************)
EXTENDS Poly1305, Checksum, Aead, Batch, Slices, Wire, Interpolation, Priority, CommonProofs

-----------------------------------------------------------------------------
(* Arithmetic. *)

\* The size of a limb and of the bit above a block
LEMMA Sizes == Base \in Nat /\ Base >= 32 /\ Hibit \in Nat /\ Base = 4 * Hibit
  <1>1. Base \in Nat /\ Base >= 32 /\ Base = 4 * Hibit
    BY MacAssumption
  <1>2. Hibit \in Nat
    BY <1>1, Z3 DEF Hibit
  <1> QED BY <1>1, <1>2

\* Products of naturals are natural.
LEMMA TimesNat == ASSUME NEW a \in Nat, NEW b \in Nat PROVE a * b \in Nat
BY Z3

\* A product grows with its factor.
LEMMA TimesMonotone ==
    ASSUME NEW a \in Nat, NEW b \in Nat, NEW c \in Nat, a <= b
    PROVE  a * c <= b * c
  <1>1. (b - a) * c \in Nat
    BY TimesNat
  <1>2. (b - a) * c = b * c - a * c
    BY Z3
  <1>3. a * c \in Int /\ b * c \in Int
    BY TimesNat
  <1> QED BY <1>1, <1>2, <1>3

\* A bound on a product, from bounds on its factors
LEMMA TimesBound ==
    ASSUME NEW a \in Nat, NEW b \in Nat, NEW c \in Nat, NEW d \in Nat, a <= c, b <= d
    PROVE  a * b \in Nat /\ a * b <= c * d
  <1>1. a * b <= c * b
    BY TimesMonotone
  <1>2. b * c <= d * c
    BY TimesMonotone
  <1>3. c * b = b * c /\ d * c = c * d
    BY Z3
  <1>4. a * b \in Nat /\ c * b \in Nat /\ c * d \in Nat
    BY TimesNat
  <1> QED BY <1>1, <1>2, <1>3, <1>4

\* What is below the modulus is its own remainder.
LEMMA ModSmall ==
    ASSUME NEW n \in Nat, NEW d \in Nat, n < d
    PROVE  n % d = n
  <1>1. n = d * (n \div d) + (n % d) /\ n \div d \in Nat /\ n % d \in Nat
    BY Z3
  <1>2. CASE n \div d = 0
    BY <1>1, <1>2, Z3
  <1>3. CASE n \div d >= 1
    <2>1. 1 * d <= (n \div d) * d
      BY <1>1, <1>3, TimesMonotone
    <2>2. 1 * d = d /\ (n \div d) * d = d * (n \div d) /\ d * (n \div d) \in Nat
      BY <1>1, TimesNat, Z3
    <2> QED BY <1>1, <2>1, <2>2
  <1> QED BY <1>1, <1>2, <1>3

\* A number and the two parts a carry cuts it into
LEMMA Parts2 ==
    ASSUME NEW n \in Nat
    PROVE  High(n) \in Nat /\ Low(n) \in 0 .. Base - 1 /\ n = Base * High(n) + Low(n)
  <1>1. Base \in Nat /\ Base > 0
    BY Sizes
  <1>2. \A b \in Nat : b > 0 => n \div b \in Nat /\ n % b \in 0 .. b - 1 /\ n = b * (n \div b) + (n % b)
    BY Z3
  <1> QED BY <1>1, <1>2 DEF High, Low

\* The carry of a number that is known not to exceed a multiple of the limb
LEMMA UpperBound ==
    ASSUME NEW n \in Nat, NEW k \in Nat, n < Base * (k + 1)
    PROVE  High(n) <= k
  <1>1. High(n) \in Nat /\ Low(n) \in 0 .. Base - 1 /\ n = Base * High(n) + Low(n)
    BY Parts2
  <1>2. SUFFICES ASSUME High(n) >= k + 1 PROVE FALSE
    BY <1>1
  <1>3. (k + 1) * Base <= High(n) * Base
    BY <1>1, <1>2, Sizes, TimesMonotone
  <1>4. (k + 1) * Base = Base * (k + 1) /\ High(n) * Base = Base * High(n)
    BY <1>1, Sizes, Z3
  <1>5. Base * High(n) \in Nat /\ Base * (k + 1) \in Nat
    BY <1>1, Sizes, TimesNat
  <1> QED BY <1>1, <1>3, <1>4, <1>5, Sizes

-----------------------------------------------------------------------------
(* Numbers in limbs. *)

\* What limbs stand for is a natural number.
LEMMA HornerType ==
    ASSUME NEW a \in Nat, NEW b \in Nat, NEW c \in Nat, NEW d \in Nat, NEW e \in Nat
    PROVE  Horner(a, b, c, d, e) \in Nat
  <1>1. Base * e \in Nat
    BY Sizes, TimesNat
  <1>2. Base * (d + Base * e) \in Nat
    BY <1>1, Sizes, TimesNat
  <1>3. Base * (c + Base * (d + Base * e)) \in Nat
    BY <1>2, Sizes, TimesNat
  <1>4. Base * (b + Base * (c + Base * (d + Base * e))) \in Nat
    BY <1>3, Sizes, TimesNat
  <1> QED BY <1>4 DEF Horner

-----------------------------------------------------------------------------
(* Room: no intermediate value outgrows its integer. *)

\* What a product of two full limbs stays below, as a unit
Unit == Base * (Base - 1)

\* The unit is a product of naturals, and far more than a limb.
LEMMA UnitIs ==
    /\ Unit \in Nat /\ Unit = Base * Base - Base
    /\ Base * Base \in Nat /\ Base * Base >= 32 * Base
  <1>1. Base * Base \in Nat /\ Base * (Base - 1) \in Nat
    BY Sizes, TimesNat
  <1>2. Base * (Base - 1) = Base * Base - Base
    BY Sizes, Z3
  <1>3. 32 * Base <= Base * Base
    BY Sizes, TimesMonotone
  <1> QED BY <1>1, <1>2, <1>3, Sizes DEF Unit

\* A term of a column: at most two or four units, and five times that if it wraps round.
LEMMA Term ==
    ASSUME NEW a \in Nat, NEW c \in Nat, NEW k \in {2, 4}, a <= k * Base, c <= Base - 1
    PROVE  a * c \in Nat /\ a * c <= k * Unit /\ a * (5 * c) \in Nat /\ a * (5 * c) <= 5 * (k * Unit)
  <1>1. a * c \in Nat /\ a * c <= (k * Base) * (Base - 1)
    BY Sizes, TimesBound
  <1>2. (k * Base) * (Base - 1) = k * Unit
    BY Sizes, Z3 DEF Unit
  <1>3. a * (5 * c) = 5 * (a * c)
    BY Z3
  <1> QED BY <1>1, <1>2, <1>3, UnitIs

\* The five columns
LEMMA Columns ==
    ASSUME NEW x, NEW r
    PROVE  /\ Column(x, r, 0) = x[0] * r[0] + x[1] * (5 * r[4]) + x[2] * (5 * r[3])
                              + x[3] * (5 * r[2]) + x[4] * (5 * r[1])
           /\ Column(x, r, 1) = x[0] * r[1] + x[1] * r[0] + x[2] * (5 * r[4])
                              + x[3] * (5 * r[3]) + x[4] * (5 * r[2])
           /\ Column(x, r, 2) = x[0] * r[2] + x[1] * r[1] + x[2] * r[0]
                              + x[3] * (5 * r[4]) + x[4] * (5 * r[3])
           /\ Column(x, r, 3) = x[0] * r[3] + x[1] * r[2] + x[2] * r[1]
                              + x[3] * r[0] + x[4] * (5 * r[4])
           /\ Column(x, r, 4) = x[0] * r[4] + x[1] * r[3] + x[2] * r[2] + x[3] * r[1] + x[4] * r[0]
BY DEF Column

\* The sums that the product takes: a limb of the accumulator with one of the block, and
\* the limbs of the key
Sums(x) == x \in [Limbs -> Nat] /\ \A i \in Limbs : x[i] <= (IF i = 1 THEN 4 * Base ELSE 2 * Base)
Keys(r) == r \in [Limbs -> 0 .. Base - 1]

\* Each column is so many units at most: the first has the most terms that wrap round.
LEMMA ColumnsBounded ==
    ASSUME NEW x, NEW r, Sums(x), Keys(r)
    PROVE  /\ \A i \in Limbs : Column(x, r, i) \in Nat
           /\ Column(x, r, 0) <= 52 * Unit
           /\ Column(x, r, 1) <= 36 * Unit
           /\ Column(x, r, 2) <= 28 * Unit
           /\ Column(x, r, 3) <= 20 * Unit
           /\ Column(x, r, 4) <= 12 * Unit
  <1>1. \A j \in Limbs : r[j] \in Nat /\ r[j] <= Base - 1
    BY Sizes DEF Keys
  <1>2. \A j \in Limbs : x[1] * r[j] \in Nat /\ x[1] * r[j] <= 4 * Unit
                         /\ x[1] * (5 * r[j]) \in Nat /\ x[1] * (5 * r[j]) <= 20 * Unit
    <2> TAKE j \in Limbs
    <2>1. x[1] \in Nat /\ x[1] <= 4 * Base
      BY DEF Sums, Limbs
    <2>2. x[1] * r[j] \in Nat /\ x[1] * r[j] <= 4 * Unit
          /\ x[1] * (5 * r[j]) \in Nat /\ x[1] * (5 * r[j]) <= 5 * (4 * Unit)
      BY <1>1, <2>1, Term
    <2> QED BY <2>2, UnitIs
  <1>3. \A i \in Limbs \ {1}, j \in Limbs :
            x[i] * r[j] \in Nat /\ x[i] * r[j] <= 2 * Unit
            /\ x[i] * (5 * r[j]) \in Nat /\ x[i] * (5 * r[j]) <= 10 * Unit
    <2> TAKE i \in Limbs \ {1}, j \in Limbs
    <2>1. x[i] \in Nat /\ x[i] <= 2 * Base
      BY DEF Sums, Limbs
    <2>2. x[i] * r[j] \in Nat /\ x[i] * r[j] <= 2 * Unit
          /\ x[i] * (5 * r[j]) \in Nat /\ x[i] * (5 * r[j]) <= 5 * (2 * Unit)
      BY <1>1, <2>1, Term
    <2> QED BY <2>2, UnitIs
  <1>4. {0, 1, 2, 3, 4} = Limbs /\ {0, 2, 3, 4} \subseteq Limbs \ {1}
    BY DEF Limbs
  <1>5. Column(x, r, 0) \in Nat /\ Column(x, r, 0) <= 52 * Unit
    BY <1>2, <1>3, <1>4, Columns, UnitIs
  <1>6. Column(x, r, 1) \in Nat /\ Column(x, r, 1) <= 36 * Unit
    BY <1>2, <1>3, <1>4, Columns, UnitIs
  <1>7. Column(x, r, 2) \in Nat /\ Column(x, r, 2) <= 28 * Unit
    BY <1>2, <1>3, <1>4, Columns, UnitIs
  <1>8. Column(x, r, 3) \in Nat /\ Column(x, r, 3) <= 20 * Unit
    BY <1>2, <1>3, <1>4, Columns, UnitIs
  <1>9. Column(x, r, 4) \in Nat /\ Column(x, r, 4) <= 12 * Unit
    BY <1>2, <1>3, <1>4, Columns, UnitIs
  <1> QED BY <1>4, <1>5, <1>6, <1>7, <1>8, <1>9

\* The sums of the columns with the carries that come in
Sum0(x, r) == Column(x, r, 0)
Sum1(x, r) == Column(x, r, 1) + High(Sum0(x, r))
Sum2(x, r) == Column(x, r, 2) + High(Sum1(x, r))
Sum3(x, r) == Column(x, r, 3) + High(Sum2(x, r))
Sum4(x, r) == Column(x, r, 4) + High(Sum3(x, r))
Wrapped(x, r) == Low(Sum0(x, r)) + 5 * High(Sum4(x, r))

\* With the carries added on their way up they fit 64 bits, and the carries 32.
LEMMA SumsBounded ==
    ASSUME NEW x, NEW r, Sums(x), Keys(r)
    PROVE  /\ Sum0(x, r) \in Nat /\ Sum0(x, r) < Uint64 /\ High(Sum0(x, r)) \in 0 .. Uint32 - 1
           /\ Sum1(x, r) \in Nat /\ Sum1(x, r) < Uint64 /\ High(Sum1(x, r)) \in 0 .. Uint32 - 1
           /\ Sum2(x, r) \in Nat /\ Sum2(x, r) < Uint64 /\ High(Sum2(x, r)) \in 0 .. Uint32 - 1
           /\ Sum3(x, r) \in Nat /\ Sum3(x, r) < Uint64 /\ High(Sum3(x, r)) \in 0 .. Uint32 - 1
           /\ Sum4(x, r) \in Nat /\ Sum4(x, r) < Uint64 /\ High(Sum4(x, r)) \in 0 .. Uint32 - 1
           /\ Wrapped(x, r) \in 0 .. Uint32 - 1
  <1> DEFINE Q == Base * Base
  <1>0. /\ Q \in Nat /\ Unit = Q - Base /\ Q >= 32 * Base /\ Uint64 = 4096 * Q /\ Uint32 = 64 * Base
        /\ Base \in Nat /\ Base >= 32
    BY UnitIs, Sizes DEF Uint64, Uint32
  <1>a. \A k, l \in Nat : Base * (k * Base + l + 1) = k * Q + l * Base + Base
    BY Sizes, Z3
  <1> HIDE DEF Q
  \* A sum of k units and less than k limbs carries no more than as many limbs.
  <1>b. ASSUME NEW n \in Nat, NEW k \in Nat, NEW l \in Nat, n <= k * Q + l * Base
        PROVE  High(n) \in Nat /\ High(n) <= k * Base + l
    <2>1. n < Base * ((k * Base + l) + 1)
      BY <1>0, <1>a, <1>b
    <2>2. k * Base + l \in Nat
      BY <1>0, TimesNat
    <2> QED BY <2>1, <2>2, UpperBound, Parts2
  <1>c. /\ Column(x, r, 0) \in Nat /\ Column(x, r, 1) \in Nat /\ Column(x, r, 2) \in Nat
        /\ Column(x, r, 3) \in Nat /\ Column(x, r, 4) \in Nat
        /\ Column(x, r, 0) <= 52 * Unit /\ Column(x, r, 1) <= 36 * Unit /\ Column(x, r, 2) <= 28 * Unit
        /\ Column(x, r, 3) <= 20 * Unit /\ Column(x, r, 4) <= 12 * Unit
    BY ColumnsBounded DEF Limbs
  <1>1. /\ Sum0(x, r) \in Nat /\ Sum0(x, r) <= 52 * Q
        /\ High(Sum0(x, r)) \in Nat /\ High(Sum0(x, r)) <= 52 * Base
    <2>1. Sum0(x, r) \in Nat /\ Sum0(x, r) <= 52 * Q + 0 * Base
      BY <1>0, <1>c DEF Sum0
    <2>2. High(Sum0(x, r)) \in Nat /\ High(Sum0(x, r)) <= 52 * Base + 0
      BY <2>1, <1>b
    <2> QED BY <2>1, <2>2, <1>0
  <1>2. /\ Sum1(x, r) \in Nat /\ Sum1(x, r) <= 37 * Q
        /\ High(Sum1(x, r)) \in Nat /\ High(Sum1(x, r)) <= 37 * Base
    <2>1. Sum1(x, r) \in Nat /\ Sum1(x, r) <= 36 * Q + 16 * Base
      BY <1>0, <1>c, <1>1 DEF Sum1
    <2>2. High(Sum1(x, r)) \in Nat /\ High(Sum1(x, r)) <= 36 * Base + 16
      BY <2>1, <1>b
    <2> QED BY <2>1, <2>2, <1>0
  <1>3. /\ Sum2(x, r) \in Nat /\ Sum2(x, r) <= 29 * Q
        /\ High(Sum2(x, r)) \in Nat /\ High(Sum2(x, r)) <= 29 * Base
    <2>1. Sum2(x, r) \in Nat /\ Sum2(x, r) <= 28 * Q + 9 * Base
      BY <1>0, <1>c, <1>2 DEF Sum2
    <2>2. High(Sum2(x, r)) \in Nat /\ High(Sum2(x, r)) <= 28 * Base + 9
      BY <2>1, <1>b
    <2> QED BY <2>1, <2>2, <1>0
  <1>4. /\ Sum3(x, r) \in Nat /\ Sum3(x, r) <= 21 * Q
        /\ High(Sum3(x, r)) \in Nat /\ High(Sum3(x, r)) <= 21 * Base
    <2>1. Sum3(x, r) \in Nat /\ Sum3(x, r) <= 20 * Q + 9 * Base
      BY <1>0, <1>c, <1>3 DEF Sum3
    <2>2. High(Sum3(x, r)) \in Nat /\ High(Sum3(x, r)) <= 20 * Base + 9
      BY <2>1, <1>b
    <2> QED BY <2>1, <2>2, <1>0
  <1>5. /\ Sum4(x, r) \in Nat /\ Sum4(x, r) <= 13 * Q
        /\ High(Sum4(x, r)) \in Nat /\ High(Sum4(x, r)) <= 12 * Base + 9
    <2>1. Sum4(x, r) \in Nat /\ Sum4(x, r) <= 12 * Q + 9 * Base
      BY <1>0, <1>c, <1>4 DEF Sum4
    <2>2. High(Sum4(x, r)) \in Nat /\ High(Sum4(x, r)) <= 12 * Base + 9
      BY <2>1, <1>b
    <2> QED BY <2>1, <2>2, <1>0
  <1>6. Wrapped(x, r) \in 0 .. Uint32 - 1
    <2>1. Low(Sum0(x, r)) \in 0 .. Base - 1
      BY <1>1, Parts2
    <2> QED BY <2>1, <1>0, <1>5 DEF Wrapped
  <1> QED BY <1>0, <1>1, <1>2, <1>3, <1>4, <1>5, <1>6

\* A block, cut into limbs
LEMMA CutIs ==
    ASSUME NEW m \in 0 .. Block - 1
    PROVE  /\ Cut(m) \in [Limbs -> Nat]
           /\ \A i \in Limbs : Cut(m)[i] <= Base - 1
           /\ Value(Cut(m)) = m + Block
  <1> DEFINE c1 == High(m)  c2 == High(c1)  c3 == High(c2)  c4 == High(c3)
             l0 == Low(m)   l1 == Low(c1)   l2 == Low(c2)   l3 == Low(c3)
  <1>1. Block \in Nat
    BY Sizes, HornerType DEF Block
  <1>2. m \in Nat /\ c1 \in Nat /\ c2 \in Nat /\ c3 \in Nat /\ c4 \in Nat
    <2>1. m \in Nat
      BY <1>1
    <2>2. c1 \in Nat
      BY <2>1, Parts2
    <2>3. c2 \in Nat
      BY <2>2, Parts2
    <2>4. c3 \in Nat
      BY <2>3, Parts2
    <2>5. c4 \in Nat
      BY <2>4, Parts2
    <2> QED BY <2>1, <2>2, <2>3, <2>4, <2>5
  <1>3. /\ l0 \in 0 .. Base - 1 /\ l1 \in 0 .. Base - 1 /\ l2 \in 0 .. Base - 1 /\ l3 \in 0 .. Base - 1
        /\ m = Base * c1 + l0 /\ c1 = Base * c2 + l1 /\ c2 = Base * c3 + l2 /\ c3 = Base * c4 + l3
    BY <1>2, Parts2
  <1> HIDE DEF c1, c2, c3, c4, l0, l1, l2, l3
  <1>4. m = Horner(l0, l1, l2, l3, c4)
    BY <1>2, <1>3, Sizes DEF Horner
  <1>5. c4 < Hibit
    <2> SUFFICES ASSUME c4 >= Hibit PROVE FALSE
      BY <1>2, Sizes
    <2>1. Horner(l0, l1, l2, l3, c4) = Horner(l0, l1, l2, l3, c4 - Hibit) + Horner(0, 0, 0, 0, Hibit)
      BY <1>2, <1>3, Sizes, Z3 DEF Horner
    <2>2. Horner(l0, l1, l2, l3, c4 - Hibit) \in Nat
      <3>1. l0 \in Nat /\ l1 \in Nat /\ l2 \in Nat /\ l3 \in Nat /\ c4 - Hibit \in Nat
        BY <1>2, <1>3, Sizes
      <3> QED BY <3>1, HornerType
    <2> QED BY <2>1, <2>2, <1>1, <1>4 DEF Block
  <1>6. Cut(m) = Five(l0, l1, l2, l3, c4 + Hibit)
    BY DEF Cut, l0, l1, l2, l3, c1, c2, c3, c4
  <1>7. Value(Cut(m)) = Horner(l0, l1, l2, l3, c4 + Hibit)
    BY <1>6 DEF Value, Five, Limbs
  <1>8. Horner(l0, l1, l2, l3, c4 + Hibit) = Horner(l0, l1, l2, l3, c4) + Horner(0, 0, 0, 0, Hibit)
    BY <1>2, <1>3, Sizes, Z3 DEF Horner
  <1> QED BY <1>2, <1>3, <1>4, <1>5, <1>6, <1>7, <1>8, Sizes DEF Five, Limbs, Block

\* The code computes with truncated integers what the sums above are without.
SumOf(x, m) == [i \in Limbs |-> x[i] + Cut(m)[i]]

\* The accumulator and a block together are within what the product is made for.
LEMMA SumsFit ==
    ASSUME NEW x, NEW m \in 0 .. Block - 1, Fits(x)
    PROVE  /\ Sums(SumOf(x, m))
           /\ \A i \in Limbs : SumOf(x, m)[i] \in 0 .. Uint32 - 1
           /\ Value(SumOf(x, m)) = Value(x) + (m + Block)
  <1>1. /\ Cut(m) \in [Limbs -> Nat] /\ \A i \in Limbs : Cut(m)[i] <= Base - 1
        /\ Value(Cut(m)) = m + Block
    BY CutIs
  <1>2. Sums(SumOf(x, m))
    BY <1>1, Sizes DEF Sums, SumOf, Fits
  <1>3. \A i \in Limbs : SumOf(x, m)[i] \in 0 .. Uint32 - 1
    BY <1>2, Sizes DEF Sums, Uint32
  <1>4. Value(SumOf(x, m)) = Value(x) + Value(Cut(m))
    <2>1. \A i \in {0, 1, 2, 3, 4} : x[i] \in Int /\ Cut(m)[i] \in Int /\ SumOf(x, m)[i] = x[i] + Cut(m)[i]
      BY <1>1 DEF SumOf, Fits, Limbs
    <2>2. Horner(x[0], x[1], x[2], x[3], x[4])
              + Horner(Cut(m)[0], Cut(m)[1], Cut(m)[2], Cut(m)[3], Cut(m)[4])
          = Horner(x[0] + Cut(m)[0], x[1] + Cut(m)[1], x[2] + Cut(m)[2], x[3] + Cut(m)[3],
                   x[4] + Cut(m)[4])
      <3>1. /\ x[0] \in Int /\ x[1] \in Int /\ x[2] \in Int /\ x[3] \in Int /\ x[4] \in Int
            /\ Cut(m)[0] \in Int /\ Cut(m)[1] \in Int /\ Cut(m)[2] \in Int /\ Cut(m)[3] \in Int
            /\ Cut(m)[4] \in Int
        BY <2>1
      <3> QED BY ONLY <3>1, Sizes, Z3 DEF Horner
    <2> QED BY <2>1, <2>2 DEF Value
  <1> QED BY <1>1, <1>2, <1>3, <1>4

\* The truncations to 32 and to 64 bits take nothing away.
LEMMA MixedIs ==
    ASSUME NEW x, NEW r, NEW m \in 0 .. Block - 1, Fits(x), Keys(r)
    PROVE  LET s == SumOf(x, m)
               w == Wrapped(s, r)
           IN  Mixed(x, r, m) = Five(Low(w), Low(Sum1(s, r)) + High(w), Low(Sum2(s, r)),
                                     Low(Sum3(s, r)), Low(Sum4(s, r)))
  <1> DEFINE s == SumOf(x, m)
             sum == [i \in Limbs |-> (x[i] + Cut(m)[i]) % Uint32]
  <1>1. Sums(s) /\ \A i \in Limbs : s[i] \in 0 .. Uint32 - 1
    BY SumsFit
  <1>2. Uint32 \in Nat /\ Uint64 \in Nat
    BY Sizes, UnitIs DEF Uint32, Uint64
  <1>3. sum = s
    <2>1. \A i \in Limbs : s[i] % Uint32 = s[i]
      BY <1>1, <1>2, ModSmall
    <2> QED BY <2>1 DEF SumOf
  <1> HIDE DEF s, sum
  <1>4. /\ Sum0(s, r) % Uint64 = Sum0(s, r) /\ High(Sum0(s, r)) % Uint32 = High(Sum0(s, r))
        /\ Sum1(s, r) % Uint64 = Sum1(s, r) /\ High(Sum1(s, r)) % Uint32 = High(Sum1(s, r))
        /\ Sum2(s, r) % Uint64 = Sum2(s, r) /\ High(Sum2(s, r)) % Uint32 = High(Sum2(s, r))
        /\ Sum3(s, r) % Uint64 = Sum3(s, r) /\ High(Sum3(s, r)) % Uint32 = High(Sum3(s, r))
        /\ Sum4(s, r) % Uint64 = Sum4(s, r) /\ High(Sum4(s, r)) % Uint32 = High(Sum4(s, r))
        /\ Wrapped(s, r) % Uint32 = Wrapped(s, r)
    <2>1. \A n \in Nat : (n < Uint64 => n % Uint64 = n) /\ (n \in 0 .. Uint32 - 1 => n % Uint32 = n)
      BY <1>2, ModSmall
    <2>2. 0 .. Uint32 - 1 \subseteq Nat
      BY <1>2
    <2>3. /\ Sum0(s, r) \in Nat /\ Sum0(s, r) < Uint64 /\ High(Sum0(s, r)) \in 0 .. Uint32 - 1
          /\ Sum1(s, r) \in Nat /\ Sum1(s, r) < Uint64 /\ High(Sum1(s, r)) \in 0 .. Uint32 - 1
          /\ Sum2(s, r) \in Nat /\ Sum2(s, r) < Uint64 /\ High(Sum2(s, r)) \in 0 .. Uint32 - 1
          /\ Sum3(s, r) \in Nat /\ Sum3(s, r) < Uint64 /\ High(Sum3(s, r)) \in 0 .. Uint32 - 1
          /\ Sum4(s, r) \in Nat /\ Sum4(s, r) < Uint64 /\ High(Sum4(s, r)) \in 0 .. Uint32 - 1
          /\ Wrapped(s, r) \in 0 .. Uint32 - 1
      BY <1>1, SumsBounded
    <2> QED BY <2>1, <2>2, <2>3
  \* Every column by itself has room as well.
  <1>5. /\ Product(s, r, 0) = Sum0(s, r)
        /\ (Product(s, r, 1) + High(Sum0(s, r))) % Uint64 = Sum1(s, r)
        /\ (Product(s, r, 2) + High(Sum1(s, r))) % Uint64 = Sum2(s, r)
        /\ (Product(s, r, 3) + High(Sum2(s, r))) % Uint64 = Sum3(s, r)
        /\ (Product(s, r, 4) + High(Sum3(s, r))) % Uint64 = Sum4(s, r)
    <2>1. \A i \in Limbs : Column(s, r, i) \in Nat
      BY <1>1, ColumnsBounded
    <2>2. /\ Column(s, r, 1) < Uint64 /\ Column(s, r, 2) < Uint64
          /\ Column(s, r, 3) < Uint64 /\ Column(s, r, 4) < Uint64
      BY <1>1, <1>2, <2>1, SumsBounded DEF Sum1, Sum2, Sum3, Sum4, Limbs
    <2>3. /\ Product(s, r, 1) = Column(s, r, 1) /\ Product(s, r, 2) = Column(s, r, 2)
          /\ Product(s, r, 3) = Column(s, r, 3) /\ Product(s, r, 4) = Column(s, r, 4)
      BY <1>2, <2>1, <2>2, ModSmall DEF Product, Limbs
    <2>4. Product(s, r, 0) = Sum0(s, r)
      BY <1>4 DEF Product, Sum0
    <2> QED BY <1>4, <2>3, <2>4 DEF Sum1, Sum2, Sum3, Sum4
  <1>6. Mixed(x, r, m) = Five(Low(Wrapped(s, r)), Low(Sum1(s, r)) + High(Wrapped(s, r)),
                              Low(Sum2(s, r)), Low(Sum3(s, r)), Low(Sum4(s, r)))
    <2>1. Mixed(x, r, m) =
            LET Carry(d) == High(d) % Uint32
                d0 == Product(sum, r, 0)
                d1 == (Product(sum, r, 1) + Carry(d0)) % Uint64
                d2 == (Product(sum, r, 2) + Carry(d1)) % Uint64
                d3 == (Product(sum, r, 3) + Carry(d2)) % Uint64
                d4 == (Product(sum, r, 4) + Carry(d3)) % Uint64
                h0 == (Low(d0) + 5 * Carry(d4)) % Uint32
            IN  Five(Low(h0), Low(d1) + High(h0), Low(d2), Low(d3), Low(d4))
      BY DEF Mixed, sum
    <2>2. (Low(Sum0(s, r)) + 5 * High(Sum4(s, r))) % Uint32 = Wrapped(s, r)
      BY <1>4 DEF Wrapped
    <2> QED BY <2>1, <2>2, <1>3, <1>4, <1>5
  <1> QED BY <1>6 DEF s

-----------------------------------------------------------------------------
(* Congruence modulo the prime. *)

Cong(a, b) == \E k \in Int : a = b + Prime * k

\* The modulus is a natural number, and not a small one.
LEMMA PrimeIs == Prime \in Nat /\ Prime >= 27
  <1>1. Base * Base \in Nat /\ Base * Base >= 32
    BY UnitIs, Sizes
  <1>2. Base * (Base * Base) \in Nat /\ 32 * 1 <= Base * (Base * Base)
    BY <1>1, Sizes, TimesBound
  <1>3. Base * (Base * (Base * Base)) \in Nat /\ 32 * 1 <= Base * (Base * (Base * Base))
    BY <1>2, Sizes, TimesBound
  <1>4. /\ Base * (Base * (Base * (Base * Base))) \in Nat
        /\ 32 * 1 <= Base * (Base * (Base * (Base * Base)))
    BY <1>3, Sizes, TimesBound
  <1> QED BY <1>4 DEF Prime

\* Congruence is transitive,
LEMMA CongTrans ==
    ASSUME NEW a \in Int, NEW b \in Int, NEW c \in Int, Cong(a, b), Cong(b, c)
    PROVE  Cong(a, c)
  <1>1. PICK k \in Int : a = b + Prime * k
    BY DEF Cong
  <1>2. PICK l \in Int : b = c + Prime * l
    BY DEF Cong
  <1>3. a = c + Prime * (l + k)
    BY <1>1, <1>2, PrimeIs, Z3
  <1> QED BY <1>3 DEF Cong

\* and symmetric,
LEMMA CongSymmetric ==
    ASSUME NEW a \in Int, NEW b \in Int, Cong(a, b)
    PROVE  Cong(b, a)
  <1>1. PICK k \in Int : a = b + Prime * k
    BY DEF Cong
  <1>2. b = a + Prime * (-k)
    BY <1>1, PrimeIs, Z3
  <1> QED BY <1>2 DEF Cong

\* and kept by a sum
LEMMA CongPlus ==
    ASSUME NEW a \in Int, NEW b \in Int, NEW c \in Int, Cong(a, b)
    PROVE  Cong(a + c, b + c)
  <1>1. PICK k \in Int : a = b + Prime * k
    BY DEF Cong
  <1>2. a + c = (b + c) + Prime * k
    BY <1>1, PrimeIs, Z3
  <1> QED BY <1>2 DEF Cong

\* and by a product.
LEMMA CongTimes ==
    ASSUME NEW a \in Int, NEW b \in Int, NEW c \in Int, Cong(a, b)
    PROVE  Cong(a * c, b * c)
  <1>1. PICK k \in Int : a = b + Prime * k
    BY DEF Cong
  <1>2. a * c = b * c + Prime * (k * c) /\ k * c \in Int
    BY <1>1, PrimeIs, Z3
  <1> QED BY <1>2 DEF Cong

\* A remainder is congruent to what it is left of, and the only one there is.
LEMMA CongMod ==
    ASSUME NEW a \in Nat
    PROVE  Cong(a % Prime, a) /\ a % Prime \in 0 .. Prime - 1
  <1>1. \A p \in Nat : p > 0 =>
            a \div p \in Nat /\ a % p \in 0 .. p - 1 /\ a = p * (a \div p) + (a % p)
    BY Z3
  <1>2. /\ a \div Prime \in Nat /\ a % Prime \in 0 .. Prime - 1
        /\ a = Prime * (a \div Prime) + (a % Prime)
    BY <1>1, PrimeIs
  <1>3. a % Prime = a + Prime * (-(a \div Prime))
    BY <1>2, PrimeIs, Z3
  <1> QED BY <1>2, <1>3 DEF Cong

\* Two residues that are congruent are equal.
LEMMA ResidueUnique ==
    ASSUME NEW a \in 0 .. Prime - 1, NEW b \in 0 .. Prime - 1, Cong(a, b)
    PROVE  a = b
  <1>1. PICK k \in Int : a = b + Prime * k
    BY DEF Cong
  <1>2. CASE k = 0
    BY <1>1, <1>2, PrimeIs
  <1>3. CASE k >= 1
    <2>1. 1 * Prime <= k * Prime /\ k * Prime \in Nat
      BY <1>3, PrimeIs, TimesMonotone, TimesNat
    <2>2. k * Prime = Prime * k
      BY PrimeIs, Z3
    <2> QED BY <1>1, <2>1, <2>2, PrimeIs
  <1>4. CASE k <= -1
    <2>1. 1 * Prime <= (-k) * Prime /\ (-k) * Prime \in Nat
      BY <1>4, PrimeIs, TimesMonotone, TimesNat
    <2>2. (-k) * Prime = -(Prime * k)
      BY PrimeIs, Z3
    <2> QED BY <1>1, <2>1, <2>2, PrimeIs
  <1> QED BY <1>2, <1>3, <1>4

\* The remainder is the residue that a number is congruent to.
LEMMA CongResidue ==
    ASSUME NEW a \in Nat, NEW b \in 0 .. Prime - 1, Cong(a, b)
    PROVE  a % Prime = b
  <1>1. Cong(a % Prime, a) /\ a % Prime \in 0 .. Prime - 1
    BY CongMod
  <1>2. Cong(a % Prime, b)
    BY <1>1, PrimeIs, CongTrans
  <1> QED BY <1>1, <1>2, ResidueUnique

-----------------------------------------------------------------------------
(* What a block does to the accumulator. *)

\* The columns stand for the product: what wraps round differs by multiples of the prime.
LEMMA ProductCong ==
    ASSUME NEW x \in [Limbs -> Nat], NEW r \in [Limbs -> Nat]
    PROVE  Cong(Value(x) * Value(r),
                Horner(Column(x, r, 0), Column(x, r, 1), Column(x, r, 2), Column(x, r, 3), Column(x, r, 4)))
  <1>1. PICK a \in Int, b \in Int, c \in Int, d \in Int, e \in Int :
            x[0] = a /\ x[1] = b /\ x[2] = c /\ x[3] = d /\ x[4] = e
    <2>1. x[0] \in Int /\ x[1] \in Int /\ x[2] \in Int /\ x[3] \in Int /\ x[4] \in Int
      BY DEF Limbs
    <2> QED BY <2>1, Zenon
  <1>2. PICK f \in Int, g \in Int, i \in Int, j \in Int, k \in Int :
            r[0] = f /\ r[1] = g /\ r[2] = i /\ r[3] = j /\ r[4] = k
    <2>1. r[0] \in Int /\ r[1] \in Int /\ r[2] \in Int /\ r[3] \in Int /\ r[4] \in Int
      BY DEF Limbs
    <2> QED BY <2>1, Zenon
  <1> DEFINE wraps == Horner(b * k + c * j + d * i + e * g, c * k + d * j + e * i,
                             d * k + e * j, e * k, 0)
  <1>3. /\ wraps \in Int
        /\ Horner(a, b, c, d, e) * Horner(f, g, i, j, k)
             = Horner(a * f + b * (5 * k) + c * (5 * j) + d * (5 * i) + e * (5 * g),
                      a * g + b * f + c * (5 * k) + d * (5 * j) + e * (5 * i),
                      a * i + b * g + c * f + d * (5 * k) + e * (5 * j),
                      a * j + b * i + c * g + d * f + e * (5 * k),
                      a * k + b * j + c * i + d * g + e * f)
               + Prime * wraps
    BY Sizes, Z3 DEF Horner, Prime
  <1> HIDE DEF wraps
  <1>4. Value(x) * Value(r) = Horner(a, b, c, d, e) * Horner(f, g, i, j, k)
    BY <1>1, <1>2 DEF Value
  <1>5. Value(x) * Value(r)
          = Horner(Column(x, r, 0), Column(x, r, 1), Column(x, r, 2), Column(x, r, 3), Column(x, r, 4))
            + Prime * wraps
    BY <1>1, <1>2, <1>3, <1>4, Columns
  <1> QED BY <1>3, <1>5 DEF Cong

\* A block leaves an accumulator that has room for the next, and that is congruent to the
\* accumulator plus the block, times the key.
LEMMA MixedCong ==
    ASSUME NEW x, NEW r, NEW m \in 0 .. Block - 1, Fits(x), Keys(r)
    PROVE  /\ Fits(Mixed(x, r, m))
           /\ Cong(Value(Mixed(x, r, m)), (Value(x) + (m + Block)) * Value(r))
  <1> DEFINE s  == SumOf(x, m)
             w  == Wrapped(s, r)
             c0 == High(Sum0(s, r))  c1 == High(Sum1(s, r))  c2 == High(Sum2(s, r))
             c3 == High(Sum3(s, r))  c4 == High(Sum4(s, r))  cw == High(w)
             l0 == Low(Sum0(s, r))   l1 == Low(Sum1(s, r))   l2 == Low(Sum2(s, r))
             l3 == Low(Sum3(s, r))   l4 == Low(Sum4(s, r))   lw == Low(w)
  <1>1. Mixed(x, r, m) = Five(lw, l1 + cw, l2, l3, l4)
    BY MixedIs
  <1>2. Sums(s) /\ Value(s) = Value(x) + (m + Block)
    BY SumsFit
  <1>3. /\ c0 \in Nat /\ c1 \in Nat /\ c2 \in Nat /\ c3 \in Nat /\ c4 \in Nat /\ cw \in Nat
        /\ l0 \in 0 .. Base - 1 /\ l1 \in 0 .. Base - 1 /\ l2 \in 0 .. Base - 1
        /\ l3 \in 0 .. Base - 1 /\ l4 \in 0 .. Base - 1 /\ lw \in 0 .. Base - 1
        /\ Sum0(s, r) = Base * c0 + l0 /\ Sum1(s, r) = Base * c1 + l1 /\ Sum2(s, r) = Base * c2 + l2
        /\ Sum3(s, r) = Base * c3 + l3 /\ Sum4(s, r) = Base * c4 + l4 /\ w = Base * cw + lw
        /\ w \in 0 .. Uint32 - 1
    <2>1. /\ Sum0(s, r) \in Nat /\ Sum1(s, r) \in Nat /\ Sum2(s, r) \in Nat /\ Sum3(s, r) \in Nat
          /\ Sum4(s, r) \in Nat /\ w \in 0 .. Uint32 - 1
      BY <1>2, SumsBounded
    <2>2. w \in Nat
      BY <2>1, Sizes DEF Uint32
    <2> HIDE DEF s, w
    <2> QED BY <2>1, <2>2, Parts2
  <1>4. cw <= 63
    <2>1. w < Base * (63 + 1) /\ w \in Nat
      BY <1>3, Sizes DEF Uint32
    <2> QED BY <2>1, UpperBound
  <1>5. Fits(Mixed(x, r, m))
    <2> HIDE DEF s, w, c0, c1, c2, c3, c4, cw, l0, l1, l2, l3, l4, lw
    <2>1. \A i \in Limbs : Mixed(x, r, m)[i] \in Nat
                           /\ Mixed(x, r, m)[i] < (IF i = 1 THEN Base + 64 ELSE Base)
      BY <1>1, <1>3, <1>4, Sizes DEF Five, Limbs
    <2>2. Mixed(x, r, m) = [i \in Limbs |-> Mixed(x, r, m)[i]]
      BY <1>1 DEF Five
    <2> QED BY <2>1, <2>2 DEF Fits
  <1>6. /\ Column(s, r, 0) = Base * c0 + l0
        /\ Column(s, r, 1) = Base * c1 + l1 - c0
        /\ Column(s, r, 2) = Base * c2 + l2 - c1
        /\ Column(s, r, 3) = Base * c3 + l3 - c2
        /\ Column(s, r, 4) = Base * c4 + l4 - c3
    <2>1. \A i \in Limbs : Column(s, r, i) \in Nat
      BY <1>2, ColumnsBounded
    <2>2. /\ Sum0(s, r) = Column(s, r, 0) /\ Sum1(s, r) = Column(s, r, 1) + c0
          /\ Sum2(s, r) = Column(s, r, 2) + c1 /\ Sum3(s, r) = Column(s, r, 3) + c2
          /\ Sum4(s, r) = Column(s, r, 4) + c3
      BY DEF Sum0, Sum1, Sum2, Sum3, Sum4
    <2>3. /\ Column(s, r, 0) \in Nat /\ Column(s, r, 1) \in Nat /\ Column(s, r, 2) \in Nat
          /\ Column(s, r, 3) \in Nat /\ Column(s, r, 4) \in Nat
      BY <2>1 DEF Limbs
    <2> HIDE DEF s, w, c0, c1, c2, c3, c4, cw, l0, l1, l2, l3, l4, lw
    <2>4. \A n \in Int : Base * n \in Int
      BY Sizes
    <2> QED BY <1>3, <2>2, <2>3, <2>4
  <1>7. w = l0 + 5 * c4
    BY DEF Wrapped
  <1> HIDE DEF w, c0, c1, c2, c3, c4, cw, l0, l1, l2, l3, l4, lw
  <1>8. Value(Mixed(x, r, m)) = Horner(lw, l1 + cw, l2, l3, l4)
    BY <1>1 DEF Value, Five, Limbs
  <1>9. Horner(lw, l1 + cw, l2, l3, l4) = Horner(w, l1, l2, l3, l4)
    BY ONLY <1>3, Sizes, Z3 DEF Horner
  <1>10. Horner(Base * c0 + l0, Base * c1 + l1 - c0, Base * c2 + l2 - c1, Base * c3 + l3 - c2,
                Base * c4 + l4 - c3)
           = Horner(l0 + 5 * c4, l1, l2, l3, l4) + Prime * c4
    BY ONLY <1>3, Sizes, Z3 DEF Horner, Prime
  <1>11. Cong(Value(s) * Value(r),
              Horner(Column(s, r, 0), Column(s, r, 1), Column(s, r, 2), Column(s, r, 3), Column(s, r, 4)))
    <2>1. s \in [Limbs -> Nat] /\ r \in [Limbs -> Nat]
      BY <1>2, Sizes DEF Sums, Keys
    <2> QED BY <2>1, ProductCong
  <1>12. Cong(Value(s) * Value(r), Horner(w, l1, l2, l3, l4) + Prime * c4)
    BY <1>6, <1>7, <1>10, <1>11
  <1>13. /\ Horner(w, l1, l2, l3, l4) \in Int /\ Prime * c4 \in Int
         /\ Value(s) * Value(r) \in Int
    <2>1. l1 \in Nat /\ l2 \in Nat /\ l3 \in Nat /\ l4 \in Nat /\ w \in Nat /\ c4 \in Nat
      BY <1>3, Sizes DEF Uint32
    <2>2. Prime * c4 \in Nat
      BY <2>1, PrimeIs, TimesNat
    <2>3. s[0] \in Nat /\ s[1] \in Nat /\ s[2] \in Nat /\ s[3] \in Nat /\ s[4] \in Nat
      BY <1>2 DEF Sums, Limbs
    <2>4. r[0] \in Nat /\ r[1] \in Nat /\ r[2] \in Nat /\ r[3] \in Nat /\ r[4] \in Nat
      BY Sizes DEF Keys, Limbs
    <2>5. Value(s) \in Nat /\ Value(r) \in Nat
      BY <2>3, <2>4, HornerType DEF Value
    <2>6. Value(s) * Value(r) \in Nat
      BY <2>5, TimesNat
    <2> QED BY <2>1, <2>2, <2>6, HornerType, SMTT(30)
  <1>14. Cong(Value(s) * Value(r), Horner(w, l1, l2, l3, l4))
    <2>1. PICK k \in Int : Value(s) * Value(r) = (Horner(w, l1, l2, l3, l4) + Prime * c4) + Prime * k
      BY <1>12 DEF Cong
    <2>2. Prime * c4 + Prime * k = Prime * (c4 + k) /\ Prime * k \in Int
      BY ONLY <1>3, PrimeIs, Z3
    <2>3. Value(s) * Value(r) = Horner(w, l1, l2, l3, l4) + Prime * (c4 + k)
      BY <1>13, <2>1, <2>2
    <2> QED BY <2>3, <1>3 DEF Cong
  <1>15. Cong(Horner(w, l1, l2, l3, l4), Value(s) * Value(r))
    BY <1>13, <1>14, CongSymmetric
  <1> QED BY <1>2, <1>5, <1>8, <1>9, <1>15

-----------------------------------------------------------------------------
(* The polynomial, a limb of the key at a time. *)

\* One step of the product by limbs of the key
LEMMA NextCong ==
    ASSUME NEW n \in Nat, NEW a \in Nat, NEW v \in Nat, NEW l \in Nat, Cong(a, n * v)
    PROVE  LET b == (a * Base + n * l) % Prime
           IN  b \in 0 .. Prime - 1 /\ Cong(b, n * (l + Base * v))
  <1> DEFINE b == (a * Base + n * l) % Prime
  <1>1. a * Base + n * l \in Nat /\ n * v \in Nat /\ Base * v \in Nat /\ n * (l + Base * v) \in Nat
    BY Sizes, TimesNat
  <1>2. b \in 0 .. Prime - 1 /\ Cong(b, a * Base + n * l)
    BY <1>1, CongMod
  <1>3. Cong(a * Base, (n * v) * Base) /\ a * Base \in Nat /\ (n * v) * Base \in Nat /\ n * l \in Nat
    <2>1. a * Base \in Nat /\ (n * v) * Base \in Nat /\ n * l \in Nat
      BY <1>1, Sizes, TimesNat
    <2>2. Base \in Int /\ a \in Int /\ n * v \in Int
      BY <1>1, Sizes
    <2>3. Cong(a * Base, (n * v) * Base)
      BY <2>2, CongTimes, Zenon
    <2> QED BY <2>1, <2>3
  <1>4. Cong(a * Base + n * l, (n * v) * Base + n * l)
    BY <1>3, CongPlus
  <1>5. (n * v) * Base + n * l = n * (l + Base * v)
    BY Sizes, Z3
  <1>6. Cong(b, n * (l + Base * v))
    BY <1>1, <1>2, <1>4, <1>5, PrimeIs, CongTrans
  <1> QED BY <1>2, <1>6

\* The reference product, taken a limb of the key at a time, is the product.
LEMMA TimesExactlyCong ==
    ASSUME NEW n \in Nat, NEW r, Keys(r)
    PROVE  TimesExactly(n, r) \in 0 .. Prime - 1 /\ Cong(TimesExactly(n, r), n * Value(r))
  <1> DEFINE next(a, i) == (a * Base + n * r[i]) % Prime
             a4 == next(0, 4)  a3 == next(a4, 3)  a2 == next(a3, 2)  a1 == next(a2, 1)  a0 == next(a1, 0)
             v3 == r[3] + Base * r[4]  v2 == r[2] + Base * v3  v1 == r[1] + Base * v2
  <1>1. r[0] \in Nat /\ r[1] \in Nat /\ r[2] \in Nat /\ r[3] \in Nat /\ r[4] \in Nat
    BY Sizes DEF Keys, Limbs
  <1>2. v3 \in Nat /\ v2 \in Nat /\ v1 \in Nat
    <2>1. v3 \in Nat
      BY <1>1, Sizes, TimesNat
    <2>2. v2 \in Nat
      BY <1>1, <2>1, Sizes, TimesNat
    <2>3. v1 \in Nat
      BY <1>1, <2>2, Sizes, TimesNat
    <2> QED BY <2>1, <2>2, <2>3
  <1>3. 0 .. Prime - 1 \subseteq Nat
    BY PrimeIs
  <1>4. a4 \in 0 .. Prime - 1 /\ Cong(a4, n * r[4])
    <2>1. 0 * Base + n * r[4] = n * r[4] /\ n * r[4] \in Nat
      BY <1>1, Sizes, TimesNat
    <2> QED BY <2>1, CongMod
  <1> HIDE DEF a4
  <1>5. a3 \in 0 .. Prime - 1 /\ Cong(a3, n * v3)
    BY <1>1, <1>3, <1>4, NextCong
  <1> HIDE DEF a3, v3
  <1>6. a2 \in 0 .. Prime - 1 /\ Cong(a2, n * v2)
    BY <1>1, <1>2, <1>3, <1>5, NextCong
  <1> HIDE DEF a2, v2
  <1>7. a1 \in 0 .. Prime - 1 /\ Cong(a1, n * v1)
    BY <1>1, <1>2, <1>3, <1>6, NextCong
  <1> HIDE DEF a1, v1
  <1>8. a0 \in 0 .. Prime - 1 /\ Cong(a0, n * (r[0] + Base * v1))
    BY <1>1, <1>2, <1>3, <1>7, NextCong
  <1>9. Value(r) = r[0] + Base * v1
    BY DEF Value, Horner, v1, v2, v3
  <1>10. TimesExactly(n, r) = a0
    BY DEF TimesExactly, a1, a2, a3, a4
  <1> QED BY <1>8, <1>9, <1>10

-----------------------------------------------------------------------------
(* The final reduction. *)

\* Limbs that do not overlap stay below the power of two above the prime.
LEMMA HornerBound ==
    ASSUME NEW a \in 0 .. Base - 1, NEW b \in 0 .. Base - 1, NEW c \in 0 .. Base - 1,
           NEW d \in 0 .. Base - 1, NEW e \in 0 .. Base - 1
    PROVE  Horner(a, b, c, d, e) \in 0 .. Prime + 4
  <1>1. /\ a \in Nat /\ b \in Nat /\ c \in Nat /\ d \in Nat /\ e \in Nat
        /\ Base - 1 - a \in Nat /\ Base - 1 - b \in Nat /\ Base - 1 - c \in Nat
        /\ Base - 1 - d \in Nat /\ Base - 1 - e \in Nat
    BY Sizes
  <1>2. Horner(a, b, c, d, e) \in Nat
    BY <1>1, HornerType
  <1>3. Horner(Base - 1 - a, Base - 1 - b, Base - 1 - c, Base - 1 - d, Base - 1 - e) \in Nat
    BY <1>1, HornerType
  <1>4. Horner(a, b, c, d, e)
          + Horner(Base - 1 - a, Base - 1 - b, Base - 1 - c, Base - 1 - d, Base - 1 - e)
        = Prime + 4
    BY ONLY <1>1, Sizes, Z3 DEF Horner, Prime
  <1> QED BY <1>2, <1>3, <1>4, PrimeIs

\* A carry into a limb that is not over its size is at most one, and if there is one out
\* of it there was one into it.
LEMMA CarryIn ==
    ASSUME NEW n \in 0 .. Base - 1, NEW c \in {0, 1}
    PROVE  /\ High(n + c) \in {0, 1} /\ Low(n + c) \in 0 .. Base - 1
           /\ n + c = Base * High(n + c) + Low(n + c)
           /\ High(n + c) = 1 => c = 1
  <1>1. n + c \in Nat /\ n + c < Base * (1 + 1)
    BY Sizes
  <1>2. High(n + c) \in Nat /\ Low(n + c) \in 0 .. Base - 1 /\ n + c = Base * High(n + c) + Low(n + c)
    BY <1>1, Parts2
  <1>3. High(n + c) \in {0, 1}
    BY <1>1, <1>2, UpperBound
  <1> QED BY <1>2, <1>3, Sizes

\* After the full chain no limb is over its size, and the residue is the same.
LEMMA CarriedIs ==
    ASSUME NEW x, Fits(x), Base >= 128
    PROVE  /\ Carried(x) \in [Limbs -> 0 .. Base - 1]
           /\ Cong(Value(x), Value(Carried(x)))
  <1>1. /\ x[0] \in 0 .. Base - 1 /\ x[1] \in Nat /\ x[1] < Base + 64 /\ x[2] \in 0 .. Base - 1
        /\ x[3] \in 0 .. Base - 1 /\ x[4] \in 0 .. Base - 1
    BY Sizes DEF Fits, Limbs
  <1>2. PICK n0 \in Int, n1 \in Int, n2 \in Int, n3 \in Int, n4 \in Int :
            n0 = x[0] /\ n1 = x[1] /\ n2 = x[2] /\ n3 = x[3] /\ n4 = x[4]
    <2>1. x[0] \in Int /\ x[1] \in Int /\ x[2] \in Int /\ x[3] \in Int /\ x[4] \in Int
      BY <1>1
    <2> QED BY <2>1, Zenon
  <1> DEFINE c1 == High(n1)            l1 == Low(n1)
             c2 == High(n2 + c1)       l2 == Low(n2 + c1)
             c3 == High(n3 + c2)       l3 == Low(n3 + c2)
             c4 == High(n4 + c3)       l4 == Low(n4 + c3)
             c0 == High(n0 + 5 * c4)   l0 == Low(n0 + 5 * c4)
  <1>3. c1 \in {0, 1} /\ l1 \in 0 .. Base - 1 /\ n1 = Base * c1 + l1
    <2>1. n1 \in Nat /\ n1 < Base * (1 + 1)
      BY <1>1, <1>2, Sizes
    <2>2. c1 \in Nat /\ l1 \in 0 .. Base - 1 /\ n1 = Base * c1 + l1 /\ c1 <= 1
      BY <2>1, UpperBound, Parts2
    <2> QED BY <2>2
  <1> HIDE DEF c1, l1
  <1>4. c2 \in {0, 1} /\ l2 \in 0 .. Base - 1 /\ n2 + c1 = Base * c2 + l2 /\ (c2 = 1 => c1 = 1)
    BY <1>1, <1>2, <1>3, CarryIn
  <1> HIDE DEF c2, l2
  <1>5. c3 \in {0, 1} /\ l3 \in 0 .. Base - 1 /\ n3 + c2 = Base * c3 + l3 /\ (c3 = 1 => c2 = 1)
    BY <1>1, <1>2, <1>4, CarryIn
  <1> HIDE DEF c3, l3
  <1>6. c4 \in {0, 1} /\ l4 \in 0 .. Base - 1 /\ n4 + c3 = Base * c4 + l4 /\ (c4 = 1 => c3 = 1)
    BY <1>1, <1>2, <1>5, CarryIn
  <1> HIDE DEF c4, l4
  <1>7. c0 \in {0, 1} /\ l0 \in 0 .. Base - 1 /\ n0 + 5 * c4 = Base * c0 + l0 /\ (c0 = 1 => c4 = 1)
    <2>1. n0 + 5 * c4 \in Nat /\ n0 + 5 * c4 < Base * (1 + 1) /\ n0 < Base
      BY <1>1, <1>2, <1>6, Sizes
    <2>2. c0 \in Nat /\ l0 \in 0 .. Base - 1 /\ n0 + 5 * c4 = Base * c0 + l0 /\ c0 <= 1
      BY <2>1, UpperBound, Parts2
    <2> HIDE DEF c0, l0
    <2> QED BY <1>1, <1>2, <1>6, <2>1, <2>2, Sizes
  <1> HIDE DEF c0, l0
  \* If a carry comes round, the second limb was over its size and has room for it.
  <1>8. l1 + c0 \in 0 .. Base - 1
    BY <1>1, <1>2, <1>3, <1>4, <1>5, <1>6, <1>7, Sizes
  <1>9. Carried(x) = Five(l0, l1 + c0, l2, l3, l4)
    BY <1>2 DEF Carried, c0, c1, c2, c3, c4, l0, l1, l2, l3, l4
  <1>10. Carried(x) \in [Limbs -> 0 .. Base - 1]
    BY <1>3, <1>4, <1>5, <1>6, <1>7, <1>8, <1>9 DEF Five, Limbs
  <1>11. Horner(n0, n1, n2, n3, n4) = Horner(l0, l1 + c0, l2, l3, l4) + Prime * c4
    <2>1. /\ n0 = Base * c0 + l0 - 5 * c4 /\ n1 = Base * c1 + l1 /\ n2 = Base * c2 + l2 - c1
          /\ n3 = Base * c3 + l3 - c2 /\ n4 = Base * c4 + l4 - c3
      <3>1. /\ Base * c0 \in Int /\ Base * c1 \in Int /\ Base * c2 \in Int /\ Base * c3 \in Int
            /\ Base * c4 \in Int
        BY <1>3, <1>4, <1>5, <1>6, <1>7, Sizes
      <3>2. /\ n1 = Base * c1 + l1 /\ n2 + c1 = Base * c2 + l2 /\ n3 + c2 = Base * c3 + l3
            /\ n4 + c3 = Base * c4 + l4 /\ n0 + 5 * c4 = Base * c0 + l0
            /\ l0 \in Int /\ l1 \in Int /\ l2 \in Int /\ l3 \in Int /\ l4 \in Int
            /\ c0 \in Int /\ c1 \in Int /\ c2 \in Int /\ c3 \in Int /\ c4 \in Int
        BY <1>3, <1>4, <1>5, <1>6, <1>7
      <3> QED BY ONLY <3>1, <3>2
    <2>2. /\ l0 \in Int /\ l1 \in Int /\ l2 \in Int /\ l3 \in Int /\ l4 \in Int
          /\ c0 \in Int /\ c1 \in Int /\ c2 \in Int /\ c3 \in Int /\ c4 \in Int
      BY <1>3, <1>4, <1>5, <1>6, <1>7
    <2> QED BY ONLY <2>1, <2>2, Sizes, Z3 DEF Horner, Prime
  <1>12. Value(x) = Horner(n0, n1, n2, n3, n4) /\ Value(Carried(x)) = Horner(l0, l1 + c0, l2, l3, l4)
    BY <1>2, <1>9 DEF Value, Five, Limbs
  <1>13. c4 \in Int
    BY <1>6
  <1> QED BY <1>10, <1>11, <1>12, <1>13 DEF Cong

\* Of a number in limbs of their size, the selection yields the residue.
LEMMA ReducedIs ==
    ASSUME NEW y \in [Limbs -> 0 .. Base - 1]
    PROVE  /\ Reduced(y) \in [Limbs -> 0 .. Base - 1]
           /\ Value(Reduced(y)) \in 0 .. Prime - 1
           /\ Cong(Value(y), Value(Reduced(y)))
  <1>1. /\ y[0] \in 0 .. Base - 1 /\ y[1] \in 0 .. Base - 1 /\ y[2] \in 0 .. Base - 1
        /\ y[3] \in 0 .. Base - 1 /\ y[4] \in 0 .. Base - 1
    BY DEF Limbs
  <1> DEFINE n0 == y[0]  n1 == y[1]  n2 == y[2]  n3 == y[3]  n4 == y[4]
             c0 == High(n0 + 5)   l0 == Low(n0 + 5)
             c1 == High(n1 + c0)  l1 == Low(n1 + c0)
             c2 == High(n2 + c1)  l2 == Low(n2 + c1)
             c3 == High(n3 + c2)  l3 == Low(n3 + c2)
             t  == n4 + c3
             g4 == (t - Base + Uint32) % Uint32
  <1>2. /\ n0 \in 0 .. Base - 1 /\ n1 \in 0 .. Base - 1 /\ n2 \in 0 .. Base - 1
        /\ n3 \in 0 .. Base - 1 /\ n4 \in 0 .. Base - 1
    BY <1>1
  <1>3. Reduced(y) = IF g4 >= Uint32 \div 2 THEN y ELSE Five(l0, l1, l2, l3, g4)
    BY DEF Reduced
  <1>4. Value(y) = Horner(n0, n1, n2, n3, n4) /\ Horner(n0, n1, n2, n3, n4) \in 0 .. Prime + 4
    BY <1>1, HornerBound DEF Value
  <1> HIDE DEF n0, n1, n2, n3, n4
  <1>5. c0 \in {0, 1} /\ l0 \in 0 .. Base - 1 /\ n0 + 5 = Base * c0 + l0
    <2>1. n0 + 5 \in Nat /\ n0 + 5 < Base * (1 + 1)
      BY <1>2, Sizes
    <2>2. c0 \in Nat /\ l0 \in 0 .. Base - 1 /\ n0 + 5 = Base * c0 + l0 /\ c0 <= 1
      BY <2>1, UpperBound, Parts2
    <2> QED BY <2>2
  <1> HIDE DEF c0, l0
  <1>6. c1 \in {0, 1} /\ l1 \in 0 .. Base - 1 /\ n1 + c0 = Base * c1 + l1
    BY <1>2, <1>5, CarryIn
  <1> HIDE DEF c1, l1
  <1>7. c2 \in {0, 1} /\ l2 \in 0 .. Base - 1 /\ n2 + c1 = Base * c2 + l2
    BY <1>2, <1>6, CarryIn
  <1> HIDE DEF c2, l2
  <1>8. c3 \in {0, 1} /\ l3 \in 0 .. Base - 1 /\ n3 + c2 = Base * c3 + l3
    BY <1>2, <1>7, CarryIn
  <1> HIDE DEF c3, l3
  <1>9. t \in 0 .. Base
    BY <1>2, <1>8, Sizes
  \* Adding 5 carries as far as the limb on top.
  <1>10. Horner(n0, n1, n2, n3, n4) + 5 = Horner(l0, l1, l2, l3, t)
    <2>1. /\ n0 \in Int /\ n1 \in Int /\ n2 \in Int /\ n3 \in Int /\ n4 \in Int
          /\ l0 \in Int /\ l1 \in Int /\ l2 \in Int /\ l3 \in Int
          /\ c0 \in Int /\ c1 \in Int /\ c2 \in Int /\ c3 \in Int
      BY <1>2, <1>5, <1>6, <1>7, <1>8, Sizes
    <2>2. /\ n0 + 5 = Base * c0 + l0 /\ n1 + c0 = Base * c1 + l1 /\ n2 + c1 = Base * c2 + l2
          /\ n3 + c2 = Base * c3 + l3
      BY <1>5, <1>6, <1>7, <1>8
    <2>3. \A n \in Int : Base * n \in Int
      BY Sizes
    <2>4. /\ n0 = Base * c0 + l0 - 5 /\ n1 = Base * c1 + l1 - c0 /\ n2 = Base * c2 + l2 - c1
          /\ n3 = Base * c3 + l3 - c2
      BY ONLY <2>1, <2>2, <2>3
    <2>5. Horner(Base * c0 + l0 - 5, Base * c1 + l1 - c0, Base * c2 + l2 - c1, Base * c3 + l3 - c2, n4) + 5
            = Horner(l0, l1, l2, l3, n4 + c3)
      BY ONLY <2>1, Sizes, Z3 DEF Horner
    <2> QED BY <2>4, <2>5
  <1> HIDE DEF t
  <1>11. CASE t < Base
    <2>1. t - Base + Uint32 \in Nat /\ t - Base + Uint32 < Uint32 /\ Uint32 \in Nat
      BY <1>9, <1>11, Sizes DEF Uint32
    <2>2. g4 = t - Base + Uint32
      BY <2>1, ModSmall
    <2>3. g4 >= Uint32 \div 2
      BY <1>9, <2>2, Sizes DEF Uint32
    <2>4. Reduced(y) = y
      BY <1>3, <2>3
    <2>5. Horner(l0, l1, l2, l3, t) \in 0 .. Prime + 4
      <3>1. t \in 0 .. Base - 1
        BY <1>9, <1>11, Sizes
      <3> QED BY <3>1, <1>5, <1>6, <1>7, <1>8, HornerBound
    <2>6. Value(y) \in 0 .. Prime - 1
      BY <1>10, <1>4, <2>5, PrimeIs
    <2>7. Value(y) = Value(y) + Prime * 0 /\ 0 \in Int
      BY <2>6, PrimeIs
    <2> QED BY <2>4, <2>6, <2>7 DEF Cong
  <1>12. CASE t = Base
    <2>1. t - Base + Uint32 = Uint32 /\ Uint32 \in Nat /\ Uint32 > 0 /\ Uint32 \div 2 > 0
      BY <1>12, Sizes DEF Uint32
    <2>2. \A n \in Nat : n > 0 => n % n = 0
      BY Z3
    <2>3. g4 = 0
      BY <2>1, <2>2
    <2>4. Reduced(y) = Five(l0, l1, l2, l3, 0)
      BY <1>3, <2>1, <2>3
    <2>5. Horner(l0, l1, l2, l3, t) = Horner(l0, l1, l2, l3, 0) + Prime + 5
      <3>1. l0 \in Int /\ l1 \in Int /\ l2 \in Int /\ l3 \in Int
        BY <1>5, <1>6, <1>7, <1>8
      <3> QED BY ONLY <3>1, <1>12, Sizes, Z3 DEF Horner, Prime
    <2>6. Value(Reduced(y)) = Horner(l0, l1, l2, l3, 0) /\ Horner(l0, l1, l2, l3, 0) \in 0 .. Prime + 4
      <3>1. 0 \in 0 .. Base - 1
        BY Sizes
      <3>2. Horner(l0, l1, l2, l3, 0) \in 0 .. Prime + 4
        BY <3>1, <1>5, <1>6, <1>7, <1>8, HornerBound
      <3>3. Value(Five(l0, l1, l2, l3, 0)) = Horner(l0, l1, l2, l3, 0)
        BY DEF Value, Five, Limbs
      <3> QED BY <2>4, <3>2, <3>3
    <2>7. Value(y) = Value(Reduced(y)) + Prime /\ Value(Reduced(y)) \in 0 .. Prime - 1
      BY <1>10, <1>4, <2>5, <2>6, PrimeIs
    <2>8. Value(y) = Value(Reduced(y)) + Prime * 1 /\ 1 \in Int
      BY <2>7, PrimeIs
    <2>9. Reduced(y) \in [Limbs -> 0 .. Base - 1]
      BY <1>5, <1>6, <1>7, <1>8, <2>4, Sizes DEF Five, Limbs
    <2> QED BY <2>7, <2>8, <2>9 DEF Cong
  <1> QED BY <1>9, <1>11, <1>12, Sizes

-----------------------------------------------------------------------------
(* The theorems. *)

\* The accumulator stands for the polynomial until the tag is written.
MacInv ==
    /\ macKey \in MacKeys
    /\ LimbsFit
    /\ exact \in 0 .. Prime - 1
    /\ tag = NoTag => Cong(Value(h), exact)

\* A clamped key is within its limbs.
LEMMA KeysFit == ASSUME NEW key \in MacKeys PROVE Keys(key.r)
BY MacAssumption DEF Keys

\* The same of a function of limbs
LEMMA ValueType == ASSUME NEW x, x \in [Limbs -> Nat] PROVE Value(x) \in Nat
  <1>1. x[0] \in Nat /\ x[1] \in Nat /\ x[2] \in Nat /\ x[3] \in Nat /\ x[4] \in Nat
    BY DEF Limbs
  <1> QED BY <1>1, HornerType DEF Value

\* The invariant holds at first,
LEMMA MacInitial == MacInit => MacInv
  <1> SUFFICES ASSUME MacInit PROVE MacInv
    OBVIOUS
  <1>1. h = [i \in Limbs |-> 0] /\ exact = 0 /\ macKey \in MacKeys
    BY DEF MacInit
  <1>2. LimbsFit
    BY <1>1, Sizes DEF LimbsFit, Fits
  <1>3. Value(h) = 0
    <2>1. Value(h) = Horner(0, 0, 0, 0, 0)
      BY <1>1 DEF Value, Limbs
    <2>2. Horner(0, 0, 0, 0, 0) = 0
      BY Sizes DEF Horner
    <2> QED BY <2>1, <2>2
  <1>4. Cong(0, 0)
    <2>1. 0 = 0 + Prime * 0 /\ 0 \in Int
      BY PrimeIs
    <2> QED BY <2>1 DEF Cong
  <1> QED BY <1>1, <1>2, <1>3, <1>4, PrimeIs DEF MacInv

\* and a block keeps it,
LEMMA FeedKeeps ==
    ASSUME MacInv, NEW m \in MacBlocks, Feed(m)
    PROVE  MacInv'
  <1> DEFINE r == macKey.r
             n == (exact + m + Block) % Prime
  <1>1. /\ Fits(h) /\ Keys(r) /\ m \in 0 .. Block - 1 /\ macKey \in MacKeys /\ macKey' = macKey
        /\ tag = NoTag /\ exact \in 0 .. Prime - 1 /\ Cong(Value(h), exact)
        /\ h' = Mixed(h, r, m) /\ exact' = TimesExactly(n, r)
    BY KeysFit, MacAssumption DEF MacInv, LimbsFit, Feed
  <1>2. Block \in Nat
    BY Sizes, HornerType DEF Block
  <1>3. Fits(h') /\ Cong(Value(h'), (Value(h) + (m + Block)) * Value(r))
    BY <1>1, MixedCong
  <1>4. Value(h) \in Nat /\ Value(r) \in Nat /\ Value(h') \in Nat
    <2>1. h \in [Limbs -> Nat] /\ h' \in [Limbs -> Nat] /\ r \in [Limbs -> Nat]
      BY <1>1, <1>3, Sizes DEF Fits, Keys
    <2> QED BY <2>1, ValueType
  <1>5. exact + m + Block \in Nat /\ m + Block \in Nat /\ exact + m + Block = exact + (m + Block)
    BY <1>1, <1>2, PrimeIs
  <1>6. n \in 0 .. Prime - 1 /\ Cong(n, exact + (m + Block))
    BY <1>5, CongMod
  <1>7. n \in Nat /\ exact' \in 0 .. Prime - 1 /\ Cong(exact', n * Value(r))
    BY <1>1, <1>6, PrimeIs, TimesExactlyCong
  <1> HIDE DEF n, r
  <1>8. /\ (Value(h) + (m + Block)) * Value(r) \in Int /\ (exact + (m + Block)) * Value(r) \in Int
        /\ n * Value(r) \in Int
    <2>1. Value(h) + (m + Block) \in Nat /\ exact + (m + Block) \in Nat
      BY <1>4, <1>5
    <2>2. /\ (Value(h) + (m + Block)) * Value(r) \in Nat /\ (exact + (m + Block)) * Value(r) \in Nat
          /\ n * Value(r) \in Nat
      BY <1>4, <1>7, <2>1, TimesNat
    <2> QED BY <2>2
  \* The accumulator and the block, and what they stand for
  <1>9. Cong(Value(h) + (m + Block), exact + (m + Block))
    <2>1. Value(h) \in Int /\ exact \in Int /\ m + Block \in Int
      BY <1>1, <1>4, <1>5, PrimeIs
    <2> QED BY <1>1, <2>1, CongPlus
  <1>10. Cong(exact + (m + Block), n)
    <2>1. exact + (m + Block) \in Int /\ n \in Int
      BY <1>5, <1>7
    <2> QED BY <1>6, <2>1, CongSymmetric
  <1>11. Cong(Value(h) + (m + Block), n)
    <2>1. Value(h) + (m + Block) \in Int /\ exact + (m + Block) \in Int /\ n \in Int
      BY <1>4, <1>5, <1>7
    <2> QED BY <1>9, <1>10, <2>1, CongTrans
  \* Both times the key
  <1>12. Cong((Value(h) + (m + Block)) * Value(r), n * Value(r))
    <2>1. Value(h) + (m + Block) \in Int /\ n \in Int /\ Value(r) \in Int
      BY <1>4, <1>5, <1>7
    <2> QED BY <1>11, <2>1, CongTimes, Zenon
  <1>13. Cong(Value(h'), n * Value(r))
    <2>1. Value(h') \in Int
      BY <1>4
    <2> QED BY <1>3, <1>8, <1>12, <2>1, CongTrans
  <1>14. Cong(Value(h'), exact')
    <2>1. Value(h') \in Int /\ exact' \in Int
      BY <1>4, <1>7, PrimeIs
    <2>2. Cong(n * Value(r), exact')
      BY <1>7, <1>8, <2>1, CongSymmetric
    <2> QED BY <1>8, <1>13, <2>1, <2>2, CongTrans
  <1> QED BY <1>1, <1>3, <1>7, <1>14 DEF MacInv, LimbsFit

\* and so does every step.
LEMMA MacStep == MacInv /\ [MacNext]_macVars => MacInv'
  <1> SUFFICES ASSUME MacInv, [MacNext]_macVars PROVE MacInv'
    OBVIOUS
  <1>1. ASSUME NEW m \in MacBlocks, Feed(m) PROVE MacInv'
    BY <1>1, FeedKeeps
  <1>2. CASE Finish
    <2>1. h' = [i \in Limbs |-> 0] /\ tag' # NoTag /\ UNCHANGED <<macKey, exact>>
      BY <1>2 DEF Finish, NoTag
    <2>2. LimbsFit'
      BY <2>1, Sizes DEF LimbsFit, Fits
    <2> QED BY <2>1, <2>2 DEF MacInv
  <1>3. CASE UNCHANGED macVars
    BY <1>3 DEF macVars, MacInv, LimbsFit
  <1> QED BY <1>1, <1>2, <1>3 DEF MacNext

\* No carry outgrows the room that the next block leaves for it.
THEOREM RoomForCarries == MacSpec => []LimbsFit
  <1>1. MacInit => MacInv
    BY MacInitial
  <1>2. MacInv /\ [MacNext]_macVars => MacInv'
    BY MacStep
  <1>3. MacInv => LimbsFit
    BY DEF MacInv
  <1> QED BY <1>1, <1>2, <1>3, PTL DEF MacSpec

\* Reduced, the accumulator is the residue itself, in limbs that do not overlap.
LEMMA ResidueIs ==
    ASSUME Base >= 128, MacInv, tag = NoTag
    PROVE  /\ Value(h) % Prime = exact
           /\ Reduced(Carried(h)) \in [Limbs -> 0 .. Base - 1]
           /\ Value(Reduced(Carried(h))) = exact
  <1> DEFINE y == Carried(h)
             z == Reduced(y)
  <1>1. Fits(h) /\ exact \in 0 .. Prime - 1 /\ Cong(Value(h), exact)
    BY DEF MacInv, LimbsFit
  <1>2. y \in [Limbs -> 0 .. Base - 1] /\ Cong(Value(h), Value(y))
    BY <1>1, CarriedIs
  <1> HIDE DEF y
  <1>3. z \in [Limbs -> 0 .. Base - 1] /\ Value(z) \in 0 .. Prime - 1 /\ Cong(Value(y), Value(z))
    BY <1>2, ReducedIs
  <1> HIDE DEF z
  <1>4. Value(h) \in Nat /\ Value(y) \in Nat
    <2>1. h \in [Limbs -> Nat] /\ y \in [Limbs -> Nat]
      BY <1>1, <1>2, Sizes DEF Fits
    <2> QED BY <2>1, ValueType
  <1>5. Value(h) % Prime = exact
    BY <1>1, <1>4, CongResidue
  <1>6. Value(h) % Prime = Value(z)
    <2>1. Value(h) \in Int /\ Value(y) \in Int /\ Value(z) \in Int
      BY <1>3, <1>4, PrimeIs
    <2>2. Cong(Value(h), Value(z))
      BY <1>2, <1>3, <2>1, CongTrans
    <2> QED BY <1>3, <1>4, <2>2, CongResidue
  <1> QED BY <1>3, <1>5, <1>6 DEF y, z

\* Before it is packed, the accumulator of every message is reduced to the residue of its
\* polynomial.
THEOREM ResidueExact == ASSUME Base >= 128 PROVE MacSpec => []ResidueIsExact
  <1>1. MacInit => MacInv
    BY MacInitial
  <1>2. MacInv /\ [MacNext]_macVars => MacInv'
    BY MacStep
  <1>3. MacInv => ResidueIsExact
    <2> SUFFICES ASSUME MacInv, tag = NoTag
                 PROVE  /\ Value(h) % Prime = exact
                        /\ Value(Reduced(Carried(h))) = exact
                        /\ \A i \in Limbs : Reduced(Carried(h))[i] \in 0 .. Base - 1
      BY DEF ResidueIsExact
    <2> QED BY ResidueIs
  <1> QED BY <1>1, <1>2, <1>3, PTL DEF MacSpec

-----------------------------------------------------------------------------
(* The checksum: the register as a linear map of the bits that went through it. *)

\* A property that holds of 0, and of n + 1 where it holds of n, holds of every number.
LEMMA Everywhere ==
    ASSUME NEW G, 0 \in G, \A n \in Nat : n \in G => n + 1 \in G
    PROVE  Nat \subseteq G
<1> DEFINE S == {n \in Nat : n \notin G}
<1> SUFFICES ASSUME S # {} PROVE FALSE
  OBVIOUS
<1>1. PICK n \in S : \A m \in S : n <= m
  <2> HIDE DEF S
  <2>1. S \in SUBSET Nat
    BY DEF S
  <2> QED
    BY <2>1, Least
<1>2. n # 0 /\ n \in Nat
  OBVIOUS
<1>3. n - 1 \in Nat /\ ~(n <= n - 1) /\ (n - 1) + 1 = n
  BY <1>2
<1>4. n - 1 \in G
  BY <1>1, <1>3
<1> QED
  BY <1>3, <1>4

LEMMA XorIs ==
    ASSUME NEW x, NEW y, NEW i
    PROVE  i \in Xor(x, y) <=> ~(i \in x <=> i \in y)
BY DEF Xor

LEMMA XorNat == \A T : \A x, y \in SUBSET T : Xor(x, y) \in SUBSET T
BY DEF Xor

\* Exclusive or, as the sum it is.
LEMMA XorSum ==
    ASSUME NEW x, NEW y, NEW z
    PROVE  /\ Xor(x, y) = Xor(y, x) /\ Xor(x, x) = {} /\ Xor(x, {}) = x
           /\ Xor(Xor(x, y), z) = Xor(x, Xor(y, z)) /\ Xor(Xor(x, y), y) = x
           /\ (Xor(x, y) = x => y = {})
BY DEF Xor

LEMMA ShrIs ==
    ASSUME NEW x \in SUBSET Nat, NEW n \in Nat
    PROVE  /\ Shr(x, n) \in SUBSET Nat
           /\ \A i \in Nat : i \in Shr(x, n) <=> i + n \in x
<1>1. \A j \in x : j >= n => j - n \in Nat /\ (j - n) + n = j
  OBVIOUS
<1>2. Shr(x, n) \in SUBSET Nat
  BY <1>1 DEF Shr
<1>3. ASSUME NEW i \in Nat, i \in Shr(x, n) PROVE i + n \in x
  <2>1. PICK j \in x : j >= n /\ i = j - n
    BY <1>3 DEF Shr
  <2> QED
    BY <1>1, <2>1
<1>4. ASSUME NEW i \in Nat, i + n \in x PROVE i \in Shr(x, n)
  <2>1. i + n >= n /\ (i + n) - n = i
    OBVIOUS
  <2> QED
    BY <1>4, <2>1 DEF Shr
<1> QED
  BY <1>2, <1>3, <1>4

LEMMA ShrXor ==
    ASSUME NEW x \in SUBSET Nat, NEW y \in SUBSET Nat, NEW n \in Nat
    PROVE  Shr(Xor(x, y), n) = Xor(Shr(x, n), Shr(y, n))
<1>1. Xor(x, y) \in SUBSET Nat
  BY XorNat
<1>2. \A i \in Nat : i \in Shr(Xor(x, y), n) <=> ~(i + n \in x <=> i + n \in y)
  <2> DEFINE z == Xor(x, y)
  <2>1. \A i : i \in z <=> ~(i \in x <=> i \in y)
    BY XorIs
  <2> HIDE DEF z
  <2>2. \A i \in Nat : i \in Shr(z, n) <=> i + n \in z
    BY <1>1, ShrIs DEF z
  <2>3. \A i \in Nat : i \in Shr(z, n) <=> ~(i + n \in x <=> i + n \in y)
    BY <2>1, <2>2, Zenon
  <2> QED
    BY <2>3 DEF z
<1>3. Shr(x, n) \in SUBSET Nat /\ Shr(y, n) \in SUBSET Nat /\ Shr(Xor(x, y), n) \in SUBSET Nat
  BY <1>1, ShrIs
<1>4. \A i \in Nat : i \in Xor(Shr(x, n), Shr(y, n)) <=> ~(i + n \in x <=> i + n \in y)
  BY ShrIs, XorIs
<1>5. Xor(Shr(x, n), Shr(y, n)) \in SUBSET Nat
  BY <1>3, XorNat
<1> QED
  BY <1>2, <1>3, <1>4, <1>5

LEMMA ShrShr ==
    ASSUME NEW x \in SUBSET Nat, NEW m \in Nat, NEW n \in Nat
    PROVE  Shr(Shr(x, m), n) = Shr(x, m + n)
<1>1. Shr(x, m) \in SUBSET Nat /\ m + n \in Nat
  BY ShrIs
<1>2. \A i \in Nat : i \in Shr(Shr(x, m), n) <=> (i + n) + m \in x
  <2>1. \A i \in Nat : i + n \in Nat
    OBVIOUS
  <2> QED
    BY <1>1, <2>1, ShrIs
<1>3. \A i \in Nat : i \in Shr(x, m + n) <=> i + (m + n) \in x
  BY <1>1, ShrIs
<1>4. \A i \in Nat : (i + n) + m = i + (m + n)
  OBVIOUS
<1>5. Shr(Shr(x, m), n) \in SUBSET Nat /\ Shr(x, m + n) \in SUBSET Nat
  BY <1>1, ShrIs
<1> QED
  BY <1>2, <1>3, <1>4, <1>5, Zenon

\* Width is a number, and the polynomial fits it.
LEMMA WidthIs ==
    /\ Width \in Nat \ {0} /\ CrcPoly \in SUBSET Nat /\ Width - 1 \in CrcPoly
    /\ \A i \in CrcPoly : i < Width
    /\ Ones \in SUBSET Nat /\ \A i \in Nat : i \in Ones <=> i < Width
<1>1. \A a, b \in Nat \ {0} : a * b \in Nat \ {0}
  BY Z3
<1>2. Width \in Nat \ {0}
  BY <1>1, CrcAssumption DEF Width
<1> HIDE DEF Width
<1> QED
  BY <1>2, CrcAssumption DEF Ones

LEMMA Shift1Is ==
    ASSUME NEW x \in SUBSET Nat
    PROVE  /\ Shift1(x) \in SUBSET Nat
           /\ \A i \in Nat : i \in Shift1(x) <=> ~(i + 1 \in x <=> (0 \in x /\ i \in CrcPoly))
<1>1. Shr(x, 1) \in SUBSET Nat /\ \A i \in Nat : i \in Shr(x, 1) <=> i + 1 \in x
  BY ShrIs
<1>2. CrcPoly \in SUBSET Nat
  BY WidthIs
<1>3. Xor(Shr(x, 1), CrcPoly) \in SUBSET Nat
  BY <1>1, <1>2, XorNat
<1>4. \A i \in Nat : i \in Xor(Shr(x, 1), CrcPoly) <=> ~(i + 1 \in x <=> i \in CrcPoly)
  BY <1>1, XorIs
<1> QED
  BY <1>1, <1>3, <1>4 DEF Shift1

LEMMA Shift1Xor ==
    ASSUME NEW x \in SUBSET Nat, NEW y \in SUBSET Nat
    PROVE  Shift1(Xor(x, y)) = Xor(Shift1(x), Shift1(y))
<1>1. Xor(x, y) \in SUBSET Nat
  BY XorNat
<1>2. \A i \in Nat : i \in Shift1(Xor(x, y))
                       <=> ~(i + 1 \in Xor(x, y) <=> (0 \in Xor(x, y) /\ i \in CrcPoly))
  BY <1>1, Shift1Is
<1>3. \A i \in Nat : i \in Xor(Shift1(x), Shift1(y)) <=> ~(i \in Shift1(x) <=> i \in Shift1(y))
  BY XorIs
<1>4. \A i : i \in Xor(x, y) <=> ~(i \in x <=> i \in y)
  BY XorIs
<1>5. \A i \in Nat : i \in Shift1(Xor(x, y)) <=> i \in Xor(Shift1(x), Shift1(y))
  BY <1>2, <1>3, <1>4, Shift1Is
<1>6. Shift1(Xor(x, y)) \in SUBSET Nat /\ Xor(Shift1(x), Shift1(y)) \in SUBSET Nat
  BY <1>1, Shift1Is, XorNat
<1> QED
  BY <1>5, <1>6

\* A register holds what fits it, and of what is one too wide a step takes the excess.
LEMMA Shift1Fits ==
    ASSUME NEW x \in SUBSET Nat, NEW n \in Nat, \A i \in x : i < Width + n + 1
    PROVE  \A i \in Shift1(x) : i < Width + n
<1> SUFFICES ASSUME NEW i \in Shift1(x) PROVE i < Width + n
  OBVIOUS
<1>1. i \in Nat /\ (i + 1 \in x \/ i \in CrcPoly)
  BY Shift1Is
<1> QED
  BY <1>1, WidthIs

\* The lowest power of the polynomial sees to it that no difference is ever forgotten.
LEMMA Shift1Keeps ==
    ASSUME NEW x \in SUBSET Ones, x # {}
    PROVE  Shift1(x) \in SUBSET Ones /\ Shift1(x) # {}
<1>1. x \in SUBSET Nat /\ \A i \in x : i < Width
  BY WidthIs
<1>2. Shift1(x) \in SUBSET Nat /\ \A i \in Shift1(x) : i < Width
  <2>1. \A i \in Shift1(x) : i \in Nat /\ (i + 1 \in x \/ i \in CrcPoly)
    BY <1>1, Shift1Is
  <2> QED
    BY <2>1, <1>1, WidthIs
<1>3. Shift1(x) \in SUBSET Ones
  BY <1>2, WidthIs
<1>4. CASE 0 \in x
  <2>1. Width - 1 \in Nat /\ Width - 1 \in CrcPoly /\ (Width - 1) + 1 \notin x
    BY <1>1, WidthIs
  <2>2. Width - 1 \in Shift1(x)
    BY <1>1, <1>4, <2>1, Shift1Is
  <2> QED
    BY <1>3, <2>2
<1>5. CASE 0 \notin x
  <2>1. PICK i \in x : TRUE
    OBVIOUS
  <2>2. i - 1 \in Nat /\ (i - 1) + 1 \in x
    BY <1>1, <1>5, <2>1
  <2>3. i - 1 \in Shift1(x)
    BY <1>1, <1>5, <2>2, Shift1Is
  <2> QED
    BY <1>3, <2>3
<1> QED
  BY <1>4, <1>5

-----------------------------------------------------------------------------
\* The registers of n turns.
Turns(f, x, n) == f = [i \in 0 .. n |-> IF i = 0 THEN x ELSE Shift1(f[i - 1])]

LEMMA TurnsExist ==
    ASSUME NEW x, NEW n \in Nat
    PROVE  \E f : Turns(f, x, n)
<1> DEFINE G == {k \in Nat : \E f : Turns(f, x, k)}
<1>1. 0 \in G
  <2> DEFINE f == [i \in 0 .. 0 |-> x]
  <2>1. f = [i \in 0 .. 0 |-> IF i = 0 THEN x ELSE Shift1(f[i - 1])]
    OBVIOUS
  <2> QED
    BY <2>1 DEF Turns
<1>2. ASSUME NEW k \in Nat, k \in G PROVE k + 1 \in G
  <2>1. PICK f : Turns(f, x, k)
    BY <1>2
  <2> DEFINE g == [i \in 0 .. k + 1 |-> IF i = k + 1 THEN Shift1(f[k]) ELSE f[i]]
  <2>2. ASSUME NEW i \in 0 .. k + 1
        PROVE  g[i] = IF i = 0 THEN x ELSE Shift1(g[i - 1])
    <3>1. \A j \in 0 .. k : g[j] = f[j] /\ f[j] = IF j = 0 THEN x ELSE Shift1(f[j - 1])
      BY <2>1 DEF Turns
    <3>2. g[k + 1] = Shift1(f[k]) /\ k \in 0 .. k
      OBVIOUS
    <3> HIDE DEF g
    <3>3. CASE i = k + 1
      BY <3>1, <3>2, <3>3
    <3>4. CASE i # k + 1
      <4>1. i \in 0 .. k /\ (i # 0 => i - 1 \in 0 .. k)
        BY <3>4
      <4> QED
        BY <3>1, <4>1
    <3> QED
      BY <3>3, <3>4
  <2>3. g = [i \in 0 .. k + 1 |-> IF i = 0 THEN x ELSE Shift1(g[i - 1])]
    <3>1. DOMAIN g = 0 .. k + 1 /\ g = [i \in 0 .. k + 1 |-> g[i]]
      OBVIOUS
    <3> HIDE DEF g
    <3> QED
      BY <2>2, <3>1, Zenon
  <2> HIDE DEF g
  <2> QED
    BY <2>3 DEF Turns
<1>3. Nat \subseteq G
  <2> HIDE DEF G
  <2> QED
    BY <1>1, <1>2, Everywhere
<1> QED
  BY <1>3

LEMMA ShiftTurns ==
    ASSUME NEW x, NEW n \in Nat
    PROVE  \E f : Turns(f, x, n) /\ ShiftN(x, n) = f[n]
<1> DEFINE f == CHOOSE g : Turns(g, x, n)
<1>1. Turns(f, x, n)
  BY TurnsExist
<1>2. ShiftN(x, n) = f[n]
  BY DEF ShiftN, Turns
<1> QED
  BY <1>1, <1>2

LEMMA TurnsAgree ==
    ASSUME NEW x, NEW m \in Nat, NEW n \in Nat, NEW f, NEW g, Turns(f, x, m), Turns(g, x, n)
    PROVE  \A k \in Nat : k <= m /\ k <= n => f[k] = g[k]
<1> DEFINE G == {k \in Nat : k <= m /\ k <= n => f[k] = g[k]}
<1>1. /\ \A i \in 0 .. m : f[i] = IF i = 0 THEN x ELSE Shift1(f[i - 1])
      /\ \A i \in 0 .. n : g[i] = IF i = 0 THEN x ELSE Shift1(g[i - 1])
  BY DEF Turns
<1>2. 0 \in G
  BY <1>1
<1>3. ASSUME NEW k \in Nat, k \in G PROVE k + 1 \in G
  <2> SUFFICES ASSUME k + 1 <= m, k + 1 <= n PROVE f[k + 1] = g[k + 1]
    OBVIOUS
  <2>1. k + 1 \in 0 .. m /\ k + 1 \in 0 .. n /\ k + 1 # 0 /\ (k + 1) - 1 = k /\ k <= m /\ k <= n
    OBVIOUS
  <2>2. f[k] = g[k]
    BY <1>3, <2>1
  <2> QED
    BY <1>1, <2>1, <2>2
<1>4. Nat \subseteq G
  <2> HIDE DEF G
  <2> QED
    BY <1>2, <1>3, Everywhere
<1> QED
  BY <1>4

LEMMA ShiftNIs ==
    ASSUME NEW x
    PROVE  /\ ShiftN(x, 0) = x
           /\ \A n \in Nat : ShiftN(x, n + 1) = Shift1(ShiftN(x, n))
<1>1. ShiftN(x, 0) = x
  <2>1. PICK f : Turns(f, x, 0) /\ ShiftN(x, 0) = f[0]
    BY ShiftTurns
  <2> QED
    BY <2>1 DEF Turns
<1>2. ASSUME NEW n \in Nat PROVE ShiftN(x, n + 1) = Shift1(ShiftN(x, n))
  <2>1. PICK f : Turns(f, x, n) /\ ShiftN(x, n) = f[n]
    BY ShiftTurns
  <2>2. n + 1 \in Nat
    OBVIOUS
  <2>3. PICK g : Turns(g, x, n + 1) /\ ShiftN(x, n + 1) = g[n + 1]
    BY <2>2, ShiftTurns
  <2>4. \A k \in Nat : k <= n /\ k <= n + 1 => f[k] = g[k]
    BY <2>1, <2>2, <2>3, TurnsAgree
  <2>5. f[n] = g[n]
    BY <2>4
  <2>6. g[n + 1] = Shift1(g[n])
    <3>1. n + 1 \in 0 .. n + 1 /\ n + 1 # 0 /\ (n + 1) - 1 = n
      OBVIOUS
    <3> QED
      BY <2>3, <3>1 DEF Turns
  <2> QED
    BY <2>1, <2>3, <2>5, <2>6
<1> QED
  BY <1>1, <1>2

LEMMA ShiftNat ==
    ASSUME NEW x \in SUBSET Nat
    PROVE  \A n \in Nat : ShiftN(x, n) \in SUBSET Nat
<1> DEFINE G == {n \in Nat : ShiftN(x, n) \in SUBSET Nat}
<1>1. 0 \in G
  BY ShiftNIs
<1>2. ASSUME NEW n \in Nat, n \in G PROVE n + 1 \in G
  <2>1. ShiftN(x, n + 1) = Shift1(ShiftN(x, n)) /\ ShiftN(x, n) \in SUBSET Nat
    BY <1>2, ShiftNIs
  <2> QED
    BY <2>1, Shift1Is
<1> HIDE DEF G
<1>3. Nat \subseteq G
  BY <1>1, <1>2, Everywhere
<1> QED
  BY <1>3 DEF G

\* What goes through the register is superposed.
LEMMA ShiftXor ==
    ASSUME NEW x \in SUBSET Nat, NEW y \in SUBSET Nat
    PROVE  \A n \in Nat : ShiftN(Xor(x, y), n) = Xor(ShiftN(x, n), ShiftN(y, n))
<1> DEFINE G == {n \in Nat : ShiftN(Xor(x, y), n) = Xor(ShiftN(x, n), ShiftN(y, n))}
<1>1. 0 \in G
  BY ShiftNIs
<1>2. ASSUME NEW n \in Nat, n \in G PROVE n + 1 \in G
  <2> DEFINE a == ShiftN(x, n)  b == ShiftN(y, n)
  <2>1. a \in SUBSET Nat /\ b \in SUBSET Nat
    BY ShiftNat
  <2>2. /\ ShiftN(Xor(x, y), n + 1) = Shift1(Xor(a, b))
        /\ ShiftN(x, n + 1) = Shift1(a) /\ ShiftN(y, n + 1) = Shift1(b)
    BY <1>2, ShiftNIs
  <2> HIDE DEF a, b
  <2>3. Shift1(Xor(a, b)) = Xor(Shift1(a), Shift1(b))
    BY <2>1, Shift1Xor
  <2> QED
    BY <2>2, <2>3
<1> HIDE DEF G
<1>3. Nat \subseteq G
  BY <1>1, <1>2, Everywhere
<1> QED
  BY <1>3 DEF G

LEMMA ShiftAdds ==
    ASSUME NEW x, NEW m \in Nat
    PROVE  \A n \in Nat : ShiftN(ShiftN(x, m), n) = ShiftN(x, m + n)
<1> DEFINE y == ShiftN(x, m)  G == {n \in Nat : ShiftN(y, n) = ShiftN(x, m + n)}
<1>1. 0 \in G
  <2>1. m + 0 = m
    OBVIOUS
  <2>2. ShiftN(y, 0) = y
    BY ShiftNIs
  <2> QED
    BY <2>1, <2>2
<1>2. ASSUME NEW n \in Nat, n \in G PROVE n + 1 \in G
  <2>1. m + n \in Nat /\ m + (n + 1) = (m + n) + 1
    OBVIOUS
  <2>2. ShiftN(y, n + 1) = Shift1(ShiftN(y, n))
    BY ShiftNIs
  <2>3. ShiftN(x, (m + n) + 1) = Shift1(ShiftN(x, m + n))
    BY <2>1, ShiftNIs
  <2> QED
    BY <1>2, <2>1, <2>2, <2>3
<1> HIDE DEF G
<1>3. Nat \subseteq G
  BY <1>1, <1>2, Everywhere
<1> QED
  BY <1>3 DEF G

LEMMA ShiftFits ==
    ASSUME NEW x \in SUBSET Nat, NEW n \in Nat, \A i \in x : i < Width + n
    PROVE  ShiftN(x, n) \in SUBSET Ones
<1> DEFINE G == {k \in Nat : k <= n => \A i \in ShiftN(x, k) : i < Width + (n - k)}
<1>1. 0 \in G
  <2>1. ShiftN(x, 0) = x /\ n - 0 = n
    BY ShiftNIs
  <2> QED
    BY <2>1
<1>2. ASSUME NEW k \in Nat, k \in G PROVE k + 1 \in G
  <2> SUFFICES ASSUME k + 1 <= n PROVE \A i \in ShiftN(x, k + 1) : i < Width + (n - (k + 1))
    OBVIOUS
  <2> DEFINE y == ShiftN(x, k)  l == n - (k + 1)
  <2>1. l \in Nat /\ n - k = l + 1
    OBVIOUS
  <2>2. y \in SUBSET Nat /\ \A i \in y : i < Width + (n - k)
    BY <1>2, ShiftNat
  <2>3. ShiftN(x, k + 1) = Shift1(y)
    BY ShiftNIs
  <2> HIDE DEF y, l
  <2>4. \A i \in y : i < Width + l + 1
    BY <2>1, <2>2, WidthIs
  <2>5. \A i \in Shift1(y) : i < Width + l
    BY <2>1, <2>2, <2>4, Shift1Fits
  <2> QED
    BY <2>3, <2>5 DEF l
<1>3. Nat \subseteq G
  <2> HIDE DEF G
  <2> QED
    BY <1>1, <1>2, Everywhere
<1>4. \A i \in ShiftN(x, n) : i < Width + (n - n)
  BY <1>3
<1>5. ShiftN(x, n) \in SUBSET Nat
  BY ShiftNat
<1> QED
  BY <1>4, <1>5, WidthIs

LEMMA ShiftKeeps ==
    ASSUME NEW x \in SUBSET Ones, x # {}
    PROVE  \A n \in Nat : ShiftN(x, n) \in SUBSET Ones /\ ShiftN(x, n) # {}
<1> DEFINE G == {n \in Nat : ShiftN(x, n) \in SUBSET Ones /\ ShiftN(x, n) # {}}
<1>1. 0 \in G
  BY ShiftNIs
<1>2. ASSUME NEW n \in Nat, n \in G PROVE n + 1 \in G
  <2> DEFINE y == ShiftN(x, n)
  <2>1. y \in SUBSET Ones /\ y # {} /\ ShiftN(x, n + 1) = Shift1(y)
    BY <1>2, ShiftNIs
  <2> HIDE DEF y
  <2>2. Shift1(y) \in SUBSET Ones /\ Shift1(y) # {}
    BY <2>1, Shift1Keeps
  <2> QED
    BY <2>1, <2>2
<1> HIDE DEF G
<1>3. Nat \subseteq G
  BY <1>1, <1>2, Everywhere
<1> QED
  BY <1>3 DEF G

\* What has no bit in the places that leave is only moved.
LEMMA ShiftMoves ==
    ASSUME NEW x \in SUBSET Nat, NEW n \in Nat, \A i \in x : i >= n
    PROVE  ShiftN(x, n) = Shr(x, n)
<1> DEFINE G == {k \in Nat : k <= n => ShiftN(x, k) = Shr(x, k)}
<1>1. 0 \in G
  <2>1. Shr(x, 0) \in SUBSET Nat /\ \A i \in Nat : i \in Shr(x, 0) <=> i + 0 \in x
    BY ShrIs
  <2>2. \A i \in Nat : i + 0 = i
    OBVIOUS
  <2>3. Shr(x, 0) = x
    BY <2>1, <2>2
  <2> QED
    BY <2>3, ShiftNIs
<1>2. ASSUME NEW k \in Nat, k \in G PROVE k + 1 \in G
  <2> SUFFICES ASSUME k + 1 <= n PROVE ShiftN(x, k + 1) = Shr(x, k + 1)
    OBVIOUS
  <2> DEFINE y == Shr(x, k)
  <2>1. ShiftN(x, k + 1) = Shift1(y)
    <3>1. ShiftN(x, k) = Shr(x, k)
      BY <1>2
    <3>2. ShiftN(x, k + 1) = Shift1(ShiftN(x, k))
      BY ShiftNIs
    <3> QED
      BY <3>1, <3>2, Zenon
  <2>2. 0 \notin y
    <3>1. 0 + k = k /\ ~(k >= n)
      BY <1>2, SMT
    <3>2. 0 + k \notin x
      BY <3>1
    <3> QED
      BY <3>2, ShrIs
  <2>3. Shift1(y) = Shr(y, 1)
    BY <2>2 DEF Shift1
  <2>4. Shr(y, 1) = Shr(x, k + 1)
    BY ShrShr
  <2> QED
    BY <2>1, <2>3, <2>4
<1>3. Nat \subseteq G
  <2> HIDE DEF G
  <2> QED
    BY <1>1, <1>2, Everywhere
<1> QED
  BY <1>3

-----------------------------------------------------------------------------
\* Bytes.  A bit of a sequence of bytes has one place.
LEMMA PlaceIs ==
    ASSUME NEW a \in Nat, NEW c \in Nat, NEW j \in 0 .. CrcByte - 1, NEW l \in 0 .. CrcByte - 1,
           CrcByte * a + j = CrcByte * c + l
    PROVE  a = c /\ j = l
<1>1. \A n \in Nat, p, q \in Nat : p > q => n * p >= n * q + n
  BY Z3
<1>2. CrcByte \in Nat \ {0}
  BY CrcAssumption
<1>3. CrcByte * a \in Nat /\ CrcByte * c \in Nat
  <2>1. \A p, q \in Nat : p * q \in Nat
    BY Z3
  <2> QED
    BY <1>2, <2>1
<1>4. (a > c => CrcByte * a >= CrcByte * c + CrcByte) /\ (c > a => CrcByte * c >= CrcByte * a + CrcByte)
  BY <1>1, <1>2
<1> DEFINE A == CrcByte * a  C == CrcByte * c
<1> HIDE DEF A, C
<1>5. a = c
  BY <1>2, <1>3, <1>4 DEF A, C
<1> QED
  BY <1>3, <1>5

LEMMA PlaceOf ==
    ASSUME NEW n \in Nat, NEW k \in Nat, n < CrcByte * k
    PROVE  \E a \in 0 .. k - 1 : \E j \in 0 .. CrcByte - 1 : n = CrcByte * a + j
<1>1. CrcByte \in Nat \ {0}
  BY CrcAssumption
<1> DEFINE a == n \div CrcByte  j == n % CrcByte
<1>2. \A x \in Nat, m \in Nat \ {0} : x = (m * (x \div m)) + (x % m) /\ x \div m \in Nat /\ x % m \in 0 .. (m - 1)
  BY Z3
<1>3. n = (CrcByte * a) + j /\ a \in Nat /\ j \in 0 .. (CrcByte - 1)
  BY <1>1, <1>2, Zenon
<1> HIDE DEF a, j
<1>4. \A m, p, q \in Nat : p >= q => m * p >= m * q
  BY Z3
<1>5. a >= k => CrcByte * a >= CrcByte * k
  BY <1>1, <1>3, <1>4
<1>6. CrcByte * a \in Nat /\ CrcByte * k \in Nat
  <2>1. \A p, q \in Nat : p * q \in Nat
    BY Z3
  <2> QED
    BY <1>1, <1>3, <2>1
<1>7. a < k
  BY <1>3, <1>5, <1>6
<1> QED
  BY <1>3, <1>7

LowBits(x, n) == {i \in x : i < n}

LEMMA ByteTimes == \A n \in Nat : CrcByte * n \in Nat
<1>1. \A p, q \in Nat : p * q \in Nat
  BY Z3
<1> QED
  BY <1>1, CrcAssumption

LEMMA PlaceBelow ==
    ASSUME NEW k \in Nat, NEW a \in 0 .. k - 1, NEW j \in 0 .. CrcByte - 1
    PROVE  CrcByte * a + j \in Nat /\ CrcByte * a + j < CrcByte * k
<1>1. CrcByte \in Nat \ {0} /\ a \in Nat /\ j \in Nat /\ j < CrcByte /\ a < k
  BY CrcAssumption
<1>2. \A m, p, q \in Nat : p < q => m * p + m <= m * q
  BY Z3
<1>3. CrcByte * a + CrcByte <= CrcByte * k
  BY <1>1, <1>2
<1>4. CrcByte * a \in Nat /\ CrcByte * k \in Nat
  BY <1>1, ByteTimes
<1> QED
  BY <1>1, <1>3, <1>4

LEMMA BitsRead ==
    ASSUME NEW buf \in Seq(CrcBytes)
    PROVE  /\ FromBytes(buf, CrcByte) \in SUBSET Nat
           /\ \A i \in FromBytes(buf, CrcByte) : i < CrcByte * Len(buf)
           /\ \A a \in 0 .. Len(buf) - 1 : \A j \in 0 .. CrcByte - 1 :
                  CrcByte * a + j \in FromBytes(buf, CrcByte) <=> j \in buf[a + 1]
<1>1. Len(buf) \in Nat /\ \A i \in 1 .. Len(buf) : buf[i] \in CrcBytes
  OBVIOUS
<1>2. ASSUME NEW x \in FromBytes(buf, CrcByte)
      PROVE  \E a \in 0 .. Len(buf) - 1 : \E j \in buf[a + 1] : j \in 0 .. CrcByte - 1 /\ x = CrcByte * a + j
  <2>1. PICK i \in DOMAIN buf : \E j \in buf[i] : x = CrcByte * (i - 1) + j
    BY DEF FromBytes
  <2>2. i \in 1 .. Len(buf) /\ i - 1 \in 0 .. Len(buf) - 1 /\ (i - 1) + 1 = i
    OBVIOUS
  <2>3. PICK j \in buf[i] : x = CrcByte * (i - 1) + j
    BY <2>1
  <2>4. j \in 0 .. CrcByte - 1
    BY <1>1, <2>2, <2>3 DEF CrcBytes
  <2> QED
    BY <2>2, <2>3, <2>4
<1>3. ASSUME NEW x \in FromBytes(buf, CrcByte) PROVE x \in Nat /\ x < CrcByte * Len(buf)
  BY <1>1, <1>2, PlaceBelow
<1>4. ASSUME NEW a \in 0 .. Len(buf) - 1, NEW j \in 0 .. CrcByte - 1
      PROVE  CrcByte * a + j \in FromBytes(buf, CrcByte) <=> j \in buf[a + 1]
  <2>1. ASSUME j \in buf[a + 1] PROVE CrcByte * a + j \in FromBytes(buf, CrcByte)
    <3>1. a + 1 \in DOMAIN buf /\ (a + 1) - 1 = a
      BY <1>1
    <3> QED
      BY <2>1, <3>1 DEF FromBytes
  <2>2. ASSUME CrcByte * a + j \in FromBytes(buf, CrcByte) PROVE j \in buf[a + 1]
    <3>1. PICK c \in 0 .. Len(buf) - 1 : \E l \in buf[c + 1] : l \in 0 .. CrcByte - 1 /\ CrcByte * a + j = CrcByte * c + l
      BY <1>2, <2>2
    <3>2. PICK l \in buf[c + 1] : l \in 0 .. CrcByte - 1 /\ CrcByte * a + j = CrcByte * c + l
      BY <3>1
    <3>3. a \in Nat /\ c \in Nat
      BY <1>1
    <3>4. a = c /\ j = l
      BY <3>2, <3>3, PlaceIs
    <3> QED
      BY <3>2, <3>4
  <2> QED
    BY <2>1, <2>2
<1> QED
  BY <1>3, <1>4

\* Bits that agree at every place of every byte are the same.
LEMMA BitsSame ==
    ASSUME NEW k \in Nat, NEW x \in SUBSET Nat, NEW y \in SUBSET Nat,
           \A i \in x : i < CrcByte * k, \A i \in y : i < CrcByte * k,
           \A a \in 0 .. k - 1 : \A j \in 0 .. CrcByte - 1 : CrcByte * a + j \in x <=> CrcByte * a + j \in y
    PROVE  x = y
<1>1. ASSUME NEW i \in Nat, i < CrcByte * k PROVE i \in x <=> i \in y
  <2>1. PICK a \in 0 .. k - 1 : \E j \in 0 .. CrcByte - 1 : i = CrcByte * a + j
    BY <1>1, PlaceOf
  <2> QED
    BY <2>1
<1> QED
  BY <1>1

LEMMA BytesBack ==
    ASSUME NEW k \in Nat, NEW x \in SUBSET Nat, \A i \in x : i < CrcByte * k
    PROVE  /\ BytesOf(x, k, CrcByte) \in Seq(CrcBytes) /\ Len(BytesOf(x, k, CrcByte)) = k
           /\ FromBytes(BytesOf(x, k, CrcByte), CrcByte) = x
<1> DEFINE buf == BytesOf(x, k, CrcByte)  y == FromBytes(buf, CrcByte)
<1>1. buf = [i \in 1 .. k |-> {j \in 0 .. CrcByte - 1 : CrcByte * (i - 1) + j \in x}]
  BY DEF BytesOf
<1>2. buf \in [1 .. k -> CrcBytes]
  BY <1>1 DEF CrcBytes
<1> HIDE DEF buf
<1>3. buf \in Seq(CrcBytes) /\ Len(buf) = k
  BY <1>2, OfLength
<1>4. \A a \in 0 .. k - 1 : \A j \in 0 .. CrcByte - 1 : j \in buf[a + 1] <=> CrcByte * a + j \in x
  <2> TAKE a \in 0 .. k - 1
  <2>1. a + 1 \in 1 .. k /\ (a + 1) - 1 = a
    OBVIOUS
  <2> QED
    BY <1>1, <2>1
<1>5. /\ y \in SUBSET Nat /\ \A i \in y : i < CrcByte * k
      /\ \A a \in 0 .. k - 1 : \A j \in 0 .. CrcByte - 1 : CrcByte * a + j \in y <=> j \in buf[a + 1]
  BY <1>3, BitsRead
<1> HIDE DEF y
<1>6. y = x
  BY <1>4, <1>5, BitsSame
<1> QED
  BY <1>3, <1>6 DEF y, buf

\* The bits of a piece are those of the whole, from where it begins to where it ends.
LEMMA PieceIs ==
    ASSUME NEW buf \in Seq(CrcBytes), NEW k \in Nat, NEW m \in Nat, k + m <= Len(buf)
    PROVE  /\ SubSeq(buf, k + 1, k + m) \in Seq(CrcBytes) /\ Len(SubSeq(buf, k + 1, k + m)) = m
           /\ FromBytes(SubSeq(buf, k + 1, k + m), CrcByte)
                  = LowBits(Shr(FromBytes(buf, CrcByte), CrcByte * k), CrcByte * m)
<1> DEFINE p == SubSeq(buf, k + 1, k + m)  X == FromBytes(buf, CrcByte)  Y == FromBytes(p, CrcByte)
           s == CrcByte * k  Z == LowBits(Shr(X, s), CrcByte * m)
<1>1. p \in Seq(CrcBytes) /\ Len(p) = m /\ \A a \in 0 .. m - 1 : p[a + 1] = buf[(k + a) + 1]
  <2>1. k + 1 \in Int /\ k + m \in Int /\ \A i \in k + 1 .. k + m : buf[i] \in CrcBytes
    OBVIOUS
  <2>2. /\ p \in Seq(CrcBytes)
        /\ Len(p) = IF k + 1 <= k + m THEN (k + m) - (k + 1) + 1 ELSE 0
        /\ \A i \in 1 .. (k + m) - (k + 1) + 1 : p[i] = buf[(k + 1) + i - 1]
    BY <2>1, SubSeqProperties
  <2> HIDE DEF p
  <2>3. \A a \in 0 .. m - 1 : a + 1 \in 1 .. (k + m) - (k + 1) + 1 /\ (k + 1) + (a + 1) - 1 = (k + a) + 1
    OBVIOUS
  <2> QED
    BY <2>2, <2>3
<1> HIDE DEF p
<1>2. s \in Nat /\ X \in SUBSET Nat /\ Shr(X, s) \in SUBSET Nat /\ \A i \in Nat : i \in Shr(X, s) <=> i + s \in X
  BY BitsRead, ByteTimes, ShrIs
<1>3. ASSUME NEW a \in 0 .. m - 1, NEW j \in 0 .. CrcByte - 1
      PROVE  CrcByte * a + j \in Y <=> CrcByte * a + j \in Z
  <2> DEFINE n == CrcByte * a + j
  <2>1. n \in Nat /\ n < CrcByte * m
    BY PlaceBelow
  <2>2. n \in Y <=> j \in p[a + 1]
    BY <1>1, BitsRead
  <2>3. n + s = CrcByte * (k + a) + j
    <3>1. \A x, y, z \in Nat : x * z + y + x * k = x * (k + z) + y
      <4>1. \A x, z, l \in Nat : x * (l + z) = x * l + x * z /\ x * l \in Nat /\ x * z \in Nat
        BY Z3
      <4> TAKE x, y, z \in Nat
      <4>2. x * (k + z) = x * k + x * z /\ x * k \in Nat /\ x * z \in Nat
        BY <4>1
      <4> DEFINE u == x * k  v == x * z  w == x * (k + z)
      <4>3. w = u + v /\ u \in Nat /\ v \in Nat
        BY <4>2
      <4> HIDE DEF u, v, w
      <4>4. v + y + u = w + y
        BY <4>3
      <4> QED
        BY <4>4 DEF u, v, w
    <3>2. CrcByte \in Nat /\ j \in Nat /\ a \in Nat
      BY CrcAssumption
    <3> QED
      BY <3>1, <3>2
  <2>4. k + a \in 0 .. Len(buf) - 1
    OBVIOUS
  <2>5. CrcByte * (k + a) + j \in X <=> j \in buf[(k + a) + 1]
    BY <2>4, BitsRead
  <2> HIDE DEF n, X, Y
  <2>6. n \in Shr(X, s) <=> n \in Y
    BY <1>1, <1>2, <2>1, <2>2, <2>3, <2>5
  <2>7. n \in Z <=> n \in Shr(X, s)
    BY <2>1 DEF LowBits
  <2> QED
    BY <2>6, <2>7 DEF n
<1>4. Y \in SUBSET Nat /\ \A i \in Y : i < CrcByte * m
  BY <1>1, BitsRead
<1>5. Z \in SUBSET Nat /\ \A i \in Z : i < CrcByte * m
  BY <1>2 DEF LowBits
<1> HIDE DEF X, Y, Z, s
<1>6. Y = Z
  BY <1>3, <1>4, <1>5, BitsSame
<1> QED
  BY <1>1, <1>6 DEF p, X, Y, Z, s

-----------------------------------------------------------------------------
\* The register after the first k bytes, as a function of all the bits: those that went
\* in, with all ones before them.
RegisterAfter(buf, k) ==
    LET bits == FromBytes(buf, CrcByte)
    IN  Xor(ShiftN(Xor(Ones, bits), CrcByte * k), Shr(bits, CrcByte * k))

\* Bytes can be taken one at a time or several together.
LEMMA RegisterMore ==
    ASSUME NEW buf \in Seq(CrcBytes), NEW k \in Nat, NEW m \in Nat, k + m <= Len(buf)
    PROVE  RegisterAfter(buf, k + m)
             = ShiftN(Xor(RegisterAfter(buf, k), FromBytes(SubSeq(buf, k + 1, k + m), CrcByte)), CrcByte * m)
<1> DEFINE X == FromBytes(buf, CrcByte)  s == CrcByte * k  n == CrcByte * m
           Z == ShiftN(Xor(Ones, X), s)  Y == Shr(X, s)  W == LowBits(Y, n)  H == Xor(Y, W)
<1>1. s \in Nat /\ n \in Nat /\ CrcByte * (k + m) = s + n
  <2>1. \A x, y, z \in Nat : x * (y + z) = x * y + x * z
    BY Z3
  <2> QED
    BY <2>1, ByteTimes, CrcAssumption
<1>2. X \in SUBSET Nat /\ Xor(Ones, X) \in SUBSET Nat
  <2>1. X \in SUBSET Nat
    BY BitsRead
  <2>2. Ones \in SUBSET Nat
    BY WidthIs
  <2> HIDE DEF X
  <2>3. Xor(Ones, X) \in SUBSET Nat
    BY <2>1, <2>2, XorNat
  <2> QED
    BY <2>1, <2>3
<1> HIDE DEF s, n, X
<1>3. Z \in SUBSET Nat /\ Y \in SUBSET Nat
  BY <1>1, <1>2, ShiftNat, ShrIs
<1>4. FromBytes(SubSeq(buf, k + 1, k + m), CrcByte) = W
  BY PieceIs DEF X, s, n
<1>5. RegisterAfter(buf, k) = Xor(Z, Y)
  BY DEF RegisterAfter, X, s
<1>6. RegisterAfter(buf, k + m) = Xor(ShiftN(Z, n), Shr(Y, n))
  <2>1. ShiftN(Z, n) = ShiftN(Xor(Ones, X), s + n)
    BY <1>1, ShiftAdds
  <2>2. Shr(Y, n) = Shr(X, s + n)
    BY <1>1, <1>2, ShrShr
  <2>3. RegisterAfter(buf, k + m) = Xor(ShiftN(Xor(Ones, X), s + n), Shr(X, s + n))
    BY <1>1 DEF RegisterAfter, X
  <2> QED
    BY <2>1, <2>2, <2>3
<1> HIDE DEF Z, Y
<1>7. W \in SUBSET Nat /\ H \in SUBSET Nat /\ \A i \in H : i >= n /\ i \in Y
  <2>1. W \in SUBSET Nat /\ \A i \in Y : i \in W <=> i < n
    BY <1>3 DEF LowBits
  <2>2. W \subseteq Y
    BY DEF LowBits
  <2> HIDE DEF W
  <2>3. H \in SUBSET Nat
    BY <1>3, <2>1, XorNat
  <2>4. \A i : i \in H <=> ~(i \in Y <=> i \in W)
    BY XorIs
  <2> HIDE DEF H
  <2>5. ASSUME NEW i \in H PROVE i >= n /\ i \in Y
    <3>1. i \in Y /\ i \notin W
      BY <2>2, <2>4
    <3>2. ~(i < n) /\ i \in Nat
      BY <1>3, <2>1, <3>1
    <3> QED
      BY <1>1, <3>1, <3>2
  <2> QED
    BY <2>1, <2>3, <2>5
<1>8. Xor(Xor(Z, Y), W) = Xor(Z, H)
  BY XorSum DEF H
<1>9. Shr(H, n) = Shr(Y, n)
  <2>1. \A i \in Nat : i \in Shr(H, n) <=> i + n \in H
    BY <1>1, <1>7, ShrIs
  <2>2. \A i \in Nat : i \in Shr(Y, n) <=> i + n \in Y
    BY <1>1, <1>3, ShrIs
  <2>3. \A i \in Nat : i + n \in H <=> i + n \in Y
    <3> TAKE i \in Nat
    <3>1. ~(i + n < n)
      BY <1>1
    <3>2. i + n \notin W
      BY <3>1 DEF LowBits
    <3> HIDE DEF W
    <3> QED
      BY <3>2, XorIs
  <2>4. Shr(H, n) \in SUBSET Nat /\ Shr(Y, n) \in SUBSET Nat
    BY <1>1, <1>3, <1>7, ShrIs
  <2> HIDE DEF H, W
  <2> QED
    BY <2>1, <2>2, <2>3, <2>4
<1> HIDE DEF H, W
<1>10. ShiftN(Xor(Z, H), n) = Xor(ShiftN(Z, n), ShiftN(H, n)) /\ ShiftN(H, n) = Shr(H, n)
  BY <1>1, <1>3, <1>7, ShiftXor, ShiftMoves
<1> QED
  BY <1>4, <1>5, <1>6, <1>8, <1>9, <1>10 DEF n

LEMMA RegisterStarts ==
    ASSUME NEW buf \in Seq(CrcBytes)
    PROVE  RegisterAfter(buf, 0) = Ones
<1> DEFINE X == FromBytes(buf, CrcByte)
<1>1. X \in SUBSET Nat /\ CrcByte * 0 = 0
  BY BitsRead, CrcAssumption
<1> HIDE DEF X
<1>2. Shr(X, 0) = X
  <2>1. Shr(X, 0) \in SUBSET Nat /\ \A i \in Nat : i \in Shr(X, 0) <=> i + 0 \in X
    BY <1>1, ShrIs
  <2>2. \A i \in Nat : i + 0 = i
    OBVIOUS
  <2> QED
    BY <1>1, <2>1, <2>2
<1>3. RegisterAfter(buf, 0) = Xor(ShiftN(Xor(Ones, X), 0), Shr(X, 0))
  BY <1>1 DEF RegisterAfter, X
<1> QED
  BY <1>2, <1>3, ShiftNIs, XorSum

LEMMA OnePiece ==
    ASSUME NEW T, NEW q \in Seq(T), NEW i \in 1 .. Len(q)
    PROVE  SubSeq(q, i, i) = <<q[i]>>
<1> DEFINE p == SubSeq(q, i, i)
<1>1. i \in Int /\ \A j \in i .. i : q[j] \in T
  OBVIOUS
<1>2. /\ p \in Seq(T) /\ Len(p) = IF i <= i THEN i - i + 1 ELSE 0
      /\ \A j \in 1 .. i - i + 1 : p[j] = q[i + j - 1]
  BY <1>1, SubSeqProperties
<1> HIDE DEF p
<1>3. Len(p) = 1 /\ p[1] = q[i] /\ p \in Seq(T)
  BY <1>1, <1>2
<1>4. p = <<p[1]>>
  BY <1>3
<1> QED
  BY <1>3, <1>4 DEF p

LEMMA RegisterStep ==
    ASSUME NEW buf \in Seq(CrcBytes), NEW k \in 1 .. Len(buf)
    PROVE  RegisterAfter(buf, k) = ShiftN(Xor(RegisterAfter(buf, k - 1), buf[k]), CrcByte)
<1> DEFINE p == SubSeq(buf, k, k)
<1>1. p = <<buf[k]>>
  BY OnePiece
<1>2. FromBytes(<<buf[k]>>, CrcByte) = buf[k]
  <2> DEFINE b == buf[k]
  <2>1. \A j \in b : CrcByte * (1 - 1) + j = j
    BY CrcAssumption DEF CrcBytes
  <2> HIDE DEF b
  <2>2. FromBytes(<<b>>, CrcByte) = {CrcByte * (1 - 1) + j : j \in b}
    BY DEF FromBytes
  <2>3. FromBytes(<<b>>, CrcByte) = b
    BY <2>1, <2>2
  <2> QED
    BY <2>3 DEF b
<1>3. k - 1 \in Nat /\ 1 \in Nat /\ (k - 1) + 1 = k /\ (k - 1) + 1 <= Len(buf) /\ CrcByte * 1 = CrcByte
  BY CrcAssumption
<1>4. RegisterAfter(buf, (k - 1) + 1)
        = ShiftN(Xor(RegisterAfter(buf, k - 1), FromBytes(SubSeq(buf, (k - 1) + 1, (k - 1) + 1), CrcByte)), CrcByte * 1)
  BY <1>3, RegisterMore
<1> QED
  BY <1>1, <1>2, <1>3, <1>4

LEMMA RegisterNat ==
    ASSUME NEW buf \in Seq(CrcBytes), NEW k \in Nat
    PROVE  RegisterAfter(buf, k) \in SUBSET Nat
<1> DEFINE X == FromBytes(buf, CrcByte)  s == CrcByte * k
<1>1. X \in SUBSET Nat /\ s \in Nat /\ Ones \in SUBSET Nat
  BY BitsRead, ByteTimes, WidthIs
<1> HIDE DEF X, s
<1>2. Xor(Ones, X) \in SUBSET Nat
  BY <1>1, XorNat
<1>3. ShiftN(Xor(Ones, X), s) \in SUBSET Nat /\ Shr(X, s) \in SUBSET Nat
  BY <1>1, <1>2, ShiftNat, ShrIs
<1>4. Xor(ShiftN(Xor(Ones, X), s), Shr(X, s)) \in SUBSET Nat
  BY <1>3, XorNat
<1> QED
  BY <1>4 DEF RegisterAfter, X, s

\* A step from the table is one byte's turns of the register.
LEMMA TableIsTurns ==
    ASSUME NEW crc \in SUBSET Nat, NEW byte \in CrcBytes
    PROVE  TableStep(crc, byte) = ShiftN(Xor(crc, byte), CrcByte)
<1> DEFINE x == Xor(crc, byte)  low == LowByte(x)  high == x \ low
<1>1. CrcByte \in Nat /\ byte \in SUBSET Nat /\ \A i \in byte : i < CrcByte
  BY CrcAssumption DEF CrcBytes
<1>2. x \in SUBSET Nat
  BY <1>1, XorNat
<1>3. low \in CrcBytes /\ low \in SUBSET Nat /\ high \in SUBSET Nat /\ \A i \in high : i >= CrcByte
  <2> HIDE DEF x
  <2> QED
    BY <1>1, <1>2 DEF LowByte, CrcBytes
<1>4. x = Xor(low, high)
  <2> HIDE DEF x
  <2> QED
    BY DEF Xor, LowByte
<1>5. Shr(high, CrcByte) = Shr(crc, CrcByte)
  <2>1. \A i \in Nat : i \in Shr(high, CrcByte) <=> i + CrcByte \in high
    <3> HIDE DEF high
    <3> QED
      BY <1>1, <1>3, ShrIs
  <2>2. \A i \in Nat : i \in Shr(crc, CrcByte) <=> i + CrcByte \in crc
    BY <1>1, ShrIs
  <2>3. \A i \in Nat : i + CrcByte \in high <=> i + CrcByte \in crc
    <3> TAKE i \in Nat
    <3>1. ~(i + CrcByte < CrcByte) /\ ~(i + CrcByte \in 0 .. CrcByte - 1)
      BY <1>1
    <3>2. i + CrcByte \notin byte
      BY <1>1, <3>1
    <3>3. i + CrcByte \in x <=> i + CrcByte \in crc
      BY <3>2, XorIs
    <3> HIDE DEF x
    <3> QED
      BY <3>1, <3>3 DEF LowByte
  <2>4. Shr(high, CrcByte) \in SUBSET Nat /\ Shr(crc, CrcByte) \in SUBSET Nat
    <3> HIDE DEF high
    <3> QED
      BY <1>1, <1>3, ShrIs
  <2> HIDE DEF high
  <2> QED
    BY <2>1, <2>2, <2>3, <2>4
<1>6. TableStep(crc, byte) = Xor(ShiftN(low, CrcByte), Shr(crc, CrcByte))
  BY <1>3 DEF TableStep, Table
<1> HIDE DEF x, low, high
<1>7. ShiftN(x, CrcByte) = Xor(ShiftN(low, CrcByte), ShiftN(high, CrcByte)) /\ ShiftN(high, CrcByte) = Shr(high, CrcByte)
  BY <1>1, <1>3, <1>4, ShiftXor, ShiftMoves
<1> QED
  BY <1>5, <1>6, <1>7 DEF x

SoftSteps(f, buf) ==
    f = [i \in 0 .. Len(buf) |-> IF i = 0 THEN Not({}) ELSE TableStep(f[i - 1], buf[i])]

LEMMA SoftwareIs ==
    ASSUME NEW buf \in Seq(CrcBytes)
    PROVE  Software(buf) = Not(RegisterAfter(buf, Len(buf)))
<1> DEFINE n == Len(buf)  r == [i \in 0 .. n |-> RegisterAfter(buf, i)]  f == CHOOSE g : SoftSteps(g, buf)
<1>0. Not({}) = Ones
  BY DEF Not
<1>1. n \in Nat /\ \A i \in 1 .. n : buf[i] \in CrcBytes
  OBVIOUS
<1>2. ASSUME NEW i \in 1 .. n PROVE RegisterAfter(buf, i) = TableStep(RegisterAfter(buf, i - 1), buf[i])
  <2>1. i - 1 \in Nat
    BY <1>1
  <2>2. RegisterAfter(buf, i - 1) \in SUBSET Nat
    BY <2>1, RegisterNat
  <2> QED
    BY <1>1, <2>2, RegisterStep, TableIsTurns
<1>3. SoftSteps(r, buf)
  <2>1. ASSUME NEW i \in 0 .. n PROVE r[i] = IF i = 0 THEN Not({}) ELSE TableStep(r[i - 1], buf[i])
    <3>1. CASE i = 0
      BY <1>0, <1>1, <3>1, RegisterStarts
    <3>2. CASE i # 0
      <4>1. i \in 1 .. n /\ i - 1 \in 0 .. n
        BY <1>1, <3>2
      <4> QED
        BY <1>2, <3>2, <4>1
    <3> QED
      BY <3>1, <3>2
  <2>2. r = [i \in 0 .. n |-> r[i]]
    OBVIOUS
  <2> HIDE DEF r
  <2>3. r = [i \in 0 .. n |-> IF i = 0 THEN Not({}) ELSE TableStep(r[i - 1], buf[i])]
    BY <2>1, <2>2, Zenon
  <2> QED
    BY <2>3 DEF SoftSteps
<1>4. SoftSteps(f, buf)
  <2> HIDE DEF r
  <2> QED
    BY <1>3
<1>5. Software(buf) = Not(f[n])
  BY DEF Software, SoftSteps
<1> DEFINE G == {i \in Nat : i <= n => f[i] = RegisterAfter(buf, i)}
<1>6. \A i \in 0 .. n : f[i] = IF i = 0 THEN Not({}) ELSE TableStep(f[i - 1], buf[i])
  <2> HIDE DEF f
  <2> QED
    BY <1>4 DEF SoftSteps
<1> HIDE DEF f
<1>7. 0 \in G
  BY <1>0, <1>1, <1>6, RegisterStarts
<1>8. ASSUME NEW i \in Nat, i \in G PROVE i + 1 \in G
  <2> SUFFICES ASSUME i + 1 <= n PROVE f[i + 1] = RegisterAfter(buf, i + 1)
    OBVIOUS
  <2>1. i + 1 \in 1 .. n /\ i + 1 \in 0 .. n /\ i + 1 # 0 /\ (i + 1) - 1 = i /\ i <= n
    BY <1>1
  <2>2. f[i] = RegisterAfter(buf, i)
    BY <1>8, <2>1
  <2>3. f[i + 1] = TableStep(f[(i + 1) - 1], buf[i + 1])
    BY <1>6, <2>1
  <2>4. RegisterAfter(buf, i + 1) = TableStep(RegisterAfter(buf, (i + 1) - 1), buf[i + 1])
    BY <1>2, <2>1
  <2> QED
    BY <2>1, <2>2, <2>3, <2>4
<1>9. Nat \subseteq G
  <2> HIDE DEF G
  <2> QED
    BY <1>7, <1>8, Everywhere
<1>10. f[n] = RegisterAfter(buf, n)
  BY <1>1, <1>9
<1> QED
  BY <1>5, <1>10

\* What the instructions have taken after i steps: words first, then bytes.
TakenAfter(words, i) == IF i <= words THEN CrcWord * i ELSE CrcWord * words + (i - words)

HardWord(buf, i) == FromMemory("little", SubSeq(buf, CrcWord * (i - 1) + 1, CrcWord * i))

HardSteps(f, buf, words, n) ==
    f = [i \in 0 .. n |->
            IF i = 0 THEN Not({})
            ELSE IF i <= words THEN Instruction(f[i - 1], FromBytes(HardWord(buf, i), CrcByte), CrcWord)
            ELSE Instruction(f[i - 1], buf[(CrcWord - 1) * words + i], 1)]

\* A step of the instructions, a word or a byte, is the turns of the register that the
\* bytes it takes would make one at a time.
LEMMA HardStep ==
    ASSUME NEW buf \in Seq(CrcBytes), NEW words \in Nat, NEW rest \in Nat,
           Len(buf) = CrcWord * words + rest, NEW i \in 1 .. words + rest
    PROVE  RegisterAfter(buf, TakenAfter(words, i)) =
             IF i <= words
             THEN Instruction(RegisterAfter(buf, TakenAfter(words, i - 1)), FromBytes(HardWord(buf, i), CrcByte), CrcWord)
             ELSE Instruction(RegisterAfter(buf, TakenAfter(words, i - 1)), buf[(CrcWord - 1) * words + i], 1)
<1>1. CrcWord \in Nat /\ CrcWord # 0 /\ CrcByte \in Nat
  BY CrcAssumption
<1> DEFINE byWords == CrcWord * words
<1>2. byWords \in Nat
  <2>1. \A a, b \in Nat : a * b \in Nat
    BY Z3
  <2> QED
    BY <1>1, <2>1
<1>3. CASE i <= words
  <2> DEFINE k == CrcWord * (i - 1)
  <2>1. k \in Nat /\ CrcWord * i = k + CrcWord /\ k + CrcWord <= byWords
    <3>1. \A a, b \in Nat : a * b \in Nat
      BY Z3
    <3>2. \A a, b \in Nat : a * (b + 1) = a * b + a
      BY Z3
    <3>3. \A a, b, c \in Nat : b <= c => a * b <= a * c
      BY Z3
    <3>4. i - 1 \in Nat /\ (i - 1) + 1 = i /\ i \in Nat /\ i <= words
      BY <1>3
    <3>5. CrcWord * i <= byWords
      BY <1>1, <3>3, <3>4
    <3>6. CrcWord * ((i - 1) + 1) = CrcWord * (i - 1) + CrcWord /\ CrcWord * (i - 1) \in Nat
      BY <1>1, <3>1, <3>2, <3>4
    <3> QED
      BY <3>4, <3>5, <3>6
  <2>2. TakenAfter(words, i) = k + CrcWord /\ TakenAfter(words, i - 1) = k
    BY <1>3, <2>1 DEF TakenAfter
  <2>3. HardWord(buf, i) = SubSeq(buf, k + 1, k + CrcWord)
    BY <2>1 DEF HardWord, FromMemory
  <2> HIDE DEF k, byWords
  <2>4. k + CrcWord <= Len(buf)
    BY <1>1, <1>2, <2>1 DEF byWords
  <2>5. RegisterAfter(buf, k + CrcWord)
          = ShiftN(Xor(RegisterAfter(buf, k), FromBytes(SubSeq(buf, k + 1, k + CrcWord), CrcByte)), CrcByte * CrcWord)
    BY <1>1, <2>1, <2>4, RegisterMore
  <2>6. CrcByte * CrcWord = CrcWord * CrcByte
    BY <1>1
  <2> QED
    BY <1>3, <2>2, <2>3, <2>5, <2>6 DEF Instruction
<1>4. CASE ~(i <= words)
  <2> DEFINE k == byWords + (i - words)
  <2>1. i \in Nat /\ i >= words + 1 /\ k \in Nat /\ k >= 1 /\ k <= byWords + rest
    BY <1>2, <1>4
  <2>2. TakenAfter(words, i) = k
    BY <1>4 DEF TakenAfter
  <2>3. TakenAfter(words, i - 1) = k - 1
    <3>1. CASE i - 1 <= words
      <4>1. i - 1 = words /\ k - 1 = byWords
        BY <1>2, <2>1, <3>1
      <4> QED
        BY <3>1, <4>1 DEF TakenAfter
    <3>2. CASE ~(i - 1 <= words)
      <4>1. byWords + ((i - 1) - words) = k - 1
        BY <1>2, <2>1
      <4> QED
        BY <3>2, <4>1 DEF TakenAfter
    <3> QED
      BY <3>1, <3>2
  <2>4. (CrcWord - 1) * words + i = k
    <3>1. \A a, b \in Nat : (a - 1) * b = a * b - b
      BY Z3
    <3>2. (CrcWord - 1) * words = byWords - words
      BY <1>1, <3>1
    <3> HIDE DEF byWords
    <3> QED
      BY <1>2, <2>1, <3>2
  <2> HIDE DEF k
  <2>5. k \in 1 .. Len(buf)
    BY <1>2, <2>1
  <2>6. RegisterAfter(buf, k) = ShiftN(Xor(RegisterAfter(buf, k - 1), buf[k]), CrcByte)
    BY <2>5, RegisterStep
  <2>7. 1 * CrcByte = CrcByte
    BY <1>1
  <2> QED
    BY <1>4, <2>2, <2>3, <2>4, <2>6, <2>7 DEF Instruction
<1> QED
  BY <1>3, <1>4

LEMMA HardwareIs ==
    ASSUME NEW buf \in Seq(CrcBytes)
    PROVE  Hardware("little", buf) = Not(RegisterAfter(buf, Len(buf)))
<1> DEFINE words == Len(buf) \div CrcWord
           rest == Len(buf) % CrcWord
           n == words + rest
           At(i) == RegisterAfter(buf, TakenAfter(words, i))
           Step(x, i) == IF i <= words
                         THEN Instruction(x, FromBytes(HardWord(buf, i), CrcByte), CrcWord)
                         ELSE Instruction(x, buf[(CrcWord - 1) * words + i], 1)
           f == CHOOSE g : HardSteps(g, buf, words, n)
<1>1. words \in Nat /\ rest \in Nat /\ Len(buf) = CrcWord * words + rest /\ Len(buf) \in Nat
  <2>1. Len(buf) \in Nat /\ CrcWord \in Nat \ {0}
    BY CrcAssumption
  <2>2. \A a \in Nat : \A b \in Nat \ {0} : a \div b \in Nat /\ a % b \in Nat /\ a = b * (a \div b) + (a % b)
    BY Z3
  <2> QED
    BY <2>1, <2>2
<1>2. Hardware("little", buf) = Not(f[n])
  BY DEF Hardware, HardSteps, HardWord
<1> HIDE DEF words, rest
<1>3. n \in Nat /\ TakenAfter(words, 0) = 0 /\ TakenAfter(words, n) = Len(buf)
  <2>1. CrcWord * 0 = 0 /\ 0 <= words /\ CrcWord * words \in Nat
    <3>1. \A a, b \in Nat : a * b \in Nat
      BY Z3
    <3> QED
      BY <1>1, <3>1, CrcAssumption
  <2>2. TakenAfter(words, 0) = 0
    BY <2>1 DEF TakenAfter
  <2>3. CASE n <= words
    <3>1. rest = 0 /\ n = words
      BY <1>1, <2>3
    <3> QED
      BY <1>1, <2>1, <2>2, <2>3, <3>1 DEF TakenAfter
  <2>4. CASE ~(n <= words)
    <3>1. n - words = rest
      BY <1>1
    <3> QED
      BY <1>1, <2>1, <2>2, <2>4, <3>1 DEF TakenAfter
  <2> QED
    BY <2>3, <2>4
<1>4. At(0) = Not({})
  BY <1>3, RegisterStarts DEF Not
<1>5. \A i \in 1 .. n : At(i) = Step(At(i - 1), i)
  <2> TAKE i \in 1 .. n
  <2>1. i \in 1 .. words + rest
    OBVIOUS
  <2> QED
    BY <1>1, <2>1, HardStep
<1> DEFINE r == [i \in 0 .. n |-> At(i)]
<1> HIDE DEF At, Step
<1>6. HardSteps(r, buf, words, n)
  <2>1. ASSUME NEW i \in 0 .. n PROVE r[i] = IF i = 0 THEN Not({}) ELSE Step(r[i - 1], i)
    <3>1. CASE i = 0
      BY <1>3, <1>4, <3>1
    <3>2. CASE i # 0
      <4>1. i \in 1 .. n /\ i - 1 \in 0 .. n
        BY <1>3, <3>2
      <4> QED
        BY <1>5, <3>2, <4>1
    <3> QED
      BY <3>1, <3>2
  <2>2. r = [i \in 0 .. n |-> r[i]]
    OBVIOUS
  <2> HIDE DEF r, n
  <2>3. r = [i \in 0 .. n |-> IF i = 0 THEN Not({}) ELSE Step(r[i - 1], i)]
    BY <2>1, <2>2, Zenon
  <2> QED
    BY <2>3 DEF HardSteps, Step
<1>7. HardSteps(f, buf, words, n)
  <2> HIDE DEF r, n
  <2> QED
    BY <1>6
<1> HIDE DEF f
<1>8. \A i \in 0 .. n : f[i] = IF i = 0 THEN Not({}) ELSE Step(f[i - 1], i)
  BY <1>7 DEF HardSteps, Step
<1> HIDE DEF n
<1> DEFINE G == {i \in Nat : i <= n => f[i] = At(i)}
<1>9. 0 \in G
  BY <1>3, <1>4, <1>8
<1>10. ASSUME NEW i \in Nat, i \in G PROVE i + 1 \in G
  <2> SUFFICES ASSUME i + 1 <= n PROVE f[i + 1] = At(i + 1)
    OBVIOUS
  <2>1. i + 1 \in 1 .. n /\ i + 1 \in 0 .. n /\ i + 1 # 0 /\ (i + 1) - 1 = i /\ i <= n
    BY <1>3
  <2>2. f[i] = At(i)
    BY <1>10, <2>1
  <2>3. f[i + 1] = Step(f[(i + 1) - 1], i + 1)
    BY <1>8, <2>1
  <2>4. At(i + 1) = Step(At((i + 1) - 1), i + 1)
    BY <1>5, <2>1
  <2> QED
    BY <2>1, <2>2, <2>3, <2>4
<1>11. Nat \subseteq G
  <2> HIDE DEF G
  <2> QED
    BY <1>9, <1>10, Everywhere
<1>12. f[n] = At(n)
  BY <1>3, <1>11
<1> QED
  BY <1>2, <1>3, <1>12 DEF At

\* Every build computes the same checksum: what the register holds in the end, inverted.
LEMMA CrcIs ==
    ASSUME NEW build \in Builds, NEW buf \in Seq(CrcBytes)
    PROVE  Crc(build, buf) = Not(RegisterAfter(buf, Len(buf)))
<1>1. build.hardware => build.order = "little"
  BY DEF Builds
<1> QED
  BY <1>1, SoftwareIs, HardwareIs DEF Crc

\* Little-endian in memory on every host: the bytes of a word are written and read as
\* they stand.
LEMMA TwiceReversed ==
    ASSUME NEW T, NEW q \in Seq(T)
    PROVE  Reverse(Reverse(q)) = q /\ Reverse(q) \in Seq(T)
<1> DEFINE n == Len(q)  r == Reverse(q)
<1>1. n \in Nat /\ q = [i \in 1 .. n |-> q[i]] /\ \A i \in 1 .. n : q[i] \in T
  OBVIOUS
<1>2. r = [i \in 1 .. n |-> q[(n - i) + 1]]
  BY DEF Reverse
<1>3. \A i \in 1 .. n : (n - i) + 1 \in 1 .. n /\ (n - ((n - i) + 1)) + 1 = i
  BY <1>1
<1>4. r \in [1 .. n -> T]
  BY <1>1, <1>2, <1>3
<1> HIDE DEF r
<1>5. r \in Seq(T) /\ Len(r) = n
  BY <1>1, <1>4, OfLength
<1>6. Reverse(r) = [i \in 1 .. n |-> r[(n - i) + 1]]
  BY <1>5 DEF Reverse
<1>7. \A i \in 1 .. n : r[(n - i) + 1] = q[i]
  BY <1>2, <1>3
<1>8. Reverse(r) = [i \in 1 .. n |-> q[i]]
  BY <1>6, <1>7
<1> QED
  BY <1>1, <1>5, <1>8 DEF r

LEMMA LittleEndian ==
    ASSUME NEW T, NEW q \in Seq(T), NEW order \in ByteOrders
    PROVE  WriteLE(order, q) = q /\ ReadLE(order, q) = q
BY TwiceReversed DEF WriteLE, ReadLE, InMemory, FromMemory, BSwap, ByteOrders

LEMMA ShrZero == ASSUME NEW x \in SUBSET Nat PROVE Shr(x, 0) = x
<1>1. Shr(x, 0) \in SUBSET Nat /\ \A i \in Nat : i \in Shr(x, 0) <=> i + 0 \in x
  BY ShrIs
<1>2. \A i \in Nat : i + 0 = i
  OBVIOUS
<1> QED
  BY <1>1, <1>2

\* The bits of a packet up to its checksum, and those of the checksum.
Checks(build, buf) ==
    Crc(build, SubSeq(buf, 1, Len(buf) - CrcSize))
        = FromBytes(ReadLE(build.order, SubSeq(buf, (Len(buf) - CrcSize) + 1, Len(buf))), CrcByte)

LEMMA ChecksIs ==
    ASSUME NEW build \in Builds, NEW buf \in Seq(CrcBytes), Len(buf) >= CrcSize
    PROVE  Checks(build, buf)
             <=> ShiftN(Xor(Ones, FromBytes(buf, CrcByte)), CrcByte * (Len(buf) - CrcSize)) = Ones
<1> DEFINE L == Len(buf) - CrcSize  s == CrcByte * L  X == FromBytes(buf, CrcByte)  W == LowBits(X, s)  H == Xor(X, W)
           M == SubSeq(buf, 1, L)  D == Shr(X, s)  U == Xor(Ones, W)  R == ShiftN(U, s)
<1>1. L \in Nat /\ CrcSize \in Nat /\ Len(buf) \in Nat /\ L + CrcSize = Len(buf) /\ 0 + L <= Len(buf) /\ 0 + L = L
  BY CrcAssumption
<1>2. s \in Nat /\ CrcByte * 0 = 0 /\ CrcByte * Len(buf) = s + Width
  <2>1. \A x, y, z \in Nat : x * (y + z) = x * y + x * z
    BY Z3
  <2>2. CrcByte * (L + CrcSize) = CrcByte * L + CrcByte * CrcSize
    BY <1>1, <2>1, CrcAssumption
  <2>3. CrcByte * 0 = 0
    BY CrcAssumption
  <2> QED
    BY <1>1, <2>2, <2>3, ByteTimes DEF Width
<1>3. X \in SUBSET Nat /\ \A i \in X : i < s + Width
  BY <1>2, BitsRead
<1>4. M \in Seq(CrcBytes) /\ Len(M) = L /\ FromBytes(M, CrcByte) = W
  <2>1. /\ SubSeq(buf, 0 + 1, 0 + L) \in Seq(CrcBytes) /\ Len(SubSeq(buf, 0 + 1, 0 + L)) = L
        /\ FromBytes(SubSeq(buf, 0 + 1, 0 + L), CrcByte) = LowBits(Shr(X, CrcByte * 0), CrcByte * L)
    BY <1>1, PieceIs, ZenonT(30)
  <2>2. Shr(X, CrcByte * 0) = X
    BY <1>2, <1>3, ShrZero
  <2>3. 0 + 1 = 1
    OBVIOUS
  <2> HIDE DEF X, s, L
  <2> QED
    BY <1>1, <2>1, <2>2, <2>3, SMTT(30) DEF s
<1>5. Shr(X, s) \in SUBSET Nat /\ \A i \in Nat : i \in Shr(X, s) <=> i + s \in X
  <2> HIDE DEF X, s
  <2> QED
    BY <1>2, <1>3, ShrIs
<1>6. D \in SUBSET Ones
  <2>1. \A i \in Nat : i + s < s + Width => i < Width
    BY <1>2, WidthIs
  <2> HIDE DEF X, s
  <2> QED
    BY <1>3, <1>5, <2>1, WidthIs
<1>7. FromBytes(ReadLE(build.order, SubSeq(buf, L + 1, Len(buf))), CrcByte) = D
  <2>1. /\ SubSeq(buf, L + 1, L + CrcSize) \in Seq(CrcBytes)
        /\ FromBytes(SubSeq(buf, L + 1, L + CrcSize), CrcByte) = LowBits(Shr(X, CrcByte * L), CrcByte * CrcSize)
    BY <1>1, PieceIs
  <2>2. LowBits(D, Width) = D
    <3> HIDE DEF D
    <3> QED
      BY <1>6, WidthIs DEF LowBits
  <2>3. build.order \in ByteOrders
    BY DEF Builds, ByteOrders
  <2>4. SubSeq(buf, L + 1, L + CrcSize) = SubSeq(buf, L + 1, Len(buf))
    BY <1>1
  <2> HIDE DEF L, X
  <2>5. ReadLE(build.order, SubSeq(buf, L + 1, Len(buf))) = SubSeq(buf, L + 1, Len(buf))
    BY <2>1, <2>3, <2>4, LittleEndian
  <2> QED
    BY <2>1, <2>2, <2>4, <2>5 DEF Width
<1> HIDE DEF X, s, L
<1>8. W \in SUBSET Nat /\ (\A i \in W : i < s) /\ Shr(W, s) = {}
  <2>1. W \in SUBSET Nat /\ (\A i \in W : i < s)
    BY <1>3 DEF LowBits
  <2> HIDE DEF W
  <2>2. Shr(W, s) \in SUBSET Nat /\ \A i \in Nat : i \in Shr(W, s) <=> i + s \in W
    BY <1>2, <2>1, ShrIs
  <2>3. \A i \in Nat : ~(i + s < s)
    BY <1>2
  <2> QED
    BY <2>1, <2>2, <2>3
<1>9. H \in SUBSET Nat /\ (\A i \in H : i >= s) /\ Shr(H, s) = D
  <2>1. H \in SUBSET Nat
    <3> HIDE DEF W
    <3> QED
      BY <1>3, <1>8, XorNat
  <2>2. \A i \in X : i \in W <=> i < s
    BY DEF LowBits
  <2>3. W \subseteq X
    BY DEF LowBits
  <2> HIDE DEF W
  <2>4. \A i : i \in H <=> ~(i \in X <=> i \in W)
    BY XorIs
  <2> HIDE DEF H
  <2>5. \A i \in H : i \in X /\ i \notin W
    BY <2>3, <2>4
  <2>6. \A i \in Nat : i >= s <=> ~(i < s)
    BY <1>2
  <2>7. \A i \in H : i >= s
    BY <1>3, <2>2, <2>5, <2>6
  <2>8. Shr(H, s) \in SUBSET Nat /\ \A i \in Nat : i \in Shr(H, s) <=> i + s \in H
    BY <1>2, <2>1, ShrIs
  <2>9. \A i \in Nat : i + s \in H <=> i + s \in X
    <3> TAKE i \in Nat
    <3>1. ~(i + s < s)
      BY <1>2
    <3>2. i + s \notin W
      BY <1>8, <3>1
    <3> QED
      BY <2>4, <3>2
  <2> QED
    BY <1>5, <2>1, <2>7, <2>8, <2>9
<1>10. R \in SUBSET Ones
  <2>1. U \in SUBSET Nat
    <3> HIDE DEF W
    <3> QED
      BY <1>8, WidthIs, XorNat
  <2>2. \A i \in U : i < Width + s
    <3> TAKE i \in U
    <3>1. i \in Ones \/ i \in W
      <4> HIDE DEF W
      <4> QED
        BY DEF Xor
    <3>2. i \in Nat /\ (i < Width \/ i < s)
      BY <1>8, <2>1, <3>1, WidthIs
    <3> QED
      BY <1>2, <3>2, WidthIs
  <2> HIDE DEF U
  <2> QED
    BY <1>2, <2>1, <2>2, ShiftFits
<1>11. RegisterAfter(M, L) = R
  <2>1. RegisterAfter(M, L) = Xor(ShiftN(Xor(Ones, W), s), Shr(W, s))
    <3> HIDE DEF M, W
    <3> QED
      BY <1>4 DEF RegisterAfter, s
  <2> HIDE DEF M, W
  <2> QED
    BY <1>8, <2>1, XorSum
<1>12. Crc(build, M) = Not(R)
  <2> HIDE DEF M, R
  <2> QED
    BY <1>4, <1>11, CrcIs
<1>13. ShiftN(Xor(Ones, X), s) = Xor(R, D)
  <2>1. Xor(Ones, X) = Xor(U, H)
    <3> HIDE DEF W
    <3>1. X = Xor(W, H)
      BY XorSum
    <3> HIDE DEF H
    <3> QED
      BY <3>1, XorSum
  <2>2. U \in SUBSET Nat
    <3> HIDE DEF W
    <3> QED
      BY <1>8, WidthIs, XorNat
  <2> HIDE DEF U, H
  <2>3. ShiftN(Xor(U, H), s) = Xor(ShiftN(U, s), ShiftN(H, s)) /\ ShiftN(H, s) = Shr(H, s)
    BY <1>2, <1>9, <2>2, ShiftXor, ShiftMoves
  <2> QED
    BY <1>9, <2>1, <2>3
<1>14. Not(R) = D <=> Xor(R, D) = Ones
  <2> HIDE DEF R, D
  <2> HIDE DEF Ones
  <2> QED
    BY <1>6, <1>10 DEF Not, Xor
<1>15. Checks(build, buf) <=> Crc(build, M) = D
  BY <1>7 DEF Checks, L
<1> QED
  BY <1>12, <1>13, <1>14, <1>15 DEF X, s, L

LEMMA ValidatedIs ==
    ASSUME NEW build, NEW buf
    PROVE  Validated(build, buf)
             = IF Len(buf) >= CrcSize /\ Checks(build, buf) THEN Len(buf) - CrcSize ELSE 0
BY DEF Validated, Checks

\* A burst leaves its trace in the register, wherever it lies.
LEMMA BurstLeavesTrace ==
    ASSUME NEW burst \in SUBSET Ones, 0 \in burst, NEW first \in Nat, NEW s \in Nat
    PROVE  LET E == {first + i : i \in burst}
           IN  E \in SUBSET Nat /\ E # {} /\ ShiftN(E, s) \in SUBSET Nat /\ ShiftN(E, s) # {}
<1> DEFINE E == {first + i : i \in burst}
<1>1. burst \in SUBSET Nat
  BY WidthIs
<1>2. E \in SUBSET Nat /\ first \in E /\ \A i \in E : i >= first
  BY <1>1
<1>3. \A i \in Nat : i \in burst <=> i + first \in E
  <2>1. \A i, j \in Nat : i + first = first + j => i = j
    OBVIOUS
  <2>2. \A i \in Nat : i + first = first + i
    OBVIOUS
  <2> QED
    BY <1>1, <2>1, <2>2
<1> HIDE DEF E
<1>4. ShiftN(E, s) \in SUBSET Nat
  BY <1>2, ShiftNat
<1>5. CASE first >= s
  <2>1. \A i \in E : i >= s
    BY <1>2, <1>5
  <2>2. ShiftN(E, s) = Shr(E, s)
    BY <1>2, <2>1, ShiftMoves
  <2>3. first - s \in Nat /\ (first - s) + s = first
    BY <1>5
  <2>4. first - s \in Shr(E, s)
    <3>1. \A i \in Nat : i \in Shr(E, s) <=> i + s \in E
      BY <1>2, ShrIs
    <3> QED
      BY <1>2, <2>3, <3>1
  <2> QED
    BY <1>2, <1>4, <2>2, <2>4 DEF E
<1>6. CASE ~(first >= s)
  <2>1. s - first \in Nat /\ first + (s - first) = s
    BY <1>6
  <2>2. ShiftN(E, first) = Shr(E, first)
    BY <1>2, ShiftMoves
  <2>3. Shr(E, first) \in SUBSET Nat /\ \A i \in Nat : i \in Shr(E, first) <=> i + first \in E
    BY <1>2, ShrIs
  <2>4. ShiftN(E, first) = burst
    BY <1>1, <1>3, <2>2, <2>3
  <2>5. ShiftN(ShiftN(E, first), s - first) = ShiftN(E, first + (s - first))
    BY <2>1, ShiftAdds
  <2>6. ShiftN(burst, s - first) # {}
    BY <2>1, ShiftKeeps
  <2> QED
    BY <1>2, <1>4, <2>1, <2>4, <2>5, <2>6 DEF E
<1> QED
  BY <1>5, <1>6

LEMMA PieceAs ==
    ASSUME NEW T, NEW q \in Seq(T), NEW k \in Nat, NEW t \in Seq(T), k + Len(t) <= Len(q),
           \A i \in 1 .. Len(t) : q[k + i] = t[i]
    PROVE  SubSeq(q, k + 1, k + Len(t)) = t
<1> DEFINE m == Len(t)  p == SubSeq(q, k + 1, k + m)
<1>1. m \in Nat /\ Len(q) \in Nat /\ k + 1 \in Int /\ k + m \in Int /\ \A j \in k + 1 .. k + m : q[j] \in T
  OBVIOUS
<1>2. /\ p \in Seq(T) /\ Len(p) = IF k + 1 <= k + m THEN k + m - (k + 1) + 1 ELSE 0
      /\ \A j \in 1 .. k + m - (k + 1) + 1 : p[j] = q[(k + 1) + j - 1]
  BY <1>1, SubSeqProperties
<1> HIDE DEF p
<1>3. Len(p) = m /\ \A j \in 1 .. m : p[j] = t[j]
  <2>1. \A j \in 1 .. m : j \in 1 .. k + m - (k + 1) + 1 /\ (k + 1) + j - 1 = k + j
    BY <1>1
  <2> HIDE DEF m
  <2>2. Len(p) = m
    BY <1>1, <1>2
  <2>3. \A j \in 1 .. m : p[j] = t[j]
    BY <1>2, <2>1 DEF m
  <2> QED
    BY <2>2, <2>3
<1>4. p = [j \in 1 .. m |-> p[j]] /\ t = [j \in 1 .. m |-> t[j]]
  BY <1>2, <1>3
<1> QED
  BY <1>3, <1>4 DEF p

\* The packet that leaves, whatever the sender is built for.
Checked(p) == p \o BytesOf(Not(RegisterAfter(p, Len(p))), CrcSize, CrcByte)

LEMMA CheckedIs ==
    ASSUME NEW p \in Seq(CrcBytes)
    PROVE  /\ Checked(p) \in Seq(CrcBytes) /\ Len(Checked(p)) = Len(p) + CrcSize
           /\ \A build \in Builds : Appended(build, p) = Checked(p) /\ Checks(build, Checked(p))
<1> DEFINE C == Not(RegisterAfter(p, Len(p)))  t == BytesOf(C, CrcSize, CrcByte)  q == Checked(p)
<1>1. CrcSize \in Nat /\ Len(p) \in Nat
  BY CrcAssumption
<1>2. C \in SUBSET Nat /\ \A i \in C : i < CrcByte * CrcSize
  <2>1. C \subseteq Ones
    BY DEF Not
  <2> HIDE DEF C
  <2> QED
    BY <2>1, WidthIs DEF Width
<1> HIDE DEF C
<1>3. t \in Seq(CrcBytes) /\ Len(t) = CrcSize /\ FromBytes(t, CrcByte) = C
  BY <1>1, <1>2, BytesBack
<1>4. q = p \o t
  BY DEF Checked, C
<1> HIDE DEF t, q
<1>5. q \in Seq(CrcBytes) /\ Len(q) = Len(p) + CrcSize
  BY <1>1, <1>3, <1>4, JoinedIs
<1>6. SubSeq(q, 1, Len(p)) = p /\ SubSeq(q, Len(p) + 1, Len(q)) = t
  <2>1. \A i \in 1 .. Len(p) : q[i] = p[i]
    BY <1>3, <1>4, JoinedIs
  <2>2. \A i \in 1 .. Len(t) : q[Len(p) + i] = t[i]
    BY <1>3, <1>4, JoinedIs
  <2>3. SubSeq(q, 0 + 1, 0 + Len(p)) = p
    <3>1. 0 + Len(p) <= Len(q) /\ \A i \in 1 .. Len(p) : q[0 + i] = p[i]
      BY <1>1, <1>5, <2>1
    <3> QED
      BY <1>5, <3>1, PieceAs
  <2>4. SubSeq(q, Len(p) + 1, Len(p) + Len(t)) = t
    <3>1. Len(p) + Len(t) <= Len(q)
      BY <1>1, <1>3, <1>5
    <3> QED
      BY <1>1, <1>3, <1>5, <2>2, <3>1, PieceAs
  <2>5. 0 + 1 = 1 /\ 0 + Len(p) = Len(p) /\ Len(p) + Len(t) = Len(q)
    BY <1>1, <1>3, <1>5
  <2> QED
    BY <2>3, <2>4, <2>5
<1>7. ASSUME NEW build \in Builds PROVE Appended(build, p) = q /\ Checks(build, q)
  <2>1. build.order \in ByteOrders
    BY DEF Builds, ByteOrders
  <2>2. WriteLE(build.order, t) = t /\ ReadLE(build.order, t) = t
    BY <1>3, <2>1, LittleEndian
  <2>3. Crc(build, p) = C
    BY CrcIs DEF C
  <2>4. Appended(build, p) = q
    BY <1>4, <2>2, <2>3 DEF Appended, t
  <2>5. Len(q) - CrcSize = Len(p)
    BY <1>1, <1>5
  <2> QED
    BY <1>3, <1>6, <2>2, <2>3, <2>4, <2>5 DEF Checks
<1> QED
  BY <1>5, <1>7 DEF q

\* Flipped bits are noticed.
LEMMA BurstIsSeen ==
    ASSUME NEW p \in Seq(CrcBytes), NEW first \in Nat, NEW burst \in SUBSET Ones, 0 \in burst,
           \A i \in burst : first + i < CrcByte * Len(Checked(p)), NEW build \in Builds
    PROVE  LET c == BytesOf(Xor(FromBytes(Checked(p), CrcByte), {first + i : i \in burst}),
                            Len(Checked(p)), CrcByte)
           IN  c # Checked(p) /\ Validated(build, c) = 0
<1> DEFINE q == Checked(p)  n == Len(q)  X == FromBytes(q, CrcByte)  E == {first + i : i \in burst}
           Y == Xor(X, E)  c == BytesOf(Y, n, CrcByte)  s == CrcByte * (n - CrcSize)
<1>1. q \in Seq(CrcBytes) /\ n \in Nat /\ n >= CrcSize /\ n - CrcSize \in Nat /\ Checks(build, q)
  <2>1. Len(p) \in Nat /\ CrcSize \in Nat
    BY CrcAssumption
  <2>2. q \in Seq(CrcBytes) /\ n = Len(p) + CrcSize /\ Checks(build, q)
    BY CheckedIs
  <2> HIDE DEF q
  <2> QED
    BY <2>1, <2>2
<1>2. s \in Nat
  <2> HIDE DEF n
  <2> QED
    BY <1>1, ByteTimes
<1>3. E \in SUBSET Nat /\ E # {} /\ ShiftN(E, s) \in SUBSET Nat /\ ShiftN(E, s) # {}
  <2> HIDE DEF s
  <2> QED
    BY <1>2, BurstLeavesTrace
<1>4. \A i \in E : i < CrcByte * n
  OBVIOUS
<1> HIDE DEF q, E, s
<1>5. X \in SUBSET Nat /\ \A i \in X : i < CrcByte * n
  BY <1>1, BitsRead
<1> HIDE DEF X, n
<1>6. Y \in SUBSET Nat /\ \A i \in Y : i < CrcByte * n
  <2>1. Y \in SUBSET Nat
    BY <1>3, <1>5, XorNat
  <2>2. \A i \in Y : i \in X \/ i \in E
    BY DEF Xor
  <2> HIDE DEF Y
  <2> QED
    BY <1>4, <1>5, <2>1, <2>2
<1>7. Y # X
  BY <1>3, XorSum
<1>8. ShiftN(Xor(Ones, X), s) = Ones
  <2>1. Checks(build, q) <=> ShiftN(Xor(Ones, FromBytes(q, CrcByte)), CrcByte * (Len(q) - CrcSize)) = Ones
    BY <1>1, ChecksIs DEF n
  <2> QED
    BY <1>1, <2>1 DEF X, n, s
<1>9. ShiftN(Xor(Ones, Y), s) # Ones
  <2>1. Xor(Ones, Y) = Xor(Xor(Ones, X), E)
    BY XorSum
  <2>2. Xor(Ones, X) \in SUBSET Nat
    BY <1>5, WidthIs, XorNat
  <2> DEFINE V == Xor(Ones, X)
  <2> HIDE DEF V
  <2>3. ShiftN(Xor(V, E), s) = Xor(ShiftN(V, s), ShiftN(E, s))
    BY <1>2, <1>3, <2>2, ShiftXor DEF V
  <2>4. ShiftN(Xor(Ones, Y), s) = Xor(Ones, ShiftN(E, s))
    BY <1>8, <2>1, <2>3 DEF V
  <2> QED
    BY <1>3, <2>4, XorSum
<1> HIDE DEF Y
<1>10. c \in Seq(CrcBytes) /\ Len(c) = n /\ FromBytes(c, CrcByte) = Y
  BY <1>1, <1>6, BytesBack
<1> HIDE DEF c
<1>11. c # q
  BY <1>7, <1>10 DEF X
<1>12. ~Checks(build, c)
  <2>1. Len(c) >= CrcSize /\ CrcByte * (Len(c) - CrcSize) = s
    BY <1>1, <1>10 DEF s
  <2>2. Checks(build, c) <=> ShiftN(Xor(Ones, FromBytes(c, CrcByte)), CrcByte * (Len(c) - CrcSize)) = Ones
    BY <1>10, <2>1, ChecksIs
  <2> QED
    BY <1>9, <1>10, <2>1, <2>2
<1>13. Validated(build, c) = 0
  BY <1>12, ValidatedIs
<1> QED
  BY <1>11, <1>13 DEF c, Y, E, X, n, q

\* The inductive invariant: what left is the payload with its checksum, and any build
\* would judge what arrived as it should.
ChecksumInv ==
    /\ payload \in CrcPayloads
    /\ sealed = NoPacket => verdict = NoVerdict
    /\ sealed # NoPacket =>
           /\ sealed = Checked(payload)
           /\ \A build \in Builds : Validated(build, carried) = IF carried = sealed THEN Len(payload) ELSE 0
    /\ DamageIsFound

LEMMA CheckedAccepted ==
    ASSUME NEW p \in Seq(CrcBytes), NEW build \in Builds
    PROVE  Checked(p) # NoPacket /\ Validated(build, Checked(p)) = Len(p)
<1>1. Len(Checked(p)) = Len(p) + CrcSize /\ Checks(build, Checked(p))
  BY CheckedIs
<1>2. Len(p) \in Nat /\ CrcSize \in Nat \ {0}
  BY CrcAssumption
<1>3. Len(p) + CrcSize >= CrcSize /\ Len(p) + CrcSize # 0 /\ (Len(p) + CrcSize) - CrcSize = Len(p)
  BY <1>2
<1>4. Len(NoPacket) = 0
  BY DEF NoPacket
<1> QED
  BY <1>1, <1>3, <1>4, ValidatedIs

LEMMA RuntRefused ==
    ASSUME NEW p \in Seq(CrcBytes), NEW n \in 0 .. CrcSize - 1, NEW build \in Builds
    PROVE  LET c == SubSeq(Checked(p), 1, n) IN c # Checked(p) /\ Validated(build, c) = 0
<1> DEFINE q == Checked(p)  c == SubSeq(q, 1, n)
<1>1. q \in Seq(CrcBytes) /\ Len(q) = Len(p) + CrcSize
  BY CheckedIs
<1>2. Len(p) \in Nat /\ CrcSize \in Nat \ {0} /\ n \in Nat /\ n < CrcSize
  BY CrcAssumption
<1> HIDE DEF q
<1>3. Len(c) = n
  <2>1. 1 \in Int /\ n \in Int /\ \A j \in 1 .. n : q[j] \in CrcBytes
    BY <1>1, <1>2
  <2>2. Len(c) = IF 1 <= n THEN n - 1 + 1 ELSE 0
    BY <2>1, SubSeqProperties
  <2> HIDE DEF c
  <2> QED
    BY <1>2, <2>2
<1> HIDE DEF c
<1>4. ~(n >= CrcSize) /\ n # Len(p) + CrcSize
  BY <1>2
<1> QED
  BY <1>1, <1>3, <1>4, ValidatedIs DEF c, q

LEMMA ChecksumStep == ChecksumInv /\ [ChecksumNext]_checksumVars => ChecksumInv'
<1> SUFFICES ASSUME ChecksumInv, [ChecksumNext]_checksumVars PROVE ChecksumInv'
  OBVIOUS
<1>0. payload \in Seq(CrcBytes) /\ payload' = payload
  BY ChecksumAssumption DEF ChecksumInv, ChecksumNext, FlipBits, Runt, AppendCrc, ValidateCrc, checksumVars
<1>1. ASSUME NEW build \in Builds, AppendCrc(build) PROVE ChecksumInv'
  <2>1. sealed = NoPacket /\ verdict = NoVerdict /\ verdict' = verdict
        /\ sealed' = Appended(build, payload) /\ carried' = sealed'
    BY <1>1 DEF AppendCrc, ChecksumInv
  <2>2. sealed' = Checked(payload)
    BY <1>0, <2>1, CheckedIs
  <2>3. \A b \in Builds : Validated(b, carried') = Len(payload)
    BY <1>0, <2>1, <2>2, CheckedAccepted
  <2> QED
    BY <1>0, <2>1, <2>2, <2>3, CheckedAccepted DEF ChecksumInv, DamageIsFound
<1>2. ASSUME FlipBits PROVE ChecksumInv'
  <2>1. sealed # NoPacket /\ sealed = Checked(payload) /\ verdict = NoVerdict /\ sealed' = sealed /\ verdict' = verdict
    BY <1>2 DEF FlipBits, ChecksumInv
  <2>2. PICK first \in 0 .. CrcByte * Len(sealed) - 1, burst \in SUBSET Ones :
            /\ 0 \in burst /\ \A i \in burst : first + i < CrcByte * Len(sealed)
            /\ carried' = BytesOf(Xor(FromBytes(sealed, CrcByte), {first + i : i \in burst}), Len(sealed), CrcByte)
    BY <1>2 DEF FlipBits
  <2>3. ASSUME NEW b \in Builds PROVE carried' # sealed /\ Validated(b, carried') = 0
    <3>1. first \in Nat
      BY <2>2
    <3> QED
      BY <1>0, <2>1, <2>2, <3>1, BurstIsSeen
  <2>4. \A b \in Builds : Validated(b, carried') = IF carried' = sealed' THEN Len(payload) ELSE 0
    BY <2>1, <2>3
  <2> QED
    BY <1>0, <2>1, <2>4 DEF ChecksumInv, DamageIsFound
<1>3. ASSUME Runt PROVE ChecksumInv'
  <2>1. sealed # NoPacket /\ sealed = Checked(payload) /\ verdict = NoVerdict /\ sealed' = sealed /\ verdict' = verdict
    BY <1>3 DEF Runt, ChecksumInv
  <2>2. PICK n \in 0 .. CrcSize - 1 : carried' = SubSeq(sealed, 1, n)
    BY <1>3 DEF Runt
  <2>3. ASSUME NEW b \in Builds PROVE carried' # sealed /\ Validated(b, carried') = 0
    BY <1>0, <2>1, <2>2, RuntRefused
  <2>4. \A b \in Builds : Validated(b, carried') = IF carried' = sealed' THEN Len(payload) ELSE 0
    BY <2>1, <2>3
  <2> QED
    BY <1>0, <2>1, <2>4 DEF ChecksumInv, DamageIsFound
<1>4. ASSUME NEW build \in Builds, ValidateCrc(build) PROVE ChecksumInv'
  BY <1>4 DEF ValidateCrc, ChecksumInv, DamageIsFound
<1>5. CASE UNCHANGED checksumVars
  BY <1>5 DEF checksumVars, ChecksumInv, DamageIsFound
<1> QED
  BY <1>1, <1>2, <1>3, <1>4, <1>5 DEF ChecksumNext

\* DamageIsFound: for every width of a byte, of the checksum and of the instructions'
\* words, every polynomial whose lowest power is there, and every two builds, a packet
\* is accepted as it was sent and refused with a burst of flipped bits in it
\* (nn_crc32c_append, nn_crc32c_validate).
THEOREM DamageFound == ChecksumSpec => []DamageIsFound
<1>1. ChecksumInit => ChecksumInv
  BY DEF ChecksumInit, ChecksumInv, DamageIsFound
<1>2. ChecksumInv => DamageIsFound
  BY DEF ChecksumInv
<1> QED
  BY <1>1, <1>2, ChecksumStep, PTL DEF ChecksumSpec

-----------------------------------------------------------------------------
(* Sealing: what opens is what was sealed, and no byte of the key stream covers two of
   what was sealed, for blocks of any size and messages of any length. *)

\* The atoms of a byte: what a plaintext has there, and bytes of the key stream.
AeadAtoms ==
    {<<v>> : v \in Nat}
        \cup {StreamByte(Nonce(c, id), b, o) : c \in Nat, id \in Protocols, b \in Nat, o \in Nat}
AeadByte == SUBSET AeadAtoms

PlainBytes(plain)  == [i \in DOMAIN plain |-> PlainByte(plain[i])]
Sealed(c, plain) ==
    LET cipher == Crypt(Nonce(c, protocol), PlainBytes(plain))
    IN  Packet(c, cipher, TagOf(Nonce(c, protocol), cipher))

\* A packet as nn_crypto_decrypt may be given it: any counter and any bytes, and a tag
\* that one of the sealed packets has.
Tagged(packet) ==
    /\ packet = Packet(packet.counter, packet.data, packet.tag)
    /\ packet.data \in Seq(AeadByte)
    /\ \E sent \in onWire : packet.tag = sent.tag

\* The inductive invariant.  A packet that was refused may not become one that was sealed
\* later: its tag is of a counter that is used up.
SealInv ==
    /\ protocol \in Protocols
    /\ sendNonce \in Nat /\ plainOf \in Seq(Seq(Nat)) /\ Len(plainOf) = sendNonce
    /\ \A packet \in onWire : \E c \in 0 .. sendNonce - 1 : packet = Sealed(c, plainOf[c + 1])
    /\ tried # <<>> =>
           \E packet, id : /\ tried = <<packet, id>> /\ Tagged(packet)
                           /\ outcome = Opened(id, packet)

\* XOR with the same byte twice leaves what was there.
LEMMA XorTwice == \A x, y : XorBytes(XorBytes(x, y), y) = x
BY DEF XorBytes

LEMMA XorIsByte == \A x, y \in AeadByte : XorBytes(x, y) \in AeadByte
BY DEF XorBytes, AeadByte

\* Places of a message in blocks of the key stream.
LEMMA StreamPlace ==
    ASSUME NEW n \in Nat
    PROVE  /\ n \div StreamBlock \in Nat /\ n % StreamBlock \in Nat
           /\ n = StreamBlock * (n \div StreamBlock) + (n % StreamBlock)
BY AeadAssumption

LEMMA CryptIsBytes ==
    ASSUME NEW c \in Nat, NEW id \in Protocols, NEW data \in Seq(AeadByte)
    PROVE  Crypt(Nonce(c, id), data) \in Seq(AeadByte) /\ Len(Crypt(Nonce(c, id), data)) = Len(data)
<1> DEFINE At(i) == StreamByte(Nonce(c, id), 1 + (i - 1) \div StreamBlock, (i - 1) % StreamBlock)
<1>1. ASSUME NEW i \in 1 .. Len(data) PROVE XorBytes(data[i], {At(i)}) \in AeadByte
  <2>1. i - 1 \in Nat
    OBVIOUS
  <2>2. (i - 1) \div StreamBlock \in Nat /\ (i - 1) % StreamBlock \in Nat
    BY <2>1, StreamPlace
  <2> DEFINE b == (i - 1) \div StreamBlock  o == (i - 1) % StreamBlock
  <2>3. b \in Nat /\ o \in Nat /\ 1 + b \in Nat
    BY <2>2
  <2> HIDE DEF b, o
  <2>4. StreamByte(Nonce(c, id), 1 + b, o) \in AeadAtoms
    BY <2>3 DEF AeadAtoms
  <2>5. At(i) \in AeadAtoms
    BY <2>4 DEF b, o
  <2> HIDE DEF At
  <2>6. {At(i)} \in AeadByte /\ data[i] \in AeadByte
    BY <2>5 DEF AeadByte
  <2> QED
    BY <2>6, XorIsByte
<1>2. Crypt(Nonce(c, id), data) = [i \in 1 .. Len(data) |-> XorBytes(data[i], {At(i)})]
  <2>1. DOMAIN data = 1 .. Len(data)
    OBVIOUS
  <2> QED
    BY <2>1, Zenon DEF Crypt
<1> HIDE DEF At
<1>3. Crypt(Nonce(c, id), data) \in [1 .. Len(data) -> AeadByte]
  BY <1>1, <1>2
<1>4. Len(data) \in Nat
  OBVIOUS
<1> QED
  BY <1>3, <1>4, OfLength

LEMMA PlainIsBytes ==
    ASSUME NEW plain \in Seq(Nat)
    PROVE  PlainBytes(plain) \in Seq(AeadByte) /\ Len(PlainBytes(plain)) = Len(plain)
<1>1. \A v \in Nat : PlainByte(v) \in AeadByte
  BY DEF PlainByte, AeadByte, AeadAtoms
<1>2. PlainBytes(plain) \in [1 .. Len(plain) -> AeadByte]
  BY <1>1 DEF PlainBytes
<1> QED
  BY <1>2, OfLength, SMTT(30)

\* Deciphering undoes enciphering.
LEMMA CryptTwice ==
    ASSUME NEW nonce, NEW data \in Seq(AeadByte)
    PROVE  Crypt(nonce, Crypt(nonce, data)) = data
<1> DEFINE At(i) == {StreamByte(nonce, 1 + (i - 1) \div StreamBlock, (i - 1) % StreamBlock)}
           once == [i \in DOMAIN data |-> XorBytes(data[i], At(i))]
<1>1. Crypt(nonce, data) = once /\ Crypt(nonce, once) = [i \in DOMAIN once |-> XorBytes(once[i], At(i))]
  BY DEF Crypt
<1> HIDE DEF At
<1>2. DOMAIN once = DOMAIN data /\ \A i \in DOMAIN data : XorBytes(once[i], At(i)) = data[i]
  BY XorTwice
<1>3. data = [i \in DOMAIN data |-> data[i]]
  OBVIOUS
<1> QED
  BY <1>1, <1>2, <1>3

\* What the authenticator is given begins with the message itself.
LEMMA MacBegins ==
    ASSUME NEW data \in Seq(AeadByte), NEW i \in 1 .. Len(data)
    PROVE  MacInput(data)[i] = data[i]
<1> DEFINE n == Len(data)  rem == n % TagBlock  full == n - rem
           last == [j \in 1 .. TagBlock |-> IF j <= rem THEN data[full + j] ELSE {}]
<1>1. n \in Nat /\ TagBlock \in Nat \ {0}
  BY AeadAssumption
<1>2. rem \in 0 .. (TagBlock - 1) /\ rem <= n
  BY <1>1
<1>3. full \in Nat /\ full <= n /\ n - full = rem
  BY <1>1, <1>2
<1> HIDE DEF rem
<1>4. MacInput(data) = SubSeq(data, 1, full) \o (IF rem > 0 THEN last ELSE <<>>)
  BY <1>3 DEF MacInput, rem
<1> HIDE DEF full
<1> DEFINE start == SubSeq(data, 1, full)
<1>5. start \in Seq(AeadByte) /\ Len(start) = full /\ \A j \in 1 .. full : start[j] = data[j]
  BY <1>3
<1> HIDE DEF start, n
<1>6. CASE i <= full
  <2>1. IF rem > 0 THEN last \in Seq(AeadByte) /\ Len(last) = TagBlock ELSE TRUE
    <3>1. \A j \in 1 .. TagBlock : j <= rem => data[full + j] \in AeadByte
      BY <1>1, <1>2, <1>3 DEF n
    <3>2. {} \in AeadByte
      BY DEF AeadByte
    <3>3. last \in [1 .. TagBlock -> AeadByte]
      BY <3>1, <3>2
    <3> QED
      BY <3>3, <1>1, OfLength
  <2> DEFINE rest == IF rem > 0 THEN last ELSE <<>>
  <2>2. rest \in Seq(AeadByte)
    BY <2>1
  <2> HIDE DEF rest
  <2>3. (start \o rest)[i] = start[i]
    BY <2>2, <1>5, <1>6
  <2> QED
    BY <2>3, <1>4, <1>5, <1>6 DEF start, rest
<1>7. CASE i > full
  <2>1. rem > 0 /\ i - full \in 1 .. rem /\ i - full \in 1 .. TagBlock
    BY <1>1, <1>2, <1>3, <1>7 DEF n
  <2>2. last[i - full] = data[full + (i - full)] /\ full + (i - full) = i
    BY <2>1, <1>3, <1>7
  <2>3. last \in Seq({last[j] : j \in 1 .. TagBlock}) /\ Len(last) = TagBlock
    BY <1>1
  <2>4. full < i /\ i <= full + TagBlock
    BY <2>1, <1>3, <1>7, <1>1
  <2> DEFINE S == AeadByte \cup {last[j] : j \in 1 .. TagBlock}
  <2> HIDE DEF last
  <2>5. start \in Seq(S) /\ last \in Seq(S)
    BY <1>5, <2>3, SeqWider
  <2> HIDE DEF S
  <2>6. \A p, q \in Seq(S) : \A k \in 1 .. Len(p) + Len(q) : k > Len(p) => (p \o q)[k] = q[k - Len(p)]
    OBVIOUS
  <2>7. i \in 1 .. Len(start) + Len(last) /\ i > Len(start)
    BY <2>3, <2>4, <1>5, <1>3, <1>1
  <2>8. (start \o last)[i] = last[i - full]
    BY <2>5, <2>6, <2>7, <1>5
  <2> QED
    BY <2>1, <2>2, <2>8, <1>4 DEF start
<1> QED
  BY <1>3, <1>6, <1>7

\* The authenticator tells any two messages apart, however long they are.
LEMMA TagTells ==
    ASSUME NEW c, NEW d, NEW id, NEW jd, NEW x \in Seq(AeadByte), NEW y \in Seq(AeadByte),
           TagOf(Nonce(c, id), x) = TagOf(Nonce(d, jd), y)
    PROVE  c = d /\ id = jd /\ x = y
<1>1. /\ StreamByte(Nonce(c, id), 0, 0) = StreamByte(Nonce(d, jd), 0, 0)
      /\ MacInput(x) = MacInput(y) /\ Len(x) = Len(y)
  BY DEF TagOf
<1>2. c = d /\ id = jd
  BY <1>1 DEF StreamByte, Nonce
<1>3. \A i \in 1 .. Len(x) : x[i] = y[i]
  BY <1>1, MacBegins
<1>4. x = y
  BY <1>1, <1>3
<1> QED
  BY <1>2, <1>4

\* What is sealed under a counter.
LEMMA SealedIs ==
    ASSUME NEW c \in Nat, NEW plain \in Seq(Nat), protocol \in Protocols
    PROVE  /\ Sealed(c, plain) = Packet(c, Crypt(Nonce(c, protocol), PlainBytes(plain)), Sealed(c, plain).tag)
           /\ Sealed(c, plain).counter = c
           /\ Sealed(c, plain).data = Crypt(Nonce(c, protocol), PlainBytes(plain))
           /\ Sealed(c, plain).tag = TagOf(Nonce(c, protocol), Sealed(c, plain).data)
           /\ Sealed(c, plain).data \in Seq(AeadByte)
<1> DEFINE cipher == Crypt(Nonce(c, protocol), PlainBytes(plain))
<1>1. PlainBytes(plain) \in Seq(AeadByte)
  BY PlainIsBytes
<1>2. cipher \in Seq(AeadByte)
  BY <1>1, CryptIsBytes
<1>3. Sealed(c, plain) = Packet(c, cipher, TagOf(Nonce(c, protocol), cipher))
  BY DEF Sealed
<1> HIDE DEF cipher
<1>4. \A n, d, t : LET q == Packet(n, d, t) IN q.counter = n /\ q.data = d /\ q.tag = t
  BY DEF Packet
<1>5. /\ Sealed(c, plain).counter = c /\ Sealed(c, plain).data = cipher
      /\ Sealed(c, plain).tag = TagOf(Nonce(c, protocol), cipher)
  BY <1>3, <1>4
<1> QED
  BY <1>2, <1>3, <1>5 DEF cipher

LEMMA OnWireIs ==
    ASSUME SealInv, NEW packet \in onWire
    PROVE  /\ packet.counter \in 0 .. sendNonce - 1 /\ packet.counter \in Nat
           /\ plainOf[packet.counter + 1] \in Seq(Nat)
           /\ packet = Sealed(packet.counter, plainOf[packet.counter + 1])
<1>1. PICK c \in 0 .. sendNonce - 1 : packet = Sealed(c, plainOf[c + 1])
  BY DEF SealInv
<1>2. sendNonce \in Nat /\ plainOf \in Seq(Seq(Nat)) /\ Len(plainOf) = sendNonce /\ protocol \in Protocols
  BY DEF SealInv
<1>3. c \in Nat /\ c + 1 \in 1 .. Len(plainOf)
  BY <1>2
<1>4. plainOf[c + 1] \in Seq(Nat)
  BY <1>2, <1>3
<1>5. packet.counter = c
  BY <1>1, <1>2, <1>3, <1>4, SealedIs
<1> QED
  BY <1>1, <1>3, <1>4, <1>5

\* A packet with one of the tags opens exactly where it is one of those that were sealed.
LEMMA OpensIfSealed ==
    ASSUME SealInv, NEW packet, Tagged(packet), NEW id
    PROVE  packet.tag = TagOf(Nonce(packet.counter, id), packet.data) <=> packet \in onWire /\ id = protocol
<1>0. protocol \in Protocols
  BY DEF SealInv
<1>1. ASSUME packet \in onWire, id = protocol
      PROVE  packet.tag = TagOf(Nonce(packet.counter, id), packet.data)
  <2>1. /\ packet.counter \in Nat /\ plainOf[packet.counter + 1] \in Seq(Nat)
        /\ packet = Sealed(packet.counter, plainOf[packet.counter + 1])
    BY <1>1, OnWireIs
  <2> DEFINE c == packet.counter  plain == plainOf[c + 1]
  <2>2. c \in Nat /\ plain \in Seq(Nat) /\ packet = Sealed(c, plain)
    BY <2>1
  <2> HIDE DEF c, plain
  <2>3. Sealed(c, plain).tag = TagOf(Nonce(c, protocol), Sealed(c, plain).data)
    BY <1>0, <2>2, SealedIs
  <2>4. packet.tag = TagOf(Nonce(c, protocol), packet.data)
    BY <2>2, <2>3, Zenon
  <2> QED
    BY <1>1, <2>4 DEF c
<1>2. ASSUME packet.tag = TagOf(Nonce(packet.counter, id), packet.data)
      PROVE  packet \in onWire /\ id = protocol
  <2>1. PICK other \in onWire : packet.tag = other.tag
    BY DEF Tagged
  <2> DEFINE d == other.counter  plain == plainOf[d + 1]
  <2>2. d \in Nat /\ plain \in Seq(Nat) /\ other = Sealed(d, plain)
    BY OnWireIs
  <2> HIDE DEF d, plain
  <2>3. /\ other.counter = d /\ other.data \in Seq(AeadByte)
        /\ other.tag = TagOf(Nonce(d, protocol), other.data)
        /\ other = Packet(d, other.data, other.tag)
    <3>1. /\ Sealed(d, plain).counter = d /\ Sealed(d, plain).data \in Seq(AeadByte)
          /\ Sealed(d, plain).tag = TagOf(Nonce(d, protocol), Sealed(d, plain).data)
          /\ Sealed(d, plain) = Packet(d, Sealed(d, plain).data, Sealed(d, plain).tag)
      BY <1>0, <2>2, SealedIs
    <3> QED
      BY <2>2, <3>1, Zenon
  <2>4. packet.data \in Seq(AeadByte) /\ packet = Packet(packet.counter, packet.data, packet.tag)
    BY DEF Tagged
  <2>5. TagOf(Nonce(packet.counter, id), packet.data) = TagOf(Nonce(d, protocol), other.data)
    BY <1>2, <2>1, <2>3
  <2>6. packet.counter = d /\ id = protocol /\ packet.data = other.data
    BY <2>3, <2>4, <2>5, TagTells
  <2>7. packet = other
    BY <2>1, <2>3, <2>4, <2>6
  <2> QED
    BY <2>6, <2>7
<1> QED
  BY <1>1, <1>2

LEMMA SealOpens == SealInv => OnlySealedOpens
<1> SUFFICES ASSUME SealInv, tried # <<>> PROVE OnlySealedOpens
  BY DEF OnlySealedOpens
<1>1. PICK packet, id : tried = <<packet, id>> /\ Tagged(packet) /\ outcome = Opened(id, packet)
  BY DEF SealInv
<1> DEFINE nonce == Nonce(packet.counter, id)
           intact == packet \in onWire /\ id = protocol
           plain == plainOf[packet.counter + 1]
<1>2. packet.tag = TagOf(nonce, packet.data) <=> intact
  BY <1>1, OpensIfSealed
<1>3. tried[1] = packet /\ tried[2] = id
  BY <1>1
<1>4. IF intact THEN outcome = [status |-> "ok", buffer |-> Crypt(nonce, packet.data)]
                ELSE outcome = [status |-> "auth", buffer |-> packet.data]
  BY <1>1, <1>2 DEF Opened
<1>5. ASSUME intact PROVE Crypt(nonce, packet.data) = PlainBytes(plain)
  <2> DEFINE c == packet.counter
  <2>1. c \in Nat /\ plainOf[c + 1] \in Seq(Nat) /\ packet = Sealed(c, plainOf[c + 1])
    BY <1>5, OnWireIs
  <2>2. protocol \in Protocols
    BY DEF SealInv
  <2>3. plain \in Seq(Nat) /\ packet = Sealed(c, plain)
    BY <2>1
  <2> HIDE DEF c, plain
  <2>4. Sealed(c, plain).data = Crypt(Nonce(c, protocol), PlainBytes(plain))
    BY <2>1, <2>2, <2>3, SealedIs
  <2>5. packet.data = Crypt(Nonce(c, protocol), PlainBytes(plain))
    BY <2>3, <2>4, Zenon
  <2>6. Crypt(Nonce(c, protocol), Crypt(Nonce(c, protocol), PlainBytes(plain))) = PlainBytes(plain)
    BY <2>3, PlainIsBytes, CryptTwice
  <2>7. nonce = Nonce(c, protocol)
    BY <1>5 DEF c
  <2> QED
    BY <2>5, <2>6, <2>7
<1> HIDE DEF nonce, intact
<1>6. IF outcome.status = "ok" THEN intact /\ outcome.buffer = PlainBytes(plain)
                               ELSE ~intact /\ outcome.buffer = packet.data
  BY <1>4, <1>5
<1> QED
  BY <1>3, <1>6 DEF OnlySealedOpens, PlainBytes, intact

\* What covers a byte of what was sealed is one byte of the key stream, named for its place.
CoverAt(c, i) == StreamByte(Nonce(c, protocol), 1 + (i - 1) \div StreamBlock, (i - 1) % StreamBlock)

LEMMA CoverIs ==
    ASSUME SealInv, NEW packet \in onWire, NEW i \in DOMAIN packet.data
    PROVE  /\ i \in Nat \ {0}
           /\ {atom \in packet.data[i] : Len(atom) = 4} = {CoverAt(packet.counter, i)}
<1> DEFINE c == packet.counter  plain == plainOf[c + 1]
<1>1. c \in Nat /\ plain \in Seq(Nat) /\ packet = Sealed(c, plain) /\ protocol \in Protocols
  BY OnWireIs DEF SealInv
<1> HIDE DEF c, plain
<1>2. Sealed(c, plain).data = Crypt(Nonce(c, protocol), PlainBytes(plain))
  BY <1>1, SealedIs
<1>3. packet.data = Crypt(Nonce(c, protocol), PlainBytes(plain))
  BY <1>1, <1>2, Zenon
<1>4. /\ DOMAIN PlainBytes(plain) = DOMAIN plain
      /\ \A j \in DOMAIN plain : PlainBytes(plain)[j] = PlainByte(plain[j])
  BY DEF PlainBytes
<1>5. /\ DOMAIN packet.data = DOMAIN plain
      /\ packet.data[i] = XorBytes(PlainByte(plain[i]), {CoverAt(c, i)})
  BY <1>3, <1>4 DEF Crypt, CoverAt
<1>6. i \in Nat \ {0} /\ plain[i] \in Nat
  BY <1>1, <1>5
<1> DEFINE v == plain[i]  s == CoverAt(c, i)
<1>7. Len(<<v>>) = 1 /\ Len(s) = 4
  BY DEF CoverAt, StreamByte, Nonce
<1> HIDE DEF v, s
<1>8. \A atom : atom \in XorBytes(PlainByte(v), {s}) /\ Len(atom) = 4 <=> atom = s
  BY <1>7 DEF XorBytes, PlainByte
<1>9. {atom \in XorBytes(PlainByte(v), {s}) : Len(atom) = 4} = {s}
  BY <1>8
<1> QED
  BY <1>5, <1>6, <1>9 DEF v, s, c

LEMMA SealCovers == SealInv => StreamUsedOnce
<1> SUFFICES ASSUME SealInv PROVE StreamUsedOnce
  OBVIOUS
<1> DEFINE Covered == UNION {{<<packet, i>> : i \in DOMAIN packet.data} : packet \in onWire}
           Cover(place) == {atom \in place[1].data[place[2]] : Len(atom) = 4}
<1> SUFFICES ASSUME NEW x \in Covered, NEW y \in Covered
             PROVE  /\ \A atom \in Cover(x) : atom[3] # 0
                    /\ x # y => Cover(x) \cap Cover(y) = {}
  BY DEF StreamUsedOnce
<1>1. PICK p, i : p \in onWire /\ i \in DOMAIN p.data /\ x = <<p, i>>
  OBVIOUS
<1>2. PICK q, j : q \in onWire /\ j \in DOMAIN q.data /\ y = <<q, j>>
  OBVIOUS
<1>3. i \in Nat \ {0} /\ Cover(x) = {CoverAt(p.counter, i)}
  <2>1. i \in Nat \ {0} /\ {atom \in p.data[i] : Len(atom) = 4} = {CoverAt(p.counter, i)}
    BY <1>1, CoverIs
  <2> QED
    BY <1>1, <2>1
<1>4. j \in Nat \ {0} /\ Cover(y) = {CoverAt(q.counter, j)}
  <2>1. j \in Nat \ {0} /\ {atom \in q.data[j] : Len(atom) = 4} = {CoverAt(q.counter, j)}
    BY <1>2, CoverIs
  <2> QED
    BY <1>2, <2>1
<1> HIDE DEF Covered, Cover
<1>5. CoverAt(p.counter, i)[3] # 0
  <2>1. i - 1 \in Nat
    BY <1>3
  <2> DEFINE b == (i - 1) \div StreamBlock
  <2>2. b \in Nat
    BY <2>1, StreamPlace
  <2> HIDE DEF b
  <2>3. 1 + b # 0
    BY <2>2
  <2>4. CoverAt(p.counter, i)[3] = 1 + b
    BY DEF CoverAt, StreamByte, b
  <2> QED
    BY <2>3, <2>4
<1>6. ASSUME CoverAt(p.counter, i) = CoverAt(q.counter, j) PROVE x = y
  <2>1. /\ p.counter = q.counter
        /\ 1 + (i - 1) \div StreamBlock = 1 + (j - 1) \div StreamBlock
        /\ (i - 1) % StreamBlock = (j - 1) % StreamBlock
    BY <1>6 DEF CoverAt, StreamByte, Nonce
  <2>2. i - 1 \in Nat /\ j - 1 \in Nat
    BY <1>3, <1>4
  <2> DEFINE b == (i - 1) \div StreamBlock  d == (j - 1) \div StreamBlock
  <2>3. b \in Nat /\ d \in Nat
    BY <2>2, StreamPlace
  <2>4. 1 + b = 1 + d
    BY <2>1
  <2> HIDE DEF b, d
  <2>5. b = d
    BY <2>3, <2>4
  <2>6. i - 1 = StreamBlock * ((i - 1) \div StreamBlock) + ((i - 1) % StreamBlock)
    BY <2>2, StreamPlace
  <2>7. j - 1 = StreamBlock * ((j - 1) \div StreamBlock) + ((j - 1) % StreamBlock)
    BY <2>2, StreamPlace
  <2>8. i - 1 = j - 1
    BY <2>1, <2>5, <2>6, <2>7, Zenon DEF b, d
  <2>9. i = j
    BY <1>3, <1>4, <2>8
  <2>10. p = Sealed(p.counter, plainOf[p.counter + 1])
    BY <1>1, OnWireIs
  <2>11. q = Sealed(q.counter, plainOf[q.counter + 1])
    BY <1>2, OnWireIs
  <2>12. p = q
    BY <2>1, <2>10, <2>11, Zenon
  <2> QED
    BY <1>1, <1>2, <2>9, <2>12
<1>7. \A atom \in Cover(x) : atom[3] # 0
  BY <1>3, <1>5
<1>8. x # y => Cover(x) \cap Cover(y) = {}
  BY <1>3, <1>4, <1>6
<1> QED
  BY <1>7, <1>8

LEMMA SealStarts == AeadInit => SealInv
BY DEF AeadInit, SealInv

\* Whatever befalls a packet, its tag is still one that a sealed packet has.
LEMMA AlteredIsTagged ==
    ASSUME SealInv, NEW sent \in onWire, NEW packet \in {sent} \cup Altered(sent)
    PROVE  Tagged(packet)
<1> DEFINE c == sent.counter  d == sent.data  t == sent.tag
<1>1. sent = Packet(c, d, t) /\ d \in Seq(AeadByte)
  <2>0. protocol \in Protocols
    BY DEF SealInv
  <2>1. /\ c \in Nat /\ plainOf[c + 1] \in Seq(Nat)
        /\ sent = Sealed(c, plainOf[c + 1])
    BY OnWireIs
  <2> DEFINE plain == plainOf[c + 1]
  <2>2. plain \in Seq(Nat) /\ sent = Sealed(c, plain)
    BY <2>1
  <2> HIDE DEF plain, c
  <2>3. /\ Sealed(c, plain) = Packet(c, Crypt(Nonce(c, protocol), PlainBytes(plain)), Sealed(c, plain).tag)
        /\ Sealed(c, plain).data = Crypt(Nonce(c, protocol), PlainBytes(plain))
        /\ Sealed(c, plain).data \in Seq(AeadByte)
    BY <2>0, <2>1, <2>2, SealedIs
  <2> QED
    BY <2>2, <2>3, Zenon
<1> HIDE DEF c, d, t
<1>2. t = sent.tag
  BY DEF t
<1>3. ASSUME NEW k, NEW e \in Seq(AeadByte), NEW other \in onWire PROVE Tagged(Packet(k, e, other.tag))
  <2> DEFINE p == Packet(k, e, other.tag)
  <2>1. p.counter = k /\ p.data = e /\ p.tag = other.tag
    BY DEF Packet
  <2>2. p = Packet(p.counter, p.data, p.tag)
    BY <2>1
  <2> HIDE DEF p
  <2>3. Tagged(p)
    BY <2>1, <2>2 DEF Tagged
  <2> QED
    BY <2>3 DEF p
<1>4. CASE packet = sent
  BY <1>4, <1>1, <1>2, <1>3
<1>5. CASE packet \in {[sent EXCEPT !.counter = n] : n \in 0 .. MaxSealed - 1}
  <2>1. PICK n \in 0 .. MaxSealed - 1 : packet = [sent EXCEPT !.counter = n]
    BY <1>5
  <2>2. packet = Packet(n, d, t)
    BY <2>1, <1>1 DEF Packet
  <2> QED
    BY <1>3, <2>2, <1>1, <1>2
<1>6. CASE packet \in {[sent EXCEPT !.data[i] = XorBytes(@, {<<9>>})] : i \in 1 .. Len(sent.data)}
  <2>1. PICK i \in 1 .. Len(d) : packet = [sent EXCEPT !.data[i] = XorBytes(@, {<<9>>})]
    BY <1>6 DEF d
  <2> DEFINE flipped == [d EXCEPT ![i] = XorBytes(d[i], {<<9>>})]
  <2>2. packet = Packet(c, flipped, t)
    BY <2>1, <1>1 DEF Packet
  <2>3. {<<9>>} \in AeadByte /\ d[i] \in AeadByte
    BY <1>1, <2>1 DEF AeadByte, AeadAtoms
  <2>4. XorBytes(d[i], {<<9>>}) \in AeadByte
    BY <2>3, XorIsByte
  <2>5. flipped \in Seq(AeadByte)
    BY <2>4, <1>1
  <2> HIDE DEF flipped
  <2> QED
    BY <1>3, <2>2, <2>5, <1>2
<1>7. CASE packet \in {[sent EXCEPT !.data = SubSeq(@, 1, n)] : n \in 0 .. Len(sent.data)}
  <2>1. PICK n \in 0 .. Len(d) : packet = [sent EXCEPT !.data = SubSeq(@, 1, n)]
    BY <1>7 DEF d
  <2>2. packet = Packet(c, SubSeq(d, 1, n), t)
    BY <2>1, <1>1 DEF Packet
  <2>3. SubSeq(d, 1, n) \in Seq(AeadByte)
    BY <1>1
  <2> QED
    BY <1>3, <2>2, <2>3, <1>2
<1>8. CASE packet = [sent EXCEPT !.data = Append(@, {})]
  <2>1. packet = Packet(c, Append(d, {}), t)
    BY <1>8, <1>1 DEF Packet
  <2>2. Append(d, {}) \in Seq(AeadByte)
    BY <1>1 DEF AeadByte
  <2> QED
    BY <1>3, <2>1, <2>2, <1>2
<1>9. CASE packet \in {[sent EXCEPT !.tag = other.tag] : other \in onWire}
  <2>1. PICK other \in onWire : packet = [sent EXCEPT !.tag = other.tag]
    BY <1>9
  <2>2. packet = Packet(c, d, other.tag)
    BY <2>1, <1>1 DEF Packet
  <2> QED
    BY <1>3, <2>2, <1>1
<1> QED
  BY <1>4, <1>5, <1>6, <1>7, <1>8, <1>9 DEF Altered

LEMMA DecryptKeeps ==
    ASSUME SealInv, NEW sent \in onWire, NEW id \in Protocols,
           NEW packet \in {sent} \cup Altered(sent), Decrypt(packet, id)
    PROVE  SealInv'
<1>1. Tagged(packet)
  BY AlteredIsTagged
<1>2. UNCHANGED <<protocol, sendNonce, onWire, plainOf>>
  BY DEF Decrypt
<1>3. Tagged(packet)'
  BY <1>1, <1>2 DEF Tagged
<1>4. tried' = <<packet, id>> /\ outcome' = Opened(id, packet)
  BY DEF Decrypt
<1>5. \A x \in onWire : \E c \in 0 .. sendNonce - 1 : x = Sealed(c, plainOf[c + 1])
  BY DEF SealInv
<1>6. (\A x \in onWire : \E c \in 0 .. sendNonce - 1 : x = Sealed(c, plainOf[c + 1]))'
  BY <1>2, <1>5 DEF Sealed
<1>7. (\E p, i : tried = <<p, i>> /\ Tagged(p) /\ outcome = Opened(i, p))'
  BY <1>3, <1>4 DEF Opened
<1> QED
  BY <1>2, <1>6, <1>7 DEF SealInv

LEMMA EncryptKeeps ==
    ASSUME SealInv, NEW plain \in Plaintexts, Encrypt(plain)
    PROVE  SealInv'
<1>1. plain \in Seq(Nat)
  BY AeadAssumption
<1>2. /\ protocol \in Protocols /\ sendNonce \in Nat
      /\ plainOf \in Seq(Seq(Nat)) /\ Len(plainOf) = sendNonce
  BY DEF SealInv
<1>3. /\ onWire' = onWire \cup {Sealed(sendNonce, plain)}
      /\ plainOf' = Append(plainOf, plain) /\ sendNonce' = sendNonce + 1
      /\ UNCHANGED <<protocol, tried, outcome>>
  BY DEF Encrypt, Sealed, PlainBytes
<1>4. /\ sendNonce' \in Nat /\ plainOf' \in Seq(Seq(Nat)) /\ Len(plainOf') = sendNonce'
      /\ plainOf'[sendNonce + 1] = plain
      /\ \A c \in 0 .. sendNonce - 1 : plainOf'[c + 1] = plainOf[c + 1]
  BY <1>1, <1>2, <1>3
<1>5. \A x \in onWire' : \E c \in 0 .. sendNonce' - 1 : x = Sealed(c, plainOf'[c + 1])
  <2> SUFFICES ASSUME NEW x \in onWire'
               PROVE  \E c \in 0 .. sendNonce' - 1 : x = Sealed(c, plainOf'[c + 1])
    OBVIOUS
  <2>1. CASE x \in onWire
    <3>1. PICK c \in 0 .. sendNonce - 1 : x = Sealed(c, plainOf[c + 1])
      BY <2>1 DEF SealInv
    <3>2. c \in 0 .. sendNonce' - 1 /\ plainOf'[c + 1] = plainOf[c + 1]
      BY <1>2, <1>3, <1>4
    <3>3. x = Sealed(c, plainOf'[c + 1])
      BY <3>1, <3>2
    <3> QED
      BY <3>2, <3>3
  <2>2. CASE x = Sealed(sendNonce, plain)
    <3>1. sendNonce \in 0 .. sendNonce' - 1
      BY <1>2, <1>3
    <3>2. x = Sealed(sendNonce, plainOf'[sendNonce + 1])
      BY <2>2, <1>4
    <3> QED
      BY <3>1, <3>2
  <2> QED
    BY <2>1, <2>2, <1>3
<1>6. (\A x \in onWire : \E c \in 0 .. sendNonce - 1 : x = Sealed(c, plainOf[c + 1]))'
  BY <1>3, <1>5 DEF Sealed
<1>7. tried # <<>> => \E p, i : tried = <<p, i>> /\ Tagged(p) /\ outcome = Opened(i, p)
  BY DEF SealInv
<1>8. (tried # <<>> => \E p, i : tried = <<p, i>> /\ Tagged(p) /\ outcome = Opened(i, p))'
  BY <1>3, <1>7 DEF Tagged, Opened
<1> QED
  BY <1>2, <1>3, <1>4, <1>6, <1>8 DEF SealInv

LEMMA SealStep == SealInv /\ [AeadNext]_aeadVars => SealInv'
<1> SUFFICES ASSUME SealInv, [AeadNext]_aeadVars PROVE SealInv'
  OBVIOUS
<1>1. CASE \E plain \in Plaintexts : Encrypt(plain)
  BY <1>1, EncryptKeeps
<1>2. ASSUME NEW sent \in onWire, NEW id \in Protocols,
             NEW packet \in {sent} \cup Altered(sent), Decrypt(packet, id)
      PROVE  SealInv'
  BY <1>2, DecryptKeeps
<1>3. CASE DecryptShort
  BY <1>3 DEF DecryptShort, SealInv, Sealed
<1>4. CASE UNCHANGED aeadVars
  BY <1>4 DEF aeadVars, SealInv, Sealed, Tagged, Opened
<1> QED
  BY <1>1, <1>2, <1>3, <1>4 DEF AeadNext

\* OpenedIsSealed: a packet opens exactly where it came as it was sealed, under the same
\* protocol id, and to what was sealed; and nothing is covered twice by the key stream of
\* nn_crypto_encrypt.
THEOREM SealingSound == AeadSpec => []OpenedIsSealed
<1>1. SealInv => OpenedIsSealed
  BY SealOpens, SealCovers DEF OpenedIsSealed
<1> QED
  BY <1>1, SealStarts, SealStep, PTL DEF AeadSpec

-----------------------------------------------------------------------------
(* Batches of messages. *)

\* Where in the buffer each message ends, and the bytes in front of that: its length and
\* the message.
LaidOut(at) ==
    /\ at \in [Nat -> Nat] /\ at[0] = 1 /\ at[Len(batched)] = Len(batch)
    /\ \A k \in 0 .. Len(batched) : at[k] \in 1 .. Len(batch)
    /\ \A k \in 1 .. Len(batched) :
          /\ at[k] = at[k - 1] + 2 + Len(batched[k])
          /\ ReadU16(batch, at[k - 1]) = Len(batched[k])
          /\ \A i \in 1 .. Len(batched[k]) : batch[(at[k - 1] + 2) + i] = batched[k][i]

BatchTypes ==
    /\ batch \in Seq(Nat) /\ Len(batch) \in 1 .. Capacity
    /\ batched \in Seq(Seq(Nat)) /\ unbatched \in Seq(Seq(Nat))
    /\ finished \in BOOLEAN /\ readFailed \in BOOLEAN
    /\ reader \in [bufLen : Nat, offset : Nat, read : Nat]

\* The reader has a part of a finished buffer; until it fails it is behind a message,
\* and has read the messages before it.
ReaderPlace(at) ==
    /\ reader = NoReader => unbatched = <<>> /\ readFailed = FALSE
    /\ reader # NoReader => /\ finished /\ batch[1] = Len(batched)
                            /\ reader.bufLen \in 1 .. Len(batch)
    /\ reader # NoReader /\ readFailed = FALSE =>
          /\ reader.read = Len(unbatched) /\ reader.read <= Len(batched)
          /\ reader.offset = at[reader.read]
          /\ \A i \in 1 .. Len(unbatched) : unbatched[i] = batched[i]
    /\ readFailed => reader.bufLen # Len(batch)
    /\ finished => batch[1] = Len(batched)

BatchInv == BatchTypes /\ \E at : LaidOut(at) /\ ReaderPlace(at)

LEMMA BatchRead == BatchInv => BatchIsRead
<1> SUFFICES ASSUME BatchInv PROVE BatchIsRead
  OBVIOUS
<1>1. PICK at : LaidOut(at) /\ ReaderPlace(at)
  BY DEF BatchInv
<1>2. BatchTypes
  BY DEF BatchInv
<1>3. ASSUME ~readFailed PROVE IsPrefix(unbatched, batched)
  <2>1. Len(unbatched) \in Nat /\ Len(unbatched) <= Len(batched) /\ \A i \in 1 .. Len(unbatched) : unbatched[i] = batched[i]
    <3>1. CASE reader = NoReader
      BY <1>1, <1>2, <3>1 DEF ReaderPlace, BatchTypes
    <3>2. CASE reader # NoReader
      BY <1>1, <1>2, <1>3, <3>2 DEF ReaderPlace, BatchTypes
    <3> QED
      BY <3>1, <3>2
  <2> DEFINE n == Len(unbatched)
  <2>2. SubSeq(batched, 1, n) = unbatched
    <3>1. batched \in Seq(Seq(Nat)) /\ unbatched \in Seq(Seq(Nat)) /\ 0 \in Nat /\ 0 + n <= Len(batched) /\ 0 + n = n /\ 0 + 1 = 1
      BY <1>2, <2>1 DEF BatchTypes
    <3>2. \A i \in 1 .. Len(unbatched) : batched[0 + i] = unbatched[i]
      BY <2>1
    <3>3. SubSeq(batched, 0 + 1, 0 + Len(unbatched)) = unbatched
      BY <3>1, <3>2, PieceAs
    <3> QED
      BY <3>1, <3>3
  <2>3. SubSeq(unbatched, 1, n) = unbatched
    <3>1. unbatched \in Seq(Seq(Nat)) /\ 0 \in Nat /\ 0 + n <= Len(unbatched) /\ 0 + n = n /\ 0 + 1 = 1
      BY <1>2, <2>1 DEF BatchTypes
    <3>2. \A i \in 1 .. Len(unbatched) : unbatched[0 + i] = unbatched[i]
      BY <2>1
    <3>3. SubSeq(unbatched, 0 + 1, 0 + Len(unbatched)) = unbatched
      BY <3>1, <3>2, PieceAs
    <3> QED
      BY <3>1, <3>3
  <2> QED
    BY <2>1, <2>2, <2>3 DEF IsPrefix
<1>4. Len(batch) <= Capacity /\ (reader.bufLen = Len(batch) => ~readFailed)
  BY <1>1, <1>2, BatchAssumption DEF ReaderPlace, BatchTypes
<1> QED
  BY <1>3, <1>4 DEF BatchIsRead

LEMMA BatchStart == BatchInit => BatchInv
<1> SUFFICES ASSUME BatchInit PROVE BatchInv
  OBVIOUS
<1> DEFINE at == [k \in Nat |-> 1]
<1>1. BatchTypes
  <2>1. <<0>> \in Seq(Nat) /\ Len(<<0>>) = 1 /\ <<>> \in Seq(Seq(Nat)) /\ Capacity \in Nat \ {0}
    BY BatchAssumption
  <2>2. NoReader \in [bufLen : Nat, offset : Nat, read : Nat]
    BY DEF NoReader
  <2>3. batch = <<0>> /\ batched = <<>> /\ finished = FALSE /\ reader = NoReader /\ unbatched = <<>> /\ readFailed = FALSE
    BY DEF BatchInit
  <2>4. batch \in Seq(Nat) /\ Len(batch) \in 1 .. Capacity
    BY <2>1, <2>3
  <2> QED
    BY <2>1, <2>2, <2>3, <2>4 DEF BatchTypes
<1>2. LaidOut(at)
  BY DEF BatchInit, LaidOut
<1>3. ReaderPlace(at)
  BY DEF BatchInit, ReaderPlace
<1> QED
  BY <1>1, <1>2, <1>3 DEF BatchInv

\* A length in two bytes, and back.
LEMMA U16Is ==
    ASSUME NEW n \in Nat
    PROVE  /\ WriteU16(n) \in Seq(Nat) /\ Len(WriteU16(n)) = 2
           /\ WriteU16(n)[1] + ByteValues * WriteU16(n)[2] = n
<1>1. ByteValues \in Nat \ {0}
  BY BatchAssumption
<1>2. \A b \in Nat \ {0}, m \in Nat : m % b \in Nat /\ m \div b \in Nat /\ (m % b) + b * (m \div b) = m
  BY Z3
<1>3. n % ByteValues \in Nat /\ n \div ByteValues \in Nat /\ (n % ByteValues) + ByteValues * (n \div ByteValues) = n
  BY <1>1, <1>2, Zenon
<1> QED
  BY <1>3 DEF WriteU16

LEMMA WriterAdds ==
    ASSUME BatchInv, NEW msg \in BatchMessages, WriterAdd(msg)
    PROVE  BatchInv'
<1>1. PICK at : LaidOut(at) /\ ReaderPlace(at)
  BY DEF BatchInv
<1>2. BatchTypes
  BY DEF BatchInv
<1> DEFINE n == Len(batched)
           o == Len(batch)
           w == WriteU16(Len(msg))
<1>3. msg \in Seq(Nat) /\ Len(msg) \in Nat
  <2>1. msg \in Seq(0 .. (ByteValues - 1)) /\ ByteValues \in Nat \ {0}
    BY BatchAssumption
  <2>2. (0 .. (ByteValues - 1)) \in SUBSET Nat
    BY <2>1
  <2> QED
    BY <2>1, <2>2, SeqWider
<1>4. w \in Seq(Nat) /\ Len(w) = 2
  BY <1>3, U16Is
<1>13. w[1] + ByteValues * w[2] = Len(msg)
  BY <1>3, U16Is
<1>5. /\ ~finished /\ batch' = (batch \o w) \o msg /\ o + 2 + Len(msg) <= Capacity
      /\ batched' = Append(batched, msg)
      /\ UNCHANGED <<finished, reader, unbatched, readFailed>>
  BY DEF WriterAdd
<1> HIDE DEF w
<1>6. /\ batch' \in Seq(Nat) /\ Len(batch') = o + 2 + Len(msg)
      /\ \A i \in 1 .. o : batch'[i] = batch[i]
      /\ batch'[o + 1] = w[1] /\ batch'[o + 2] = w[2]
      /\ \A i \in 1 .. Len(msg) : batch'[(o + 2) + i] = msg[i]
  <2>1. batch \in Seq(Nat) /\ o \in Nat
    BY <1>2 DEF BatchTypes
  <2>2. /\ batch \o w \in Seq(Nat) /\ Len(batch \o w) = o + 2
        /\ \A i \in 1 .. o : (batch \o w)[i] = batch[i]
        /\ \A i \in 1 .. 2 : (batch \o w)[o + i] = w[i]
    <3> HIDE DEF o
    <3>1. batch \in Seq(Nat) /\ w \in Seq(Nat)
      BY <1>4, <2>1
    <3>2. batch \o w \in Seq(Nat) /\ Len(batch \o w) = Len(batch) + Len(w)
      BY <3>1, JoinedIs
    <3>3. \A i \in 1 .. Len(batch) : (batch \o w)[i] = batch[i]
      BY <3>1, JoinedIs
    <3>4. \A i \in 1 .. Len(w) : (batch \o w)[Len(batch) + i] = w[i]
      BY <3>1, JoinedIs
    <3> QED
      BY <1>4, <3>2, <3>3, <3>4 DEF o
  <2> DEFINE b == batch \o w
  <2> HIDE DEF b
  <2>3. /\ b \in Seq(Nat) /\ Len(b) = o + 2 /\ batch' = b \o msg
        /\ \A i \in 1 .. o : b[i] = batch[i]
        /\ b[o + 1] = w[1] /\ b[o + 2] = w[2]
    BY <1>5, <2>2 DEF b
  <2>4. /\ b \o msg \in Seq(Nat) /\ Len(b \o msg) = (o + 2) + Len(msg)
        /\ \A i \in 1 .. (o + 2) : (b \o msg)[i] = b[i]
        /\ \A i \in 1 .. Len(msg) : (b \o msg)[(o + 2) + i] = msg[i]
    <3> HIDE DEF o
    <3>1. b \in Seq(Nat) /\ msg \in Seq(Nat)
      BY <1>3, <2>3
    <3>2. b \o msg \in Seq(Nat) /\ Len(b \o msg) = Len(b) + Len(msg)
      BY <3>1, JoinedIs
    <3>3. \A i \in 1 .. Len(b) : (b \o msg)[i] = b[i]
      BY <3>1, JoinedIs
    <3>4. \A i \in 1 .. Len(msg) : (b \o msg)[Len(b) + i] = msg[i]
      BY <3>1, JoinedIs
    <3> QED
      BY <2>3, <3>2, <3>3, <3>4
  <2>5. o + 1 \in 1 .. (o + 2) /\ o + 2 \in 1 .. (o + 2) /\ \A i \in 1 .. o : i \in 1 .. (o + 2)
    BY <2>1
  <2> QED
    BY <2>1, <2>3, <2>4, <2>5
<1>7. n \in Nat /\ o \in Nat \ {0} /\ batched' \in Seq(Seq(Nat)) /\ Len(batched') = n + 1
      /\ (\A k \in 1 .. n : batched'[k] = batched[k]) /\ batched'[n + 1] = msg
  BY <1>2, <1>3, <1>5 DEF BatchTypes
<1>8. BatchTypes'
  BY <1>2, <1>3, <1>5, <1>6, <1>7, BatchAssumption DEF BatchTypes
<1> HIDE DEF n, o
<1>9. PICK next : next \in [Nat -> Nat] /\ next[n + 1] = o + 2 + Len(msg) /\ \A k \in 0 .. n : next[k] = at[k]
  <2>1. at \in [Nat -> Nat]
    BY <1>1 DEF LaidOut
  <2>2. n + 1 \in Nat /\ o + 2 + Len(msg) \in Nat /\ \A k \in 0 .. n : k \in Nat /\ k # n + 1
    BY <1>3, <1>7
  <2> DEFINE next == [at EXCEPT ![n + 1] = o + 2 + Len(msg)]
  <2>3. next \in [Nat -> Nat] /\ next[n + 1] = o + 2 + Len(msg)
    BY <2>1, <2>2
  <2>4. \A k \in 0 .. n : next[k] = at[k]
    BY <2>1, <2>2
  <2> HIDE DEF next
  <2> QED
    BY <2>3, <2>4
<1>12. at[n] = o /\ Len(batched) = n /\ Len(batch) = o
  BY <1>1 DEF LaidOut, n, o
<1>10. LaidOut(next)'
  <2>1. next[0] = 1 /\ next[n + 1] = Len(batch')
    <3>1. 0 \in 0 .. n /\ at[0] = 1
      BY <1>1, <1>7 DEF LaidOut
    <3> QED
      BY <1>6, <1>9, <3>1
  <2>2. \A k \in 0 .. n + 1 : next[k] \in 1 .. Len(batch')
    <3>1. ASSUME NEW k \in 0 .. n + 1 PROVE next[k] \in 1 .. Len(batch')
      <4>1. CASE k \in 0 .. n
        <5>1. next[k] \in 1 .. o
          BY <1>1, <1>9, <1>12, <4>1 DEF LaidOut
        <5> QED
          BY <1>3, <1>6, <1>7, <5>1, SMTT(30)
      <4>2. CASE k = n + 1
        <5>1. next[k] = o + 2 + Len(msg) /\ Len(batch') = o + 2 + Len(msg)
          BY <1>6, <1>9, <4>2, Zenon
        <5> QED
          BY <1>3, <1>7, <5>1
      <4> QED
        BY <1>7, <4>1, <4>2
    <3> QED
      BY <3>1
  <2>3. ASSUME NEW k \in 1 .. n + 1
        PROVE  /\ next[k] = next[k - 1] + 2 + Len(batched'[k])
               /\ batch'[next[k - 1] + 1] + ByteValues * batch'[next[k - 1] + 2] = Len(batched'[k])
               /\ \A i \in 1 .. Len(batched'[k]) : batch'[(next[k - 1] + 2) + i] = batched'[k][i]
    <3>1. CASE k \in 1 .. n
      <4>1. /\ k - 1 \in 0 .. n /\ k \in 0 .. n /\ next[k - 1] = at[k - 1] /\ next[k] = at[k] /\ batched'[k] = batched[k]
        <5>1. k - 1 \in 0 .. n /\ k \in 0 .. n
          BY <1>7, <3>1
        <5> QED
          BY <1>7, <1>9, <3>1, <5>1
      <4>2. /\ at[k] = at[k - 1] + 2 + Len(batched[k]) /\ at[k] \in 1 .. o /\ at[k - 1] \in 1 .. o
            /\ batch[at[k - 1] + 1] + ByteValues * batch[at[k - 1] + 2] = Len(batched[k])
            /\ \A i \in 1 .. Len(batched[k]) : batch[(at[k - 1] + 2) + i] = batched[k][i]
        <5>1. k \in 1 .. Len(batched) /\ k - 1 \in 0 .. Len(batched) /\ k \in 0 .. Len(batched)
          BY <1>12, <3>1, <4>1
        <5> QED
          BY <1>1, <1>12, <5>1 DEF LaidOut, ReadU16
      <4>3. Len(batched[k]) \in Nat
        BY <1>2, <1>12, <3>1 DEF BatchTypes
      <4>4. at[k - 1] + 1 \in 1 .. o /\ at[k - 1] + 2 \in 1 .. o /\ \A i \in 1 .. Len(batched[k]) : (at[k - 1] + 2) + i \in 1 .. o
        <5>1. ASSUME NEW a \in 1 .. o, NEW b \in 1 .. o, NEW l \in Nat, b = a + 2 + l
              PROVE  a + 1 \in 1 .. o /\ a + 2 \in 1 .. o /\ \A i \in 1 .. l : (a + 2) + i \in 1 .. o
          BY <1>7, <5>1
        <5> QED
          BY <4>2, <4>3, <5>1
      <4>5. batch'[at[k - 1] + 1] = batch[at[k - 1] + 1] /\ batch'[at[k - 1] + 2] = batch[at[k - 1] + 2]
        BY <1>6, <4>4
      <4>6. \A i \in 1 .. Len(batched[k]) : batch'[(at[k - 1] + 2) + i] = batch[(at[k - 1] + 2) + i]
        BY <1>6, <4>4
      <4> QED
        BY <4>1, <4>2, <4>5, <4>6, ZenonT(30)
    <3>2. CASE k = n + 1
      <4>1. k - 1 = n /\ next[k - 1] = o /\ next[k] = o + 2 + Len(msg) /\ batched'[k] = msg
        <5>1. k - 1 = n /\ n \in 0 .. n
          BY <1>7, <3>2
        <5> QED
          BY <1>7, <1>9, <1>12, <3>2, <5>1
      <4> QED
        BY <1>6, <1>13, <4>1
    <3> QED
      BY <1>7, <3>1, <3>2
  <2>4. Len(batched') = n + 1
    BY <1>7
  <2>5. next \in [Nat -> Nat] /\ next[Len(batched')] = Len(batch')
    BY <1>9, <2>1, <2>4
  <2>6. \A k \in 1 .. n + 1 : ReadU16(batch', next[k - 1]) = Len(batched'[k])
    BY <2>3 DEF ReadU16
  <2> QED
    BY <2>1, <2>2, <2>3, <2>4, <2>5, <2>6 DEF LaidOut, ReadU16
<1>11. ReaderPlace(next)'
  <2>1. reader = NoReader /\ finished = FALSE
    BY <1>1, <1>2, <1>5 DEF ReaderPlace, BatchTypes
  <2>2. reader' = NoReader /\ finished' = FALSE /\ unbatched' = <<>> /\ readFailed' = FALSE
    BY <1>1, <1>5, <2>1 DEF ReaderPlace
  <2> QED
    BY <2>2 DEF ReaderPlace
<1> QED
  BY <1>8, <1>10, <1>11 DEF BatchInv

LEMMA WriterFinishes == ASSUME BatchInv, WriterFinish PROVE BatchInv'
<1>1. PICK at : LaidOut(at) /\ ReaderPlace(at)
  BY DEF BatchInv
<1>2. BatchTypes
  BY DEF BatchInv
<1> DEFINE o == Len(batch)
<1>3. /\ ~finished /\ finished' = TRUE /\ batch' = [batch EXCEPT ![1] = Len(batched)]
      /\ UNCHANGED <<batched, reader, unbatched, readFailed>>
  BY DEF WriterFinish
<1>4. /\ batch' \in Seq(Nat) /\ Len(batch') = o /\ o \in Nat \ {0} /\ batch'[1] = Len(batched)
      /\ \A i \in 2 .. o : batch'[i] = batch[i]
  BY <1>2, <1>3 DEF BatchTypes
<1>5. BatchTypes'
  BY <1>2, <1>3, <1>4 DEF BatchTypes
<1>6. LaidOut(at)'
  <2>1. ASSUME NEW k \in 1 .. Len(batched)
        PROVE  /\ batch'[at[k - 1] + 1] + ByteValues * batch'[at[k - 1] + 2] = Len(batched[k])
               /\ \A i \in 1 .. Len(batched[k]) : batch'[(at[k - 1] + 2) + i] = batched[k][i]
    <3>1. Len(batched) \in Nat /\ Len(batched[k]) \in Nat
      BY <1>2, <2>1 DEF BatchTypes
    <3>2. k - 1 \in 0 .. Len(batched) /\ k \in 0 .. Len(batched)
      BY <2>1, <3>1
    <3>3. /\ at[k] = at[k - 1] + 2 + Len(batched[k]) /\ at[k] \in 1 .. o /\ at[k - 1] \in 1 .. o
          /\ batch[at[k - 1] + 1] + ByteValues * batch[at[k - 1] + 2] = Len(batched[k])
          /\ \A i \in 1 .. Len(batched[k]) : batch[(at[k - 1] + 2) + i] = batched[k][i]
      BY <1>1, <2>1, <3>2 DEF LaidOut, ReadU16
    <3>4. at[k - 1] + 1 \in 2 .. o /\ at[k - 1] + 2 \in 2 .. o /\ \A i \in 1 .. Len(batched[k]) : (at[k - 1] + 2) + i \in 2 .. o
      <4>1. ASSUME NEW a \in 1 .. o, NEW b \in 1 .. o, NEW l \in Nat, b = a + 2 + l
            PROVE  a + 1 \in 2 .. o /\ a + 2 \in 2 .. o /\ \A i \in 1 .. l : (a + 2) + i \in 2 .. o
        BY <1>4, <4>1, SMTT(30)
      <4> QED
        BY <3>1, <3>3, <4>1
    <3>5. batch'[at[k - 1] + 1] = batch[at[k - 1] + 1] /\ batch'[at[k - 1] + 2] = batch[at[k - 1] + 2]
      BY <1>4, <3>4
    <3>6. \A i \in 1 .. Len(batched[k]) : batch'[(at[k - 1] + 2) + i] = batch[(at[k - 1] + 2) + i]
      BY <1>4, <3>4
    <3> QED
      BY <3>3, <3>5, <3>6
  <2>2. batched' = batched /\ Len(batch') = o
    BY <1>3, <1>4
  <2> QED
    BY <1>1, <2>1, <2>2 DEF LaidOut, ReadU16
<1>7. ReaderPlace(at)'
  <2>1. reader = NoReader
    BY <1>1, <1>3 DEF ReaderPlace
  <2>2. reader' = NoReader /\ unbatched' = <<>> /\ readFailed' = FALSE
    BY <1>1, <1>3, <2>1 DEF ReaderPlace
  <2> QED
    BY <1>3, <1>4, <2>2 DEF ReaderPlace
<1> QED
  BY <1>5, <1>6, <1>7 DEF BatchInv

LEMMA ReaderInits ==
    ASSUME BatchInv, NEW n \in 1 .. Len(batch), ReaderInit(n)
    PROVE  BatchInv'
<1>1. PICK at : LaidOut(at) /\ ReaderPlace(at)
  BY DEF BatchInv
<1>2. BatchTypes
  BY DEF BatchInv
<1>3. /\ finished /\ reader = NoReader /\ reader' = [bufLen |-> n, offset |-> 1, read |-> 0]
      /\ UNCHANGED <<batch, batched, finished, unbatched, readFailed>>
  BY DEF ReaderInit
<1>4. n \in Nat /\ n \in 1 .. Len(batch)
  BY <1>2 DEF BatchTypes
<1>5. BatchTypes'
  BY <1>2, <1>3, <1>4 DEF BatchTypes
<1>6. LaidOut(at)'
  BY <1>1, <1>3 DEF LaidOut, ReadU16
<1>7. ReaderPlace(at)'
  <2>1. unbatched' = <<>> /\ readFailed' = FALSE /\ at[0] = 1 /\ batch[1] = Len(batched) /\ Len(batched) \in Nat
    BY <1>1, <1>2, <1>3 DEF ReaderPlace, LaidOut, BatchTypes
  <2> QED
    BY <1>3, <1>4, <2>1 DEF ReaderPlace
<1> QED
  BY <1>5, <1>6, <1>7 DEF BatchInv

LEMMA ReaderReads == ASSUME BatchInv, ReaderNext PROVE BatchInv'
<1>1. PICK at : LaidOut(at) /\ ReaderPlace(at)
  BY DEF BatchInv
<1>2. BatchTypes
  BY DEF BatchInv
<1>3. /\ reader # NoReader /\ reader.read < batch[1] /\ UNCHANGED <<batch, batched, finished>>
  BY DEF ReaderNext
<1> DEFINE x == reader.offset
           len == ReadU16(batch, x)
           start == x + 2
           piece == SubSeq(batch, start + 1, start + len)
<1>4. /\ finished /\ batch[1] = Len(batched) /\ reader.bufLen \in 1 .. Len(batch) /\ Len(batched) \in Nat
      /\ reader.bufLen \in Nat /\ x \in Nat /\ reader.read \in Nat /\ Len(batch) \in Nat
  BY <1>1, <1>2, <1>3 DEF ReaderPlace, BatchTypes
<1>5. ASSUME LengthIsThere PROVE len \in Nat /\ start \in Nat
  <2>1. x + 1 \in 1 .. Len(batch) /\ x + 2 \in 1 .. Len(batch)
    BY <1>4, <1>5 DEF LengthIsThere
  <2>2. batch[x + 1] \in Nat /\ batch[x + 2] \in Nat /\ ByteValues \in Nat
    BY <1>2, <2>1, BatchAssumption, SMTT(30) DEF BatchTypes
  <2>3. \A a, b, c \in Nat : a + b * c \in Nat
    BY Z3
  <2>4. len = batch[x + 1] + ByteValues * batch[x + 2]
    BY DEF ReadU16
  <2>5. len \in Nat
    BY <2>2, <2>3, <2>4, Zenon
  <2> QED
    BY <1>4, <2>5
\* Where the reader is as long as it has not failed, and that it then cannot fail if
\* it has the whole buffer.
<1>6. ASSUME readFailed = FALSE
      PROVE  /\ reader.read + 1 \in 1 .. Len(batched) /\ reader.read = Len(unbatched)
             /\ x = at[reader.read] /\ x \in Nat
             /\ len = Len(batched[reader.read + 1])
             /\ at[reader.read + 1] = start + len /\ start + len \in 1 .. Len(batch)
             /\ \A i \in 1 .. len : batch[start + i] = batched[reader.read + 1][i]
             /\ batched[reader.read + 1] \in Seq(Nat) /\ len \in Nat
  <2> DEFINE k == reader.read + 1
  <2>1. reader.read = Len(unbatched) /\ x = at[reader.read] /\ k \in 1 .. Len(batched) /\ k - 1 = reader.read
    BY <1>1, <1>3, <1>4, <1>6 DEF ReaderPlace
  <2>2. k \in 0 .. Len(batched)
    BY <2>1
  <2> HIDE DEF k
  <2>3. /\ at[k] = at[k - 1] + 2 + Len(batched[k]) /\ at[k] \in 1 .. Len(batch)
        /\ ReadU16(batch, at[k - 1]) = Len(batched[k])
        /\ \A i \in 1 .. Len(batched[k]) : batch[(at[k - 1] + 2) + i] = batched[k][i]
    BY <1>1, <2>1, <2>2 DEF LaidOut
  <2>4. batched[k] \in Seq(Nat) /\ Len(batched[k]) \in Nat
    BY <1>2, <2>1 DEF BatchTypes
  <2> QED
    BY <1>4, <2>1, <2>3, <2>4 DEF k
<1>7. CASE ~LengthIsThere
  <2>1. readFailed' = TRUE /\ reader' = reader /\ unbatched' = unbatched
    BY <1>7 DEF ReaderNext
  <2>2. reader.bufLen # Len(batch)
    <3>1. CASE readFailed = FALSE
      <4>1. start + len \in 1 .. Len(batch) /\ len \in Nat
        BY <1>6, <3>1
      <4>2. ~(start <= reader.bufLen)
        BY <1>7 DEF LengthIsThere
      <4> HIDE DEF len, start
      <4>3. start \in Nat
        BY <1>4 DEF start
      <4> QED
        BY <1>4, <4>1, <4>2, <4>3
    <3>2. CASE readFailed = TRUE
      BY <1>1, <3>2 DEF ReaderPlace
    <3> QED
      BY <1>2, <3>1, <3>2 DEF BatchTypes
  <2>3. BatchTypes'
    BY <1>2, <1>3, <2>1 DEF BatchTypes
  <2>4. LaidOut(at)'
    BY <1>1, <1>3 DEF LaidOut, ReadU16
  <2>5. ReaderPlace(at)'
    BY <1>3, <1>4, <2>1, <2>2 DEF ReaderPlace
  <2> QED
    BY <2>3, <2>4, <2>5 DEF BatchInv
<1>8. CASE LengthIsThere /\ ~MessageIsThere
  <2>1. readFailed' = TRUE /\ reader' = [reader EXCEPT !.offset = @ + 2] /\ unbatched' = unbatched
    BY <1>8 DEF ReaderNext
  <2>2. reader.bufLen # Len(batch)
    <3>1. CASE readFailed = FALSE
      <4>1. start + len \in 1 .. Len(batch)
        BY <1>6, <3>1
      <4>2. ~(start + len <= reader.bufLen)
        BY <1>8 DEF MessageIsThere
      <4> HIDE DEF len, start
      <4> QED
        BY <1>4, <4>1, <4>2
    <3>2. CASE readFailed = TRUE
      BY <1>1, <3>2 DEF ReaderPlace
    <3> QED
      BY <1>2, <3>1, <3>2 DEF BatchTypes
  <2>3. reader' = [bufLen |-> reader.bufLen, offset |-> x + 2, read |-> reader.read] /\ reader'.bufLen = reader.bufLen
    BY <1>2, <2>1 DEF BatchTypes
  <2>4. reader' # NoReader
    BY <1>4, <2>3 DEF NoReader
  <2>5. BatchTypes'
    <3>1. reader' \in [bufLen : Nat, offset : Nat, read : Nat]
      BY <1>4, <2>3
    <3> QED
      BY <1>2, <1>3, <2>1, <3>1 DEF BatchTypes
  <2>6. LaidOut(at)'
    BY <1>1, <1>3 DEF LaidOut, ReadU16
  <2>7. ReaderPlace(at)'
    BY <1>3, <1>4, <2>1, <2>2, <2>3, <2>4 DEF ReaderPlace
  <2> QED
    BY <2>5, <2>6, <2>7 DEF BatchInv
<1>9. CASE LengthIsThere /\ MessageIsThere
  <2>1. /\ unbatched' = Append(unbatched, piece) /\ readFailed' = readFailed
        /\ reader' = [reader EXCEPT !.offset = start + len, !.read = @ + 1]
    BY <1>9 DEF ReaderNext
  <2>2. len \in Nat /\ start \in Nat /\ start + len <= Len(batch)
    BY <1>4, <1>5, <1>9 DEF MessageIsThere
  <2>3. /\ reader' = [bufLen |-> reader.bufLen, offset |-> start + len, read |-> reader.read + 1]
        /\ reader'.bufLen = reader.bufLen /\ reader'.offset = start + len /\ reader'.read = reader.read + 1
    BY <1>2, <2>1 DEF BatchTypes
  <2> HIDE DEF len, start
  <2>4. piece \in Seq(Nat)
    <3>1. start + 1 \in Int /\ start + len \in Int /\ \A i \in start + 1 .. start + len : batch[i] \in Nat
      BY <1>2, <2>2 DEF BatchTypes
    <3> QED
      BY <3>1, SubSeqProperties
  <2>5. reader' # NoReader
    BY <1>4, <2>3 DEF NoReader
  <2>6. BatchTypes'
    <3>1. unbatched' \in Seq(Seq(Nat))
      BY <1>2, <2>1, <2>4 DEF BatchTypes
    <3>2. reader' \in [bufLen : Nat, offset : Nat, read : Nat]
      BY <1>4, <2>2, <2>3
    <3> QED
      BY <1>2, <1>3, <2>1, <3>1, <3>2 DEF BatchTypes
  <2>7. LaidOut(at)'
    BY <1>1, <1>3 DEF LaidOut, ReadU16
  <2>8. ASSUME readFailed = FALSE
        PROVE  /\ reader'.read = Len(unbatched') /\ reader'.read <= Len(batched)
               /\ reader'.offset = at[reader'.read]
               /\ \A i \in 1 .. Len(unbatched') : unbatched'[i] = batched[i]
    <3> DEFINE k == reader.read + 1
    <3>1. /\ k \in 1 .. Len(batched) /\ reader.read = Len(unbatched) /\ at[k] = start + len
          /\ batched[k] \in Seq(Nat) /\ len = Len(batched[k]) /\ start + len \in 1 .. Len(batch)
          /\ \A i \in 1 .. len : batch[start + i] = batched[k][i]
      BY <1>6, <2>8 DEF len, start
    <3>2. piece = batched[k]
      <4>1. batch \in Seq(Nat) /\ start + Len(batched[k]) <= Len(batch)
        BY <1>2, <2>2, <3>1 DEF BatchTypes
      <4>2. \A i \in 1 .. Len(batched[k]) : batch[start + i] = batched[k][i]
        BY <3>1
      <4> HIDE DEF k
      <4>3. SubSeq(batch, start + 1, start + Len(batched[k])) = batched[k]
        BY <2>2, <3>1, <4>1, <4>2, PieceAs
      <4> QED
        BY <3>1, <4>3
    <3>3. \A i \in 1 .. Len(unbatched) : unbatched[i] = batched[i]
      BY <1>1, <1>3, <2>8 DEF ReaderPlace
    <3> HIDE DEF piece
    <3>4. /\ Len(unbatched') = k /\ unbatched'[k] = piece /\ \A i \in 1 .. Len(unbatched) : unbatched'[i] = unbatched[i]
      BY <1>2, <2>1, <3>1 DEF BatchTypes
    <3>5. ASSUME NEW i \in 1 .. Len(unbatched') PROVE unbatched'[i] = batched[i]
      <4>1. i = k \/ i \in 1 .. Len(unbatched)
        BY <1>4, <3>1, <3>4
      <4> QED
        BY <3>2, <3>3, <3>4, <4>1
    <3> QED
      BY <1>4, <2>3, <3>1, <3>4, <3>5
  <2>9. ReaderPlace(at)'
    BY <1>1, <1>3, <1>4, <2>1, <2>3, <2>5, <2>8 DEF ReaderPlace
  <2> QED
    BY <2>6, <2>7, <2>9 DEF BatchInv
<1> QED
  BY <1>7, <1>8, <1>9

LEMMA BatchStep == BatchInv /\ [BatchNext]_batchVars => BatchInv'
<1> SUFFICES ASSUME BatchInv, [BatchNext]_batchVars PROVE BatchInv'
  OBVIOUS
<1>1. CASE UNCHANGED batchVars
  BY <1>1 DEF batchVars, BatchInv, BatchTypes, LaidOut, ReaderPlace, ReadU16
<1>2. ASSUME NEW msg \in BatchMessages, WriterAdd(msg) PROVE BatchInv'
  BY <1>2, WriterAdds
<1>3. CASE WriterFinish
  BY <1>3, WriterFinishes
<1>4. ASSUME NEW n \in 1 .. Len(batch), ReaderInit(n) PROVE BatchInv'
  BY <1>4, ReaderInits
<1>5. CASE ReaderNext
  BY <1>5, ReaderReads
<1> QED
  BY <1>1, <1>2, <1>3, <1>4, <1>5 DEF BatchNext

\* Up to its first error the reader of a batch returns what was put in, in order, and
\* from a whole buffer it does so without error.
THEOREM BatchReadBack == BatchSpec => []BatchIsRead
<1> QED
  BY BatchStart, BatchStep, BatchRead, PTL DEF BatchSpec

-----------------------------------------------------------------------------
(* Slices of a message. *)

\* The lesser of two numbers, and the number of slices of a size that cover a length.
LEMMA LesserOf ==
    ASSUME NEW a \in Int, NEW b \in Int
    PROVE  Min({a, b}) = IF a <= b THEN a ELSE b
<1> DEFINE m == Min({a, b})
<1>1. m \in {a, b} /\ \A y \in {a, b} : m <= y
  <2>1. \E x \in {a, b} : \A y \in {a, b} : x <= y
    OBVIOUS
  <2> QED
    BY <2>1, Zenon DEF Min
<1> HIDE DEF m
<1>2. (m = a \/ m = b) /\ m <= a /\ m <= b
  BY <1>1
<1>3. m = IF a <= b THEN a ELSE b
  BY <1>2
<1> QED
  BY <1>3 DEF m

LEMMA CoveredBy ==
    ASSUME NEW len \in Nat \ {0}, NEW max \in Nat \ {0}, NEW count, count = (len + max - 1) \div max
    PROVE  count \in Nat \ {0} /\ (count - 1) * max < len /\ len <= count * max
<1>1. \A n \in Nat, d \in Nat \ {0} : n \div d \in Nat /\ d * (n \div d) <= n /\ n < d * (n \div d) + d
  BY Z3
<1> DEFINE n == len + max - 1
<1>2. n \in Nat /\ count = n \div max
  OBVIOUS
<1> HIDE DEF n
<1>3. count \in Nat /\ max * count <= n /\ n < max * count + max
  BY <1>1, <1>2
<1>4. n = len + max - 1
  BY DEF n
<1>5. max * count \in Nat /\ max * count - max < len /\ len <= max * count
  <2>1. \A p, q \in Nat : p * q \in Nat
    BY Z3
  <2>2. max * count \in Nat
    BY <1>3, <2>1
  <2> DEFINE p == max * count
  <2> HIDE DEF p
  <2>3. p \in Nat /\ p <= n /\ n < p + max
    BY <1>3, <2>2 DEF p
  <2>4. p - max < len /\ len <= p
    BY <1>4, <2>3
  <2> QED
    BY <2>3, <2>4 DEF p
<1>6. \A p, q \in Nat : p * q = q * p /\ (p - 1) * q = q * p - q
  BY Z3
<1>7. count * max = max * count /\ (count - 1) * max = max * count - max
  BY <1>3, <1>6
<1>8. count # 0
  <2>1. max * 0 = 0
    OBVIOUS
  <2> QED
    BY <1>5, <2>1
<1> QED
  BY <1>3, <1>5, <1>7, <1>8

\* Two pieces that follow each other are one.
LEMMA PiecesFollow ==
    ASSUME NEW T, NEW q \in Seq(T), NEW a \in Nat, NEW b \in Nat, a <= b, b <= Len(q)
    PROVE  SubSeq(q, 1, a) \o SubSeq(q, a + 1, b) = SubSeq(q, 1, b)
<1> DEFINE u == SubSeq(q, 1, a)  v == SubSeq(q, a + 1, b)  w == SubSeq(q, 1, b)
<1>1. Len(q) \in Nat /\ \A i \in 1 .. Len(q) : q[i] \in T
  OBVIOUS
<1>2. u \in Seq(T) /\ Len(u) = a /\ \A i \in 1 .. a : u[i] = q[i]
  <2>1. 1 \in Int /\ a \in Int /\ \A i \in 1 .. a : q[i] \in T
    BY <1>1
  <2>2. u \in Seq(T) /\ (Len(u) = IF 1 <= a THEN a - 1 + 1 ELSE 0) /\ \A i \in 1 .. a - 1 + 1 : u[i] = q[1 + i - 1]
    BY <2>1, SubSeqProperties
  <2> QED
    BY <2>2
<1>3. v \in Seq(T) /\ Len(v) = b - a /\ \A i \in 1 .. b - a : v[i] = q[a + i]
  <2>1. a + 1 \in Int /\ b \in Int /\ \A i \in a + 1 .. b : q[i] \in T
    BY <1>1
  <2>2. v \in Seq(T) /\ (Len(v) = IF a + 1 <= b THEN b - (a + 1) + 1 ELSE 0)
        /\ \A i \in 1 .. b - (a + 1) + 1 : v[i] = q[(a + 1) + i - 1]
    BY <2>1, SubSeqProperties
  <2> HIDE DEF v
  <2> QED
    BY <2>2
<1>4. w \in Seq(T) /\ Len(w) = b /\ \A i \in 1 .. b : w[i] = q[i]
  <2>1. 1 \in Int /\ b \in Int /\ \A i \in 1 .. b : q[i] \in T
    BY <1>1
  <2>2. w \in Seq(T) /\ (Len(w) = IF 1 <= b THEN b - 1 + 1 ELSE 0) /\ \A i \in 1 .. b - 1 + 1 : w[i] = q[1 + i - 1]
    BY <2>1, SubSeqProperties
  <2> QED
    BY <2>2
<1> HIDE DEF u, v, w
<1> DEFINE j == u \o v
<1>5. j \in Seq(T) /\ Len(j) = Len(u) + Len(v)
  BY <1>2, <1>3, JoinedIs
<1>6. \A i \in 1 .. Len(u) : j[i] = u[i]
  BY <1>2, <1>3, JoinedIs
<1>7. \A i \in 1 .. Len(v) : j[Len(u) + i] = v[i]
  BY <1>2, <1>3, JoinedIs
<1> HIDE DEF j
<1>8. Len(j) = b
  BY <1>2, <1>3, <1>5
<1>9. ASSUME NEW i \in 1 .. b PROVE j[i] = w[i]
  <2>1. CASE i <= a
    BY <1>2, <1>4, <1>6, <2>1
  <2>2. CASE i > a
    <3>1. i - a \in 1 .. b - a /\ a + (i - a) = i
      BY <2>2
    <3> DEFINE k == i - a
    <3>2. k \in 1 .. Len(v) /\ Len(u) + k = i /\ a + k = i
      BY <1>2, <1>3, <3>1
    <3> HIDE DEF k
    <3>3. j[Len(u) + k] = v[k] /\ v[k] = q[a + k]
      BY <1>3, <1>7, <3>2
    <3> QED
      BY <1>4, <3>2, <3>3
  <2> QED
    BY <2>1, <2>2
<1>10. j = w
  BY <1>4, <1>5, <1>8, <1>9
<1> QED
  BY <1>10 DEF j, u, v, w

\* Up to where the first k slices go.
EdgeOf(k) == IF k * whole.max <= Len(whole.msg) THEN k * whole.max ELSE Len(whole.msg)

\* The slices are as many as the message needs, and those that were built and those that
\* were read are its slices.
SlicesInv ==
    /\ whole.msg \in Seq(Nat) /\ whole.max \in Nat
    /\ sliceCount = NotCounted \/ sliceCount = FragmentCount(Len(whole.msg), whole.max)
    /\ \A f \in built :
          /\ sliceCount > 0 /\ f.count = sliceCount /\ f.index \in 0 .. sliceCount - 1
          /\ f.data = SliceOf(f.index)
    /\ \A i \in DOMAIN joined :
          sliceCount > 0 /\ i \in 0 .. sliceCount - 1 /\ joined[i] = SliceOf(i)

\* What it is for there to be slices.
LEMMA Announced ==
    ASSUME SlicesInv, sliceCount > 0
    PROVE  /\ sliceCount \in Nat \ {0} /\ whole.max \in Nat \ {0} /\ Len(whole.msg) \in Nat \ {0}
           /\ (sliceCount - 1) * whole.max < Len(whole.msg)
           /\ Len(whole.msg) <= sliceCount * whole.max
<1> DEFINE len == Len(whole.msg)  max == whole.max  count == (len + max - 1) \div max
<1>1. len \in Nat /\ max \in Nat /\ sliceCount = FragmentCount(len, max)
  BY DEF SlicesInv, NotCounted
<1>2. len # 0 /\ max # 0 /\ sliceCount = count
  BY <1>1 DEF FragmentCount, Refused
<1> HIDE DEF count, len, max
<1>3. len \in Nat \ {0} /\ max \in Nat \ {0} /\ sliceCount = (len + max - 1) \div max
  BY <1>1, <1>2 DEF count
<1>4. sliceCount \in Nat \ {0} /\ (sliceCount - 1) * max < len /\ len <= sliceCount * max
  BY <1>3, CoveredBy
<1> QED
  BY <1>3, <1>4 DEF len, max

\* A slice goes from the edge of those before it to the next one.
LEMMA SliceIs ==
    ASSUME SlicesInv, sliceCount > 0, NEW i \in 0 .. sliceCount - 1
    PROVE  /\ EdgeOf(i) \in Nat /\ EdgeOf(i + 1) \in Nat
           /\ EdgeOf(i) < EdgeOf(i + 1) /\ EdgeOf(i + 1) <= Len(whole.msg)
           /\ EdgeOf(i + 1) - EdgeOf(i) <= whole.max
           /\ SliceOf(i) = SubSeq(whole.msg, EdgeOf(i) + 1, EdgeOf(i + 1))
<1> DEFINE len == Len(whole.msg)  max == whole.max  p == i * max  q == (i + 1) * max
<1>1. /\ sliceCount \in Nat \ {0} /\ max \in Nat \ {0} /\ len \in Nat \ {0}
      /\ (sliceCount - 1) * max < len
  BY Announced
<1>2. i \in Nat /\ i <= sliceCount - 1 /\ sliceCount - 1 \in Nat
  BY <1>1
<1>3. \A a, b, c \in Nat : a <= b => a * c <= b * c /\ a * c \in Nat /\ b * c \in Nat /\ (a + 1) * c = a * c + c
  BY Z3
<1>4. p \in Nat /\ p < len /\ q = p + max
  <2> HIDE DEF len, max
  <2>1. i * max <= (sliceCount - 1) * max /\ i * max \in Nat /\ (sliceCount - 1) * max \in Nat /\ (i + 1) * max = i * max + max
    BY <1>1, <1>2, <1>3
  <2> QED
    BY <1>1, <2>1
<1>5. EdgeOf(i) = (IF p <= len THEN p ELSE len) /\ EdgeOf(i + 1) = (IF q <= len THEN q ELSE len)
  BY DEF EdgeOf
<1>6. SliceOf(i) = SubSeq(whole.msg, p + 1, Min({p + max, len}))
  BY DEF SliceOf
<1> HIDE DEF p, q, len, max
<1>7. Min({p + max, len}) = IF q <= len THEN q ELSE len
  BY <1>1, <1>4, LesserOf
<1>8. EdgeOf(i) = p /\ EdgeOf(i) \in Nat /\ EdgeOf(i + 1) \in Nat /\ EdgeOf(i) < EdgeOf(i + 1) /\ EdgeOf(i + 1) <= len
      /\ EdgeOf(i + 1) - EdgeOf(i) <= max
  BY <1>1, <1>4, <1>5
<1>9. SliceOf(i) = SubSeq(whole.msg, EdgeOf(i) + 1, EdgeOf(i + 1))
  BY <1>5, <1>6, <1>7, <1>8, Zenon
<1> QED
  BY <1>8, <1>9 DEF len, max

LEMMA SlicesMeet == SlicesInv => SlicesJoin
<1> SUFFICES ASSUME SlicesInv PROVE SlicesJoin
  OBVIOUS
<1> DEFINE msg == whole.msg
<1>0. msg \in Seq(Nat) /\ Len(msg) \in Nat
  BY DEF SlicesInv
<1>1. ASSUME NEW i \in DOMAIN joined PROVE Len(joined[i]) \in 1 .. whole.max
  <2>1. sliceCount > 0 /\ i \in 0 .. sliceCount - 1 /\ joined[i] = SliceOf(i)
    BY <1>1 DEF SlicesInv
  <2> DEFINE a == EdgeOf(i)  b == EdgeOf(i + 1)
  <2>2. a \in Nat /\ b \in Nat /\ a < b /\ b <= Len(msg) /\ b - a <= whole.max /\ joined[i] = SubSeq(msg, a + 1, b)
    BY <2>1, SliceIs
  <2> HIDE DEF a, b
  <2>3. a + 1 \in Int /\ b \in Int /\ \A k \in a + 1 .. b : msg[k] \in Nat
    BY <1>0, <2>2, SMTT(30)
  <2>4. Len(SubSeq(msg, a + 1, b)) = IF a + 1 <= b THEN b - (a + 1) + 1 ELSE 0
    BY <2>3, SubSeqProperties
  <2>5. whole.max \in Nat
    BY DEF SlicesInv
  <2> QED
    BY <2>2, <2>4, <2>5
<1>2. ASSUME sliceCount > 0, DOMAIN joined = 0 .. sliceCount - 1
      PROVE  FlattenSeq([i \in 1 .. sliceCount |-> joined[i - 1]]) = msg
  <2> DEFINE n == sliceCount
             seqs == [i \in 1 .. n |-> joined[i - 1]]
  <2>1. n \in Nat \ {0} /\ Len(msg) <= n * whole.max /\ whole.max \in Nat
    BY <1>2, Announced
  <2>2. Len(seqs) = n /\ \A i \in 1 .. n : seqs[i] = SliceOf(i - 1)
    <3>1. \A i \in 1 .. n : i - 1 \in 0 .. n - 1
      BY <2>1
    <3>2. \A i \in 0 .. n - 1 : joined[i] = SliceOf(i)
      BY <1>2 DEF SlicesInv
    <3>3. \A i \in 1 .. n : joined[i - 1] = SliceOf(i - 1)
      BY <3>1, <3>2
    <3>4. \A i \in 1 .. n : seqs[i] = joined[i - 1]
      OBVIOUS
    <3>5. Len(seqs) = n
      BY <2>1
    <3> HIDE DEF seqs
    <3> QED
      BY <3>3, <3>4, <3>5
  <2> HIDE DEF seqs
  <2>3. PICK f : Flats(f, seqs, n) /\ FlattenSeq(seqs) = f[n]
    BY <2>1, <2>2, FlattenStep
  <2>4. \A k \in 1 .. n : f[k] = IF k = 1 THEN seqs[k] ELSE f[k - 1] \o seqs[k]
    BY <2>3 DEF Flats, Concat
  <2> DEFINE G == {k \in Nat : k + 1 \in 1 .. n => f[k + 1] = SubSeq(msg, 1, EdgeOf(k + 1))}
  <2>5. 0 \in G
    <3>1. f[1] = SliceOf(0) /\ 1 \in 1 .. n /\ 0 \in 0 .. n - 1
      BY <2>1, <2>2, <2>4
    <3>2. EdgeOf(0) = 0
      <4>1. 0 * whole.max = 0 /\ 0 <= Len(msg)
        BY <1>0, <2>1
      <4> QED
        BY <4>1 DEF EdgeOf
    <3>3. SliceOf(0) = SubSeq(msg, EdgeOf(0) + 1, EdgeOf(0 + 1))
      BY <1>2, <3>1, SliceIs
    <3>4. f[0 + 1] = SubSeq(msg, 1, EdgeOf(0 + 1))
      BY <3>1, <3>2, <3>3
    <3> QED
      BY <3>4
  <2>6. ASSUME NEW k \in Nat, k \in G PROVE k + 1 \in G
    <3> SUFFICES ASSUME (k + 1) + 1 \in 1 .. n PROVE f[(k + 1) + 1] = SubSeq(msg, 1, EdgeOf((k + 1) + 1))
      OBVIOUS
    <3> DEFINE i == k + 1
    <3>1. i \in 1 .. n /\ i + 1 \in 1 .. n /\ i \in 0 .. n - 1 /\ (i + 1) - 1 = i /\ i + 1 # 1
      BY <2>1
    <3>2. f[i] = SubSeq(msg, 1, EdgeOf(i))
      BY <2>6, <3>1
    <3> HIDE DEF i, G
    <3>3. f[i + 1] = f[i] \o SliceOf(i)
      <4> DEFINE j == i + 1
      <4>1. j \in 1 .. n /\ j # 1 /\ j - 1 = i
        BY <3>1
      <4> HIDE DEF j
      <4>2. f[j] = f[j - 1] \o seqs[j] /\ seqs[j] = SliceOf(j - 1)
        BY <2>2, <2>4, <4>1
      <4> QED
        BY <4>1, <4>2 DEF j
    <3>4. /\ EdgeOf(i) \in Nat /\ EdgeOf(i + 1) \in Nat /\ EdgeOf(i) <= EdgeOf(i + 1) /\ EdgeOf(i + 1) <= Len(msg)
          /\ SliceOf(i) = SubSeq(msg, EdgeOf(i) + 1, EdgeOf(i + 1))
      BY <1>2, <3>1, SliceIs
    <3>5. SubSeq(msg, 1, EdgeOf(i)) \o SubSeq(msg, EdgeOf(i) + 1, EdgeOf(i + 1)) = SubSeq(msg, 1, EdgeOf(i + 1))
      BY <1>0, <3>4, PiecesFollow
    <3> QED
      BY <3>2, <3>3, <3>4, <3>5 DEF i
  <2> HIDE DEF G
  <2>7. Nat \subseteq G
    BY <2>5, <2>6, Everywhere
  <2>8. f[n] = SubSeq(msg, 1, EdgeOf(n))
    <3>1. n - 1 \in Nat /\ (n - 1) + 1 = n /\ n \in 1 .. n
      BY <2>1
    <3>2. n - 1 \in G
      BY <2>7, <3>1
    <3> QED
      BY <3>1, <3>2 DEF G
  <2>9. EdgeOf(n) = Len(msg)
    <3>1. n * whole.max \in Nat
      <4>1. \A a, b \in Nat : a * b \in Nat
        BY Z3
      <4> QED
        BY <2>1, <4>1
    <3> QED
      BY <1>0, <2>1, <3>1 DEF EdgeOf
  <2>10. SubSeq(msg, 1, Len(msg)) = msg
    BY <1>0
  <2> QED
    BY <2>3, <2>8, <2>9, <2>10 DEF seqs
<1> QED
  BY <1>1, <1>2 DEF SlicesJoin

LEMMA SlicesStart == SlicesInit => SlicesInv
<1> SUFFICES ASSUME SlicesInit PROVE SlicesInv
  OBVIOUS
<1>1. whole \in [msg : SliceMessages, max : SliceSizes] /\ sliceCount = NotCounted /\ built = {} /\ joined = <<>>
  BY DEF SlicesInit
<1>2. whole.msg \in Seq(Nat) /\ whole.max \in Nat
  BY <1>1, SlicesAssumption
<1>3. DOMAIN joined = {}
  BY <1>1
<1> QED
  BY <1>1, <1>2, <1>3 DEF SlicesInv

LEMMA SlicesStep == SlicesInv /\ [SlicesNext]_sliceVars => SlicesInv'
<1> SUFFICES ASSUME SlicesInv, [SlicesNext]_sliceVars PROVE SlicesInv'
  OBVIOUS
<1>1. CASE UNCHANGED sliceVars
  BY <1>1 DEF sliceVars, SlicesInv, SliceOf
<1>2. CASE Count
  <2>1. built = {} /\ DOMAIN joined = {}
    <3>1. ~(sliceCount > 0)
      BY <1>2 DEF Count, NotCounted
    <3> QED
      BY <3>1 DEF SlicesInv
  <2> QED
    BY <1>2, <2>1 DEF Count, SlicesInv
<1>3. ASSUME NEW index \in 0 .. MaxFragmentCount, Build(index) PROVE SlicesInv'
  <2> DEFINE new == [index |-> index, count |-> sliceCount, data |-> SliceOf(index)]
  <2>1. /\ sliceCount > 0 /\ index < sliceCount /\ built' = built \cup {new}
        /\ UNCHANGED <<whole, sliceCount, joined>>
    BY <1>3 DEF Build, Valid
  <2>2. index \in 0 .. sliceCount - 1
    <3>1. sliceCount \in Nat
      BY <2>1, Announced
    <3> QED
      BY <1>3, <2>1, <3>1
  <2>3. \A i : SliceOf(i)' = SliceOf(i)
    BY <2>1 DEF SliceOf
  <2>4. new.index = index /\ new.count = sliceCount /\ new.data = SliceOf(index)
    OBVIOUS
  <2> HIDE DEF new
  <2>5. \A f \in built' :
          /\ sliceCount > 0 /\ f.count = sliceCount /\ f.index \in 0 .. sliceCount - 1
          /\ f.data = SliceOf(f.index)
    <3> SUFFICES ASSUME NEW f \in built'
                 PROVE  /\ sliceCount > 0 /\ f.count = sliceCount /\ f.index \in 0 .. sliceCount - 1
                        /\ f.data = SliceOf(f.index)
      OBVIOUS
    <3>1. CASE f = new
      BY <2>1, <2>2, <2>4, <3>1
    <3>2. CASE f \in built
      BY <3>2 DEF SlicesInv
    <3> QED
      BY <2>1, <3>1, <3>2
  <2> QED
    BY <2>1, <2>3, <2>5 DEF SlicesInv
<1>4. ASSUME NEW fragment \in built, Read(fragment) PROVE SlicesInv'
  <2>1. /\ DOMAIN joined' = DOMAIN joined \cup {fragment.index}
        /\ \A i \in DOMAIN joined' : joined'[i] = IF i = fragment.index THEN fragment.data ELSE joined[i]
        /\ UNCHANGED <<whole, sliceCount, built>>
    BY <1>4 DEF Read
  <2>2. \A i : SliceOf(i)' = SliceOf(i)
    BY <2>1 DEF SliceOf
  <2>3. sliceCount > 0 /\ fragment.index \in 0 .. sliceCount - 1 /\ fragment.data = SliceOf(fragment.index)
    BY <1>4 DEF SlicesInv
  <2>4. \A i \in DOMAIN joined : sliceCount > 0 /\ i \in 0 .. sliceCount - 1 /\ joined[i] = SliceOf(i)
    BY DEF SlicesInv
  <2>5. \A i \in DOMAIN joined' : sliceCount > 0 /\ i \in 0 .. sliceCount - 1 /\ joined'[i] = SliceOf(i)
    BY <2>1, <2>3, <2>4
  <2> QED
    BY <2>1, <2>2, <2>5 DEF SlicesInv
<1> QED
  BY <1>1, <1>2, <1>3, <1>4 DEF SlicesNext

\* The slices of a message that were announced are, when they are put together, the
\* message, and none is empty or larger than asked for.
THEOREM SlicesJoined == SlicesSpec => []SlicesJoin
<1> QED
  BY SlicesStart, SlicesStep, SlicesMeet, PTL DEF SlicesSpec

-----------------------------------------------------------------------------
(* From a message to datagrams and back: digits. *)

\* What is left of a number without each of its last i digits.
Lefts(f, n, base, i) == f = [j \in 0 .. i |-> IF j = 0 THEN n ELSE f[j - 1] \div base]

LEMMA LeftsExist ==
    ASSUME NEW n, NEW base, NEW i \in Nat
    PROVE  \E f : Lefts(f, n, base, i)
<1> DEFINE G == {k \in Nat : \E f : Lefts(f, n, base, k)}
<1>1. 0 \in G
  <2> DEFINE f == [j \in 0 .. 0 |-> n]
  <2>1. f = [j \in 0 .. 0 |-> IF j = 0 THEN n ELSE f[j - 1] \div base]
    OBVIOUS
  <2> QED
    BY <2>1 DEF Lefts
<1>2. ASSUME NEW k \in Nat, k \in G PROVE k + 1 \in G
  <2>1. PICK f : Lefts(f, n, base, k)
    BY <1>2
  <2> DEFINE last == f[k] \div base
             g == [j \in 0 .. k + 1 |-> IF j = k + 1 THEN last ELSE f[j]]
  <2>2. ASSUME NEW j \in 0 .. k + 1
        PROVE  g[j] = IF j = 0 THEN n ELSE g[j - 1] \div base
    <3>1. \A m \in 0 .. k : g[m] = f[m] /\ f[m] = IF m = 0 THEN n ELSE f[m - 1] \div base
      BY <2>1 DEF Lefts
    <3>2. g[k + 1] = f[k] \div base /\ k \in 0 .. k
      OBVIOUS
    <3> HIDE DEF g, last
    <3>3. CASE j = k + 1
      BY <3>1, <3>2, <3>3
    <3>4. CASE j # k + 1
      <4>1. j \in 0 .. k /\ (j # 0 => j - 1 \in 0 .. k)
        BY <3>4
      <4> QED
        BY <3>1, <4>1
    <3> QED
      BY <3>3, <3>4
  <2>3. g = [j \in 0 .. k + 1 |-> IF j = 0 THEN n ELSE g[j - 1] \div base]
    <3>1. DOMAIN g = 0 .. k + 1 /\ g = [j \in 0 .. k + 1 |-> g[j]]
      OBVIOUS
    <3> HIDE DEF g
    <3> QED
      BY <2>2, <3>1, Zenon
  <2> HIDE DEF g
  <2> QED
    BY <2>3 DEF Lefts
<1>3. Nat \subseteq G
  <2> HIDE DEF G
  <2> QED
    BY <1>1, <1>2, Everywhere
<1> QED
  BY <1>3

LEMMA LeftsAgree ==
    ASSUME NEW n, NEW base, NEW m \in Nat, NEW l \in Nat, NEW f, NEW g,
           Lefts(f, n, base, m), Lefts(g, n, base, l)
    PROVE  \A k \in Nat : k <= m /\ k <= l => f[k] = g[k]
<1> DEFINE G == {k \in Nat : k <= m /\ k <= l => f[k] = g[k]}
<1>1. /\ \A i \in 0 .. m : f[i] = IF i = 0 THEN n ELSE f[i - 1] \div base
      /\ \A i \in 0 .. l : g[i] = IF i = 0 THEN n ELSE g[i - 1] \div base
  BY DEF Lefts
<1>2. 0 \in G
  BY <1>1
<1>3. ASSUME NEW k \in Nat, k \in G PROVE k + 1 \in G
  <2> SUFFICES ASSUME k + 1 <= m, k + 1 <= l PROVE f[k + 1] = g[k + 1]
    OBVIOUS
  <2>1. k + 1 \in 0 .. m /\ k + 1 \in 0 .. l /\ k + 1 # 0 /\ (k + 1) - 1 = k /\ k <= m /\ k <= l
    OBVIOUS
  <2>2. f[k] = g[k]
    BY <1>3, <2>1
  <2> QED
    BY <1>1, <2>1, <2>2
<1>4. Nat \subseteq G
  <2> HIDE DEF G
  <2> QED
    BY <1>2, <1>3, Everywhere
<1> QED
  BY <1>4

LEMMA ShiftedLefts ==
    ASSUME NEW n, NEW base, NEW i \in Nat
    PROVE  \E f : Lefts(f, n, base, i) /\ Shifted(n, base, i) = f[i]
<1> DEFINE f == CHOOSE g : Lefts(g, n, base, i)
<1>1. Lefts(f, n, base, i)
  BY LeftsExist
<1>2. Shifted(n, base, i) = f[i]
  BY DEF Shifted, Lefts
<1> QED
  BY <1>1, <1>2

\* One digit after the other.
LEMMA ShiftedMore ==
    ASSUME NEW n, NEW base, NEW i \in Nat
    PROVE  /\ Shifted(n, base, 0) = n
           /\ Shifted(n, base, i + 1) = Shifted(n, base, i) \div base
<1>1. Shifted(n, base, 0) = n
  <2>1. PICK f : Lefts(f, n, base, 0) /\ Shifted(n, base, 0) = f[0]
    BY ShiftedLefts
  <2> QED
    BY <2>1 DEF Lefts
<1>2. Shifted(n, base, i + 1) = Shifted(n, base, i) \div base
  <2>1. PICK f : Lefts(f, n, base, i) /\ Shifted(n, base, i) = f[i]
    BY ShiftedLefts
  <2>2. i + 1 \in Nat
    OBVIOUS
  <2>3. PICK g : Lefts(g, n, base, i + 1) /\ Shifted(n, base, i + 1) = g[i + 1]
    BY <2>2, ShiftedLefts
  <2>4. f[i] = g[i]
    BY <2>1, <2>2, <2>3, LeftsAgree
  <2>5. i + 1 \in 0 .. i + 1 /\ i + 1 # 0 /\ (i + 1) - 1 = i
    OBVIOUS
  <2>6. g[i + 1] = g[(i + 1) - 1] \div base
    BY <2>3, <2>5 DEF Lefts
  <2> QED
    BY <2>1, <2>3, <2>4, <2>5, <2>6
<1> QED
  BY <1>1, <1>2

LEMMA ShiftedNat ==
    ASSUME NEW n \in Nat, NEW base \in Nat \ {0}
    PROVE  \A i \in Nat : Shifted(n, base, i) \in Nat
<1> DEFINE G == {i \in Nat : Shifted(n, base, i) \in Nat}
<1>1. 0 \in G
  <2>1. Shifted(n, base, 0) = n
    BY ShiftedMore
  <2> QED
    BY <2>1
<1>2. ASSUME NEW i \in Nat, i \in G PROVE i + 1 \in G
  <2> DEFINE x == Shifted(n, base, i)
  <2>1. x \in Nat
    BY <1>2
  <2>2. Shifted(n, base, i + 1) = x \div base
    BY ShiftedMore
  <2> HIDE DEF x
  <2>3. x \div base \in Nat
    BY <2>1
  <2> QED
    BY <2>2, <2>3
<1>3. Nat \subseteq G
  <2> HIDE DEF G
  <2> QED
    BY <1>1, <1>2, Everywhere
<1> QED
  BY <1>3

\* First some digits, then others.
LEMMA ShiftedTwice ==
    ASSUME NEW n, NEW base, NEW i \in Nat
    PROVE  \A j \in Nat : Shifted(n, base, i + j) = Shifted(Shifted(n, base, i), base, j)
<1> DEFINE x == Shifted(n, base, i)
           G == {j \in Nat : Shifted(n, base, i + j) = Shifted(x, base, j)}
<1>1. 0 \in G
  <2>1. i + 0 = i /\ Shifted(x, base, 0) = x
    BY ShiftedMore
  <2> QED
    BY <2>1
<1>2. ASSUME NEW j \in Nat, j \in G PROVE j + 1 \in G
  <2>1. i + (j + 1) = (i + j) + 1 /\ i + j \in Nat
    OBVIOUS
  <2>2. Shifted(n, base, (i + j) + 1) = Shifted(n, base, i + j) \div base
    BY <2>1, ShiftedMore
  <2>3. Shifted(x, base, j + 1) = Shifted(x, base, j) \div base
    BY ShiftedMore
  <2>4. Shifted(n, base, i + j) = Shifted(x, base, j)
    BY <1>2
  <2> HIDE DEF x
  <2>5. Shifted(n, base, i + (j + 1)) = Shifted(x, base, j + 1)
    BY <2>1, <2>2, <2>3, <2>4
  <2> QED
    BY <2>5 DEF x
<1>3. Nat \subseteq G
  <2> HIDE DEF G
  <2> QED
    BY <1>1, <1>2, Everywhere
<1> QED
  BY <1>3

\* k digits are worth a factor P.
Worth(base, P, k) ==
    \A c \in Nat \ {0} : \A n \in 0 .. P * c - 1 : Shifted(n, base, k) \in 0 .. c - 1

LEMMA OneDigit == ASSUME NEW base \in Nat \ {0} PROVE Worth(base, base, 1)
<1> SUFFICES ASSUME NEW c \in Nat \ {0}, NEW n \in 0 .. base * c - 1
             PROVE  Shifted(n, base, 1) \in 0 .. c - 1
  BY DEF Worth
<1>1. Shifted(n, base, 1) = n \div base
  <2>1. Shifted(n, base, 0 + 1) = Shifted(n, base, 0) \div base /\ Shifted(n, base, 0) = n /\ 0 + 1 = 1
    BY ShiftedMore
  <2> QED
    BY <2>1
<1>2. \A a, b, d \in Nat : b # 0 /\ d < b * a => d \div b \in Nat /\ d \div b < a
  BY Z3
<1>3. base * c \in Nat
  <2>1. \A a, b \in Nat : a * b \in Nat
    BY Z3
  <2> QED
    BY <2>1
<1> DEFINE p == base * c
<1>4. n \in Nat /\ n < p
  BY <1>3
<1>5. n \div base \in Nat /\ n \div base < c
  BY <1>2, <1>4
<1> QED
  BY <1>1, <1>5

LEMMA MoreDigits ==
    ASSUME NEW base \in Nat \ {0}, NEW P \in Nat \ {0}, NEW Q \in Nat \ {0}, NEW k \in Nat, NEW l \in Nat,
           Worth(base, P, k), Worth(base, Q, l)
    PROVE  Worth(base, P * Q, k + l)
<1> SUFFICES ASSUME NEW c \in Nat \ {0}, NEW n \in 0 .. (P * Q) * c - 1
             PROVE  Shifted(n, base, k + l) \in 0 .. c - 1
  BY DEF Worth
<1>1. \A a, b, d \in Nat : (a * b) * d = a * (b * d) /\ b * d \in Nat /\ (b # 0 /\ d # 0 => b * d # 0)
  BY Z3
<1> DEFINE r == Q * c
<1>2. r \in Nat \ {0} /\ (P * Q) * c = P * r
  BY <1>1
<1>3. n \in 0 .. P * r - 1
  BY <1>2
<1> HIDE DEF r
<1>4. Shifted(n, base, k) \in 0 .. r - 1
  BY <1>2, <1>3 DEF Worth
<1>5. Shifted(Shifted(n, base, k), base, l) \in 0 .. c - 1
  <2> DEFINE x == Shifted(n, base, k)
  <2>1. x \in 0 .. Q * c - 1
    BY <1>4 DEF r
  <2> HIDE DEF x
  <2>2. Shifted(x, base, l) \in 0 .. c - 1
    BY <2>1 DEF Worth
  <2> QED
    BY <2>2 DEF x
<1>6. Shifted(n, base, k + l) = Shifted(Shifted(n, base, k), base, l)
  BY ShiftedTwice
<1> QED
  BY <1>5, <1>6

\* The widths of the numbers on the wire.
LEMMA Widths ==
    /\ Nibble \in Nat \ {0, 1} /\ Byte \in Nat \ {0, 1} /\ Num16 \in Nat \ {0}
    /\ Num32 \in Nat \ {0} /\ Num64 \in Nat \ {0}
    /\ \A n \in 0 .. Num16 - 1 : Shifted(n, Nibble, 4) = 0 /\ Shifted(n, Byte, 2) = 0
    /\ \A n \in 0 .. Num32 - 1 : Shifted(n, Nibble, 8) = 0 /\ Shifted(n, Byte, 4) = 0
    /\ \A n \in 0 .. Num64 - 1 : Shifted(n, Byte, 8) = 0
<1>1. \A a, b \in Nat \ {0} : a * b \in Nat \ {0} /\ (a # 1 => a * b # 1)
  BY Z3
<1>2. Nibble \in Nat \ {0, 1}
  BY WireAssumption
<1>3. Byte \in Nat \ {0, 1}
  BY <1>1, <1>2 DEF Byte
<1>4. Num16 \in Nat \ {0}
  BY <1>1, <1>3 DEF Num16
<1>5. Num32 \in Nat \ {0}
  BY <1>1, <1>4 DEF Num32
<1>6. Num64 \in Nat \ {0}
  BY <1>1, <1>5 DEF Num64
<1>7. Worth(Nibble, Byte, 2)
  <2>1. Worth(Nibble, Nibble, 1)
    BY <1>2, OneDigit
  <2>2. Worth(Nibble, Nibble * Nibble, 1 + 1)
    BY <1>2, <2>1, MoreDigits
  <2> QED
    BY <2>2 DEF Byte
<1>8. Worth(Nibble, Num16, 4)
  <2>1. Worth(Nibble, Byte * Byte, 2 + 2)
    BY <1>2, <1>3, <1>7, MoreDigits
  <2> QED
    BY <2>1 DEF Num16
<1>9. Worth(Nibble, Num32, 8)
  <2>1. Worth(Nibble, Num16 * Num16, 4 + 4)
    BY <1>2, <1>4, <1>8, MoreDigits
  <2> QED
    BY <2>1 DEF Num32
<1>10. Worth(Byte, Num16, 2)
  <2>1. Worth(Byte, Byte, 1)
    BY <1>3, OneDigit
  <2>2. Worth(Byte, Byte * Byte, 1 + 1)
    BY <1>3, <2>1, MoreDigits
  <2> QED
    BY <2>2 DEF Num16
<1>11. Worth(Byte, Num32, 4)
  <2>1. Worth(Byte, Num16 * Num16, 2 + 2)
    BY <1>3, <1>4, <1>10, MoreDigits
  <2> QED
    BY <2>1 DEF Num32
<1>12. Worth(Byte, Num64, 8)
  <2>1. Worth(Byte, Num32 * Num32, 4 + 4)
    BY <1>3, <1>5, <1>11, MoreDigits
  <2> QED
    BY <2>1 DEF Num64
<1>13. ASSUME NEW base, NEW P \in Nat, NEW k, Worth(base, P, k), NEW n \in 0 .. P - 1 PROVE Shifted(n, base, k) = 0
  <2>1. n \in 0 .. P * 1 - 1
    OBVIOUS
  <2>2. Shifted(n, base, k) \in 0 .. 1 - 1
    BY <1>13, <2>1 DEF Worth
  <2> QED
    BY <2>2
<1> QED
  BY <1>2, <1>3, <1>4, <1>5, <1>6, <1>8, <1>9, <1>10, <1>11, <1>12, <1>13

\* What the first digits amount to.
Amounts(f, ds, base, k) == f = [j \in 0 .. k |-> IF j = 0 THEN 0 ELSE f[j - 1] * base + ds[j]]

LEMMA AmountsExist ==
    ASSUME NEW ds, NEW base, NEW i \in Nat
    PROVE  \E f : Amounts(f, ds, base, i)
<1> DEFINE G == {k \in Nat : \E f : Amounts(f, ds, base, k)}
<1>1. 0 \in G
  <2> DEFINE f == [j \in 0 .. 0 |-> 0]
  <2>1. f = [j \in 0 .. 0 |-> IF j = 0 THEN 0 ELSE f[j - 1] * base + ds[j]]
    OBVIOUS
  <2> QED
    BY <2>1 DEF Amounts
<1>2. ASSUME NEW k \in Nat, k \in G PROVE k + 1 \in G
  <2>1. PICK f : Amounts(f, ds, base, k)
    BY <1>2
  <2> DEFINE last == f[k] * base + ds[k + 1]
             g == [j \in 0 .. k + 1 |-> IF j = k + 1 THEN last ELSE f[j]]
  <2>2. ASSUME NEW j \in 0 .. k + 1
        PROVE  g[j] = IF j = 0 THEN 0 ELSE g[j - 1] * base + ds[j]
    <3>1. \A m \in 0 .. k : g[m] = f[m] /\ f[m] = IF m = 0 THEN 0 ELSE f[m - 1] * base + ds[m]
      BY <2>1 DEF Amounts
    <3>2. g[k + 1] = f[k] * base + ds[k + 1] /\ k \in 0 .. k
      OBVIOUS
    <3> HIDE DEF g, last
    <3>3. CASE j = k + 1
      BY <3>1, <3>2, <3>3
    <3>4. CASE j # k + 1
      <4>1. j \in 0 .. k /\ (j # 0 => j - 1 \in 0 .. k)
        BY <3>4
      <4> QED
        BY <3>1, <4>1
    <3> QED
      BY <3>3, <3>4
  <2>3. g = [j \in 0 .. k + 1 |-> IF j = 0 THEN 0 ELSE g[j - 1] * base + ds[j]]
    <3>1. DOMAIN g = 0 .. k + 1 /\ g = [j \in 0 .. k + 1 |-> g[j]]
      OBVIOUS
    <3> HIDE DEF g
    <3> QED
      BY <2>2, <3>1, Zenon
  <2> HIDE DEF g
  <2> QED
    BY <2>3 DEF Amounts
<1>3. Nat \subseteq G
  <2> HIDE DEF G
  <2> QED
    BY <1>1, <1>2, Everywhere
<1> QED
  BY <1>3

\* A number has the digits that were taken from it, if none is left out.
LEMMA DigitsBack ==
    ASSUME NEW n \in Nat, NEW base \in Nat \ {0}, NEW k \in Nat, Shifted(n, base, k) = 0,
           NEW ds, Len(ds) = k, \A i \in 1 .. k : ds[i] = Shifted(n, base, k - i) % base
    PROVE  FromDigits(ds, base) = n
<1> DEFINE f == CHOOSE g : Amounts(g, ds, base, k)
<1>1. Amounts(f, ds, base, k)
  BY AmountsExist
<1>2. FromDigits(ds, base) = f[k]
  BY DEF FromDigits, Amounts
<1> HIDE DEF f
<1> DEFINE G == {j \in Nat : j <= k => f[j] = Shifted(n, base, k - j)}
<1>3. 0 \in G
  <2>1. f[0] = 0 /\ k - 0 = k
    BY <1>1 DEF Amounts
  <2> QED
    BY <2>1
<1>4. ASSUME NEW j \in Nat, j \in G PROVE j + 1 \in G
  <2> SUFFICES ASSUME j + 1 <= k PROVE f[j + 1] = Shifted(n, base, k - (j + 1))
    OBVIOUS
  <2> DEFINE m == k - (j + 1)  x == Shifted(n, base, m)
  <2>1. m \in Nat /\ k - j = m + 1 /\ j + 1 \in 1 .. k /\ j + 1 \in 0 .. k /\ j + 1 # 0 /\ (j + 1) - 1 = j /\ j <= k
    OBVIOUS
  <2>2. x \in Nat
    BY <2>1, ShiftedNat
  <2>3. f[j] = Shifted(n, base, k - j)
    BY <1>4, <2>1
  <2>4. Shifted(n, base, m + 1) = x \div base
    BY <2>1, ShiftedMore
  <2>5. ds[j + 1] = x % base
    BY <2>1
  <2>6. f[j + 1] = f[(j + 1) - 1] * base + ds[j + 1]
    BY <1>1, <2>1 DEF Amounts
  <2> HIDE DEF m, x
  <2>7. f[j + 1] = (x \div base) * base + (x % base)
    BY <2>1, <2>3, <2>4, <2>5, <2>6
  <2>8. \A a \in Nat, b \in Nat \ {0} : (a \div b) * b + (a % b) = a
    BY Z3
  <2>9. f[j + 1] = x
    BY <2>2, <2>7, <2>8
  <2> QED
    BY <2>9 DEF x, m
<1>5. Nat \subseteq G
  <2> HIDE DEF G
  <2> QED
    BY <1>3, <1>4, Everywhere
<1>6. f[k] = Shifted(n, base, 0)
  <2>1. k <= k /\ k - k = 0 /\ k \in G
    BY <1>5
  <2> HIDE DEF f
  <2> QED
    BY <2>1
<1>7. Shifted(n, base, 0) = n
  BY ShiftedMore
<1> QED
  BY <1>2, <1>6, <1>7
-----------------------------------------------------------------------------
(* Headers and numbers on the wire. *)

\* The entries of a sequence of known length.
LEMMA EntriesAs ==
    ASSUME NEW T, NEW q \in Seq(T), NEW m, Len(q) = m
    PROVE  \A j \in 1 .. m : q[j] \in T
OBVIOUS

\* Two sequences, one after the other, and each of them again.
LEMMA TailIs ==
    ASSUME NEW T, NEW a \in Seq(T), NEW b \in Seq(T)
    PROVE  SubSeq(a \o b, Len(a) + 1, Len(a \o b)) = b
<1> DEFINE q == a \o b
<1>1. q \in Seq(T) /\ Len(q) = Len(a) + Len(b) /\ \A i \in 1 .. Len(b) : q[Len(a) + i] = b[i]
  BY JoinedIs
<1>2. Len(a) \in Nat /\ Len(a) + Len(b) <= Len(q)
  BY <1>1
<1> HIDE DEF q
<1>3. SubSeq(q, Len(a) + 1, Len(a) + Len(b)) = b
  BY <1>1, <1>2, PieceAs
<1> QED
  BY <1>1, <1>3 DEF q

\* The digits of a number, and what they amount to.
LEMMA HalvesIs ==
    ASSUME NEW n \in Nat, NEW k \in Nat
    PROVE  /\ HalvesOf(n, k) \in Seq(0 .. Nibble - 1) /\ Len(HalvesOf(n, k)) = k
           /\ Shifted(n, Nibble, k) = 0 => FromHalves(HalvesOf(n, k)) = n
<1> DEFINE hs == HalvesOf(n, k)
<1>1. Nibble \in Nat \ {0}
  BY Widths
<1>2. \A i \in 1 .. k : Shifted(n, Nibble, k - i) % Nibble \in 0 .. Nibble - 1
  <2> SUFFICES ASSUME NEW i \in 1 .. k PROVE Shifted(n, Nibble, k - i) % Nibble \in 0 .. Nibble - 1
    OBVIOUS
  <2> DEFINE x == Shifted(n, Nibble, k - i)
  <2>1. k - i \in Nat
    OBVIOUS
  <2>2. x \in Nat
    BY <1>1, <2>1, ShiftedNat
  <2> HIDE DEF x
  <2>3. x % Nibble \in 0 .. Nibble - 1
    BY <1>1, <2>2
  <2> QED
    BY <2>3 DEF x
<1>3. hs \in [1 .. k -> 0 .. Nibble - 1]
  BY <1>2 DEF HalvesOf
<1>4. hs \in Seq(0 .. Nibble - 1) /\ Len(hs) = k
  BY <1>3, OfLength
<1>5. \A i \in 1 .. k : hs[i] = Shifted(n, Nibble, k - i) % Nibble
  BY DEF HalvesOf
<1> HIDE DEF hs
<1>6. ASSUME Shifted(n, Nibble, k) = 0 PROVE FromHalves(hs) = n
  <2>1. FromDigits(hs, Nibble) = n
    BY <1>1, <1>4, <1>5, <1>6, DigitsBack
  <2> QED
    BY <2>1 DEF FromHalves
<1> QED
  BY <1>4, <1>6 DEF hs

LEMMA NumberBack ==
    ASSUME NEW n \in Nat, NEW k \in Nat, Shifted(n, Byte, k) = 0
    PROVE  /\ EncodeLE(n, k) \in Seq(Nat) /\ Len(EncodeLE(n, k)) = k
           /\ DecodeLE(EncodeLE(n, k)) = n
<1> DEFINE bytes == EncodeLE(n, k)
<1>1. Byte \in Nat \ {0}
  BY Widths
<1>2. \A i \in 1 .. k : Shifted(n, Byte, i - 1) % Byte \in Nat
  <2> SUFFICES ASSUME NEW i \in 1 .. k PROVE Shifted(n, Byte, i - 1) % Byte \in Nat
    OBVIOUS
  <2> DEFINE x == Shifted(n, Byte, i - 1)
  <2>1. i - 1 \in Nat
    OBVIOUS
  <2>2. x \in Nat
    BY <1>1, <2>1, ShiftedNat
  <2> HIDE DEF x
  <2>3. x % Byte \in Nat
    BY <1>1, <2>2
  <2> QED
    BY <2>3 DEF x
<1>3. bytes \in [1 .. k -> Nat]
  BY <1>2 DEF EncodeLE
<1>4. bytes \in Seq(Nat) /\ Len(bytes) = k
  BY <1>3, OfLength
<1>5. \A i \in 1 .. k : bytes[i] = Shifted(n, Byte, i - 1) % Byte
  BY DEF EncodeLE
<1> HIDE DEF bytes
<1> DEFINE ds == Reverse(bytes)
<1>6. Len(ds) = k /\ \A i \in 1 .. k : ds[i] = bytes[(k - i) + 1]
  BY <1>4 DEF Reverse
<1> HIDE DEF ds
<1>7. ASSUME NEW i \in 1 .. k PROVE ds[i] = Shifted(n, Byte, k - i) % Byte
  <2>1. (k - i) + 1 \in 1 .. k /\ ((k - i) + 1) - 1 = k - i
    OBVIOUS
  <2> QED
    BY <1>5, <1>6, <2>1
<1>8. FromDigits(ds, Byte) = n
  BY <1>1, <1>6, <1>7, DigitsBack
<1> QED
  BY <1>4, <1>8 DEF DecodeLE, ds, bytes

WireHeader == [type : 0 .. Nibble - 1, num : 0 .. Num16 - 1, ack : 0 .. Num16 - 1, bits : 0 .. Num32 - 1]

\* The parts of a header, at their places.
LEMMA HalvesJoin ==
    ASSUME NEW hd \in WireHeader
    PROVE  LET hs == HeaderHalves(hd)
           IN  /\ hs \in Seq(0 .. Nibble - 1) /\ Len(hs) = 18 /\ hs[1] = hd.type
               /\ SubSeq(hs, 2, 5) = HalvesOf(hd.num, 4) /\ SubSeq(hs, 6, 9) = HalvesOf(hd.ack, 4)
               /\ SubSeq(hs, 10, 17) = HalvesOf(hd.bits, 8)
<1> DEFINE T == 0 .. Nibble - 1  hs == HeaderHalves(hd)
           a == <<hd.type>>  b == HalvesOf(hd.num, 4)  c == HalvesOf(hd.ack, 4)  d == HalvesOf(hd.bits, 8)  e == <<0>>
<1>0. hd.type \in T /\ hd.num \in Nat /\ hd.ack \in Nat /\ hd.bits \in Nat /\ 0 \in T
  BY Widths DEF WireHeader
<1>1. a \in Seq(T) /\ e \in Seq(T) /\ b \in Seq(T) /\ c \in Seq(T) /\ d \in Seq(T)
  <2>1. a \in Seq(T) /\ e \in Seq(T)
    BY <1>0
  <2>2. b \in Seq(T)
    BY <1>0, HalvesIs
  <2>3. c \in Seq(T)
    BY <1>0, HalvesIs
  <2>4. d \in Seq(T)
    BY <1>0, HalvesIs
  <2> QED
    BY <2>1, <2>2, <2>3, <2>4
<1>2. Len(a) = 1 /\ Len(b) = 4 /\ Len(c) = 4 /\ Len(d) = 8 /\ Len(e) = 1 /\ a[1] = hd.type
  BY <1>0, HalvesIs
<1>3. hs = (((a \o b) \o c) \o d) \o e
  BY DEF HeaderHalves
<1> HIDE DEF T, hs, a, b, c, d, e
<1> DEFINE u == a \o b
<1>4. u \in Seq(T) /\ Len(u) = Len(a) + Len(b)
  BY <1>1, JoinedIs
<1>5. \A i \in 1 .. Len(a) : u[i] = a[i]
  BY <1>1, JoinedIs
<1>6. \A i \in 1 .. Len(b) : u[Len(a) + i] = b[i]
  BY <1>1, JoinedIs
<1> HIDE DEF u
<1> DEFINE v == u \o c
<1>7. v \in Seq(T) /\ Len(v) = Len(u) + Len(c)
  BY <1>1, <1>4, JoinedIs
<1>8. \A i \in 1 .. Len(u) : v[i] = u[i]
  BY <1>1, <1>4, JoinedIs
<1>9. \A i \in 1 .. Len(c) : v[Len(u) + i] = c[i]
  BY <1>1, <1>4, JoinedIs
<1> HIDE DEF v
<1> DEFINE w == v \o d
<1>10. w \in Seq(T) /\ Len(w) = Len(v) + Len(d)
  BY <1>1, <1>7, JoinedIs
<1>11. \A i \in 1 .. Len(v) : w[i] = v[i]
  BY <1>1, <1>7, JoinedIs
<1>12. \A i \in 1 .. Len(d) : w[Len(v) + i] = d[i]
  BY <1>1, <1>7, JoinedIs
<1> HIDE DEF w
<1> DEFINE z == w \o e
<1>13. z \in Seq(T) /\ Len(z) = Len(w) + Len(e)
  BY <1>1, <1>10, JoinedIs
<1>14. \A i \in 1 .. Len(w) : z[i] = w[i]
  BY <1>1, <1>10, JoinedIs
<1> HIDE DEF z
<1>15. hs = z
  BY <1>3 DEF u, v, w, z
<1>16. Len(u) = 5 /\ Len(v) = 9 /\ Len(w) = 17 /\ Len(z) = 18
  BY <1>2, <1>4, <1>7, <1>10, <1>13
<1>17. /\ \A i \in 1 .. 1 : u[i] = a[i]
       /\ \A i \in 1 .. 4 : u[1 + i] = b[i]
       /\ \A i \in 1 .. 5 : v[i] = u[i]
       /\ \A i \in 1 .. 4 : v[5 + i] = c[i]
       /\ \A i \in 1 .. 9 : w[i] = v[i]
       /\ \A i \in 1 .. 8 : w[9 + i] = d[i]
       /\ \A i \in 1 .. 17 : z[i] = w[i]
  BY <1>2, <1>5, <1>6, <1>8, <1>9, <1>11, <1>12, <1>14, <1>16, ZenonT(30)
<1>18. \A i \in 1 .. 9 : z[i] = v[i]
  BY <1>17
<1>19. \A i \in 1 .. 5 : z[i] = u[i]
  BY <1>17, <1>18
<1>20. z[1] = hd.type
  BY <1>2, <1>17, <1>19
<1>21. \A i \in 1 .. 4 : z[1 + i] = b[i]
  <2> SUFFICES ASSUME NEW i \in 1 .. 4 PROVE z[1 + i] = b[i]
    OBVIOUS
  <2>1. 1 + i \in 1 .. 5
    OBVIOUS
  <2> QED
    BY <1>17, <1>19, <2>1
<1>22. \A i \in 1 .. 4 : z[5 + i] = c[i]
  <2> SUFFICES ASSUME NEW i \in 1 .. 4 PROVE z[5 + i] = c[i]
    OBVIOUS
  <2>1. 5 + i \in 1 .. 9
    OBVIOUS
  <2> QED
    BY <1>17, <1>18, <2>1
<1>23. \A i \in 1 .. 8 : z[9 + i] = d[i]
  <2> SUFFICES ASSUME NEW i \in 1 .. 8 PROVE z[9 + i] = d[i]
    OBVIOUS
  <2>1. 9 + i \in 1 .. 17
    OBVIOUS
  <2> QED
    BY <1>17, <2>1
<1>24. SubSeq(z, 1 + 1, 1 + Len(b)) = b
  <2>1. 1 + Len(b) <= Len(z) /\ \A i \in 1 .. Len(b) : z[1 + i] = b[i]
    BY <1>2, <1>16, <1>21
  <2> QED
    BY <1>1, <1>13, <2>1, PieceAs
<1>25. SubSeq(z, 5 + 1, 5 + Len(c)) = c
  <2>1. 5 + Len(c) <= Len(z) /\ \A i \in 1 .. Len(c) : z[5 + i] = c[i]
    BY <1>2, <1>16, <1>22
  <2> QED
    BY <1>1, <1>13, <2>1, PieceAs
<1>26. SubSeq(z, 9 + 1, 9 + Len(d)) = d
  <2>1. 9 + Len(d) <= Len(z) /\ \A i \in 1 .. Len(d) : z[9 + i] = d[i]
    BY <1>2, <1>16, <1>23
  <2> QED
    BY <1>1, <1>13, <2>1, PieceAs
<1>27. SubSeq(z, 2, 5) = b /\ SubSeq(z, 6, 9) = c /\ SubSeq(z, 10, 17) = d
  BY <1>2, <1>24, <1>25, <1>26
<1> QED
  BY <1>13, <1>15, <1>16, <1>20, <1>27 DEF T, hs, b, c, d

\* What is read of a packet is the header it was written with, and what follows it.
LEMMA HeaderBack ==
    ASSUME NEW hd \in WireHeader, NEW inside \in Seq(Nat)
    PROVE  LET bytes == PacketWrite(hd) \o inside
           IN  /\ bytes \in Seq(Nat) /\ Len(bytes) = 9 + Len(inside) /\ PacketRead(bytes) = hd
               /\ SubSeq(bytes, HeaderSize + 1, Len(bytes)) = inside
<1> DEFINE hs == HeaderHalves(hd)  front == PacketWrite(hd)  bytes == front \o inside
<1>1. /\ hs \in Seq(0 .. Nibble - 1) /\ Len(hs) = 18 /\ hs[1] = hd.type
      /\ SubSeq(hs, 2, 5) = HalvesOf(hd.num, 4) /\ SubSeq(hs, 6, 9) = HalvesOf(hd.ack, 4)
      /\ SubSeq(hs, 10, 17) = HalvesOf(hd.bits, 8)
  BY HalvesJoin
<1>2. Nibble \in Nat \ {0, 1}
  BY Widths
<1>3. front = [i \in 1 .. 9 |-> Nibble * hs[2 * i - 1] + hs[2 * i]]
  BY DEF PacketWrite
<1> HIDE DEF hs
<1>4. \A i \in 1 .. 9 : hs[2 * i - 1] \in 0 .. Nibble - 1 /\ hs[2 * i] \in 0 .. Nibble - 1
  <2> SUFFICES ASSUME NEW i \in 1 .. 9 PROVE hs[2 * i - 1] \in 0 .. Nibble - 1 /\ hs[2 * i] \in 0 .. Nibble - 1
    OBVIOUS
  <2>1. 2 * i - 1 \in 1 .. 18 /\ 2 * i \in 1 .. 18
    OBVIOUS
  <2>2. \A j \in 1 .. 18 : hs[j] \in 0 .. Nibble - 1
    <3> DEFINE T == 0 .. Nibble - 1
    <3>1. hs \in Seq(T) /\ Len(hs) = 18
      BY <1>1
    <3> HIDE DEF T
    <3>2. \A j \in 1 .. 18 : hs[j] \in T
      BY <3>1, EntriesAs, Zenon
    <3> QED
      BY <3>2 DEF T
  <2> QED
    BY <2>1, <2>2
<1>5. \A b, c \in 0 .. Nibble - 1 :
          Nibble * b + c \in Nat /\ (Nibble * b + c) \div Nibble = b /\ (Nibble * b + c) % Nibble = c
  BY <1>2, Z3
<1>6. \A i \in 1 .. 9 : front[i] \in Nat /\ front[i] \div Nibble = hs[2 * i - 1] /\ front[i] % Nibble = hs[2 * i]
  <2> SUFFICES ASSUME NEW i \in 1 .. 9
               PROVE  front[i] \in Nat /\ front[i] \div Nibble = hs[2 * i - 1] /\ front[i] % Nibble = hs[2 * i]
    OBVIOUS
  <2> DEFINE b == hs[2 * i - 1]  c == hs[2 * i]
  <2>1. b \in 0 .. Nibble - 1 /\ c \in 0 .. Nibble - 1
    BY <1>4
  <2>2. front[i] = Nibble * b + c
    BY <1>3
  <2> HIDE DEF b, c, front
  <2>3. front[i] \in Nat /\ front[i] \div Nibble = b /\ front[i] % Nibble = c
    BY <1>5, <2>1, <2>2
  <2> QED
    BY <2>3 DEF b, c
<1>7. front \in Seq(Nat)
  <2>1. front = [i \in 1 .. 9 |-> front[i]]
    BY <1>3
  <2> HIDE DEF front
  <2>2. front \in [1 .. 9 -> Nat]
    BY <1>6, <2>1
  <2> QED
    BY <2>2, OfLength
<1>7l. Len(front) = 9
  BY <1>3
<1> HIDE DEF front
<1>8. bytes \in Seq(Nat) /\ Len(bytes) = Len(front) + Len(inside)
  BY <1>7, JoinedIs
<1>9f. \A i \in 1 .. Len(front) : bytes[i] = front[i]
  BY <1>7, JoinedIs
<1>9. \A i \in 1 .. 9 : bytes[i] = front[i]
  BY <1>7l, <1>9f, Zenon
<1>10. SubSeq(bytes, HeaderSize + 1, Len(bytes)) = inside
  <2>1. SubSeq(bytes, Len(front) + 1, Len(bytes)) = inside
    BY <1>7, TailIs
  <2> QED
    BY <1>7l, <2>1 DEF HeaderSize
<1> HIDE DEF bytes
<1> DEFINE back == [i \in 1 .. 18 |-> IF i % 2 = 1 THEN bytes[(i + 1) \div 2] \div Nibble
                                      ELSE bytes[i \div 2] % Nibble]
<1>11. ASSUME NEW i \in 1 .. 18 PROVE back[i] = hs[i]
  <2>1. CASE i % 2 = 1
    <3> DEFINE j == (i + 1) \div 2
    <3>1. j \in 1 .. 9 /\ 2 * j - 1 = i
      BY <2>1
    <3>2. back[i] = bytes[j] \div Nibble
      BY <2>1
    <3> HIDE DEF j, back
    <3>3. bytes[j] \div Nibble = hs[2 * j - 1]
      BY <1>6, <1>9, <3>1
    <3> QED
      BY <3>1, <3>2, <3>3
  <2>2. CASE i % 2 # 1
    <3> DEFINE j == i \div 2
    <3>1. j \in 1 .. 9 /\ 2 * j = i
      BY <2>2
    <3>2. back[i] = bytes[j] % Nibble
      BY <2>2
    <3> HIDE DEF j, back
    <3>3. bytes[j] % Nibble = hs[2 * j]
      BY <1>6, <1>9, <3>1
    <3> QED
      BY <3>1, <3>2, <3>3
  <2> QED
    BY <2>1, <2>2
<1>12. back = hs
  <2>1. DOMAIN back = 1 .. 18 /\ back = [i \in 1 .. 18 |-> back[i]] /\ hs = [i \in 1 .. 18 |-> hs[i]]
    BY <1>1
  <2> HIDE DEF back
  <2> QED
    BY <1>11, <2>1
<1>13. PacketRead(bytes) = [type |-> back[1], num |-> FromHalves(SubSeq(back, 2, 5)),
                            ack |-> FromHalves(SubSeq(back, 6, 9)), bits |-> FromHalves(SubSeq(back, 10, 17))]
  BY DEF PacketRead
<1> HIDE DEF back
<1>14. FromHalves(HalvesOf(hd.num, 4)) = hd.num
  <2>1. hd.num \in Nat /\ hd.num \in 0 .. Num16 - 1
    BY Widths DEF WireHeader
  <2> QED
    BY <2>1, Widths, HalvesIs
<1>15. FromHalves(HalvesOf(hd.ack, 4)) = hd.ack
  <2>1. hd.ack \in Nat /\ hd.ack \in 0 .. Num16 - 1
    BY Widths DEF WireHeader
  <2> QED
    BY <2>1, Widths, HalvesIs
<1>16. FromHalves(HalvesOf(hd.bits, 8)) = hd.bits
  <2>1. hd.bits \in Nat /\ hd.bits \in 0 .. Num32 - 1
    BY Widths DEF WireHeader
  <2> QED
    BY <2>1, Widths, HalvesIs
<1>17. PacketRead(bytes) = [type |-> hd.type, num |-> hd.num, ack |-> hd.ack, bits |-> hd.bits]
  BY <1>1, <1>12, <1>13, <1>14, <1>15, <1>16
<1>18. hd = [type |-> hd.type, num |-> hd.num, ack |-> hd.ack, bits |-> hd.bits]
  BY DEF WireHeader
<1>19. PacketRead(bytes) = hd
  BY <1>17, <1>18, Zenon
<1> QED
  BY <1>7l, <1>8, <1>10, <1>19 DEF bytes, front
-----------------------------------------------------------------------------
(* Pieces of what is too long for one packet. *)

\* Up to where the first k pieces of a length go.
Edge(k, max, len) == IF k * max <= len THEN k * max ELSE len

LEMMA EdgeGrows ==
    ASSUME NEW k \in Nat, NEW max \in Nat, NEW len \in Nat
    PROVE  /\ Edge(k, max, len) \in Nat /\ Edge(k + 1, max, len) \in Nat
           /\ Edge(k, max, len) <= Edge(k + 1, max, len) /\ Edge(k + 1, max, len) <= len
           /\ Edge(k + 1, max, len) - Edge(k, max, len) <= max
<1>1. \A a, b \in Nat : a * b \in Nat /\ (a + 1) * b = a * b + b
  BY Z3
<1> DEFINE p == k * max  q == (k + 1) * max
<1>2. p \in Nat /\ q = p + max
  BY <1>1
<1>3. Edge(k, max, len) = (IF p <= len THEN p ELSE len) /\ Edge(k + 1, max, len) = (IF q <= len THEN q ELSE len)
  BY DEF Edge
<1> HIDE DEF p, q
<1> QED
  BY <1>2, <1>3

\* Pieces that go from edge to edge are the whole when they are put together.
LEMMA PiecesJoin ==
    ASSUME NEW T, NEW msg \in Seq(T), NEW max \in Nat, NEW n \in Nat \ {0}, Len(msg) <= n * max,
           NEW seqs, Len(seqs) = n,
           \A i \in 1 .. n : seqs[i] = SubSeq(msg, Edge(i - 1, max, Len(msg)) + 1, Edge(i, max, Len(msg)))
    PROVE  FlattenSeq(seqs) = msg
<1> DEFINE To(k) == Edge(k, max, Len(msg))
<1>0. Len(msg) \in Nat
  OBVIOUS
<1>1. \A k \in Nat : To(k) \in Nat /\ To(k + 1) \in Nat /\ To(k) <= To(k + 1) /\ To(k + 1) <= Len(msg)
  BY <1>0, EdgeGrows
<1>2. \A i \in 1 .. n : seqs[i] = SubSeq(msg, To(i - 1) + 1, To(i))
  OBVIOUS
<1>3. To(0) = 0
  <2>1. 0 * max = 0 /\ 0 <= Len(msg)
    BY <1>0
  <2> QED
    BY <2>1 DEF Edge
<1>4. To(n) = Len(msg)
  <2>1. n * max \in Nat
    <3>1. \A a, b \in Nat : a * b \in Nat
      BY Z3
    <3> QED
      BY <3>1
  <2> QED
    BY <1>0, <2>1 DEF Edge
<1> HIDE DEF To
<1>5. PICK f : Flats(f, seqs, n) /\ FlattenSeq(seqs) = f[n]
  BY FlattenStep
<1>6. \A k \in 1 .. n : f[k] = IF k = 1 THEN seqs[k] ELSE f[k - 1] \o seqs[k]
  BY <1>5 DEF Flats, Concat
<1> DEFINE G == {k \in Nat : k + 1 \in 1 .. n => f[k + 1] = SubSeq(msg, 1, To(k + 1))}
<1>7. 0 \in G
  <2>1. f[1] = seqs[1] /\ 1 \in 1 .. n /\ seqs[1] = SubSeq(msg, To(1 - 1) + 1, To(1))
    BY <1>2, <1>6
  <2>2. To(1 - 1) + 1 = 1 /\ 0 + 1 = 1
    BY <1>3
  <2>3. f[0 + 1] = SubSeq(msg, 1, To(0 + 1))
    BY <2>1, <2>2, Zenon
  <2> QED
    BY <2>3
<1>8. ASSUME NEW k \in Nat, k \in G PROVE k + 1 \in G
  <2> SUFFICES ASSUME (k + 1) + 1 \in 1 .. n PROVE f[(k + 1) + 1] = SubSeq(msg, 1, To((k + 1) + 1))
    OBVIOUS
  <2> DEFINE i == k + 1  j == i + 1
  <2>1. i \in Nat /\ i \in 1 .. n /\ j \in 1 .. n /\ j # 1 /\ j - 1 = i
    OBVIOUS
  <2>2. f[i] = SubSeq(msg, 1, To(i))
    BY <1>8, <2>1
  <2>3. To(i) \in Nat /\ To(j) \in Nat /\ To(i) <= To(j) /\ To(j) <= Len(msg)
    BY <1>1, <2>1
  <2> HIDE DEF i, j, G
  <2>4. f[j] = f[j - 1] \o seqs[j] /\ seqs[j] = SubSeq(msg, To(j - 1) + 1, To(j))
    BY <1>2, <1>6, <2>1
  <2>5. SubSeq(msg, 1, To(i)) \o SubSeq(msg, To(i) + 1, To(j)) = SubSeq(msg, 1, To(j))
    BY <2>3, PiecesFollow
  <2> QED
    BY <2>1, <2>2, <2>4, <2>5 DEF i, j
<1> HIDE DEF G
<1>9. Nat \subseteq G
  BY <1>7, <1>8, Everywhere
<1>10. f[n] = SubSeq(msg, 1, To(n))
  <2>1. n - 1 \in Nat /\ (n - 1) + 1 = n /\ n \in 1 .. n
    OBVIOUS
  <2>2. n - 1 \in G
    BY <1>9, <2>1
  <2> QED
    BY <2>1, <2>2 DEF G
<1>11. SubSeq(msg, 1, Len(msg)) = msg
  OBVIOUS
<1> QED
  BY <1>4, <1>5, <1>10, <1>11

-----------------------------------------------------------------------------
(* Payloads. *)

LEMMA Regroup ==
    ASSUME NEW a \in Seq(Nat), NEW b \in Seq(Nat), NEW c \in Seq(Nat)
    PROVE  (a \o b) \o c = a \o (b \o c)
BY ConcatAssociative

LEMMA BesideMultiple ==
    ASSUME NEW c \in Nat \ {0}, NEW a \in Nat, NEW b \in 0 .. c - 1, a % c = 0
    PROVE  (a + b) % c = b
<1> DEFINE n == a + b  p == a \div c  q == n \div c  r == n % c
<1>1. \A x \in Nat : x = (c * (x \div c)) + (x % c) /\ x \div c \in Nat /\ x % c \in 0 .. c - 1
  BY Z3
<1>2. a \in Nat /\ n \in Nat
  OBVIOUS
<1>3. n = (c * q) + r /\ q \in Nat /\ r \in 0 .. c - 1
  <2> HIDE DEF n
  <2> QED
    BY <1>1, <1>2
<1>4. a = c * p /\ p \in Nat
  <2>1. a = (c * p) + (a % c) /\ p \in Nat
    BY <1>1, <1>2
  <2>2. c * p \in Nat
    <3>1. \A x, y \in Nat : x * y \in Nat
      BY Z3
    <3> HIDE DEF p
    <3> QED
      BY <2>1, <3>1
  <2> HIDE DEF p
  <2> QED
    BY <2>1, <2>2
<1>5. \A x, y \in Nat : c * x \in Nat /\ (x < y => c * y >= c * x + c)
  BY Z3
<1>6. n = (c * p) + b /\ b \in 0 .. c - 1
  BY <1>4
<1> HIDE DEF n, p, q, r
<1>7. c * p \in Nat /\ c * q \in Nat /\ (p < q => c * q >= c * p + c) /\ (q < p => c * p >= c * q + c)
  BY <1>3, <1>4, <1>5
<1>8. p = q
  BY <1>3, <1>4, <1>6, <1>7
<1>9. r = b
  BY <1>3, <1>6, <1>7, <1>8
<1> QED
  BY <1>9 DEF r, n

\* The first byte tells the channel, and whether a fragment follows.
LEMMA FirstByte ==
    ASSUME NEW ch \in 0 .. Channels - 1
    PROVE  /\ EncodePayloadHeader(ch, TRUE) \in Nat /\ EncodePayloadHeader(ch, FALSE) \in Nat
           /\ IsFragment(EncodePayloadHeader(ch, TRUE)) /\ ~IsFragment(EncodePayloadHeader(ch, FALSE))
           /\ ChannelOf(EncodePayloadHeader(ch, TRUE)) = ch /\ ChannelOf(EncodePayloadHeader(ch, FALSE)) = ch
<1> DEFINE half == Byte \div 2
<1>1. half \in Nat
  BY Widths
<1>2. Channels \in Nat \ {0} /\ Channels <= half /\ half % Channels = 0
  BY WireAssumption
<1> HIDE DEF half
<1>3. 0 % Channels = 0
  BY <1>2
<1>4. (half + ch) % Channels = ch /\ (0 + ch) % Channels = ch
  <2>1. (half + ch) % Channels = ch
    BY <1>1, <1>2, BesideMultiple
  <2>2. 0 \in Nat
    OBVIOUS
  <2>3. (0 + ch) % Channels = ch
    BY <1>2, <1>3, <2>2, BesideMultiple, Zenon
  <2> QED
    BY <2>1, <2>3
<1>5. EncodePayloadHeader(ch, TRUE) = half + ch /\ EncodePayloadHeader(ch, FALSE) = 0 + ch
  BY DEF EncodePayloadHeader, half
<1>6. half + ch \in Nat /\ 0 + ch \in Nat /\ half + ch >= half /\ ~(0 + ch >= half)
  BY <1>1, <1>2
<1> QED
  BY <1>4, <1>5, <1>6 DEF IsFragment, ChannelOf, half

LEMMA BodyIs ==
    ASSUME NEW size \in Nat
    PROVE  Body(size) \in Seq(Nat) /\ Len(Body(size)) = size
<1>1. \A i \in 1 .. size : i % Byte \in Nat
  BY Widths
<1>2. Body(size) \in [1 .. size -> Nat]
  BY <1>1 DEF Body
<1> QED
  BY <1>2, OfLength

\* The channel number of a message with its bytes: what travels, and what is read of it.
Inner(m) == EncodeLE(m.num, 2) \o Body(m.size)
ReadOf(m) == [channel |-> m.channel, num |-> m.num, body |-> Body(m.size)]

LEMMA MessageIs ==
    ASSUME NEW m \in WireMessages
    PROVE  m.channel \in 0 .. Channels - 1 /\ m.num \in Nat /\ Shifted(m.num, Byte, 2) = 0 /\ m.size \in Nat
<1>1. m.num \in 0 .. Num16 - 1 /\ m.channel \in 0 .. Channels - 1 /\ m.size \in Nat
  BY WireAssumption
<1> QED
  BY <1>1, Widths

LEMMA InnerBack ==
    ASSUME NEW m \in WireMessages
    PROVE  /\ Inner(m) \in Seq(Nat) /\ Len(Inner(m)) = 2 + m.size
           /\ DirectMessage(m.channel, Inner(m)) = ReadOf(m)
<1> DEFINE e == EncodeLE(m.num, 2)  b == Body(m.size)
<1>1. m.num \in Nat /\ Shifted(m.num, Byte, 2) = 0 /\ m.size \in Nat
  BY MessageIs
<1>2. e \in Seq(Nat) /\ Len(e) = 2 /\ DecodeLE(e) = m.num
  BY <1>1, NumberBack
<1>3. b \in Seq(Nat) /\ Len(b) = m.size
  BY <1>1, BodyIs
<1> HIDE DEF e, b
<1> DEFINE q == e \o b
<1>4. q \in Seq(Nat) /\ Len(q) = Len(e) + Len(b)
  BY <1>2, <1>3, JoinedIs, ZenonT(30)
<1>5. \A i \in 1 .. Len(e) : q[i] = e[i]
  BY <1>2, <1>3, JoinedIs, ZenonT(30)
<1>6. SubSeq(q, Len(e) + 1, Len(q)) = b
  BY <1>2, <1>3, TailIs
<1> HIDE DEF q
<1>7. SubSeq(q, 1, 2) = e
  <2>1. \A i \in 1 .. Len(e) : q[0 + i] = e[i]
    BY <1>5
  <2>2. 0 + Len(e) <= Len(q) /\ 0 \in Nat
    BY <1>2, <1>3, <1>4
  <2>3. SubSeq(q, 0 + 1, 0 + Len(e)) = e
    BY <1>2, <1>4, <2>1, <2>2, PieceAs
  <2> QED
    BY <1>2, <2>3
<1>8. SubSeq(q, 3, Len(q)) = b
  BY <1>2, <1>6
<1>9. Inner(m) = q
  BY DEF Inner, q, e, b
<1>10. DirectMessage(m.channel, q) = [channel |-> m.channel, num |-> m.num, body |-> b]
  BY <1>2, <1>7, <1>8 DEF DirectMessage
<1> QED
  BY <1>2, <1>3, <1>4, <1>9, <1>10 DEF ReadOf, b
\* A piece of a message on its way, with the header of its packet.
MaxPiece == WireMtu - 16
PieceCount(m) == SliceCount(Len(Inner(m)))
PieceOf(m, i) == SubSeq(Inner(m), Edge(i, MaxPiece, Len(Inner(m))) + 1, Edge(i + 1, MaxPiece, Len(Inner(m))))

LEMMA PiecesCount ==
    ASSUME NEW m \in WireMessages
    PROVE  /\ MaxSlice = MaxPiece /\ MaxPiece \in Nat \ {0} /\ Len(Inner(m)) \in Nat \ {0}
           /\ PieceCount(m) \in Nat \ {0} /\ Len(Inner(m)) <= PieceCount(m) * MaxPiece
           /\ \A i \in 0 .. PieceCount(m) - 1 :
                 Edge(i, MaxPiece, Len(Inner(m))) = i * MaxPiece /\ i * MaxPiece \in Nat
<1> DEFINE len == Len(Inner(m))  n == PieceCount(m)
<1>1. MaxPiece \in Nat \ {0} /\ WireMtu \in Nat /\ WireMtu > 16
  BY WireAssumption DEF MaxPiece
<1>2. MaxSlice = MaxPiece
  BY <1>1 DEF MaxSlice, MaxPiece, HeaderSize
<1>3. len \in Nat \ {0}
  <2>1. len = 2 + m.size /\ m.size \in Nat
    BY InnerBack, MessageIs
  <2> HIDE DEF len
  <2> QED
    BY <2>1
<1>4. n = (len + MaxPiece - 1) \div MaxPiece
  BY <1>2 DEF PieceCount, SliceCount
<1> HIDE DEF len, n
<1>5. n \in Nat \ {0} /\ (n - 1) * MaxPiece < len /\ len <= n * MaxPiece
  BY <1>1, <1>3, <1>4, CoveredBy
<1>6. ASSUME NEW i \in 0 .. n - 1 PROVE Edge(i, MaxPiece, len) = i * MaxPiece /\ i * MaxPiece \in Nat
  <2>1. \A a, b, c \in Nat : a <= b => a * c <= b * c /\ a * c \in Nat /\ b * c \in Nat
    BY Z3
  <2>2. i \in Nat /\ n - 1 \in Nat /\ i <= n - 1
    BY <1>5
  <2>3. i * MaxPiece <= (n - 1) * MaxPiece /\ i * MaxPiece \in Nat /\ (n - 1) * MaxPiece \in Nat
    BY <1>1, <2>1, <2>2
  <2>4. i * MaxPiece <= len
    BY <1>3, <1>5, <2>3
  <2> QED
    BY <2>3, <2>4 DEF Edge
<1> QED
  BY <1>1, <1>2, <1>3, <1>5, <1>6 DEF len, n

\* What is written of a message that is not cut, and of a piece.
LEMMA PlainPayload ==
    ASSUME NEW m \in WireMessages
    PROVE  LET data == MessagePayload(m)
           IN  /\ data \in Seq(Nat) /\ ~IsFragment(data[1]) /\ ChannelOf(data[1]) = m.channel
               /\ SubSeq(data, 2, Len(data)) = Inner(m)
<1> DEFINE e == <<EncodePayloadHeader(m.channel, FALSE)>>  in == Inner(m)  data == e \o in
<1>1. m.channel \in 0 .. Channels - 1
  BY MessageIs
<1>2. e \in Seq(Nat) /\ Len(e) = 1 /\ ~IsFragment(e[1]) /\ ChannelOf(e[1]) = m.channel
  <2> DEFINE first == EncodePayloadHeader(m.channel, FALSE)
  <2>1. first \in Nat /\ ~IsFragment(first) /\ ChannelOf(first) = m.channel
    BY <1>1, FirstByte
  <2> HIDE DEF first
  <2>2. <<first>> \in Seq(Nat) /\ Len(<<first>>) = 1 /\ <<first>>[1] = first
    BY <2>1
  <2> QED
    BY <2>1, <2>2, Zenon DEF first
<1>2t. e \in Seq(Nat)
  BY <1>2
<1>3. in \in Seq(Nat)
  BY InnerBack
<1>4. MessagePayload(m) = data
  <2> DEFINE x == EncodeLE(m.num, 2)  b == Body(m.size)
  <2>1. x \in Seq(Nat) /\ b \in Seq(Nat)
    BY MessageIs, NumberBack, BodyIs
  <2>2. MessagePayload(m) = (e \o x) \o b /\ in = x \o b
    BY DEF MessagePayload, Inner
  <2> HIDE DEF x, b, e
  <2>3. (e \o x) \o b = e \o (x \o b)
    BY <1>2t, <2>1, Regroup, ZenonT(30)
  <2> HIDE DEF in
  <2> QED
    BY <2>2, <2>3
<1> HIDE DEF e, in
<1>5. data \in Seq(Nat) /\ SubSeq(data, Len(e) + 1, Len(data)) = in
  <2>1. data \in Seq(Nat)
    BY <1>2, <1>3, JoinedIs
  <2>2. SubSeq(data, Len(e) + 1, Len(data)) = in
    BY <1>2, <1>3, TailIs
  <2> QED
    BY <2>1, <2>2
<1>6. \A i \in 1 .. Len(e) : data[i] = e[i]
  BY <1>2, <1>3, JoinedIs
<1> HIDE DEF data
<1>7. data[1] = e[1] /\ Len(e) + 1 = 2
  BY <1>2, <1>6
<1> QED
  BY <1>2, <1>4, <1>5, <1>7 DEF in
LEMMA PieceFits ==
    ASSUME NEW m \in WireMessages, NEW i \in 0 .. PieceCount(m) - 1
    PROVE  PieceOf(m, i) \in Seq(Nat) /\ Len(PieceOf(m, i)) <= MaxPiece
<1> DEFINE in == Inner(m)  a == Edge(i, MaxPiece, Len(in))  b == Edge(i + 1, MaxPiece, Len(in))
<1>1. in \in Seq(Nat)
  BY InnerBack
<1>2. MaxPiece \in Nat /\ Len(in) \in Nat /\ i \in Nat
  BY PiecesCount
<1>3. a \in Nat /\ b \in Nat /\ a <= b /\ b <= Len(in) /\ b - a <= MaxPiece
  BY <1>2, EdgeGrows
<1>4. PieceOf(m, i) = SubSeq(in, a + 1, b)
  BY DEF PieceOf
<1> HIDE DEF in, a, b
<1>5. a + 1 \in Int /\ b \in Int /\ \A k \in a + 1 .. b : in[k] \in Nat
  BY <1>1, <1>3
<1>6. SubSeq(in, a + 1, b) \in Seq(Nat) /\ Len(SubSeq(in, a + 1, b)) = IF a + 1 <= b THEN b - (a + 1) + 1 ELSE 0
  BY <1>5, SubSeqProperties
<1> QED
  BY <1>2, <1>3, <1>4, <1>6

LEMMA CutPayload ==
    ASSUME NEW m \in WireMessages, NEW id \in 0 .. Num32 - 1, NEW j \in 1 .. PieceCount(m)
    PROVE  LET data == FragmentPayloads(m, id)[j]
               rest == SubSeq(data, 2, Len(data))
           IN  /\ data \in Seq(Nat) /\ Len(data) <= 7 + MaxPiece
               /\ IsFragment(data[1]) /\ ChannelOf(data[1]) = m.channel
               /\ DecodeLE(SubSeq(rest, 1, 4)) = id /\ rest[5] = j - 1 /\ rest[6] = PieceCount(m)
               /\ SubSeq(rest, 7, Len(rest)) = PieceOf(m, j - 1)
<1> DEFINE e == <<EncodePayloadHeader(m.channel, TRUE)>>  x == EncodeLE(id, 4)
           n == PieceCount(m)  t == <<j - 1, n>>  piece == PieceOf(m, j - 1)
           in == Inner(m)  data == FragmentPayloads(m, id)[j]
<1>1. m.channel \in 0 .. Channels - 1
  BY MessageIs
<1>2. e \in Seq(Nat) /\ Len(e) = 1 /\ IsFragment(e[1]) /\ ChannelOf(e[1]) = m.channel
  <2> DEFINE first == EncodePayloadHeader(m.channel, TRUE)
  <2>1. first \in Nat /\ IsFragment(first) /\ ChannelOf(first) = m.channel
    BY <1>1, FirstByte
  <2> HIDE DEF first
  <2>2. <<first>> \in Seq(Nat) /\ Len(<<first>>) = 1 /\ <<first>>[1] = first
    BY <2>1
  <2> QED
    BY <2>1, <2>2, Zenon DEF first
<1>3. x \in Seq(Nat) /\ Len(x) = 4 /\ DecodeLE(x) = id
  <2>1. id \in Nat /\ Shifted(id, Byte, 4) = 0
    BY Widths
  <2> QED
    BY <2>1, NumberBack
<1>4. n \in Nat \ {0} /\ MaxPiece \in Nat /\ MaxSlice = MaxPiece /\ j - 1 \in 0 .. n - 1 /\ j \in Nat
  BY PiecesCount
<1>5. piece \in Seq(Nat) /\ Len(piece) <= MaxPiece
  BY <1>4, PieceFits
<1>6. t \in Seq(Nat) /\ Len(t) = 2 /\ t[1] = j - 1 /\ t[2] = n
  <2> HIDE DEF n
  <2> QED
    BY <1>4
<1>7. data = ((e \o x) \o t) \o piece
  <2> DEFINE EndOf(i) == IF (i + 1) * MaxSlice < Len(in) THEN (i + 1) * MaxSlice ELSE Len(in)
  <2>1. SliceCount(Len(in)) = n
    BY DEF PieceCount
  <2>2. FragmentPayloads(m, id) =
            [i \in 1 .. n |-> <<EncodePayloadHeader(m.channel, TRUE)>> \o EncodeLE(id, 4) \o <<i - 1, n>>
                              \o SubSeq(in, (i - 1) * MaxSlice + 1, EndOf(i - 1))]
    BY <2>1, Zenon DEF FragmentPayloads, Inner
  <2>3. data = ((e \o x) \o t) \o SubSeq(in, (j - 1) * MaxSlice + 1, EndOf(j - 1))
    BY <2>2
  <2>4. Edge(j - 1, MaxPiece, Len(in)) = (j - 1) * MaxSlice
    BY <1>4, PiecesCount
  <2>5. Edge((j - 1) + 1, MaxPiece, Len(in)) = EndOf(j - 1)
    <3>1. ((j - 1) + 1) * MaxPiece \in Nat /\ Len(in) \in Nat
      <4>1. \A a, b \in Nat : (a + 1) * b \in Nat
        BY Z3
      <4>2. j - 1 \in Nat /\ Len(in) \in Nat
        BY PiecesCount
      <4> QED
        BY <1>4, <4>1, <4>2
    <3> DEFINE p == ((j - 1) + 1) * MaxPiece  l == Len(in)
    <3>2. Edge((j - 1) + 1, MaxPiece, l) = (IF p <= l THEN p ELSE l) /\ EndOf(j - 1) = IF p < l THEN p ELSE l
      BY <1>4 DEF Edge
    <3> HIDE DEF p, l, EndOf
    <3>3. p \in Nat /\ l \in Nat
      BY <3>1 DEF p, l
    <3> QED
      BY <3>2, <3>3 DEF l
  <2>6. piece = SubSeq(in, (j - 1) * MaxSlice + 1, EndOf(j - 1))
    BY <2>4, <2>5, Zenon DEF PieceOf
  <2> QED
    BY <2>3, <2>6, Zenon
<1> HIDE DEF e, x, n, t, piece, in, data
<1>t. e \in Seq(Nat) /\ x \in Seq(Nat) /\ t \in Seq(Nat) /\ piece \in Seq(Nat)
  BY <1>2, <1>3, <1>5, <1>6
<1> DEFINE rest == (x \o t) \o piece  xt == x \o t
<1>8. xt \in Seq(Nat) /\ Len(xt) = Len(x) + Len(t)
  BY <1>t, JoinedIs
<1>9. \A i \in 1 .. Len(x) : xt[i] = x[i]
  BY <1>t, JoinedIs
<1>10. \A i \in 1 .. Len(t) : xt[Len(x) + i] = t[i]
  BY <1>t, JoinedIs
<1>11. data = e \o rest
  <2>1. (e \o x) \o t = e \o xt
    BY <1>t, Regroup, ZenonT(30)
  <2>x. xt \in Seq(Nat)
    BY <1>8
  <2> HIDE DEF xt
  <2>2. (e \o xt) \o piece = e \o (xt \o piece)
    <3>1. e \in Seq(Nat)
      BY <1>t
    <3>2. piece \in Seq(Nat)
      BY <1>t
    <3> QED
      BY <2>x, <3>1, <3>2, Regroup, ZenonT(30)
  <2> QED
    BY <1>7, <2>1, <2>2, Zenon DEF xt
<1>12. rest = xt \o piece
  OBVIOUS
<1>x. xt \in Seq(Nat)
  BY <1>8
<1> HIDE DEF xt, rest
<1>13. rest \in Seq(Nat) /\ Len(rest) = Len(xt) + Len(piece)
  BY <1>t, <1>x, <1>12, JoinedIs
<1>14. \A i \in 1 .. Len(xt) : rest[i] = xt[i]
  BY <1>t, <1>x, <1>12, JoinedIs
<1>15. SubSeq(rest, Len(xt) + 1, Len(rest)) = piece
  BY <1>t, <1>x, <1>12, TailIs
<1>r. rest \in Seq(Nat)
  BY <1>13
<1>16. data \in Seq(Nat) /\ Len(data) = Len(e) + Len(rest)
  BY <1>t, <1>r, <1>11, JoinedIs
<1>17. \A i \in 1 .. Len(e) : data[i] = e[i]
  BY <1>t, <1>r, <1>11, JoinedIs
<1>18. SubSeq(data, Len(e) + 1, Len(data)) = rest
  BY <1>t, <1>r, <1>11, TailIs
<1>19. Len(xt) = 6 /\ Len(data) <= 7 + MaxPiece /\ data[1] = e[1] /\ SubSeq(data, 2, Len(data)) = rest
  <2>1. Len(xt) = 6
    BY <1>3, <1>6, <1>8
  <2>2. data[1] = e[1]
    BY <1>2, <1>17
  <2>3. SubSeq(data, 2, Len(data)) = rest
    BY <1>2, <1>18
  <2>4. Len(data) <= 7 + MaxPiece
    <3>1. Len(piece) \in Nat /\ MaxPiece \in Nat /\ Len(data) = 1 + (6 + Len(piece))
      BY <1>2, <1>4, <1>5, <1>13, <1>16, <2>1
    <3> QED
      BY <1>5, <3>1
  <2> QED
    BY <2>1, <2>2, <2>3, <2>4
<1>20. rest[5] = j - 1 /\ rest[6] = n
  <2>1. 1 \in 1 .. Len(t) /\ 2 \in 1 .. Len(t) /\ Len(x) + 1 = 5 /\ Len(x) + 2 = 6 /\ 5 \in 1 .. Len(xt) /\ 6 \in 1 .. Len(xt)
    BY <1>3, <1>6, <1>19
  <2>2. xt[Len(x) + 1] = t[1] /\ xt[Len(x) + 2] = t[2]
    BY <1>10, <2>1, Zenon
  <2>3. rest[5] = xt[5] /\ rest[6] = xt[6]
    BY <1>14, <2>1, Zenon
  <2> QED
    BY <1>6, <2>1, <2>2, <2>3, Zenon
<1>21. SubSeq(rest, 1, 4) = x
  <2>1. \A i \in 1 .. Len(x) : rest[0 + i] = x[i]
    <3> SUFFICES ASSUME NEW i \in 1 .. Len(x) PROVE rest[0 + i] = x[i]
      OBVIOUS
    <3>1. 0 + i = i /\ i \in 1 .. Len(xt)
      BY <1>3, <1>19
    <3>2. rest[i] = xt[i] /\ xt[i] = x[i]
      BY <1>9, <1>14, <3>1, Zenon
    <3> QED
      BY <3>1, <3>2
  <2>2. 0 \in Nat /\ 0 + Len(x) <= Len(rest)
    BY <1>3, <1>5, <1>13, <1>19
  <2>3. SubSeq(rest, 0 + 1, 0 + Len(x)) = x
    BY <1>t, <1>r, <2>1, <2>2, PieceAs
  <2> QED
    BY <1>3, <2>3
<1>22. SubSeq(rest, 7, Len(rest)) = piece
  BY <1>15, <1>19
<1>23. SubSeq(data, 2, Len(data)) = rest /\ data \in Seq(Nat) /\ Len(data) <= 7 + MaxPiece
       /\ IsFragment(data[1]) /\ ChannelOf(data[1]) = m.channel /\ DecodeLE(SubSeq(rest, 1, 4)) = id
  BY <1>2, <1>3, <1>16, <1>19, <1>21
<1> QED
  BY <1>20, <1>22, <1>23, Zenon DEF data, n, piece

\* All the pieces, put together, are the message.
LEMMA PiecesBack ==
    ASSUME NEW m \in WireMessages, NEW parts, \A i \in 0 .. PieceCount(m) - 1 : parts[i] = PieceOf(m, i)
    PROVE  Joined(parts, PieceCount(m)) = Inner(m)
<1> DEFINE n == PieceCount(m)  in == Inner(m)  seqs == [i \in 1 .. n |-> parts[i - 1]]
<1>1. in \in Seq(Nat) /\ n \in Nat \ {0} /\ Len(in) <= n * MaxPiece /\ MaxPiece \in Nat
  BY InnerBack, PiecesCount
<1>2. Len(seqs) = n
  BY <1>1
<1>3. ASSUME NEW i \in 1 .. n
      PROVE  seqs[i] = SubSeq(in, Edge(i - 1, MaxPiece, Len(in)) + 1, Edge(i, MaxPiece, Len(in)))
  <2>1. i - 1 \in 0 .. n - 1 /\ (i - 1) + 1 = i
    BY <1>1
  <2>2. seqs[i] = PieceOf(m, i - 1)
    BY <2>1
  <2> HIDE DEF seqs
  <2> QED
    BY <2>1, <2>2, Zenon DEF PieceOf
<1> HIDE DEF seqs, n, in
<1>4. FlattenSeq(seqs) = in
  BY <1>1, <1>2, <1>3, PiecesJoin
<1>5. Joined(parts, n) = FlattenSeq(seqs)
  BY DEF Joined, seqs
<1> QED
  BY <1>4, <1>5 DEF n, in
-----------------------------------------------------------------------------
(* What was sent, what is on its way, and what was made of it. *)

Greets(w) == /\ w.header = [type |-> HandshakeType, num |-> 0, ack |-> 0, bits |-> 0]
             /\ w.content \in WireSalts
Posts(w)  == w.header \in WireHeader /\ w.header.type = PayloadType /\ w.content \in WireMessages
IsCut(w)  == w.header.type = PayloadType /\ w.content.size > FragmentThreshold

\* How many packets it takes, what each of them carries, and that a datagram is such a packet.
PacketCount(w) == IF IsCut(w) THEN PieceCount(w.content) ELSE 1
PayloadOf(w, id, j) ==
    IF w.header.type = HandshakeType THEN EncodeLE(w.content, 8) ELSE Payloads(w.content, id)[j]
HeaderOf(w, num) == [type |-> w.header.type, num |-> num, ack |-> w.header.ack, bits |-> w.header.bits]
Carries(d, w, j) ==
    \E num \in NumbersOf(w) : d.bytes = PacketWrite(HeaderOf(w, num)) \o PayloadOf(w, d.of, j)

\* A datagram is a packet of what was written, and every packet is on its way or was.
OnTheWay ==
    /\ \A d \in datagrams :
          /\ d = [of |-> d.of, bytes |-> d.bytes, damaged |-> d.damaged]
          /\ d.of \in 0 .. Len(written) - 1
          /\ \E j \in 1 .. PacketCount(written[d.of + 1]) : Carries(d, written[d.of + 1], j)
    /\ \A i \in 1 .. Len(written) : \A j \in 1 .. PacketCount(written[i]) :
          \E d \in datagrams : d.of = i - 1 /\ Carries(d, written[i], j)
    /\ processed \subseteq datagrams /\ \A d \in processed : ~d.damaged

\* What the assembler holds are pieces, and among them those that were processed.
Assembled ==
    /\ \A id \in DOMAIN slices :
          /\ id \in 0 .. Len(written) - 1 /\ IsCut(written[id + 1])
          /\ DOMAIN slices[id] \subseteq 0 .. PacketCount(written[id + 1]) - 1
          /\ \A k \in DOMAIN slices[id] : slices[id][k] = PieceOf(written[id + 1].content, k)
    /\ \A d \in processed : \A j \in 1 .. PacketCount(written[d.of + 1]) :
          IsCut(written[d.of + 1]) /\ Carries(d, written[d.of + 1], j)
             => d.of \in DOMAIN slices /\ j - 1 \in DOMAIN slices[d.of]

\* What was read was written, and what is complete was read.
IsRead(w) == \E r \in read : Means(r, w)
AllRead ==
    /\ \A r \in read : \E i \in 1 .. Len(written) : Means(r, written[i])
    /\ \A d \in processed : ~IsCut(written[d.of + 1]) => IsRead(written[d.of + 1])
    /\ \A id \in DOMAIN slices :
          DOMAIN slices[id] = 0 .. PacketCount(written[id + 1]) - 1 => IsRead(written[id + 1])

WireEntry == [header : WireHeader, content : WireMessages \cup WireSalts]
AllWritten ==
    /\ written \in Seq(WireEntry) /\ Len(written) <= MaxWritten
    /\ \A i \in 1 .. Len(written) : Greets(written[i]) \/ Posts(written[i])
WireInv == AllWritten /\ OnTheWay /\ Assembled /\ AllRead

\* Message identifiers do not come round.
IdsLast == MaxWritten <= Num32

LEMMA TypesDiffer == PayloadType \in 0 .. Nibble - 1 /\ HandshakeType \in 0 .. Nibble - 1 /\ PayloadType # HandshakeType
BY WireAssumption

LEMMA PacketCountIs ==
    ASSUME NEW w, Greets(w) \/ Posts(w)
    PROVE  PacketCount(w) \in Nat \ {0}
<1>1. CASE IsCut(w)
  <2>1. w.content \in WireMessages
    BY <1>1, TypesDiffer DEF IsCut, Greets, Posts
  <2> QED
    BY <1>1, <2>1, PiecesCount DEF PacketCount
<1>2. CASE ~IsCut(w)
  BY <1>2 DEF PacketCount
<1> QED
  BY <1>1, <1>2

\* The payloads of a message, and the only one of a handshake.
LEMMA PayloadsAre ==
    ASSUME NEW w, Posts(w), NEW id \in 0 .. Num32 - 1
    PROVE  /\ Len(Payloads(w.content, id)) = PacketCount(w) /\ DOMAIN Payloads(w.content, id) = 1 .. PacketCount(w)
           /\ ~IsCut(w) => Payloads(w.content, id) = <<MessagePayload(w.content)>>
           /\ IsCut(w) => Payloads(w.content, id) = FragmentPayloads(w.content, id)
           /\ \A j \in 1 .. PacketCount(w) : PayloadOf(w, id, j) = Payloads(w.content, id)[j]
<1> DEFINE m == w.content
<1>1. m \in WireMessages /\ w.header.type = PayloadType /\ w.header.type # HandshakeType
  BY TypesDiffer DEF Posts
<1>2. m.size \in Nat /\ FragmentThreshold \in Nat
  BY <1>1, MessageIs, WireAssumption
<1>3. CASE ~IsCut(w)
  <2>1. m.size <= FragmentThreshold /\ PacketCount(w) = 1
    BY <1>1, <1>2, <1>3 DEF IsCut, PacketCount
  <2>2. Payloads(m, id) = <<MessagePayload(m)>>
    BY <2>1 DEF Payloads
  <2>3. Len(Payloads(m, id)) = 1 /\ DOMAIN Payloads(m, id) = 1 .. 1
    BY <2>2
  <2> QED
    BY <1>1, <1>3, <2>1, <2>2, <2>3 DEF PayloadOf
<1>4. CASE IsCut(w)
  <2>1. ~(m.size <= FragmentThreshold) /\ PacketCount(w) = PieceCount(m)
    BY <1>1, <1>2, <1>4 DEF IsCut, PacketCount
  <2>2. Payloads(m, id) = FragmentPayloads(m, id)
    BY <2>1 DEF Payloads
  <2>3. DOMAIN FragmentPayloads(m, id) = 1 .. PieceCount(m) /\ PieceCount(m) \in Nat
    BY <1>1, PiecesCount DEF FragmentPayloads, PieceCount, Inner
  <2>4. Len(FragmentPayloads(m, id)) = PieceCount(m)
    <3> DEFINE n == PieceCount(m)
    <3>1. FragmentPayloads(m, id) = [i \in 1 .. n |-> FragmentPayloads(m, id)[i]]
      BY DEF FragmentPayloads, PieceCount, Inner
    <3>2. n \in Nat
      BY <2>3
    <3> HIDE DEF n
    <3> QED
      BY <3>1, <3>2 DEF n
  <2> QED
    BY <1>1, <1>4, <2>1, <2>2, <2>3, <2>4 DEF PayloadOf
<1> QED
  BY <1>3, <1>4

\* The numbers are those of so many packets, from the first.
LEMMA NumbersAre ==
    ASSUME NEW w, Greets(w) \/ Posts(w)
    PROVE  /\ NumbersOf(w) \subseteq 0 .. Num16 - 1
           /\ w.header.type = HandshakeType => NumbersOf(w) = {0}
           /\ Posts(w) => NumbersOf(w) = {(w.header.num + i - 1) % Num16 : i \in 1 .. PacketCount(w)}
<1>1. CASE Greets(w)
  <2>1. NumbersOf(w) = {0} /\ w.header.type # PayloadType
    BY <1>1, TypesDiffer DEF NumbersOf, Greets
  <2>2. 0 \in 0 .. Num16 - 1
    BY Widths
  <2> QED
    BY <2>1, <2>2 DEF Posts
<1>2. CASE Posts(w)
  <2>1. w.header.type # HandshakeType /\ w.header.num \in 0 .. Num16 - 1
    BY <1>2, TypesDiffer DEF Posts, WireHeader
  <2>2. 0 \in 0 .. Num32 - 1
    BY Widths
  <2>3. DOMAIN Payloads(w.content, 0) = 1 .. PacketCount(w)
    BY <1>2, <2>2, PayloadsAre
  <2>4. NumbersOf(w) = {(w.header.num + i - 1) % Num16 : i \in 1 .. PacketCount(w)}
    BY <2>1, <2>3 DEF NumbersOf
  <2>5. ASSUME NEW i \in 1 .. PacketCount(w) PROVE (w.header.num + i - 1) % Num16 \in 0 .. Num16 - 1
    <3>1. \A n \in Nat : n % Num16 \in 0 .. Num16 - 1
      BY Widths, PlaceInRing
    <3>2. i \in Nat \ {0} /\ w.header.num \in Nat
      BY <1>2, <2>1, PacketCountIs, Widths
    <3>3. w.header.num + i - 1 \in Nat
      BY <3>2
    <3> QED
      BY <3>1, <3>3
  <2> QED
    BY <2>1, <2>4, <2>5
<1> QED
  BY <1>1, <1>2

LEMMA PayloadType8 ==
    ASSUME NEW w, Greets(w), NEW id, NEW j
    PROVE  /\ PayloadOf(w, id, j) = EncodeLE(w.content, 8) /\ PayloadOf(w, id, j) \in Seq(Nat)
           /\ DecodeLE(PayloadOf(w, id, j)) = w.content
<1>1. w.content \in 0 .. Num64 - 1 /\ w.header.type = HandshakeType
  <2>1. WireSalts \subseteq 0 .. Num64 - 1
    BY WireAssumption
  <2>2. w.content \in WireSalts /\ w.header.type = HandshakeType
    BY DEF Greets
  <2> QED
    BY <2>1, <2>2
<1>2. w.content \in Nat /\ Shifted(w.content, Byte, 8) = 0
  BY <1>1, Widths
<1>3. PayloadOf(w, id, j) = EncodeLE(w.content, 8)
  BY <1>1 DEF PayloadOf
<1> QED
  BY <1>2, <1>3, NumberBack

\* What the receiver finds in a packet.
LEMMA PacketOpened ==
    ASSUME NEW w, Greets(w) \/ Posts(w), NEW d, d.of \in 0 .. Num32 - 1,
           NEW j \in 1 .. PacketCount(w), Carries(d, w, j)
    PROVE  LET hd == PacketRead(d.bytes)
           IN  /\ hd.type = w.header.type /\ hd.ack = w.header.ack /\ hd.bits = w.header.bits
               /\ hd.num \in NumbersOf(w)
               /\ SubSeq(d.bytes, HeaderSize + 1, Len(d.bytes)) = PayloadOf(w, d.of, j)
               /\ Len(d.bytes) = 9 + Len(PayloadOf(w, d.of, j))
<1> DEFINE inside == PayloadOf(w, d.of, j)
<1>1. PICK num \in NumbersOf(w) : d.bytes = PacketWrite(HeaderOf(w, num)) \o inside
  BY DEF Carries
<1>2. inside \in Seq(Nat)
  <2>1. CASE Greets(w)
    BY <2>1, PayloadType8
  <2>2. CASE Posts(w)
    <3>1. inside = Payloads(w.content, d.of)[j] /\ w.content \in WireMessages
      BY <2>2, PayloadsAre DEF Posts
    <3>2. CASE IsCut(w)
      <4>1. inside = FragmentPayloads(w.content, d.of)[j] /\ j \in 1 .. PieceCount(w.content)
        BY <2>2, <3>1, <3>2, PayloadsAre DEF PacketCount
      <4> QED
        BY <3>1, <4>1, CutPayload
    <3>3. CASE ~IsCut(w)
      <4>1. inside = <<MessagePayload(w.content)>>[j] /\ j \in 1 .. 1
        BY <2>2, <3>1, <3>3, PayloadsAre DEF PacketCount
      <4>2. inside = MessagePayload(w.content)
        BY <4>1
      <4> QED
        BY <3>1, <4>2, PlainPayload
    <3> QED
      BY <3>2, <3>3
  <2> QED
    BY <2>1, <2>2
<1>3. HeaderOf(w, num) \in WireHeader
  <2>1. w.header.type \in 0 .. Nibble - 1 /\ w.header.ack \in 0 .. Num16 - 1 /\ w.header.bits \in 0 .. Num32 - 1
    <3>1. CASE Greets(w)
      BY <3>1, Widths, TypesDiffer DEF Greets
    <3>2. CASE Posts(w)
      BY <3>2 DEF Posts, WireHeader
    <3> QED
      BY <3>1, <3>2
  <2>2. num \in 0 .. Num16 - 1
    BY NumbersAre
  <2> QED
    BY <2>1, <2>2 DEF HeaderOf, WireHeader
<1> HIDE DEF inside
<1>4. /\ Len(d.bytes) = 9 + Len(inside) /\ PacketRead(d.bytes) = HeaderOf(w, num)
      /\ SubSeq(d.bytes, HeaderSize + 1, Len(d.bytes)) = inside
  BY <1>1, <1>2, <1>3, HeaderBack
<1>5. /\ HeaderOf(w, num).type = w.header.type /\ HeaderOf(w, num).num = num
      /\ HeaderOf(w, num).ack = w.header.ack /\ HeaderOf(w, num).bits = w.header.bits
  BY DEF HeaderOf
<1> QED
  BY <1>1, <1>4, <1>5, Zenon DEF inside
\* What becomes of a packet: a handshake or a message that was not cut is read at once.
LEMMA ReadAtOnce ==
    ASSUME NEW w, Greets(w) \/ Posts(w), ~IsCut(w), NEW d, d.of \in 0 .. Num32 - 1,
           NEW j \in 1 .. PacketCount(w), Carries(d, w, j), ProcessOnePacket(d)
    PROVE  slices' = slices /\ \E r : read' = read \cup {r} /\ Means(r, w)
<1> DEFINE hd == PacketRead(d.bytes)  data == SubSeq(d.bytes, HeaderSize + 1, Len(d.bytes))
           rest == SubSeq(data, 2, Len(data))  first == data[1]
<1>1. /\ hd.type = w.header.type /\ hd.ack = w.header.ack /\ hd.bits = w.header.bits
      /\ hd.num \in NumbersOf(w)
      /\ data = PayloadOf(w, d.of, j)
  BY PacketOpened
<1>2. \/ /\ hd.type = HandshakeType
         /\ read' = read \cup {[header |-> hd, content |-> DecodeLE(data)]} /\ slices' = slices
      \/ /\ hd.type = PayloadType /\ ~IsFragment(first) /\ slices' = slices
         /\ read' = read \cup {[header |-> hd, content |-> DirectMessage(ChannelOf(first), rest)]}
      \/ hd.type = PayloadType /\ IsFragment(first)
  BY DEF ProcessOnePacket
<1> HIDE DEF hd, data, rest, first
<1>3. CASE Greets(w)
  <2>1. hd.type = HandshakeType /\ w.header.type = HandshakeType
    BY <1>1, <1>3 DEF Greets
  <2>2. DecodeLE(data) = w.content
    BY <1>1, <1>3, PayloadType8
  <2> DEFINE r == [header |-> hd, content |-> DecodeLE(data)]
  <2>3. read' = read \cup {r} /\ slices' = slices
    BY <1>2, <2>1, TypesDiffer
  <2>4. Means(r, w)
    BY <1>1, <2>1, <2>2 DEF Means
  <2> QED
    BY <2>3, <2>4
<1>4. CASE Posts(w)
  <2> DEFINE m == w.content
  <2>1. m \in WireMessages /\ hd.type = PayloadType /\ w.header.type = PayloadType
    BY <1>1, <1>4 DEF Posts
  <2>2. data = MessagePayload(m)
    <3>1. PayloadOf(w, d.of, j) = Payloads(m, d.of)[j] /\ Payloads(m, d.of) = <<MessagePayload(m)>> /\ j = 1
      BY <1>4, PayloadsAre DEF PacketCount
    <3> QED
      BY <1>1, <3>1
  <2>3. ~IsFragment(first) /\ ChannelOf(first) = m.channel /\ rest = Inner(m)
    BY <2>1, <2>2, PlainPayload DEF rest, first
  <2> DEFINE r == [header |-> hd, content |-> DirectMessage(ChannelOf(first), rest)]
  <2>4. read' = read \cup {r} /\ slices' = slices
    BY <1>2, <2>1, <2>3, TypesDiffer
  <2>5. DirectMessage(ChannelOf(first), rest) = ReadOf(m)
    BY <2>1, <2>3, InnerBack
  <2>6. Means(r, w)
    BY <1>1, <2>1, <2>5, TypesDiffer DEF Means, ReadOf
  <2> QED
    BY <2>4, <2>6
<1> QED
  BY <1>3, <1>4

\* A piece is put with the others, and with the last one the message is read.
LEMMA PieceTaken ==
    ASSUME NEW w, Posts(w), IsCut(w), NEW d, d.of \in 0 .. Num32 - 1,
           NEW j \in 1 .. PacketCount(w), Carries(d, w, j), ProcessOnePacket(d)
    PROVE  LET id  == d.of
               had == IF id \in DOMAIN slices THEN DOMAIN slices[id] ELSE {}
           IN  /\ DOMAIN slices' = DOMAIN slices \cup {id}
               /\ \A i \in DOMAIN slices : i # id => slices'[i] = slices[i]
               /\ DOMAIN slices'[id] = had \cup {j - 1}
               /\ slices'[id][j - 1] = PieceOf(w.content, j - 1)
               /\ \A k \in had : k # j - 1 => slices'[id][k] = slices[id][k]
               /\ IF Cardinality(DOMAIN slices'[id]) = PacketCount(w)
                  THEN read' = read \cup {[header |-> PacketRead(d.bytes),
                                           content |-> DirectMessage(w.content.channel,
                                                                     Joined(slices'[id], PacketCount(w)))]}
                  ELSE read' = read
<1> DEFINE hd == PacketRead(d.bytes)  data == SubSeq(d.bytes, HeaderSize + 1, Len(d.bytes))
           rest == SubSeq(data, 2, Len(data))  first == data[1]  m == w.content  n == PacketCount(w)
           id == d.of  parts == WithSlice(rest)[DecodeLE(SubSeq(rest, 1, 4))]
<1>1. hd.type = w.header.type /\ data = PayloadOf(w, id, j)
  BY PacketOpened
<1>2. \/ hd.type = HandshakeType
      \/ hd.type = PayloadType /\ ~IsFragment(first)
      \/ /\ hd.type = PayloadType /\ IsFragment(first) /\ slices' = WithSlice(rest)
         /\ IF Cardinality(DOMAIN parts) = rest[6]
            THEN read' = read \cup {[header |-> hd, content |-> DirectMessage(ChannelOf(first), Joined(parts, rest[6]))]}
            ELSE read' = read
  BY DEF ProcessOnePacket
<1>3. m \in WireMessages /\ w.header.type = PayloadType /\ n = PieceCount(m)
  BY DEF Posts, PacketCount
<1>4. data = FragmentPayloads(m, id)[j]
  BY <1>1, PayloadsAre
<1>5. /\ IsFragment(first) /\ ChannelOf(first) = m.channel /\ DecodeLE(SubSeq(rest, 1, 4)) = id
      /\ rest[5] = j - 1 /\ rest[6] = n /\ SubSeq(rest, 7, Len(rest)) = PieceOf(m, j - 1)
  <2>1. j \in 1 .. PieceCount(m)
    BY <1>3
  <2>2. /\ IsFragment(FragmentPayloads(m, id)[j][1]) /\ ChannelOf(FragmentPayloads(m, id)[j][1]) = m.channel
    BY <1>3, <2>1, CutPayload
  <2> HIDE DEF data
  <2>3. DecodeLE(SubSeq(rest, 1, 4)) = id /\ rest[5] = j - 1 /\ rest[6] = PieceCount(m)
        /\ SubSeq(rest, 7, Len(rest)) = PieceOf(m, j - 1)
    BY <1>3, <1>4, <2>1, CutPayload
  <2> QED
    BY <1>3, <1>4, <2>2, <2>3
<1> HIDE DEF hd, data, rest, first
<1>6. /\ slices' = WithSlice(rest)
      /\ IF Cardinality(DOMAIN parts) = rest[6]
         THEN read' = read \cup {[header |-> hd, content |-> DirectMessage(ChannelOf(first), Joined(parts, rest[6]))]}
         ELSE read' = read
  BY <1>1, <1>2, <1>3, <1>5, TypesDiffer
<1> DEFINE old == IF id \in DOMAIN slices THEN slices[id] ELSE [i \in {} |-> <<>>]
           new == [i \in DOMAIN old \cup {j - 1} |-> IF i = j - 1 THEN PieceOf(m, j - 1) ELSE old[i]]
<1>7. WithSlice(rest) = [i \in DOMAIN slices \cup {id} |-> IF i = id THEN new ELSE slices[i]]
  BY <1>5, Zenon DEF WithSlice
<1>8. parts = slices'[id] /\ slices'[id] = new
  <2>1. WithSlice(rest)[id] = new
    BY <1>7
  <2> QED
    BY <1>5, <1>6, <2>1, Zenon
<1>9. DOMAIN old = IF id \in DOMAIN slices THEN DOMAIN slices[id] ELSE {}
  OBVIOUS
<1>10. DOMAIN slices' = DOMAIN slices \cup {id} /\ \A i \in DOMAIN slices : i # id => slices'[i] = slices[i]
  BY <1>6, <1>7
<1>11. /\ DOMAIN new = DOMAIN old \cup {j - 1} /\ new[j - 1] = PieceOf(m, j - 1)
       /\ \A k \in DOMAIN old : k # j - 1 => new[k] = old[k]
  OBVIOUS
<1>12. id \in DOMAIN slices => old = slices[id]
  OBVIOUS
<1> HIDE DEF new, old, parts
<1>13. IF Cardinality(DOMAIN slices'[id]) = n
       THEN read' = read \cup {[header |-> hd, content |-> DirectMessage(m.channel, Joined(slices'[id], n))]}
       ELSE read' = read
  BY <1>5, <1>6, <1>8
<1>14. \A k \in DOMAIN old : k # j - 1 => slices'[id][k] = slices[id][k]
  BY <1>8, <1>9, <1>11, <1>12
<1>15. DOMAIN slices'[id] = DOMAIN old \cup {j - 1} /\ slices'[id][j - 1] = PieceOf(m, j - 1)
  BY <1>8, <1>11
<1> QED
  BY <1>9, <1>10, <1>13, <1>14, <1>15, Zenon DEF hd
LEMMA IdsBelow ==
    ASSUME IdsLast, WireInv, NEW id \in 0 .. Len(written) - 1
    PROVE  id + 1 \in 1 .. Len(written) /\ id \in 0 .. Num32 - 1
<1>1. Len(written) \in Nat /\ Len(written) <= MaxWritten
  BY DEF WireInv, AllWritten
<1>2. MaxWritten \in Nat /\ MaxWritten <= Num32 /\ Num32 \in Nat
  BY Widths, WireAssumption DEF IdsLast
<1> QED
  BY <1>1, <1>2

\* The invariant says what it should.
LEMMA ReadWhatIsWritten == IdsLast /\ WireInv => ReadIsWritten
<1> SUFFICES ASSUME IdsLast, WireInv PROVE ReadIsWritten
  OBVIOUS
<1>0. Len(written) \in Nat /\ DOMAIN written = 1 .. Len(written)
  BY DEF WireInv, AllWritten
<1>1. ASSUME NEW r \in read PROVE \E i \in DOMAIN written : Means(r, written[i])
  BY <1>0 DEF WireInv, AllRead
<1>2. ASSUME NEW i \in DOMAIN written, {d \in datagrams : d.of = i - 1} \subseteq processed
      PROVE  \E r \in read : Means(r, written[i])
  <2> DEFINE w == written[i]  n == PacketCount(w)
  <2>1. i \in 1 .. Len(written) /\ (i - 1) + 1 = i /\ (Greets(w) \/ Posts(w))
    BY <1>0 DEF WireInv, AllWritten
  <2>2. \A j \in 1 .. n : \E d \in processed : d.of = i - 1 /\ Carries(d, w, j)
    BY <1>2, <2>1 DEF WireInv, OnTheWay
  <2>3. n \in Nat \ {0}
    BY <2>1, PacketCountIs
  <2> HIDE DEF n
  <2>4. PICK d \in processed : d.of = i - 1 /\ Carries(d, w, 1)
    BY <2>2, <2>3
  <2>5. d.of + 1 = i
    BY <2>1, <2>4
  <2>6. CASE ~IsCut(w)
    <3>1. IsRead(w)
      BY <2>4, <2>5, <2>6 DEF WireInv, AllRead
    <3> QED
      BY <3>1 DEF IsRead
  <2>7. CASE IsCut(w)
    <3> DEFINE id == i - 1
    <3>1. id + 1 = i
      BY <2>1
    <3>2. \A j \in 1 .. n : id \in DOMAIN slices /\ j - 1 \in DOMAIN slices[id]
      <4> SUFFICES ASSUME NEW j \in 1 .. n PROVE id \in DOMAIN slices /\ j - 1 \in DOMAIN slices[id]
        OBVIOUS
      <4>1. PICK c \in processed : c.of = id /\ Carries(c, w, j)
        BY <2>2
      <4>2. c.of + 1 = i
        BY <3>1, <4>1
      <4> QED
        BY <2>7, <4>1, <4>2 DEF WireInv, Assembled, n
    <3>3. id \in DOMAIN slices /\ DOMAIN slices[id] \subseteq 0 .. n - 1
      <4>1. 1 \in 1 .. n
        BY <2>3
      <4>2. id \in DOMAIN slices
        BY <3>2, <4>1
      <4> QED
        BY <3>1, <4>2 DEF WireInv, Assembled, n
    <3>4. 0 .. n - 1 \subseteq DOMAIN slices[id]
      <4> SUFFICES ASSUME NEW k \in 0 .. n - 1 PROVE k \in DOMAIN slices[id]
        OBVIOUS
      <4>1. k + 1 \in 1 .. n /\ (k + 1) - 1 = k
        BY <2>3
      <4> QED
        BY <3>2, <4>1
    <3>5. DOMAIN slices[id] = 0 .. n - 1
      BY <3>3, <3>4
    <3> HIDE DEF id
    <3>6. IsRead(w)
      BY <3>1, <3>3, <3>5 DEF WireInv, AllRead, n
    <3> QED
      BY <3>6 DEF IsRead
  <2> QED
    BY <2>6, <2>7
<1>3. ASSUME NEW d \in datagrams, written[d.of + 1].header.type = PayloadType,
             written[d.of + 1].content.size > FragmentThreshold
      PROVE  Len(d.bytes) <= WireMtu
  <2> DEFINE i == d.of + 1  w == written[i]
  <2>1. d.of \in 0 .. Len(written) - 1 /\ \E j \in 1 .. PacketCount(w) : Carries(d, w, j)
    BY DEF WireInv, OnTheWay
  <2>2. PICK j \in 1 .. PacketCount(w) : Carries(d, w, j)
    BY <2>1
  <2>3. i \in 1 .. Len(written) /\ d.of \in 0 .. Num32 - 1
    BY <1>0, <2>1, IdsBelow
  <2>4. Greets(w) \/ Posts(w)
    BY <2>3 DEF WireInv, AllWritten
  <2>5. IsCut(w) /\ Posts(w)
    BY <1>3, <2>4, TypesDiffer DEF IsCut, Greets
  <2> HIDE DEF i
  <2>6. Len(d.bytes) = 9 + Len(PayloadOf(w, d.of, j))
    BY <2>2, <2>3, <2>4, PacketOpened
  <2> DEFINE m == w.content
  <2>7. m \in WireMessages /\ j \in 1 .. PieceCount(m) /\ PayloadOf(w, d.of, j) = FragmentPayloads(m, d.of)[j]
    <3>1. PayloadOf(w, d.of, j) = Payloads(m, d.of)[j] /\ Payloads(m, d.of) = FragmentPayloads(m, d.of)
      BY <2>3, <2>5, PayloadsAre
    <3> QED
      BY <2>5, <3>1 DEF Posts, PacketCount
  <2> HIDE DEF w
  <2>8. Len(FragmentPayloads(m, d.of)[j]) <= 7 + MaxPiece /\ FragmentPayloads(m, d.of)[j] \in Seq(Nat)
    BY <2>3, <2>7, CutPayload
  <2>9. MaxPiece = WireMtu - 16 /\ WireMtu \in Nat
    BY WireAssumption DEF MaxPiece
  <2> DEFINE l == Len(FragmentPayloads(m, d.of)[j])
  <2>10. l \in Nat
    BY <2>8
  <2>11. Len(d.bytes) = 9 + l
    BY <2>6, <2>7
  <2>12. l <= 7 + MaxPiece
    BY <2>8
  <2> HIDE DEF l
  <2> QED
    BY <2>9, <2>10, <2>11, <2>12
<1> QED
  BY <1>1, <1>2, <1>3 DEF ReadIsWritten

LEMMA WireStart == WireInit => WireInv
<1> SUFFICES ASSUME WireInit PROVE WireInv
  OBVIOUS
<1>1. written = <<>> /\ datagrams = {} /\ processed = {} /\ DOMAIN slices = {} /\ read = {}
  BY DEF WireInit
<1>2. Len(written) = 0 /\ written \in Seq(WireEntry) /\ MaxWritten \in Nat
  BY <1>1, WireAssumption
<1>3. AllWritten
  BY <1>2 DEF AllWritten
<1>4. OnTheWay
  BY <1>1, <1>2 DEF OnTheWay
<1>5. Assembled
  BY <1>1 DEF Assembled
<1>6. AllRead
  BY <1>1 DEF AllRead
<1> QED
  BY <1>3, <1>4, <1>5, <1>6 DEF WireInv

\* Something is written, and its packets leave.
LEMMA WriteKeeps ==
    ASSUME WireInv, NEW w \in WireEntry, Greets(w) \/ Posts(w), NEW D,
           Len(written) < MaxWritten, written' = Append(written, w),
           datagrams' = datagrams \cup D, UNCHANGED <<processed, slices, read>>,
           \A d \in D : /\ d = [of |-> d.of, bytes |-> d.bytes, damaged |-> d.damaged]
                        /\ d.of = Len(written) /\ \E j \in 1 .. PacketCount(w) : Carries(d, w, j),
           \A j \in 1 .. PacketCount(w) : \E d \in D : d.of = Len(written) /\ Carries(d, w, j)
    PROVE  WireInv'
<1> DEFINE l == Len(written)
<1>1. l \in Nat /\ written \in Seq(WireEntry) /\ MaxWritten \in Nat
  BY WireAssumption DEF WireInv, AllWritten
<1>2. written' \in Seq(WireEntry) /\ Len(written') = l + 1 /\ written'[l + 1] = w
      /\ \A i \in 1 .. l : written'[i] = written[i]
  BY <1>1
<1>3. \A d : d \in datagrams => d.of \in 0 .. l - 1 /\ d.of \in 0 .. (l + 1) - 1 /\ d.of + 1 \in 1 .. l
  BY <1>1 DEF WireInv, OnTheWay
<1>4. \A d : d \in processed => d \in datagrams
  BY DEF WireInv, OnTheWay
<1>5. AllWritten'
  <2>1. Len(written') <= MaxWritten
    BY <1>1, <1>2
  <2>2. ASSUME NEW i \in 1 .. Len(written') PROVE Greets(written'[i]) \/ Posts(written'[i])
    <3>1. CASE i \in 1 .. l
      BY <1>2, <3>1 DEF WireInv, AllWritten
    <3>2. CASE i = l + 1
      BY <1>2, <3>2
    <3> QED
      BY <1>1, <1>2, <3>1, <3>2
  <2> QED
    BY <1>2, <2>1, <2>2 DEF AllWritten
<1>6. OnTheWay'
  <2>1. ASSUME NEW d \in datagrams'
        PROVE  /\ d = [of |-> d.of, bytes |-> d.bytes, damaged |-> d.damaged]
               /\ d.of \in 0 .. Len(written') - 1
               /\ \E j \in 1 .. PacketCount(written'[d.of + 1]) : Carries(d, written'[d.of + 1], j)
    <3>1. CASE d \in datagrams
      <4>1. /\ d = [of |-> d.of, bytes |-> d.bytes, damaged |-> d.damaged]
            /\ \E j \in 1 .. PacketCount(written[d.of + 1]) : Carries(d, written[d.of + 1], j)
        BY <3>1 DEF WireInv, OnTheWay
      <4>2. written'[d.of + 1] = written[d.of + 1] /\ d.of \in 0 .. Len(written') - 1
        BY <1>2, <1>3, <3>1
      <4> QED
        BY <4>1, <4>2
    <3>2. CASE d \in D
      <4>1. /\ d = [of |-> d.of, bytes |-> d.bytes, damaged |-> d.damaged]
            /\ d.of = l /\ \E j \in 1 .. PacketCount(w) : Carries(d, w, j)
        BY <3>2
      <4>2. d.of \in 0 .. Len(written') - 1 /\ written'[d.of + 1] = w
        BY <1>1, <1>2, <4>1
      <4> QED
        BY <4>1, <4>2
    <3> QED
      BY <3>1, <3>2
  <2>2. ASSUME NEW i \in 1 .. Len(written'), NEW j \in 1 .. PacketCount(written'[i])
        PROVE  \E d \in datagrams' : d.of = i - 1 /\ Carries(d, written'[i], j)
    <3>1. CASE i \in 1 .. l
      <4>1. written'[i] = written[i]
        BY <1>2, <3>1
      <4>2. \E d \in datagrams : d.of = i - 1 /\ Carries(d, written[i], j)
        BY <3>1, <4>1 DEF WireInv, OnTheWay
      <4> QED
        BY <4>1, <4>2
    <3>2. CASE i = l + 1
      <4>1. written'[i] = w /\ i - 1 = l
        BY <1>1, <1>2, <3>2
      <4>2. \E d \in D : d.of = l /\ Carries(d, w, j)
        BY <4>1
      <4> QED
        BY <4>1, <4>2
    <3> QED
      BY <1>1, <1>2, <3>1, <3>2
  <2>3. processed' \subseteq datagrams' /\ \A d \in processed' : ~d.damaged
    BY DEF WireInv, OnTheWay
  <2> QED
    BY <2>1, <2>2, <2>3 DEF OnTheWay
<1>7. Assembled'
  <2>1. ASSUME NEW id \in DOMAIN slices'
        PROVE  /\ id \in 0 .. Len(written') - 1 /\ IsCut(written'[id + 1])
               /\ DOMAIN slices'[id] \subseteq 0 .. PacketCount(written'[id + 1]) - 1
               /\ \A k \in DOMAIN slices'[id] : slices'[id][k] = PieceOf(written'[id + 1].content, k)
    <3>1. /\ id \in 0 .. l - 1 /\ IsCut(written[id + 1])
          /\ DOMAIN slices[id] \subseteq 0 .. PacketCount(written[id + 1]) - 1
          /\ \A k \in DOMAIN slices[id] : slices[id][k] = PieceOf(written[id + 1].content, k)
      BY DEF WireInv, Assembled
    <3>2. written'[id + 1] = written[id + 1] /\ id \in 0 .. Len(written') - 1
      BY <1>1, <1>2, <3>1
    <3> QED
      BY <3>1, <3>2
  <2>2. ASSUME NEW d \in processed', NEW j \in 1 .. PacketCount(written'[d.of + 1]),
               IsCut(written'[d.of + 1]), Carries(d, written'[d.of + 1], j)
        PROVE  d.of \in DOMAIN slices' /\ j - 1 \in DOMAIN slices'[d.of]
    <3>1. written'[d.of + 1] = written[d.of + 1] /\ d \in processed
      BY <1>2, <1>3, <1>4
    <3> QED
      BY <2>2, <3>1 DEF WireInv, Assembled
  <2> QED
    BY <2>1, <2>2 DEF Assembled
<1>8. AllRead'
  <2>1. ASSUME NEW r \in read' PROVE \E i \in 1 .. Len(written') : Means(r, written'[i])
    <3>1. PICK i \in 1 .. l : Means(r, written[i])
      BY DEF WireInv, AllRead
    <3>2. i \in 1 .. Len(written') /\ written'[i] = written[i]
      BY <1>1, <1>2, <3>1
    <3> QED
      BY <3>1, <3>2
  <2>2. ASSUME NEW d \in processed', ~IsCut(written'[d.of + 1]) PROVE IsRead(written[d.of + 1])'
    <3>1. written'[d.of + 1] = written[d.of + 1] /\ d \in processed
      BY <1>2, <1>3, <1>4
    <3>2. IsRead(written[d.of + 1])
      BY <2>2, <3>1 DEF WireInv, AllRead
    <3> QED
      BY <3>1, <3>2 DEF IsRead
  <2>3. ASSUME NEW id \in DOMAIN slices', DOMAIN slices'[id] = 0 .. PacketCount(written'[id + 1]) - 1
        PROVE  IsRead(written[id + 1])'
    <3>1. id \in 0 .. l - 1
      BY DEF WireInv, Assembled
    <3>2. written'[id + 1] = written[id + 1]
      BY <1>1, <1>2, <3>1
    <3>3. IsRead(written[id + 1])
      BY <2>3, <3>2 DEF WireInv, AllRead
    <3> QED
      BY <3>2, <3>3 DEF IsRead
  <2> QED
    BY <2>1, <2>2, <2>3 DEF AllRead
<1> QED
  BY <1>5, <1>6, <1>7, <1>8 DEF WireInv
LEMMA SendPayloadKeeps ==
    ASSUME IdsLast, WireInv, NEW m \in WireMessages, NEW hd \in WireHeaders, SendPayload(m, hd)
    PROVE  WireInv'
<1> DEFINE id == Len(written)  payloads == Payloads(m, id)
           Header(i) == [type |-> PayloadType, num |-> (hd.num + i - 1) % Num16, ack |-> hd.ack, bits |-> hd.bits]
           w == [header |-> Header(1), content |-> m]
           D == {[of |-> id, bytes |-> PacketWrite(Header(i)) \o payloads[i], damaged |-> FALSE] : i \in DOMAIN payloads}
<1>1. id < MaxWritten /\ written' = Append(written, w) /\ datagrams' = datagrams \cup D
      /\ UNCHANGED <<processed, slices, read>>
  BY DEF SendPayload
<1>2. hd.num \in 0 .. Num16 - 1 /\ hd.ack \in 0 .. Num16 - 1 /\ hd.bits \in 0 .. Num32 - 1
  BY WireAssumption
<1>3. \A n \in Nat : n % Num16 \in 0 .. Num16 - 1
  BY Widths, PlaceInRing
<1>4. \A i \in Nat \ {0} : (hd.num + i - 1) % Num16 \in 0 .. Num16 - 1
  <2> SUFFICES ASSUME NEW i \in Nat \ {0} PROVE (hd.num + i - 1) % Num16 \in 0 .. Num16 - 1
    OBVIOUS
  <2>1. hd.num + i - 1 \in Nat
    BY <1>2, Widths
  <2> QED
    BY <1>3, <2>1
<1>5. Posts(w) /\ w \in WireEntry
  <2>1. (hd.num + 1 - 1) % Num16 \in 0 .. Num16 - 1
    BY <1>4
  <2>2. Header(1) \in WireHeader
    BY <1>2, <2>1, TypesDiffer DEF WireHeader
  <2>3. Header(1).type = PayloadType
    OBVIOUS
  <2> HIDE DEF Header
  <2> QED
    BY <2>2, <2>3 DEF Posts, WireEntry
<1>6. id \in Nat /\ id \in 0 .. Num32 - 1
  <2>1. id \in Nat
    BY DEF WireInv, AllWritten
  <2>2. MaxWritten \in Nat /\ MaxWritten <= Num32 /\ Num32 \in Nat
    BY Widths, WireAssumption DEF IdsLast
  <2> HIDE DEF id
  <2> QED
    BY <1>1, <2>1, <2>2
<1>7. DOMAIN payloads = 1 .. PacketCount(w) /\ \A j \in 1 .. PacketCount(w) : PayloadOf(w, id, j) = payloads[j]
  BY <1>5, <1>6, PayloadsAre
<1>8. \A i \in 1 .. PacketCount(w) : HeaderOf(w, (hd.num + i - 1) % Num16) = Header(i)
  BY DEF HeaderOf
<1>9. PacketCount(w) \in Nat
  BY <1>5, PacketCountIs
<1>10. NumbersOf(w) = {(hd.num + i - 1) % Num16 : i \in 1 .. PacketCount(w)}
  <2>1. w.header.num = (hd.num + 1 - 1) % Num16 /\ hd.num + 1 - 1 = hd.num
    BY <1>2
  <2>2. hd.num % Num16 = hd.num
    BY <1>2, ModSmall, Widths
  <2>3. w.header.num = hd.num
    BY <2>1, <2>2
  <2> HIDE DEF w
  <2> QED
    BY <1>5, <2>3, NumbersAre
<1> HIDE DEF id, payloads, w, Header
<1>11. ASSUME NEW i \in 1 .. PacketCount(w), NEW d, d.of = id, d.bytes = PacketWrite(Header(i)) \o payloads[i]
       PROVE  Carries(d, w, i)
  <2> DEFINE num == (hd.num + i - 1) % Num16
  <2>1. num \in NumbersOf(w)
    BY <1>10
  <2>2. d.bytes = PacketWrite(HeaderOf(w, num)) \o PayloadOf(w, d.of, i)
    BY <1>7, <1>8, <1>11
  <2> HIDE DEF num
  <2> QED
    BY <2>1, <2>2 DEF Carries
<1>12. ASSUME NEW d \in D
       PROVE  /\ d = [of |-> d.of, bytes |-> d.bytes, damaged |-> d.damaged]
              /\ d.of = id /\ \E j \in 1 .. PacketCount(w) : Carries(d, w, j)
  <2>1. PICK i \in 1 .. PacketCount(w) :
            d = [of |-> id, bytes |-> PacketWrite(Header(i)) \o payloads[i], damaged |-> FALSE]
    BY <1>7
  <2>2. d.of = id /\ d.bytes = PacketWrite(Header(i)) \o payloads[i]
    BY <2>1
  <2>3. d = [of |-> d.of, bytes |-> d.bytes, damaged |-> d.damaged]
    BY <2>1
  <2> QED
    BY <1>11, <2>2, <2>3
<1>13. ASSUME NEW j \in 1 .. PacketCount(w) PROVE \E d \in D : d.of = id /\ Carries(d, w, j)
  <2> DEFINE d == [of |-> id, bytes |-> PacketWrite(Header(j)) \o payloads[j], damaged |-> FALSE]
  <2>1. d \in D
    BY <1>7
  <2>2. d.of = id /\ d.bytes = PacketWrite(Header(j)) \o payloads[j]
    OBVIOUS
  <2> HIDE DEF d, D
  <2>3. Carries(d, w, j)
    BY <1>11, <2>2
  <2> QED
    BY <2>1, <2>2, <2>3
<1> HIDE DEF D
<1> QED
  BY <1>1, <1>5, <1>12, <1>13, WriteKeeps DEF id

LEMMA SendHandshakeKeeps ==
    ASSUME WireInv, NEW salt \in WireSalts, SendHandshake(salt)
    PROVE  WireInv'
<1> DEFINE hd == [type |-> HandshakeType, num |-> 0, ack |-> 0, bits |-> 0]
           w == [header |-> hd, content |-> salt]
           d == [of |-> Len(written), bytes |-> PacketWrite(hd) \o EncodeLE(salt, 8), damaged |-> FALSE]
           D == {d}
<1>1. Len(written) < MaxWritten /\ written' = Append(written, w) /\ datagrams' = datagrams \cup D
      /\ UNCHANGED <<processed, slices, read>>
  BY DEF SendHandshake
<1>2. Greets(w) /\ w \in WireEntry /\ PacketCount(w) = 1
  <2>1. hd \in WireHeader
    BY TypesDiffer, Widths DEF WireHeader
  <2>2. hd.type # PayloadType
    BY TypesDiffer
  <2> QED
    BY <2>1, <2>2 DEF Greets, WireEntry, PacketCount, IsCut
<1>3. d.of = Len(written) /\ d = [of |-> d.of, bytes |-> d.bytes, damaged |-> d.damaged]
  OBVIOUS
<1>4. Carries(d, w, 1)
  <2>1. d.bytes = PacketWrite(HeaderOf(w, 0)) \o PayloadOf(w, d.of, 1)
    BY DEF HeaderOf, PayloadOf
  <2>2. 0 \in NumbersOf(w)
    BY <1>2, TypesDiffer DEF NumbersOf, Greets
  <2> HIDE DEF d, w
  <2> QED
    BY <2>1, <2>2 DEF Carries
<1> HIDE DEF d, w
<1>5. \A c \in D : c = d
  OBVIOUS
<1>6. d \in D /\ 1 \in 1 .. PacketCount(w) /\ \A j \in 1 .. PacketCount(w) : j = 1
  BY <1>2
<1> HIDE DEF D
<1>7. \A c \in D : /\ c = [of |-> c.of, bytes |-> c.bytes, damaged |-> c.damaged]
                   /\ c.of = Len(written) /\ \E j \in 1 .. PacketCount(w) : Carries(c, w, j)
  BY <1>3, <1>4, <1>5, <1>6, Zenon
<1>8. \A j \in 1 .. PacketCount(w) : \E c \in D : c.of = Len(written) /\ Carries(c, w, j)
  BY <1>3, <1>4, <1>6, Zenon
<1> QED
  BY <1>1, <1>2, <1>7, <1>8, WriteKeeps

LEMMA DamageKeeps ==
    ASSUME WireInv, NEW d \in datagrams, Damage(d)
    PROVE  WireInv'
<1> DEFINE b == [d EXCEPT !.damaged = TRUE]
<1>1. d \notin processed /\ datagrams' = (datagrams \ {d}) \cup {b}
      /\ UNCHANGED <<written, processed, slices, read>>
  BY DEF Damage
<1>2. b.of = d.of /\ b.bytes = d.bytes /\ b = [of |-> b.of, bytes |-> b.bytes, damaged |-> b.damaged]
  <2>1. d = [of |-> d.of, bytes |-> d.bytes, damaged |-> d.damaged]
    BY DEF WireInv, OnTheWay
  <2>2. \A e, x, y, z, v : e = [of |-> x, bytes |-> y, damaged |-> z]
                              => [e EXCEPT !.damaged = v] = [of |-> x, bytes |-> y, damaged |-> v]
    OBVIOUS
  <2>3. b = [of |-> d.of, bytes |-> d.bytes, damaged |-> TRUE]
    BY <2>1, <2>2, ZenonT(30)
  <2> HIDE DEF b
  <2> QED
    BY <2>3
<1> HIDE DEF b
<1>3. \A w, j : Carries(d, w, j) => Carries(b, w, j)
  BY <1>2, Zenon DEF Carries
<1>4. OnTheWay'
  <2>1. ASSUME NEW c \in datagrams'
        PROVE  /\ c = [of |-> c.of, bytes |-> c.bytes, damaged |-> c.damaged]
               /\ c.of \in 0 .. Len(written) - 1
               /\ \E j \in 1 .. PacketCount(written[c.of + 1]) : Carries(c, written[c.of + 1], j)
    <3>1. CASE c \in datagrams
      BY <3>1 DEF WireInv, OnTheWay
    <3>2. CASE c = b
      <4>1. d.of \in 0 .. Len(written) - 1 /\ \E j \in 1 .. PacketCount(written[d.of + 1]) : Carries(d, written[d.of + 1], j)
        BY DEF WireInv, OnTheWay
      <4>2. \E j \in 1 .. PacketCount(written[b.of + 1]) : Carries(b, written[b.of + 1], j)
        BY <1>2, <1>3, <4>1
      <4> QED
        BY <1>2, <3>2, <4>1, <4>2
    <3> QED
      BY <1>1, <3>1, <3>2
  <2>2. ASSUME NEW i \in 1 .. Len(written), NEW j \in 1 .. PacketCount(written[i])
        PROVE  \E c \in datagrams' : c.of = i - 1 /\ Carries(c, written[i], j)
    <3>1. PICK c \in datagrams : c.of = i - 1 /\ Carries(c, written[i], j)
      BY DEF WireInv, OnTheWay
    <3>2. CASE c = d
      BY <1>1, <1>2, <1>3, <3>1, <3>2
    <3>3. CASE c # d
      BY <1>1, <3>1, <3>3
    <3> QED
      BY <3>2, <3>3
  <2>3. processed' \subseteq datagrams' /\ \A c \in processed' : ~c.damaged
    BY <1>1 DEF WireInv, OnTheWay
  <2> QED
    BY <1>1, <2>1, <2>2, <2>3 DEF OnTheWay
<1>5. AllWritten'
  BY <1>1 DEF WireInv, AllWritten
<1>6. Assembled'
  BY <1>1 DEF WireInv, Assembled
<1>7. AllRead'
  BY <1>1 DEF WireInv, AllRead, IsRead
<1> QED
  BY <1>4, <1>5, <1>6, <1>7 DEF WireInv
\* As many indices as there are pieces are all of them.
LEMMA AllThere ==
    ASSUME NEW n \in Nat, NEW S \in SUBSET (0 .. n - 1)
    PROVE  Cardinality(S) = n <=> S = 0 .. n - 1
<1>1. IsFiniteSet(0 .. n - 1) /\ Cardinality(0 .. n - 1) = n
  <2>1. 0 \in Int /\ n - 1 \in Int
    OBVIOUS
  <2>2. IsFiniteSet(0 .. n - 1) /\ Cardinality(0 .. n - 1) = IF 0 > n - 1 THEN 0 ELSE n - 1 - 0 + 1
    BY <2>1, FS_Interval
  <2> QED
    BY <2>2
<1>2. Cardinality(S) = Cardinality(0 .. n - 1) => S = 0 .. n - 1
  BY <1>1, FS_Subset
<1> QED
  BY <1>1, <1>2

\* A packet is processed.
LEMMA ProcessKeeps ==
    ASSUME IdsLast, WireInv, NEW d \in datagrams, ProcessOnePacket(d)
    PROVE  WireInv'
<1> DEFINE id == d.of  w == written[id + 1]  n == PacketCount(w)
<1>1. /\ ~d.damaged /\ processed' = processed \cup {d} /\ written' = written /\ datagrams' = datagrams
  BY DEF ProcessOnePacket
<1>2. id \in 0 .. Len(written) - 1 /\ \E j \in 1 .. n : Carries(d, w, j)
  BY DEF WireInv, OnTheWay
<1>3. id + 1 \in 1 .. Len(written) /\ id \in 0 .. Num32 - 1
  BY <1>2, IdsBelow
<1>4. Greets(w) \/ Posts(w)
  BY <1>3 DEF WireInv, AllWritten
<1>5. n \in Nat \ {0}
  BY <1>4, PacketCountIs
<1>6. AllWritten'
  BY <1>1 DEF WireInv, AllWritten
<1>7. OnTheWay'
  <2>1. processed' \subseteq datagrams' /\ \A c \in processed' : ~c.damaged
    BY <1>1 DEF WireInv, OnTheWay
  <2> QED
    BY <1>1, <2>1 DEF WireInv, OnTheWay
<1>8. \A v : read \subseteq read' /\ IsRead(v) => IsRead(v)'
  BY DEF IsRead
<1>9. CASE ~IsCut(w)
  <2>1. PICK j \in 1 .. n : Carries(d, w, j)
    BY <1>2
  <2>2. slices' = slices /\ \E r : read' = read \cup {r} /\ Means(r, w)
    BY <1>3, <1>4, <1>9, <2>1, ReadAtOnce
  <2>3. PICK r : read' = read \cup {r} /\ Means(r, w)
    BY <2>2
  <2>4. read \subseteq read' /\ IsRead(w)'
    BY <1>1, <2>3 DEF IsRead
  <2>5. Assembled'
    <3>1. ASSUME NEW c \in processed', NEW j1 \in 1 .. PacketCount(written[c.of + 1]),
                 IsCut(written[c.of + 1]), Carries(c, written[c.of + 1], j1)
          PROVE  c.of \in DOMAIN slices /\ j1 - 1 \in DOMAIN slices[c.of]
      <4>1. c # d
        BY <1>9, <3>1
      <4>2. c \in processed
        BY <1>1, <4>1
      <4> QED
        BY <3>1, <4>2 DEF WireInv, Assembled
    <3> QED
      BY <1>1, <2>2, <3>1 DEF WireInv, Assembled
  <2>6. AllRead'
    <3>1. ASSUME NEW s \in read' PROVE \E i \in 1 .. Len(written) : Means(s, written[i])
      <4>1. CASE s \in read
        BY <4>1 DEF WireInv, AllRead
      <4>2. CASE s = r
        BY <1>3, <2>3, <4>2
      <4> QED
        BY <2>3, <4>1, <4>2
    <3>2. ASSUME NEW c \in processed', ~IsCut(written[c.of + 1]) PROVE IsRead(written[c.of + 1])'
      <4>1. CASE c \in processed
        <5>1. IsRead(written[c.of + 1])
          BY <3>2, <4>1 DEF WireInv, AllRead
        <5> QED
          BY <1>1, <2>4, <5>1 DEF IsRead
      <4>2. CASE c = d
        BY <2>4, <4>2
      <4> QED
        BY <1>1, <4>1, <4>2
    <3>3. ASSUME NEW i \in DOMAIN slices, DOMAIN slices[i] = 0 .. PacketCount(written[i + 1]) - 1
          PROVE  IsRead(written[i + 1])'
      <4>1. IsRead(written[i + 1])
        BY <3>3 DEF WireInv, AllRead
      <4> QED
        BY <1>1, <2>4, <4>1 DEF IsRead
    <3> QED
      BY <1>1, <2>2, <3>1, <3>2, <3>3 DEF AllRead
  <2> QED
    BY <1>6, <1>7, <2>5, <2>6 DEF WireInv
<1>10. CASE IsCut(w)
  <2> DEFINE m == w.content
             had == IF id \in DOMAIN slices THEN DOMAIN slices[id] ELSE {}
  <2>1. Posts(w) /\ m \in WireMessages /\ n = PieceCount(m)
    BY <1>4, <1>10, TypesDiffer DEF IsCut, Greets, Posts, PacketCount
  <2>2. ASSUME NEW j \in 1 .. n, Carries(d, w, j)
        PROVE  /\ DOMAIN slices' = DOMAIN slices \cup {id}
               /\ \A i \in DOMAIN slices : i # id => slices'[i] = slices[i]
               /\ DOMAIN slices'[id] = had \cup {j - 1}
               /\ slices'[id][j - 1] = PieceOf(m, j - 1)
               /\ \A k \in had : k # j - 1 => slices'[id][k] = slices[id][k]
               /\ IF Cardinality(DOMAIN slices'[id]) = n
                  THEN read' = read \cup {[header |-> PacketRead(d.bytes),
                                           content |-> DirectMessage(m.channel, Joined(slices'[id], n))]}
                  ELSE read' = read
    BY <1>3, <1>10, <2>1, <2>2, PieceTaken, Zenon
  <2>3. PICK j \in 1 .. n : Carries(d, w, j)
    BY <1>2
  <2>4. had \subseteq 0 .. n - 1 /\ \A k \in had : slices[id][k] = PieceOf(m, k)
    BY DEF WireInv, Assembled
  <2>5. DOMAIN slices' = DOMAIN slices \cup {id} /\ \A i \in DOMAIN slices : i # id => slices'[i] = slices[i]
    BY <2>2, <2>3
  <2>6. /\ DOMAIN slices'[id] = had \cup {j - 1}
        /\ slices'[id][j - 1] = PieceOf(m, j - 1)
        /\ \A k \in had : k # j - 1 => slices'[id][k] = slices[id][k]
    BY <2>2, <2>3
  <2>7. IF Cardinality(DOMAIN slices'[id]) = n
        THEN read' = read \cup {[header |-> PacketRead(d.bytes),
                                 content |-> DirectMessage(m.channel, Joined(slices'[id], n))]}
        ELSE read' = read
    BY <2>2, <2>3, Zenon
  <2>8. id \in DOMAIN slices => had = DOMAIN slices[id]
    OBVIOUS
  <2> HIDE DEF had
  <2>9. j - 1 \in 0 .. n - 1
    BY <1>5
  <2>10. DOMAIN slices'[id] \subseteq 0 .. n - 1 /\ \A k \in DOMAIN slices'[id] : slices'[id][k] = PieceOf(m, k)
    BY <2>4, <2>6, <2>9
  <2>11. Cardinality(DOMAIN slices'[id]) = n <=> DOMAIN slices'[id] = 0 .. n - 1
    BY <1>5, <2>10, AllThere
  <2>12. read \subseteq read'
    BY <2>7
  <2>13. ASSUME DOMAIN slices'[id] = 0 .. n - 1
         PROVE  \E r : read' = read \cup {r} /\ Means(r, w)
    <3> DEFINE r == [header |-> PacketRead(d.bytes), content |-> DirectMessage(m.channel, Joined(slices'[id], n))]
    <3>1. read' = read \cup {r}
      BY <2>7, <2>11, <2>13
    <3>2. /\ PacketRead(d.bytes).type = w.header.type /\ PacketRead(d.bytes).num \in NumbersOf(w)
          /\ PacketRead(d.bytes).ack = w.header.ack /\ PacketRead(d.bytes).bits = w.header.bits
      BY <1>3, <1>4, <2>3, PacketOpened
    <3> DEFINE parts == slices'[id]
    <3>3. \A i \in 0 .. PieceCount(m) - 1 : parts[i] = PieceOf(m, i)
      BY <2>1, <2>10, <2>13
    <3> HIDE DEF parts
    <3>4. Joined(parts, PieceCount(m)) = Inner(m)
      BY <2>1, <3>3, PiecesBack
    <3>5. DirectMessage(m.channel, Joined(parts, n)) = ReadOf(m)
      BY <2>1, <3>4, InnerBack
    <3>6. r.header = PacketRead(d.bytes) /\ r.content = ReadOf(m)
      BY <3>5 DEF parts
    <3> HIDE DEF r
    <3>7. w.header.type # HandshakeType
      BY <2>1, TypesDiffer DEF Posts
    <3>8. Means(r, w)
      BY <3>2, <3>6, <3>7 DEF Means, ReadOf
    <3> QED
      BY <3>1, <3>8
  <2>14. ASSUME NEW s \in read' PROVE s \in read \/ Means(s, w)
    <3>1. CASE DOMAIN slices'[id] = 0 .. n - 1
      BY <2>13, <3>1
    <3>2. CASE DOMAIN slices'[id] # 0 .. n - 1
      BY <2>7, <2>11, <3>2
    <3> QED
      BY <3>1, <3>2
  <2>15. Assembled'
    <3>1. ASSUME NEW i \in DOMAIN slices'
          PROVE  /\ i \in 0 .. Len(written) - 1 /\ IsCut(written[i + 1])
                 /\ DOMAIN slices'[i] \subseteq 0 .. PacketCount(written[i + 1]) - 1
                 /\ \A k \in DOMAIN slices'[i] : slices'[i][k] = PieceOf(written[i + 1].content, k)
      <4>1. CASE i = id
        BY <1>2, <1>10, <2>10, <4>1
      <4>2. CASE i # id
        <5>1. i \in DOMAIN slices /\ slices'[i] = slices[i]
          BY <2>5, <4>2
        <5> QED
          BY <5>1 DEF WireInv, Assembled
      <4> QED
        BY <4>1, <4>2
    <3>2. ASSUME NEW c \in processed', NEW j1 \in 1 .. PacketCount(written[c.of + 1]),
                 IsCut(written[c.of + 1]), Carries(c, written[c.of + 1], j1)
          PROVE  c.of \in DOMAIN slices' /\ j1 - 1 \in DOMAIN slices'[c.of]
      <4>1. CASE c = d
        <5>1. j1 \in 1 .. n /\ Carries(d, w, j1)
          BY <3>2, <4>1
        <5>2. DOMAIN slices' = DOMAIN slices \cup {id} /\ DOMAIN slices'[id] = had \cup {j1 - 1}
          BY <2>2, <5>1 DEF had
        <5> QED
          BY <4>1, <5>2
      <4>2. CASE c \in processed
        <5>1. c.of \in DOMAIN slices /\ j1 - 1 \in DOMAIN slices[c.of]
          BY <3>2, <4>2 DEF WireInv, Assembled
        <5> QED
          BY <2>5, <2>6, <2>8, <5>1
      <4> QED
        BY <1>1, <4>1, <4>2
    <3> QED
      BY <1>1, <3>1, <3>2 DEF Assembled
  <2>16. AllRead'
    <3>1. ASSUME NEW s \in read' PROVE \E i \in 1 .. Len(written) : Means(s, written[i])
      <4>1. CASE s \in read
        BY <4>1 DEF WireInv, AllRead
      <4>2. CASE Means(s, w)
        BY <1>3, <4>2
      <4> QED
        BY <2>14, <4>1, <4>2
    <3>2. ASSUME NEW c \in processed', ~IsCut(written[c.of + 1]) PROVE IsRead(written[c.of + 1])'
      <4>1. c # d
        BY <1>10, <3>2
      <4>2. c \in processed
        BY <1>1, <4>1
      <4>3. IsRead(written[c.of + 1])
        BY <3>2, <4>2 DEF WireInv, AllRead
      <4> QED
        BY <1>1, <2>12, <4>3 DEF IsRead
    <3>3. ASSUME NEW i \in DOMAIN slices', DOMAIN slices'[i] = 0 .. PacketCount(written[i + 1]) - 1
          PROVE  IsRead(written[i + 1])'
      <4>1. CASE i = id
        <5>1. \E r \in read' : Means(r, w)
          BY <2>13, <3>3, <4>1
        <5> QED
          BY <1>1, <4>1, <5>1 DEF IsRead
      <4>2. CASE i # id
        <5>1. i \in DOMAIN slices /\ slices'[i] = slices[i]
          BY <2>5, <4>2
        <5>2. IsRead(written[i + 1])
          BY <3>3, <5>1 DEF WireInv, AllRead
        <5> QED
          BY <1>1, <2>12, <5>2 DEF IsRead
      <4> QED
        BY <4>1, <4>2
    <3> QED
      BY <1>1, <3>1, <3>2, <3>3 DEF AllRead
  <2> QED
    BY <1>6, <1>7, <2>15, <2>16 DEF WireInv
<1> QED
  BY <1>9, <1>10

LEMMA WireStep == IdsLast /\ WireInv /\ [WireNext]_wireVars => WireInv'
<1> SUFFICES ASSUME IdsLast, WireInv, [WireNext]_wireVars PROVE WireInv'
  OBVIOUS
<1>1. ASSUME NEW m \in WireMessages, NEW hd \in WireHeaders, SendPayload(m, hd) PROVE WireInv'
  BY <1>1, SendPayloadKeeps
<1>2. ASSUME NEW salt \in WireSalts, SendHandshake(salt) PROVE WireInv'
  BY <1>2, SendHandshakeKeeps
<1>3. ASSUME NEW d \in datagrams, Damage(d) PROVE WireInv'
  BY <1>3, DamageKeeps
<1>4. ASSUME NEW d \in datagrams, ProcessOnePacket(d) PROVE WireInv'
  BY <1>4, ProcessKeeps
<1>5. CASE UNCHANGED wireVars
  <2>1. /\ written' = written /\ datagrams' = datagrams /\ processed' = processed
        /\ slices' = slices /\ read' = read
    BY <1>5 DEF wireVars
  <2>2. AllWritten'
    BY <2>1 DEF WireInv, AllWritten
  <2>3. OnTheWay'
    BY <2>1 DEF WireInv, OnTheWay
  <2>4. Assembled'
    BY <2>1 DEF WireInv, Assembled
  <2>5. AllRead'
    BY <2>1 DEF WireInv, AllRead, IsRead
  <2> QED
    BY <2>2, <2>3, <2>4, <2>5 DEF WireInv
<1> QED
  BY <1>1, <1>2, <1>3, <1>4, <1>5 DEF WireNext

\* In whatever order packets arrive and whichever are damaged, the receiver understands
\* only what was written, and all of it once its packets are there (NovaNet/Peer.hs and
\* Peer/Protocol.hs with nn_packet.c), as long as message identifiers do not come round.
THEOREM MessagesRead == IdsLast => (WireSpec => []ReadIsWritten)
<1> SUFFICES ASSUME IdsLast PROVE WireSpec => []ReadIsWritten
  OBVIOUS
<1>1. WireInit => WireInv
  BY WireStart
<1>2. WireInv /\ [WireNext]_wireVars => WireInv'
  BY WireStep
<1>3. WireInv => ReadIsWritten
  BY ReadWhatIsWritten
<1> QED
  BY <1>1, <1>2, <1>3, PTL DEF WireSpec
-----------------------------------------------------------------------------
(* From a residue to a tag: the bits of a number. *)

\* The first powers of two.
Doubles(f, k) == f = [j \in 0 .. k |-> IF j = 0 THEN 1 ELSE 2 * f[j - 1]]

LEMMA DoublesExist ==
    ASSUME NEW i \in Nat
    PROVE  \E f : Doubles(f, i)
<1> DEFINE G == {k \in Nat : \E f : Doubles(f, k)}
<1>1. 0 \in G
  <2> DEFINE f == [j \in 0 .. 0 |-> 1]
  <2>1. f = [j \in 0 .. 0 |-> IF j = 0 THEN 1 ELSE 2 * f[j - 1]]
    OBVIOUS
  <2> QED
    BY <2>1 DEF Doubles
<1>2. ASSUME NEW k \in Nat, k \in G PROVE k + 1 \in G
  <2>1. PICK f : Doubles(f, k)
    BY <1>2
  <2> DEFINE last == 2 * f[k]
             g == [j \in 0 .. k + 1 |-> IF j = k + 1 THEN last ELSE f[j]]
  <2>2. ASSUME NEW j \in 0 .. k + 1
        PROVE  g[j] = IF j = 0 THEN 1 ELSE 2 * g[j - 1]
    <3>1. \A m \in 0 .. k : g[m] = f[m] /\ f[m] = IF m = 0 THEN 1 ELSE 2 * f[m - 1]
      BY <2>1 DEF Doubles
    <3>2. g[k + 1] = 2 * f[k] /\ k \in 0 .. k
      OBVIOUS
    <3> HIDE DEF g, last
    <3>3. CASE j = k + 1
      BY <3>1, <3>2, <3>3
    <3>4. CASE j # k + 1
      <4>1. j \in 0 .. k /\ (j # 0 => j - 1 \in 0 .. k)
        BY <3>4
      <4> QED
        BY <3>1, <4>1
    <3> QED
      BY <3>3, <3>4
  <2>3. g = [j \in 0 .. k + 1 |-> IF j = 0 THEN 1 ELSE 2 * g[j - 1]]
    <3>1. DOMAIN g = 0 .. k + 1 /\ g = [j \in 0 .. k + 1 |-> g[j]]
      OBVIOUS
    <3> HIDE DEF g
    <3> QED
      BY <2>2, <3>1, Zenon
  <2> HIDE DEF g
  <2>4. Doubles(g, k + 1)
    BY <2>3, Zenon DEF Doubles
  <2>5. k + 1 \in Nat
    OBVIOUS
  <2> QED
    BY <2>4, <2>5
<1>3. Nat \subseteq G
  <2> HIDE DEF G
  <2> QED
    BY <1>1, <1>2, Everywhere
<1> QED
  BY <1>3

LEMMA DoublesAgree ==
    ASSUME NEW m \in Nat, NEW l \in Nat, NEW f, NEW g, Doubles(f, m), Doubles(g, l)
    PROVE  \A k \in Nat : k <= m /\ k <= l => f[k] = g[k]
<1> DEFINE G == {k \in Nat : k <= m /\ k <= l => f[k] = g[k]}
<1>1. /\ \A i \in 0 .. m : f[i] = IF i = 0 THEN 1 ELSE 2 * f[i - 1]
      /\ \A i \in 0 .. l : g[i] = IF i = 0 THEN 1 ELSE 2 * g[i - 1]
  BY DEF Doubles
<1>2. 0 \in G
  BY <1>1
<1>3. ASSUME NEW k \in Nat, k \in G PROVE k + 1 \in G
  <2> SUFFICES ASSUME k + 1 <= m, k + 1 <= l PROVE f[k + 1] = g[k + 1]
    OBVIOUS
  <2>1. k + 1 \in 0 .. m /\ k + 1 \in 0 .. l /\ k + 1 # 0 /\ (k + 1) - 1 = k /\ k <= m /\ k <= l
    OBVIOUS
  <2>2. f[k] = g[k]
    BY <1>3, <2>1
  <2> QED
    BY <1>1, <2>1, <2>2
<1>4. Nat \subseteq G
  <2> HIDE DEF G
  <2> QED
    BY <1>2, <1>3, Everywhere
<1> QED
  BY <1>4

LEMMA PowerDoubles ==
    ASSUME NEW i \in Nat
    PROVE  \E f : Doubles(f, i) /\ PowerOf2(i) = f[i]
<1> DEFINE f == CHOOSE g : Doubles(g, i)
<1>1. Doubles(f, i)
  BY DoublesExist
<1>2. PowerOf2(i) = f[i]
  BY DEF PowerOf2, Doubles
<1> QED
  BY <1>1, <1>2

LEMMA PowerMore ==
    ASSUME NEW i \in Nat
    PROVE  PowerOf2(0) = 1 /\ PowerOf2(i + 1) = 2 * PowerOf2(i)
<1>1. PowerOf2(0) = 1
  <2>1. PICK f : Doubles(f, 0) /\ PowerOf2(0) = f[0]
    BY PowerDoubles
  <2> QED
    BY <2>1 DEF Doubles
<1>2. PowerOf2(i + 1) = 2 * PowerOf2(i)
  <2>1. PICK f : Doubles(f, i) /\ PowerOf2(i) = f[i]
    BY PowerDoubles
  <2>2. i + 1 \in Nat
    OBVIOUS
  <2>3. PICK g : Doubles(g, i + 1) /\ PowerOf2(i + 1) = g[i + 1]
    BY <2>2, PowerDoubles
  <2>4. f[i] = g[i]
    BY <2>1, <2>2, <2>3, DoublesAgree
  <2>5. i + 1 \in 0 .. i + 1 /\ i + 1 # 0 /\ (i + 1) - 1 = i
    OBVIOUS
  <2>6. g[i + 1] = 2 * g[(i + 1) - 1]
    BY <2>3, <2>5 DEF Doubles
  <2> QED
    BY <2>1, <2>3, <2>4, <2>5, <2>6
<1> QED
  BY <1>1, <1>2

\* They count, and multiply by adding what they are powers with.
LEMMA PowerNat == \A k \in Nat : PowerOf2(k) \in Nat \ {0}
<1> DEFINE G == {k \in Nat : PowerOf2(k) \in Nat \ {0}}
<1>1. 0 \in G
  <2>1. PowerOf2(0) = 1
    BY PowerMore
  <2> QED
    BY <2>1
<1>2. ASSUME NEW k \in Nat, k \in G PROVE k + 1 \in G
  <2> DEFINE x == PowerOf2(k)
  <2>1. x \in Nat \ {0}
    BY <1>2
  <2>2. PowerOf2(k + 1) = 2 * x
    BY PowerMore
  <2> HIDE DEF x
  <2>3. 2 * x \in Nat \ {0}
    BY <2>1
  <2> QED
    BY <2>2, <2>3
<1>3. Nat \subseteq G
  <2> HIDE DEF G
  <2> QED
    BY <1>1, <1>2, Everywhere
<1> QED
  BY <1>3

LEMMA PowerSum ==
    ASSUME NEW i \in Nat
    PROVE  \A j \in Nat : PowerOf2(i + j) = PowerOf2(i) * PowerOf2(j)
<1> DEFINE x == PowerOf2(i)
           G == {j \in Nat : PowerOf2(i + j) = x * PowerOf2(j)}
<1>0. x \in Nat
  BY PowerNat
<1>1. 0 \in G
  <2>1. PowerOf2(0) = 1 /\ i + 0 = i
    BY PowerMore
  <2>2. x * 1 = x
    BY <1>0
  <2> QED
    BY <2>1, <2>2
<1>2. ASSUME NEW j \in Nat, j \in G PROVE j + 1 \in G
  <2> DEFINE y == PowerOf2(j)
  <2>1. i + (j + 1) = (i + j) + 1 /\ i + j \in Nat
    OBVIOUS
  <2>2. PowerOf2((i + j) + 1) = 2 * PowerOf2(i + j)
    BY <2>1, PowerMore
  <2>3. PowerOf2(j + 1) = 2 * y /\ y \in Nat
    BY PowerMore, PowerNat
  <2>4. PowerOf2(i + j) = x * y
    BY <1>2
  <2> HIDE DEF x, y
  <2>5. \A a, b \in Nat : 2 * (a * b) = a * (2 * b)
    BY Z3
  <2>6. PowerOf2(i + (j + 1)) = x * PowerOf2(j + 1)
    BY <1>0, <2>1, <2>2, <2>3, <2>4, <2>5
  <2> QED
    BY <2>6
<1>3. Nat \subseteq G
  <2> HIDE DEF G
  <2> QED
    BY <1>1, <1>2, Everywhere
<1> QED
  BY <1>3

\* What is above the first k bits moves down as a whole.
LEMMA ShiftedSum ==
    ASSUME NEW x \in Nat
    PROVE  \A k \in Nat : \A z \in Nat : Shifted(x + PowerOf2(k) * z, 2, k) = Shifted(x, 2, k) + z
<1> DEFINE G == {k \in Nat : \A z \in Nat : Shifted(x + PowerOf2(k) * z, 2, k) = Shifted(x, 2, k) + z}
<1>1. 0 \in G
  <2>1. ASSUME NEW z \in Nat PROVE Shifted(x + PowerOf2(0) * z, 2, 0) = Shifted(x, 2, 0) + z
    <3>1. PowerOf2(0) = 1 /\ Shifted(x, 2, 0) = x /\ Shifted(x + 1 * z, 2, 0) = x + 1 * z
      BY PowerMore, ShiftedMore
    <3> QED
      BY <3>1
  <2> QED
    BY <2>1
<1>2. ASSUME NEW k \in Nat, k \in G PROVE k + 1 \in G
  <2>1. ASSUME NEW z \in Nat PROVE Shifted(x + PowerOf2(k + 1) * z, 2, k + 1) = Shifted(x, 2, k + 1) + z
    <3> DEFINE p == PowerOf2(k)  a == Shifted(x, 2, k)
    <3>1. p \in Nat /\ a \in Nat /\ PowerOf2(k + 1) = 2 * p /\ Shifted(x, 2, k + 1) = a \div 2
      BY PowerNat, PowerMore, ShiftedNat, ShiftedMore
    <3>2. Shifted(x + p * (2 * z), 2, k) = a + 2 * z
      BY <1>2
    <3>3. Shifted(x + p * (2 * z), 2, k + 1) = Shifted(x + p * (2 * z), 2, k) \div 2
      BY ShiftedMore
    <3> HIDE DEF p, a
    <3>4. \A b, c \in Nat : (2 * b) * c = b * (2 * c)
      BY Z3
    <3>5. (2 * p) * z = p * (2 * z)
      BY <3>1, <3>4
    <3>6. (a + 2 * z) \div 2 = (a \div 2) + z
      BY <3>1
    <3> QED
      BY <3>1, <3>2, <3>3, <3>5, <3>6
  <2> QED
    BY <2>1
<1>3. Nat \subseteq G
  <2> HIDE DEF G
  <2> QED
    BY <1>1, <1>2, Everywhere
<1> QED
  BY <1>3

\* Below the k-th power of two there is nothing beyond k bits.
LEMMA BitsWorth == \A k \in Nat : Worth(2, PowerOf2(k), k)
<1> DEFINE G == {k \in Nat : Worth(2, PowerOf2(k), k)}
<1>1. 0 \in G
  <2>1. ASSUME NEW c \in Nat \ {0}, NEW n \in 0 .. 1 * c - 1 PROVE Shifted(n, 2, 0) \in 0 .. c - 1
    <3>1. Shifted(n, 2, 0) = n
      BY ShiftedMore
    <3> QED
      BY <3>1
  <2>2. PowerOf2(0) = 1
    BY PowerMore
  <2> QED
    BY <2>1, <2>2 DEF Worth
<1>2. ASSUME NEW k \in Nat, k \in G PROVE k + 1 \in G
  <2> DEFINE x == PowerOf2(k)
  <2>1. x \in Nat \ {0} /\ PowerOf2(k + 1) = 2 * x
    BY PowerNat, PowerMore
  <2>2. Worth(2, x, k)
    BY <1>2
  <2> HIDE DEF x
  <2>3. Worth(2, 2, 1)
    BY OneDigit
  <2>4. Worth(2, x * 2, k + 1)
    BY <2>1, <2>2, <2>3, MoreDigits
  <2>5. x * 2 = 2 * x
    BY <2>1
  <2> QED
    BY <2>1, <2>4, <2>5
<1>3. Nat \subseteq G
  <2> HIDE DEF G
  <2> QED
    BY <1>1, <1>2, Everywhere
<1> QED
  BY <1>3

LEMMA ShiftedSmall ==
    ASSUME NEW k \in Nat, NEW x \in 0 .. PowerOf2(k) - 1
    PROVE  Shifted(x, 2, k) = 0
<1> DEFINE p == PowerOf2(k)
<1>1. p \in Nat /\ Worth(2, p, k)
  BY PowerNat, BitsWorth
<1>2. x \in 0 .. p - 1
  OBVIOUS
<1> HIDE DEF p
<1>3. x \in 0 .. p * 1 - 1
  BY <1>1, <1>2
<1>4. Shifted(x, 2, k) \in 0 .. 1 - 1
  BY <1>1, <1>3 DEF Worth
<1> QED
  BY <1>4

\* The first k bits do not depend on what is above them.
LEMMA LowBit ==
    ASSUME NEW x \in Nat, NEW z \in Nat, NEW k \in Nat, NEW b \in 0 .. k - 1
    PROVE  Shifted(x + PowerOf2(k) * z, 2, b) % 2 = Shifted(x, 2, b) % 2
<1> DEFINE m == k - (b + 1)  p == PowerOf2(b)  q == PowerOf2(m)  w == q * z  a == Shifted(x, 2, b)
<1>1. m \in Nat /\ b \in Nat /\ k = b + (m + 1) /\ m + 1 \in Nat
  OBVIOUS
<1> HIDE DEF m
<1>2. p \in Nat /\ q \in Nat /\ a \in Nat
  <2>1. p \in Nat
    BY <1>1, PowerNat
  <2>2. q \in Nat
    BY <1>1, PowerNat
  <2>3. 2 \in Nat \ {0}
    OBVIOUS
  <2>4. a \in Nat
    BY <1>1, <2>3, ShiftedNat
  <2> QED
    BY <2>1, <2>2, <2>4
<1>3. PowerOf2(b + (m + 1)) = p * PowerOf2(m + 1) /\ PowerOf2(m + 1) = 2 * q
  BY <1>1, PowerSum, PowerMore
<1>4. PowerOf2(k) = p * (2 * q)
  BY <1>1, <1>3
<1> HIDE DEF p, q
<1>5. \A c, d, e \in Nat : (c * (2 * d)) * e = c * (2 * (d * e)) /\ d * e \in Nat
  BY Z3
<1>6. w \in Nat /\ (p * (2 * q)) * z = p * (2 * w)
  BY <1>2, <1>5
<1> HIDE DEF w
<1>7. 2 * w \in Nat
  BY <1>6
<1>8. Shifted(x + p * (2 * w), 2, b) = a + 2 * w
  BY <1>1, <1>7, ShiftedSum DEF p
<1> HIDE DEF a
<1>9. (a + 2 * w) % 2 = a % 2
  BY <1>2, <1>6
<1>10. Shifted(x + PowerOf2(k) * z, 2, b) = a + 2 * w
  BY <1>4, <1>6, <1>8
<1> QED
  BY <1>9, <1>10 DEF a

\* The first k bits of a number, put together, are what is left of it modulo a power of two.
LEMMA BitsBelow ==
    ASSUME NEW n \in Nat, NEW k \in Nat, NEW ds, Len(ds) = k,
           \A i \in 1 .. k : ds[i] = Shifted(n, 2, k - i) % 2
    PROVE  FromDigits(ds, 2) = n % PowerOf2(k)
<1> DEFINE p == PowerOf2(k)  x == n % p  z == n \div p
<1>1. p \in Nat \ {0}
  BY PowerNat
<1>2. \A a \in Nat, b \in Nat \ {0} : a % b \in 0 .. b - 1 /\ a \div b \in Nat /\ a = (a % b) + b * (a \div b)
  BY Z3
<1> HIDE DEF p
<1>3. x \in 0 .. p - 1 /\ z \in Nat /\ n = x + p * z
  BY <1>1, <1>2
<1> HIDE DEF x, z
<1>4. x \in Nat
  BY <1>3
<1>5. Shifted(x, 2, k) = 0
  BY <1>3, ShiftedSmall DEF p
<1>6. ASSUME NEW i \in 1 .. k PROVE ds[i] = Shifted(x, 2, k - i) % 2
  <2> DEFINE b == k - i
  <2>1. b \in 0 .. k - 1
    OBVIOUS
  <2>2. ds[i] = Shifted(n, 2, b) % 2
    OBVIOUS
  <2> HIDE DEF b
  <2>3. Shifted(x + PowerOf2(k) * z, 2, b) % 2 = Shifted(x, 2, b) % 2
    BY <1>3, <1>4, <2>1, LowBit
  <2> QED
    BY <1>3, <2>2, <2>3 DEF p, b
<1>7. FromDigits(ds, 2) = x
  BY <1>4, <1>5, <1>6, DigitsBack
<1> QED
  BY <1>7 DEF x, p

-----------------------------------------------------------------------------
(* The limbs in words. *)

\* The size of a limb and of a block in bits
LEMMA LimbSizes ==
    /\ LimbBits \in Nat /\ LimbBits >= 2 /\ Base = PowerOf2(LimbBits)
    /\ Block = PowerOf2(5 * LimbBits - 2)
<1> DEFINE L == LimbBits
<1>1. L \in Nat /\ Base = PowerOf2(L) /\ Base >= 32 /\ Base \in Nat /\ Hibit \in Nat /\ Base = 4 * Hibit
  BY MacAssumption, Sizes
<1>2. PowerOf2(0) = 1 /\ PowerOf2(1) = 2 /\ PowerOf2(2) = 4
  <2>1. PowerOf2(0) = 1 /\ PowerOf2(0 + 1) = 2 * PowerOf2(0) /\ PowerOf2(1 + 1) = 2 * PowerOf2(1)
    BY PowerMore
  <2> QED
    BY <2>1
<1>3. L >= 2
  <2> HIDE DEF L
  <2>1. L # 0
    <3>1. ASSUME L = 0 PROVE PowerOf2(L) = 1
      BY <1>2, <3>1, Zenon
    <3> QED
      BY ONLY <1>1, <3>1
  <2>2. L # 1
    <3>1. ASSUME L = 1 PROVE PowerOf2(L) = 2
      BY <1>2, <3>1, Zenon
    <3> QED
      BY ONLY <1>1, <3>1
  <2> QED
    BY <1>1, <2>1, <2>2
<1> HIDE DEF L
<1> DEFINE m == L - 2
<1>4. m \in Nat /\ L = 2 + m
  BY <1>1, <1>3
<1> HIDE DEF m
<1>5. Base = 4 * PowerOf2(m) /\ PowerOf2(m) \in Nat
  <2>1. PowerOf2(2 + m) = PowerOf2(2) * PowerOf2(m) /\ PowerOf2(m) \in Nat
    BY <1>4, PowerSum, PowerNat
  <2> QED
    BY <1>1, <1>2, <1>4, <2>1
<1>6. Hibit = PowerOf2(m)
  BY <1>1, <1>5
<1>7. \A j \in Nat : PowerOf2(L + j) = Base * PowerOf2(j)
  BY <1>1, PowerSum
<1>8. L + m \in Nat /\ L + (L + m) \in Nat /\ L + (L + (L + m)) \in Nat /\ L + (L + (L + (L + m))) = 5 * L - 2
  BY <1>1, <1>4
<1>9. PowerOf2(5 * L - 2) = Base * (Base * (Base * (Base * Hibit)))
  BY <1>4, <1>6, <1>7, <1>8
<1>10. Block = Base * (Base * (Base * (Base * Hibit)))
  <2>1. \A a \in Nat : 0 + Base * a = Base * a /\ Base * a \in Nat
    <3>1. \A a, b \in Nat : a * b \in Nat
      BY Z3
    <3> QED
      BY <1>1, <3>1
  <2>2. Block = 0 + Base * (0 + Base * (0 + Base * (0 + Base * Hibit)))
    BY DEF Block, Horner
  <2> QED
    BY <1>1, <2>1, <2>2
<1> QED
  BY <1>1, <1>3, <1>9, <1>10 DEF L

\* What is left of five limbs when the lower ones are taken away.
LimbsAbove(x, i) ==
    IF i = 0 THEN Value(x)
    ELSE IF i = 1 THEN x[1] + Base * (x[2] + Base * (x[3] + Base * x[4]))
    ELSE IF i = 2 THEN x[2] + Base * (x[3] + Base * x[4])
    ELSE IF i = 3 THEN x[3] + Base * x[4]
    ELSE IF i = 4 THEN x[4] ELSE 0

LEMMA LimbsAboveIs ==
    ASSUME NEW x \in [Limbs -> 0 .. Base - 1]
    PROVE  \A i \in Limbs : /\ x[i] \in 0 .. Base - 1 /\ LimbsAbove(x, i) \in Nat /\ LimbsAbove(x, i + 1) \in Nat
                            /\ LimbsAbove(x, i) = x[i] + Base * LimbsAbove(x, i + 1)
<1>1. /\ x[0] \in 0 .. Base - 1 /\ x[1] \in 0 .. Base - 1 /\ x[2] \in 0 .. Base - 1
      /\ x[3] \in 0 .. Base - 1 /\ x[4] \in 0 .. Base - 1
  BY DEF Limbs
<1>2. Base \in Nat
  BY Sizes
<1>3. \A a, b \in Nat : a + Base * b \in Nat
  <2>1. \A a, b \in Nat : a * b \in Nat
    BY Z3
  <2> QED
    BY <1>2, <2>1
<1>4. LimbsAbove(x, 5) = 0 /\ LimbsAbove(x, 4) = x[4]
  BY DEF LimbsAbove
<1>5. /\ LimbsAbove(x, 3) = x[3] + Base * LimbsAbove(x, 4) /\ LimbsAbove(x, 2) = x[2] + Base * LimbsAbove(x, 3)
      /\ LimbsAbove(x, 1) = x[1] + Base * LimbsAbove(x, 2) /\ LimbsAbove(x, 0) = x[0] + Base * LimbsAbove(x, 1)
  <2>1. LimbsAbove(x, 3) = x[3] + Base * x[4]
    BY DEF LimbsAbove
  <2>2. LimbsAbove(x, 2) = x[2] + Base * (x[3] + Base * x[4])
    BY DEF LimbsAbove
  <2>3. LimbsAbove(x, 1) = x[1] + Base * (x[2] + Base * (x[3] + Base * x[4]))
    BY DEF LimbsAbove
  <2>4. LimbsAbove(x, 0) = Value(x)
    BY DEF LimbsAbove
  <2>5. Value(x) = x[0] + Base * (x[1] + Base * (x[2] + Base * (x[3] + Base * x[4])))
    BY Zenon DEF Value, Horner
  <2> QED
    BY <1>4, <2>1, <2>2, <2>3, <2>4, <2>5, Zenon
<1>6. x[4] = x[4] + Base * 0
  BY <1>1, <1>2
<1>7. /\ LimbsAbove(x, 4) \in Nat /\ x[0] \in Nat /\ x[1] \in Nat /\ x[2] \in Nat /\ x[3] \in Nat
  BY <1>1, <1>2, <1>4
<1>8. LimbsAbove(x, 3) \in Nat
  BY <1>3, <1>5, <1>7
<1>9. LimbsAbove(x, 2) \in Nat
  BY <1>3, <1>5, <1>7, <1>8
<1>10. LimbsAbove(x, 1) \in Nat
  BY <1>3, <1>5, <1>7, <1>9
<1>11. LimbsAbove(x, 0) \in Nat
  BY <1>3, <1>5, <1>7, <1>10
<1> SUFFICES ASSUME NEW i \in Limbs
             PROVE  /\ x[i] \in 0 .. Base - 1 /\ LimbsAbove(x, i) \in Nat /\ LimbsAbove(x, i + 1) \in Nat
                    /\ LimbsAbove(x, i) = x[i] + Base * LimbsAbove(x, i + 1)
  OBVIOUS
<1>12. CASE i = 0
  BY <1>1, <1>5, <1>10, <1>11, <1>12
<1>13. CASE i = 1
  BY <1>1, <1>5, <1>9, <1>10, <1>13
<1>14. CASE i = 2
  BY <1>1, <1>5, <1>8, <1>9, <1>14
<1>15. CASE i = 3
  BY <1>1, <1>5, <1>7, <1>8, <1>15
<1>16. CASE i = 4
  BY <1>1, <1>4, <1>6, <1>7, <1>16
<1> QED
  BY <1>12, <1>13, <1>14, <1>15, <1>16 DEF Limbs

LEMMA LimbsAway ==
    ASSUME NEW x \in [Limbs -> 0 .. Base - 1]
    PROVE  \A i \in Limbs : Shifted(Value(x), 2, LimbBits * i) = LimbsAbove(x, i)
<1> DEFINE L == LimbBits  v == Value(x)
<1>1. L \in Nat /\ Base = PowerOf2(L)
  BY LimbSizes
<1>2. ASSUME NEW i \in Limbs PROVE Shifted(LimbsAbove(x, i), 2, L) = LimbsAbove(x, i + 1)
  <2>1. x[i] \in 0 .. Base - 1 /\ LimbsAbove(x, i + 1) \in Nat /\ LimbsAbove(x, i) = x[i] + Base * LimbsAbove(x, i + 1)
    BY LimbsAboveIs
  <2>2. x[i] \in Nat
    BY <2>1
  <2>3. Shifted(x[i] + PowerOf2(L) * LimbsAbove(x, i + 1), 2, L) = Shifted(x[i], 2, L) + LimbsAbove(x, i + 1)
    BY <1>1, <2>1, <2>2, ShiftedSum
  <2>4. Shifted(x[i], 2, L) = 0
    BY <1>1, <2>1, ShiftedSmall
  <2> QED
    BY <1>1, <2>1, <2>3, <2>4
<1> HIDE DEF L, v
<1>3. ASSUME NEW i \in 0 .. 3, Shifted(v, 2, L * i) = LimbsAbove(x, i) PROVE Shifted(v, 2, L * (i + 1)) = LimbsAbove(x, i + 1)
  <2>1. L * i \in Nat /\ L * (i + 1) = L * i + L
    BY <1>1
  <2>2. Shifted(v, 2, L * i + L) = Shifted(Shifted(v, 2, L * i), 2, L)
    <3> DEFINE k == L * i
    <3>1. k \in Nat
      BY <2>1
    <3> HIDE DEF k
    <3>2. Shifted(v, 2, k + L) = Shifted(Shifted(v, 2, k), 2, L)
      BY <1>1, <3>1, ShiftedTwice
    <3> QED
      BY <3>2, Zenon DEF k
  <2>3. i \in Limbs
    BY DEF Limbs
  <2> QED
    BY <1>2, <1>3, <2>1, <2>2, <2>3
<1>4. Shifted(v, 2, L * 0) = LimbsAbove(x, 0)
  <2>1. L * 0 = 0 /\ Shifted(v, 2, 0) = v
    BY <1>1, ShiftedMore
  <2> QED
    BY <2>1 DEF LimbsAbove, v
<1>5. Shifted(v, 2, L * 1) = LimbsAbove(x, 1)
  <2>1. 0 \in 0 .. 3 /\ 0 + 1 = 1
    OBVIOUS
  <2> QED
    BY <1>3, <1>4, <2>1, Zenon
<1>6. Shifted(v, 2, L * 2) = LimbsAbove(x, 2)
  <2>1. 1 \in 0 .. 3 /\ 1 + 1 = 2
    OBVIOUS
  <2> QED
    BY <1>3, <1>5, <2>1, Zenon
<1>7. Shifted(v, 2, L * 3) = LimbsAbove(x, 3)
  <2>1. 2 \in 0 .. 3 /\ 2 + 1 = 3
    OBVIOUS
  <2> QED
    BY <1>3, <1>6, <2>1, Zenon
<1>8. Shifted(v, 2, L * 4) = LimbsAbove(x, 4)
  <2>1. 3 \in 0 .. 3 /\ 3 + 1 = 4
    OBVIOUS
  <2> QED
    BY <1>3, <1>7, <2>1, Zenon
<1>9. \A i \in Limbs : i = 0 \/ i = 1 \/ i = 2 \/ i = 3 \/ i = 4
  BY DEF Limbs
<1> QED
  BY <1>4, <1>5, <1>6, <1>7, <1>8, <1>9, Zenon DEF L, v

\* A bit of the value is a bit of one limb.
LEMMA BitOfLimb ==
    ASSUME NEW x \in [Limbs -> 0 .. Base - 1], NEW i \in Limbs, NEW b \in 0 .. LimbBits - 1
    PROVE  Shifted(Value(x), 2, LimbBits * i + b) % 2 = Shifted(x[i], 2, b) % 2
<1> DEFINE L == LimbBits
<1>1. L \in Nat /\ Base = PowerOf2(L) /\ b \in Nat /\ b \in 0 .. L - 1 /\ i \in Nat
  BY LimbSizes DEF Limbs
<1>2. L * i \in Nat
  <2>1. \A c, d \in Nat : c * d \in Nat
    BY Z3
  <2> HIDE DEF L
  <2> QED
    BY <1>1, <2>1
<1>3. Shifted(Value(x), 2, L * i + b) = Shifted(Shifted(Value(x), 2, L * i), 2, b)
  BY <1>1, <1>2, ShiftedTwice
<1>4. Shifted(Value(x), 2, L * i) = LimbsAbove(x, i)
  BY LimbsAway
<1>5. x[i] \in 0 .. Base - 1 /\ LimbsAbove(x, i + 1) \in Nat /\ LimbsAbove(x, i) = x[i] + Base * LimbsAbove(x, i + 1)
  BY LimbsAboveIs
<1>6. x[i] \in Nat
  BY <1>5
<1> HIDE DEF L
<1>7. Shifted(x[i] + PowerOf2(L) * LimbsAbove(x, i + 1), 2, b) % 2 = Shifted(x[i], 2, b) % 2
  BY <1>1, <1>5, <1>6, LowBit
<1> QED
  BY <1>1, <1>3, <1>4, <1>5, <1>7 DEF L

\* Put together with |, limbs that do not overlap have the bits of the value.
LEMMA OnesAre ==
    ASSUME NEW x \in [Limbs -> 0 .. Base - 1], NEW p \in 0 .. 5 * LimbBits - 1
    PROVE  (\E i \in Limbs : LimbBits * i <= p /\ Shifted(x[i], 2, p - LimbBits * i) % 2 = 1)
               <=> Shifted(Value(x), 2, p) % 2 = 1
<1> DEFINE L == LimbBits
<1>1. L \in Nat /\ L >= 2 /\ Base = PowerOf2(L) /\ p \in 0 .. 5 * L - 1
  BY LimbSizes
<1>2. \A i \in Limbs : L * i \in Nat /\ i \in Nat
  <2>1. \A c, d \in Nat : c * d \in Nat
    BY Z3
  <2>2. \A i \in Limbs : i \in Nat
    BY DEF Limbs
  <2> HIDE DEF L
  <2> QED
    BY <1>1, <2>1, <2>2
<1>3. ASSUME NEW i \in Limbs, L * i <= p, Shifted(x[i], 2, p - L * i) % 2 = 1
      PROVE  Shifted(Value(x), 2, p) % 2 = 1
  <2> DEFINE b == p - L * i
  <2>1. b \in Nat /\ L * i + b = p
    BY <1>1, <1>2, <1>3
  <2>2. b < L
    <3> SUFFICES ASSUME b >= L PROVE FALSE
      BY <1>1, <2>1
    <3> DEFINE c == b - L
    <3>1. c \in Nat /\ b = L + c
      BY <1>1, <2>1
    <3> HIDE DEF c
    <3>2. x[i] \in 0 .. Base - 1
      BY LimbsAboveIs
    <3>3. Shifted(x[i], 2, L) = 0
      BY <1>1, <3>2, ShiftedSmall
    <3>4. Shifted(x[i], 2, L + c) = Shifted(Shifted(x[i], 2, L), 2, c)
      BY <1>1, <3>1, ShiftedTwice
    <3>5. Shifted(0, 2, c) = 0
      <4>1. 0 \in 0 .. PowerOf2(c) - 1
        BY <3>1, PowerNat
      <4> QED
        BY <3>1, <4>1, ShiftedSmall
    <3>6. Shifted(x[i], 2, b) = 0
      BY <3>1, <3>3, <3>4, <3>5
    <3> QED
      BY <1>3, <3>6
  <2>3. b \in 0 .. L - 1
    BY <1>1, <2>1, <2>2
  <2>4. Shifted(x[i], 2, b) % 2 = 1
    BY <1>3
  <2> HIDE DEF b
  <2>5. Shifted(Value(x), 2, L * i + b) % 2 = Shifted(x[i], 2, b) % 2
    BY <2>3, BitOfLimb
  <2> QED
    BY <2>1, <2>4, <2>5
<1>4. ASSUME Shifted(Value(x), 2, p) % 2 = 1
      PROVE  \E i \in Limbs : L * i <= p /\ Shifted(x[i], 2, p - L * i) % 2 = 1
  <2>1. \A n \in Nat, d \in Nat \ {0} : n \div d \in Nat /\ n % d \in 0 .. d - 1 /\ n = d * (n \div d) + (n % d)
                                        /\ \A c \in Nat : n < d * c => n \div d < c
    BY Z3
  <2> DEFINE i == p \div L  b == p % L
  <2>2. p \in Nat /\ L \in Nat \ {0} /\ p < L * 5
    BY <1>1
  <2>3. i \in Nat /\ b \in 0 .. L - 1 /\ p = L * i + b /\ i < 5
    BY <2>1, <2>2
  <2> HIDE DEF i, b
  <2>4. i \in Limbs
    BY <2>3 DEF Limbs
  <2>5. L * i \in Nat
    BY <1>2, <2>4
  <2>6. L * i <= p /\ p - L * i = b
    <3> DEFINE c == L * i
    <3>1. c \in Nat /\ p = c + b
      BY <2>3, <2>5
    <3> HIDE DEF c
    <3> QED
      BY <1>1, <2>3, <3>1 DEF c
  <2>7. Shifted(Value(x), 2, L * i + b) % 2 = Shifted(x[i], 2, b) % 2
    BY <2>3, <2>4, BitOfLimb
  <2> QED
    BY <1>4, <2>3, <2>4, <2>6, <2>7
<1> QED
  BY <1>3, <1>4 DEF L

LEMMA PackedIs ==
    ASSUME NEW x \in [Limbs -> 0 .. Base - 1]
    PROVE  Packed(x) = Value(x) % Block
<1> DEFINE L == LimbBits  n == 5 * L - 2  v == Value(x)
           IsOne(p) == \E i \in Limbs : L * i <= p /\ Shifted(x[i], 2, p - L * i) % 2 = 1
           ds == [j \in 1 .. n |-> IF IsOne(n - j) THEN 1 ELSE 0]
<1>1. L \in Nat /\ L >= 2 /\ Block = PowerOf2(n)
  BY LimbSizes
<1>2. n \in Nat
  BY <1>1
<1>3. v \in Nat
  <2>1. x \in [Limbs -> Nat]
    BY Sizes
  <2> QED
    BY <2>1, ValueType
<1>4. Packed(x) = FromDigits(ds, 2)
  BY DEF Packed
<1>5. Len(ds) = n
  <2> HIDE DEF n
  <2> QED
    BY <1>2
<1>6. ASSUME NEW j \in 1 .. n PROVE ds[j] = Shifted(v, 2, n - j) % 2
  <2> DEFINE p == n - j
  <2>1. p \in 0 .. 5 * LimbBits - 1 /\ p \in Nat
    BY <1>1
  <2>2. ds[j] = IF IsOne(p) THEN 1 ELSE 0
    OBVIOUS
  <2> HIDE DEF p, ds
  <2>3. IsOne(p) <=> Shifted(v, 2, p) % 2 = 1
    BY <2>1, OnesAre
  <2> HIDE DEF IsOne, v
  <2>4. Shifted(v, 2, p) \in Nat
    <3>1. p \in Nat /\ v \in Nat /\ 2 \in Nat \ {0}
      BY <1>3, <2>1
    <3> QED
      BY ONLY <3>1, ShiftedNat
  <2>5. Shifted(v, 2, p) % 2 = 0 \/ Shifted(v, 2, p) % 2 = 1
    BY <2>4
  <2> QED
    BY <2>2, <2>3, <2>5 DEF p
<1> HIDE DEF ds, n, v
<1>7. FromDigits(ds, 2) = v % PowerOf2(n)
  BY <1>2, <1>3, <1>5, <1>6, BitsBelow
<1> QED
  BY <1>1, <1>4, <1>7 DEF v

\* A remainder and something more has the remainder of the sum.
LEMMA RestPlus ==
    ASSUME NEW a \in Nat, NEW b \in Nat, NEW m \in Nat \ {0}
    PROVE  ((a % m) + b) % m = (a + b) % m
<1>1. \A n \in Nat : n \div m \in Nat /\ n % m \in 0 .. m - 1 /\ n = m * (n \div m) + (n % m)
  BY Z3
<1> DEFINE r == a % m  q == a \div m  s == (r + b) % m  t == (r + b) \div m
           u == (a + b) % m  v == (a + b) \div m
<1>2. r \in Nat /\ q \in Nat /\ a = m * q + r
  BY <1>1
<1> HIDE DEF r, q
<1>3. r + b \in Nat /\ a + b \in Nat
  BY <1>2
<1>4. s \in 0 .. m - 1 /\ t \in Nat /\ r + b = m * t + s
  BY <1>1, <1>3
<1>5. u \in 0 .. m - 1 /\ v \in Nat /\ a + b = m * v + u
  BY <1>1, <1>3
<1> HIDE DEF s, t, u, v
<1>6. m * q \in Nat /\ m * t \in Nat /\ m * v \in Nat
  BY <1>2, <1>4, <1>5, TimesNat
<1>7. m * v + u = m * q + m * t + s
  BY <1>2, <1>4, <1>5, <1>6
<1> DEFINE k == v - (q + t)
<1>8. k \in Int /\ m * k = m * v - (m * q + m * t)
  <2>1. \A c, d, e \in Nat : m * (c - (d + e)) = m * c - (m * d + m * e)
    BY Z3
  <2> QED
    BY <1>2, <1>4, <1>5, <2>1
<1> HIDE DEF k
<1>9. m * k = s - u
  BY <1>4, <1>5, <1>6, <1>7, <1>8
<1>10. \A c \in Int : c > 0 => m * c >= m
  BY Z3
<1>11. \A c \in Int : c < 0 => m * c <= -m
  BY Z3
<1>12. k = 0
  BY <1>4, <1>5, <1>8, <1>9, <1>10, <1>11
<1>13. m * 0 = 0
  OBVIOUS
<1>14. s = u
  BY <1>4, <1>5, <1>9, <1>12, <1>13
<1> QED
  BY <1>14 DEF s, u, r

\* A tag that was written is the residue plus the pad.
TagInv == tag # NoTag => tag = <<(exact + macKey.pad) % Block>>

LEMMA FinishTags ==
    ASSUME Base >= 128, MacInv, Finish
    PROVE  TagInv'
<1> DEFINE z == Reduced(Carried(h))
<1>1. /\ macKey \in MacKeys /\ tag = NoTag /\ macKey' = macKey /\ exact' = exact
      /\ tag' = <<(Packed(z) + macKey.pad) % Block>> /\ exact \in 0 .. Prime - 1
  BY DEF Finish, MacInv, Tag
<1>2. z \in [Limbs -> 0 .. Base - 1] /\ Value(z) = exact
  BY <1>1, ResidueIs
<1> HIDE DEF z
<1>3. Packed(z) = exact % Block
  BY <1>2, PackedIs
<1>4. Block \in Nat \ {0} /\ exact \in Nat /\ macKey.pad \in Nat
  <2>1. 5 * LimbBits - 2 \in Nat /\ Block = PowerOf2(5 * LimbBits - 2)
    BY LimbSizes
  <2>2. Block \in Nat \ {0}
    BY <2>1, PowerNat
  <2>3. macKey.pad \in 0 .. Block - 1
    BY <1>1, MacAssumption
  <2>4. exact \in Nat
    BY <1>1, PrimeIs
  <2> QED
    BY <2>2, <2>3, <2>4
<1>5. ((exact % Block) + macKey.pad) % Block = (exact + macKey.pad) % Block
  BY <1>4, RestPlus
<1>6. tag' = <<(exact + macKey.pad) % Block>>
  BY <1>1, <1>3, <1>5, Zenon
<1> QED
  BY <1>1, <1>6, Zenon DEF TagInv

\* The tag of every message is the residue of its polynomial plus the pad, to the bit, for
\* every key, every message and every size of the limbs that leaves the carries their room.
THEOREM MacExact == ASSUME Base >= 128 PROVE MacSpec => []MacIsExact
<1> DEFINE Inv == MacInv /\ TagInv
<1>1. MacInit => Inv
  <2>1. MacInit => tag = NoTag
    BY DEF MacInit
  <2> QED
    BY <2>1, MacInitial DEF TagInv
<1>2. Inv /\ [MacNext]_macVars => Inv'
  <2> SUFFICES ASSUME Inv, [MacNext]_macVars PROVE Inv'
    OBVIOUS
  <2>1. MacInv'
    BY MacStep
  <2>2. TagInv'
    <3>1. CASE Finish
      BY <3>1, FinishTags
    <3>2. ASSUME NEW m \in MacBlocks, Feed(m) PROVE TagInv'
      <4>1. tag' = NoTag
        BY <3>2 DEF Feed
      <4> QED
        BY <4>1 DEF TagInv
    <3>3. CASE UNCHANGED macVars
      BY <3>3 DEF macVars, TagInv
    <3> QED
      BY <3>1, <3>2, <3>3 DEF MacNext
  <2> QED
    BY <2>1, <2>2
<1>3. Inv => MacIsExact
  <2> SUFFICES ASSUME Inv PROVE MacIsExact
    OBVIOUS
  <2>1. ResidueIsExact
    <3> SUFFICES ASSUME tag = NoTag
                 PROVE  /\ Value(h) % Prime = exact
                        /\ Value(Reduced(Carried(h))) = exact
                        /\ \A i \in Limbs : Reduced(Carried(h))[i] \in 0 .. Base - 1
      BY DEF ResidueIsExact
    <3> QED
      BY ResidueIs
  <2> QED
    BY <2>1 DEF MacIsExact, TagInv
<1> QED
  BY <1>1, <1>2, <1>3, PTL DEF MacSpec

-----------------------------------------------------------------------------
(* What a client shows. *)

LEMMA GreatestIs ==
    ASSUME NEW S \in SUBSET Int, NEW x \in S, \A y \in S : y <= x
    PROVE  Max(S) = x
<1> DEFINE m == Max(S)
<1>1. m \in S /\ \A y \in S : m >= y
  <2>1. \E z \in S : \A y \in S : z >= y
    OBVIOUS
  <2> QED
    BY <2>1, Zenon DEF Max
<1> HIDE DEF m
<1>2. m = x
  BY <1>1
<1> QED
  BY <1>2 DEF m

LEMMA LeastIs ==
    ASSUME NEW S \in SUBSET Int, NEW x \in S, \A y \in S : x <= y
    PROVE  Min(S) = x
<1> DEFINE m == Min(S)
<1>1. m \in S /\ \A y \in S : m <= y
  <2>1. \E z \in S : \A y \in S : z <= y
    OBVIOUS
  <2> QED
    BY <2>1, Zenon DEF Min
<1> HIDE DEF m
<1>2. m = x
  BY <1>1
<1> QED
  BY <1>2 DEF m

\* The snapshots that were newer than all before them, and those of them that are kept.
IsNewer(q, j) == \A k \in 1 .. j - 1 : q[k] < q[j]
Newer == {pushed[i] : i \in {j \in DOMAIN pushed : \A k \in 1 .. j - 1 : pushed[k] < pushed[j]}}
KeptOf(S) == {t \in S : Cardinality({u \in S : u > t}) < 2 * depth}
Entries == {buffered[i] : i \in 1 .. Len(buffered)}

PlaybackTypes ==
    /\ depth \in Nat \ {0} /\ delay \in Nat
    /\ pushed \in Seq(Int) /\ buffered \in Seq(Int)
    /\ IsFiniteSet(Newer)

\* What is buffered grows and is the end of what was newer; nothing pushed is newer than
\* the last of it.
PlaybackInv ==
    /\ PlaybackTypes
    /\ \A i, j \in 1 .. Len(buffered) : i < j => buffered[i] < buffered[j]
    /\ Len(buffered) <= 2 * depth
    /\ buffered = <<>> => pushed = <<>>
    /\ \A i \in 1 .. Len(pushed) : buffered # <<>> /\ pushed[i] <= buffered[Len(buffered)]
    /\ Entries \subseteq Newer
    /\ \A t \in Newer \ Entries : Len(buffered) = 2 * depth /\ t < buffered[1]

LEMMA NewerIn == ASSUME pushed \in Seq(Int) PROVE Newer \in SUBSET Int
BY DEF Newer

\* A part of what was pushed that grows has as many members as entries.
LEMMA GrowingCount ==
    ASSUME NEW b \in Seq(Int), \A i, j \in 1 .. Len(b) : i < j => b[i] < b[j], NEW k \in 0 .. Len(b)
    PROVE  /\ IsFiniteSet({b[i] : i \in k + 1 .. Len(b)})
           /\ Cardinality({b[i] : i \in k + 1 .. Len(b)}) = Len(b) - k
<1> DEFINE n == Len(b)  I == k + 1 .. n  S == {b[i] : i \in I}  f == [i \in I |-> b[i]]
<1>1. n \in Nat /\ k \in Nat /\ k <= n /\ \A i \in I : i \in 1 .. n /\ b[i] \in Int
  OBVIOUS
<1>2. IsFiniteSet(I) /\ Cardinality(I) = n - k
  <2>1. k + 1 \in Int /\ n \in Int
    BY <1>1
  <2>2. IsFiniteSet(I) /\ Cardinality(I) = IF k + 1 > n THEN 0 ELSE n - (k + 1) + 1
    BY <2>1, FS_Interval
  <2> HIDE DEF I
  <2> QED
    BY <1>1, <2>2
<1>3. f \in Bijection(I, S)
  <2>1. f \in [I -> S] /\ \A i \in I : f[i] = b[i]
    OBVIOUS
  <2>2. ASSUME NEW i \in I, NEW j \in I, f[i] = f[j] PROVE i = j
    <3>1. i \in 1 .. n /\ j \in 1 .. n /\ b[i] = b[j] /\ b[i] \in Int /\ i \in Int /\ j \in Int
      BY <1>1, <2>1, <2>2
    <3>2. ~(i < j) /\ ~(j < i)
      BY <3>1
    <3> QED
      BY <3>1, <3>2
  <2>3. \A s \in S : \E i \in I : f[i] = s
    BY <2>1
  <2> HIDE DEF f, S, I
  <2>4. f \in Surjection(I, S)
    BY <2>1, <2>3, Fun_IsSurj
  <2>5. f \in Injection(I, S)
    BY <2>1, <2>2, Fun_IsInj
  <2> QED
    BY <2>4, <2>5 DEF Bijection
<1>4. IsFiniteSet(S) /\ Cardinality(S) = Cardinality(I)
  <2> HIDE DEF f, S, I
  <2> QED
    BY <1>2, <1>3, FS_Bijection DEF ExistsBijection
<1> QED
  BY <1>2, <1>4

LEMMA EntriesKept == ASSUME PlaybackInv PROVE KeptOf(Newer) = Entries
<1> DEFINE n == Len(buffered)  Above(t) == {u \in Newer : u > t}
<1>1. /\ depth \in Nat \ {0} /\ buffered \in Seq(Int) /\ n \in Nat /\ IsFiniteSet(Newer) /\ Newer \in SUBSET Int
      /\ (\A i \in 1 .. n : buffered[i] \in Int)
  BY NewerIn DEF PlaybackInv, PlaybackTypes
<1>2. \A i, j \in 1 .. n : i < j => buffered[i] < buffered[j]
  BY DEF PlaybackInv
<1>3. \A t : IsFiniteSet(Above(t)) /\ Cardinality(Above(t)) \in Nat
  <2> SUFFICES ASSUME NEW t PROVE IsFiniteSet(Above(t)) /\ Cardinality(Above(t)) \in Nat
    OBVIOUS
  <2>1. Above(t) \subseteq Newer
    OBVIOUS
  <2> HIDE DEF Above
  <2> QED
    BY <1>1, <2>1, FS_Subset, FS_CardinalityType
<1>4. ASSUME NEW t \in Entries PROVE Cardinality(Above(t)) < 2 * depth
  <2>1. PICK k \in 1 .. n : t = buffered[k]
    BY DEF Entries
  <2> DEFINE S == {buffered[i] : i \in k + 1 .. n}
  <2>2. Above(t) \subseteq S
    <3> SUFFICES ASSUME NEW u \in Newer, u > t PROVE u \in S
      OBVIOUS
    <3>1. u \in Entries
      <4>1. CASE u \in Newer \ Entries
        <5>1. u < buffered[1] /\ 1 \in 1 .. n
          BY <1>1, <2>1, <4>1 DEF PlaybackInv
        <5>2. buffered[1] <= buffered[k]
          <6>1. CASE k = 1
            BY <1>1, <5>1, <6>1
          <6>2. CASE k # 1
            <7>1. 1 < k
              BY <2>1, <6>2
            <7>2. buffered[1] < buffered[k]
              BY <1>2, <5>1, <7>1
            <7> QED
              BY <1>1, <5>1, <7>2
          <6> QED
            BY <6>1, <6>2
        <5>3. u \in Int /\ buffered[1] \in Int /\ t \in Int
          BY <1>1, <2>1, <5>1
        <5> QED
          BY <2>1, <5>1, <5>2, <5>3
      <4> QED
        BY <4>1
    <3>2. PICK i \in 1 .. n : u = buffered[i]
      BY <3>1 DEF Entries
    <3>3. i \in k + 1 .. n
      <4>1. u \in Int /\ t \in Int
        BY <1>1, <2>1
      <4>2. CASE i = k
        BY <2>1, <3>2, <4>1, <4>2
      <4>3. CASE i < k
        BY <1>2, <2>1, <3>2, <4>1, <4>3
      <4> QED
        BY <1>1, <4>2, <4>3
    <3> QED
      BY <3>2, <3>3
  <2>3. IsFiniteSet(S) /\ Cardinality(S) = n - k
    <3>1. k \in 0 .. n
      BY <1>1
    <3> QED
      BY <1>1, <1>2, <3>1, GrowingCount
  <2>4. Cardinality(Above(t)) <= n - k
    <3> HIDE DEF S, Above
    <3> QED
      BY <2>2, <2>3, FS_Subset
  <2>5. n <= 2 * depth
    BY DEF PlaybackInv
  <2> HIDE DEF Above
  <2> QED
    BY <1>1, <1>3, <2>4, <2>5
<1>5. ASSUME NEW t \in Newer \ Entries PROVE ~(Cardinality(Above(t)) < 2 * depth)
  <2> DEFINE S == {buffered[i] : i \in 0 + 1 .. n}
  <2>1. n = 2 * depth /\ t < buffered[1] /\ 1 \in 1 .. n
    BY <1>1 DEF PlaybackInv
  <2>2. S \subseteq Above(t)
    <3> SUFFICES ASSUME NEW i \in 1 .. n PROVE buffered[i] \in Newer /\ buffered[i] > t
      OBVIOUS
    <3>1. buffered[i] \in Newer
      BY DEF Entries, PlaybackInv
    <3>2. buffered[1] <= buffered[i]
      <4>1. CASE i = 1
        BY <1>1, <2>1, <4>1
      <4>2. CASE 1 < i
        BY <1>1, <1>2, <2>1, <4>2
      <4> QED
        BY <1>1, <4>1, <4>2
    <3> QED
      BY <1>1, <2>1, <3>1, <3>2
  <2>3. IsFiniteSet(S) /\ Cardinality(S) = n - 0
    <3>1. 0 \in 0 .. n
      BY <1>1
    <3> QED
      BY <1>1, <1>2, <3>1, GrowingCount
  <2>4. n <= Cardinality(Above(t))
    <3> HIDE DEF S, Above
    <3>1. Cardinality(S) <= Cardinality(Above(t))
      BY <1>3, <2>2, FS_Subset
    <3> QED
      BY <1>1, <2>3, <3>1
  <2> HIDE DEF Above
  <2> QED
    BY <1>1, <1>3, <2>1, <2>4
<1>6. Entries \subseteq Newer
  BY DEF PlaybackInv
<1> HIDE DEF Above
<1>7. KeptOf(Newer) = {t \in Newer : Cardinality(Above(t)) < 2 * depth}
  BY DEF KeptOf, Above
<1> QED
  BY <1>4, <1>5, <1>6, <1>7

-----------------------------------------------------------------------------
\* The entries next to a target among those kept.
LEMMA LowerIs ==
    ASSUME NEW K \in SUBSET Int, NEW target \in Int, NEW first \in K, NEW x \in K,
           \A y \in K : first <= y,
           \A y \in K : y <= target => y <= x, x <= target \/ x = first
    PROVE  Max({t \in K : t <= target} \cup {Min(K)}) = x
<1>1. Min(K) = first
  BY LeastIs
<1> DEFINE S == {t \in K : t <= target} \cup {first}
<1>2. S \in SUBSET Int /\ x \in S /\ \A y \in S : y <= x
  OBVIOUS
<1> HIDE DEF S
<1>3. Max(S) = x
  BY <1>2, GreatestIs
<1> QED
  BY <1>1, <1>3 DEF S

LEMMA UpperIs ==
    ASSUME NEW K \in SUBSET Int, NEW target \in Int, NEW last \in K, NEW x \in K,
           \A y \in K : y <= last,
           \A y \in K : y >= target => x <= y, x >= target \/ x = last
    PROVE  Min({t \in K : t >= target} \cup {Max(K)}) = x
<1>1. Max(K) = last
  BY GreatestIs
<1> DEFINE S == {t \in K : t >= target} \cup {last}
<1>2. S \in SUBSET Int /\ x \in S /\ \A y \in S : x <= y
  OBVIOUS
<1> HIDE DEF S
<1>3. Min(S) = x
  BY <1>2, LeastIs
<1> QED
  BY <1>1, <1>3 DEF S

\* A straight line between two states, at its ends and between them.
LEMMA LineIs ==
    ASSUME NEW p \in Int, NEW q \in Int, NEW a \in Int, NEW b \in Int, NEW t \in Int
    PROVE  LET num == p * (b - a) + (q - p) * (t - a)
           IN  /\ num * (b - a) = (p * (b - t) + q * (t - a)) * (b - a)
               /\ t = a => num = p * (b - a)
               /\ t = b => num = q * (b - a)
<1>1. \A u, v, w, x, y \in Int : u * (w - v) + (x - u) * (y - v) = u * (w - y) + x * (y - v)
  BY Z3
<1>2. p * (b - a) + (q - p) * (t - a) = p * (b - t) + q * (t - a)
  BY <1>1
<1>3. \A u, v, w, x, y \in Int : y = v => u * (w - v) + (x - u) * (y - v) = u * (w - v)
  BY Z3
<1>4. \A u, v, w, x, y \in Int : y = w => u * (w - v) + (x - u) * (y - v) = x * (w - v)
  BY Z3
<1>5. t = a => p * (b - a) + (q - p) * (t - a) = p * (b - a)
  BY <1>3
<1>6. t = b => p * (b - a) + (q - p) * (t - a) = q * (b - a)
  BY <1>4
<1> QED
  BY <1>2, <1>5, <1>6, Zenon

\* What SampledIsPlayback says of one target.
DrawnBetween(target, shown, K) ==
    LET lower == Max({t \in K : t <= target} \cup {Min(K)})
        upper == Min({t \in K : t >= target} \cup {Max(K)})
    IN  IF Cardinality(K) < 2 THEN shown = NoState
        ELSE IF lower >= upper THEN shown.num = StateAt(lower) * shown.den
        ELSE shown.num * (upper - lower) =
               (StateAt(lower) * (upper - target) + StateAt(upper) * (target - lower)) * shown.den

LEMMA StateIs == ASSUME NEW t \in Int PROVE StateAt(t) \in Int
BY Z3 DEF StateAt

LEMMA ShownIsDrawn ==
    ASSUME PlaybackInv, NEW render \in Int
    PROVE  DrawnBetween(render - delay, SampleSnapshot(render), Entries)
<1> DEFINE n == Len(buffered)  target == render - delay  B == Brackets(target)  shown == SampleSnapshot(render)
<1>1. n \in Nat /\ target \in Int /\ buffered \in Seq(Int) /\ (\A i \in 1 .. n : buffered[i] \in Int)
      /\ Entries \in SUBSET Int
  BY DEF PlaybackInv, PlaybackTypes, Entries
<1>2. \A i, j \in 1 .. n : i < j => buffered[i] < buffered[j]
  BY DEF PlaybackInv
<1>3. Cardinality(Entries) = n
  <2>1. 0 \in 0 .. n /\ n - 0 = n
    BY <1>1
  <2>2. Cardinality({buffered[i] : i \in 0 + 1 .. n}) = n
    BY <1>1, <1>2, <2>1, GrowingCount
  <2>3. Entries = {buffered[i] : i \in 0 + 1 .. n}
    <3>1. 0 + 1 = 1
      OBVIOUS
    <3> QED
      BY <3>1, Zenon DEF Entries
  <2> QED
    BY <2>2, <2>3, Zenon
<1>4. shown = IF n < 2 THEN NoState
              ELSE IF B = {} THEN Boundary(target)
              ELSE Lerp(buffered[Min(B)], buffered[Min(B) + 1], target)
  BY DEF SampleSnapshot
<1>5. CASE n < 2
  BY <1>3, <1>4, <1>5 DEF DrawnBetween
<1>6. CASE ~(n < 2)
  <2> DEFINE first == buffered[1]  last == buffered[n]
             lower == Max({t \in Entries : t <= target} \cup {Min(Entries)})
             upper == Min({t \in Entries : t >= target} \cup {Max(Entries)})
  <2>1. 1 \in 1 .. n /\ n \in 1 .. n /\ first \in Entries /\ last \in Entries /\ first \in Int /\ last \in Int
    BY <1>1, <1>6 DEF Entries
  <2>2. \A i, j \in 1 .. n : i <= j => buffered[i] <= buffered[j]
    BY <1>1, <1>2
  <2>3. (\A y \in Entries : first <= y) /\ (\A y \in Entries : y <= last)
    <3>1. \A i \in 1 .. n : first <= buffered[i] /\ buffered[i] <= last
      BY <1>1, <2>1, <2>2
    <3> QED
      BY <3>1 DEF Entries
  <2>4. B = {i \in 1 .. n - 1 : buffered[i] <= target /\ target <= buffered[i + 1]}
    BY DEF Brackets
  <2>5. Last(buffered) = last /\ Head(buffered) = first
    BY <1>1, <1>6 DEF Last
  <2>6. SUFFICES IF lower >= upper THEN shown.num = StateAt(lower) * shown.den
                 ELSE shown.num * (upper - lower) =
                        (StateAt(lower) * (upper - target) + StateAt(upper) * (target - lower)) * shown.den
    BY <1>3, <1>6 DEF DrawnBetween
  <2> HIDE DEF target, B, lower, upper, shown
\* Beyond either end
  <2>7. CASE target < first
    <3>1. lower = first /\ upper = first
      <4>1. Max({t \in Entries : t <= target} \cup {Min(Entries)}) = first
        <5>1. \A y \in Entries : y <= target => y <= first
          BY <1>1, <2>1, <2>3, <2>7
        <5> HIDE DEF first
        <5> QED
          BY <1>1, <2>1, <2>3, <5>1, LowerIs
      <4>2. Min({t \in Entries : t >= target} \cup {Max(Entries)}) = first
        <5>1. first >= target
          BY <1>1, <2>1, <2>7
        <5> HIDE DEF first, last
        <5> QED
          BY <1>1, <2>1, <2>3, <5>1, UpperIs
      <4> QED
        BY <4>1, <4>2 DEF lower, upper
    <3>2. B = {}
      <4>1. \A i \in 1 .. n - 1 : i \in 1 .. n /\ ~(buffered[i] <= target)
        <5> SUFFICES ASSUME NEW i \in 1 .. n - 1 PROVE i \in 1 .. n /\ ~(buffered[i] <= target)
          OBVIOUS
        <5>1. i \in 1 .. n
          BY <1>1
        <5>2. buffered[i] \in Int /\ first <= buffered[i]
          BY <1>1, <2>1, <2>2, <5>1
        <5> QED
          BY <1>1, <2>1, <2>7, <5>1, <5>2
      <4> QED
        BY <2>4, <4>1
    <3>3. shown = [num |-> StateAt(first), den |-> 1]
      <4>1. ~(target > last)
        BY <1>1, <2>1, <2>3, <2>7
      <4> QED
        BY <1>4, <1>6, <2>5, <3>2, <4>1 DEF Boundary
    <3>4. StateAt(first) \in Int
      BY <2>1, StateIs
    <3>5. shown.num = StateAt(first) * shown.den
      <4>1. shown.num = StateAt(first) /\ shown.den = 1
        BY <3>3
      <4> QED
        BY <3>4, <4>1
    <3> QED
      BY <2>1, <3>1, <3>5
  <2>8. CASE target > last
    <3>1. lower = last /\ upper = last
      <4>1. Max({t \in Entries : t <= target} \cup {Min(Entries)}) = last
        <5>1. last <= target
          BY <1>1, <2>1, <2>8
        <5> HIDE DEF first, last
        <5> QED
          BY <1>1, <2>1, <2>3, <5>1, LowerIs
      <4>2. Min({t \in Entries : t >= target} \cup {Max(Entries)}) = last
        <5>1. \A y \in Entries : y >= target => last <= y
          BY <1>1, <2>1, <2>3, <2>8
        <5> HIDE DEF first, last
        <5> QED
          BY <1>1, <2>1, <2>3, <5>1, UpperIs
      <4> QED
        BY <4>1, <4>2 DEF lower, upper
    <3>2. B = {}
      <4>1. \A i \in 1 .. n - 1 : ~(target <= buffered[i + 1])
        <5> SUFFICES ASSUME NEW i \in 1 .. n - 1 PROVE ~(target <= buffered[i + 1])
          OBVIOUS
        <5>1. i + 1 \in 1 .. n /\ i + 1 <= n
          BY <1>1
        <5>2. buffered[i + 1] \in Int /\ buffered[i + 1] <= last
          BY <1>1, <2>1, <2>2, <5>1
        <5> QED
          BY <1>1, <2>1, <2>8, <5>2
      <4> QED
        BY <2>4, <4>1
    <3>3. shown = [num |-> StateAt(last), den |-> 1]
      BY <1>4, <1>6, <2>5, <2>8, <3>2 DEF Boundary
    <3>4. StateAt(last) \in Int
      BY <2>1, StateIs
    <3>5. shown.num = StateAt(last) * shown.den
      <4>1. shown.num = StateAt(last) /\ shown.den = 1
        BY <3>3
      <4> QED
        BY <3>4, <4>1
    <3> QED
      BY <2>1, <3>1, <3>5
\* Between two entries
  <2>9. CASE ~(target < first) /\ ~(target > last)
    <3>1. B # {} /\ B \in SUBSET Nat
      <4> DEFINE L == {i \in 1 .. n : buffered[i] <= target}
      <4>1. 1 \in L /\ L \in SUBSET Nat /\ \A i \in L : i <= n
        BY <1>1, <2>1, <2>9
      <4>2. PICK g \in L : \A j \in L : j <= g
        <5> HIDE DEF L
        <5> QED
          BY <1>1, <4>1, GreatestOf
      <4>3. CASE g = n
        <5>1. n - 1 \in 1 .. n - 1 /\ n - 1 \in 1 .. n /\ (n - 1) + 1 = n
          BY <1>1, <1>6
        <5>2. buffered[n - 1] <= target /\ target <= buffered[(n - 1) + 1]
          <6>1. buffered[n - 1] <= buffered[n] /\ buffered[n] <= target /\ target <= buffered[n]
            BY <1>1, <2>1, <2>2, <2>9, <4>2, <4>3, <5>1
          <6>2. buffered[n - 1] \in Int /\ buffered[n] \in Int
            BY <1>1, <2>1, <5>1
          <6> QED
            BY <1>1, <5>1, <6>1, <6>2
        <5> QED
          BY <2>4, <5>1, <5>2
      <4>4. CASE g # n
        <5>1. g \in 1 .. n - 1 /\ g + 1 \in 1 .. n /\ buffered[g] <= target
          BY <1>1, <4>2, <4>4
        <5>2. ~(g + 1 \in L)
          BY <4>2, <5>1
        <5>3. target <= buffered[g + 1]
          BY <1>1, <5>1, <5>2
        <5> QED
          BY <2>4, <5>1, <5>3
      <4> QED
        BY <2>4, <4>3, <4>4
    <3>2. PICK i \in B : \A j \in B : i <= j
      BY <3>1, Least
    <3>3. Min(B) = i
      <4>1. B \in SUBSET Int
        BY <3>1
      <4> QED
        BY <3>2, <4>1, LeastIs
    <3> DEFINE a == buffered[i]  b == buffered[i + 1]
    <3>4. i \in 1 .. n - 1 /\ i \in 1 .. n /\ i + 1 \in 1 .. n /\ a <= target /\ target <= b
      BY <1>1, <2>4, <3>2
    <3>5. a \in Int /\ b \in Int /\ a \in Entries /\ b \in Entries /\ a < b
      BY <1>1, <1>2, <3>4 DEF Entries
    <3>6. shown = Lerp(a, b, target)
      BY <1>4, <1>6, <3>1, <3>3
    <3>7. /\ shown.num = StateAt(a) * (b - a) + (StateAt(b) - StateAt(a)) * (target - a)
          /\ shown.den = b - a
      BY <3>6 DEF Lerp
    <3>8. \A y \in Entries : y <= a \/ b <= y
      <4>1. \A j \in 1 .. n : j <= i \/ i + 1 <= j
        BY <1>1, <3>4
      <4>2. \A j \in 1 .. n : buffered[j] <= a \/ b <= buffered[j]
        BY <2>2, <3>4, <4>1
      <4> QED
        BY <4>2 DEF Entries
    <3>9. StateAt(a) \in Int /\ StateAt(b) \in Int
      BY <3>5, StateIs
    <3>10. CASE target = b
      <4>1. lower = b /\ upper = b
        <5>1. (\A y \in Entries : y <= target => y <= b) /\ (\A y \in Entries : y >= target => b <= y)
          BY <1>1, <3>5, <3>10
        <5>2. b <= target /\ b >= target
          BY <3>5, <3>10
        <5> HIDE DEF b, first, last
        <5>6. first \in Entries /\ b \in Entries /\ (\A y \in Entries : first <= y) /\ target \in Int /\ Entries \in SUBSET Int
          BY <1>1, <2>1, <2>3, <3>5
        <5>3. Max({t \in Entries : t <= target} \cup {Min(Entries)}) = b
          BY <5>1, <5>2, <5>6, LowerIs
        <5>5. last \in Entries /\ b \in Entries /\ (\A y \in Entries : y <= last) /\ target \in Int /\ Entries \in SUBSET Int
          BY <1>1, <2>1, <2>3, <3>5
        <5>4. Min({t \in Entries : t >= target} \cup {Max(Entries)}) = b
          BY <5>1, <5>2, <5>5, UpperIs
        <5> QED
          BY <5>3, <5>4 DEF lower, upper
      <4>2. shown.num = StateAt(b) * (b - a)
        <5> HIDE DEF a, b
        <5>1. StateAt(a) * (b - a) + (StateAt(b) - StateAt(a)) * (target - a) = StateAt(b) * (b - a)
          BY <1>1, <3>5, <3>9, <3>10, LineIs
        <5> QED
          BY <3>7, <5>1, Zenon
      <4> HIDE DEF a, b
      <4> QED
        BY <3>5, <3>7, <4>1, <4>2
    <3>11. CASE target = a
      <4>1. i = 1
        <5> SUFFICES ASSUME i # 1 PROVE FALSE
          OBVIOUS
        <5>1. i - 1 \in 1 .. n - 1 /\ i - 1 \in 1 .. n /\ (i - 1) + 1 = i /\ i - 1 < i
          BY <1>1, <3>4
        <5>2. buffered[i - 1] < a
          BY <1>2, <3>4, <5>1
        <5>3. buffered[i - 1] <= target /\ target <= buffered[(i - 1) + 1]
          BY <1>1, <3>5, <3>11, <5>1, <5>2, SMTT(30)
        <5>4. i - 1 \in B
          BY <2>4, <5>1, <5>3
        <5> QED
          BY <3>2, <3>4, <5>1, <5>4
      <4>2. lower = a /\ upper = a
        <5>1. (\A y \in Entries : y <= target => y <= a) /\ (\A y \in Entries : y >= target => a <= y)
          BY <1>1, <3>5, <3>11
        <5>2. a <= target /\ a >= target
          BY <3>5, <3>11
        <5> HIDE DEF a, first, last
        <5>5. first \in Entries /\ a \in Entries /\ (\A y \in Entries : first <= y) /\ target \in Int /\ Entries \in SUBSET Int
          BY <1>1, <2>1, <2>3, <3>5
        <5>3. Max({t \in Entries : t <= target} \cup {Min(Entries)}) = a
          BY <5>1, <5>2, <5>5, LowerIs
        <5>6. last \in Entries /\ a \in Entries /\ (\A y \in Entries : y <= last) /\ target \in Int /\ Entries \in SUBSET Int
          BY <1>1, <2>1, <2>3, <3>5
        <5>4. Min({t \in Entries : t >= target} \cup {Max(Entries)}) = a
          BY <5>1, <5>2, <5>6, UpperIs
        <5> QED
          BY <5>3, <5>4 DEF lower, upper
      <4>3. shown.num = StateAt(a) * (b - a)
        <5> HIDE DEF a, b
        <5>1. StateAt(a) * (b - a) + (StateAt(b) - StateAt(a)) * (target - a) = StateAt(a) * (b - a)
          BY <1>1, <3>5, <3>9, <3>11, LineIs
        <5> QED
          BY <3>7, <5>1, Zenon
      <4> HIDE DEF a, b
      <4> QED
        BY <3>5, <3>7, <4>2, <4>3
    <3>12. CASE target # a /\ target # b
      <4>1. lower = a /\ upper = b
        <5>0. a < target /\ target < b
          BY <1>1, <3>4, <3>5, <3>12
        <5>1. (\A y \in Entries : y <= target => y <= a) /\ (\A y \in Entries : y >= target => b <= y)
          BY <1>1, <3>5, <3>8, <5>0
        <5>2. a <= target /\ b >= target
          BY <1>1, <3>5, <5>0
        <5> HIDE DEF a, b, first, last
        <5>6. first \in Entries /\ a \in Entries /\ (\A y \in Entries : first <= y) /\ target \in Int /\ Entries \in SUBSET Int
          BY <1>1, <2>1, <2>3, <3>5
        <5>7. last \in Entries /\ b \in Entries /\ (\A y \in Entries : y <= last) /\ target \in Int /\ Entries \in SUBSET Int
          BY <1>1, <2>1, <2>3, <3>5
        <5>3. Max({t \in Entries : t <= target} \cup {Min(Entries)}) = a
          BY <5>1, <5>2, <5>6, LowerIs
        <5>4. Min({t \in Entries : t >= target} \cup {Max(Entries)}) = b
          BY <5>1, <5>2, <5>7, UpperIs
        <5> QED
          BY <5>3, <5>4 DEF lower, upper
      <4> HIDE DEF a, b
      <4>2. shown.num * (b - a) = (StateAt(a) * (b - target) + StateAt(b) * (target - a)) * shown.den
        <5>1. (StateAt(a) * (b - a) + (StateAt(b) - StateAt(a)) * (target - a)) * (b - a)
                 = (StateAt(a) * (b - target) + StateAt(b) * (target - a)) * (b - a)
          BY <1>1, <3>5, <3>9, LineIs
        <5> QED
          BY <3>7, <5>1, Zenon
      <4> QED
        BY <3>5, <4>1, <4>2
    <3> QED
      BY <3>10, <3>11, <3>12
  <2> QED
    BY <2>7, <2>8, <2>9
<1> QED
  BY <1>5, <1>6

LEMMA PlaybackShown == PlaybackInv => SampledIsPlayback
<1> SUFFICES ASSUME PlaybackInv PROVE SampledIsPlayback
  OBVIOUS
<1>1. KeptOf(Newer) = Entries
  BY EntriesKept
<1>2. ASSUME NEW render \in RenderTimes
      PROVE  DrawnBetween(render - delay, SampleSnapshot(render), KeptOf(Newer))
  <2>1. render \in Int
    BY InterpolationAssumption
  <2> QED
    BY <1>1, <2>1, ShownIsDrawn
<1> QED
  BY <1>2 DEF SampledIsPlayback, DrawnBetween, KeptOf, Newer

-----------------------------------------------------------------------------
LEMMA PlaybackStart == InterpolationInit => PlaybackInv
<1> SUFFICES ASSUME InterpolationInit PROVE PlaybackInv
  OBVIOUS
<1>1. buffered = <<>> /\ pushed = <<>> /\ depth \in Nat \ {0} /\ delay \in Nat
  BY InterpolationAssumption DEF InterpolationInit
<1>2. Len(buffered) = 0 /\ Len(pushed) = 0 /\ DOMAIN pushed = {} /\ pushed \in Seq(Int) /\ buffered \in Seq(Int)
  BY <1>1
<1>3. Newer = {} /\ Entries = {}
  BY <1>2 DEF Newer, Entries
<1> QED
  BY <1>1, <1>2, <1>3, FS_EmptySet DEF PlaybackInv, PlaybackTypes

LEMMA PlaybackPushed ==
    ASSUME PlaybackInv, NEW t \in ServerTimes, PushSnapshot(t)
    PROVE  PlaybackInv'
<1> DEFINE n == Len(buffered)  p == Len(pushed)
<1>1. /\ depth \in Nat \ {0} /\ delay \in Nat /\ pushed \in Seq(Int) /\ buffered \in Seq(Int)
      /\ n \in Nat /\ p \in Nat /\ IsFiniteSet(Newer) /\ t \in Int /\ DOMAIN pushed = 1 .. p
  BY InterpolationAssumption DEF PlaybackInv, PlaybackTypes
<1>2. /\ pushed' = Append(pushed, t)
      /\ buffered' = IF buffered = <<>> THEN <<t>>
                     ELSE IF t <= Last(buffered) THEN buffered
                     ELSE Trimmed(Append(buffered, t))
      /\ depth' = depth /\ delay' = delay
  BY DEF PushSnapshot
<1>3. /\ pushed' \in Seq(Int) /\ Len(pushed') = p + 1 /\ DOMAIN pushed' = 1 .. p + 1
      /\ (\A i \in 1 .. p : pushed'[i] = pushed[i]) /\ pushed'[p + 1] = t
  BY <1>1, <1>2
\* What is new
<1>4. Newer' = IF \A k \in 1 .. p : pushed[k] < t THEN Newer \cup {t} ELSE Newer
  <2>1. \A j \in 1 .. p : IsNewer(pushed', j) <=> IsNewer(pushed, j)
    <3> SUFFICES ASSUME NEW j \in 1 .. p PROVE IsNewer(pushed', j) <=> IsNewer(pushed, j)
      OBVIOUS
    <3>1. \A k \in 1 .. j - 1 : k \in 1 .. p
      BY <1>1
    <3> QED
      BY <1>3, <3>1 DEF IsNewer
  <2>2. IsNewer(pushed', p + 1) <=> \A k \in 1 .. p : pushed[k] < t
    <3>1. (p + 1) - 1 = p
      BY <1>1
    <3>2. IsNewer(pushed', p + 1) <=> \A k \in 1 .. p : pushed'[k] < pushed'[p + 1]
      BY <3>1 DEF IsNewer
    <3> HIDE DEF p
    <3>3. (\A k \in 1 .. p : pushed'[k] < pushed'[p + 1]) <=> \A k \in 1 .. p : pushed[k] < t
      BY <1>3
    <3> QED
      BY <3>2, <3>3
  <2>3. \A x : x \in Newer <=> \E j \in 1 .. p : IsNewer(pushed, j) /\ x = pushed[j]
    BY <1>1 DEF Newer, IsNewer
  <2>4. \A x : x \in Newer' <=> \E j \in 1 .. p + 1 : IsNewer(pushed', j) /\ x = pushed'[j]
    BY <1>3 DEF Newer, IsNewer
  <2>5. \A j : j \in 1 .. p + 1 <=> j \in 1 .. p \/ j = p + 1
    BY <1>1
  <2> HIDE DEF p
  <2>6. \A x : x \in Newer' <=> x \in Newer \/ ((\A k \in 1 .. p : pushed[k] < t) /\ x = t)
    <3>1. \A x : x \in Newer' <=> (\E j \in 1 .. p : IsNewer(pushed', j) /\ x = pushed'[j]) \/ (IsNewer(pushed', p + 1) /\ x = pushed'[p + 1])
      <4> SUFFICES ASSUME NEW x
                   PROVE  (\E j \in 1 .. p + 1 : IsNewer(pushed', j) /\ x = pushed'[j]) <=>
                              (\E j \in 1 .. p : IsNewer(pushed', j) /\ x = pushed'[j]) \/ (IsNewer(pushed', p + 1) /\ x = pushed'[p + 1])
        BY <2>4, Zenon
      <4>1. p + 1 \in 1 .. p + 1 /\ \A j \in 1 .. p : j \in 1 .. p + 1
        BY <2>5
      <4> QED
        BY <2>5, <4>1, Zenon
    <3> QED
      BY <1>3, <2>1, <2>2, <2>3, <3>1
  <2> QED
    BY <2>6
<1>5. IsFiniteSet(Newer')
  BY <1>1, <1>4, FS_AddElement
<1>6. CASE buffered = <<>>
  <2>1. p = 0 /\ buffered' = <<t>>
    BY <1>1, <1>2, <1>6 DEF PlaybackInv
  <2>2. Len(buffered') = 1 /\ buffered'[1] = t /\ buffered' \in Seq(Int) /\ buffered' # <<>>
    BY <1>1, <2>1
  <2>3. Newer = {} /\ Newer' = {t}
    <3>1. Newer = {}
      BY <1>1, <2>1 DEF Newer
    <3>2. \A k \in 1 .. p : FALSE
      BY <2>1
    <3> QED
      BY <1>4, <3>1, <3>2
  <2>4. Entries' = {t}
    BY <2>2 DEF Entries
  <2>5. \A i \in 1 .. p + 1 : pushed'[i] <= t
    BY <1>1, <1>3, <2>1
  <2>6. Len(buffered') <= 2 * depth
    BY <1>1, <2>2
  <2>7. \A i, j \in 1 .. Len(buffered') : i < j => buffered'[i] < buffered'[j]
    BY <2>2
  <2>8. PlaybackTypes'
    BY <1>1, <1>2, <1>3, <1>5, <2>2 DEF PlaybackTypes
  <2> QED
    BY <1>2, <1>3, <2>2, <2>3, <2>4, <2>5, <2>6, <2>7, <2>8 DEF PlaybackInv
<1>7. ASSUME buffered # <<>>
      PROVE  /\ n \in 1 .. n /\ 1 \in 1 .. n /\ Last(buffered) = buffered[n] /\ n # 0
             /\ buffered[n] \in Int /\ \A i \in 1 .. p : pushed[i] <= buffered[n]
  BY <1>1, <1>7 DEF Last, PlaybackInv
<1>8. CASE buffered # <<>> /\ t <= Last(buffered)
  <2>1. buffered' = buffered /\ t <= buffered[n]
    BY <1>2, <1>7, <1>8
  <2>2. Newer' = Newer
    <3>1. buffered[n] \in Newer
      BY <1>7, <1>8 DEF PlaybackInv, Entries
    <3>2. PICK j \in 1 .. p : buffered[n] = pushed[j]
      BY <1>1, <3>1 DEF Newer
    <3>3. ~(pushed[j] < t)
      BY <1>1, <1>7, <1>8, <2>1, <3>2
    <3> QED
      BY <1>4, <3>3
  <2>3. Entries' = Entries
    BY <2>1 DEF Entries
  <2>4. \A i \in 1 .. p + 1 : pushed'[i] <= buffered[n]
    <3>1. \A i \in 1 .. p + 1 : i \in 1 .. p \/ i = p + 1
      BY <1>1
    <3> QED
      BY <1>3, <1>7, <1>8, <2>1, <3>1
  <2>5. PlaybackTypes'
    BY <1>1, <1>2, <1>3, <1>5, <2>1 DEF PlaybackTypes
  <2>6. /\ \A i, j \in 1 .. Len(buffered) : i < j => buffered[i] < buffered[j]
        /\ Len(buffered) <= 2 * depth
        /\ Entries \subseteq Newer
        /\ \A u \in Newer \ Entries : Len(buffered) = 2 * depth /\ u < buffered[1]
    BY DEF PlaybackInv
  <2>7. buffered' # <<>>
    BY <1>8, <2>1
  <2> QED
    BY <1>2, <1>3, <2>1, <2>2, <2>3, <2>4, <2>5, <2>6, <2>7 DEF PlaybackInv
<1>9. CASE buffered # <<>> /\ ~(t <= Last(buffered))
  <2> DEFINE long == Append(buffered, t)
  <2>1. buffered' = Trimmed(long) /\ buffered[n] < t
    BY <1>1, <1>2, <1>7, <1>9
  <2>2. /\ long \in Seq(Int) /\ Len(long) = n + 1 /\ (\A i \in 1 .. n : long[i] = buffered[i]) /\ long[n + 1] = t
    BY <1>1
  <2>3. Newer' = Newer \cup {t}
    <3>1. ASSUME NEW k \in 1 .. p PROVE pushed[k] < t
      BY <1>1, <1>7, <1>9, <2>1
    <3> QED
      BY <1>4, <3>1
  <2>4. /\ \A i, j \in 1 .. n : i < j => buffered[i] < buffered[j]
        /\ n <= 2 * depth
        /\ Entries \subseteq Newer
        /\ \A u \in Newer \ Entries : n = 2 * depth /\ u < buffered[1]
    BY DEF PlaybackInv
  <2> HIDE DEF long
  <2>5. \A i, j \in 1 .. n + 1 : i < j => long[i] < long[j]
    <3> SUFFICES ASSUME NEW i \in 1 .. n + 1, NEW j \in 1 .. n + 1, i < j PROVE long[i] < long[j]
      OBVIOUS
    <3>1. CASE j \in 1 .. n
      <4>1. i \in 1 .. n
        BY <1>1, <3>1
      <4> QED
        BY <2>2, <2>4, <3>1, <4>1
    <3>2. CASE j = n + 1
      <4>1. i \in 1 .. n /\ (i = n \/ i < n)
        BY <1>1, <3>2
      <4>2. buffered[i] \in Int /\ buffered[n] \in Int /\ buffered[i] <= buffered[n]
        <5>1. n \in 1 .. n /\ buffered[i] \in Int /\ buffered[n] \in Int
          BY <1>1, <1>7, <1>9, <4>1
        <5>2. i < n => buffered[i] < buffered[n]
          BY <2>4, <4>1, <5>1
        <5> HIDE DEF n
        <5> QED
          BY <4>1, <5>1, <5>2
      <4>3. long[i] = buffered[i] /\ long[j] = t
        BY <2>2, <3>2, <4>1
      <4> QED
        BY <1>1, <2>1, <4>2, <4>3
    <3> HIDE DEF n
    <3>3. j \in 1 .. n \/ j = n + 1
      BY <1>1
    <3> QED
      BY <3>1, <3>2, <3>3
\* Which entries are left: all but the first d
  <2> DEFINE d == IF n + 1 > 2 * depth THEN 1 ELSE 0
             m == n + 1 - d
  <2>6. d \in {0, 1} /\ d \in Nat /\ m \in Nat \ {0} /\ m <= 2 * depth /\ n \in Nat \ {0}
        /\ (d = 1 => m = 2 * depth) /\ m + d = n + 1
    <3>1. n \in Nat \ {0} /\ n <= 2 * depth /\ depth \in Nat \ {0}
      BY <1>1, <1>7, <1>9, <2>4
    <3> HIDE DEF n
    <3> QED
      BY <3>1
  <2>7. buffered' \in Seq(Int) /\ Len(buffered') = m /\ \A i \in 1 .. m : buffered'[i] = long[d + i]
    <3>1. CASE n + 1 > 2 * depth
      <4>1. n = 2 * depth /\ d = 1
        BY <1>1, <2>4, <3>1
      <4>2. Len(long) - 2 * depth + 1 = 1 + 1 /\ Len(long) > 2 * depth
        BY <1>1, <2>2, <4>1
      <4>3. buffered' = SubSeq(long, 1 + 1, Len(long))
        BY <2>1, <4>2 DEF Trimmed
      <4>4. 1 \in 1 .. Len(long)
        BY <1>1, <2>2
      <4>5. buffered' \in Seq(Int) /\ Len(buffered') = Len(long) - 1 /\ \A i \in 1 .. Len(long) - 1 : buffered'[i] = long[1 + i]
        BY <2>2, <4>3, <4>4, RestOf
      <4>6. Len(long) - 1 = m
        BY <1>1, <2>2, <4>1
      <4> HIDE DEF d, m
      <4> QED
        BY <4>1, <4>5, <4>6
    <3>2. CASE ~(n + 1 > 2 * depth)
      <4>1. buffered' = long /\ d = 0
        BY <2>1, <2>2, <3>2 DEF Trimmed
      <4> QED
        BY <1>1, <2>2, <4>1
    <3> QED
      BY <3>1, <3>2
  <2> HIDE DEF d, m
  <2>8. \A i \in 1 .. m : d + i \in 1 .. n + 1
    BY <1>1, <2>6
  <2>9. \A i, j \in 1 .. m : i < j => buffered'[i] < buffered'[j]
    <3> SUFFICES ASSUME NEW i \in 1 .. m, NEW j \in 1 .. m, i < j PROVE buffered'[i] < buffered'[j]
      OBVIOUS
    <3>1. d + i < d + j /\ d + i \in 1 .. n + 1 /\ d + j \in 1 .. n + 1
      BY <2>6, <2>8
    <3>2. long[d + i] < long[d + j]
      BY <2>5, <3>1
    <3> QED
      BY <2>7, <3>2
  <2>10. buffered'[m] = t /\ m \in 1 .. m /\ buffered' # <<>>
    <3>1. m \in 1 .. m /\ d + m = n + 1
      BY <1>1, <2>6
    <3>2. buffered'[m] = t
      BY <2>2, <2>7, <3>1
    <3>3. buffered' # <<>>
      BY <2>6, <2>7
    <3> QED
      BY <3>1, <3>2, <3>3
  <2>11. \A i \in 1 .. p + 1 : pushed'[i] <= t
    <3> SUFFICES ASSUME NEW i \in 1 .. p + 1 PROVE pushed'[i] <= t
      OBVIOUS
    <3>1. CASE i \in 1 .. p
      <4>1. pushed'[i] = pushed[i] /\ pushed[i] \in Int /\ pushed[i] <= buffered[n]
        BY <1>1, <1>3, <1>7, <1>9, <3>1
      <4> QED
        BY <1>1, <1>7, <1>9, <2>1, <4>1
    <3>2. CASE i = p + 1
      BY <1>1, <1>3, <3>2
    <3> QED
      BY <1>1, <3>1, <3>2
  <2>12. Entries' \subseteq Newer'
    <3> SUFFICES ASSUME NEW i \in 1 .. m PROVE buffered'[i] \in Newer'
      BY <2>7 DEF Entries
    <3>1. buffered'[i] = long[d + i] /\ d + i \in 1 .. n + 1
      BY <2>7, <2>8
    <3>2. CASE d + i = n + 1
      BY <2>2, <2>3, <3>1, <3>2
    <3>3. CASE d + i # n + 1
      <4>1. d + i \in 1 .. n
        BY <1>1, <3>1, <3>3
      <4>2. buffered[d + i] \in Newer
        BY <2>4, <4>1 DEF Entries
      <4> QED
        BY <2>2, <2>3, <3>1, <4>1, <4>2
    <3> QED
      BY <3>2, <3>3
  <2>13. ASSUME NEW u \in Newer' \ Entries' PROVE m = 2 * depth /\ u < buffered'[1]
    <3>1. u # t /\ u \in Newer
      <4>1. t \in Entries'
        BY <2>7, <2>10 DEF Entries
      <4> QED
        BY <2>3, <2>13, <4>1
    <3>2. u \in Int
      BY <1>1, <3>1, NewerIn
    <3>3. 1 \in 1 .. m /\ d + 1 \in 1 .. n + 1 /\ buffered'[1] = long[d + 1]
      BY <2>6, <2>7, <2>8
    <3>4. CASE u \in Entries
      <4>1. PICK k \in 1 .. n : u = buffered[k]
        BY <3>4 DEF Entries
      <4>2. ~(k > d)
        <5> SUFFICES ASSUME k > d PROVE FALSE
          OBVIOUS
        <5>1. k - d \in 1 .. m /\ d + (k - d) = k
          BY <1>1, <2>6
        <5>2. buffered'[k - d] = u
          BY <2>2, <2>7, <4>1, <5>1
        <5>3. u \in Entries'
          BY <2>7, <5>1, <5>2 DEF Entries
        <5> QED
          BY <2>13, <5>3
      <4>3. k = 1 /\ d = 1
        BY <1>1, <2>6, <4>2
      <4>4. u = long[1] /\ 1 \in 1 .. n + 1 /\ 2 \in 1 .. n + 1
        BY <2>2, <2>6, <4>1, <4>3
      <4>5. long[1] < long[2]
        BY <2>5, <4>4
      <4>6. buffered'[1] = long[2]
        BY <3>3, <4>3
      <4> QED
        BY <2>6, <4>3, <4>4, <4>5, <4>6
    <3>5. CASE u \notin Entries
      <4>1. n = 2 * depth /\ u < buffered[1] /\ 1 \in 1 .. n
        BY <2>4, <2>6, <3>1, <3>5
      <4>2. d = 1
        BY <1>1, <4>1 DEF d
      <4>3. 1 \in 1 .. n + 1 /\ 2 \in 1 .. n + 1 /\ long[1] = buffered[1] /\ buffered'[1] = long[2]
        BY <2>2, <2>6, <3>3, <4>1, <4>2
      <4>4. long[1] < long[2]
        BY <2>5, <4>3
      <4>5. buffered[1] \in Int /\ long[2] \in Int
        BY <1>1, <2>2, <4>1, <4>3
      <4> QED
        BY <2>6, <3>2, <4>1, <4>2, <4>3, <4>4, <4>5
    <3> QED
      BY <3>4, <3>5
  <2>14. PlaybackTypes'
    BY <1>1, <1>2, <1>3, <1>5, <2>7 DEF PlaybackTypes
  <2> QED
    BY <1>2, <1>3, <2>6, <2>7, <2>9, <2>10, <2>11, <2>12, <2>13, <2>14 DEF PlaybackInv
<1> QED
  BY <1>6, <1>8, <1>9

LEMMA PlaybackStep == PlaybackInv /\ [InterpolationNext]_interpolationVars => PlaybackInv'
<1> SUFFICES ASSUME PlaybackInv, [InterpolationNext]_interpolationVars PROVE PlaybackInv'
  OBVIOUS
<1>1. CASE UNCHANGED interpolationVars
  BY <1>1 DEF interpolationVars, PlaybackInv, PlaybackTypes, Newer, Entries
<1>2. ASSUME NEW t \in ServerTimes, PushSnapshot(t) PROVE PlaybackInv'
  BY <1>2, PlaybackPushed
<1>3. CASE SnapshotReset
  <2>1. buffered' = <<>> /\ pushed' = <<>> /\ depth' = depth /\ delay' = delay
    BY <1>3 DEF SnapshotReset
  <2>2. Len(buffered') = 0 /\ Len(pushed') = 0 /\ DOMAIN pushed' = {} /\ pushed' \in Seq(Int) /\ buffered' \in Seq(Int)
    BY <2>1
  <2>3. Newer' = {} /\ Entries' = {}
    BY <2>2 DEF Newer, Entries
  <2>4. depth \in Nat \ {0} /\ delay \in Nat
    BY DEF PlaybackInv, PlaybackTypes
  <2> QED
    BY <2>1, <2>2, <2>3, <2>4, FS_EmptySet DEF PlaybackInv, PlaybackTypes
<1>4. ASSUME NEW d \in Delays, SetPlaybackDelay(d) PROVE PlaybackInv'
  <2>1. delay' \in Nat /\ UNCHANGED <<buffered, depth, pushed>>
    BY <1>4, InterpolationAssumption DEF SetPlaybackDelay
  <2>2. Newer' = Newer /\ Entries' = Entries
    BY <2>1 DEF Newer, Entries
  <2> QED
    BY <2>1, <2>2 DEF PlaybackInv, PlaybackTypes
<1> QED
  BY <1>1, <1>2, <1>3, <1>4 DEF InterpolationNext

\* What a client shows is drawn between the two snapshots next to its time, of the latest
\* that were newer than all before them.
THEOREM PlaybackSound == InterpolationSpec => []SampledIsPlayback
<1> QED
  BY PlaybackStart, PlaybackStep, PlaybackShown, PTL DEF InterpolationSpec

-----------------------------------------------------------------------------
(* The priorities of entities. *)

\* What a weight makes of a priority, and what it leaves.
Weights == Modifiers \cup {Neutral}

LEMMA WeightIs ==
    ASSUME NEW a \in Nat, NEW m \in Weights
    PROVE  /\ m \in Nat /\ Neutral \in Nat \ {0}
           /\ (a * m) \div Neutral \in Nat /\ Neutral * ((a * m) \div Neutral) <= a * m
           /\ m >= Neutral => (a * m) \div Neutral >= a
           /\ m <= Neutral => (a * m) \div Neutral <= a
<1> DEFINE p == a * m  q == p \div Neutral
<1>1. m \in Nat /\ Neutral \in Nat \ {0}
  BY PriorityAssumption DEF Weights
<1>2. p \in Nat
  BY <1>1, TimesNat
<1>3. /\ p = (Neutral * q) + (p % Neutral) /\ q \in Nat /\ p % Neutral \in Nat
      /\ p % Neutral < Neutral
  <2>1. \A x \in Nat, n \in Nat \ {0} : x = (n * (x \div n)) + (x % n) /\ x \div n \in Nat /\ x % n \in 0 .. (n - 1)
    BY Z3
  <2>2. p = (Neutral * q) + (p % Neutral) /\ q \in Nat /\ p % Neutral \in 0 .. (Neutral - 1)
    <3> HIDE DEF p
    <3> QED
      BY <1>1, <1>2, <2>1, Zenon
  <2> HIDE DEF p, q
  <2> QED
    BY <1>1, <2>2
<1> HIDE DEF p, q
<1>4. Neutral * q \in Nat /\ Neutral * q <= p /\ p < Neutral * q + Neutral
  <2>1. Neutral * q \in Nat
    BY <1>1, <1>3, TimesNat
  <2> QED
    BY <1>1, <1>2, <1>3, <2>1
<1>5. ASSUME m >= Neutral PROVE q >= a
  <2> SUFFICES ASSUME ~(q >= a) PROVE FALSE
    OBVIOUS
  <2>1. q + 1 <= a
    BY <1>3
  <2>2. (q + 1) * Neutral <= a * m
    BY <1>1, <1>3, <1>5, <2>1, TimesBound
  <2>3. (q + 1) * Neutral = Neutral * q + Neutral
    BY <1>1, <1>3, Z3
  <2> QED
    BY <1>1, <1>2, <1>4, <2>2, <2>3 DEF p
<1>6. ASSUME m <= Neutral PROVE q <= a
  <2> SUFFICES ASSUME ~(q <= a) PROVE FALSE
    OBVIOUS
  <2>1. a + 1 <= q
    BY <1>3
  <2>2. (a + 1) * Neutral <= q * Neutral
    BY <1>1, <1>3, <2>1, TimesMonotone
  <2>3. (a + 1) * Neutral = a * Neutral + Neutral /\ q * Neutral = Neutral * q /\ a * Neutral \in Nat
    BY <1>1, <1>3, Z3
  <2>4. a * m <= a * Neutral
    BY <1>1, <1>6, TimesBound
  <2> QED
    BY <1>1, <1>2, <1>4, <2>2, <2>3, <2>4 DEF p
<1> QED
  BY <1>1, <1>3, <1>4, <1>5, <1>6 DEF p, q

LEMMA NeutralCancels ==
    ASSUME NEW x \in Nat, NEW y \in Nat, x * Neutral <= Neutral * y
    PROVE  x <= y
<1> SUFFICES ASSUME y + 1 <= x PROVE FALSE
  OBVIOUS
<1>1. Neutral \in Nat \ {0}
  BY PriorityAssumption
<1>2. (y + 1) * Neutral <= x * Neutral
  BY <1>1, TimesMonotone
<1>3. (y + 1) * Neutral = Neutral * y + Neutral /\ Neutral * y \in Nat /\ x * Neutral \in Nat
  BY <1>1, Z3
<1> QED
  BY <1>1, <1>2, <1>3

\* Weighting up before the tick's share is added gains no more than after it.
LEMMA WeightsEarly ==
    ASSUME NEW a \in Nat, NEW b \in Nat, NEW m \in Weights, NEW y \in Nat,
           m >= Neutral, (a + b) * m <= Neutral * y
    PROVE  (a * m) \div Neutral + b <= y
<1> DEFINE q == (a * m) \div Neutral
<1>1. m \in Nat /\ Neutral \in Nat \ {0} /\ q \in Nat /\ Neutral * q <= a * m
  BY WeightIs
<1> HIDE DEF q
<1>2. b * Neutral <= b * m
  BY <1>1, TimesBound
<1>3. /\ (q + b) * Neutral = Neutral * q + b * Neutral /\ (a + b) * m = a * m + b * m
      /\ a * m \in Nat /\ b * m \in Nat /\ b * Neutral \in Nat /\ Neutral * q \in Nat /\ Neutral * y \in Nat
  <2>1. \A w, x, z \in Nat : (w + x) * z = w * z + x * z /\ w * z = z * w /\ w * z \in Nat
    BY Z3
  <2> QED
    BY <1>1, <2>1
<1>4. (q + b) * Neutral <= Neutral * y
  BY <1>1, <1>2, <1>3
<1>5. q + b <= y
  BY <1>1, <1>4, NeutralCancels
<1> QED
  BY <1>5 DEF q

\* The inductive invariant: PriorityTypeOK, and that an entry has these two fields.
Priorities == [base : BasePriorities, accumulated : Nat]
PriorityInv ==
    /\ PriorityTypeOK
    /\ \A e \in DOMAIN entries : entries[e] \in Priorities

LEMMA PriorityStep == PriorityInv /\ [PriorityNext]_priorityVars => PriorityInv'
<1> SUFFICES ASSUME PriorityInv, [PriorityNext]_priorityVars PROVE PriorityInv'
  OBVIOUS
<1>1. /\ DOMAIN entries \subseteq Entities /\ DOMAIN waited = DOMAIN entries
      /\ \A e \in DOMAIN entries : entries[e] \in Priorities
      /\ weighted \subseteq Entities /\ raised \in BOOLEAN
  BY DEF PriorityInv, PriorityTypeOK
<1>2. ASSUME /\ DOMAIN entries' \subseteq Entities /\ DOMAIN waited' = DOMAIN entries'
             /\ \A e \in DOMAIN entries' : entries'[e] \in Priorities
             /\ weighted' \subseteq Entities /\ raised' \in BOOLEAN
      PROVE  PriorityInv'
  BY <1>2 DEF PriorityInv, PriorityTypeOK, Priorities
<1>3. \A p \in Priorities, n \in Nat : [p EXCEPT !.accumulated = n] \in Priorities
  BY DEF Priorities
<1>4. ASSUME NEW e \in Entities, NEW base \in BasePriorities, Register(e, base) PROVE PriorityInv'
  <2>1. [base |-> base, accumulated |-> 0] \in Priorities
    BY DEF Priorities
  <2> QED
    BY <1>1, <1>2, <1>4, <2>1 DEF Register, With
<1>5. ASSUME NEW e \in DOMAIN entries, Unregister(e) PROVE PriorityInv'
  BY <1>1, <1>2, <1>5 DEF Unregister, Minus
<1>6. CASE Accumulate
  <2>1. \A e \in DOMAIN entries : entries[e].accumulated + entries[e].base \in Nat
    <3>1. \A p \in Priorities : p.accumulated \in Nat /\ p.base \in Nat
      BY PriorityAssumption DEF Priorities
    <3>2. \A a, b \in Nat : a + b \in Nat
      OBVIOUS
    <3> QED
      BY <1>1, <3>1, <3>2, Zenon
  <2>2. \A e \in DOMAIN entries :
            [entries[e] EXCEPT !.accumulated = entries[e].accumulated + entries[e].base] \in Priorities
    BY <1>1, <1>3, <2>1
  <2> QED
    BY <1>1, <1>2, <1>6, <2>2 DEF Accumulate
<1>7. ASSUME NEW e \in DOMAIN entries, NEW modifier \in Modifiers, ApplyModifier(e, modifier)
      PROVE  PriorityInv'
  <2> DEFINE n == (entries[e].accumulated * modifier) \div Neutral
  <2>1. n \in Nat
    BY <1>1, WeightIs DEF Priorities, Weights
  <2>2. entries' = [x \in DOMAIN entries |->
                        IF x = e THEN [entries[e] EXCEPT !.accumulated = n] ELSE entries[x]]
    BY <1>7 DEF ApplyModifier
  <2>3. DOMAIN waited' = DOMAIN entries /\ weighted' \subseteq Entities /\ raised' \in BOOLEAN
    BY <1>1, <1>7 DEF ApplyModifier
  <2> HIDE DEF n
  <2>4. [entries[e] EXCEPT !.accumulated = n] \in Priorities
    BY <1>1, <1>3, <2>1
  <2> QED
    BY <1>1, <1>2, <2>2, <2>3, <2>4
<1>8. CASE DrainTop
  <2>1. \A e \in DOMAIN entries : [entries[e] EXCEPT !.accumulated = 0] \in Priorities
    BY <1>1, <1>3
  <2> QED
    BY <1>1, <1>2, <1>8, <2>1 DEF DrainTop
<1>9. CASE UNCHANGED priorityVars
  BY <1>1, <1>2, <1>9 DEF priorityVars
<1> QED
  BY <1>4, <1>5, <1>6, <1>7, <1>8, <1>9 DEF PriorityNext

\* Priorities stay numbers, however entities are registered, weighted and drained.
THEOREM PrioritiesTyped == PrioritySpec => []PriorityTypeOK
<1>1. PriorityInit => PriorityInv
  BY DEF PriorityInit, PriorityInv, PriorityTypeOK
<1>2. PriorityInv => PriorityTypeOK
  BY DEF PriorityInv
<1> QED
  BY <1>1, <1>2, PriorityStep, PTL DEF PrioritySpec

-----------------------------------------------------------------------------
(* The turn of an entity. *)

\* Those that are drained before e.
Preferred(e) == {f \in DOMAIN entries : Higher(f, e)}

LEMMA HigherOrders ==
    ASSUME PriorityInv
    PROVE  /\ \A e \in DOMAIN entries : e \in Int /\ entries[e].accumulated \in Nat /\ ~Higher(e, e)
           /\ \A e, f \in DOMAIN entries : e = f \/ Higher(e, f) \/ Higher(f, e)
           /\ \A e, f, g \in DOMAIN entries : Higher(e, f) /\ Higher(f, g) => Higher(e, g)
<1>1. \A e \in DOMAIN entries : e \in Int /\ entries[e].accumulated \in Nat
  BY PriorityAssumption DEF PriorityInv, PriorityTypeOK
<1>2. \A e \in DOMAIN entries : ~Higher(e, e)
  BY <1>1 DEF Higher
<1>3. \A e, f \in DOMAIN entries : e = f \/ Higher(e, f) \/ Higher(f, e)
  BY <1>1 DEF Higher
<1>4. \A e, f, g \in DOMAIN entries : Higher(e, f) /\ Higher(f, g) => Higher(e, g)
  BY <1>1 DEF Higher
<1> QED
  BY <1>1, <1>2, <1>3, <1>4

\* How many are drained before it tells an entity from the others.
LEMMA PreferredCounts ==
    ASSUME PriorityInv, IsFiniteSet(DOMAIN entries)
    PROVE  /\ \A e \in DOMAIN entries : Cardinality(Preferred(e)) \in 0 .. (Cardinality(DOMAIN entries) - 1)
           /\ \A e, f \in DOMAIN entries : Higher(e, f) => Cardinality(Preferred(e)) < Cardinality(Preferred(f))
<1> DEFINE S == DOMAIN entries
<1>1. ASSUME NEW e \in S, NEW T \in SUBSET S, Preferred(e) \subseteq T, e \in T
      PROVE  Cardinality(Preferred(e)) < Cardinality(T)
  <2>1. e \notin Preferred(e)
    BY HigherOrders DEF Preferred
  <2>2. IsFiniteSet(T)
    BY FS_Subset
  <2>3. Cardinality(Preferred(e)) <= Cardinality(T) /\ Cardinality(Preferred(e)) # Cardinality(T)
    BY <1>1, <2>1, <2>2, FS_Subset
  <2>4. Cardinality(T) \in Nat /\ Cardinality(Preferred(e)) \in Nat
    BY <1>1, <2>2, FS_Subset, FS_CardinalityType
  <2> QED
    BY <2>3, <2>4
<1>2. \A e \in S : IsFiniteSet(Preferred(e))
  BY FS_Subset DEF Preferred
<1>3. \A e \in S : Cardinality(Preferred(e)) \in Nat /\ Cardinality(S) \in Nat
  BY <1>2, FS_CardinalityType
<1>4. \A e \in S : Cardinality(Preferred(e)) < Cardinality(S)
  BY <1>1 DEF Preferred
<1>5. \A e, f \in S : Higher(e, f) => Cardinality(Preferred(e)) < Cardinality(Preferred(f))
  <2> SUFFICES ASSUME NEW e \in S, NEW f \in S, Higher(e, f)
               PROVE  Cardinality(Preferred(e)) < Cardinality(Preferred(f))
    OBVIOUS
  <2>1. e \in Preferred(f) /\ Preferred(f) \in SUBSET S
    BY DEF Preferred
  <2>2. Preferred(e) \subseteq Preferred(f)
    BY HigherOrders DEF Preferred
  <2> QED
    BY <1>1, <2>1, <2>2
<1> QED
  BY <1>3, <1>4, <1>5

\* Sorted has every entity once, those that are drained first in front.
LEMMA SortedIs ==
    ASSUME PriorityInv, IsFiniteSet(DOMAIN entries)
    PROVE  /\ Cardinality(DOMAIN entries) \in Nat
           /\ Sorted \in [1 .. Cardinality(DOMAIN entries) -> DOMAIN entries]
           /\ \A e \in DOMAIN entries : \E i \in 1 .. Cardinality(DOMAIN entries) : Sorted[i] = e
           /\ \A i, j \in 1 .. Cardinality(DOMAIN entries) : i < j => Higher(Sorted[i], Sorted[j])
<1> DEFINE S == DOMAIN entries  n == Cardinality(S)
           rank == [e \in S |-> Cardinality(Preferred(e)) + 1]
<1>1. n \in Nat
  BY FS_CardinalityType
<1>2. rank \in [S -> 1 .. n] /\ \A e, f \in S : Higher(e, f) => rank[e] < rank[f]
  <2>1. \A e \in S : Cardinality(Preferred(e)) \in 0 .. (n - 1)
    BY PreferredCounts
  <2> DEFINE c(e) == Cardinality(Preferred(e))
  <2>2. \A e, f \in S : Higher(e, f) => c(e) < c(f)
    BY PreferredCounts
  <2>3. \A e \in S : c(e) \in 0 .. (n - 1)
    BY <2>1
  <2>4. \A e \in S : rank[e] = c(e) + 1
    OBVIOUS
  <2>5. rank \in [S -> 1 .. n]
    <3>1. \A e \in S : c(e) + 1 \in 1 .. n
      <4> HIDE DEF c, n
      <4> QED
        BY <1>1, <2>3
    <3> QED
      BY <3>1
  <2> HIDE DEF c, rank, n
  <2> QED
    BY <1>1, <2>2, <2>3, <2>4, <2>5
<1>3. \A e, f \in S : rank[e] = rank[f] => e = f
  <2>1. \A e \in S : rank[e] \in Int
    BY <1>1, <1>2
  <2> HIDE DEF rank
  <2> QED
    BY <1>2, <2>1, HigherOrders
<1>4. \A i \in 1 .. n : \E e \in S : rank[e] = i
  <2> HIDE DEF rank
  <2>1. rank \in Injection(S, 1 .. n)
    BY <1>2, <1>3, Fun_IsInj
  <2>2. IsFiniteSet(1 .. n) /\ Cardinality(1 .. n) = n
    BY <1>1, FS_Interval
  <2>3. rank \in Surjection(S, 1 .. n)
    BY <2>1, <2>2, FS_Injection
  <2> HIDE DEF n, S
  <2> QED
    BY <2>3, Fun_SurjectionProperties
<1>5. \A i \in 1 .. n : Sorted[i] \in S /\ rank[Sorted[i]] = i
  <2> SUFFICES ASSUME NEW i \in 1 .. n
               PROVE  Sorted[i] \in S /\ rank[Sorted[i]] = i
    OBVIOUS
  <2>1. PICK e \in S : rank[e] = i
    BY <1>4
  <2>2. Cardinality(Preferred(e)) \in Nat /\ i \in Int
    BY PreferredCounts, <1>1
  <2>3. Cardinality(Preferred(e)) = i - 1
    BY <2>1, <2>2
  <2>4. Sorted[i] = CHOOSE f \in S : Cardinality(Preferred(f)) = i - 1
    BY DEF Sorted, Preferred
  <2>5. Sorted[i] \in S /\ Cardinality(Preferred(Sorted[i])) = i - 1
    BY <2>3, <2>4
  <2> QED
    BY <2>2, <2>5
<1>6. Sorted \in [1 .. n -> S]
  BY <1>5 DEF Sorted
<1>7. \A e \in S : rank[e] \in 1 .. n /\ Sorted[rank[e]] = e
  <2> HIDE DEF rank
  <2> QED
    BY <1>2, <1>3, <1>5
<1>8. \A i, j \in 1 .. n : i < j => Higher(Sorted[i], Sorted[j])
  <2> SUFFICES ASSUME NEW i \in 1 .. n, NEW j \in 1 .. n, i < j
               PROVE  Higher(Sorted[i], Sorted[j])
    OBVIOUS
  <2> DEFINE e == Sorted[i]  f == Sorted[j]
  <2>1. e \in S /\ f \in S /\ rank[e] = i /\ rank[f] = j
    BY <1>5
  <2> HIDE DEF rank, e, f
  <2>2. Higher(f, e) => j < i
    BY <1>2, <2>1
  <2>3. e # f
    BY <1>1, <2>1
  <2>4. ~(j < i)
    BY <1>1
  <2>5. Higher(e, f)
    BY <2>1, <2>2, <2>3, <2>4, HigherOrders
  <2> QED
    BY <2>5 DEF e, f
<1> QED
  BY <1>1, <1>6, <1>7, <1>8

\* What selectWithinBudget has chosen after each of the first n.
Unspent == [ids |-> {}, remaining |-> BudgetBytes]
Chosing(f, n) == f = [i \in 0 .. n |-> IF i = 0 THEN Unspent ELSE IfItFits(f[i - 1], Sorted[i])]

LEMMA ChosingExists == \A n \in Nat : \E f : Chosing(f, n)
<1> DEFINE G == {n \in Nat : \E f : Chosing(f, n)}
<1>1. 0 \in G
  <2> DEFINE f == [i \in 0 .. 0 |-> Unspent]
  <2>1. f = [i \in 0 .. 0 |-> IF i = 0 THEN Unspent ELSE IfItFits(f[i - 1], Sorted[i])]
    OBVIOUS
  <2> HIDE DEF f
  <2>2. Chosing(f, 0)
    BY <2>1 DEF Chosing
  <2> QED
    BY <2>2
<1>2. ASSUME NEW n \in Nat, n \in G PROVE n + 1 \in G
  <2>1. PICK f : Chosing(f, n)
    BY <1>2
  <2> DEFINE g == [i \in 0 .. n + 1 |-> IF i = n + 1 THEN IfItFits(f[n], Sorted[n + 1]) ELSE f[i]]
  <2>2. \A j \in 0 .. n : g[j] = f[j] /\ f[j] = IF j = 0 THEN Unspent ELSE IfItFits(f[j - 1], Sorted[j])
    BY <2>1 DEF Chosing
  <2>3. g[n + 1] = IfItFits(f[n], Sorted[n + 1]) /\ DOMAIN g = 0 .. n + 1 /\ g = [i \in 0 .. n + 1 |-> g[i]]
    OBVIOUS
  <2> HIDE DEF g
  <2>4. ASSUME NEW i \in 0 .. n + 1
        PROVE  g[i] = IF i = 0 THEN Unspent ELSE IfItFits(g[i - 1], Sorted[i])
    <3>1. CASE i = n + 1
      <4>1. i - 1 = n /\ n \in 0 .. n /\ i # 0
        BY <3>1
      <4> QED
        BY <2>2, <2>3, <3>1, <4>1
    <3>2. CASE i # n + 1
      <4>1. i \in 0 .. n /\ (i # 0 => i - 1 \in 0 .. n)
        BY <3>2
      <4> QED
        BY <2>2, <4>1
    <3> QED
      BY <3>1, <3>2
  <2>5. g = [i \in 0 .. n + 1 |-> IF i = 0 THEN Unspent ELSE IfItFits(g[i - 1], Sorted[i])]
    BY <2>3, <2>4, Zenon
  <2>6. Chosing(g, n + 1)
    BY <2>5 DEF Chosing
  <2> QED
    BY <2>6
<1> HIDE DEF G
<1>3. Nat \subseteq G
  BY <1>1, <1>2, Everywhere
<1> QED
  BY <1>3 DEF G

LEMMA SelectUnfolds ==
    Cardinality(DOMAIN entries) \in Nat =>
        \E f : Chosing(f, Cardinality(DOMAIN entries)) /\ SelectWithinBudget = f[Cardinality(DOMAIN entries)].ids
<1> DEFINE n == Cardinality(DOMAIN entries)
           f == CHOOSE g : g = [i \in 0 .. n |-> IF i = 0 THEN [ids |-> {}, remaining |-> BudgetBytes]
                                                ELSE IfItFits(g[i - 1], Sorted[i])]
<1>1. SelectWithinBudget = f[n].ids
  BY Zenon DEF SelectWithinBudget
<1>2. CASE n \in Nat
  <2>1. \E g : Chosing(g, n)
    BY <1>2, ChosingExists
  <2>2. \E g : g = [i \in 0 .. n |-> IF i = 0 THEN [ids |-> {}, remaining |-> BudgetBytes]
                                   ELSE IfItFits(g[i - 1], Sorted[i])]
    BY <2>1, Zenon DEF Chosing, Unspent
  <2>3. f = [i \in 0 .. n |-> IF i = 0 THEN [ids |-> {}, remaining |-> BudgetBytes]
                              ELSE IfItFits(f[i - 1], Sorted[i])]
    BY <2>2, Zenon
  <2> HIDE DEF f
  <2>4. Chosing(f, n)
    BY <2>3, Zenon DEF Chosing, Unspent
  <2> QED
    BY <1>1, <2>4
<1> QED
  BY <1>2

\* Who fits the budget is chosen, or somebody before it is.
LEMMA ChosenBefore ==
    ASSUME PriorityInv, IsFiniteSet(DOMAIN entries)
    PROVE  /\ SelectWithinBudget \subseteq DOMAIN entries
           /\ \A e \in DOMAIN entries : SizeOf[e] <= BudgetBytes /\ e \notin SelectWithinBudget =>
                  \E f \in SelectWithinBudget : Higher(f, e)
<1> DEFINE S == DOMAIN entries  n == Cardinality(S)
<1>1. /\ n \in Nat /\ Sorted \in [1 .. n -> S] /\ (\A e \in S : \E i \in 1 .. n : Sorted[i] = e)
      /\ \A i, j \in 1 .. n : i < j => Higher(Sorted[i], Sorted[j])
  BY SortedIs
<1>2. PICK f : Chosing(f, n) /\ SelectWithinBudget = f[n].ids
  BY <1>1, SelectUnfolds
<1>3. (\A e \in S : SizeOf[e] \in Nat) /\ BudgetBytes \in Nat
  BY PriorityAssumption DEF PriorityInv, PriorityTypeOK
<1> HIDE DEF n
<1>4. f[0] = Unspent /\ \A i \in 1 .. n : f[i] = IfItFits(f[i - 1], Sorted[i])
  <2>1. \A i \in 0 .. n : f[i] = IF i = 0 THEN Unspent ELSE IfItFits(f[i - 1], Sorted[i])
    BY <1>2 DEF Chosing
  <2>2. 0 \in 0 .. n /\ \A i \in 1 .. n : i \in 0 .. n /\ i # 0
    BY <1>1
  <2> QED
    BY <2>1, <2>2
\* Only those before the place are chosen, and as long as none is, nothing is spent.
<1> DEFINE PlacedAt(i) == /\ f[i].ids \subseteq {Sorted[k] : k \in 1 .. i}
                          /\ f[i].ids = {} => f[i].remaining = BudgetBytes
           G == {i \in Nat : i \in 0 .. n => PlacedAt(i)}
<1>5. \A i \in 1 .. n :
          f[i].ids = IF SizeOf[Sorted[i]] > f[i - 1].remaining THEN f[i - 1].ids ELSE f[i - 1].ids \cup {Sorted[i]}
  <2> SUFFICES ASSUME NEW i \in 1 .. n
               PROVE  f[i].ids = IF SizeOf[Sorted[i]] > f[i - 1].remaining THEN f[i - 1].ids
                                 ELSE f[i - 1].ids \cup {Sorted[i]}
    OBVIOUS
  <2>1. f[i] = IfItFits(f[i - 1], Sorted[i])
    BY <1>4
  <2>2. CASE SizeOf[Sorted[i]] > f[i - 1].remaining
    BY <2>1, <2>2, Zenon DEF IfItFits
  <2>3. CASE ~(SizeOf[Sorted[i]] > f[i - 1].remaining)
    <3>1. f[i] = [ids |-> f[i - 1].ids \cup {Sorted[i]}, remaining |-> f[i - 1].remaining - SizeOf[Sorted[i]]]
      BY <2>1, <2>3, Zenon DEF IfItFits
    <3>2. f[i].ids = f[i - 1].ids \cup {Sorted[i]}
      BY <3>1
    <3> QED
      BY <2>3, <3>2, Zenon
  <2> QED
    BY <2>2, <2>3
<1>6. 0 \in G
  BY <1>4 DEF Unspent
<1>7. ASSUME NEW i \in Nat, i \in G PROVE i + 1 \in G
  <2> SUFFICES ASSUME i + 1 \in 0 .. n PROVE PlacedAt(i + 1)
    OBVIOUS
  <2>1. i \in 0 .. n /\ i + 1 \in 1 .. n /\ (i + 1) - 1 = i /\ i + 1 \in 1 .. i + 1 /\ \A k \in 1 .. i : k \in 1 .. i + 1
    BY <1>1
  <2>2. PlacedAt(i)
    BY <1>7, <2>1
  <2>3. f[i + 1] = IfItFits(f[i], Sorted[i + 1])
    BY <1>4, <2>1
  <2>4. CASE SizeOf[Sorted[i + 1]] > f[i].remaining
    <3>1. f[i + 1] = f[i]
      BY <2>3, <2>4 DEF IfItFits
    <3> QED
      BY <2>1, <2>2, <3>1
  <2>5. CASE ~(SizeOf[Sorted[i + 1]] > f[i].remaining)
    <3>1. f[i + 1].ids = f[i].ids \cup {Sorted[i + 1]}
      BY <2>3, <2>5 DEF IfItFits
    <3> QED
      BY <2>1, <2>2, <3>1
  <2> QED
    BY <2>4, <2>5
<1> HIDE DEF G
<1>8. \A i \in 0 .. n : PlacedAt(i)
  <2>1. Nat \subseteq G
    BY <1>6, <1>7, Everywhere
  <2> QED
    BY <1>1, <2>1 DEF G
\* Who is chosen stays chosen.
<1>9. ASSUME NEW i \in 0 .. n PROVE f[i].ids \subseteq f[n].ids
  <2> DEFINE H == {d \in Nat : i + d \in 0 .. n => f[i].ids \subseteq f[i + d].ids}
  <2>1. 0 \in H
    OBVIOUS
  <2>2. ASSUME NEW d \in Nat, d \in H PROVE d + 1 \in H
    <3> SUFFICES ASSUME i + (d + 1) \in 0 .. n PROVE f[i].ids \subseteq f[i + (d + 1)].ids
      OBVIOUS
    <3>1. i + d \in 0 .. n /\ i + (d + 1) \in 1 .. n /\ (i + (d + 1)) - 1 = i + d
      BY <1>1
    <3>2. f[i].ids \subseteq f[i + d].ids
      BY <2>2, <3>1
    <3> DEFINE j == i + (d + 1)
    <3>3. f[j - 1].ids \subseteq f[j].ids
      <4> HIDE DEF j
      <4>1. j \in 1 .. n
        BY <3>1 DEF j
      <4> QED
        BY <1>5, <4>1
    <3> QED
      BY <3>1, <3>2, <3>3
  <2> HIDE DEF H
  <2>3. Nat \subseteq H
    BY <2>1, <2>2, Everywhere
  <2>4. n - i \in Nat /\ i + (n - i) = n /\ n \in 0 .. n
    BY <1>1
  <2>5. n - i \in H
    BY <2>3, <2>4
  <2> QED
    BY <2>4, <2>5 DEF H
<1>10. SelectWithinBudget \subseteq S
  <2>1. n \in 0 .. n
    BY <1>1
  <2>2. f[n].ids \subseteq {Sorted[k] : k \in 1 .. n}
    BY <1>8, <2>1, Zenon
  <2> QED
    BY <1>1, <1>2, <2>2
<1>11. ASSUME NEW e \in S, SizeOf[e] <= BudgetBytes, e \notin SelectWithinBudget
       PROVE  \E g \in SelectWithinBudget : Higher(g, e)
  <2>1. PICK i \in 1 .. n : Sorted[i] = e
    BY <1>1
  <2>2. i \in 0 .. n /\ i - 1 \in 0 .. n
    BY <1>1
  <2>3. f[i - 1].ids # {}
    <3> SUFFICES ASSUME f[i - 1].ids = {} PROVE FALSE
      OBVIOUS
    <3>1. f[i - 1].remaining = BudgetBytes
      BY <1>8, <2>2
    <3>2. ~(SizeOf[Sorted[i]] > f[i - 1].remaining)
      BY <1>3, <1>11, <2>1, <3>1
    <3>3. e \in f[i].ids
      BY <1>5, <2>1, <3>2
    <3> QED
      BY <1>2, <1>9, <1>11, <2>2, <3>3
  <2>4. PICK k \in 1 .. i - 1 : Sorted[k] \in f[i - 1].ids
    <3>1. f[i - 1].ids \subseteq {Sorted[k] : k \in 1 .. i - 1}
      BY <1>8, <2>2, Zenon
    <3> QED
      BY <2>3, <3>1, Zenon
  <2>5. k \in 1 .. n /\ k < i
    BY <1>1
  <2>6. Sorted[k] \in SelectWithinBudget
    BY <1>2, <1>9, <2>2, <2>4
  <2> QED
    BY <1>1, <2>1, <2>5, <2>6
<1> QED
  BY <1>10, <1>11

\* What the steps do to the entries.
LEMMA RegistersOne ==
    ASSUME PriorityInv, NEW e \in Entities, NEW base \in BasePriorities, Register(e, base)
    PROVE  /\ raised' = raised /\ weighted' = weighted
           /\ DOMAIN entries' = DOMAIN entries \cup {e} /\ DOMAIN waited' = DOMAIN entries'
           /\ \A x \in DOMAIN entries' : x # e => x \in DOMAIN entries /\ entries'[x] = entries[x] /\ waited'[x] = waited[x]
           /\ entries'[e].accumulated = 0 /\ entries'[e].base \in BasePriorities /\ waited'[e] = 0
BY DEF PriorityInv, PriorityTypeOK, Register, With

LEMMA UnregistersOne ==
    ASSUME PriorityInv, NEW e \in DOMAIN entries, Unregister(e)
    PROVE  /\ raised' = raised /\ weighted' = weighted
           /\ DOMAIN entries' \subseteq DOMAIN entries
           /\ \A x \in DOMAIN entries' : entries'[x] = entries[x] /\ waited'[x] = waited[x]
BY DEF PriorityInv, PriorityTypeOK, Unregister, Minus

LEMMA RaisesAll ==
    ASSUME PriorityInv, Accumulate
    PROVE  /\ ~raised /\ raised' = TRUE /\ weighted' = weighted /\ waited' = waited /\ DOMAIN entries' = DOMAIN entries
           /\ \A x \in DOMAIN entries : /\ entries'[x].accumulated = entries[x].accumulated + entries[x].base
                                        /\ entries'[x].base = entries[x].base
<1>1. \A p \in Priorities, n \in Nat : [p EXCEPT !.accumulated = n].accumulated = n /\ [p EXCEPT !.accumulated = n].base = p.base
  BY DEF Priorities
<1>2. \A x \in DOMAIN entries : entries[x] \in Priorities /\ entries[x].accumulated + entries[x].base \in Nat
  <2>1. \A x \in DOMAIN entries : entries[x] \in Priorities
    BY DEF PriorityInv
  <2>2. \A p \in Priorities : p.accumulated \in Nat /\ p.base \in Nat
    BY PriorityAssumption DEF Priorities
  <2>3. \A a, b \in Nat : a + b \in Nat
    OBVIOUS
  <2> QED
    BY <2>1, <2>2, <2>3, Zenon
<1>3. \A x \in DOMAIN entries :
          entries'[x] = [entries[x] EXCEPT !.accumulated = entries[x].accumulated + entries[x].base]
  BY DEF Accumulate
<1>4. ~raised /\ raised' = TRUE /\ weighted' = weighted /\ waited' = waited /\ DOMAIN entries' = DOMAIN entries
  BY DEF Accumulate
<1>5. \A x \in DOMAIN entries : /\ entries'[x].accumulated = entries[x].accumulated + entries[x].base
                                /\ entries'[x].base = entries[x].base
  <2> SUFFICES ASSUME NEW x \in DOMAIN entries
               PROVE  /\ entries'[x].accumulated = entries[x].accumulated + entries[x].base
                      /\ entries'[x].base = entries[x].base
    OBVIOUS
  <2> DEFINE n == entries[x].accumulated + entries[x].base
  <2>1. entries[x] \in Priorities /\ n \in Nat /\ entries'[x] = [entries[x] EXCEPT !.accumulated = n]
    BY <1>2, <1>3
  <2> HIDE DEF n
  <2>2. entries'[x].accumulated = n /\ entries'[x].base = entries[x].base
    BY <1>1, <2>1
  <2> QED
    BY <2>2 DEF n
<1> QED
  BY <1>4, <1>5

LEMMA WeightsOne ==
    ASSUME PriorityInv, NEW e \in DOMAIN entries, NEW m \in Modifiers, ApplyModifier(e, m)
    PROVE  /\ raised' = raised /\ DOMAIN entries' = DOMAIN entries /\ DOMAIN waited' = DOMAIN entries
           /\ \A x \in DOMAIN entries : x # e => /\ entries'[x] = entries[x] /\ waited'[x] = waited[x]
                                                 /\ x \in weighted' <=> x \in weighted
           /\ entries'[e].accumulated = (entries[e].accumulated * m) \div Neutral
           /\ entries'[e].base = entries[e].base
           /\ waited'[e] = IF m < Neutral THEN 0 ELSE waited[e]
           /\ m > Neutral => e \notin weighted /\ e \in weighted'
           /\ ~(m > Neutral) => weighted' = weighted
<1> DEFINE n == (entries[e].accumulated * m) \div Neutral
<1>1. entries[e] \in Priorities /\ entries[e].accumulated \in Nat /\ DOMAIN waited = DOMAIN entries
  BY DEF PriorityInv, PriorityTypeOK, Priorities
<1>2. n \in Nat
  BY <1>1, WeightIs DEF Weights
<1>3. entries' = [x \in DOMAIN entries |-> IF x = e THEN [entries[e] EXCEPT !.accumulated = n] ELSE entries[x]]
  BY DEF ApplyModifier
<1>4. \A p \in Priorities, k \in Nat : [p EXCEPT !.accumulated = k].accumulated = k /\ [p EXCEPT !.accumulated = k].base = p.base
  BY DEF Priorities
<1>5. entries'[e].accumulated = n /\ entries'[e].base = entries[e].base
  <2> HIDE DEF n
  <2> QED
    BY <1>1, <1>2, <1>3, <1>4, Zenon
<1>6. DOMAIN entries' = DOMAIN entries /\ \A x \in DOMAIN entries : x # e => entries'[x] = entries[x]
  BY <1>3, Zenon
<1>7. /\ waited'[e] = IF m < Neutral THEN 0 ELSE waited[e]
      /\ DOMAIN waited' = DOMAIN entries
      /\ \A x \in DOMAIN entries : x # e => waited'[x] = waited[x]
  BY <1>1, Zenon DEF ApplyModifier
<1>8. /\ raised' = raised
      /\ m > Neutral => e \notin weighted /\ weighted' = weighted \cup {e}
      /\ ~(m > Neutral) => weighted' = weighted
  BY Zenon DEF ApplyModifier
<1> QED
  BY <1>5, <1>6, <1>7, <1>8

LEMMA DrainsChosen ==
    ASSUME PriorityInv, DrainTop
    PROVE  /\ raised /\ raised' = FALSE /\ weighted' = {} /\ DOMAIN entries' = DOMAIN entries
           /\ \A x \in DOMAIN entries : x \notin SelectWithinBudget =>
                  entries'[x] = entries[x] /\ waited'[x] = waited[x] + 1
           /\ \A x \in DOMAIN entries : x \in SelectWithinBudget =>
                  entries'[x].accumulated = 0 /\ entries'[x].base \in BasePriorities /\ waited'[x] = 0
<1>1. DOMAIN waited = DOMAIN entries /\ \A x \in DOMAIN entries : entries[x] \in Priorities
  BY DEF PriorityInv, PriorityTypeOK
<1>2. /\ raised /\ raised' = FALSE /\ weighted' = {} /\ DOMAIN entries' = DOMAIN entries
      /\ \A x \in DOMAIN entries : x \notin SelectWithinBudget =>
             entries'[x] = entries[x] /\ waited'[x] = waited[x] + 1
  BY <1>1 DEF DrainTop
<1>3. \A p \in Priorities : [p EXCEPT !.accumulated = 0].accumulated = 0 /\ [p EXCEPT !.accumulated = 0].base \in BasePriorities
  BY DEF Priorities
<1>4. \A x \in DOMAIN entries : x \in SelectWithinBudget =>
          entries'[x] = [entries[x] EXCEPT !.accumulated = 0] /\ waited'[x] = 0
  BY <1>1 DEF DrainTop
<1>5. \A x \in DOMAIN entries : x \in SelectWithinBudget =>
          entries'[x].accumulated = 0 /\ entries'[x].base \in BasePriorities /\ waited'[x] = 0
  BY <1>1, <1>3, <1>4, Zenon
<1> QED
  BY <1>2, <1>5

\* The priority of an entity is at least the ticks it has waited.  One that is registered
\* after the accumulate of a tick misses it.
Waits(e) == waited[e] \in Nat /\ entries[e].accumulated + (IF raised THEN 0 ELSE 1) >= waited[e]
WaitInv ==
    /\ PriorityInv
    /\ \A e \in DOMAIN entries : Waits(e)

LEMMA WaitsStep ==
    ASSUME WaitInv, [PriorityNext]_priorityVars
    PROVE  WaitInv'
<1>1. PriorityInv /\ PriorityInv'
  BY PriorityStep DEF WaitInv
<1>2. \A e \in DOMAIN entries : Waits(e) /\ waited[e] \in Nat /\ entries[e].accumulated \in Nat /\ entries[e].base \in Nat \ {0}
  BY PriorityAssumption DEF WaitInv, Waits, PriorityInv, Priorities
<1>3. raised \in BOOLEAN
  BY <1>1 DEF PriorityInv, PriorityTypeOK
<1>4. ASSUME \A e \in DOMAIN entries' : Waits(e)' PROVE WaitInv'
  BY <1>1, <1>4 DEF WaitInv
<1>5. ASSUME raised' = raised, NEW e \in DOMAIN entries, entries'[e] = entries[e], waited'[e] = waited[e] PROVE Waits(e)'
  BY <1>2, <1>5 DEF Waits
<1>6. ASSUME NEW e, waited'[e] = 0, entries'[e].accumulated \in Nat PROVE Waits(e)'
  BY <1>6 DEF Waits
<1>7. \A e \in DOMAIN entries' : entries'[e].accumulated \in Nat
  BY <1>1 DEF PriorityInv, PriorityTypeOK
<1>8. ASSUME NEW e \in Entities, NEW base \in BasePriorities, Register(e, base) PROVE WaitInv'
  <2>1. ASSUME NEW x \in DOMAIN entries' PROVE Waits(x)'
    <3>1. CASE x = e
      BY <1>1, <1>6, <1>7, <1>8, <3>1, RegistersOne
    <3>2. CASE x # e
      BY <1>1, <1>5, <1>8, <3>2, RegistersOne
    <3> QED
      BY <3>1, <3>2
  <2> QED
    BY <1>4, <2>1
<1>9. ASSUME NEW e \in DOMAIN entries, Unregister(e) PROVE WaitInv'
  <2>1. ASSUME NEW x \in DOMAIN entries' PROVE Waits(x)'
    BY <1>1, <1>5, <1>9, UnregistersOne
  <2> QED
    BY <1>4, <2>1
<1>10. CASE Accumulate
  <2>1. ASSUME NEW x \in DOMAIN entries' PROVE Waits(x)'
    <3> DEFINE a == entries[x].accumulated  b == entries[x].base  w == waited[x]
    <3>1. ~raised /\ raised' = TRUE /\ x \in DOMAIN entries /\ entries'[x].accumulated = a + b /\ waited'[x] = w
      BY <1>1, <1>10, RaisesAll
    <3>2. a \in Nat /\ b \in Nat \ {0} /\ w \in Nat /\ a + 1 >= w
      BY <1>2, <3>1 DEF Waits
    <3> HIDE DEF a, b, w
    <3>3. (a + b) + 0 >= w
      BY <3>2
    <3> QED
      BY <3>1, <3>2, <3>3 DEF Waits
  <2> QED
    BY <1>4, <2>1
<1>11. ASSUME NEW e \in DOMAIN entries, NEW m \in Modifiers, ApplyModifier(e, m) PROVE WaitInv'
  <2>1. e \in DOMAIN entries' /\ raised' = raised
    BY <1>1, <1>11, WeightsOne
  <2>2. CASE m < Neutral
    <3>1. waited'[e] = 0
      BY <1>1, <1>11, <2>2, WeightsOne
    <3> QED
      <4>1. Waits(e)'
        BY <1>6, <1>7, <2>1, <3>1
      <4>2. ASSUME NEW x \in DOMAIN entries', x # e PROVE Waits(x)'
        BY <1>1, <1>5, <1>11, <4>2, WeightsOne
      <4> QED
        BY <1>4, <4>1, <4>2
  <2>3. CASE ~(m < Neutral)
    <3> DEFINE a == entries[e].accumulated  q == (a * m) \div Neutral  w == waited[e]
    <3>1. entries'[e].accumulated = q /\ waited'[e] = w
      BY <1>1, <1>11, <2>3, WeightsOne
    <3>2. m \in Weights /\ a \in Nat /\ m \in Nat /\ Neutral \in Nat
      BY <1>2, PriorityAssumption DEF Weights
    <3>3. q \in Nat /\ q >= a
      <4>1. m >= Neutral
        BY <2>3, <3>2
      <4> QED
        BY <3>2, <4>1, WeightIs
    <3>4. w \in Nat /\ a + (IF raised THEN 0 ELSE 1) >= w
      BY <1>2 DEF Waits
    <3> HIDE DEF a, q, w
    <3>5. q + (IF raised THEN 0 ELSE 1) >= w
      BY <3>2, <3>3, <3>4
    <3>6. Waits(e)'
      BY <2>1, <3>1, <3>4, <3>5 DEF Waits
    <3>7. ASSUME NEW x \in DOMAIN entries', x # e PROVE Waits(x)'
      BY <1>1, <1>5, <1>11, <3>7, WeightsOne
    <3> QED
      BY <1>4, <3>6, <3>7
  <2> QED
    BY <2>2, <2>3
<1>12. CASE DrainTop
  <2>1. ASSUME NEW x \in DOMAIN entries' PROVE Waits(x)'
    <3>1. CASE x \in SelectWithinBudget
      BY <1>1, <1>6, <1>7, <1>12, <3>1, DrainsChosen
    <3>2. CASE x \notin SelectWithinBudget
      <4> DEFINE a == entries[x].accumulated  w == waited[x]
      <4>1. raised /\ raised' = FALSE /\ x \in DOMAIN entries /\ entries'[x].accumulated = a /\ waited'[x] = w + 1
        BY <1>1, <1>12, <3>2, DrainsChosen
      <4>2. a \in Nat /\ w \in Nat /\ a + 0 >= w
        BY <1>2, <4>1 DEF Waits
      <4> HIDE DEF a, w
      <4>3. w + 1 \in Nat /\ a + 1 >= w + 1
        BY <4>2
      <4> QED
        BY <4>1, <4>3 DEF Waits
    <3> QED
      BY <3>1, <3>2
  <2> QED
    BY <1>4, <2>1
<1>13. CASE UNCHANGED priorityVars
  BY <1>13, <1>4, <1>5 DEF priorityVars
<1> QED
  BY <1>8, <1>9, <1>10, <1>11, <1>12, <1>13 DEF PriorityNext

\* peak[k + 1] is a priority that k + 1 ticks from nothing cannot exceed, if nobody is weighted
\* up twice in a tick.
Climbs(peak) ==
    \A k \in Nat :
        /\ peak[k] <= peak[k + 1]
        /\ \A p \in 0 .. peak[k], base \in BasePriorities, m \in Weights : (p + base) * m <= Neutral * peak[k + 1]

LEMMA PeaksGrow ==
    ASSUME NEW peak \in [Nat -> Nat], Climbs(peak), NEW i \in Nat, NEW k \in Nat, i <= k
    PROVE  peak[i] <= peak[k]
<1> DEFINE H == {d \in Nat : peak[i] <= peak[i + d]}
<1>1. 0 \in H
  OBVIOUS
<1>2. ASSUME NEW d \in Nat, d \in H PROVE d + 1 \in H
  <2>1. peak[i + d] <= peak[(i + d) + 1] /\ (i + d) + 1 = i + (d + 1)
    BY DEF Climbs
  <2>2. peak[i] \in Nat /\ peak[i + d] \in Nat /\ peak[i + (d + 1)] \in Nat /\ peak[i] <= peak[i + d]
    BY <1>2
  <2>3. peak[i] <= peak[i + (d + 1)]
    BY <2>1, <2>2
  <2> QED
    BY <2>3
<1> HIDE DEF H
<1>3. k - i \in H
  BY <1>1, <1>2, Everywhere
<1> QED
  BY <1>3 DEF H

\* What an entity has when the tick is drained, and that it is what k + 1 ticks from nothing
\* allow, with the weight that is still to come.
Gathers(e) == entries[e].accumulated + (IF raised THEN 0 ELSE entries[e].base)
UnderPeak(e, k, peak) ==
    e \in DOMAIN entries =>
        /\ e \in weighted => Gathers(e) <= peak[k + 1]
        /\ e \notin weighted => \A m \in Weights : Gathers(e) * m <= Neutral * peak[k + 1]

LEMMA UnderPeakIs ==
    ASSUME NEW peak \in [Nat -> Nat], PriorityInv, NEW e \in DOMAIN entries, NEW k \in Nat
    PROVE  /\ Gathers(e) \in Nat /\ peak[k + 1] \in Nat
           /\ UnderPeak(e, k, peak) => Gathers(e) <= peak[k + 1]
<1>1. Gathers(e) \in Nat /\ peak[k + 1] \in Nat
  <2>1. entries[e].accumulated \in Nat /\ entries[e].base \in Nat
    BY PriorityAssumption DEF PriorityInv, Priorities
  <2> QED
    BY <2>1 DEF Gathers
<1>2. ASSUME UnderPeak(e, k, peak) PROVE Gathers(e) <= peak[k + 1]
  <2>1. CASE e \in weighted
    BY <1>2, <2>1 DEF UnderPeak
  <2>2. CASE e \notin weighted
    <3>1. Gathers(e) * Neutral <= Neutral * peak[k + 1]
      BY <1>2, <2>2 DEF UnderPeak, Weights
    <3> QED
      BY <1>1, <3>1, NeutralCancels
  <2> QED
    BY <2>1, <2>2
<1> QED
  BY <1>1, <1>2

\* Who starts the tick from what k ticks allow is within what k + 1 allow.
LEMMA PeaksAllow ==
    ASSUME NEW peak \in [Nat -> Nat], Climbs(peak), NEW k \in Nat, NEW a \in 0 .. peak[k],
           NEW b \in BasePriorities, NEW g \in Nat, g <= a + b
    PROVE  g <= peak[k + 1] /\ \A m \in Weights : g * m <= Neutral * peak[k + 1]
<1>1. b \in Nat /\ peak[k] \in Nat /\ peak[k + 1] \in Nat
  BY PriorityAssumption
<1>2. ASSUME NEW m \in Weights PROVE g * m <= Neutral * peak[k + 1]
  <2>1. (a + b) * m <= Neutral * peak[k + 1]
    BY Zenon DEF Climbs
  <2>2. m \in Nat /\ Neutral \in Nat /\ a + b \in Nat
    BY <1>1, PriorityAssumption DEF Weights
  <2>3. g * m <= (a + b) * m
    BY <2>2, TimesMonotone
  <2>4. g * m \in Nat /\ (a + b) * m \in Nat /\ Neutral * peak[k + 1] \in Nat
    BY <1>1, <2>2, TimesNat
  <2> QED
    BY <2>1, <2>3, <2>4
<1>3. g <= peak[k + 1]
  <2>1. g * Neutral <= Neutral * peak[k + 1]
    BY <1>2 DEF Weights
  <2> QED
    BY <1>1, <2>1, NeutralCancels
<1> QED
  BY <1>2, <1>3

\* Whoever is passed over stays within one tick more, and nobody leaves its bound otherwise.
LEMMA UnderPeakStep ==
    ASSUME NEW peak \in [Nat -> Nat], Climbs(peak), PriorityInv, [PriorityNext]_priorityVars,
           NEW f, NEW k \in Nat, UnderPeak(f, k, peak)
    PROVE  (DrainTop /\ UnderPeak(f, k + 1, peak)') \/ (~DrainTop /\ UnderPeak(f, k, peak)')
<1>1. /\ raised \in BOOLEAN /\ raised' \in BOOLEAN
      /\ \A e \in DOMAIN entries : entries[e].accumulated \in Nat /\ entries[e].base \in BasePriorities
      /\ \A e \in DOMAIN entries' : entries'[e].accumulated \in Nat /\ entries'[e].base \in BasePriorities
  <2>1. PriorityInv'
    BY PriorityStep
  <2> QED
    BY <2>1 DEF PriorityInv, PriorityTypeOK, Priorities
<1>2. BasePriorities \subseteq Nat /\ \A i \in Nat : peak[i] \in Nat
  BY PriorityAssumption
<1>3. ASSUME f \notin DOMAIN entries', NEW i PROVE UnderPeak(f, i, peak)'
  BY <1>3 DEF UnderPeak
<1>4. ASSUME f \in DOMAIN entries', NEW i \in Nat, entries'[f].accumulated <= peak[i] PROVE UnderPeak(f, i, peak)'
  <2> DEFINE a == entries'[f].accumulated  b == entries'[f].base  g == a + (IF raised' THEN 0 ELSE b)
  <2>1. a \in Nat /\ b \in BasePriorities /\ b \in Nat /\ a <= peak[i] /\ peak[i] \in Nat
    BY <1>1, <1>2, <1>4
  <2> HIDE DEF a, b
  <2>2. a \in 0 .. peak[i] /\ g \in Nat /\ g <= a + b
    BY <2>1
  <2> HIDE DEF g
  <2>3. g <= peak[i + 1] /\ \A m \in Weights : g * m <= Neutral * peak[i + 1]
    BY <2>1, <2>2, PeaksAllow
  <2> QED
    BY <2>3 DEF UnderPeak, Gathers, a, b, g
<1>5. ASSUME f \in DOMAIN entries', entries'[f].accumulated = 0 PROVE UnderPeak(f, k, peak)'
  BY <1>2, <1>4, <1>5
<1>6. ASSUME raised' = raised, weighted' = weighted, f \in DOMAIN entries, entries'[f] = entries[f]
      PROVE  UnderPeak(f, k, peak)'
  BY <1>6 DEF UnderPeak, Gathers
<1>7. ASSUME NEW e \in Entities, NEW base \in BasePriorities, Register(e, base), f \in DOMAIN entries'
      PROVE  UnderPeak(f, k, peak)'
  <2>1. CASE f = e
    BY <1>5, <1>7, <2>1, RegistersOne
  <2>2. CASE f # e
    BY <1>6, <1>7, <2>2, RegistersOne
  <2> QED
    BY <2>1, <2>2
<1>8. ASSUME NEW e \in DOMAIN entries, Unregister(e), f \in DOMAIN entries' PROVE UnderPeak(f, k, peak)'
  BY <1>6, <1>8, UnregistersOne
<1>9. ASSUME Accumulate, f \in DOMAIN entries' PROVE UnderPeak(f, k, peak)'
  <2>1. /\ ~raised /\ raised' = TRUE /\ weighted' = weighted /\ f \in DOMAIN entries
        /\ entries'[f].accumulated = entries[f].accumulated + entries[f].base
    BY <1>9, RaisesAll
  <2>2. Gathers(f)' = Gathers(f)
    <3> DEFINE a == entries[f].accumulated  b == entries[f].base
    <3>1. a \in Nat /\ b \in BasePriorities
      BY <1>1, <2>1, Zenon
    <3>2. b \in Nat
      BY <1>2, <3>1, Zenon
    <3>3. entries'[f].accumulated = a + b /\ Gathers(f) = a + b
      BY <2>1 DEF Gathers
    <3> HIDE DEF a, b
    <3>4. (a + b) + 0 = a + b
      BY <3>1, <3>2
    <3> QED
      BY <2>1, <3>3, <3>4 DEF Gathers
  <2> QED
    BY <2>1, <2>2 DEF UnderPeak
<1>10. ASSUME NEW e \in DOMAIN entries, NEW m \in Modifiers, ApplyModifier(e, m), f \in DOMAIN entries'
       PROVE  UnderPeak(f, k, peak)'
  <2>1. CASE f # e
    <3>1. /\ raised' = raised /\ f \in DOMAIN entries /\ entries'[f] = entries[f]
          /\ f \in weighted' <=> f \in weighted
      BY <1>10, <2>1, WeightsOne
    <3> QED
      BY <3>1 DEF UnderPeak, Gathers
  <2>2. CASE f = e
    <3> DEFINE a == entries[f].accumulated  b == IF raised THEN 0 ELSE entries[f].base
               q == (a * m) \div Neutral  y == peak[k + 1]
    <3>1. a \in Nat /\ b \in Nat /\ y \in Nat /\ f \in DOMAIN entries
      <4>1. f \in DOMAIN entries
        BY <2>2
      <4>2. entries[f].accumulated \in Nat /\ entries[f].base \in BasePriorities
        BY <1>1, <4>1, Zenon
      <4>3. y \in Nat
        BY <1>2
      <4> QED
        BY <1>2, <4>1, <4>2, <4>3
    <3>2. m \in Weights /\ m \in Nat /\ Neutral \in Nat \ {0} /\ q \in Nat
      <4>1. m \in Weights
        BY DEF Weights
      <4> QED
        BY <3>1, <4>1, WeightIs
    <3>3. raised' = raised /\ entries'[f].accumulated = q /\ entries'[f].base = entries[f].base
      BY <1>10, <2>2, WeightsOne
    <3>4. Gathers(f) = a + b /\ Gathers(f)' = q + b
      BY <3>3 DEF Gathers
    <3> HIDE DEF a, b, q
    <3>5. CASE m > Neutral
      <4>1. f \notin weighted /\ f \in weighted'
        BY <1>10, <2>2, <3>5, WeightsOne
      <4>2. (a + b) * m <= Neutral * y
        BY <3>1, <3>2, <3>4, <4>1 DEF UnderPeak
      <4>3. q + b <= y
        <5> HIDE DEF y
        <5>1. m >= Neutral
          BY <3>2, <3>5
        <5> QED
          BY <3>1, <3>2, <4>2, <5>1, WeightsEarly DEF q
      <4> QED
        BY <3>4, <4>1, <4>3 DEF UnderPeak
    <3>6. CASE ~(m > Neutral)
      <4>1. weighted' = weighted
        BY <1>10, <2>2, <3>6, WeightsOne
      <4>2. q <= a
        <5>1. m <= Neutral
          BY <3>2, <3>6
        <5> QED
          BY <3>1, <3>2, <5>1, WeightIs DEF q
      <4>3. q + b \in Nat /\ a + b \in Nat /\ q + b <= a + b
        BY <3>1, <3>2, <4>2
      <4>4. CASE f \in weighted
        <5>1. a + b <= y
          BY <3>1, <3>4, <4>4 DEF UnderPeak
        <5>2. q + b <= y
          <6> HIDE DEF y
          <6> QED
            BY <3>1, <4>3, <5>1
        <5> QED
          BY <3>4, <4>1, <4>4, <5>2 DEF UnderPeak
      <4>5. CASE f \notin weighted
        <5>1. ASSUME NEW n \in Weights PROVE (q + b) * n <= Neutral * y
          <6>1. (a + b) * n <= Neutral * y
            BY <3>1, <3>4, <4>5 DEF UnderPeak
          <6>2. n \in Nat
            BY PriorityAssumption DEF Weights
          <6> HIDE DEF y
          <6>3. (q + b) * n <= (a + b) * n
            BY <4>3, <6>2, TimesMonotone
          <6>4. (q + b) * n \in Nat /\ (a + b) * n \in Nat /\ Neutral * y \in Nat
            BY <3>1, <3>2, <4>3, <6>2, TimesNat
          <6> QED
            BY <6>1, <6>3, <6>4
        <5> QED
          BY <3>4, <4>1, <4>5, <5>1 DEF UnderPeak
      <4> QED
        BY <4>4, <4>5
    <3> QED
      BY <3>5, <3>6
  <2> QED
    BY <2>1, <2>2
<1>11. CASE DrainTop /\ f \in DOMAIN entries'
  <2> SUFFICES UnderPeak(f, k + 1, peak)'
    BY <1>11
  <2>1. CASE f \in SelectWithinBudget
    <3>1. f \in DOMAIN entries' /\ entries'[f].accumulated = 0 /\ peak[k + 1] \in Nat
      BY <1>2, <1>11, <2>1, DrainsChosen
    <3>2. entries'[f].accumulated <= peak[k + 1] /\ k + 1 \in Nat
      BY <3>1
    <3> QED
      BY <1>4, <1>11, <3>1, <3>2
  <2>2. CASE f \notin SelectWithinBudget
    <3>1. raised /\ f \in DOMAIN entries /\ entries'[f] = entries[f]
      BY <1>11, <2>2, DrainsChosen
    <3>2. Gathers(f) <= peak[k + 1]
      BY <3>1, UnderPeakIs
    <3>3. entries'[f].accumulated <= peak[k + 1]
      BY <1>1, <3>1, <3>2 DEF Gathers
    <3>4. UnderPeak(f, k + 1, peak)'
      BY <1>4, <1>11, <3>3
    <3> QED
      BY <1>11, <3>4
  <2> QED
    BY <2>1, <2>2
<1>12. ASSUME UNCHANGED priorityVars, f \in DOMAIN entries' PROVE UnderPeak(f, k, peak)'
  BY <1>6, <1>12 DEF priorityVars
<1>13. CASE DrainTop
  BY <1>3, <1>11, <1>13
<1>14. CASE ~DrainTop
  BY <1>3, <1>7, <1>8, <1>9, <1>10, <1>12, <1>14 DEF PriorityNext
<1> QED
  BY <1>13, <1>14

\* Who is drained is within any bound.
LEMMA UnderPeakAfresh ==
    ASSUME NEW peak \in [Nat -> Nat], Climbs(peak), PriorityInv, DrainTop,
           NEW f \in SelectWithinBudget, f \in DOMAIN entries, NEW k \in Nat
    PROVE  UnderPeak(f, k, peak)'
<1> DEFINE b == entries'[f].base
<1>1. entries'[f].accumulated = 0 /\ b \in BasePriorities /\ raised' = FALSE
  BY DrainsChosen
<1>2. b \in Nat /\ peak[k] \in Nat
  BY <1>1, PriorityAssumption
<1>3. Gathers(f)' = b
  BY <1>1, <1>2 DEF Gathers
<1> HIDE DEF b
<1>4. 0 \in 0 .. peak[k] /\ b <= 0 + b
  BY <1>2
<1>5. b <= peak[k + 1] /\ \A m \in Weights : b * m <= Neutral * peak[k + 1]
  BY <1>1, <1>2, <1>4, PeaksAllow
<1> QED
  BY <1>3, <1>5 DEF UnderPeak

-----------------------------------------------------------------------------
\* The others that are within what j ticks from nothing allow.
Fresh(e, j, peak) == {f \in Entities \ {e} : UnderPeak(f, j - 1, peak)}

\* Who has waited that long has had others sent in its place, each within the ticks since.
MadeWay(e, j, peak) ==
    SizeOf[e] <= BudgetBytes /\ waited[e] >= peak[Cardinality(Entities) - 1] + j =>
        Cardinality(Fresh(e, j, peak)) >= j
TurnsInv(peak) ==
    WaitInv /\ \A e \in DOMAIN entries, j \in 1 .. Cardinality(Entities) : MadeWay(e, j, peak)

LEMMA TurnsStep ==
    ASSUME NEW peak \in [Nat -> Nat], Climbs(peak), IsFiniteSet(Entities), TurnsInv(peak), [PriorityNext]_priorityVars
    PROVE  TurnsInv(peak)'
<1> DEFINE N == Cardinality(Entities)  top == peak[N - 1]
<1>1. WaitInv /\ WaitInv'
  BY WaitsStep DEF TurnsInv
<1>2. /\ PriorityInv /\ DOMAIN entries \subseteq Entities /\ DOMAIN entries' \subseteq Entities
      /\ DOMAIN waited = DOMAIN entries /\ DOMAIN waited' = DOMAIN entries'
  BY <1>1 DEF WaitInv, PriorityInv, PriorityTypeOK
<1>3. /\ \A e \in DOMAIN entries : waited[e] \in Nat /\ entries[e].accumulated \in Nat
      /\ \A e \in DOMAIN entries' : waited'[e] \in Nat
  BY <1>1 DEF WaitInv, Waits, PriorityInv, PriorityTypeOK
<1>4. N \in Nat /\ \A e \in Entities : N - 1 \in Nat /\ top \in Nat
  <2>1. N \in Nat
    BY FS_CardinalityType
  <2>2. ASSUME NEW e \in Entities PROVE N # 0
    BY FS_EmptySet
  <2> HIDE DEF N
  <2>3. \A e \in Entities : N - 1 \in Nat
    BY <2>1, <2>2
  <2> QED
    BY <2>1, <2>3
<1>5. \A e \in DOMAIN entries, j \in 1 .. N : MadeWay(e, j, peak)
  BY DEF TurnsInv
<1>6. ASSUME \A e \in DOMAIN entries', j \in 1 .. N : MadeWay(e, j, peak)'
      PROVE  TurnsInv(peak)'
  BY <1>1, <1>6 DEF TurnsInv
<1>7. \A e, j : /\ IsFiniteSet(Fresh(e, j, peak)) /\ IsFiniteSet(Fresh(e, j, peak)')
               /\ Cardinality(Fresh(e, j, peak)) \in Nat /\ Cardinality(Fresh(e, j, peak)') \in Nat
  <2>1. \A e, j : Fresh(e, j, peak) \subseteq Entities /\ Fresh(e, j, peak)' \subseteq Entities
    BY DEF Fresh
  <2>2. \A e, j : IsFiniteSet(Fresh(e, j, peak)) /\ IsFiniteSet(Fresh(e, j, peak)')
    BY <2>1, FS_Subset
  <2> QED
    BY <2>2, FS_CardinalityType
\* What MadeWay says after the step.
<1>8. \A e, j : (SizeOf[e] <= BudgetBytes /\ waited'[e] >= top + j => Cardinality(Fresh(e, j, peak)') >= j)
                    => MadeWay(e, j, peak)'
  BY DEF MadeWay
<1>9. \A e, j : MadeWay(e, j, peak) /\ SizeOf[e] <= BudgetBytes /\ waited[e] >= top + j
                    => Cardinality(Fresh(e, j, peak)) >= j
  BY DEF MadeWay
<1> HIDE DEF N, top
\* Between drains, nobody leaves those that are within the bound.
<1>10. ASSUME NEW e \in DOMAIN entries', NEW j \in 1 .. N, e \in DOMAIN entries, waited'[e] = waited[e], ~DrainTop
       PROVE  MadeWay(e, j, peak)'
  <2>1. j - 1 \in Nat /\ j \in Nat
    BY <1>4
  <2>2. Fresh(e, j, peak) \subseteq Fresh(e, j, peak)'
    BY <1>2, <1>10, <2>1, UnderPeakStep DEF Fresh
  <2>3. Cardinality(Fresh(e, j, peak)) <= Cardinality(Fresh(e, j, peak)')
    BY <1>7, <2>2, FS_Subset
  <2> DEFINE c == Cardinality(Fresh(e, j, peak))  d == Cardinality(Fresh(e, j, peak)')
  <2>4. SizeOf[e] <= BudgetBytes /\ waited[e] >= top + j => c >= j
    BY <1>5, <1>9, <1>10
  <2>5. c \in Nat /\ d \in Nat /\ c <= d
    BY <1>7, <2>3
  <2>6. SizeOf[e] <= BudgetBytes /\ waited[e] >= top + j => d >= j
    <3> HIDE DEF c, d
    <3> QED
      BY <2>1, <2>4, <2>5
  <2> QED
    BY <1>8, <1>10, <2>6
\* Who has just been registered, sent or weighted down has not waited.
<1>11. ASSUME NEW e \in DOMAIN entries', NEW j \in 1 .. N, waited'[e] = 0 PROVE MadeWay(e, j, peak)'
  <2>1. ~(waited'[e] >= top + j)
    BY <1>2, <1>4, <1>11
  <2> QED
    BY <1>8, <2>1
<1>12. ASSUME ~DrainTop,
              \A e \in DOMAIN entries' : waited'[e] = 0 \/ (e \in DOMAIN entries /\ waited'[e] = waited[e])
       PROVE  TurnsInv(peak)'
  <2>1. ASSUME NEW e \in DOMAIN entries', NEW j \in 1 .. N PROVE MadeWay(e, j, peak)'
    BY <1>10, <1>11, <1>12
  <2> QED
    BY <1>6, <2>1
<1>13. ASSUME NEW e \in Entities, NEW base \in BasePriorities, Register(e, base), ~DrainTop PROVE TurnsInv(peak)'
  BY <1>2, <1>12, <1>13, RegistersOne
<1>14. ASSUME NEW e \in DOMAIN entries, Unregister(e), ~DrainTop PROVE TurnsInv(peak)'
  BY <1>2, <1>12, <1>14, UnregistersOne
<1>15. CASE Accumulate /\ ~DrainTop
  BY <1>2, <1>12, <1>15, RaisesAll
<1>16. ASSUME NEW e \in DOMAIN entries, NEW m \in Modifiers, ApplyModifier(e, m), ~DrainTop PROVE TurnsInv(peak)'
  <2>1. ASSUME NEW x \in DOMAIN entries' PROVE waited'[x] = 0 \/ (x \in DOMAIN entries /\ waited'[x] = waited[x])
    BY <1>2, <1>16, WeightsOne
  <2> QED
    BY <1>12, <1>16, <2>1
<1>17. CASE DrainTop
  <2>1. /\ raised /\ DOMAIN entries' = DOMAIN entries
        /\ \A x \in DOMAIN entries : x \in SelectWithinBudget => waited'[x] = 0
        /\ \A x \in DOMAIN entries : x \notin SelectWithinBudget => waited'[x] = waited[x] + 1
    BY <1>2, <1>17, DrainsChosen
  <2>2. ASSUME NEW e \in DOMAIN entries', NEW j \in 1 .. N, e \notin SelectWithinBudget,
               SizeOf[e] <= BudgetBytes, waited'[e] >= top + j
        PROVE  Cardinality(Fresh(e, j, peak)') >= j
    <3>1. e \in DOMAIN entries /\ waited'[e] = waited[e] + 1 /\ waited[e] \in Nat
      BY <1>3, <2>1, <2>2
    <3>2. PICK f \in SelectWithinBudget : f \in DOMAIN entries /\ Higher(f, e)
      <4>1. IsFiniteSet(DOMAIN entries)
        BY <1>2, FS_Subset
      <4> QED
        BY <1>2, <2>2, <3>1, <4>1, ChosenBefore
    <3>3. f # e /\ f \in Entities /\ entries[f].accumulated >= entries[e].accumulated
      BY <1>2, <1>3, <2>2, <3>1, <3>2 DEF Higher
    <3>4. j \in Nat /\ j - 1 \in Nat /\ j <= N
      BY <1>4
    <3>5. f \in Fresh(e, j, peak)'
      <4>1. UnderPeak(f, j - 1, peak)'
        BY <1>2, <1>17, <3>2, <3>4, UnderPeakAfresh
      <4> QED
        BY <3>3, <4>1 DEF Fresh
    <3>6. CASE j = 1
      <4>1. Fresh(e, j, peak)' # {}
        BY <3>5
      <4>2. Cardinality(Fresh(e, j, peak)') # 0
        BY <1>7, <4>1, FS_EmptySet
      <4> QED
        BY <1>7, <3>6, <4>2
    <3>7. CASE j # 1
      <4> DEFINE i == j - 1
      <4>1. i \in 1 .. N /\ i \in Nat /\ i - 1 \in Nat /\ (i - 1) + 1 = i /\ i <= N - 1 /\ i + 1 = j
        BY <1>4, <3>4, <3>7
      <4>2. top \in Nat /\ N - 1 \in Nat
        BY <1>2, <1>4, <3>1
      <4>3. waited[e] >= top + i /\ waited[e] > top
        <5> HIDE DEF i
        <5> QED
          BY <2>2, <3>1, <3>4, <4>1, <4>2
      <4>4. Cardinality(Fresh(e, i, peak)) >= i
        BY <1>5, <1>9, <2>2, <3>1, <4>1, <4>3
      <4>5. ~UnderPeak(f, i - 1, peak)
        <5> SUFFICES ASSUME UnderPeak(f, i - 1, peak) PROVE FALSE
          OBVIOUS
        <5>1. entries[e].accumulated + 0 >= waited[e]
          BY <1>1, <2>1, <3>1 DEF WaitInv, Waits
        <5>2. entries[f].accumulated > top
          <6> DEFINE a == entries[e].accumulated  b == entries[f].accumulated
          <6>1. a \in Nat /\ b \in Nat /\ b >= a /\ a + 0 >= waited[e]
            BY <1>3, <3>1, <3>2, <3>3, <5>1
          <6> HIDE DEF a, b, i
          <6>2. b > top
            BY <3>1, <4>2, <4>3, <6>1
          <6> QED
            BY <6>2 DEF b
        <5>3. Gathers(f) = entries[f].accumulated
          BY <1>3, <2>1, <3>2 DEF Gathers
        <5>4. Gathers(f) <= peak[i] /\ peak[i] \in Nat
          <6> HIDE DEF i
          <6>1. Gathers(f) <= peak[(i - 1) + 1]
            BY <1>2, <3>2, <4>1, UnderPeakIs
          <6> QED
            BY <4>1, <6>1
        <5>5. peak[i] <= top
          <6> HIDE DEF i
          <6> QED
            BY <4>1, <4>2, PeaksGrow DEF top
        <5> HIDE DEF i
        <5> QED
          BY <1>3, <3>2, <4>2, <5>2, <5>3, <5>4, <5>5
      <4>6. f \notin Fresh(e, i, peak)
        BY <4>5 DEF Fresh
      <4>7. Fresh(e, i, peak) \cup {f} \subseteq Fresh(e, j, peak)'
        <5>1. ASSUME NEW g \in Fresh(e, i, peak) PROVE g \in Fresh(e, j, peak)'
          <6>1. g \in Entities \ {e} /\ UnderPeak(g, i - 1, peak)
            BY DEF Fresh
          <6>2. UnderPeak(g, j - 1, peak)'
            <7> HIDE DEF i
            <7>1. UnderPeak(g, (i - 1) + 1, peak)'
              BY <1>2, <1>17, <4>1, <6>1, UnderPeakStep
            <7>2. (i - 1) + 1 = j - 1
              BY <3>4, <4>1
            <7> QED
              BY <7>1, <7>2
          <6> QED
            BY <6>1, <6>2 DEF Fresh
        <5> QED
          BY <3>5, <5>1
      <4>8. Cardinality(Fresh(e, i, peak) \cup {f}) = Cardinality(Fresh(e, i, peak)) + 1
        BY <1>7, <4>6, FS_AddElement
      <4>9. Cardinality(Fresh(e, i, peak) \cup {f}) <= Cardinality(Fresh(e, j, peak)')
        BY <1>7, <4>7, FS_Subset
      <4> DEFINE c == Cardinality(Fresh(e, i, peak))  d == Cardinality(Fresh(e, j, peak)')
      <4>10. c \in Nat /\ d \in Nat /\ c >= i /\ c + 1 <= d
        BY <1>7, <4>4, <4>8, <4>9
      <4> HIDE DEF c, i
      <4>11. d >= j
        <5> HIDE DEF d
        <5> QED
          BY <3>4, <4>1, <4>10
      <4> QED
        BY <4>11
    <3> QED
      BY <3>6, <3>7
  <2>3. ASSUME NEW e \in DOMAIN entries', NEW j \in 1 .. N PROVE MadeWay(e, j, peak)'
    <3>1. CASE e \in SelectWithinBudget
      BY <1>11, <2>1, <3>1
    <3>2. CASE e \notin SelectWithinBudget
      BY <1>8, <2>2, <3>2
    <3> QED
      BY <3>1, <3>2
  <2> QED
    BY <1>6, <2>3
<1>18. CASE (UNCHANGED priorityVars) /\ ~DrainTop
  BY <1>12, <1>18 DEF priorityVars
<1> QED
  BY <1>13, <1>14, <1>15, <1>16, <1>17, <1>18 DEF PriorityNext

\* No entity that fits the budget waits longer than it takes to outweigh whatever the others
\* can gather in one tick less than there are entities, and to let each of them go first once:
\* peak bounds the priority that ticks can gather.  The weights are whatever the user gives,
\* below 1 as well; the wait of an entity that is weighted down itself counts from then on.
THEOREM NobodyStarves ==
    ASSUME NEW peak \in [Nat -> Nat], Climbs(peak), IsFiniteSet(Entities), Entities # {},
           peak[Cardinality(Entities) - 1] + Cardinality(Entities) - 1 <= MaxWait
    PROVE  PrioritySpec => []NothingStarves
<1> DEFINE N == Cardinality(Entities)  top == peak[N - 1]
<1>1. PriorityInit => TurnsInv(peak)
  BY DEF PriorityInit, TurnsInv, WaitInv, PriorityInv, PriorityTypeOK
<1>2. TurnsInv(peak) /\ [PriorityNext]_priorityVars => TurnsInv(peak)'
  BY TurnsStep
<1>3. TurnsInv(peak) => NothingStarves
  <2> SUFFICES ASSUME TurnsInv(peak), NEW e \in DOMAIN entries, SizeOf[e] <= BudgetBytes PROVE waited[e] <= MaxWait
    BY DEF NothingStarves
  <2>1. N \in Nat \ {0}
    BY FS_CardinalityType, FS_EmptySet
  <2>2. e \in Entities /\ waited[e] \in Nat
    BY DEF TurnsInv, WaitInv, PriorityInv, PriorityTypeOK, Waits
  <2>3. N \in 1 .. N /\ N - 1 \in Nat
    <3> HIDE DEF N
    <3> QED
      BY <2>1
  <2>4. MadeWay(e, N, peak)
    BY <2>3 DEF TurnsInv
  <2>5. Cardinality(Fresh(e, N, peak)) <= N - 1 /\ Cardinality(Fresh(e, N, peak)) \in Nat
    <3>1. Fresh(e, N, peak) \subseteq Entities \ {e}
      BY DEF Fresh
    <3>2. IsFiniteSet(Entities \ {e}) /\ Cardinality(Entities \ {e}) = N - 1
      BY <2>2, FS_RemoveElement
    <3> QED
      BY <3>1, <3>2, FS_Subset, FS_CardinalityType, SMTT(30)
  <2>6. top \in Nat /\ MaxWait \in Nat /\ top + N - 1 <= MaxWait
    BY <2>3, PriorityAssumption
  <2> DEFINE c == Cardinality(Fresh(e, N, peak))
  <2>7. waited[e] >= top + N => c >= N
    BY <2>4 DEF MadeWay
  <2>8. c <= N - 1 /\ c \in Nat
    BY <2>5
  <2> HIDE DEF N, top, c
  <2> QED
    BY <2>1, <2>2, <2>6, <2>7, <2>8
<1> QED
  BY <1>1, <1>2, <1>3, PTL DEF PrioritySpec
=============================================================================
