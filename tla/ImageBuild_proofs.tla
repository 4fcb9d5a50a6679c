------------------------- MODULE ImageBuild_proofs -------------------------
(***************************************************************************)
(* The loop of main.rs that builds the image, for every platform and every *)
(* description.  The regions of memory and the emulated boot of the kernel *)
(* keep what is disjoint disjoint; the root objects are sorted; addresses  *)
(* are picked apart.  So every question to the simulation of the           *)
(* allocation is well formed, and what is written has the addresses that   *)
(* were patched in.  The simulation is sound, in every iteration, and the  *)
(* loop implements Placement.                                              *)
(***************************************************************************)
EXTENDS ImageBuild, Lemmas, TLAPS

-----------------------------------------------------------------------------
(* Powers of two.                                                          *)

\* The size of what a word can hold.
LEMMA PowerFacts ==
  /\ WordSize \in Nat \ {0}
  /\ \A b \in 0 .. WordSize : 2^b \in Nat \ {0}
  /\ KernelWords \in Nat \ {0}
  /\ \A b \in Bits : b \in 0 .. WordSize /\ b + 1 \in 0 .. WordSize /\ b \in Nat
<1>1. KernelWords \in Nat \ {0}
  BY WordAssumption DEF KernelWords
<1> QED
  BY <1>1, WordAssumption DEF Bits

\* A higher power is a multiple of a lower one.
LEMMA PowersDivide ==
  ASSUME NEW b \in 0 .. WordSize, NEW c \in b .. WordSize
  PROVE  \E k \in Nat \ {0} : 2^c = k * 2^b /\ (b < c => k > 1)
<1> DEFINE Divides(d) == \E k \in Nat \ {0} : 2^(b + d) = k * 2^b /\ (d > 0 => k > 1)
           S == {d \in Nat : b + d <= WordSize => Divides(d)}
<1>1. 0 \in S
  <2>1. 2^(b + 0) = 1 * 2^b
    BY PowerFacts
  <2> QED
    BY <2>1
<1>2. ASSUME NEW d \in Nat, d \in S
      PROVE  d + 1 \in S
  <2> SUFFICES ASSUME b + (d + 1) <= WordSize
               PROVE  Divides(d + 1)
    OBVIOUS
  <2>0. b + d <= WordSize
    BY PowerFacts
  <2>1. PICK k \in Nat \ {0} : 2^(b + d) = k * 2^b
    BY <1>2, <2>0
  <2>2. b + d \in 0 .. WordSize - 1 /\ (b + d) + 1 = b + (d + 1)
    BY PowerFacts
  <2>3. 2^(b + (d + 1)) = 2 * 2^(b + d)
    BY <2>2, WordAssumption
  <2>4. 2^b \in Nat /\ 2 * k \in Nat \ {0} /\ 2 * k > 1
    BY PowerFacts
  <2>5. 2 * (k * 2^b) = (2 * k) * 2^b
    BY <2>4
  <2> QED
    BY <2>1, <2>3, <2>4, <2>5
<1>3. Nat \subseteq S
  <2> HIDE DEF S
  <2> QED
    BY <1>1, <1>2, Induction
<1>4. c - b \in Nat /\ c - b \in S /\ b + (c - b) = c
  <2> HIDE DEF S
  <2> QED
    BY <1>3, PowerFacts
<1>5. Divides(c - b)
  BY <1>4, PowerFacts
<1> QED
  BY <1>4, <1>5, PowerFacts

\* Powers grow, and a lower one divides a higher one.
LEMMA Powers ==
  ASSUME NEW b \in 0 .. WordSize, NEW c \in 0 .. WordSize
  PROVE  /\ b <= c => 2^b <= 2^c /\ 2^c % 2^b = 0
         /\ c < b => 2^c < 2^b /\ 2^c % 2^b = 2^c
<1>a. 2^b \in Nat \ {0} /\ 2^c \in Nat \ {0}
  BY PowerFacts
<1>1. ASSUME b <= c
      PROVE  2^b <= 2^c /\ 2^c % 2^b = 0
  <2>1. PICK k \in Nat \ {0} : 2^c = k * 2^b
    <3>1. c \in b .. WordSize
      BY <1>1, PowerFacts
    <3> QED
      BY <3>1, PowersDivide
  <2> DEFINE x == 2^b
             y == 2^c
  <2>2. x \in Nat \ {0} /\ y \in Nat \ {0} /\ y = k * x
    BY <2>1, <1>a
  <2> HIDE DEF x, y
  <2>3. y = x * k + 0 /\ 0 \in 0 .. x - 1
    BY <2>2
  <2>4. y % x = 0
    BY <2>2, <2>3, QuotientUnique
  <2>5. x <= y
    BY <2>2
  <2> QED
    BY <2>4, <2>5 DEF x, y
<1>2. ASSUME c < b
      PROVE  2^c < 2^b /\ 2^c % 2^b = 2^c
  <2>1. PICK k \in Nat \ {0} : 2^b = k * 2^c /\ k > 1
    <3>1. b \in c .. WordSize
      BY <1>2, PowerFacts
    <3> QED
      BY <1>2, <3>1, PowersDivide
  <2> DEFINE x == 2^b
             y == 2^c
  <2>2. x \in Nat \ {0} /\ y \in Nat \ {0} /\ x = k * y
    BY <2>1, <1>a
  <2> HIDE DEF x, y
  <2>3. y < x
    BY <2>1, <2>2
  <2>4. y % x = y
    BY <2>2, <2>3
  <2> QED
    BY <2>3, <2>4 DEF x, y
<1> QED
  BY <1>1, <1>2

\* The highest bit of a number.
LEMMA MsbFacts ==
  ASSUME NEW n \in 1 .. KernelWords - 1
  PROVE  Msb(n) \in Bits /\ 2^Msb(n) <= n
<1> DEFINE S == {b \in Nat : b <= WordSize /\ n < 2^b}
<1>1. WordSize \in S
  BY PowerFacts DEF KernelWords
<1>2. PICK b \in S : \A c \in S : b <= c
  <2>1. S \subseteq Nat /\ S # {}
    BY <1>1
  <2> HIDE DEF S
  <2> QED
    BY <2>1, Least
<1>3. b \in Nat /\ b <= WordSize /\ n < 2^b
  BY <1>2
<1>4. b # 0
  <2>1. n \in Nat /\ ~(n < 1)
    BY PowerFacts
  <2>2. 2^0 = 1
    BY WordAssumption
  <2> QED
    BY <1>3, <2>1, <2>2
<1>5. b - 1 \in Nat /\ b - 1 \in Bits /\ b - 1 <= WordSize /\ (b - 1) + 1 = b
  BY <1>3, <1>4, PowerFacts DEF Bits
<1>6. b - 1 \notin S
  <2> HIDE DEF S
  <2> QED
    BY <1>2, <1>5
<1>7. 2^(b - 1) <= n
  <2>1. 2^(b - 1) \in Nat /\ n \in Nat
    BY <1>5, PowerFacts
  <2>2. ~(n < 2^(b - 1))
    BY <1>5, <1>6
  <2> QED
    BY <2>1, <2>2
<1>8. \E c \in Bits : 2^c <= n /\ n < 2^(c + 1)
  BY <1>3, <1>5, <1>7
<1> QED
  BY <1>8 DEF Msb

\* The lowest bit of a number.
LEMMA LsbFacts ==
  ASSUME NEW n \in 1 .. KernelWords - 1
  PROVE  Lsb(n) \in Bits
<1> DEFINE S == {b \in Nat : b <= WordSize /\ n % 2^b # 0}
<1>1. WordSize \in S
  <2>1. n % KernelWords = n
    BY PowerFacts
  <2> QED
    BY <2>1, PowerFacts DEF KernelWords
<1>2. PICK b \in S : \A c \in S : b <= c
  <2>1. S \subseteq Nat /\ S # {}
    BY <1>1
  <2> HIDE DEF S
  <2> QED
    BY <2>1, Least
<1>3. b \in Nat /\ b <= WordSize /\ n % 2^b # 0
  BY <1>2
<1>4. b # 0
  <2>1. n % 1 = 0
    BY PowerFacts
  <2> QED
    BY <1>3, <2>1, WordAssumption
<1>5. b - 1 \in Nat /\ b - 1 \in Bits /\ b - 1 <= WordSize /\ (b - 1) + 1 = b
  BY <1>3, <1>4, PowerFacts DEF Bits
<1>6. b - 1 \notin S
  <2> HIDE DEF S
  <2> QED
    BY <1>2, <1>5
<1>7. n % 2^(b - 1) = 0
  BY <1>5, <1>6
<1>8. \E c \in Bits : n % 2^c = 0 /\ n % 2^(c + 1) # 0
  BY <1>3, <1>5, <1>7
<1> QED
  BY <1>8 DEF Lsb

\* The lowest bit of a power of two is its only one.
LEMMA LsbOfPower ==
  ASSUME NEW b \in Bits
  PROVE  Lsb(2^b) = b
<1> DEFINE P(c) == 2^b % 2^c = 0 /\ 2^b % 2^(c + 1) # 0
<1>0. /\ b \in 0 .. WordSize /\ b + 1 \in 0 .. WordSize /\ b \in Nat
      /\ 2^b \in Nat \ {0}
  BY PowerFacts
<1>1. P(b)
  <2>1. 2^b % 2^b = 0
    BY <1>0, Powers
  <2>2. 2^b % 2^(b + 1) = 2^b
    BY <1>0, Powers
  <2> QED
    BY <1>0, <2>1, <2>2
<1>2. ASSUME NEW c \in Bits, P(c)
      PROVE  c = b
  <2>0. c \in 0 .. WordSize /\ c + 1 \in 0 .. WordSize /\ c \in Nat
    BY PowerFacts
  <2>1. CASE b < c
    <3>1. 2^b % 2^c = 2^b
      BY <1>0, <2>0, <2>1, Powers
    <3> QED
      BY <1>0, <1>2, <3>1
  <2>2. CASE c < b
    <3>1. 2^b % 2^(c + 1) = 0
      <4>1. c + 1 <= b
        BY <1>0, <2>0, <2>2
      <4> QED
        BY <1>0, <2>0, <4>1, Powers
    <3> QED
      BY <1>2, <3>1
  <2> QED
    BY <1>0, <2>0, <2>1, <2>2
<1> HIDE DEF P
<1>3. Lsb(2^b) = CHOOSE c \in Bits : P(c)
  BY DEF Lsb, P
<1> QED
  BY <1>1, <1>2, <1>3

-----------------------------------------------------------------------------
(* Lists of regions.                                                       *)

RegionType == [base : Nat, end : Nat]

\* Region rs[i] holds the address x, or some region does.
Holds(r, x) == r.base <= x /\ x < r.end
In(x, rs) == \E i \in DOMAIN rs : Holds(rs[i], x)

\* A list as the tool keeps it: sorted, without overlap, no region empty.
Good(rs) ==
  /\ rs \in Seq(RegionType)
  /\ \A i \in DOMAIN rs : rs[i].base < rs[i].end
  /\ \A i, j \in DOMAIN rs : i < j => rs[i].end <= rs[j].base

Below(rs, x) == \A i \in DOMAIN rs : rs[i].end <= x
Above(rs, x) == \A i \in DOMAIN rs : x <= rs[i].base

\* What being good says.
LEMMA GoodFacts ==
  ASSUME NEW rs, Good(rs)
  PROVE  /\ Len(rs) \in Nat /\ DOMAIN rs = 1 .. Len(rs) /\ rs \in Seq(RegionType)
         /\ \A i \in 1 .. Len(rs) : /\ rs[i] \in RegionType /\ rs[i].base \in Nat
                                    /\ rs[i].end \in Nat /\ rs[i].base < rs[i].end
         /\ \A i, j \in 1 .. Len(rs) : i < j => rs[i].end <= rs[j].base
<1>1. Len(rs) \in Nat /\ DOMAIN rs = 1 .. Len(rs) /\ rs \in Seq(RegionType)
  BY DEF Good
<1>2. \A i \in 1 .. Len(rs) : rs[i] \in RegionType
  BY <1>1, Elements
<1>3. \A i \in 1 .. Len(rs) : rs[i].base \in Nat /\ rs[i].end \in Nat
  BY <1>2 DEF RegionType
<1> QED
  BY <1>1, <1>2, <1>3 DEF Good

\* The empty list, and the list of one region.
LEMMA GoodSmall ==
  /\ Good(<<>>) /\ \A x : ~In(x, <<>>) /\ Below(<<>>, x) /\ Above(<<>>, x)
  /\ \A b, e \in Nat : b < e => /\ Good(<<Region(b, e)>>)
                                /\ Below(<<Region(b, e)>>, e) /\ Above(<<Region(b, e)>>, b)
                                /\ \A x : In(x, <<Region(b, e)>>) => b <= x /\ x < e
<1>1. Good(<<>>) /\ \A x : ~In(x, <<>>) /\ Below(<<>>, x) /\ Above(<<>>, x)
  BY DEF Good, In, Below, Above
<1>2. ASSUME NEW b \in Nat, NEW e \in Nat, b < e
      PROVE  /\ Good(<<Region(b, e)>>)
             /\ Below(<<Region(b, e)>>, e) /\ Above(<<Region(b, e)>>, b)
             /\ \A x : In(x, <<Region(b, e)>>) => b <= x /\ x < e
  <2> DEFINE r == Region(b, e)
  <2>1. r \in RegionType /\ r.base = b /\ r.end = e
    BY DEF Region, RegionType
  <2> HIDE DEF r
  <2>2. /\ <<r>> \in Seq(RegionType) /\ DOMAIN <<r>> = 1 .. 1 /\ <<r>>[1] = r
    BY <2>1
  <2>3. Good(<<r>>) /\ Below(<<r>>, e) /\ Above(<<r>>, b)
    BY <1>2, <2>1, <2>2 DEF Good, Below, Above
  <2>4. \A x : In(x, <<r>>) => b <= x /\ x < e
    BY <2>1, <2>2 DEF In, Holds
  <2> QED
    BY <2>3, <2>4 DEF r
<1> QED
  BY <1>1, <1>2

\* Two good lists one behind the other.
LEMMA GoodConcat ==
  ASSUME NEW p, NEW q, Good(p), Good(q), NEW y \in Nat, Below(p, y), Above(q, y)
  PROVE  /\ Good(p \o q)
         /\ \A x : In(x, p \o q) <=> In(x, p) \/ In(x, q)
         /\ \A z \in Nat : Below(p, z) /\ Below(q, z) => Below(p \o q, z)
         /\ \A z \in Nat : Above(p, z) /\ Above(q, z) => Above(p \o q, z)
<1> DEFINE m == Len(p)
           n == Len(q)
           u == p \o q
<1>1. /\ m \in Nat /\ DOMAIN p = 1 .. m /\ p \in Seq(RegionType)
      /\ n \in Nat /\ DOMAIN q = 1 .. n /\ q \in Seq(RegionType)
  BY GoodFacts
<1>2. /\ u \in Seq(RegionType) /\ Len(u) = m + n
      /\ \A i \in 1 .. m : u[i] = p[i]
      /\ \A i \in 1 .. n : u[m + i] = q[i]
  BY <1>1, Concatenated
<1>3. DOMAIN u = 1 .. m + n
  BY <1>1, <1>2
<1>p. /\ \A i \in 1 .. m : p[i].base \in Nat /\ p[i].end \in Nat /\ p[i].base < p[i].end /\ p[i].end <= y
      /\ \A i, j \in 1 .. m : i < j => p[i].end <= p[j].base
  BY <1>1, GoodFacts DEF Below
<1>q. /\ \A i \in 1 .. n : q[i].base \in Nat /\ q[i].end \in Nat /\ q[i].base < q[i].end /\ y <= q[i].base
      /\ \A i, j \in 1 .. n : i < j => q[i].end <= q[j].base
  BY <1>1, GoodFacts DEF Above
<1> HIDE DEF m, n, u
<1>4. ASSUME NEW i \in 1 .. m + n
      PROVE  \/ i \in 1 .. m /\ u[i] = p[i]
             \/ i > m /\ i - m \in 1 .. n /\ u[i] = q[i - m]
  <2>1. CASE i <= m
    BY <1>1, <1>2, <2>1
  <2>2. CASE i > m
    <3>1. i - m \in 1 .. n /\ m + (i - m) = i
      BY <1>1, <2>2
    <3> QED
      BY <1>2, <2>2, <3>1
  <2> QED
    BY <1>1, <2>1, <2>2
<1>5. \A i \in 1 .. m + n : u[i].base < u[i].end
  BY <1>4, <1>p, <1>q
<1>6. ASSUME NEW i \in 1 .. m + n, NEW j \in 1 .. m + n, i < j
      PROVE  u[i].end <= u[j].base
  <2>1. CASE j \in 1 .. m /\ u[j] = p[j]
    <3>1. i \in 1 .. m /\ u[i] = p[i]
      BY <1>1, <1>4, <1>6, <2>1
    <3> QED
      BY <1>6, <1>p, <2>1, <3>1
  <2>2. CASE j > m /\ j - m \in 1 .. n /\ u[j] = q[j - m]
    <3>1. CASE i \in 1 .. m /\ u[i] = p[i]
      <4>1. p[i].end <= y /\ y <= q[j - m].base /\ p[i].end \in Nat /\ q[j - m].base \in Nat
        BY <1>p, <1>q, <2>2, <3>1
      <4> QED
        BY <2>2, <3>1, <4>1
    <3>2. CASE i > m /\ i - m \in 1 .. n /\ u[i] = q[i - m]
      <4>1. i - m < j - m
        BY <1>1, <1>6
      <4> QED
        BY <1>q, <2>2, <3>2, <4>1
    <3> QED
      BY <1>4, <3>1, <3>2
  <2> QED
    BY <1>4, <2>1, <2>2
<1>7. Good(u)
  BY <1>2, <1>3, <1>5, <1>6 DEF Good
<1>8. ASSUME NEW x
      PROVE  In(x, u) <=> In(x, p) \/ In(x, q)
  <2>1. ASSUME In(x, u)
        PROVE  In(x, p) \/ In(x, q)
    BY <1>1, <1>3, <1>4, <2>1 DEF In
  <2>2. ASSUME NEW i \in 1 .. m, Holds(p[i], x)
        PROVE  In(x, u)
    <3>1. i \in 1 .. m + n
      BY <1>1
    <3> QED
      BY <1>2, <1>3, <2>2, <3>1 DEF In
  <2>3. ASSUME NEW i \in 1 .. n, Holds(q[i], x)
        PROVE  In(x, u)
    <3>1. m + i \in 1 .. m + n
      BY <1>1
    <3> QED
      BY <1>2, <1>3, <2>3, <3>1 DEF In
  <2> QED
    BY <1>1, <2>1, <2>2, <2>3 DEF In
<1>9. ASSUME NEW z \in Nat
      PROVE  /\ Below(p, z) /\ Below(q, z) => Below(u, z)
             /\ Above(p, z) /\ Above(q, z) => Above(u, z)
  BY <1>1, <1>3, <1>4 DEF Below, Above
<1> QED
  BY <1>7, <1>8, <1>9 DEF u

\* A part of a good list.
LEMMA GoodPart ==
  ASSUME NEW rs, Good(rs), NEW a \in 1 .. Len(rs) + 1, NEW b \in 0 .. Len(rs)
  PROVE  /\ Good(SubSeq(rs, a, b))
         /\ \A x : In(x, SubSeq(rs, a, b)) => \E i \in a .. b : Holds(rs[i], x)
         /\ \A z \in Nat : (\A i \in a .. b : rs[i].end <= z) => Below(SubSeq(rs, a, b), z)
         /\ \A z \in Nat : (\A i \in a .. b : z <= rs[i].base) => Above(SubSeq(rs, a, b), z)
<1> DEFINE v == SubSeq(rs, a, b)
<1>1. /\ Len(rs) \in Nat /\ DOMAIN rs = 1 .. Len(rs) /\ rs \in Seq(RegionType)
      /\ \A i \in 1 .. Len(rs) : rs[i] \in RegionType /\ rs[i].base < rs[i].end
      /\ \A i, j \in 1 .. Len(rs) : i < j => rs[i].end <= rs[j].base
  BY GoodFacts
<1>2. CASE b < a
  <2>1. v = <<>>
    BY <1>1, <1>2
  <2> QED
    BY <2>1, GoodSmall
<1>3. CASE a <= b
  <2>1. a \in 1 .. Len(rs) /\ b \in 1 .. Len(rs)
    BY <1>1, <1>3
  <2>2. v \in Seq(RegionType) /\ Len(v) = b - a + 1 /\ DOMAIN v = 1 .. b - a + 1
    BY <1>1, <1>3, <2>1
  <2>3. ASSUME NEW i \in 1 .. b - a + 1
        PROVE  a + i - 1 \in a .. b /\ a + i - 1 \in 1 .. Len(rs) /\ v[i] = rs[a + i - 1]
    BY <1>1, <1>3, <2>1
  <2> HIDE DEF v
  <2>4. \A i \in DOMAIN v : v[i].base < v[i].end
    BY <1>1, <2>2, <2>3
  <2>5. ASSUME NEW i \in DOMAIN v, NEW j \in DOMAIN v, i < j
        PROVE  v[i].end <= v[j].base
    <3>1. a + i - 1 < a + j - 1
      BY <1>1, <2>1, <2>2, <2>5
    <3> QED
      BY <1>1, <2>2, <2>3, <3>1
  <2>6. Good(v)
    BY <2>2, <2>4, <2>5 DEF Good
  <2>7. \A x : In(x, v) => \E i \in a .. b : Holds(rs[i], x)
    BY <2>2, <2>3 DEF In
  <2>8. /\ \A z \in Nat : (\A i \in a .. b : rs[i].end <= z) => Below(v, z)
        /\ \A z \in Nat : (\A i \in a .. b : z <= rs[i].base) => Above(v, z)
    BY <2>2, <2>3 DEF Below, Above
  <2> QED
    BY <2>6, <2>7, <2>8 DEF v
<1> QED
  BY <1>1, <1>2, <1>3

\* Two ranges without a common address.
LEMMA ApartByPoints ==
  ASSUME NEW a \in Nat, NEW b \in Nat, a < b, NEW c \in Nat, NEW d \in Nat, c < d,
         \A x \in Nat : ~(a <= x /\ x < b /\ c <= x /\ x < d)
  PROVE  b <= c \/ d <= a
<1>1. CASE a <= c
  BY <1>1
<1>2. CASE c < a
  BY <1>2
<1> QED
  BY <1>1, <1>2

\* insert_region keeps the list good, and what is in it is the new region or
\* was in it before - if nothing of the new region was.
LEMMA InsertGood ==
  ASSUME NEW rs, Good(rs), NEW b \in Nat, NEW e \in Nat, b < e,
         \A x \in Nat : b <= x /\ x < e => ~In(x, rs)
  PROVE  /\ Good(InsertInto(rs, b, e))
         /\ \A x \in Nat : In(x, InsertInto(rs, b, e)) => In(x, rs) \/ (b <= x /\ x < e)
<1> DEFINE n == Len(rs)
           P(k) == /\ k <= n => e <= rs[k].base
                   /\ \A j \in 1 .. k - 1 : e > rs[j].base
           i == CHOOSE k \in 1 .. n + 1 : P(k)
           u == InsertInto(rs, b, e)
<1>0. u = CASE i <= n /\ rs[i].base = e -> [rs EXCEPT ![i].base = b]
            [] i = n + 1 /\ rs # <<>> /\ rs[n].end = b -> [rs EXCEPT ![n].end = e]
            [] i <= n /\ rs[i].end = b -> [rs EXCEPT ![i].end = e]
            [] OTHER -> InsertAt(rs, i, Region(b, e))
  BY DEF InsertInto
<1>1. /\ n \in Nat /\ DOMAIN rs = 1 .. n /\ rs \in Seq(RegionType)
      /\ \A j \in 1 .. n : /\ rs[j] \in RegionType /\ rs[j].base \in Nat /\ rs[j].end \in Nat
                           /\ rs[j].base < rs[j].end
      /\ \A j, k \in 1 .. n : j < k => rs[j].end <= rs[k].base
  BY GoodFacts
<1> HIDE DEF n, u
<1>2. ASSUME NEW j \in 1 .. n
      PROVE  rs[j].end <= b \/ e <= rs[j].base
  <2>1. \A x \in Nat : ~(rs[j].base <= x /\ x < rs[j].end /\ b <= x /\ x < e)
    BY <1>1 DEF In, Holds
  <2>2. rs[j].base \in Nat /\ rs[j].end \in Nat /\ rs[j].base < rs[j].end
    BY <1>1
  <2> QED
    BY <2>1, <2>2, ApartByPoints
<1>3. \E k \in 1 .. n + 1 : P(k)
  <2> DEFINE S == {k \in 1 .. n + 1 : k <= n => e <= rs[k].base}
  <2>1. n + 1 \in S
    BY <1>1
  <2>2. PICK k \in S : \A j \in S : k <= j
    <3>1. \A k \in S : k \in 1 .. n + 1
      OBVIOUS
    <3> HIDE DEF S
    <3>2. \A k \in 1 .. n + 1 : k \in Nat
      OBVIOUS
    <3>3. S \subseteq Nat
      BY <3>1, <3>2
    <3> QED
      BY <2>1, <3>3, Least
  <2>3. k \in 1 .. n + 1 /\ (k <= n => e <= rs[k].base)
    BY <2>2
  <2>4. ASSUME NEW j \in 1 .. k - 1
        PROVE  e > rs[j].base
    <3>1. j \in 1 .. n /\ j < k /\ rs[j].base \in Nat
      BY <1>1, <2>3
    <3>2. j \notin S
      <4> HIDE DEF S
      <4> QED
        BY <1>1, <2>2, <2>3, <3>1
    <3> QED
      BY <1>1, <3>1, <3>2
  <2> QED
    BY <2>3, <2>4
<1>4. i \in 1 .. n + 1 /\ P(i)
  <2> HIDE DEF P
  <2> QED
    BY <1>3
<1> HIDE DEF i
<1>5. \A j \in 1 .. i - 1 : j \in 1 .. n /\ rs[j].end <= b
  <2> TAKE j \in 1 .. i - 1
  <2>1. j \in 1 .. n /\ e > rs[j].base /\ rs[j].base \in Nat
    BY <1>1, <1>4
  <2> QED
    BY <1>2, <2>1
<1>6. \A j \in i .. n : j \in 1 .. n /\ e <= rs[j].base
  <2> TAKE j \in i .. n
  <2>1. j \in 1 .. n /\ i \in 1 .. n /\ e <= rs[i].base
    BY <1>1, <1>4
  <2>2. CASE j = i
    BY <2>1, <2>2
  <2>3. CASE i < j
    <3>1. rs[i].end <= rs[j].base /\ rs[i].base < rs[i].end
      BY <1>1, <2>1, <2>3
    <3> QED
      BY <1>1, <2>1, <3>1
  <2> QED
    BY <1>1, <1>4, <2>2, <2>3
<1>7. CASE i <= n /\ rs[i].base = e
  <2>0. ~(i = n + 1) /\ ~(rs[i].end = b)
    BY <1>1, <1>4, <1>7
  <2>1. u = [rs EXCEPT ![i].base = b]
    BY <1>0, <1>7, <2>0
  <2>2. i \in 1 .. n /\ rs[i] \in RegionType
    BY <1>1, <1>4, <1>7
  <2>3. /\ DOMAIN u = 1 .. n
        /\ u[i] \in RegionType /\ u[i].base = b /\ u[i].end = rs[i].end
        /\ \A j \in 1 .. n : j # i => u[j] = rs[j]
    BY <1>1, <2>1, <2>2 DEF RegionType
  <2>4. u \in Seq(RegionType)
    <3>1. \A j \in 1 .. n : u[j] \in RegionType
      BY <1>1, <2>3
    <3>2. u = [j \in 1 .. n |-> u[j]]
      BY <1>1, <2>1, <2>2
    <3>3. u \in [1 .. n -> RegionType]
      BY <3>1, <3>2
    <3> QED
      BY <1>1, <3>3, Sequence
  <2>5. \A j \in DOMAIN u : u[j].base < u[j].end
    BY <1>1, <1>7, <2>2, <2>3
  <2>6. ASSUME NEW j \in 1 .. n, NEW k \in 1 .. n, j < k
        PROVE  u[j].end <= u[k].base
    <3>1. CASE k = i
      <4>1. j \in 1 .. i - 1 /\ j # i
        BY <2>2, <2>6, <3>1
      <4> QED
        BY <1>5, <2>3, <3>1, <4>1
    <3>2. CASE k # i
      BY <1>1, <2>2, <2>3, <2>6, <3>2
    <3> QED
      BY <3>1, <3>2
  <2>7. Good(u)
    BY <2>3, <2>4, <2>5, <2>6 DEF Good
  <2>8. ASSUME NEW x \in Nat, In(x, u)
        PROVE  In(x, rs) \/ (b <= x /\ x < e)
    <3>1. PICK j \in 1 .. n : Holds(u[j], x)
      BY <2>3, <2>8 DEF In
    <3>2. CASE j = i
      BY <1>1, <1>7, <2>2, <2>3, <3>1, <3>2 DEF In, Holds
    <3>3. CASE j # i
      BY <1>1, <2>3, <3>1, <3>3 DEF In
    <3> QED
      BY <3>2, <3>3
  <2> QED
    BY <2>7, <2>8 DEF u
<1>8. CASE ~(i <= n) /\ rs # <<>> /\ rs[n].end = b
  <2>0. i = n + 1 /\ ~(i <= n)
    BY <1>1, <1>4, <1>8
  <2>1. u = [rs EXCEPT ![n].end = e]
    BY <1>0, <1>8, <2>0
  <2>2. n \in 1 .. n /\ rs[n] \in RegionType
    BY <1>1, <1>8
  <2>3. /\ DOMAIN u = 1 .. n
        /\ u[n] \in RegionType /\ u[n].end = e /\ u[n].base = rs[n].base
        /\ \A j \in 1 .. n : j # n => u[j] = rs[j]
    BY <1>1, <2>1, <2>2 DEF RegionType
  <2>4. u \in Seq(RegionType)
    <3>1. \A j \in 1 .. n : u[j] \in RegionType
      BY <1>1, <2>3
    <3>2. u = [j \in 1 .. n |-> u[j]]
      BY <1>1, <2>1, <2>2
    <3>3. u \in [1 .. n -> RegionType]
      BY <3>1, <3>2
    <3> QED
      BY <1>1, <3>3, Sequence
  <2>5. \A j \in DOMAIN u : u[j].base < u[j].end
    <3>1. rs[n].base < e
      BY <1>1, <1>8, <2>2
    <3> QED
      BY <1>1, <2>3, <3>1
  <2>6. ASSUME NEW j \in 1 .. n, NEW k \in 1 .. n, j < k
        PROVE  u[j].end <= u[k].base
    <3>1. j # n /\ u[j] = rs[j] /\ u[k].base = rs[k].base
      BY <1>1, <2>3, <2>6
    <3> QED
      BY <1>1, <2>6, <3>1
  <2>7. Good(u)
    BY <2>3, <2>4, <2>5, <2>6 DEF Good
  <2>8. ASSUME NEW x \in Nat, In(x, u)
        PROVE  In(x, rs) \/ (b <= x /\ x < e)
    <3>1. PICK j \in 1 .. n : Holds(u[j], x)
      BY <2>3, <2>8 DEF In
    <3>2. CASE j = n
      <4>1. rs[n].base <= x /\ x < e
        BY <2>3, <3>1, <3>2 DEF Holds
      <4> QED
        BY <1>1, <1>8, <2>2, <4>1 DEF In, Holds
    <3>3. CASE j # n
      BY <1>1, <2>3, <3>1, <3>3 DEF In
    <3> QED
      BY <3>2, <3>3
  <2> QED
    BY <2>7, <2>8 DEF u
<1>9. CASE /\ ~(i <= n /\ rs[i].base = e)
           /\ ~(~(i <= n) /\ rs # <<>> /\ rs[n].end = b)
  <2> DEFINE p == SubSeq(rs, 1, i - 1)
             r == <<Region(b, e)>>
             q == SubSeq(rs, i, n)
  <2>1. ~(i <= n /\ rs[i].end = b)
    <3> SUFFICES ASSUME i <= n, rs[i].end = b
                 PROVE  FALSE
      OBVIOUS
    <3>1. i \in 1 .. n /\ e <= rs[i].base
      BY <1>4
    <3> QED
      BY <1>1, <3>1
  <2>2. u = InsertAt(rs, i, Region(b, e))
    <3>1. ~(i = n + 1 /\ rs # <<>> /\ rs[n].end = b)
      BY <1>1, <1>9
    <3> QED
      BY <1>0, <1>9, <2>1, <3>1
  <2>3. u = (p \o r) \o q
    BY <2>2 DEF InsertAt, n
  <2>4. 1 \in 1 .. n + 1 /\ i - 1 \in 0 .. n /\ i \in 1 .. n + 1 /\ n \in 0 .. n
    BY <1>1, <1>4
  <2>5. Good(p) /\ Below(p, b) /\ \A x : In(x, p) => In(x, rs)
    <3>1. /\ Good(p) /\ ((\A j \in 1 .. i - 1 : rs[j].end <= b) => Below(p, b))
          /\ \A x : In(x, p) => \E j \in 1 .. i - 1 : Holds(rs[j], x)
      BY <2>4, GoodPart DEF n
    <3> HIDE DEF p
    <3>2. Good(p) /\ Below(p, b)
      BY <1>5, <3>1
    <3>3. \A x : In(x, p) => In(x, rs)
      BY <1>1, <1>5, <3>1 DEF In
    <3> QED
      BY <3>2, <3>3
  <2>6. Good(q) /\ Above(q, e) /\ \A x : In(x, q) => In(x, rs)
    <3>1. /\ Good(q) /\ ((\A j \in i .. n : e <= rs[j].base) => Above(q, e))
          /\ \A x : In(x, q) => \E j \in i .. n : Holds(rs[j], x)
      BY <2>4, GoodPart DEF n
    <3> HIDE DEF q
    <3>2. Good(q) /\ Above(q, e)
      BY <1>6, <3>1
    <3>3. \A x : In(x, q) => In(x, rs)
      BY <1>1, <1>6, <3>1 DEF In
    <3> QED
      BY <3>2, <3>3
  <2>7. /\ Good(r) /\ Below(r, e) /\ Above(r, b)
        /\ \A x : In(x, r) => b <= x /\ x < e
    BY GoodSmall
  <2> HIDE DEF p, q, r
  <2>8. /\ Good(p \o r) /\ \A x : In(x, p \o r) <=> In(x, p) \/ In(x, r)
        /\ Below(p \o r, e)
    <3>1. Below(p, e)
      <4>1. \A j \in DOMAIN p : p[j].end \in Nat /\ p[j].end <= b
        BY <2>5, GoodFacts DEF Below
      <4> QED
        BY <4>1 DEF Below
    <3> QED
      BY <2>5, <2>7, <3>1, GoodConcat
  <2>9. Good((p \o r) \o q) /\ \A x : In(x, (p \o r) \o q) <=> In(x, p \o r) \/ In(x, q)
    <3> DEFINE pr == p \o r
    <3>1. Good(pr) /\ Below(pr, e)
      BY <2>8
    <3> HIDE DEF pr
    <3>2. Good(pr \o q) /\ \A x : In(x, pr \o q) <=> In(x, pr) \/ In(x, q)
      BY <2>6, <3>1, GoodConcat
    <3> QED
      BY <3>2 DEF pr
  <2>10. Good(u)
    BY <2>3, <2>9
  <2>11. \A x \in Nat : In(x, u) => In(x, rs) \/ (b <= x /\ x < e)
    BY <2>3, <2>5, <2>6, <2>7, <2>8, <2>9
  <2> QED
    BY <2>10, <2>11 DEF u
<1> QED
  BY <1>7, <1>8, <1>9

\* The same as the tool calls it.
LEMMA InsertRegionGood ==
  ASSUME NEW rs, Good(rs), NEW b \in Nat, NEW e \in Nat, b < e,
         \A x \in Nat : b <= x /\ x < e => ~In(x, rs)
  PROVE  /\ Good(InsertRegion(rs, b, e))
         /\ \A x \in Nat : In(x, InsertRegion(rs, b, e)) => In(x, rs) \/ (b <= x /\ x < e)
<1>1. InsertRegion(rs, b, e) = InsertInto(rs, b, e)
  BY DEF InsertRegion, Once
<1> QED
  BY <1>1, InsertGood

\* remove_region keeps the list good and takes the addresses out, if a region
\* holds all of them.
LEMMA RemoveGood ==
  ASSUME NEW rs, Good(rs), NEW b \in Nat, NEW e \in Nat, b <= e,
         Holding(rs, b, e) # {}
  PROVE  /\ Good(RemoveRegion(rs, b, e))
         /\ \A x \in Nat : In(x, RemoveRegion(rs, b, e)) => In(x, rs) /\ ~(b <= x /\ x < e)
<1> DEFINE n == Len(rs)
           H == Holding(rs, b, e)
           i == CHOOSE k \in H : \A j \in H : k <= j
           p == SubSeq(rs, 1, i - 1)
           q == SubSeq(rs, i + 1, n)
           low == IF rs[i].base = b THEN <<>> ELSE <<Region(rs[i].base, b)>>
           high == IF rs[i].end = e THEN <<>> ELSE <<Region(e, rs[i].end)>>
           u == RemoveRegion(rs, b, e)
<1>0. u = ((p \o low) \o high) \o q
  <2>1. u = RemoveFrom(rs, b, e)
    BY DEF RemoveRegion, Once
  <2>2. RemoveFrom(rs, b, e) = ((p \o low) \o high) \o q
    BY DEF RemoveFrom
  <2> QED
    BY <2>1, <2>2
<1>1. /\ n \in Nat /\ DOMAIN rs = 1 .. n /\ rs \in Seq(RegionType)
      /\ \A j \in 1 .. n : /\ rs[j] \in RegionType /\ rs[j].base \in Nat /\ rs[j].end \in Nat
                           /\ rs[j].base < rs[j].end
      /\ \A j, k \in 1 .. n : j < k => rs[j].end <= rs[k].base
  BY GoodFacts
<1> HIDE DEF n, u
<1>2. i \in H
  <2>1. H \subseteq Nat
    BY <1>1 DEF Holding
  <2>2. \E k \in H : \A j \in H : k <= j
    <3> HIDE DEF H
    <3> QED
      BY <2>1, Least DEF H
  <2> HIDE DEF H
  <2> QED
    BY <2>2
<1>3. /\ i \in 1 .. n /\ rs[i].base <= b /\ e <= rs[i].end
      /\ rs[i].base \in Nat /\ rs[i].end \in Nat /\ rs[i].base < rs[i].end
  BY <1>1, <1>2 DEF Holding
<1> HIDE DEF i
<1>4. 1 \in 1 .. n + 1 /\ i - 1 \in 0 .. n /\ i + 1 \in 1 .. n + 1 /\ n \in 0 .. n
  BY <1>1, <1>3
<1> DEFINE lo == rs[i].base
           hi == rs[i].end
<1>5. ASSUME NEW j \in 1 .. i - 1
      PROVE  j \in 1 .. n /\ rs[j].end <= lo
  BY <1>1, <1>3
<1>6. ASSUME NEW j \in i + 1 .. n
      PROVE  j \in 1 .. n /\ hi <= rs[j].base
  BY <1>1, <1>3
<1>7. lo \in Nat /\ hi \in Nat /\ lo <= b /\ e <= hi
  BY <1>3
<1>8. Good(p) /\ Below(p, lo) /\ \A x : In(x, p) => In(x, rs)
  <2>1. /\ Good(p) /\ ((\A j \in 1 .. i - 1 : rs[j].end <= lo) => Below(p, lo))
        /\ \A x : In(x, p) => \E j \in 1 .. i - 1 : Holds(rs[j], x)
    BY <1>4, <1>7, GoodPart DEF n
  <2> HIDE DEF p, lo
  <2>2. Good(p) /\ Below(p, lo)
    BY <1>5, <2>1
  <2>3. \A x : In(x, p) => In(x, rs)
    BY <1>1, <1>5, <2>1 DEF In
  <2> QED
    BY <2>2, <2>3
<1>9. Good(q) /\ Above(q, hi) /\ \A x : In(x, q) => In(x, rs)
  <2>1. /\ Good(q) /\ ((\A j \in i + 1 .. n : hi <= rs[j].base) => Above(q, hi))
        /\ \A x : In(x, q) => \E j \in i + 1 .. n : Holds(rs[j], x)
    BY <1>4, <1>7, GoodPart DEF n
  <2> HIDE DEF q, hi
  <2>2. Good(q) /\ Above(q, hi)
    BY <1>6, <2>1
  <2>3. \A x : In(x, q) => In(x, rs)
    BY <1>1, <1>6, <2>1 DEF In
  <2> QED
    BY <2>2, <2>3
<1>10. /\ Good(low) /\ Below(low, b) /\ Above(low, lo)
       /\ \A x : In(x, low) => lo <= x /\ x < b
  <2>1. CASE lo = b
    BY <2>1, GoodSmall
  <2>2. CASE lo # b
    <3>1. lo < b
      BY <1>7, <2>2
    <3> QED
      BY <1>7, <2>2, <3>1, GoodSmall
  <2> QED
    BY <2>1, <2>2
<1>11. /\ Good(high) /\ Below(high, hi) /\ Above(high, e)
       /\ \A x : In(x, high) => e <= x /\ x < hi
  <2>1. CASE hi = e
    BY <2>1, GoodSmall
  <2>2. CASE hi # e
    <3>1. e < hi
      BY <1>7, <2>2
    <3> QED
      BY <1>7, <2>2, <3>1, GoodSmall
  <2> QED
    BY <2>1, <2>2
<1>12. \A x : lo <= x /\ x < hi => In(x, rs)
  BY <1>1, <1>3 DEF In, Holds
<1>13. /\ \A x : In(x, p) => (x \in Nat => x < lo)
       /\ \A x : In(x, q) => (x \in Nat => hi <= x)
  <2>1. ASSUME NEW x \in Nat, In(x, p)
        PROVE  x < lo
    <3>1. PICK j \in DOMAIN p : Holds(p[j], x)
      BY <2>1 DEF In
    <3>2. p[j].end \in Nat /\ p[j].end <= lo
      BY <1>8, GoodFacts DEF Below
    <3> HIDE DEF p, lo
    <3> QED
      BY <1>7, <3>1, <3>2 DEF Holds
  <2>2. ASSUME NEW x \in Nat, In(x, q)
        PROVE  hi <= x
    <3>1. PICK j \in DOMAIN q : Holds(q[j], x)
      BY <2>2 DEF In
    <3>2. q[j].base \in Nat /\ hi <= q[j].base
      BY <1>9, GoodFacts DEF Above
    <3> HIDE DEF q, hi
    <3> QED
      BY <1>7, <3>1, <3>2 DEF Holds
  <2> QED
    BY <2>1, <2>2
<1> HIDE DEF p, q, low, high, lo, hi
<1> DEFINE pl == p \o low
           plh == pl \o high
<1>14. Good(pl) /\ (\A x : In(x, pl) <=> In(x, p) \/ In(x, low)) /\ Below(pl, b)
  <2>1. Below(p, b)
    <3>1. \A j \in DOMAIN p : p[j].end \in Nat /\ p[j].end <= lo
      BY <1>8, GoodFacts DEF Below
    <3> QED
      BY <1>7, <3>1 DEF Below
  <2> QED
    BY <1>7, <1>8, <1>10, <2>1, GoodConcat
<1> HIDE DEF pl
<1>15. Good(plh) /\ (\A x : In(x, plh) <=> In(x, pl) \/ In(x, high)) /\ Below(plh, hi)
  <2>1. Below(pl, hi) /\ Below(pl, e)
    <3>1. \A j \in DOMAIN pl : pl[j].end \in Nat /\ pl[j].end <= b
      BY <1>14, GoodFacts DEF Below
    <3> QED
      BY <1>7, <3>1 DEF Below
  <2> QED
    BY <1>7, <1>11, <1>14, <2>1, GoodConcat
<1> HIDE DEF plh
<1>16. Good(plh \o q) /\ (\A x : In(x, plh \o q) <=> In(x, plh) \/ In(x, q))
  BY <1>7, <1>9, <1>15, GoodConcat
<1>17. u = plh \o q
  BY <1>0 DEF plh, pl
<1>18. ASSUME NEW x \in Nat, In(x, u)
       PROVE  In(x, rs) /\ ~(b <= x /\ x < e)
  <2>1. In(x, p) \/ In(x, low) \/ In(x, high) \/ In(x, q)
    BY <1>14, <1>15, <1>16, <1>17, <1>18
  <2>2. CASE In(x, p)
    BY <1>7, <1>8, <1>13, <2>2
  <2>3. CASE In(x, low)
    BY <1>7, <1>10, <1>12, <2>3
  <2>4. CASE In(x, high)
    BY <1>7, <1>11, <1>12, <2>4
  <2>5. CASE In(x, q)
    BY <1>7, <1>9, <1>13, <2>5
  <2> QED
    BY <2>1, <2>2, <2>3, <2>4, <2>5
<1> QED
  BY <1>16, <1>17, <1>18 DEF u

\* Regions that are not empty and have no address in common.
Scattered(rs) ==
  /\ rs \in Seq(RegionType)
  /\ \A i \in DOMAIN rs : rs[i].base < rs[i].end
  /\ \A i, j \in DOMAIN rs : i # j => \A x \in Nat : ~(Holds(rs[i], x) /\ Holds(rs[j], x))

\* What being scattered says.
LEMMA ScatteredFacts ==
  ASSUME NEW rs, Scattered(rs)
  PROVE  /\ Len(rs) \in Nat /\ DOMAIN rs = 1 .. Len(rs)
         /\ \A i \in 1 .. Len(rs) : rs[i].base \in Nat /\ rs[i].end \in Nat /\ rs[i].base < rs[i].end
<1>1. Len(rs) \in Nat /\ DOMAIN rs = 1 .. Len(rs) /\ rs \in Seq(RegionType)
  BY DEF Scattered
<1>2. \A i \in 1 .. Len(rs) : rs[i] \in RegionType
  BY <1>1, Elements
<1> QED
  BY <1>1, <1>2 DEF RegionType, Scattered

\* The lists that can be there when the first k regions of rs are in.
Inserted(rs, k) ==
  {v \in Seq(RegionType) : /\ Good(v)
                           /\ \A x \in Nat : In(x, v) => \E j \in 1 .. k : Holds(rs[j], x)}

\* One more region.
LEMMA InsertOne ==
  ASSUME NEW rs, Scattered(rs), NEW k \in 1 .. Len(rs), NEW v \in Inserted(rs, k - 1)
  PROVE  InsertRegion(v, rs[k].base, rs[k].end) \in Inserted(rs, k)
<1> DEFINE u == InsertRegion(v, rs[k].base, rs[k].end)
<1>1. /\ rs[k].base \in Nat /\ rs[k].end \in Nat /\ rs[k].base < rs[k].end
      /\ Len(rs) \in Nat /\ DOMAIN rs = 1 .. Len(rs)
  BY ScatteredFacts
<1>2. Good(v) /\ \A x \in Nat : In(x, v) => \E j \in 1 .. k - 1 : Holds(rs[j], x)
  BY DEF Inserted
<1>3. ASSUME NEW x \in Nat, rs[k].base <= x, x < rs[k].end
      PROVE  ~In(x, v)
  <2>1. \A j \in 1 .. k - 1 : j \in DOMAIN rs /\ j # k /\ k \in DOMAIN rs
    BY <1>1
  <2>2. \A j \in 1 .. k - 1 : ~Holds(rs[j], x)
    BY <1>3, <2>1 DEF Scattered, Holds
  <2> QED
    BY <1>2, <2>2
<1>4. Good(u) /\ \A x \in Nat : In(x, u) => In(x, v) \/ (rs[k].base <= x /\ x < rs[k].end)
  BY <1>1, <1>2, <1>3, InsertRegionGood
<1> HIDE DEF u
<1>5. ASSUME NEW x \in Nat, In(x, u)
      PROVE  \E j \in 1 .. k : Holds(rs[j], x)
  <2>1. CASE In(x, v)
    <3>1. PICK j \in 1 .. k - 1 : Holds(rs[j], x)
      BY <1>2, <2>1
    <3>2. j \in 1 .. k
      BY <1>1
    <3> QED
      BY <3>1, <3>2
  <2>2. CASE rs[k].base <= x /\ x < rs[k].end
    BY <1>1, <2>2 DEF Holds
  <2> QED
    BY <1>4, <1>5, <2>1, <2>2
<1>6. u \in Seq(RegionType)
  BY <1>4, GoodFacts
<1>7. u \in Inserted(rs, k)
  BY <1>4, <1>5, <1>6 DEF Inserted
<1> QED
  BY <1>7 DEF u

\* All of them.
LEMMA InsertAllGood ==
  ASSUME NEW rs, Scattered(rs)
  PROVE  /\ Good(InsertAll(rs))
         /\ \A x \in Nat : In(x, InsertAll(rs)) => In(x, rs)
<1> DEFINE n == Len(rs)
           G(g) == g = [i \in 0 .. n |->
                          IF i = 0 THEN <<>> ELSE InsertRegion(g[i - 1], rs[i].base, rs[i].end)]
           g == CHOOSE g : G(g)
           V == [k \in 0 .. n |-> Inserted(rs, k)]
           pred == [k \in 1 .. n |-> k - 1]
           step == [k \in 1 .. n |-> [v \in Inserted(rs, k - 1) |->
                                        InsertRegion(v, rs[k].base, rs[k].end)]]
<1>1. n \in Nat /\ DOMAIN rs = 1 .. n
  BY ScatteredFacts
<1>2. InsertAll(rs) = g[n]
  BY DEF InsertAll
<1>3. /\ \A k \in 1 .. n : pred[k] = k - 1 /\ k - 1 \in 0 .. n
      /\ \A k \in 0 .. n : V[k] = Inserted(rs, k)
  BY <1>1
<1>4. ASSUME NEW k \in 1 .. n, NEW v \in Inserted(rs, k - 1)
      PROVE  step[k][v] = InsertRegion(v, rs[k].base, rs[k].end)
  OBVIOUS
<1>5. <<>> \in V[0]
  <2>1. <<>> \in Inserted(rs, 0)
    BY GoodSmall DEF Inserted
  <2> QED
    BY <1>1, <2>1
<1>6. \A k \in 1 .. n : \A v \in Inserted(rs, k - 1) :
        InsertRegion(v, rs[k].base, rs[k].end) \in Inserted(rs, k)
  BY InsertOne
<1> HIDE DEF V, pred, step
<1>7. PICK f : StepsOf(f, n, pred, step, <<>>) /\ \A k \in 0 .. n : f[k] \in V[k]
  <2>1. \A k \in 1 .. n : pred[k] \in 0 .. k - 1
    BY <1>1, <1>3
  <2>2. \A k \in 1 .. n : \A v \in V[pred[k]] : step[k][v] \in V[k]
    BY <1>1, <1>3, <1>4, <1>6
  <2> HIDE DEF n
  <2> QED
    BY <1>1, <1>5, <2>1, <2>2, StepsIn
<1>8. G(f)
  <2>1. /\ f = [k \in 0 .. n |-> IF k = 0 THEN <<>> ELSE step[k][f[pred[k]]]]
    BY <1>7 DEF StepsOf
  <2>2. \A k \in 1 .. n : step[k][f[pred[k]]] = InsertRegion(f[k - 1], rs[k].base, rs[k].end)
    BY <1>1, <1>3, <1>4, <1>7
  <2>3. f = [k \in 0 .. n |-> f[k]]
    BY <2>1
  <2>4. \A k \in 0 .. n : f[k] = IF k = 0 THEN <<>> ELSE step[k][f[pred[k]]]
    BY <2>1
  <2>5. \A i \in 0 .. n : f[i] = IF i = 0 THEN <<>> ELSE InsertRegion(f[i - 1], rs[i].base, rs[i].end)
    BY <1>1, <2>2, <2>4
  <2> QED
    BY <2>3, <2>5
<1>9. G(g)
  <2> HIDE DEF G
  <2> QED
    BY <1>8
<1> HIDE DEF g
<1>10. \A k \in 0 .. n : g[k] \in V[k]
  <2>1. g[0] \in V[0]
    BY <1>1, <1>5, <1>9
  <2>2. ASSUME NEW k \in 1 .. n, g[pred[k]] \in V[pred[k]]
        PROVE  g[k] \in V[k]
    <3>1. g[k] = InsertRegion(g[k - 1], rs[k].base, rs[k].end)
      BY <1>1, <1>9
    <3>2. g[k - 1] \in Inserted(rs, k - 1)
      BY <1>3, <2>2
    <3> QED
      BY <1>1, <1>3, <1>6, <3>1, <3>2
  <2>3. \A k \in 1 .. n : pred[k] \in 0 .. k - 1
    BY <1>1, <1>3
  <2> HIDE DEF n
  <2> QED
    BY <1>1, <2>1, <2>2, <2>3, Along
<1>11. g[n] \in Inserted(rs, n)
  BY <1>1, <1>3, <1>10
<1> QED
  BY <1>1, <1>2, <1>11 DEF Inserted, In

-----------------------------------------------------------------------------
(* The memory left at boot.                                                *)

\* Rounding.
LEMMA Rounding ==
  ASSUME NEW n \in Nat, NEW x \in Nat \ {0}
  PROVE  /\ RoundDown(n, x) \in Nat /\ RoundDown(n, x) <= n
         /\ RoundUp(n, x) \in Nat /\ n <= RoundUp(n, x) /\ RoundUp(n, x) % x = 0
<1>1. n % x \in 0 .. x - 1 /\ n \div x \in Nat /\ n = x * (n \div x) + (n % x)
  BY Quotient
<1>2. CASE n % x = 0
  BY <1>1, <1>2 DEF RoundDown, RoundUp
<1>3. CASE n % x # 0
  <2> DEFINE q == n \div x
             r == n % x
             m == n + x - r
  <2>0. q \in Nat /\ r \in Nat /\ r < x /\ n = x * q + r
    BY <1>1
  <2> HIDE DEF q, r
  <2>1. m = x * (q + 1) + 0 /\ m \in Nat /\ n <= m /\ q + 1 \in Nat /\ 0 \in 0 .. x - 1
    BY <2>0
  <2> HIDE DEF m
  <2>2. m % x = 0
    BY <2>1, QuotientUnique
  <2>3. RoundUp(n, x) = m /\ RoundDown(n, x) = n - r
    BY <1>3 DEF RoundUp, RoundDown, m, r
  <2> QED
    BY <2>0, <2>1, <2>2, <2>3
<1> QED
  BY <1>2, <1>3

\* A stretch of virtual memory takes some page tables of every level.
LEMMA PagingCount ==
  ASSUME NEW region \in RegionType, region.base <= region.end
  PROVE  ArchNPaging(region) \in Nat
<1> DEFINE n == Len(PagingIndexBits)
           b == [i \in 1 .. n |-> NPaging(region, PagingIndexBits[i])]
           G(g) == g = [i \in 0 .. n |->
                          IF i = 0 THEN 0 ELSE g[i - 1] + NPaging(region, PagingIndexBits[i])]
           g == CHOOSE g : G(g)
<1>1. n \in Nat /\ \A i \in 1 .. n : PagingIndexBits[i] \in Bits
  BY BootAssumption, Elements
<1>2. ArchNPaging(region) = g[n]
  BY DEF ArchNPaging
<1>3. ASSUME NEW i \in 1 .. n
      PROVE  NPaging(region, PagingIndexBits[i]) \in Nat
  <2> DEFINE x == 2^PagingIndexBits[i]
             up == RoundUp(region.end, x)
             down == RoundDown(region.base, x)
  <2>1. x \in Nat \ {0} /\ region.base \in Nat /\ region.end \in Nat
    BY <1>1, PowerFacts DEF RegionType
  <2>2. NPaging(region, PagingIndexBits[i]) = (up - down) \div x
    BY DEF NPaging
  <2> HIDE DEF x
  <2>3. up \in Nat /\ down \in Nat /\ down <= region.base /\ region.end <= up
    BY <2>1, Rounding
  <2> HIDE DEF up, down
  <2>4. up - down \in Nat
    BY <2>1, <2>3
  <2> QED
    BY <2>1, <2>2, <2>4, Quotient
<1>4. b \in [1 .. n -> Nat] /\ \A i \in 1 .. n : b[i] = NPaging(region, PagingIndexBits[i])
  BY <1>3
<1> HIDE DEF b
<1>5. PICK f : SumsOf(f, b, n)
  <2> HIDE DEF n
  <2> QED
    BY <1>1, <1>4, SumsExist
<1>6. G(f)
  <2>1. f = [k \in 0 .. n |-> f[k]]
    BY <1>5 DEF SumsOf
  <2>2. \A i \in 0 .. n : f[i] = IF i = 0 THEN 0 ELSE f[i - 1] + NPaging(region, PagingIndexBits[i])
    BY <1>1, <1>4, <1>5 DEF SumsOf
  <2> QED
    BY <2>1, <2>2
<1>7. G(g)
  <2> HIDE DEF G
  <2> QED
    BY <1>6
<1>8. \A i \in 0 .. n : g[i] = IF i = 0 THEN 0 ELSE g[i - 1] + NPaging(region, PagingIndexBits[i])
  <2> HIDE DEF g
  <2> QED
    BY <1>7
<1> HIDE DEF g, G
<1>9. g[n] \in Nat
  <2> DEFINE V == [k \in 0 .. n |-> Nat]
             pred == [k \in 1 .. n |-> k - 1]
  <2>1. /\ \A k \in 1 .. n : pred[k] = k - 1 /\ k - 1 \in 0 .. n
        /\ \A k \in 0 .. n : V[k] = Nat
    BY <1>1
  <2> HIDE DEF V, pred
  <2>2. g[0] \in V[0]
    BY <1>1, <1>8, <2>1
  <2>3. ASSUME NEW k \in 1 .. n, g[pred[k]] \in V[pred[k]]
        PROVE  g[k] \in V[k]
    <3>1. g[k - 1] \in Nat
      BY <2>1, <2>3
    <3>2. g[k] = g[k - 1] + NPaging(region, PagingIndexBits[k])
      BY <1>1, <1>8
    <3>3. NPaging(region, PagingIndexBits[k]) \in Nat
      BY <1>3
    <3>4. V[k] = Nat
      BY <1>1, <2>1
    <3> QED
      BY <3>1, <3>2, <3>3, <3>4
  <2>4. \A k \in 1 .. n : pred[k] \in 0 .. k - 1
    BY <1>1, <2>1
  <2>5. \A k \in 0 .. n : g[k] \in V[k]
    <3> HIDE DEF n
    <3> QED
      BY <1>1, <2>2, <2>3, <2>4, Along
  <2> QED
    BY <1>1, <2>1, <2>5
<1> QED
  BY <1>2, <1>9

\* So the kernel objects of the initial task have a size.
LEMMA RootserverFacts ==
  ASSUME NEW region \in RegionType, region.base <= region.end
  PROVE  RootserverSize(region) \in Nat \ {0} /\ RootserverAlignment \in Nat \ {0}
<1>1. /\ 2^RootCNodeBits \in Nat \ {0} /\ 2^PageBits \in Nat /\ 2^VSpaceBits \in Nat \ {0}
      /\ 2^PageTableBits \in Nat /\ FixedRootserver \in Nat
  BY BootAssumption, PowerFacts
<1>2. ArchNPaging(region) \in Nat
  BY PagingCount
<1>3. ArchNPaging(region) * 2^PageTableBits \in Nat
  BY <1>1, <1>2
<1>4. RootserverSize(region) \in Nat \ {0}
  <2> DEFINE a == ArchNPaging(region) * 2^PageTableBits
             c == 2^RootCNodeBits
             p == 2^PageBits
             v == 2^VSpaceBits
  <2>1. RootserverSize(region) = c + FixedRootserver + 2 * p + v + a
    BY DEF RootserverSize, PageSize
  <2>2. c \in Nat \ {0} /\ p \in Nat /\ v \in Nat /\ a \in Nat
    BY <1>1, <1>3
  <2> HIDE DEF a, c, p, v
  <2> QED
    BY <1>1, <2>1, <2>2
<1>5. RootserverAlignment \in Nat \ {0}
  BY <1>1 DEF RootserverAlignment
<1> QED
  BY <1>4, <1>5

\* What the kernel leaves when it has taken its image.
LEMMA PartialBootGood ==
  ASSUME NEW normal, Scattered(normal), NEW kernel \in RegionType, kernel.base <= kernel.end,
         Holding(InsertAll(normal), kernel.base, kernel.end) # {}
  PROVE  /\ Good(PartialBoot(normal, kernel))
         /\ \A x \in Nat : In(x, PartialBoot(normal, kernel)) =>
                             In(x, normal) /\ ~Holds(kernel, x)
<1> DEFINE rs == InsertAll(normal)
           u == RemoveRegion(rs, kernel.base, kernel.end)
<1>1. Good(rs) /\ \A x \in Nat : In(x, rs) => In(x, normal)
  BY InsertAllGood
<1>2. kernel.base \in Nat /\ kernel.end \in Nat
  BY DEF RegionType
<1>3. PartialBoot(normal, kernel) = u
  BY DEF PartialBoot
<1>4. Holding(rs, kernel.base, kernel.end) # {}
  OBVIOUS
<1> HIDE DEF rs
<1>5. Good(u) /\ \A x \in Nat : In(x, u) => In(x, rs) /\ ~(kernel.base <= x /\ x < kernel.end)
  BY <1>1, <1>2, <1>4, RemoveGood
<1> HIDE DEF u
<1> QED
  BY <1>1, <1>3, <1>5 DEF Holds

\* The place for the initial task lies in one region.
LEMMA AllocateFromFacts ==
  ASSUME NEW rs, Good(rs), NEW size \in Nat, NEW lower, FitsAbove(rs, size, lower) # {}
  PROVE  /\ AllocateFrom(rs, size, lower) \in Nat
         /\ Holding(rs, AllocateFrom(rs, size, lower), AllocateFrom(rs, size, lower) + size) # {}
<1> DEFINE F == FitsAbove(rs, size, lower)
           i == CHOOSE i \in F : \A j \in F : i <= j
<1>1. AllocateFrom(rs, size, lower) = rs[i].base
  BY DEF AllocateFrom
<1>2. /\ DOMAIN rs = 1 .. Len(rs) /\ Len(rs) \in Nat
      /\ \A k \in 1 .. Len(rs) : rs[k].base \in Nat /\ rs[k].end \in Nat
  BY GoodFacts
<1>3. i \in F
  <2>1. F \subseteq Nat
    BY <1>2 DEF FitsAbove
  <2> HIDE DEF F
  <2>2. \E k \in F : \A j \in F : k <= j
    BY <2>1, Least DEF F
  <2> QED
    BY <2>2
<1>4. i \in DOMAIN rs /\ size <= rs[i].end - rs[i].base
  BY <1>3 DEF FitsAbove, Size
<1> HIDE DEF i, F
<1>5. i \in Holding(rs, rs[i].base, rs[i].base + size)
  BY <1>2, <1>4 DEF Holding
<1> QED
  BY <1>1, <1>2, <1>4, <1>5

\* What is left without the objects of the initial task.
LEMMA WithoutRootserverGood ==
  ASSUME NEW rs, Good(rs), NEW size \in Nat \ {0}, RootserverAlignment \in Nat \ {0},
         RootserverFits(rs, size) # {}
  PROVE  /\ Good(WithoutRootserver(rs, size))
         /\ \A x \in Nat : In(x, WithoutRootserver(rs, size)) => In(x, rs)
<1> DEFINE F == RootserverFits(rs, size)
           i == Max(F)
           start == RootserverStart(rs[i], size)
           u == RemoveRegion(rs, start, start + size)
<1>1. WithoutRootserver(rs, size) = u
  <2>1. WithoutRootserver(rs, size) = TakeRootserver(rs, size)
    BY DEF WithoutRootserver, Once
  <2> QED
    BY <2>1 DEF TakeRootserver
<1>2. /\ DOMAIN rs = 1 .. Len(rs) /\ Len(rs) \in Nat
      /\ \A k \in 1 .. Len(rs) : rs[k].base \in Nat /\ rs[k].end \in Nat
  BY GoodFacts
<1>3. i \in F
  <2>1. F \subseteq Nat /\ F # {} /\ \A k \in F : k <= Len(rs)
    BY <1>2 DEF RootserverFits
  <2> HIDE DEF F
  <2>2. \E k \in F : \A j \in F : j <= k
    BY <1>2, <2>1, Greatest
  <2>3. \E k \in F : \A j \in F : k >= j
    BY <2>1, <2>2
  <2> QED
    BY <2>3 DEF Max
<1>4. /\ i \in DOMAIN rs /\ rs[i].end >= size /\ start >= rs[i].base
  BY <1>3 DEF RootserverFits
<1> HIDE DEF i, F
<1>5. start \in Nat /\ start <= rs[i].end - size
  <2> DEFINE m == rs[i].end - size
  <2>1. m \in Nat
    BY <1>2, <1>4
  <2>2. start = RoundDown(m, RootserverAlignment)
    BY DEF RootserverStart
  <2> HIDE DEF m
  <2>3. start \in Nat /\ start <= m
    BY <2>1, <2>2, Rounding
  <2> QED
    BY <2>3 DEF m
<1> HIDE DEF start
<1>6. i \in Holding(rs, start, start + size)
  BY <1>2, <1>4, <1>5 DEF Holding
<1>7. Good(u) /\ \A x \in Nat : In(x, u) => In(x, rs)
  <2>1. start + size \in Nat /\ start <= start + size
    BY <1>5
  <2> QED
    BY <1>5, <1>6, <2>1, RemoveGood
<1> QED
  BY <1>1, <1>7

-----------------------------------------------------------------------------
(* Naturally aligned powers of two.                                        *)

\* A remainder near the divisor.
LEMMA ModNear ==
  ASSUME NEW K \in Nat \ {0}, NEW y \in Int, -K <= y, y < 2 * K
  PROVE  /\ y % K \in 0 .. K - 1
         /\ y % K \in {y, y + K, y - K}
<1>1. CASE y < 0
  <2>1. y + K \in 0 .. K - 1
    BY <1>1
  <2> QED
    BY <1>1, <2>1
<1>2. CASE y \in 0 .. K - 1
  BY <1>2
<1>3. CASE y >= K
  <2>1. y - K \in 0 .. K - 1 /\ y \in Nat /\ y = K * 1 + (y - K) /\ 1 \in Nat
    BY <1>3
  <2>2. y % K = y - K
    BY <2>1, QuotientUnique
  <2> QED
    BY <2>1, <2>2
<1> QED
  BY <1>1, <1>2, <1>3

\* Kernel virtual addresses wrap around, distances and physical addresses do
\* not.
LEMMA KernelWindow ==
  ASSUME NEW b \in Nat, NEW e \in Nat, b <= e, e < KernelWords
  PROVE  /\ (PaddrToKernelVaddr(e) - PaddrToKernelVaddr(b)) % KernelWords = e - b
         /\ \A n \in 0 .. e - b :
              /\ (PaddrToKernelVaddr(e) - n) % KernelWords \in 0 .. KernelWords - 1
              /\ KernelVaddrToPaddr((PaddrToKernelVaddr(e) - n) % KernelWords) = e - n
              /\ \A sz \in 1 .. n :
                   KernelVaddrToPaddr((((PaddrToKernelVaddr(e) - n) % KernelWords) + sz) % KernelWords)
                     = e - (n - sz)
<1> DEFINE K == KernelWords
           A == VirtualBase
           ve == PaddrToKernelVaddr(e)
           vb == PaddrToKernelVaddr(b)
<1>1. K \in Nat \ {0} /\ A \in 0 .. K - 1
  BY PowerFacts, RegionsAssumption
<1>2. ve = (e + A) % K /\ vb = (b + A) % K
  BY DEF PaddrToKernelVaddr
<1>3. \A v : KernelVaddrToPaddr(v) = (v - A) % K
  BY DEF KernelVaddrToPaddr
<1> HIDE DEF K, A, ve, vb
<1>4. ve \in 0 .. K - 1 /\ ve \in {e + A, e + A + K, e + A - K}
  <2> DEFINE y == e + A
  <2>1. -K <= y /\ y < 2 * K /\ y \in Int
    BY <1>1 DEF K
  <2>2. ve = y % K
    BY <1>2
  <2> HIDE DEF y
  <2>3. ve \in 0 .. K - 1 /\ (ve = y \/ ve = y + K \/ ve = y - K)
    BY <1>1, <2>1, <2>2, ModNear
  <2> QED
    BY <1>1, <2>3 DEF y
<1>5. vb \in 0 .. K - 1 /\ vb \in {b + A, b + A + K, b + A - K}
  <2> DEFINE y == b + A
  <2>1. -K <= y /\ y < 2 * K /\ y \in Int
    BY <1>1 DEF K
  <2>2. vb = y % K
    BY <1>2
  <2> HIDE DEF y
  <2>3. vb \in 0 .. K - 1 /\ (vb = y \/ vb = y + K \/ vb = y - K)
    BY <1>1, <2>1, <2>2, ModNear
  <2> QED
    BY <1>1, <2>3 DEF y
<1>6. e < K
  BY DEF K
<1>7. (ve - vb) % K = e - b
  <2> DEFINE y == ve - vb
  <2>1. y \in Int /\ -K <= y /\ y < 2 * K
    BY <1>1, <1>4, <1>5
  <2>2. y % K \in 0 .. K - 1 /\ y % K \in {y, y + K, y - K}
    <3> HIDE DEF y
    <3> QED
      BY <1>1, <2>1, ModNear
  <2> DEFINE z == y % K
  <2>3. z \in 0 .. K - 1 /\ z \in {y, y + K, y - K}
    BY <2>2
  <2> HIDE DEF z
  <2>4. z = e - b
    BY <1>1, <1>4, <1>5, <1>6, <2>3
  <2> QED
    BY <2>4 DEF z
<1>8. ASSUME NEW n \in 0 .. e - b
      PROVE  /\ (ve - n) % K \in 0 .. K - 1
             /\ KernelVaddrToPaddr((ve - n) % K) = e - n
             /\ \A sz \in 1 .. n : KernelVaddrToPaddr((((ve - n) % K) + sz) % K) = e - (n - sz)
  <2> DEFINE y == ve - n
             w == y % K
  <2>1. y \in Int /\ -K <= y /\ y < 2 * K
    BY <1>1, <1>4, <1>6
  <2>2. w \in 0 .. K - 1 /\ w \in {y, y + K, y - K}
    <3> HIDE DEF y
    <3> QED
      BY <1>1, <2>1, ModNear
  <2> HIDE DEF w
  <2>3. w - A \in Int /\ -K <= w - A /\ w - A < 2 * K
    BY <1>1, <2>2
  <2>4. (w - A) % K \in 0 .. K - 1 /\ (w - A) % K \in {w - A, w - A + K, w - A - K}
    BY <1>1, <2>3, ModNear
  <2>5. (w - A) % K = e - n
    <3> DEFINE z == (w - A) % K
    <3>1. z \in 0 .. K - 1 /\ z \in {w - A, w - A + K, w - A - K}
      BY <2>4
    <3> HIDE DEF z
    <3>2. z = e - n
      BY <1>1, <1>4, <1>6, <2>2, <3>1
    <3> QED
      BY <3>2 DEF z
  <2>6. ASSUME NEW sz \in 1 .. n
        PROVE  KernelVaddrToPaddr((w + sz) % K) = e - (n - sz)
    <3> DEFINE u == (w + sz) % K
               z == (u - A) % K
    <3>2. u \in 0 .. K - 1 /\ u \in {w + sz, w + sz + K, w + sz - K}
      <4> DEFINE t == w + sz
      <4>1. t \in Int /\ -K <= t /\ t < 2 * K
        BY <1>1, <1>6, <2>2
      <4>2. u = t % K
        OBVIOUS
      <4> HIDE DEF t, u
      <4>3. u \in 0 .. K - 1 /\ (u = t \/ u = t + K \/ u = t - K)
        BY <1>1, <4>1, <4>2, ModNear
      <4> QED
        BY <1>1, <2>2, <4>3 DEF t
    <3> HIDE DEF u
    <3>3. u - A \in Int /\ -K <= u - A /\ u - A < 2 * K
      BY <1>1, <3>2
    <3>4. z \in 0 .. K - 1 /\ z \in {u - A, u - A + K, u - A - K}
      BY <1>1, <3>3, ModNear
    <3>5. KernelVaddrToPaddr(u) = z
      BY <1>3
    <3> HIDE DEF z
    <3>6. z = e - (n - sz)
      BY <1>1, <1>4, <1>6, <2>2, <3>2, <3>4
    <3> QED
      BY <3>5, <3>6 DEF u
  <2> QED
    BY <1>3, <2>2, <2>5, <2>6 DEF w
<1> QED
  BY <1>7, <1>8 DEF K, ve, vb

\* The next block is a power of two, and no more than is left.
LEMMA BlockSizeFacts ==
  ASSUME NEW base \in 0 .. KernelWords - 1, NEW n \in 1 .. KernelWords - 1, NEW maxBits \in Bits
  PROVE  /\ BlockSize(base, n, maxBits) \in 1 .. n
         /\ \E c \in Bits : BlockSize(base, n, maxBits) = 2^c
<1> DEFINE fit == IF base = 0 THEN Msb(n) ELSE Lower(Msb(n), Lsb(base))
           c == Lower(fit, maxBits)
<1>1. Msb(n) \in Bits /\ 2^Msb(n) <= n
  BY MsbFacts
<1>2. fit \in Bits /\ fit <= Msb(n)
  <2>1. CASE base = 0
    BY <1>1, <2>1, PowerFacts
  <2>2. CASE base # 0
    <3>1. Lsb(base) \in Bits
      BY <2>2, LsbFacts, PowerFacts
    <3> QED
      BY <1>1, <2>2, <3>1, PowerFacts DEF Lower
  <2> QED
    BY <2>1, <2>2
<1> HIDE DEF fit
<1>3. c \in Bits /\ c <= Msb(n)
  BY <1>1, <1>2, PowerFacts DEF Lower
<1>4. BlockSize(base, n, maxBits) = 2^c
  BY DEF BlockSize, fit
<1> HIDE DEF c
<1>5. 2^c <= 2^Msb(n)
  <2>1. c \in 0 .. WordSize /\ Msb(n) \in 0 .. WordSize
    BY <1>1, <1>3, PowerFacts
  <2> QED
    BY <1>3, <2>1, Powers
<1>6. 2^c \in Nat \ {0} /\ 2^Msb(n) \in Nat
  BY <1>1, <1>3, PowerFacts
<1> QED
  BY <1>1, <1>3, <1>4, <1>5, <1>6

\* A sorted list of powers of two between two addresses.
Blocks(v, lo, hi) ==
  /\ Good(v) /\ Above(v, lo) /\ Below(v, hi)
  /\ \A i \in DOMAIN v : \E c \in Bits : v[i].end = v[i].base + 2^c
BlocksUpTo(hi, n) == {v \in Seq(RegionType) : Blocks(v, hi - n, hi)}

\* One more element in front.
LEMMA InFront ==
  ASSUME NEW S, NEW r \in S, NEW v \in Seq(S)
  PROVE  /\ <<r>> \o v \in Seq(S) /\ Len(<<r>> \o v) = 1 + Len(v)
         /\ (<<r>> \o v)[1] = r /\ \A k \in 1 .. Len(v) : (<<r>> \o v)[1 + k] = v[k]
<1> DEFINE s == <<r>>
<1>1. s \in Seq(S) /\ Len(s) = 1 /\ s[1] = r
  OBVIOUS
<1> HIDE DEF s
<1>2. /\ s \o v \in Seq(S) /\ Len(s \o v) = Len(s) + Len(v)
      /\ \A k \in 1 .. Len(s) : (s \o v)[k] = s[k]
      /\ \A k \in 1 .. Len(v) : (s \o v)[Len(s) + k] = v[k]
  BY <1>1, Concatenated
<1> QED
  BY <1>1, <1>2 DEF s

\* One more block in front.
LEMMA BlockInFront ==
  ASSUME NEW hi \in Nat, NEW n \in 1 .. hi, NEW sz \in 1 .. n, NEW c \in Bits, sz = 2^c,
         NEW v \in BlocksUpTo(hi, n - sz)
  PROVE  <<Region(hi - n, hi - (n - sz))>> \o v \in BlocksUpTo(hi, n)
<1> DEFINE lo == hi - n
           mid == hi - (n - sz)
           r == Region(lo, mid)
           u == <<r>> \o v
<1>1. lo \in Nat /\ mid \in Nat /\ mid = lo + sz /\ lo < mid /\ mid <= hi
  OBVIOUS
<1>2. /\ Good(v) /\ Above(v, mid) /\ Below(v, hi)
      /\ \A i \in DOMAIN v : \E d \in Bits : v[i].end = v[i].base + 2^d
  BY DEF BlocksUpTo, Blocks
<1> HIDE DEF lo, mid
<1>3. Good(<<r>>) /\ Below(<<r>>, mid) /\ Above(<<r>>, lo)
  BY <1>1, GoodSmall
<1>4. Below(<<r>>, hi) /\ Above(v, lo)
  <2>1. r.end = mid /\ <<r>>[1] = r /\ DOMAIN <<r>> = 1 .. 1
    BY DEF Region
  <2>2. \A i \in DOMAIN v : v[i].base \in Nat /\ mid <= v[i].base
    BY <1>2, GoodFacts DEF Above
  <2> QED
    BY <1>1, <2>1, <2>2 DEF Below, Above
<1>5. Good(u) /\ Below(u, hi) /\ Above(u, lo)
  <2> DEFINE s == <<r>>
  <2>1. Good(s) /\ Below(s, mid) /\ Above(s, lo) /\ Below(s, hi)
    BY <1>3, <1>4
  <2> HIDE DEF s, r
  <2>2. Good(s \o v) /\ Below(s \o v, hi) /\ Above(s \o v, lo)
    BY <1>1, <1>2, <1>4, <2>1, GoodConcat
  <2> QED
    BY <2>2 DEF s
<1>6. ASSUME NEW i \in DOMAIN u
      PROVE  \E d \in Bits : u[i].end = u[i].base + 2^d
  <2>1. r \in RegionType /\ <<r>> \in Seq(RegionType) /\ Len(<<r>>) = 1 /\ <<r>>[1] = r
    BY <1>1 DEF Region, RegionType
  <2>2. r.base = lo /\ r.end = mid
    BY DEF Region
  <2>3. v \in Seq(RegionType) /\ Len(v) \in Nat /\ DOMAIN v = 1 .. Len(v)
    BY <1>2, GoodFacts
  <2> HIDE DEF r
  <2>4. /\ Len(u) = 1 + Len(v) /\ DOMAIN u = 1 .. 1 + Len(v)
        /\ u[1] = r /\ \A k \in 1 .. Len(v) : u[1 + k] = v[k]
    <3>1. /\ u \in Seq(RegionType) /\ Len(u) = 1 + Len(v)
          /\ u[1] = r /\ \A k \in 1 .. Len(v) : u[1 + k] = v[k]
      BY <2>1, <2>3, InFront
    <3> QED
      BY <2>3, <3>1
  <2>5. CASE i = 1
    BY <1>1, <2>2, <2>4, <2>5
  <2>6. CASE i # 1
    <3>1. i - 1 \in 1 .. Len(v) /\ 1 + (i - 1) = i
      BY <2>3, <2>4, <2>6
    <3>2. u[i] = v[i - 1]
      BY <2>4, <3>1
    <3> QED
      BY <1>2, <2>3, <3>1, <3>2
  <2> QED
    BY <2>5, <2>6
<1>7. u \in BlocksUpTo(hi, n)
  <2>1. u \in Seq(RegionType)
    BY <1>5, GoodFacts
  <2> HIDE DEF u
  <2> QED
    BY <1>5, <1>6, <2>1 DEF BlocksUpTo, Blocks, lo
<1> QED
  BY <1>7 DEF u, r, lo, mid

\* A region becomes powers of two.
LEMMA RegionBlocks ==
  ASSUME NEW r \in RegionType, r.base <= r.end, r.end < KernelWords, NEW maxBits \in Bits
  PROVE  Blocks(AlignedPowerOfTwoRegions(r, maxBits), r.base, r.end)
<1> DEFINE lo == r.base
           hi == r.end
           ve == PaddrToKernelVaddr(hi)
           size == (ve - PaddrToKernelVaddr(lo)) % KernelWords
           B(n) == (ve - n) % KernelWords
           Z(n) == BlockSize(B(n), n, maxBits)
           First(n) == <<Region(KernelVaddrToPaddr(B(n)), KernelVaddrToPaddr((B(n) + Z(n)) % KernelWords))>>
           Put(n, v) == First(n) \o v
           G(g) == g = [n \in 0 .. size |->
                          IF n = 0 THEN <<>>
                          ELSE LET base == (ve - n) % KernelWords
                                   sz == BlockSize(base, n, maxBits)
                               IN  <<Region(KernelVaddrToPaddr(base),
                                            KernelVaddrToPaddr((base + sz) % KernelWords))>>
                                    \o g[n - sz]]
           g == CHOOSE g : G(g)
           V == [n \in 0 .. size |-> BlocksUpTo(hi, n)]
           pred == [n \in 1 .. size |-> n - Z(n)]
           step == [n \in 1 .. size |-> [v \in BlocksUpTo(hi, n - Z(n)) |-> Put(n, v)]]
<1>1. AlignedPowerOfTwoRegions(r, maxBits) = g[size]
  BY DEF AlignedPowerOfTwoRegions
<1>2. \A h : G(h) <=> h = [n \in 0 .. size |-> IF n = 0 THEN <<>> ELSE Put(n, h[n - Z(n)])]
  OBVIOUS
<1>3. lo \in Nat /\ hi \in Nat /\ KernelWords \in Nat \ {0} /\ hi < KernelWords /\ lo <= hi
  BY PowerFacts DEF RegionType
<1>4. size = hi - lo
  <2> HIDE DEF lo, hi
  <2> QED
    BY <1>3, KernelWindow
<1>5. size \in Nat /\ size <= hi /\ size < KernelWords
  BY <1>3, <1>4
<1>6. ASSUME NEW n \in 1 .. size
      PROVE  /\ Z(n) \in 1 .. n
             /\ \A v \in BlocksUpTo(hi, n - Z(n)) : Put(n, v) \in BlocksUpTo(hi, n)
  <2>1. n \in 0 .. hi - lo /\ n \in 1 .. hi /\ n \in 1 .. KernelWords - 1
    BY <1>3, <1>4, <1>5
  <2>2. /\ B(n) \in 0 .. KernelWords - 1 /\ KernelVaddrToPaddr(B(n)) = hi - n
        /\ \A sz \in 1 .. n : KernelVaddrToPaddr((B(n) + sz) % KernelWords) = hi - (n - sz)
    <3> HIDE DEF lo, hi
    <3> QED
      BY <1>3, <2>1, KernelWindow
  <2> HIDE DEF B
  <2>3. Z(n) \in 1 .. n /\ \E c \in Bits : Z(n) = 2^c
    BY <2>1, <2>2, BlockSizeFacts
  <2> HIDE DEF Z
  <2>4. First(n) = <<Region(hi - n, hi - (n - Z(n)))>>
    BY <2>2, <2>3
  <2> HIDE DEF First
  <2>5. \A v \in BlocksUpTo(hi, n - Z(n)) : Put(n, v) \in BlocksUpTo(hi, n)
    BY <1>3, <2>1, <2>3, <2>4, BlockInFront
  <2> QED
    BY <2>3, <2>5
<1> HIDE DEF B, Z, First, Put, size, lo, hi, ve, G, g
<1>7. /\ \A n \in 1 .. size : pred[n] = n - Z(n)
      /\ \A n \in 0 .. size : V[n] = BlocksUpTo(hi, n)
      /\ \A n \in 1 .. size : \A v \in BlocksUpTo(hi, n - Z(n)) : step[n][v] = Put(n, v)
  OBVIOUS
<1>8. <<>> \in V[0]
  <2>1. Above(<<>>, hi - 0) /\ Below(<<>>, hi) /\ Good(<<>>)
    BY GoodSmall
  <2>2. Blocks(<<>>, hi - 0, hi)
    BY <2>1 DEF Blocks
  <2> QED
    BY <1>5, <1>7, <2>2 DEF BlocksUpTo
<1> HIDE DEF V, pred, step
<1>9. \A n \in 1 .. size : pred[n] \in 0 .. n - 1 /\ n - Z(n) \in 0 .. size
  BY <1>5, <1>6, <1>7
<1>10. PICK f : StepsOf(f, size, pred, step, <<>>) /\ \A n \in 0 .. size : f[n] \in V[n]
  <2>1. ASSUME NEW n \in 1 .. size, NEW v \in V[pred[n]]
        PROVE  step[n][v] \in V[n]
    <3>1. v \in BlocksUpTo(hi, n - Z(n)) /\ V[n] = BlocksUpTo(hi, n)
      BY <1>5, <1>7, <1>9
    <3>2. step[n][v] = Put(n, v) /\ Put(n, v) \in BlocksUpTo(hi, n)
      BY <1>6, <1>7, <3>1
    <3> QED
      BY <3>1, <3>2
  <2> QED
    BY <1>5, <1>8, <1>9, <2>1, StepsIn
<1>11. G(f)
  <2>1. f = [n \in 0 .. size |-> IF n = 0 THEN <<>> ELSE step[n][f[pred[n]]]]
    BY <1>10 DEF StepsOf
  <2>2. \A n \in 1 .. size : step[n][f[pred[n]]] = Put(n, f[n - Z(n)])
    BY <1>7, <1>9, <1>10
  <2>3. f = [n \in 0 .. size |-> f[n]]
    BY <2>1
  <2>4. \A n \in 0 .. size : f[n] = IF n = 0 THEN <<>> ELSE step[n][f[pred[n]]]
    BY <2>1
  <2>5. \A n \in 0 .. size : f[n] = IF n = 0 THEN <<>> ELSE Put(n, f[n - Z(n)])
    BY <1>5, <2>2, <2>4
  <2>6. f = [n \in 0 .. size |-> IF n = 0 THEN <<>> ELSE Put(n, f[n - Z(n)])]
    BY <2>3, <2>5
  <2> QED
    BY <1>2, <2>6
<1>12. G(g)
  BY <1>11 DEF g
<1>13. \A n \in 0 .. size : g[n] = IF n = 0 THEN <<>> ELSE Put(n, g[n - Z(n)])
  <2>1. g = [n \in 0 .. size |-> IF n = 0 THEN <<>> ELSE Put(n, g[n - Z(n)])]
    BY <1>2, <1>12
  <2> QED
    BY <2>1
<1>14. \A n \in 0 .. size : g[n] \in V[n]
  <2>1. g[0] \in V[0]
    BY <1>5, <1>8, <1>13
  <2>2. ASSUME NEW n \in 1 .. size, g[pred[n]] \in V[pred[n]]
        PROVE  g[n] \in V[n]
    <3>1. g[n] = Put(n, g[n - Z(n)])
      BY <1>5, <1>13
    <3>2. g[n - Z(n)] \in BlocksUpTo(hi, n - Z(n))
      BY <1>7, <1>9, <2>2
    <3>3. Put(n, g[n - Z(n)]) \in BlocksUpTo(hi, n)
      BY <1>6, <3>2
    <3>4. V[n] = BlocksUpTo(hi, n)
      BY <1>5, <1>7
    <3> QED
      BY <3>1, <3>3, <3>4
  <2> QED
    BY <1>5, <1>9, <2>1, <2>2, Along
<1>15. g[size] \in BlocksUpTo(hi, size)
  BY <1>5, <1>7, <1>14
<1>16. hi - size = lo
  BY <1>3, <1>4
<1> QED
  BY <1>1, <1>15, <1>16 DEF BlocksUpTo, lo, hi

\* A good list is scattered.
LEMMA GoodIsScattered ==
  ASSUME NEW rs, Good(rs)
  PROVE  Scattered(rs)
<1>1. /\ Len(rs) \in Nat /\ DOMAIN rs = 1 .. Len(rs) /\ rs \in Seq(RegionType)
      /\ \A i \in 1 .. Len(rs) : rs[i].base \in Nat /\ rs[i].end \in Nat /\ rs[i].base < rs[i].end
      /\ \A i, j \in 1 .. Len(rs) : i < j => rs[i].end <= rs[j].base
  BY GoodFacts
<1>2. ASSUME NEW i \in DOMAIN rs, NEW j \in DOMAIN rs, i # j, NEW x \in Nat
      PROVE  ~(Holds(rs[i], x) /\ Holds(rs[j], x))
  <2>1. i < j \/ j < i
    BY <1>1, <1>2
  <2>2. CASE i < j
    BY <1>1, <2>2 DEF Holds
  <2>3. CASE j < i
    BY <1>1, <2>3 DEF Holds
  <2> QED
    BY <2>1, <2>2, <2>3
<1> QED
  BY <1>1, <1>2 DEF Scattered

\* Scattered regions that are powers of two: what becomes untyped objects.
Powers2(v) ==
  /\ Scattered(v)
  /\ \A i \in DOMAIN v : \E c \in Bits : v[i].end = v[i].base + 2^c

\* All regions become powers of two.
LEMMA AllBlocks ==
  ASSUME NEW rs, Scattered(rs), \A i \in DOMAIN rs : rs[i].end < KernelWords,
         NEW maxBits \in Bits
  PROVE  /\ Powers2(AllAlignedPowerOfTwoRegions(rs, maxBits))
         /\ \A x \in Nat : In(x, AllAlignedPowerOfTwoRegions(rs, maxBits)) => In(x, rs)
<1> DEFINE n == Len(rs)
           ss == [i \in DOMAIN rs |-> AlignedPowerOfTwoRegions(rs[i], maxBits)]
           flat == FlattenSeq(ss)
<1>1. AllAlignedPowerOfTwoRegions(rs, maxBits) = flat
  <2>1. AllAlignedPowerOfTwoRegions(rs, maxBits) = BlocksOf(rs, maxBits)
    BY DEF AllAlignedPowerOfTwoRegions, Once
  <2> QED
    BY <2>1 DEF BlocksOf
<1>2. /\ n \in Nat /\ DOMAIN rs = 1 .. n /\ rs \in Seq(RegionType)
      /\ \A i \in 1 .. n : /\ rs[i] \in RegionType /\ rs[i].base \in Nat /\ rs[i].end \in Nat
                           /\ rs[i].base < rs[i].end /\ rs[i].base <= rs[i].end
  <2>1. n \in Nat /\ DOMAIN rs = 1 .. n /\ rs \in Seq(RegionType)
    BY ScatteredFacts DEF Scattered
  <2>2. \A i \in 1 .. n : rs[i] \in RegionType
    BY <2>1, Elements
  <2>3. \A i \in 1 .. n : rs[i].base \in Nat /\ rs[i].end \in Nat /\ rs[i].base < rs[i].end
    BY ScatteredFacts
  <2>4. \A i \in 1 .. n : rs[i].base <= rs[i].end
    BY <2>3
  <2> QED
    BY <2>1, <2>2, <2>3, <2>4
<1> HIDE DEF n
<1>3. \A i \in 1 .. n : Blocks(ss[i], rs[i].base, rs[i].end)
  <2> TAKE i \in 1 .. n
  <2>1. rs[i] \in RegionType /\ rs[i].base <= rs[i].end /\ rs[i].end < KernelWords
    BY <1>2
  <2>2. Blocks(AlignedPowerOfTwoRegions(rs[i], maxBits), rs[i].base, rs[i].end)
    BY <2>1, RegionBlocks
  <2> QED
    BY <1>2, <2>2
<1>4. DOMAIN ss = 1 .. n
  BY <1>2
<1>s. ss = [i \in 1 .. n |-> ss[i]]
  BY <1>2
<1> HIDE DEF ss
<1>5. ss \in Seq(Seq(RegionType))
  <2>1. \A i \in 1 .. n : ss[i] \in Seq(RegionType)
    BY <1>3, GoodFacts DEF Blocks
  <2>2. ss \in [1 .. n -> Seq(RegionType)]
    BY <2>1, <1>s
  <2> QED
    BY <1>2, <2>2, Sequence
<1>6. PICK row, col : TakenFrom(ss, flat, row, col)
  BY <1>5, FlattenPlaces
<1>7. flat \in Seq(RegionType)
  BY <1>5, FlattenPlaces
<1> HIDE DEF flat
<1>8. ASSUME NEW p \in DOMAIN flat
      PROVE  /\ row[p] \in 1 .. n /\ col[p] \in DOMAIN ss[row[p]]
             /\ flat[p] = ss[row[p]][col[p]]
             /\ flat[p].base \in Nat /\ flat[p].end \in Nat /\ flat[p].base < flat[p].end
             /\ rs[row[p]].base <= flat[p].base /\ flat[p].end <= rs[row[p]].end
             /\ \E c \in Bits : flat[p].end = flat[p].base + 2^c
  <2>1. row[p] \in 1 .. n /\ col[p] \in DOMAIN ss[row[p]] /\ flat[p] = ss[row[p]][col[p]]
    BY <1>4, <1>6 DEF TakenFrom
  <2>2. Blocks(ss[row[p]], rs[row[p]].base, rs[row[p]].end)
    BY <1>3, <2>1
  <2>3. /\ flat[p].base \in Nat /\ flat[p].end \in Nat /\ flat[p].base < flat[p].end
    BY <2>1, <2>2, GoodFacts DEF Blocks
  <2> QED
    BY <2>1, <2>2, <2>3 DEF Blocks, Above, Below
<1>9. ASSUME NEW p \in DOMAIN flat, NEW x \in Nat, Holds(flat[p], x)
      PROVE  Holds(rs[row[p]], x)
  BY <1>2, <1>8, <1>9 DEF Holds
<1>10. ASSUME NEW p \in DOMAIN flat, NEW q \in DOMAIN flat, p # q,
              NEW x \in Nat, Holds(flat[p], x), Holds(flat[q], x)
       PROVE  FALSE
  <2>1. CASE row[p] # row[q]
    <3>1. Holds(rs[row[p]], x) /\ Holds(rs[row[q]], x)
      BY <1>9, <1>10
    <3> QED
      BY <1>2, <1>8, <2>1, <3>1 DEF Scattered
  <2>2. CASE row[p] = row[q]
    <3>1. col[p] # col[q]
      BY <1>6, <1>10, <2>2 DEF TakenFrom
    <3>2. Scattered(ss[row[p]])
      BY <1>3, <1>8, GoodIsScattered DEF Blocks
    <3> QED
      BY <1>8, <1>10, <2>2, <3>1, <3>2 DEF Scattered
  <2> QED
    BY <2>1, <2>2
<1>11. Powers2(flat)
  <2>1. Scattered(flat)
    BY <1>7, <1>8, <1>10 DEF Scattered
  <2> QED
    BY <1>8, <2>1 DEF Powers2
<1>12. \A x \in Nat : In(x, flat) => In(x, rs)
  BY <1>2, <1>8, <1>9 DEF In
<1> QED
  BY <1>1, <1>11, <1>12

\* Two scattered lists of powers of two with no address in common.
LEMMA PowersConcat ==
  ASSUME NEW p, NEW q, Powers2(p), Powers2(q), \A x \in Nat : ~(In(x, p) /\ In(x, q))
  PROVE  /\ Powers2(p \o q)
         /\ \A x : In(x, p \o q) => In(x, p) \/ In(x, q)
<1> DEFINE m == Len(p)
           n == Len(q)
           u == p \o q
<1>1. /\ m \in Nat /\ DOMAIN p = 1 .. m /\ p \in Seq(RegionType)
      /\ n \in Nat /\ DOMAIN q = 1 .. n /\ q \in Seq(RegionType)
      /\ Scattered(p) /\ Scattered(q)
  BY ScatteredFacts DEF Powers2, Scattered
<1>2. /\ u \in Seq(RegionType) /\ Len(u) = m + n
      /\ \A i \in 1 .. m : u[i] = p[i]
      /\ \A i \in 1 .. n : u[m + i] = q[i]
  BY <1>1, Concatenated
<1>3. DOMAIN u = 1 .. m + n
  BY <1>1, <1>2
<1> HIDE DEF m, n, u
<1>4. ASSUME NEW i \in 1 .. m + n
      PROVE  \/ i \in 1 .. m /\ u[i] = p[i]
             \/ i > m /\ i - m \in 1 .. n /\ u[i] = q[i - m]
  <2>1. CASE i <= m
    BY <1>1, <1>2, <2>1
  <2>2. CASE i > m
    <3>1. i - m \in 1 .. n /\ m + (i - m) = i
      BY <1>1, <2>2
    <3> QED
      BY <1>2, <2>2, <3>1
  <2> QED
    BY <1>1, <2>1, <2>2
<1>5. \A i \in DOMAIN u : u[i].base < u[i].end /\ \E c \in Bits : u[i].end = u[i].base + 2^c
  <2> TAKE i \in DOMAIN u
  <2>1. CASE i \in 1 .. m /\ u[i] = p[i]
    BY <1>1, <2>1 DEF Powers2, Scattered
  <2>2. CASE i > m /\ i - m \in 1 .. n /\ u[i] = q[i - m]
    BY <1>1, <2>2 DEF Powers2, Scattered
  <2> QED
    BY <1>3, <1>4, <2>1, <2>2
<1>6. ASSUME NEW i \in 1 .. m + n, NEW j \in 1 .. m + n, i < j,
             NEW x \in Nat, Holds(u[i], x), Holds(u[j], x)
      PROVE  FALSE
  <2>1. CASE i \in 1 .. m /\ j \in 1 .. m
    <3>1. u[i] = p[i] /\ u[j] = p[j] /\ i # j
      BY <1>1, <1>4, <1>6, <2>1
    <3> QED
      BY <1>1, <1>6, <2>1, <3>1 DEF Scattered
  <2>2. CASE i \in 1 .. m /\ j \notin 1 .. m
    <3>1. u[i] = p[i] /\ j - m \in 1 .. n /\ u[j] = q[j - m]
      BY <1>1, <1>4, <2>2
    <3> QED
      BY <1>1, <1>6, <2>2, <3>1 DEF In
  <2>3. CASE i \notin 1 .. m
    <3>1. /\ i - m \in 1 .. n /\ u[i] = q[i - m] /\ j \notin 1 .. m
          /\ j - m \in 1 .. n /\ u[j] = q[j - m] /\ i - m # j - m
      BY <1>1, <1>4, <1>6, <2>3
    <3> QED
      BY <1>1, <1>6, <3>1 DEF Scattered
  <2> QED
    BY <2>1, <2>2, <2>3
<1>7. Powers2(u)
  <2>1. ASSUME NEW i \in DOMAIN u, NEW j \in DOMAIN u, i # j, NEW x \in Nat
        PROVE  ~(Holds(u[i], x) /\ Holds(u[j], x))
    <3>1. i < j \/ j < i
      BY <1>1, <1>3, <2>1
    <3> QED
      BY <1>3, <1>6, <3>1
  <2> QED
    BY <1>2, <1>5, <2>1 DEF Powers2, Scattered
<1>8. ASSUME NEW x, In(x, u)
      PROVE  In(x, p) \/ In(x, q)
  BY <1>1, <1>3, <1>4, <1>8 DEF In
<1> QED
  BY <1>7, <1>8 DEF u

-----------------------------------------------------------------------------
(* The untyped objects the tool expects.                                   *)

UntypedType == [base : Nat, bits : Bits, device : BOOLEAN]

\* A power of two as an untyped object.
LEMMA UntypedOne ==
  ASSUME NEW r \in RegionType, NEW c \in Bits, r.end = r.base + 2^c, NEW d \in BOOLEAN
  PROVE  /\ Untyped(r, d) \in UntypedType
         /\ Untyped(r, d).base = r.base /\ Untyped(r, d).bits = c
         /\ End(Untyped(r, d)) = r.end
<1>1. r.base \in Nat /\ r.end \in Nat /\ 2^c \in Nat
  BY PowerFacts DEF RegionType
<1>2. Size(r) = 2^c
  BY <1>1 DEF Size
<1>3. Lsb(Size(r)) = c
  BY <1>2, LsbOfPower
<1>4. Untyped(r, d) = [base |-> r.base, bits |-> c, device |-> d]
  BY <1>3 DEF Untyped
<1> QED
  BY <1>1, <1>4 DEF UntypedType, End

\* Powers of two without a common address are a sound list of untyped objects.
LEMMA SoundUntypeds ==
  ASSUME NEW p, NEW q, Powers2(p), Powers2(q), \A x \in Nat : ~(In(x, p) /\ In(x, q))
  PROVE  /\ UntypedsOf(p, TRUE) \o UntypedsOf(q, FALSE) \in Seq(UntypedType)
         /\ UntypedsSound(UntypedsOf(p, TRUE) \o UntypedsOf(q, FALSE))
<1> DEFINE m == Len(p)
           n == Len(q)
           u == p \o q
           a == UntypedsOf(p, TRUE)
           b == UntypedsOf(q, FALSE)
           us == a \o b
<1>1. /\ m \in Nat /\ DOMAIN p = 1 .. m /\ p \in Seq(RegionType)
      /\ n \in Nat /\ DOMAIN q = 1 .. n /\ q \in Seq(RegionType)
  BY ScatteredFacts DEF Powers2, Scattered
<1>2. /\ \A i \in 1 .. m : p[i] \in RegionType
      /\ \A i \in 1 .. n : q[i] \in RegionType
  BY <1>1, Elements
<1>3. /\ a = [i \in 1 .. m |-> Untyped(p[i], TRUE)]
      /\ b = [i \in 1 .. n |-> Untyped(q[i], FALSE)]
  BY <1>1 DEF UntypedsOf, UntypedsIn, Once
<1>4. /\ \A i \in 1 .. m : a[i] = Untyped(p[i], TRUE) /\ Untyped(p[i], TRUE) \in UntypedType
      /\ \A i \in 1 .. n : b[i] = Untyped(q[i], FALSE) /\ Untyped(q[i], FALSE) \in UntypedType
  <2>1. ASSUME NEW i \in 1 .. m
        PROVE  Untyped(p[i], TRUE) \in UntypedType
    <3>1. PICK c \in Bits : p[i].end = p[i].base + 2^c
      BY <1>1 DEF Powers2
    <3> QED
      BY <1>2, <3>1, UntypedOne
  <2>2. ASSUME NEW i \in 1 .. n
        PROVE  Untyped(q[i], FALSE) \in UntypedType
    <3>1. PICK c \in Bits : q[i].end = q[i].base + 2^c
      BY <1>1 DEF Powers2
    <3> QED
      BY <1>2, <3>1, UntypedOne
  <2> HIDE DEF m, n
  <2> QED
    BY <1>3, <2>1, <2>2
<1>5. /\ a \in Seq(UntypedType) /\ Len(a) = m
      /\ b \in Seq(UntypedType) /\ Len(b) = n
  <2>1. a \in [1 .. m -> UntypedType] /\ b \in [1 .. n -> UntypedType]
    <3> HIDE DEF m, n
    <3> QED
      BY <1>3, <1>4
  <2> HIDE DEF a, b, m, n
  <2> QED
    BY <1>1, <2>1, Sequence
<1>6. Powers2(u)
  BY PowersConcat
<1>7. /\ u \in Seq(RegionType) /\ Len(u) = m + n
      /\ \A i \in 1 .. m : u[i] = p[i]
      /\ \A i \in 1 .. n : u[m + i] = q[i]
  BY <1>1, Concatenated
<1> HIDE DEF a, b, m, n
<1>8. /\ us \in Seq(UntypedType) /\ Len(us) = m + n
      /\ \A i \in 1 .. m : us[i] = a[i]
      /\ \A i \in 1 .. n : us[m + i] = b[i]
  <2>1. /\ us \in Seq(UntypedType) /\ Len(us) = Len(a) + Len(b)
        /\ \A i \in 1 .. Len(a) : us[i] = a[i]
        /\ \A i \in 1 .. Len(b) : us[Len(a) + i] = b[i]
    <3>1. a \in Seq(UntypedType) /\ b \in Seq(UntypedType)
      BY <1>5
    <3> QED
      BY <3>1, Concatenated
  <2> HIDE DEF us
  <2> QED
    BY <1>5, <2>1
<1>9. DOMAIN us = 1 .. m + n /\ DOMAIN u = 1 .. m + n
  <2> HIDE DEF us, u
  <2> QED
    BY <1>7, <1>8
<1> HIDE DEF us, u
<1>10. ASSUME NEW i \in 1 .. m + n
       PROVE  /\ us[i].base = u[i].base /\ us[i].bits \in Bits /\ End(us[i]) = u[i].end
              /\ u[i].base \in Nat /\ u[i].end \in Nat /\ u[i].base < u[i].end
  <2>1. PICK c \in Bits : u[i].end = u[i].base + 2^c
    BY <1>6, <1>9 DEF Powers2
  <2>2. u[i] \in RegionType
    BY <1>1, <1>7, Elements
  <2>3. \E d \in BOOLEAN : us[i] = Untyped(u[i], d)
    <3>1. CASE i <= m
      <4>1. i \in 1 .. m
        BY <1>1, <3>1
      <4>2. us[i] = a[i] /\ u[i] = p[i]
        BY <1>7, <1>8, <4>1
      <4> QED
        BY <1>4, <4>1, <4>2
    <3>2. CASE i > m
      <4>1. i - m \in 1 .. n /\ m + (i - m) = i
        BY <1>1, <3>2
      <4>2. us[i] = b[i - m] /\ u[i] = q[i - m]
        BY <1>7, <1>8, <4>1
      <4> QED
        BY <1>4, <4>1, <4>2
    <3> QED
      BY <1>1, <3>1, <3>2
  <2>4. PICK d \in BOOLEAN : us[i] = Untyped(u[i], d)
    BY <2>3
  <2>5. us[i].base = u[i].base /\ us[i].bits = c /\ End(us[i]) = u[i].end
    BY <2>1, <2>2, <2>4, UntypedOne
  <2>6. u[i].base \in Nat /\ u[i].end \in Nat /\ 2^c \in Nat \ {0}
    BY <2>2, PowerFacts DEF RegionType
  <2> QED
    BY <2>1, <2>5, <2>6
<1>11. ASSUME NEW i \in 1 .. m + n, NEW j \in 1 .. m + n, i # j
       PROVE  End(us[i]) <= us[j].base \/ End(us[j]) <= us[i].base
  <2>1. \A x \in Nat : ~(Holds(u[i], x) /\ Holds(u[j], x))
    BY <1>6, <1>9, <1>11 DEF Powers2, Scattered
  <2>2. /\ u[i].base \in Nat /\ u[i].end \in Nat /\ u[i].base < u[i].end
        /\ u[j].base \in Nat /\ u[j].end \in Nat /\ u[j].base < u[j].end
    BY <1>10
  <2>3. \A x \in Nat : ~(u[i].base <= x /\ x < u[i].end /\ u[j].base <= x /\ x < u[j].end)
    BY <2>1 DEF Holds
  <2>4. u[i].end <= u[j].base \/ u[j].end <= u[i].base
    BY <2>2, <2>3, ApartByPoints
  <2> QED
    BY <1>10, <2>4
<1>12. UntypedsSound(us)
  BY <1>9, <1>10, <1>11 DEF UntypedsSound
<1> QED
  BY <1>8, <1>12 DEF us, a, b

\* What is accepted as a system.
LEMMA SystemFacts ==
  ASSUME NEW s, SystemAccepted(s)
  PROVE  /\ Scattered(s.devices) /\ \A i \in DOMAIN s.devices : s.devices[i].end < KernelWords
         /\ Scattered(s.normal) /\ \A i \in DOMAIN s.normal : s.normal[i].end < KernelWords
         /\ \A x \in Nat : ~(In(x, s.devices) /\ In(x, s.normal))
         /\ s.kernel \in RegionType /\ s.boot \in RegionType
         /\ Holding(InsertAll(s.normal), s.kernel.base, s.kernel.end) # {}
         /\ s.kernel.base <= s.boot.base /\ s.boot.base < s.boot.end
         /\ s.boot.end <= s.kernel.end /\ s.kernel.base <= s.kernel.end
<1> DEFINE d == s.devices
           k == s.normal
           m == Len(d)
           n == Len(k)
           u == d \o k
<1>1. /\ d \in Seq(RegionType) /\ k \in Seq(RegionType)
      /\ s.kernel \in RegionType /\ s.boot \in RegionType
  BY DEF SystemAccepted, RegionType
<1>2. m \in Nat /\ n \in Nat /\ DOMAIN d = 1 .. m /\ DOMAIN k = 1 .. n
  BY <1>1
<1>3. /\ u \in Seq(RegionType) /\ Len(u) = m + n
      /\ \A i \in 1 .. m : u[i] = d[i]
      /\ \A i \in 1 .. n : u[m + i] = k[i]
  <2>1. d \in Seq(RegionType) /\ k \in Seq(RegionType)
    BY <1>1
  <2> HIDE DEF d, k
  <2> QED
    BY <2>1, Concatenated
<1>4. DOMAIN u = 1 .. m + n
  BY <1>1, <1>3
<1>5. /\ \A i \in DOMAIN u : u[i].base < u[i].end /\ u[i].end < KernelWords
      /\ \A i, j \in DOMAIN u : i # j => ~RangesOverlap(u[i], u[j])
  BY DEF SystemAccepted, Memory
<1>k. s.kernel.base <= s.kernel.end
  <2>1. s.kernel.base \in Nat /\ s.kernel.end \in Nat /\ s.boot.base \in Nat /\ s.boot.end \in Nat
    BY <1>1 DEF RegionType
  <2>2. s.kernel.base <= s.boot.base /\ s.boot.base < s.boot.end /\ s.boot.end <= s.kernel.end
    BY DEF SystemAccepted
  <2> QED
    BY <2>1, <2>2
<1> HIDE DEF d, k, m, n, u
<1>6. \A i \in 1 .. m + n : u[i].base \in Nat /\ u[i].end \in Nat
  <2>1. \A i \in 1 .. m + n : u[i] \in RegionType
    BY <1>2, <1>3, Elements
  <2> QED
    BY <2>1 DEF RegionType
<1>7. ASSUME NEW i \in 1 .. m + n, NEW j \in 1 .. m + n, i # j, NEW x \in Nat
      PROVE  ~(Holds(u[i], x) /\ Holds(u[j], x))
  <2>1. u[i].end <= u[j].base \/ u[j].end <= u[i].base
    BY <1>4, <1>5, <1>7 DEF RangesOverlap
  <2>2. u[i].base \in Nat /\ u[i].end \in Nat /\ u[j].base \in Nat /\ u[j].end \in Nat
    BY <1>6
  <2> QED
    BY <2>1, <2>2 DEF Holds
<1>8. /\ \A i \in 1 .. m : i \in 1 .. m + n
      /\ \A i \in 1 .. n : m + i \in 1 .. m + n
  BY <1>2
<1>9. Scattered(d) /\ \A i \in DOMAIN d : d[i].end < KernelWords
  BY <1>1, <1>2, <1>3, <1>4, <1>5, <1>7, <1>8 DEF Scattered
<1>10. Scattered(k) /\ \A i \in DOMAIN k : k[i].end < KernelWords
  <2>1. ASSUME NEW i \in 1 .. n, NEW j \in 1 .. n, i # j, NEW x \in Nat
        PROVE  ~(Holds(k[i], x) /\ Holds(k[j], x))
    <3>1. m + i # m + j /\ k[i] = u[m + i] /\ k[j] = u[m + j]
      BY <1>2, <1>3, <2>1
    <3> QED
      BY <1>7, <1>8, <3>1
  <2>2. \A i \in 1 .. n : k[i].base < k[i].end /\ k[i].end < KernelWords
    BY <1>3, <1>4, <1>5, <1>8
  <2> QED
    BY <1>1, <1>2, <2>1, <2>2 DEF Scattered
<1>11. ASSUME NEW x \in Nat, In(x, d), In(x, k)
       PROVE  FALSE
  <2>1. PICK i \in 1 .. m : Holds(d[i], x)
    BY <1>2, <1>11 DEF In
  <2>2. PICK j \in 1 .. n : Holds(k[j], x)
    BY <1>2, <1>11 DEF In
  <2>3. i # m + j /\ d[i] = u[i] /\ k[j] = u[m + j]
    BY <1>2, <1>3
  <2> QED
    BY <1>7, <1>8, <2>1, <2>2, <2>3
<1> QED
  BY <1>1, <1>k, <1>9, <1>10, <1>11 DEF d, k, SystemAccepted

\* A region ends where its last address says.
LEMMA EndsBelow ==
  ASSUME NEW rs, Good(rs), NEW q, Scattered(q), NEW K \in Nat,
         \A i \in DOMAIN q : q[i].end < K,
         \A x \in Nat : In(x, rs) => In(x, q)
  PROVE  \A i \in DOMAIN rs : rs[i].end < K
<1> SUFFICES ASSUME NEW i \in DOMAIN rs
             PROVE  rs[i].end < K
  OBVIOUS
<1>1. rs[i].base \in Nat /\ rs[i].end \in Nat /\ rs[i].base < rs[i].end
  BY GoodFacts
<1> DEFINE x == rs[i].end - 1
<1>2. x \in Nat /\ rs[i].base <= x /\ x < rs[i].end
  BY <1>1
<1>3. In(x, rs)
  BY <1>2 DEF In, Holds
<1> HIDE DEF x
<1>4. PICK j \in DOMAIN q : Holds(q[j], x)
  BY <1>2, <1>3 DEF In
<1>5. q[j].end \in Nat /\ q[j].end < K /\ x < q[j].end
  BY <1>4, ScatteredFacts DEF Holds
<1> QED
  BY <1>1, <1>2, <1>5 DEF x

\* The kernel lies in normal memory.
LEMMA KernelInNormal ==
  ASSUME NEW normal, Scattered(normal), NEW kernel \in RegionType,
         Holding(InsertAll(normal), kernel.base, kernel.end) # {}
  PROVE  \A x \in Nat : Holds(kernel, x) => In(x, normal)
<1> DEFINE rs == InsertAll(normal)
<1>1. Good(rs) /\ \A x \in Nat : In(x, rs) => In(x, normal)
  BY InsertAllGood
<1>2. PICK i \in DOMAIN rs : kernel.base >= rs[i].base /\ kernel.end <= rs[i].end
  BY DEF Holding
<1> HIDE DEF rs
<1>3. rs[i].base \in Nat /\ rs[i].end \in Nat /\ kernel.base \in Nat /\ kernel.end \in Nat
  BY <1>1, GoodFacts DEF RegionType
<1>4. \A x \in Nat : Holds(kernel, x) => Holds(rs[i], x)
  BY <1>2, <1>3 DEF Holds
<1> QED
  BY <1>1, <1>4 DEF In

\* The untyped objects of an emulated boot are sound.
LEMMA BootSound ==
  ASSUME NEW s, SystemAccepted(s),
         NEW region \in RegionType, region.base <= region.end,
         NEW image \in RegionType, image.base <= image.end,
         Holding(PartialBoot(s.normal, s.kernel), region.base, region.end) # {},
         BootPossible(s.normal, s.kernel, region, image)
  PROVE  LET us == EmulateKernelBoot(s.devices, s.normal, s.kernel, s.boot, region, image)
         IN  us \in Seq(UntypedType) /\ UntypedsSound(us)
<1> DEFINE free == PartialBoot(s.normal, s.kernel)
           mem == MemoryWithoutTask(s.normal, s.kernel, region)
           size == RootserverSize(TaskVirtRegion(image))
           rest == WithoutRootserver(mem, size)
           dev == InsertAll(s.devices)
           D == AllAlignedPowerOfTwoRegions(dev, MaxUntypedBits)
           B == AlignedPowerOfTwoRegions(s.boot, MaxUntypedBits)
           R == AllAlignedPowerOfTwoRegions(rest, MaxUntypedBits)
<1>0. EmulateKernelBoot(s.devices, s.normal, s.kernel, s.boot, region, image)
        = UntypedsOf(D, TRUE) \o UntypedsOf(B \o R, FALSE)
  BY DEF EmulateKernelBoot
<1>1. /\ Scattered(s.devices) /\ \A i \in DOMAIN s.devices : s.devices[i].end < KernelWords
      /\ Scattered(s.normal) /\ \A i \in DOMAIN s.normal : s.normal[i].end < KernelWords
      /\ \A x \in Nat : ~(In(x, s.devices) /\ In(x, s.normal))
      /\ s.kernel \in RegionType /\ s.boot \in RegionType
      /\ Holding(InsertAll(s.normal), s.kernel.base, s.kernel.end) # {}
      /\ s.kernel.base <= s.boot.base /\ s.boot.base < s.boot.end
      /\ s.boot.end <= s.kernel.end /\ s.kernel.base <= s.kernel.end
  BY SystemFacts
<1>2. MaxUntypedBits \in Bits /\ KernelWords \in Nat
  BY BootAssumption, PowerFacts
<1>3. Good(free) /\ \A x \in Nat : In(x, free) => In(x, s.normal) /\ ~Holds(s.kernel, x)
  BY <1>1, PartialBootGood
<1>4. Good(mem) /\ \A x \in Nat : In(x, mem) => In(x, free)
  <2>1. mem = RemoveRegion(free, region.base, region.end)
    BY DEF MemoryWithoutTask
  <2>2. region.base \in Nat /\ region.end \in Nat
    BY DEF RegionType
  <2> HIDE DEF free, mem
  <2>3. Holding(free, region.base, region.end) # {}
    BY DEF free
  <2> QED
    BY <1>3, <2>1, <2>2, <2>3, RemoveGood
<1>5. size \in Nat \ {0} /\ RootserverAlignment \in Nat \ {0}
  <2> DEFINE virt == TaskVirtRegion(image)
  <2>1. PageSize \in Nat
    BY BootAssumption, PowerFacts DEF PageSize
  <2>2. virt \in RegionType /\ virt.base <= virt.end
    BY <2>1 DEF TaskVirtRegion, Region, RegionType
  <2> HIDE DEF virt
  <2>3. RootserverSize(virt) \in Nat \ {0} /\ RootserverAlignment \in Nat \ {0}
    BY <2>2, RootserverFacts
  <2> QED
    BY <2>3 DEF virt
<1>6. RootserverFits(mem, size) # {}
  BY DEF BootPossible, Once
<1> HIDE DEF free, mem, size
<1>7. Good(rest) /\ \A x \in Nat : In(x, rest) => In(x, mem)
  BY <1>4, <1>5, <1>6, WithoutRootserverGood
<1>8. Good(dev) /\ \A x \in Nat : In(x, dev) => In(x, s.devices)
  BY <1>1, InsertAllGood
<1> HIDE DEF rest, dev
<1>9. Powers2(D) /\ \A x \in Nat : In(x, D) => In(x, s.devices)
  <2>1. Scattered(dev) /\ \A i \in DOMAIN dev : dev[i].end < KernelWords
    BY <1>1, <1>2, <1>8, GoodIsScattered, EndsBelow
  <2> QED
    BY <1>2, <1>8, <2>1, AllBlocks
<1>10. Powers2(R) /\ \A x \in Nat : In(x, R) => In(x, s.normal) /\ ~Holds(s.kernel, x)
  <2>1. \A x \in Nat : In(x, rest) => In(x, s.normal) /\ ~Holds(s.kernel, x)
    BY <1>3, <1>4, <1>7
  <2>2. Scattered(rest) /\ \A i \in DOMAIN rest : rest[i].end < KernelWords
    BY <1>1, <1>2, <1>7, <2>1, GoodIsScattered, EndsBelow
  <2>3. Powers2(R) /\ \A x \in Nat : In(x, R) => In(x, rest)
    BY <1>2, <2>2, AllBlocks
  <2> QED
    BY <2>1, <2>3
<1>11. Powers2(B) /\ \A x \in Nat : In(x, B) => Holds(s.boot, x)
  <2>1. s.boot.base \in Nat /\ s.boot.end \in Nat /\ s.kernel.base \in Nat /\ s.kernel.end \in Nat
    BY <1>1 DEF RegionType
  <2>2. s.boot.base <= s.boot.end
    BY <1>1, <2>1
  <2>3. s.boot.end < KernelWords
    <3> DEFINE x == s.boot.end - 1
    <3>1. x \in Nat /\ Holds(s.kernel, x)
      BY <1>1, <2>1 DEF Holds
    <3>2. \E j \in DOMAIN s.normal : Holds(s.normal[j], x)
      BY <1>1, <3>1, KernelInNormal DEF In
    <3> HIDE DEF x
    <3>3. PICK j \in DOMAIN s.normal : Holds(s.normal[j], x)
      BY <3>2
    <3>4. s.normal[j].end \in Nat /\ s.normal[j].end < KernelWords /\ x < s.normal[j].end
      BY <1>1, <3>3, ScatteredFacts DEF Holds
    <3> QED
      BY <1>2, <2>1, <3>1, <3>4 DEF x
  <2>4. Blocks(B, s.boot.base, s.boot.end)
    BY <1>1, <1>2, <2>2, <2>3, RegionBlocks
  <2> HIDE DEF B
  <2>5. Powers2(B)
    BY <2>4, GoodIsScattered DEF Blocks, Powers2
  <2>6. ASSUME NEW x \in Nat, In(x, B)
        PROVE  Holds(s.boot, x)
    <3>1. PICK i \in DOMAIN B : Holds(B[i], x)
      BY <2>6 DEF In
    <3>2. B[i].base \in Nat /\ B[i].end \in Nat
      BY <2>4, GoodFacts DEF Blocks
    <3>3. s.boot.base <= B[i].base /\ B[i].end <= s.boot.end
      BY <2>4 DEF Blocks, Above, Below
    <3> QED
      BY <2>1, <3>1, <3>2, <3>3 DEF Holds
  <2> QED
    BY <2>5, <2>6
<1>12. \A x \in Nat : Holds(s.boot, x) => Holds(s.kernel, x)
  <2>1. s.boot.base \in Nat /\ s.boot.end \in Nat /\ s.kernel.base \in Nat /\ s.kernel.end \in Nat
    BY <1>1 DEF RegionType
  <2> QED
    BY <1>1, <2>1 DEF Holds
<1>13. \A x \in Nat : Holds(s.kernel, x) => In(x, s.normal)
  BY <1>1, KernelInNormal
<1> HIDE DEF D, B, R
<1>14. Powers2(B \o R) /\ \A x : In(x, B \o R) => In(x, B) \/ In(x, R)
  BY <1>10, <1>11, <1>12, PowersConcat
<1> DEFINE BR == B \o R
<1>15. Powers2(BR) /\ \A x \in Nat : ~(In(x, D) /\ In(x, BR))
  BY <1>1, <1>9, <1>10, <1>11, <1>12, <1>13, <1>14
<1> HIDE DEF BR
<1>16. /\ UntypedsOf(D, TRUE) \o UntypedsOf(BR, FALSE) \in Seq(UntypedType)
       /\ UntypedsSound(UntypedsOf(D, TRUE) \o UntypedsOf(BR, FALSE))
  BY <1>9, <1>15, SoundUntypeds
<1> QED
  BY <1>0, <1>16 DEF BR

-----------------------------------------------------------------------------
(* The order of the root objects.                                          *)

ObjectType == [bits : Bits, paddr : Nat \cup {NoPaddr}]

\* ObjectBefore() orders the objects by what they are, some of them equally.
LEMMA WeakOrder ==
  \A a, b, c \in ObjectType :
    /\ ~ObjectBefore(a, a)
    /\ ObjectBefore(a, b) /\ ObjectBefore(b, c) => ObjectBefore(a, c)
    /\ ~ObjectBefore(a, b) /\ ~ObjectBefore(b, c) => ~ObjectBefore(a, c)
<1> SUFFICES ASSUME NEW a \in ObjectType, NEW b \in ObjectType, NEW c \in ObjectType
             PROVE  /\ ~ObjectBefore(a, a)
                    /\ ObjectBefore(a, b) /\ ObjectBefore(b, c) => ObjectBefore(a, c)
                    /\ ~ObjectBefore(a, b) /\ ~ObjectBefore(b, c) => ~ObjectBefore(a, c)
  OBVIOUS
<1>1. /\ a.bits \in Nat /\ b.bits \in Nat /\ c.bits \in Nat
      /\ a.paddr # NoPaddr => a.paddr \in Nat
      /\ b.paddr # NoPaddr => b.paddr \in Nat
      /\ c.paddr # NoPaddr => c.paddr \in Nat
  BY PowerFacts DEF ObjectType
<1> QED
  BY <1>1, AllocationAssumption DEF ObjectBefore

\* With their places in the list no two are equal.
LEMMA TotalOrder ==
  ASSUME NEW os \in Seq(ObjectType), NEW i \in DOMAIN os, NEW j \in DOMAIN os
  PROVE  /\ ~ComesBefore(os, i, i)
         /\ i # j => ComesBefore(os, i, j) \/ ComesBefore(os, j, i)
         /\ \A k \in DOMAIN os : ComesBefore(os, i, j) /\ ComesBefore(os, j, k)
                                   => ComesBefore(os, i, k)
<1>1. /\ os[i] \in ObjectType /\ os[j] \in ObjectType /\ i \in Nat /\ j \in Nat
      /\ \A k \in DOMAIN os : os[k] \in ObjectType /\ k \in Nat
  OBVIOUS
<1>2. ~ComesBefore(os, i, i)
  BY <1>1, WeakOrder DEF ComesBefore
<1>3. i # j => ComesBefore(os, i, j) \/ ComesBefore(os, j, i)
  BY <1>1, WeakOrder DEF ComesBefore
<1>4. ASSUME NEW k \in DOMAIN os, ComesBefore(os, i, j), ComesBefore(os, j, k)
      PROVE  ComesBefore(os, i, k)
  BY <1>1, <1>4, WeakOrder DEF ComesBefore
<1> QED
  BY <1>2, <1>3, <1>4

\* The sorted list has the same objects, each from another place of the list
\* they were in, and one before the other.
LEMMA SortedFacts ==
  ASSUME NEW os \in Seq(ObjectType)
  PROVE  /\ Sorted(os) \in Seq(ObjectType) /\ Len(Sorted(os)) = Len(os)
         /\ \E from : /\ \A k \in 1 .. Len(os) : /\ from[k] \in 1 .. Len(os)
                                                  /\ Sorted(os)[k] = os[from[k]]
                      /\ \A k, l \in 1 .. Len(os) :
                           k < l => from[k] # from[l] /\ ComesBefore(os, from[k], from[l])
<1> DEFINE n == Len(os)
           before == {p \in (1 .. n) \X (1 .. n) : ComesBefore(os, p[1], p[2])}
           place == SortedPlaces(os)
           from == [k \in 1 .. n |-> CHOOSE i \in 1 .. n : place[i] = k]
<1>1. n \in Nat /\ DOMAIN os = 1 .. n /\ \A i \in 1 .. n : os[i] \in ObjectType
  OBVIOUS
<1>2. \A i, j \in 1 .. n : <<i, j>> \in before <=> ComesBefore(os, i, j)
  OBVIOUS
<1>3. \A i, j, k \in 1 .. n : <<i, j>> \in before /\ <<j, k>> \in before => <<i, k>> \in before
  <2> HIDE DEF before
  <2> QED
    BY <1>1, <1>2, TotalOrder
<1>4. \A i \in 1 .. n : <<i, i>> \notin before
  <2> HIDE DEF before
  <2> QED
    BY <1>1, <1>2, TotalOrder
<1>5. \A i, j \in 1 .. n : i # j => <<i, j>> \in before \/ <<j, i>> \in before
  <2> HIDE DEF before
  <2> QED
    BY <1>1, <1>2, TotalOrder
<1>6. place = Ranking(before, n)
  <2>1. ASSUME NEW j \in 1 .. n
        PROVE  {i \in 1 .. n : ComesBefore(os, i, j)} = {i \in 1 .. n : <<i, j>> \in before}
    <3> HIDE DEF before
    <3> QED
      BY <1>2
  <2> HIDE DEF before
  <2> QED
    BY <1>1, <2>1 DEF SortedPlaces, Ranking
<1>7. /\ \A k \in 1 .. n : \E i \in 1 .. n : place[i] = k
      /\ \A i, j \in 1 .. n : place[i] < place[j] => <<i, j>> \in before
  <2> HIDE DEF before, place, n
  <2> QED
    BY <1>1, <1>3, <1>4, <1>5, <1>6, Ranks, ZenonT(60)
<1>8. Sorted(os) = [k \in 1 .. n |-> os[from[k]]]
  <2>1. Sorted(os) = InPlaces(os, place)
    BY DEF Sorted, Once
  <2>2. InPlaces(os, place) = [k \in 1 .. n |-> os[CHOOSE i \in 1 .. n : place[i] = k]]
    BY <1>1 DEF InPlaces
  <2> HIDE DEF place, n
  <2> QED
    BY <2>1, <2>2
<1>9. \A k \in 1 .. n : from[k] \in 1 .. n /\ place[from[k]] = k
  <2> HIDE DEF place, n
  <2> QED
    BY <1>7
<1> HIDE DEF from
<1>10. Sorted(os) \in Seq(ObjectType) /\ Len(Sorted(os)) = n
  <2> DEFINE s == [k \in 1 .. n |-> os[from[k]]]
  <2>1. s \in [1 .. n -> ObjectType]
    BY <1>1, <1>9
  <2> HIDE DEF s, n
  <2>2. s \in Seq(ObjectType) /\ Len(s) = n
    BY <1>1, <2>1, Sequence
  <2> QED
    BY <1>8, <2>2 DEF s
<1>11. ASSUME NEW k \in 1 .. n, NEW l \in 1 .. n, k < l
       PROVE  from[k] # from[l] /\ ComesBefore(os, from[k], from[l])
  <2>1. place[from[k]] = k /\ place[from[l]] = l /\ from[k] \in 1 .. n /\ from[l] \in 1 .. n
    BY <1>9
  <2> HIDE DEF place, before
  <2>2. <<from[k], from[l]>> \in before
    BY <1>7, <1>11, <2>1
  <2> QED
    BY <1>2, <1>4, <2>1, <2>2
<1>12. \A k \in 1 .. n : from[k] \in 1 .. n /\ Sorted(os)[k] = os[from[k]]
  BY <1>8, <1>9
<1> QED
  BY <1>10, <1>11, <1>12

\* The objects that lie at an address of their own do not overlap.
PinnedApart(os) ==
  \A i, j \in DOMAIN os :
    i # j /\ os[i].paddr # NoPaddr /\ os[j].paddr # NoPaddr =>
      \/ os[i].paddr + 2^os[i].bits <= os[j].paddr
      \/ os[j].paddr + 2^os[j].bits <= os[i].paddr

\* In a sorted list the objects with an address are the first ones, and those
\* of one size without an address stand together.
LEMMA SortedSound ==
  ASSUME NEW os \in Seq(ObjectType), PinnedApart(os)
  PROVE  ObjectsSound(Sorted(os))
<1> DEFINE n == Len(os)
           q == Sorted(os)
<1>1. PICK from : /\ \A k \in 1 .. n : from[k] \in 1 .. n /\ q[k] = os[from[k]]
                  /\ \A k, l \in 1 .. n :
                       k < l => from[k] # from[l] /\ ComesBefore(os, from[k], from[l])
  BY SortedFacts
<1>2. /\ n \in Nat /\ DOMAIN os = 1 .. n /\ DOMAIN q = 1 .. n
      /\ \A k \in 1 .. n : q[k] \in ObjectType
  BY SortedFacts
<1> HIDE DEF q, n
<1>3. \A k \in 1 .. n : /\ q[k].bits \in Bits /\ q[k].bits \in Nat /\ 2^q[k].bits \in Nat \ {0}
                        /\ q[k].paddr \in Nat \cup {NoPaddr}
                        /\ (q[k].paddr # NoPaddr => q[k].paddr \in Nat)
  BY <1>2, PowerFacts DEF ObjectType
<1>4. ASSUME NEW k \in 1 .. n, NEW l \in 1 .. n, k < l
      PROVE  /\ q[l].paddr # NoPaddr => q[k].paddr # NoPaddr /\ q[k].paddr <= q[l].paddr
             /\ q[k].paddr = NoPaddr => q[l].bits <= q[k].bits
  <2>1. ComesBefore(os, from[k], from[l]) /\ os[from[k]] = q[k] /\ os[from[l]] = q[l]
    BY <1>1, <1>4
  <2>2. ~ObjectBefore(q[l], q[k])
    <3>1. /\ ObjectBefore(q[k], q[l]) /\ ObjectBefore(q[l], q[k]) => ObjectBefore(q[k], q[k])
          /\ ~ObjectBefore(q[k], q[k])
      BY <1>2, WeakOrder
    <3> QED
      BY <2>1, <3>1 DEF ComesBefore
  <2> QED
    BY <1>3, <2>2, AllocationAssumption DEF ObjectBefore
<1>5. PinnedApart(q)
  <2> SUFFICES ASSUME NEW i \in 1 .. n, NEW j \in 1 .. n, i # j,
                      q[i].paddr # NoPaddr, q[j].paddr # NoPaddr
               PROVE  \/ q[i].paddr + 2^q[i].bits <= q[j].paddr
                      \/ q[j].paddr + 2^q[j].bits <= q[i].paddr
    BY <1>2 DEF PinnedApart
  <2>1. /\ from[i] \in 1 .. n /\ from[j] \in 1 .. n
        /\ q[i] = os[from[i]] /\ q[j] = os[from[j]]
    BY <1>1
  <2>2. from[i] # from[j]
    BY <1>1
  <2> QED
    BY <1>2, <2>1, <2>2 DEF PinnedApart
<1>6. Pinned(q) \subseteq 1 .. n /\ \A k \in 1 .. n : k \in Pinned(q) <=> q[k].paddr # NoPaddr
  BY <1>2 DEF Pinned
<1>7. Pinned(q) = 1 .. Cardinality(Pinned(q))
  <2>1. CASE Pinned(q) = {}
    <3>1. Cardinality(Pinned(q)) = 0
      BY <2>1, FS_EmptySet
    <3> QED
      BY <2>1, <3>1
  <2>2. CASE Pinned(q) # {}
    <3>1. \A k, l \in 1 .. n : k < l /\ l \in Pinned(q) => k \in Pinned(q)
      BY <1>4, <1>6
    <3> DEFINE P == Pinned(q)
    <3>2. P \subseteq 1 .. n /\ P # {} /\ \A k, l \in 1 .. n : k < l /\ l \in P => k \in P
      BY <1>6, <2>2, <3>1
    <3> HIDE DEF P
    <3>3. \A x, y \in P : \A z \in x .. y : z \in P
      BY <1>2, <3>2
    <3>4. PICK a \in P : (\A y \in P : a <= y) /\ P = a .. a + Cardinality(P) - 1
      BY <1>2, <3>2, <3>3, Convex
    <3>5. 1 \in P
      BY <1>2, <3>2, <3>4
    <3>6. a = 1
      BY <1>2, <3>2, <3>4, <3>5
    <3>7. Cardinality(P) \in Nat
      BY <1>2, <3>2, <3>3, Convex
    <3>8. P = 1 .. Cardinality(P)
      BY <3>4, <3>6, <3>7
    <3> QED
      BY <3>8 DEF P
  <2> QED
    BY <2>1, <2>2
<1>8. ASSUME NEW i \in Pinned(q), NEW j \in Pinned(q), i < j
      PROVE  q[i].paddr + 2^q[i].bits <= q[j].paddr
  <2>1. i \in 1 .. n /\ j \in 1 .. n /\ q[i].paddr # NoPaddr /\ q[j].paddr # NoPaddr
    BY <1>6
  <2>2. q[i].paddr <= q[j].paddr
    BY <1>4, <1>8, <2>1
  <2>3. \/ q[i].paddr + 2^q[i].bits <= q[j].paddr
        \/ q[j].paddr + 2^q[j].bits <= q[i].paddr
    BY <1>2, <1>5, <1>8, <2>1 DEF PinnedApart
  <2>4. /\ q[i].paddr \in Nat /\ q[j].paddr \in Nat
        /\ 2^q[i].bits \in Nat \ {0} /\ 2^q[j].bits \in Nat \ {0}
    BY <1>3, <2>1
  <2> QED
    BY <2>2, <2>3, <2>4
<1>9. ASSUME NEW b \in Bits \ {0}
      PROVE  LET w == Window(q, b)
             IN  w.start \in Nat /\ w.end \in Nat /\ Loose(q, b) = w.start .. w.end - 1
  <2> DEFINE L == Loose(q, b)
  <2>1. /\ L \subseteq 1 .. n
        /\ \A k \in 1 .. n : k \in L <=> q[k].paddr = NoPaddr /\ q[k].bits = b
    BY <1>2 DEF Loose, Pinned
  <2>2. \A x, y \in L : \A z \in x .. y : z \in L
    <3> SUFFICES ASSUME NEW x \in L, NEW y \in L, NEW z \in x .. y, z # x, z # y
                 PROVE  z \in L
      OBVIOUS
    <3>1. x \in 1 .. n /\ y \in 1 .. n /\ z \in 1 .. n /\ x < z /\ z < y
      BY <1>2, <2>1
    <3>2. q[x].paddr = NoPaddr /\ q[x].bits = b /\ q[y].bits = b
      BY <2>1, <3>1
    <3>3. q[z].paddr = NoPaddr
      BY <1>4, <3>1, <3>2
    <3>4. q[z].bits <= q[x].bits /\ q[y].bits <= q[z].bits
      BY <1>4, <3>1, <3>2, <3>3
    <3>5. q[z].bits = b
      BY <1>3, <3>1, <3>2, <3>4
    <3> QED
      BY <2>1, <3>1, <3>3, <3>5
  <2>3. CASE L = {}
    <3>1. Window(q, b).start = 0 /\ Window(q, b).end = 0
      BY <2>3 DEF Window
    <3> QED
      BY <2>3, <3>1
  <2>4. CASE L # {}
    <3> DEFINE first == FirstOf(L)
               w == Window(q, b)
    <3>1. w.start = first /\ w.end = first + Cardinality(L)
      BY <2>4 DEF Window
    <3> HIDE DEF L, w, first
    <3>2. Cardinality(L) \in Nat
      BY <1>2, <2>1, <2>2, <2>4, Convex
    <3>3. PICK a \in L : (\A y \in L : a <= y) /\ L = a .. a + Cardinality(L) - 1
      BY <1>2, <2>1, <2>2, <2>4, Convex
    <3>4. first \in L /\ \A y \in L : first <= y
      BY <3>3 DEF first, FirstOf
    <3>5. first = a /\ a \in Nat
      BY <2>1, <3>3, <3>4, <1>2
    <3>6. w.start = a /\ w.end - 1 = a + Cardinality(L) - 1
      BY <3>1, <3>2, <3>5
    <3>7. L = w.start .. w.end - 1
      BY <3>3, <3>6
    <3>8. w.start \in Nat /\ w.end \in Nat
      BY <3>1, <3>2, <3>5
    <3> QED
      BY <3>7, <3>8 DEF L, w
  <2> QED
    BY <2>3, <2>4
<1>10. IsFiniteSet(DOMAIN q)
  BY <1>2, FS_Interval
<1> QED
  <2>1. \A i \in DOMAIN q : q[i].bits \in Bits /\ q[i].paddr \in Nat \cup {NoPaddr}
    BY <1>2, <1>3
  <2>2. ObjectsSound(q)
    BY <1>7, <1>8, <1>9, <1>10, <2>1 DEF ObjectsSound
  <2> QED
    BY <2>2 DEF q

-----------------------------------------------------------------------------
(* The root objects of a state.                                            *)

\* The system and the addresses of its regions.
AddressType == sys \in Systems /\ mrAddr \in [MRs -> Nat \cup {NoPaddr}]

\* What is accepted of the memory regions.
LEMMA RegionFacts ==
  ASSUME AddressType
  PROVE  /\ SystemAccepted(sys) /\ Len(sys.mrs) \in Nat /\ MRs = 1 .. Len(sys.mrs)
         /\ \A m \in MRs : /\ sys.mrs[m] \in MRType /\ sys.mrs[m].pages \in Nat \ {0}
                           /\ sys.mrs[m].bits \in Bits /\ 2^sys.mrs[m].bits \in Nat \ {0}
                           /\ MRSize(m) \in Nat \ {0}
                           /\ mrAddr[m] \in Nat \cup {NoPaddr}
                           /\ (mrAddr[m] # NoPaddr => mrAddr[m] \in Nat)
<1>1. SystemAccepted(sys)
  BY BuildAssumption DEF AddressType
<1>2. sys.mrs \in Seq(MRType)
  BY <1>1 DEF SystemAccepted
<1>3. Len(sys.mrs) \in Nat /\ MRs = 1 .. Len(sys.mrs)
  BY <1>2 DEF MRs
<1>4. ASSUME NEW m \in MRs
      PROVE  /\ sys.mrs[m] \in MRType /\ sys.mrs[m].pages \in Nat \ {0}
             /\ sys.mrs[m].bits \in Bits /\ 2^sys.mrs[m].bits \in Nat \ {0}
  <2>1. sys.mrs[m] \in MRType
    BY <1>2 DEF MRs
  <2>2. sys.mrs[m].pages \in Nat \ {0} /\ sys.mrs[m].bits \in Bits
    BY <2>1 DEF MRType
  <2> QED
    BY <2>1, <2>2, PowerFacts
<1>5. ASSUME NEW m \in MRs
      PROVE  MRSize(m) \in Nat \ {0}
  <2> DEFINE p == sys.mrs[m].pages
             x == 2^sys.mrs[m].bits
  <2>1. p \in Nat \ {0} /\ x \in Nat \ {0}
    BY <1>4
  <2>2. MRSize(m) = p * x
    BY DEF MRSize
  <2> HIDE DEF p, x
  <2> QED
    BY <2>1, <2>2, Product
<1> QED
  BY <1>1, <1>3, <1>4, <1>5 DEF AddressType

\* Multiples grow.
LEMMA Multiples ==
  ASSUME NEW x \in Nat, NEW y \in Nat, NEW p \in Nat, x <= y
  PROVE  x * p \in Nat /\ x * p <= y * p
<1>1. PICK d \in Nat : y = x + d
  <2>1. y - x \in Nat /\ y = x + (y - x)
    OBVIOUS
  <2> QED
    BY <2>1
<1>2. x * p \in Nat /\ d * p \in Nat
  OBVIOUS
<1>3. y * p = x * p + d * p
  BY <1>1
<1> QED
  BY <1>2, <1>3

\* The frames of a region fill it, one behind the other.
LEMMA FrameFacts ==
  ASSUME AddressType, NEW m \in MRs
  PROVE  /\ Frames(m) \in Seq(ObjectType)
         /\ \A i \in DOMAIN Frames(m) :
              Frames(m)[i].paddr # NoPaddr =>
                /\ mrAddr[m] # NoPaddr
                /\ mrAddr[m] <= Frames(m)[i].paddr
                /\ Frames(m)[i].paddr + 2^Frames(m)[i].bits <= mrAddr[m] + MRSize(m)
         /\ \A i, j \in DOMAIN Frames(m) :
              i < j /\ Frames(m)[i].paddr # NoPaddr =>
                Frames(m)[i].paddr + 2^Frames(m)[i].bits <= Frames(m)[j].paddr
<1> DEFINE n == sys.mrs[m].pages
           x == 2^sys.mrs[m].bits
           a == mrAddr[m]
           fr == Frames(m)
<1>1. /\ n \in Nat /\ x \in Nat \ {0} /\ a \in Nat \cup {NoPaddr} /\ (a # NoPaddr => a \in Nat)
      /\ sys.mrs[m].bits \in Bits
  BY RegionFacts
<1>2. MRSize(m) = n * x
  BY DEF MRSize
<1>3. /\ DOMAIN fr = 1 .. n
      /\ \A i \in 1 .. n :
           fr[i] = [bits  |-> sys.mrs[m].bits,
                    paddr |-> IF a = NoPaddr THEN NoPaddr ELSE a + (i - 1) * x]
      /\ fr = [i \in 1 .. n |-> fr[i]]
  BY DEF Frames
<1> HIDE DEF n, a, fr
<1>4. \A i \in 1 .. n : /\ 2^fr[i].bits = x /\ fr[i].bits \in Bits
                        /\ a = NoPaddr => fr[i].paddr = NoPaddr
                        /\ a # NoPaddr => fr[i].paddr = a + (i - 1) * x
  <2> TAKE i \in 1 .. n
  <2>1. fr[i].bits = sys.mrs[m].bits
    BY <1>3
  <2>2. 2^fr[i].bits = x /\ fr[i].bits \in Bits
    BY <1>1, <2>1
  <2> HIDE DEF x
  <2>3. fr[i].paddr = IF a = NoPaddr THEN NoPaddr ELSE a + (i - 1) * x
    BY <1>3
  <2> QED
    BY <2>2, <2>3
<1> HIDE DEF x
<1>5. \A i \in 1 .. n : (i - 1) * x \in Nat /\ (i - 1) * x + x = i * x /\ i * x <= n * x
  <2> TAKE i \in 1 .. n
  <2>1. i \in Nat /\ i - 1 \in Nat /\ i <= n /\ i - 1 <= n
    BY <1>1
  <2>2. (i - 1) * x \in Nat /\ i * x <= n * x
    BY <1>1, <2>1, Multiples
  <2>3. (i - 1) * x + x = i * x
    BY <1>1, <2>1
  <2> QED
    BY <2>2, <2>3
<1>6. ASSUME NEW i \in 1 .. n
      PROVE  fr[i] \in ObjectType
  <2>1. fr[i].bits \in Bits /\ fr[i].paddr \in Nat \cup {NoPaddr}
    BY <1>1, <1>4, <1>5
  <2>2. fr[i] = [bits |-> fr[i].bits, paddr |-> fr[i].paddr]
    BY <1>3
  <2> QED
    BY <2>1, <2>2 DEF ObjectType
<1>7. fr \in Seq(ObjectType)
  <2>1. fr \in [1 .. n -> ObjectType]
    BY <1>3, <1>6
  <2> QED
    BY <2>1, <1>1, Sequence
<1>8. ASSUME NEW i \in 1 .. n, fr[i].paddr # NoPaddr
      PROVE  /\ a # NoPaddr /\ a <= fr[i].paddr
             /\ fr[i].paddr + 2^fr[i].bits <= a + n * x
  <2>1. a # NoPaddr /\ a \in Nat /\ fr[i].paddr = a + (i - 1) * x /\ 2^fr[i].bits = x
    BY <1>1, <1>4, <1>8
  <2>2. (i - 1) * x \in Nat /\ (i - 1) * x + x = i * x /\ i * x <= n * x
    BY <1>5
  <2>3. i * x \in Nat /\ n * x \in Nat
    BY <1>1
  <2> QED
    BY <1>1, <2>1, <2>2, <2>3
<1>9. ASSUME NEW i \in 1 .. n, NEW j \in 1 .. n, i < j, fr[i].paddr # NoPaddr
      PROVE  fr[i].paddr + 2^fr[i].bits <= fr[j].paddr
  <2>1. a # NoPaddr /\ a \in Nat /\ fr[i].paddr = a + (i - 1) * x /\ 2^fr[i].bits = x
        /\ fr[j].paddr = a + (j - 1) * x
    BY <1>1, <1>4, <1>9
  <2>2. (i - 1) * x \in Nat /\ (i - 1) * x + x = i * x
    BY <1>5
  <2>3. i * x \in Nat /\ i * x <= (j - 1) * x
    <3>1. i \in Nat /\ j - 1 \in Nat /\ i <= j - 1
      BY <1>1, <1>9
    <3> QED
      BY <1>1, <3>1, Multiples
  <2>4. (j - 1) * x \in Nat
    BY <1>5
  <2> QED
    BY <1>1, <2>1, <2>2, <2>3, <2>4
<1>10. /\ \A i \in DOMAIN fr :
            fr[i].paddr # NoPaddr =>
              /\ a # NoPaddr /\ a <= fr[i].paddr
              /\ fr[i].paddr + 2^fr[i].bits <= a + MRSize(m)
       /\ \A i, j \in DOMAIN fr :
            i < j /\ fr[i].paddr # NoPaddr => fr[i].paddr + 2^fr[i].bits <= fr[j].paddr
  BY <1>2, <1>3, <1>8, <1>9
<1> QED
  BY <1>7, <1>10 DEF fr, a

\* The objects of a specification whose regions are apart are apart.
LEMMA ObjectsFacts ==
  ASSUME AddressType, RegionsApart
  PROVE  Objects \in Seq(ObjectType) /\ PinnedApart(Objects)
<1> DEFINE n == Len(sys.mrs)
           ss == [m \in MRs |-> Frames(m)]
           fl == FlattenSeq(ss)
           ot == sys.others
<1>1. n \in Nat /\ MRs = 1 .. n /\ SystemAccepted(sys)
  BY RegionFacts
<1>2. ss \in Seq(Seq(ObjectType))
  <2>1. ss \in [1 .. n -> Seq(ObjectType)]
    BY <1>1, FrameFacts
  <2> HIDE DEF n, ss
  <2> QED
    BY <1>1, <2>1, Sequence
<1>3. DOMAIN ss = MRs /\ \A m \in MRs : ss[m] = Frames(m)
  OBVIOUS
<1>4. ot \in Seq(ObjectType) /\ \A i \in DOMAIN ot : ot[i].paddr = NoPaddr
  <2>1. ot \in Seq([bits : Bits, paddr : {NoPaddr}])
    BY <1>1 DEF SystemAccepted
  <2> HIDE DEF ot
  <2>2. \A i \in 1 .. Len(ot) : ot[i] \in ObjectType /\ ot[i].paddr = NoPaddr
    <3> DEFINE T == [bits : Bits, paddr : {NoPaddr}]
    <3>1. \A r \in T : r \in ObjectType /\ r.paddr = NoPaddr
      BY DEF ObjectType
    <3> HIDE DEF T
    <3>2. \A i \in 1 .. Len(ot) : ot[i] \in T
      BY <2>1, Elements DEF T
    <3> QED
      BY <3>1, <3>2
  <2>3. ot \in [1 .. Len(ot) -> ObjectType] /\ Len(ot) \in Nat /\ DOMAIN ot = 1 .. Len(ot)
    BY <2>1, <2>2
  <2> QED
    BY <2>2, <2>3, Sequence
<1> HIDE DEF n, ss
<1>5. fl \in Seq(ObjectType)
  BY <1>2, FlattenPlaces
<1>6. PICK row, col : TakenFrom(ss, fl, row, col)
  BY <1>2, FlattenPlaces
<1> HIDE DEF fl, ot
<1>7. ASSUME NEW i \in DOMAIN fl, fl[i].paddr # NoPaddr
      PROVE  /\ row[i] \in MRs /\ col[i] \in DOMAIN Frames(row[i])
             /\ fl[i] = Frames(row[i])[col[i]]
             /\ mrAddr[row[i]] \in Nat /\ mrAddr[row[i]] # NoPaddr /\ MRSize(row[i]) \in Nat
             /\ mrAddr[row[i]] <= fl[i].paddr
             /\ fl[i].paddr + 2^fl[i].bits <= mrAddr[row[i]] + MRSize(row[i])
             /\ fl[i].paddr \in Nat /\ 2^fl[i].bits \in Nat
  <2>1. row[i] \in MRs /\ col[i] \in DOMAIN Frames(row[i]) /\ fl[i] = Frames(row[i])[col[i]]
    BY <1>3, <1>6 DEF TakenFrom
  <2>2. /\ mrAddr[row[i]] # NoPaddr
        /\ mrAddr[row[i]] <= fl[i].paddr
        /\ fl[i].paddr + 2^fl[i].bits <= mrAddr[row[i]] + MRSize(row[i])
    BY <1>7, <2>1, FrameFacts
  <2>3. mrAddr[row[i]] \in Nat /\ MRSize(row[i]) \in Nat
    BY <2>1, <2>2, RegionFacts
  <2>4. fl[i] \in ObjectType
    BY <1>5
  <2>5. fl[i].paddr \in Nat /\ 2^fl[i].bits \in Nat
    BY <1>7, <2>4, PowerFacts DEF ObjectType
  <2> QED
    BY <2>1, <2>2, <2>3, <2>5
<1>8. ASSUME NEW i \in DOMAIN fl, NEW j \in DOMAIN fl, i # j,
             fl[i].paddr # NoPaddr, fl[j].paddr # NoPaddr
      PROVE  \/ fl[i].paddr + 2^fl[i].bits <= fl[j].paddr
             \/ fl[j].paddr + 2^fl[j].bits <= fl[i].paddr
  <2>1. CASE row[i] = row[j]
    <3>1. col[i] # col[j]
      BY <1>6, <1>8, <2>1 DEF TakenFrom
    <3>2. col[i] \in Nat /\ col[j] \in Nat
      <4>1. DOMAIN Frames(row[i]) \subseteq Nat
        <5>1. Frames(row[i]) \in Seq(ObjectType)
          BY <1>7, <1>8, FrameFacts
        <5> QED
          BY <5>1
      <4> QED
        BY <4>1, <1>7, <1>8, <2>1
    <3>3. CASE col[i] < col[j]
      BY <1>7, <1>8, <2>1, <3>3, FrameFacts
    <3>4. CASE col[j] < col[i]
      BY <1>7, <1>8, <2>1, <3>4, FrameFacts
    <3> QED
      BY <3>1, <3>2, <3>3, <3>4
  <2>2. CASE row[i] # row[j]
    <3>1. /\ row[i] \in MRs /\ row[j] \in MRs
          /\ NoPaddr \notin {mrAddr[row[i]], mrAddr[row[j]]}
      BY <1>7, <1>8
    <3>2. ~RangesOverlap(MRRegion(row[i]), MRRegion(row[j]))
      BY <2>2, <3>1 DEF RegionsApart
    <3>3. \/ mrAddr[row[i]] + MRSize(row[i]) <= mrAddr[row[j]]
          \/ mrAddr[row[j]] + MRSize(row[j]) <= mrAddr[row[i]]
      BY <3>2 DEF RangesOverlap, MRRegion, Region
    <3>4. /\ mrAddr[row[i]] \in Nat /\ MRSize(row[i]) \in Nat
          /\ mrAddr[row[i]] <= fl[i].paddr
          /\ fl[i].paddr + 2^fl[i].bits <= mrAddr[row[i]] + MRSize(row[i])
          /\ fl[i].paddr \in Nat /\ 2^fl[i].bits \in Nat
      BY <1>7, <1>8
    <3>5. /\ mrAddr[row[j]] \in Nat /\ MRSize(row[j]) \in Nat
          /\ mrAddr[row[j]] <= fl[j].paddr
          /\ fl[j].paddr + 2^fl[j].bits <= mrAddr[row[j]] + MRSize(row[j])
          /\ fl[j].paddr \in Nat /\ 2^fl[j].bits \in Nat
      BY <1>7, <1>8
    <3> QED
      BY <3>3, <3>4, <3>5
  <2> QED
    BY <2>1, <2>2
<1>9. Objects = fl \o ot
  BY DEF Objects, fl, ss, ot
<1>10. /\ Objects \in Seq(ObjectType) /\ Len(Objects) = Len(fl) + Len(ot)
       /\ \A i \in 1 .. Len(fl) : Objects[i] = fl[i]
       /\ \A i \in 1 .. Len(ot) : Objects[Len(fl) + i] = ot[i]
  BY <1>4, <1>5, <1>9, Concatenated
<1>11. ASSUME NEW i \in DOMAIN Objects, Objects[i].paddr # NoPaddr
       PROVE  i \in DOMAIN fl /\ Objects[i] = fl[i]
  <2>1. Len(fl) \in Nat /\ Len(ot) \in Nat /\ DOMAIN fl = 1 .. Len(fl) /\ DOMAIN ot = 1 .. Len(ot)
    BY <1>4, <1>5, Elements
  <2>2. i \in 1 .. Len(fl) + Len(ot)
    BY <1>10
  <2>3. CASE i <= Len(fl)
    BY <1>10, <2>1, <2>2, <2>3
  <2>4. CASE ~(i <= Len(fl))
    <3>1. i - Len(fl) \in 1 .. Len(ot) /\ Len(fl) + (i - Len(fl)) = i
      BY <2>1, <2>2, <2>4
    <3>2. Objects[i] = ot[i - Len(fl)]
      BY <1>10, <3>1
    <3> QED
      BY <1>4, <1>11, <2>1, <3>1, <3>2
  <2> QED
    BY <2>3, <2>4
<1>12. PinnedApart(Objects)
  BY <1>8, <1>11 DEF PinnedApart
<1> QED
  BY <1>10, <1>12

\* So the objects are as the simulation assumes.
LEMMA RootObjectsSound ==
  ASSUME AddressType, RegionsApart
  PROVE  ObjectsSound(RootObjects)
<1> DEFINE os == Objects
<1>1. RootObjects = Sorted(os)
  BY DEF RootObjects, Once
<1>2. os \in Seq(ObjectType) /\ PinnedApart(os)
  BY ObjectsFacts
<1> HIDE DEF os
<1> QED
  BY <1>1, <1>2, SortedSound

-----------------------------------------------------------------------------
(* The memory the tool picks addresses in.                                 *)

UntypedRegions == [i \in DOMAIN uts |-> Region(uts[i].base, End(uts[i]))]

\* Sound untyped objects have no address in common.
LEMMA UntypedsScattered ==
  ASSUME uts \in Seq(UntypedType), UntypedsSound(uts)
  PROVE  Scattered(UntypedRegions) /\ Len(UntypedRegions) = Len(uts)
<1> DEFINE n == Len(uts)
           rs == UntypedRegions
<1>1. n \in Nat /\ DOMAIN uts = 1 .. n /\ \A i \in 1 .. n : uts[i] \in UntypedType
  OBVIOUS
<1>2. \A i \in 1 .. n : /\ uts[i].base \in Nat /\ End(uts[i]) \in Nat
                        /\ uts[i].base < End(uts[i])
  <2> TAKE i \in 1 .. n
  <2>1. uts[i].base \in Nat /\ 2^uts[i].bits \in Nat \ {0}
    BY <1>1, PowerFacts DEF UntypedType
  <2> QED
    BY <2>1 DEF End
<1>3. /\ DOMAIN rs = 1 .. n /\ rs \in [1 .. n -> RegionType]
      /\ \A i \in 1 .. n : rs[i].base = uts[i].base /\ rs[i].end = End(uts[i])
  BY <1>1, <1>2 DEF UntypedRegions, Region, RegionType
<1> HIDE DEF n, rs
<1>4. rs \in Seq(RegionType) /\ Len(rs) = n
  BY <1>1, <1>3, Sequence
<1>5. \A i \in DOMAIN rs : rs[i].base < rs[i].end
  BY <1>2, <1>3
<1>6. ASSUME NEW i \in DOMAIN rs, NEW j \in DOMAIN rs, i # j, NEW x \in Nat
      PROVE  ~(Holds(rs[i], x) /\ Holds(rs[j], x))
  <2>1. End(uts[i]) <= uts[j].base \/ End(uts[j]) <= uts[i].base
    BY <1>1, <1>3, <1>6 DEF UntypedsSound
  <2>2. /\ uts[i].base \in Nat /\ End(uts[i]) \in Nat
        /\ uts[j].base \in Nat /\ End(uts[j]) \in Nat
        /\ rs[i].base = uts[i].base /\ rs[i].end = End(uts[i])
        /\ rs[j].base = uts[j].base /\ rs[j].end = End(uts[j])
    BY <1>2, <1>3
  <2> QED
    BY <2>1, <2>2 DEF Holds
<1>7. Scattered(rs) /\ Len(rs) = n
  BY <1>4, <1>5, <1>6 DEF Scattered
<1> QED
  BY <1>7 DEF rs, n

\* The untyped objects that hold a page, as regions.
LEMMA UntypedMemoryGood ==
  ASSUME uts \in Seq(UntypedType), UntypedsSound(uts)
  PROVE  Good(UntypedMemory)
<1> DEFINE n == Len(uts)
           rs == UntypedRegions
           Insert(v, i) == IF HoldsPage(uts[i]) THEN InsertRegion(v, uts[i].base, End(uts[i]))
                           ELSE v
           G(g) == g = [i \in 0 .. n |->
                          IF i = 0 THEN <<>>
                          ELSE IF HoldsPage(uts[i])
                          THEN InsertRegion(g[i - 1], uts[i].base, End(uts[i]))
                          ELSE g[i - 1]]
           g == CHOOSE g : G(g)
           V == [k \in 0 .. n |-> Inserted(rs, k)]
           pred == [k \in 1 .. n |-> k - 1]
           step == [k \in 1 .. n |-> [v \in Inserted(rs, k - 1) |-> Insert(v, k)]]
<1>1. n \in Nat /\ DOMAIN uts = 1 .. n /\ Scattered(rs) /\ Len(rs) = n
  BY UntypedsScattered
<1>2. UntypedMemory = g[n]
  BY DEF UntypedMemory
<1>3. /\ \A k \in 1 .. n : pred[k] = k - 1 /\ k - 1 \in 0 .. n
      /\ \A k \in 0 .. n : V[k] = Inserted(rs, k)
  BY <1>1
<1>4. ASSUME NEW k \in 1 .. n, NEW v \in Inserted(rs, k - 1)
      PROVE  step[k][v] = Insert(v, k)
  OBVIOUS
<1>5. <<>> \in V[0]
  <2>1. <<>> \in Inserted(rs, 0)
    BY GoodSmall DEF Inserted
  <2> QED
    BY <1>1, <2>1
<1>6. ASSUME NEW k \in 1 .. n, NEW v \in Inserted(rs, k - 1)
      PROVE  Insert(v, k) \in Inserted(rs, k)
  <2>1. CASE HoldsPage(uts[k])
    <3>1. rs[k].base = uts[k].base /\ rs[k].end = End(uts[k])
      BY <1>1 DEF UntypedRegions, Region
    <3>2. InsertRegion(v, rs[k].base, rs[k].end) \in Inserted(rs, k)
      <4> HIDE DEF rs, n
      <4> QED
        BY <1>1, InsertOne
    <3> QED
      BY <2>1, <3>1, <3>2
  <2>2. CASE ~HoldsPage(uts[k])
    <3>1. v \in Inserted(rs, k)
      <4>1. \A j \in 1 .. k - 1 : j \in 1 .. k
        BY <1>1
      <4> HIDE DEF rs
      <4> QED
        BY <4>1 DEF Inserted
    <3> QED
      BY <2>2, <3>1
  <2> QED
    BY <2>1, <2>2
<1> HIDE DEF V, pred, step, rs
<1>7. PICK f : StepsOf(f, n, pred, step, <<>>) /\ \A k \in 0 .. n : f[k] \in V[k]
  <2>1. \A k \in 1 .. n : pred[k] \in 0 .. k - 1
    BY <1>1, <1>3
  <2>2. \A k \in 1 .. n : \A v \in V[pred[k]] : step[k][v] \in V[k]
    <3> HIDE DEF Insert
    <3> QED
      BY <1>1, <1>3, <1>4, <1>6
  <2> HIDE DEF n
  <2> QED
    BY <1>1, <1>5, <2>1, <2>2, StepsIn
<1>8. G(f)
  <2>1. f = [k \in 0 .. n |-> IF k = 0 THEN <<>> ELSE step[k][f[pred[k]]]]
    BY <1>7 DEF StepsOf
  <2>2. \A k \in 1 .. n : step[k][f[pred[k]]] = Insert(f[k - 1], k)
    <3> HIDE DEF Insert
    <3> QED
      BY <1>1, <1>3, <1>4, <1>7
  <2>3. f = [k \in 0 .. n |-> f[k]]
    BY <2>1
  <2>4. \A k \in 0 .. n : f[k] = IF k = 0 THEN <<>> ELSE step[k][f[pred[k]]]
    BY <2>1
  <2>5. \A i \in 0 .. n : f[i] = IF i = 0 THEN <<>>
                                 ELSE IF HoldsPage(uts[i])
                                 THEN InsertRegion(f[i - 1], uts[i].base, End(uts[i]))
                                 ELSE f[i - 1]
    BY <1>1, <2>2, <2>4
  <2> QED
    BY <2>3, <2>5
<1>9. G(g)
  <2> HIDE DEF G
  <2> QED
    BY <1>8
<1> HIDE DEF g
<1>10. \A k \in 0 .. n : g[k] \in V[k]
  <2>1. g[0] \in V[0]
    BY <1>1, <1>5, <1>9
  <2>2. ASSUME NEW k \in 1 .. n, g[pred[k]] \in V[pred[k]]
        PROVE  g[k] \in V[k]
    <3>1. g[k] = Insert(g[k - 1], k)
      BY <1>1, <1>9
    <3>2. g[k - 1] \in Inserted(rs, k - 1)
      BY <1>3, <2>2
    <3> HIDE DEF Insert
    <3> QED
      BY <1>1, <1>3, <1>6, <3>1, <3>2
  <2>3. \A k \in 1 .. n : pred[k] \in 0 .. k - 1
    BY <1>1, <1>3
  <2> HIDE DEF n
  <2> QED
    BY <1>1, <2>1, <2>2, <2>3, Along
<1>11. g[n] \in Inserted(rs, n)
  BY <1>1, <1>3, <1>10
<1> QED
  BY <1>2, <1>11 DEF Inserted

\* Taking one region away.
LEMMA TakeGood ==
  ASSUME AddressType, NEW m \in MRs, sys.mrs[m].kind = "Specified" => mrAddr[m] \in Nat,
         NEW v, Good(v)
  PROVE  Good(TakeSpecified(v, m))
<1> DEFINE b == mrAddr[m]
           e == mrAddr[m] + MRSize(m)
<1>1. CASE /\ sys.mrs[m].kind = "Specified"
           /\ \E i \in DOMAIN v : v[i].base <= b /\ b < v[i].end /\ e <= v[i].end
  <2>1. TakeSpecified(v, m) = RemoveRegion(v, b, e)
    BY <1>1 DEF TakeSpecified
  <2>2. b \in Nat /\ e \in Nat /\ b <= e
    BY <1>1, RegionFacts
  <2>3. Holding(v, b, e) # {}
    <3>1. PICK i \in DOMAIN v : v[i].base <= b /\ e <= v[i].end
      BY <1>1
    <3>2. v[i].base \in Nat
      BY <3>1, GoodFacts
    <3>3. i \in Holding(v, b, e)
      <4> HIDE DEF b, e
      <4> QED
        BY <2>2, <3>1, <3>2 DEF Holding
    <3> QED
      BY <3>3
  <2> HIDE DEF b, e
  <2>4. Good(RemoveRegion(v, b, e))
    BY <2>2, <2>3, RemoveGood
  <2> QED
    BY <2>1, <2>4
<1>2. CASE ~(/\ sys.mrs[m].kind = "Specified"
             /\ \E i \in DOMAIN v : v[i].base <= b /\ b < v[i].end /\ e <= v[i].end)
  <2>1. TakeSpecified(v, m) = v
    BY <1>2 DEF TakeSpecified
  <2> QED
    BY <2>1
<1> QED
  BY <1>1, <1>2

GoodLists == {v \in Seq(RegionType) : Good(v)}

\* The memory left for the regions without an address.
LEMMA AvailableGood ==
  ASSUME AddressType, \A m \in MRs : sys.mrs[m].kind = "Specified" => mrAddr[m] \in Nat,
         uts \in Seq(UntypedType), UntypedsSound(uts)
  PROVE  Good(AvailableUserMemory)
<1> DEFINE n == Len(sys.mrs)
           first == UntypedMemory
           G(g) == g = [m \in 0 .. n |->
                          IF m = 0 THEN UntypedMemory
                          ELSE Once(g[m - 1], LAMBDA memory : TakeSpecified(memory, m))]
           g == CHOOSE g : G(g)
           V == [k \in 0 .. n |-> GoodLists]
           pred == [k \in 1 .. n |-> k - 1]
           step == [k \in 1 .. n |-> [v \in GoodLists |-> TakeSpecified(v, k)]]
<1>1. n \in Nat /\ MRs = 1 .. n
  BY RegionFacts
<1>2. AvailableUserMemory = g[n]
  BY DEF AvailableUserMemory
<1>3. /\ \A k \in 1 .. n : pred[k] = k - 1 /\ k - 1 \in 0 .. n
      /\ \A k \in 0 .. n : V[k] = GoodLists
  BY <1>1
<1>4. ASSUME NEW k \in 1 .. n, NEW v \in GoodLists
      PROVE  step[k][v] = TakeSpecified(v, k)
  OBVIOUS
<1>o. \A k, v : Once(v, LAMBDA memory : TakeSpecified(memory, k)) = TakeSpecified(v, k)
  BY DEF Once
<1>5. first \in GoodLists
  BY UntypedMemoryGood, GoodFacts DEF GoodLists
<1>6. ASSUME NEW k \in 1 .. n, NEW v \in GoodLists
      PROVE  TakeSpecified(v, k) \in GoodLists
  <2>1. Good(TakeSpecified(v, k))
    BY <1>1, TakeGood DEF GoodLists
  <2> QED
    BY <2>1, GoodFacts DEF GoodLists
<1> HIDE DEF V, pred, step, first
<1>7. PICK f : StepsOf(f, n, pred, step, first) /\ \A k \in 0 .. n : f[k] \in V[k]
  <2>1. \A k \in 1 .. n : pred[k] \in 0 .. k - 1
    BY <1>1, <1>3
  <2>2. \A k \in 1 .. n : \A v \in V[pred[k]] : step[k][v] \in V[k]
    BY <1>1, <1>3, <1>4, <1>6
  <2>3. first \in V[0]
    BY <1>1, <1>3, <1>5
  <2> HIDE DEF n
  <2> QED
    BY <1>1, <2>1, <2>2, <2>3, StepsIn
<1>8. G(f)
  <2>1. f = [k \in 0 .. n |-> IF k = 0 THEN first ELSE step[k][f[pred[k]]]]
    BY <1>7 DEF StepsOf
  <2>2. \A k \in 1 .. n : step[k][f[pred[k]]] = TakeSpecified(f[k - 1], k)
    BY <1>1, <1>3, <1>4, <1>7
  <2>3. f = [k \in 0 .. n |-> f[k]]
    BY <2>1
  <2>4. \A k \in 0 .. n : f[k] = IF k = 0 THEN first ELSE step[k][f[pred[k]]]
    BY <2>1
  <2>5. \A k \in 0 .. n : f[k] = IF k = 0 THEN first ELSE TakeSpecified(f[k - 1], k)
    BY <1>1, <2>2, <2>4
  <2>6. f = [m \in 0 .. n |-> IF m = 0 THEN first ELSE TakeSpecified(f[m - 1], m)]
    BY <2>3, <2>5
  <2> QED
    BY <2>6, <1>o DEF first
<1>9. G(g)
  <2> HIDE DEF G
  <2> QED
    BY <1>8
<1> HIDE DEF g
<1>g. /\ g[0] = first
      /\ \A k \in 1 .. n : g[k] = TakeSpecified(g[k - 1], k)
  <2>1. g = [m \in 0 .. n |-> IF m = 0 THEN first ELSE TakeSpecified(g[m - 1], m)]
    BY <1>9, <1>o DEF first
  <2> HIDE DEF G, n
  <2> QED
    BY <1>1, <2>1
<1> HIDE DEF G
<1>10. \A k \in 0 .. n : g[k] \in V[k]
  <2>1. g[0] \in V[0]
    BY <1>1, <1>3, <1>5, <1>g
  <2>2. ASSUME NEW k \in 1 .. n, g[pred[k]] \in V[pred[k]]
        PROVE  g[k] \in V[k]
    BY <1>1, <1>3, <1>6, <1>g, <2>2
  <2>3. \A k \in 1 .. n : pred[k] \in 0 .. k - 1
    BY <1>1, <1>3
  <2> HIDE DEF n
  <2> QED
    BY <1>1, <2>1, <2>2, <2>3, Along
<1>11. g[n] \in GoodLists
  BY <1>1, <1>3, <1>10
<1> QED
  BY <1>2, <1>11 DEF GoodLists

-----------------------------------------------------------------------------
(* Picking addresses.                                                      *)

\* An aligned place lies in one region.
LEMMA AllocateFacts ==
  ASSUME NEW rs, Good(rs), NEW size \in Nat, NEW align \in Nat \ {0},
         FitsAligned(rs, size, align) # {}
  PROVE  /\ Allocate(rs, size, align) \in Nat /\ Allocate(rs, size, align) % align = 0
         /\ Holding(rs, Allocate(rs, size, align), Allocate(rs, size, align) + size) # {}
<1> DEFINE F == FitsAligned(rs, size, align)
           i == CHOOSE i \in F : \A j \in F : i <= j
           b == rs[i].base
           a == RoundUp(b, align)
<1>1. Allocate(rs, size, align) = a
  BY DEF Allocate
<1>2. /\ DOMAIN rs = 1 .. Len(rs) /\ Len(rs) \in Nat
      /\ \A k \in 1 .. Len(rs) : rs[k].base \in Nat /\ rs[k].end \in Nat
  BY GoodFacts
<1>3. i \in F
  <2>1. F \subseteq Nat
    BY <1>2 DEF FitsAligned
  <2> HIDE DEF F
  <2>2. \E k \in F : \A j \in F : k <= j
    BY <2>1, Least DEF F
  <2> QED
    BY <2>2
<1>4. i \in DOMAIN rs /\ a + size <= rs[i].end
  BY <1>3 DEF FitsAligned
<1> HIDE DEF i, F
<1>5. b \in Nat
  BY <1>2, <1>4
<1>6. a \in Nat /\ b <= a /\ a % align = 0
  <2> HIDE DEF b
  <2> QED
    BY <1>5, Rounding
<1> HIDE DEF a
<1>7. i \in Holding(rs, a, a + size)
  BY <1>2, <1>4, <1>6 DEF Holding
<1> QED
  BY <1>1, <1>6, <1>7

\* All addresses of a region that a list holds are in the list.
LEMMA HeldPoints ==
  ASSUME NEW rs, Good(rs), NEW b \in Nat, NEW e \in Nat, Holding(rs, b, e) # {}
  PROVE  \A x \in Nat : b <= x /\ x < e => In(x, rs)
<1>1. PICK i \in DOMAIN rs : b >= rs[i].base /\ e <= rs[i].end
  BY DEF Holding
<1>2. rs[i].base \in Nat /\ rs[i].end \in Nat
  BY <1>1, GoodFacts
<1>3. \A x \in Nat : b <= x /\ x < e => Holds(rs[i], x)
  BY <1>1, <1>2 DEF Holds
<1> QED
  BY <1>1, <1>3 DEF In

\* None of the addresses a from on, as many as region k has, is in memory.
FreeOf(memory, a, k) == \A x \in Nat : a <= x /\ x < a + MRSize(k) => ~In(x, memory)

\* Two regions at addresses a and b.
Beside(a, k, b, l) == a + MRSize(k) <= b \/ b + MRSize(l) <= a

\* What is known when the regions up to m have been picked.
PickType == [memory : GoodLists, addr : [MRs -> Nat \cup {NoPaddr}], failed : BOOLEAN]
PickSound(acc, m) ==
  /\ \A k \in MRs : ~ToolAllocated(k) => acc.addr[k] = mrAddr[k]
  /\ \A k \in MRs : ToolAllocated(k) /\ k <= m =>
                      acc.addr[k] # NoPaddr /\ acc.addr[k] % 2^sys.mrs[k].bits = 0
  /\ \A k \in MRs : acc.addr[k] # NoPaddr => FreeOf(acc.memory, acc.addr[k], k)
  /\ \A k, l \in MRs : k # l /\ acc.addr[k] # NoPaddr /\ acc.addr[l] # NoPaddr =>
                         Beside(acc.addr[k], k, acc.addr[l], l)
PickedUpTo(m) == {acc \in PickType : acc.failed \/ PickSound(acc, m)}

\* One region more.
LEMMA PickOneSound ==
  ASSUME AddressType, \A k \in MRs : ToolAllocated(k) => mrAddr[k] = NoPaddr,
         NEW m \in MRs, NEW acc \in PickedUpTo(m - 1)
  PROVE  PickOne(acc, m) \in PickedUpTo(m)
<1> DEFINE size == MRSize(m)
           align == 2^sys.mrs[m].bits
           base == Allocate(acc.memory, size, align)
           left == RemoveRegion(acc.memory, base, base + size)
           new == [acc EXCEPT !.memory = left, !.addr[m] = base]
<1>1. /\ acc \in PickType /\ acc.memory \in GoodLists
      /\ acc.addr \in [MRs -> Nat \cup {NoPaddr}] /\ acc.failed \in BOOLEAN
      /\ Good(acc.memory)
  BY DEF PickedUpTo, PickType, GoodLists
<1>2. /\ size \in Nat \ {0} /\ align \in Nat \ {0} /\ m \in Nat
      /\ \A k \in MRs : k \in Nat /\ MRSize(k) \in Nat \ {0}
      /\ \A k \in MRs : acc.addr[k] # NoPaddr => acc.addr[k] \in Nat
  BY <1>1, RegionFacts
<1>3. CASE acc.failed
  BY <1>1, <1>3 DEF PickOne, PickedUpTo
<1>4. CASE ~acc.failed /\ ~ToolAllocated(m)
  <2>1. PickSound(acc, m - 1) /\ PickOne(acc, m) = acc
    BY <1>4 DEF PickOne, PickedUpTo
  <2>2. \A k \in MRs : k <= m => k <= m - 1 \/ k = m
    BY <1>2
  <2>3. \A k \in MRs : ToolAllocated(k) /\ k <= m =>
                         acc.addr[k] # NoPaddr /\ acc.addr[k] % 2^sys.mrs[k].bits = 0
    BY <1>4, <2>1, <2>2 DEF PickSound
  <2>4. PickSound(acc, m)
    BY <2>1, <2>3 DEF PickSound
  <2> QED
    BY <1>1, <2>1, <2>4 DEF PickedUpTo
<1>5. CASE ~acc.failed /\ ToolAllocated(m) /\ FitsAligned(acc.memory, size, align) = {}
  <2>1. PickOne(acc, m) = [acc EXCEPT !.failed = TRUE]
    BY <1>5 DEF PickOne
  <2>2. /\ [acc EXCEPT !.failed = TRUE] \in PickType
        /\ [acc EXCEPT !.failed = TRUE].failed
    BY <1>1 DEF PickType
  <2> QED
    BY <2>1, <2>2 DEF PickedUpTo
<1>6. CASE ~acc.failed /\ ToolAllocated(m) /\ FitsAligned(acc.memory, size, align) # {}
  <2>1. PickOne(acc, m) = new
    BY <1>6 DEF PickOne
  <2>2. PickSound(acc, m - 1)
    BY <1>6 DEF PickedUpTo
  <2> HIDE DEF size, align
  <2>3. base \in Nat /\ base % align = 0 /\ Holding(acc.memory, base, base + size) # {}
    BY <1>1, <1>2, <1>6, AllocateFacts
  <2> DEFINE top == base + size
  <2>4. top \in Nat /\ base < top /\ left = RemoveRegion(acc.memory, base, top)
    BY <1>2, <2>3
  <2>5. \A x \in Nat : base <= x /\ x < top => In(x, acc.memory)
    BY <1>1, <2>3, <2>4, HeldPoints
  <2>6. Good(left) /\ \A x \in Nat : In(x, left) => In(x, acc.memory) /\ ~(base <= x /\ x < top)
    <3> HIDE DEF base, top, left
    <3>1. Holding(acc.memory, base, top) # {} /\ base <= top
      BY <2>3, <2>4 DEF top
    <3> DEFINE mem == acc.memory
    <3>2. Good(mem) /\ Holding(mem, base, top) # {} /\ left = RemoveRegion(mem, base, top)
      BY <1>1, <2>4, <3>1
    <3> HIDE DEF mem
    <3>3. Good(left) /\ \A x \in Nat : In(x, left) => In(x, mem) /\ ~(base <= x /\ x < top)
      BY <2>3, <2>4, <3>1, <3>2, RemoveGood
    <3> QED
      BY <3>3 DEF mem
  <2>7. left \in GoodLists
    BY <2>6, GoodFacts DEF GoodLists
  <2> HIDE DEF base, left
  <2>8. /\ new \in PickType /\ new.memory = left /\ new.failed = acc.failed
        /\ new.addr = [acc.addr EXCEPT ![m] = base]
    BY <1>1, <2>3, <2>7 DEF PickType
  <2>9. new.addr[m] = base /\ \A k \in MRs : k # m => new.addr[k] = acc.addr[k]
    BY <1>1, <2>8
  <2> HIDE DEF new
  <2>10. \A k \in MRs : ~ToolAllocated(k) => new.addr[k] = mrAddr[k]
    BY <1>6, <2>2, <2>9 DEF PickSound
  <2>11. ASSUME NEW k \in MRs, ToolAllocated(k), k <= m
         PROVE  new.addr[k] # NoPaddr /\ new.addr[k] % 2^sys.mrs[k].bits = 0
    <3>1. CASE k = m
      <4>1. base # NoPaddr
        BY <2>3, AllocationAssumption
      <4> QED
        BY <2>3, <2>9, <3>1, <4>1 DEF align
    <3>2. CASE k # m
      <4>1. k <= m - 1
        BY <1>2, <2>11, <3>2
      <4> QED
        BY <2>2, <2>9, <2>11, <3>2, <4>1 DEF PickSound
    <3> QED
      BY <3>1, <3>2
  <2>12. ASSUME NEW k \in MRs, k # m, acc.addr[k] # NoPaddr
         PROVE  /\ FreeOf(acc.memory, acc.addr[k], k)
                /\ Beside(base, m, acc.addr[k], k) /\ Beside(acc.addr[k], k, base, m)
    <3>1. FreeOf(acc.memory, acc.addr[k], k)
      BY <2>2, <2>12 DEF PickSound
    <3> DEFINE a == acc.addr[k]
               e == a + MRSize(k)
    <3>2. a \in Nat /\ e \in Nat /\ a < e
      <4>1. a \in Nat /\ MRSize(k) \in Nat \ {0}
        BY <1>2, <2>12
      <4> HIDE DEF a
      <4> QED
        BY <4>1
    <3>3. \A x \in Nat : ~(base <= x /\ x < top /\ a <= x /\ x < e)
      BY <2>5, <3>1 DEF FreeOf
    <3> HIDE DEF a, e, top
    <3>4. top <= a \/ e <= base
      BY <2>3, <2>4, <3>2, <3>3, ApartByPoints
    <3> QED
      BY <3>1, <3>4 DEF Beside, a, e, top, size
  <2>13. ASSUME NEW k \in MRs, new.addr[k] # NoPaddr
         PROVE  FreeOf(left, new.addr[k], k)
    <3>1. CASE k = m
      BY <2>6, <2>9, <3>1 DEF FreeOf, size
    <3>2. CASE k # m
      BY <2>6, <2>9, <2>12, <2>13, <3>2 DEF FreeOf
    <3> QED
      BY <3>1, <3>2
  <2>14. ASSUME NEW k \in MRs, NEW l \in MRs, k # l,
                new.addr[k] # NoPaddr, new.addr[l] # NoPaddr
         PROVE  Beside(new.addr[k], k, new.addr[l], l)
    <3>1. CASE k = m
      BY <2>9, <2>12, <2>14, <3>1
    <3>2. CASE l = m
      BY <2>9, <2>12, <2>14, <3>2
    <3>3. CASE k # m /\ l # m
      BY <2>2, <2>9, <2>14, <3>3 DEF PickSound
    <3> QED
      BY <3>1, <3>2, <3>3
  <2>15. PickSound(new, m)
    BY <2>8, <2>10, <2>11, <2>13, <2>14 DEF PickSound
  <2> QED
    BY <2>1, <2>8, <2>15 DEF PickedUpTo
<1> QED
  BY <1>3, <1>4, <1>5, <1>6

(***************************************************************************)
(* The addresses of the memory regions: what the description gives is      *)
(* kept, those the tool is to pick are there all or not at all and are     *)
(* aligned, and no two regions share memory.                               *)
(***************************************************************************)
AddressInv ==
  /\ AddressType
  /\ \A m \in MRs : ~ToolAllocated(m) => mrAddr[m] = sys.mrs[m].paddr
  /\ NeedRefinement => \A m \in MRs : ToolAllocated(m) => mrAddr[m] = NoPaddr
  /\ \A m \in MRs : ToolAllocated(m) /\ mrAddr[m] # NoPaddr =>
                      mrAddr[m] % 2^sys.mrs[m].bits = 0
  /\ RegionsApart

\* Which regions have an address.
LEMMA AddressFacts ==
  ASSUME AddressInv
  PROVE  \A m \in MRs : /\ sys.mrs[m].kind = "Specified" => mrAddr[m] \in Nat
                        /\ mrAddr[m] # NoPaddr /\ ~ToolAllocated(m) =>
                             sys.mrs[m].kind = "Specified"
<1>1. AddressType /\ SystemAccepted(sys)
  BY RegionFacts DEF AddressInv
<1>2. \A m \in MRs : sys.mrs[m].paddr # NoPaddr <=> sys.mrs[m].kind = "Specified"
  BY <1>1 DEF SystemAccepted, MRs
<1>3. \A m \in MRs : mrAddr[m] # NoPaddr => mrAddr[m] \in Nat
  BY <1>1, RegionFacts
<1> QED
  BY <1>2, <1>3 DEF AddressInv, ToolAllocated

\* Before the first region is picked.
LEMMA PickFirst ==
  ASSUME AddressInv, NeedRefinement, stage = "pick", SpecifiedTakenAway,
         uts \in Seq(UntypedType), UntypedsSound(uts)
  PROVE  [memory |-> AvailableUserMemory, addr |-> mrAddr, failed |-> FALSE] \in PickedUpTo(0)
<1> DEFINE memory == AvailableUserMemory
           acc == [memory |-> memory, addr |-> mrAddr, failed |-> FALSE]
<1>1. /\ AddressType /\ RegionsApart /\ mrAddr \in [MRs -> Nat \cup {NoPaddr}]
      /\ \A m \in MRs : ~ToolAllocated(m) \/ mrAddr[m] = NoPaddr
      /\ \A m \in MRs : sys.mrs[m].kind = "Specified" => mrAddr[m] \in Nat
      /\ \A m \in MRs : mrAddr[m] # NoPaddr => sys.mrs[m].kind = "Specified"
  BY AddressFacts DEF AddressInv, AddressType
<1>2. Good(memory) /\ memory \in GoodLists
  <2>1. Good(memory)
    BY <1>1, AvailableGood
  <2> QED
    BY <2>1, GoodFacts DEF GoodLists
<1>3. \A m \in MRs : sys.mrs[m].kind = "Specified" =>
        \A i \in DOMAIN memory : ~RangesOverlap(memory[i], MRRegion(m))
  BY DEF SpecifiedTakenAway
<1> HIDE DEF memory
<1>4. ASSUME NEW k \in MRs, mrAddr[k] # NoPaddr
      PROVE  FreeOf(memory, mrAddr[k], k)
  <2> SUFFICES ASSUME NEW x \in Nat, mrAddr[k] <= x, x < mrAddr[k] + MRSize(k), In(x, memory)
               PROVE  FALSE
    BY DEF FreeOf
  <2>1. PICK i \in DOMAIN memory : memory[i].base <= x /\ x < memory[i].end
    BY DEF In, Holds
  <2>2. memory[i].end <= mrAddr[k] \/ mrAddr[k] + MRSize(k) <= memory[i].base
    BY <1>1, <1>3, <1>4, <2>1 DEF RangesOverlap, MRRegion, Region
  <2>3. mrAddr[k] \in Nat /\ MRSize(k) \in Nat /\ memory[i].base \in Nat /\ memory[i].end \in Nat
    BY <1>1, <1>2, <1>4, <2>1, RegionFacts, GoodFacts
  <2> QED
    BY <2>1, <2>2, <2>3
<1>5. ASSUME NEW k \in MRs, NEW l \in MRs, k # l, mrAddr[k] # NoPaddr, mrAddr[l] # NoPaddr
      PROVE  Beside(mrAddr[k], k, mrAddr[l], l)
  BY <1>1, <1>5 DEF RegionsApart, RangesOverlap, MRRegion, Region, Beside
<1>6. /\ acc \in PickType /\ acc.memory = memory /\ acc.addr = mrAddr
  BY <1>1, <1>2 DEF PickType
<1> HIDE DEF acc
<1>7. \A k \in MRs : ~(k <= 0)
  BY <1>1, RegionFacts
<1>8. PickSound(acc, 0)
  BY <1>4, <1>5, <1>6, <1>7 DEF PickSound
<1>9. acc \in PickedUpTo(0)
  BY <1>6, <1>8 DEF PickedUpTo
<1> QED
  BY <1>9 DEF acc, memory

\* When the last one is.
LEMMA PickedSound ==
  ASSUME AddressInv, NeedRefinement, stage = "pick", SpecifiedTakenAway,
         uts \in Seq(UntypedType), UntypedsSound(uts)
  PROVE  Picked \in PickedUpTo(Len(sys.mrs))
<1> DEFINE n == Len(sys.mrs)
           first == [memory |-> AvailableUserMemory, addr |-> mrAddr, failed |-> FALSE]
           G(g) == g = [m \in 0 .. n |->
                          IF m = 0
                          THEN [memory |-> AvailableUserMemory, addr |-> mrAddr, failed |-> FALSE]
                          ELSE Once(g[m - 1], LAMBDA acc : PickOne(acc, m))]
           g == CHOOSE g : G(g)
           V == [k \in 0 .. n |-> PickedUpTo(k)]
           pred == [k \in 1 .. n |-> k - 1]
           step == [k \in 1 .. n |-> [v \in PickedUpTo(k - 1) |-> PickOne(v, k)]]
<1>1. /\ n \in Nat /\ MRs = 1 .. n /\ AddressType
      /\ \A m \in MRs : ToolAllocated(m) => mrAddr[m] = NoPaddr
  BY RegionFacts DEF AddressInv
<1>2. Picked = g[n]
  BY DEF Picked
<1>3. /\ \A k \in 1 .. n : pred[k] = k - 1 /\ k - 1 \in 0 .. n
      /\ \A k \in 0 .. n : V[k] = PickedUpTo(k)
  BY <1>1
<1>4. ASSUME NEW k \in 1 .. n, NEW v \in PickedUpTo(k - 1)
      PROVE  step[k][v] = PickOne(v, k)
  OBVIOUS
<1>o. \A k, v : Once(v, LAMBDA acc : PickOne(acc, k)) = PickOne(v, k)
  BY DEF Once
<1>5. first \in PickedUpTo(0)
  BY PickFirst
<1>6. ASSUME NEW k \in 1 .. n, NEW v \in PickedUpTo(k - 1)
      PROVE  PickOne(v, k) \in PickedUpTo(k)
  BY <1>1, PickOneSound
<1> HIDE DEF V, pred, step, first
<1>7. PICK f : StepsOf(f, n, pred, step, first) /\ \A k \in 0 .. n : f[k] \in V[k]
  <2>1. \A k \in 1 .. n : pred[k] \in 0 .. k - 1
    BY <1>1, <1>3
  <2>2. \A k \in 1 .. n : \A v \in V[pred[k]] : step[k][v] \in V[k]
    BY <1>1, <1>3, <1>4, <1>6
  <2>3. first \in V[0]
    BY <1>1, <1>3, <1>5
  <2> HIDE DEF n
  <2> QED
    BY <1>1, <2>1, <2>2, <2>3, StepsIn
<1>8. G(f)
  <2>1. f = [k \in 0 .. n |-> IF k = 0 THEN first ELSE step[k][f[pred[k]]]]
    BY <1>7 DEF StepsOf
  <2>2. \A k \in 1 .. n : step[k][f[pred[k]]] = PickOne(f[k - 1], k)
    BY <1>1, <1>3, <1>4, <1>7
  <2>3. f = [k \in 0 .. n |-> f[k]]
    BY <2>1
  <2>4. \A k \in 0 .. n : f[k] = IF k = 0 THEN first ELSE step[k][f[pred[k]]]
    BY <2>1
  <2>5. \A k \in 0 .. n : f[k] = IF k = 0 THEN first ELSE PickOne(f[k - 1], k)
    BY <1>1, <2>2, <2>4
  <2>6. f = [m \in 0 .. n |-> IF m = 0 THEN first ELSE PickOne(f[m - 1], m)]
    BY <2>3, <2>5
  <2> QED
    BY <2>6, <1>o DEF first
<1>9. G(g)
  <2> HIDE DEF G
  <2> QED
    BY <1>8
<1> HIDE DEF g
<1>g. /\ g[0] = first
      /\ \A k \in 1 .. n : g[k] = PickOne(g[k - 1], k)
  <2>1. g = [m \in 0 .. n |-> IF m = 0 THEN first ELSE PickOne(g[m - 1], m)]
    BY <1>9, <1>o DEF first
  <2> HIDE DEF G, n
  <2> QED
    BY <1>1, <2>1
<1> HIDE DEF G
<1>10. \A k \in 0 .. n : g[k] \in V[k]
  <2>1. g[0] \in V[0]
    BY <1>1, <1>3, <1>5, <1>g
  <2>2. ASSUME NEW k \in 1 .. n, g[pred[k]] \in V[pred[k]]
        PROVE  g[k] \in V[k]
    BY <1>1, <1>3, <1>6, <1>g, <2>2
  <2>3. \A k \in 1 .. n : pred[k] \in 0 .. k - 1
    BY <1>1, <1>3
  <2> HIDE DEF n
  <2> QED
    BY <1>1, <2>1, <2>2, <2>3, Along
<1> QED
  BY <1>1, <1>2, <1>3, <1>10

-----------------------------------------------------------------------------
(* The initialiser's ELF.                                                  *)

SegmentType == [vaddr : Nat, size : Nat]

\* Of finitely many numbers one is the highest.
LEMMA Highest ==
  ASSUME NEW n \in Nat \ {0}, NEW f \in [1 .. n -> Nat]
  PROVE  \E i \in 1 .. n : \A j \in 1 .. n : f[j] <= f[i]
<1> DEFINE S == {m \in Nat : m + 1 <= n =>
                               \E i \in 1 .. m + 1 : \A j \in 1 .. m + 1 : f[j] <= f[i]}
<1>1. 0 \in S
  <2>1. \A j \in 1 .. 0 + 1 : j = 1 /\ f[1] <= f[1]
    OBVIOUS
  <2>2. 1 \in 1 .. 0 + 1
    OBVIOUS
  <2> QED
    BY <2>1, <2>2
<1>2. ASSUME NEW m \in Nat, m \in S
      PROVE  m + 1 \in S
  <2> SUFFICES ASSUME (m + 1) + 1 <= n
               PROVE  \E i \in 1 .. (m + 1) + 1 : \A j \in 1 .. (m + 1) + 1 : f[j] <= f[i]
    OBVIOUS
  <2>1. PICK i \in 1 .. m + 1 : \A j \in 1 .. m + 1 : f[j] <= f[i]
    BY <1>2
  <2>2. /\ f[m + 2] \in Nat /\ f[i] \in Nat /\ m + 2 \in 1 .. (m + 1) + 1
        /\ i \in 1 .. (m + 1) + 1
        /\ \A j \in 1 .. (m + 1) + 1 : f[j] \in Nat /\ (j \in 1 .. m + 1 \/ j = m + 2)
    OBVIOUS
  <2>3. CASE f[m + 2] <= f[i]
    BY <2>1, <2>2, <2>3
  <2>4. CASE ~(f[m + 2] <= f[i])
    <3>1. \A j \in 1 .. (m + 1) + 1 : f[j] <= f[m + 2]
      BY <2>1, <2>2, <2>4
    <3> QED
      BY <2>2, <3>1
  <2> QED
    BY <2>3, <2>4
<1>3. Nat \subseteq S
  <2> HIDE DEF S
  <2> QED
    BY <1>1, <1>2, Induction
<1>4. n - 1 \in S /\ (n - 1) + 1 = n
  <2> HIDE DEF S
  <2> QED
    BY <1>3
<1> QED
  BY <1>4

\* Where the segments of an ELF lie.
LEMMA SegmentFacts ==
  ASSUME NEW ss \in Seq(SegmentType), Len(ss) >= 1
  PROVE  /\ HighestVaddr(ss) \in Nat /\ LowestVaddr(ss) \in Nat
         /\ LowestVaddr(ss) <= HighestVaddr(ss)
<1> DEFINE n == Len(ss)
           f == [i \in 1 .. n |-> SegmentEnd(ss[i])]
           H == {SegmentEnd(ss[i]) : i \in DOMAIN ss}
           L == {ss[i].vaddr : i \in DOMAIN ss}
<1>1. n \in Nat \ {0} /\ DOMAIN ss = 1 .. n /\ \A i \in 1 .. n : ss[i] \in SegmentType
  OBVIOUS
<1>2. \A i \in 1 .. n : /\ ss[i].vaddr \in Nat /\ SegmentEnd(ss[i]) \in Nat
                        /\ ss[i].vaddr <= SegmentEnd(ss[i])
  <2> TAKE i \in 1 .. n
  <2>1. ss[i].vaddr \in Nat /\ ss[i].size \in Nat
    BY <1>1 DEF SegmentType
  <2> QED
    BY <2>1 DEF SegmentEnd
<1>3. f \in [1 .. n -> Nat]
  BY <1>2
<1> HIDE DEF n
<1>4. PICK i \in 1 .. n : \A j \in 1 .. n : f[j] <= f[i]
  <2> HIDE DEF f
  <2> QED
    BY <1>1, <1>3, Highest
<1>5. SegmentEnd(ss[i]) \in H /\ \A y \in H : SegmentEnd(ss[i]) >= y
  <2>1. \A j \in 1 .. n : SegmentEnd(ss[j]) <= SegmentEnd(ss[i])
    BY <1>4
  <2> QED
    BY <1>1, <1>2, <2>1
<1>6. HighestVaddr(ss) \in H /\ \A y \in H : HighestVaddr(ss) >= y
  <2>1. HighestVaddr(ss) = CHOOSE x \in H : \A y \in H : x >= y
    BY DEF HighestVaddr, Max
  <2> HIDE DEF H
  <2> QED
    BY <1>5, <2>1
<1>7. L \subseteq Nat /\ L # {}
  BY <1>1, <1>2
<1>8. LowestVaddr(ss) \in L /\ \A y \in L : LowestVaddr(ss) <= y
  <2>1. LowestVaddr(ss) = CHOOSE x \in L : \A y \in L : x <= y
    BY DEF LowestVaddr, Min
  <2> HIDE DEF L
  <2> QED
    BY <1>7, <2>1, Least
<1>9. HighestVaddr(ss) \in Nat /\ LowestVaddr(ss) \in Nat
  BY <1>1, <1>2, <1>6, <1>8
<1>10. 1 \in 1 .. n /\ LowestVaddr(ss) <= ss[1].vaddr /\ HighestVaddr(ss) >= SegmentEnd(ss[1])
  <2>1. 1 \in 1 .. n
    BY <1>1
  <2>2. ss[1].vaddr \in L /\ SegmentEnd(ss[1]) \in H
    BY <1>1, <2>1
  <2> HIDE DEF L, H
  <2> QED
    BY <1>6, <1>8, <2>1, <2>2
<1> QED
  BY <1>2, <1>9, <1>10

\* A page is some memory.
LEMMA PageFacts == PageSize \in Nat \ {0}
  BY BootAssumption, PowerFacts DEF PageSize

\* The image of the initial task has a size.
LEMMA ImageFacts ==
  ASSUME segments \in Seq(SegmentType), Len(segments) >= 1
  PROVE  Image \in RegionType /\ Image.base <= Image.end /\ Size(Image) \in Nat
<1> DEFINE h == HighestVaddr(segments)
           l == LowestVaddr(segments)
<1>1. h \in Nat /\ l \in Nat /\ l <= h
  BY SegmentFacts
<1>2. Image = Region(l, RoundUp(h, PageSize))
  BY DEF Image, ImageBound
<1> HIDE DEF h, l
<1>3. RoundUp(h, PageSize) \in Nat /\ h <= RoundUp(h, PageSize)
  BY <1>1, PageFacts, Rounding
<1> QED
  BY <1>1, <1>2, <1>3 DEF Region, RegionType, Size

\* A further segment.
LEMMA AddSegmentFacts ==
  ASSUME NEW ss \in Seq(SegmentType), Len(ss) >= 1, NEW size \in Nat
  PROVE  AddSegment(ss, size) \in Seq(SegmentType) /\ Len(AddSegment(ss, size)) = Len(ss) + 1
<1> DEFINE h == HighestVaddr(ss) + PageSize
<1>1. h \in Nat
  BY SegmentFacts, PageFacts
<1>2. NextVaddr(ss) = RoundDown(h, PageSize)
  BY DEF NextVaddr
<1> HIDE DEF h
<1>3. NextVaddr(ss) \in Nat
  BY <1>1, <1>2, PageFacts, Rounding
<1>4. [vaddr |-> NextVaddr(ss), size |-> size] \in SegmentType
  BY <1>3 DEF SegmentType
<1> QED
  BY <1>4 DEF AddSegment

HeaderType == [type : {"LOAD", "SPEC", "FRAME", "PHDR"}, segment : Nat]

(***************************************************************************)
(* The segments of the initialiser's ELF, of which a specification makes   *)
(* three; and its program headers.                                         *)
(***************************************************************************)
SegmentInv ==
  /\ iteration \in Nat
  /\ segments \in Seq(SegmentType) /\ Len(segments) >= 1
  /\ iteration > 0 \/ stage \in {"place", "simulate", "pick"} => Len(segments) >= 3
  /\ headers \in Seq(HeaderType)

\* Two more headers.
LEMMA AddHeadersFacts ==
  ASSUME NEW hs \in Seq(HeaderType), NEW s \in Nat, NEW type \in {"SPEC", "FRAME", "PHDR"}
  PROVE  AddHeaders(hs, s, type) \in Seq(HeaderType)
<1>1. /\ [type |-> "LOAD", segment |-> s] \in HeaderType
      /\ [type |-> type, segment |-> s] \in HeaderType
  BY DEF HeaderType
<1> QED
  BY <1>1 DEF AddHeaders

\* Adding the specification.
LEMMA AddSpecFacts ==
  ASSUME SegmentInv, NEW size \in SpecSizes, AddSpec(size)
  PROVE  segments' \in Seq(SegmentType) /\ Len(segments') >= 3 /\ headers' \in Seq(HeaderType)
<1> DEFINE s0 == KeptSegments
           s1 == AddSegment(s0, size)
           s2 == AddSegment(s1, FrameDataSize)
           h1 == AddHeaders(headers, Len(s1), "SPEC")
           h2 == AddHeaders(h1, Len(s2), "FRAME")
           k == RoundUp(Len(h2) + 2, HeadersPerUnit)
           s3 == AddSegment(s2, k \div HeadersPerUnit)
<1>1. segments' = s3 /\ headers' = AddHeaders(h2, Len(s3), "PHDR")
  BY DEF AddSpec
<1>2. s0 \in Seq(SegmentType) /\ Len(s0) >= 1
  <2>1. CASE iteration = 0
    BY <2>1 DEF KeptSegments, SegmentInv
  <2>2. CASE iteration # 0
    <3>1. segments \in Seq(SegmentType) /\ Len(segments) >= 3
      BY <2>2 DEF SegmentInv
    <3>2. s0 = SubSeq(segments, 1, Len(segments) - 2)
      BY <2>2 DEF KeptSegments
    <3> QED
      BY <3>1, <3>2
  <2> QED
    BY <2>1, <2>2
<1>3. size \in Nat /\ FrameDataSize \in Nat /\ HeadersPerUnit \in Nat \ {0}
  BY BuildAssumption
<1> HIDE DEF s0
<1>4. s1 \in Seq(SegmentType) /\ Len(s1) = Len(s0) + 1 /\ Len(s1) >= 1 /\ Len(s1) \in Nat
  <2>1. s1 \in Seq(SegmentType) /\ Len(s1) = Len(s0) + 1
    BY <1>2, <1>3, AddSegmentFacts
  <2> HIDE DEF s1
  <2> QED
    BY <1>2, <2>1
<1> HIDE DEF s1
<1>5. s2 \in Seq(SegmentType) /\ Len(s2) = Len(s1) + 1 /\ Len(s2) >= 1 /\ Len(s2) \in Nat
  <2>1. s2 \in Seq(SegmentType) /\ Len(s2) = Len(s1) + 1
    BY <1>3, <1>4, AddSegmentFacts
  <2> HIDE DEF s2
  <2> QED
    BY <1>4, <2>1
<1> HIDE DEF s2
<1>6. h1 \in Seq(HeaderType)
  BY <1>4, AddHeadersFacts DEF SegmentInv
<1> HIDE DEF h1
<1>7. h2 \in Seq(HeaderType)
  BY <1>5, <1>6, AddHeadersFacts
<1> HIDE DEF h2
<1>8. k \in Nat
  <2> DEFINE x == Len(h2) + 2
  <2>1. x \in Nat
    BY <1>7
  <2> HIDE DEF x
  <2>2. RoundUp(x, HeadersPerUnit) \in Nat
    BY <1>3, <2>1, Rounding
  <2> QED
    BY <2>2 DEF x
<1> HIDE DEF k
<1> DEFINE d == k \div HeadersPerUnit
<1>9. d \in Nat
  BY <1>3, <1>8, Quotient
<1> HIDE DEF d
<1>10. s3 \in Seq(SegmentType) /\ Len(s3) = Len(s2) + 1
  <2>1. s3 = AddSegment(s2, d)
    BY DEF d
  <2> HIDE DEF s3
  <2> QED
    BY <1>5, <1>9, <2>1, AddSegmentFacts
<1> HIDE DEF s3
<1>11. Len(s3) \in Nat /\ Len(s3) >= 3
  BY <1>2, <1>4, <1>5, <1>10
<1>12. AddHeaders(h2, Len(s3), "PHDR") \in Seq(HeaderType)
  BY <1>7, <1>11, AddHeadersFacts
<1> QED
  BY <1>1, <1>10, <1>11, <1>12

-----------------------------------------------------------------------------
(***************************************************************************)
(* The inductive invariant of the loop.  A question is asked about the     *)
(* untyped objects of a boot and the objects of a specification, and what  *)
(* has been packed is what is asked about.                                 *)
(***************************************************************************)
QuestionInv ==
  stage \in {"simulate", "pick"} => uts \in Seq(UntypedType) /\ WellFormed(uts, objs)

PackedInv ==
  /\ stage \in {"place", "simulate"} => packed = mrAddr
  /\ stage = "pick" => packed = mrAddr \/ NeedRefinement
  /\ stage = "written" => packed = mrAddr /\ ~NeedRefinement

BuildInv == AddressInv /\ SegmentInv /\ QuestionInv /\ PackedInv

\* The addresses at the start are those of the description.
LEMMA InitBuild == Init => BuildInv
<1> SUFFICES ASSUME Init
             PROVE  BuildInv
  OBVIOUS
<1>1. /\ sys \in Systems /\ SystemAccepted(sys) /\ stage = "build" /\ iteration = 0
      /\ mrAddr = [m \in MRs |-> sys.mrs[m].paddr]
      /\ segments = <<[vaddr |-> 0, size |-> ElfSize]>>
      /\ headers = <<[type |-> "LOAD", segment |-> 1]>>
  BY BuildAssumption DEF Init, MRs
<1>2. /\ sys.mrs \in Seq(MRType)
      /\ \A m \in MRs : sys.mrs[m].paddr # NoPaddr <=> sys.mrs[m].kind = "Specified"
      /\ \A m, n \in MRs :
           m # n /\ NoPaddr \notin {sys.mrs[m].paddr, sys.mrs[n].paddr} =>
             \/ sys.mrs[m].paddr + sys.mrs[m].pages * 2^sys.mrs[m].bits <= sys.mrs[n].paddr
             \/ sys.mrs[n].paddr + sys.mrs[n].pages * 2^sys.mrs[n].bits <= sys.mrs[m].paddr
  BY <1>1 DEF SystemAccepted, MRs
<1>3. \A m \in MRs : mrAddr[m] = sys.mrs[m].paddr /\ sys.mrs[m].paddr \in Nat \cup {NoPaddr}
  <2> TAKE m \in MRs
  <2>1. sys.mrs[m] \in MRType
    BY <1>2 DEF MRs
  <2> QED
    BY <1>1, <2>1 DEF MRType
<1>4. AddressType
  BY <1>1, <1>3 DEF AddressType
<1>5. \A m \in MRs : ToolAllocated(m) => mrAddr[m] = NoPaddr
  BY <1>2, <1>3 DEF ToolAllocated
<1>6. RegionsApart
  BY <1>2, <1>3 DEF RegionsApart, RangesOverlap, MRRegion, MRSize, Region
<1>7. AddressInv
  BY <1>3, <1>4, <1>5, <1>6 DEF AddressInv
<1>8. SegmentInv
  <2>1. /\ [vaddr |-> 0, size |-> ElfSize] \in SegmentType
        /\ [type |-> "LOAD", segment |-> 1] \in HeaderType
    BY BuildAssumption DEF SegmentType, HeaderType
  <2> QED
    BY <1>1, <2>1 DEF SegmentInv
<1> QED
  BY <1>1, <1>7, <1>8 DEF BuildInv, QuestionInv, PackedInv

\* What depends on the system and the addresses alone.
LEMMA SameAddresses ==
  ASSUME AddressInv, UNCHANGED <<sys, mrAddr>>
  PROVE  AddressInv' /\ (NeedRefinement' <=> NeedRefinement)
  BY DEF AddressInv, AddressType, NeedRefinement, MRs, ToolAllocated, RegionsApart, MRRegion,
         MRSize

\* A specification is packed.
LEMMA BuildSpecInv ==
  ASSUME BuildInv, BuildSpec
  PROVE  BuildInv'
<1>1. /\ stage = "build" /\ stage' = "place" /\ packed' = mrAddr
      /\ UNCHANGED <<sys, iteration, mrAddr>>
  BY DEF BuildSpec
<1>2. AddressInv'
  BY <1>1, SameAddresses DEF BuildInv
<1>3. SegmentInv'
  <2>1. PICK size \in SpecSizes : AddSpec(size)
    BY DEF BuildSpec
  <2>2. segments' \in Seq(SegmentType) /\ Len(segments') >= 3 /\ headers' \in Seq(HeaderType)
    BY <2>1, AddSpecFacts DEF BuildInv
  <2>3. Len(segments') >= 1
    BY <2>2
  <2> QED
    BY <1>1, <2>2, <2>3 DEF BuildInv, SegmentInv
<1> QED
  BY <1>1, <1>2, <1>3 DEF BuildInv, QuestionInv, PackedInv

\* The initial task is placed in free memory and a sound question asked.
LEMMA PlaceInv ==
  ASSUME BuildInv, PlaceInitialTask
  PROVE  BuildInv'
<1>1. /\ stage = "place" /\ TaskFits
      /\ UNCHANGED <<sys, iteration, mrAddr, packed, segments, headers>>
      /\ AddressInv /\ SegmentInv /\ packed = mrAddr
  BY DEF PlaceInitialTask, BuildInv, PackedInv
<1>2. PICK region, image :
        /\ region = TaskRegion /\ image = Image
        /\ IF BootPossible(sys.normal, sys.kernel, region, image)
           THEN /\ \E us \in {EmulateKernelBoot(sys.devices, sys.normal, sys.kernel,
                                               sys.boot, region, image)},
                      os \in {RootObjects} :
                     Begin(us, os, iteration = 0)
                /\ stage' = "simulate"
           ELSE stage' = "panic" /\ UNCHANGED allocVars
  BY DEF PlaceInitialTask
<1>3. AddressInv' /\ (NeedRefinement' <=> NeedRefinement)
  BY <1>1, SameAddresses
<1>4. SegmentInv' /\ PackedInv'
  BY <1>1, <1>2 DEF SegmentInv, PackedInv
<1>5. CASE ~BootPossible(sys.normal, sys.kernel, region, image)
  <2>1. stage' = "panic"
    BY <1>2, <1>5
  <2>2. QuestionInv'
    BY <2>1 DEF QuestionInv
  <2> QED
    BY <1>3, <1>4, <2>2 DEF BuildInv
<1>6. CASE BootPossible(sys.normal, sys.kernel, region, image)
  <2> DEFINE free == FreeAtBoot
             size == Size(Image)
             base == AllocateFrom(free, size, sys.boot.end)
  <2>1. SystemAccepted(sys) /\ AddressType /\ RegionsApart
    BY <1>1, RegionFacts DEF AddressInv
  <2>2. image \in RegionType /\ image.base <= image.end /\ size \in Nat
    BY <1>1, <1>2, ImageFacts DEF SegmentInv
  <2>3. Good(free)
    BY <2>1, SystemFacts, PartialBootGood DEF FreeAtBoot
  <2>4. FitsAbove(free, size, sys.boot.end) # {}
    BY <1>1 DEF TaskFits
  <2>5. region = Region(base, base + size)
    BY <1>2 DEF TaskRegion, Once
  <2>f. free = PartialBoot(sys.normal, sys.kernel)
    BY DEF FreeAtBoot
  <2> HIDE DEF free, size
  <2>6. base \in Nat /\ Holding(free, base, base + size) # {}
    BY <2>2, <2>3, <2>4, AllocateFromFacts
  <2> HIDE DEF base
  <2>7. /\ region \in RegionType /\ region.base <= region.end
        /\ Holding(PartialBoot(sys.normal, sys.kernel), region.base, region.end) # {}
    BY <2>2, <2>5, <2>6, <2>f DEF Region, RegionType
  <2> DEFINE boot == EmulateKernelBoot(sys.devices, sys.normal, sys.kernel, sys.boot,
                                       region, image)
             roots == RootObjects
  <2>8. boot \in Seq(UntypedType) /\ UntypedsSound(boot)
    BY <1>6, <2>1, <2>2, <2>7, BootSound
  <2>9. ObjectsSound(roots)
    BY <2>1, RootObjectsSound
  <2>10. Begin(boot, roots, iteration = 0)
    BY <1>2, <1>6
  <2> HIDE DEF boot, roots
  <2>11. uts' = boot /\ objs' = roots
    BY <2>10 DEF Begin
  <2>12. QuestionInv'
    BY <2>8, <2>9, <2>11 DEF QuestionInv, WellFormed
  <2> QED
    BY <1>3, <1>4, <2>12 DEF BuildInv
<1> QED
  BY <1>5, <1>6

\* Taking the picked addresses back.
LEMMA JudgeInv ==
  ASSUME BuildInv, Judge
  PROVE  BuildInv'
<1>1. /\ stage = "simulate" /\ packed = mrAddr /\ stage' \in {"panic", "exit", "pick"}
      /\ UNCHANGED <<sys, iteration, packed, segments, headers, uts, objs>>
      /\ AddressInv /\ SegmentInv /\ QuestionInv /\ AddressType
  BY DEF Judge, BuildInv, PackedInv, allocVars, AddressInv
<1>2. SegmentInv' /\ QuestionInv'
  BY <1>1 DEF SegmentInv, QuestionInv
<1>3. CASE mrAddr' = mrAddr
  <2>1. AddressInv' /\ (NeedRefinement' <=> NeedRefinement)
    BY <1>1, <1>3, SameAddresses
  <2>2. PackedInv'
    BY <1>1, <1>3 DEF PackedInv
  <2> QED
    BY <1>2, <2>1, <2>2 DEF BuildInv
<1>4. CASE mrAddr' = [m \in MRs |-> IF ToolAllocated(m) THEN NoPaddr ELSE mrAddr[m]]
  <2>1. /\ MRs' = MRs /\ \A m : (ToolAllocated(m)' <=> ToolAllocated(m)) /\ MRSize(m)' = MRSize(m)
    BY <1>1 DEF MRs, ToolAllocated, MRSize
  <2>2. \A m \in MRs : /\ mrAddr'[m] = IF ToolAllocated(m) THEN NoPaddr ELSE mrAddr[m]
                       /\ mrAddr'[m] = NoPaddr \/ mrAddr'[m] = mrAddr[m]
    BY <1>4
  <2>3. AddressType'
    BY <1>1, <1>4, <2>1 DEF AddressType
  <2>4. \A m \in MRs : ~ToolAllocated(m) => mrAddr'[m] = sys'.mrs[m].paddr
    BY <1>1, <2>2 DEF AddressInv
  <2>5. \A m \in MRs : ToolAllocated(m) => mrAddr'[m] = NoPaddr
    BY <2>2
  <2>6. RegionsApart'
    <3> SUFFICES ASSUME NEW m \in MRs, NEW n \in MRs, m # n,
                        NoPaddr \notin {mrAddr'[m], mrAddr'[n]}
                 PROVE  ~RangesOverlap(MRRegion(m)', MRRegion(n)')
      BY <2>1 DEF RegionsApart
    <3>1. mrAddr'[m] = mrAddr[m] /\ mrAddr'[n] = mrAddr[n]
      BY <2>2
    <3>2. MRRegion(m)' = MRRegion(m) /\ MRRegion(n)' = MRRegion(n)
      BY <2>1, <3>1 DEF MRRegion
    <3>3. ~RangesOverlap(MRRegion(m), MRRegion(n))
      BY <1>1, <3>1 DEF AddressInv, RegionsApart
    <3> QED
      BY <3>2, <3>3
  <2>7. AddressInv'
    BY <2>1, <2>3, <2>4, <2>5, <2>6 DEF AddressInv
  <2>8. PackedInv'
    <3>1. CASE \E m \in MRs : ToolAllocated(m)
      <4>1. NeedRefinement'
        BY <2>1, <2>5, <3>1 DEF NeedRefinement
      <4> QED
        BY <1>1, <4>1 DEF PackedInv
    <3>2. CASE ~\E m \in MRs : ToolAllocated(m)
      <4>1. mrAddr' = [m \in MRs |-> mrAddr[m]]
        BY <1>4, <3>2
      <4>2. mrAddr = [m \in MRs |-> mrAddr[m]]
        BY <1>1 DEF AddressType
      <4> QED
        BY <1>1, <4>1, <4>2 DEF PackedInv
    <3> QED
      BY <3>1, <3>2
  <2> QED
    BY <1>2, <2>7, <2>8 DEF BuildInv
<1> QED
  BY <1>3, <1>4 DEF Judge

\* Giving every region the address picked for it.
LEMMA PickInv ==
  ASSUME BuildInv, Picked.failed \/ SpecifiedTakenAway, PickAddresses
  PROVE  BuildInv'
<1>1. /\ stage = "pick" /\ NeedRefinement /\ AddressInv /\ AddressType /\ SegmentInv
      /\ uts \in Seq(UntypedType) /\ UntypedsSound(uts)
      /\ UNCHANGED <<sys, packed, segments, headers>>
  BY DEF PickAddresses, BuildInv, QuestionInv, WellFormed, AddressInv
<1>2. CASE Picked.failed
  <2>1. stage' = "exit" /\ UNCHANGED <<mrAddr, iteration>>
    BY <1>2 DEF PickAddresses
  <2>2. AddressInv'
    BY <1>1, <2>1, SameAddresses
  <2>3. SegmentInv'
    BY <1>1, <2>1 DEF SegmentInv
  <2> QED
    BY <2>1, <2>2, <2>3 DEF BuildInv, QuestionInv, PackedInv
<1>3. CASE ~Picked.failed
  <2> DEFINE acc == Picked
             n == Len(sys.mrs)
  <2>1. mrAddr' = acc.addr /\ iteration' = iteration + 1 /\ stage' = "build"
    BY <1>3 DEF PickAddresses
  <2>2. acc \in PickedUpTo(n)
    BY <1>1, <1>3, PickedSound
  <2>3. acc \in PickType /\ PickSound(acc, n)
    BY <1>3, <2>2 DEF PickedUpTo
  <2> HIDE DEF acc
  <2>4. /\ n \in Nat /\ MRs = 1 .. n
        /\ MRs' = MRs /\ \A m : (ToolAllocated(m)' <=> ToolAllocated(m)) /\ MRSize(m)' = MRSize(m)
    BY <1>1, RegionFacts DEF MRs, ToolAllocated, MRSize
  <2> HIDE DEF n
  <2>5. AddressType'
    <3>1. acc.addr \in [MRs -> Nat \cup {NoPaddr}]
      BY <2>3 DEF PickType
    <3> QED
      BY <1>1, <2>1, <2>4, <3>1 DEF AddressType
  <2>6. \A m \in MRs : ~ToolAllocated(m) => mrAddr'[m] = sys'.mrs[m].paddr
    BY <1>1, <2>1, <2>3 DEF AddressInv, PickSound
  <2>7. \A m \in MRs : ToolAllocated(m) =>
                         mrAddr'[m] # NoPaddr /\ mrAddr'[m] % 2^sys'.mrs[m].bits = 0
    <3>1. \A m \in MRs : m <= n
      BY <2>4
    <3> QED
      BY <1>1, <2>1, <2>3, <3>1 DEF PickSound
  <2>8. RegionsApart'
    <3> SUFFICES ASSUME NEW k \in MRs, NEW l \in MRs, k # l,
                        NoPaddr \notin {mrAddr'[k], mrAddr'[l]}
                 PROVE  ~RangesOverlap(MRRegion(k)', MRRegion(l)')
      BY <2>4 DEF RegionsApart
    <3>1. Beside(acc.addr[k], k, acc.addr[l], l)
      BY <2>1, <2>3 DEF PickSound
    <3>2. /\ MRRegion(k)' = Region(acc.addr[k], acc.addr[k] + MRSize(k))
          /\ MRRegion(l)' = Region(acc.addr[l], acc.addr[l] + MRSize(l))
      BY <2>1, <2>4 DEF MRRegion
    <3> QED
      BY <3>1, <3>2 DEF Beside, RangesOverlap, Region
  <2>9. AddressInv'
    <3>1. ~NeedRefinement'
      BY <2>4, <2>7 DEF NeedRefinement
    <3> QED
      BY <2>4, <2>5, <2>6, <2>7, <2>8, <3>1 DEF AddressInv
  <2>10. SegmentInv'
    BY <1>1, <2>1 DEF SegmentInv
  <2> QED
    BY <2>1, <2>9, <2>10 DEF BuildInv, QuestionInv, PackedInv
<1> QED
  BY <1>2, <1>3

\* The other steps of the loop.
LEMMA OtherInv ==
  ASSUME BuildInv, GiveUp \/ NoRoomForTask \/ Simulate \/ WriteImage \/ UNCHANGED vars
  PROVE  BuildInv'
<1>1. /\ UNCHANGED <<sys, iteration, mrAddr, packed, segments, headers, uts, objs>>
      /\ \/ stage' \in {"panic", "exit"}
         \/ stage' = stage
         \/ stage = "pick" /\ ~NeedRefinement /\ stage' = "written"
  <2>1. CASE GiveUp
    BY <2>1 DEF GiveUp, allocVars
  <2>2. CASE NoRoomForTask
    BY <2>2 DEF NoRoomForTask, allocVars
  <2>3. CASE Simulate
    BY <2>3 DEF Simulate, buildVars, AllocStep, NextUntyped, Finish, Create, Skip,
                CreatePinned, MissPinned, CloseUntyped
  <2>4. CASE WriteImage
    BY <2>4 DEF WriteImage, allocVars
  <2>5. CASE UNCHANGED vars
    BY <2>5 DEF vars
  <2> QED
    BY <2>1, <2>2, <2>3, <2>4, <2>5
<1>2. AddressInv' /\ (NeedRefinement' <=> NeedRefinement)
  BY <1>1, SameAddresses DEF BuildInv
<1>3. SegmentInv'
  BY <1>1 DEF BuildInv, SegmentInv
<1>4. QuestionInv'
  BY <1>1 DEF BuildInv, QuestionInv
<1>5. PackedInv'
  BY <1>1, <1>2 DEF BuildInv, PackedInv
<1> QED
  BY <1>2, <1>3, <1>4, <1>5 DEF BuildInv

\* Every step of the loop.
LEMMA NextBuild ==
  ASSUME BuildInv, SpecifiedTakenAway, [Next]_vars
  PROVE  BuildInv'
  BY BuildSpecInv, PlaceInv, JudgeInv, PickInv, OtherInv DEF Next

\* The tool asks the simulation only well-formed questions: the untyped objects
\* it computes for the boot do not overlap, whatever the memory map, and the
\* objects with an address, whether given or picked, do not either and come in
\* order - as long as what the description gives an address is really taken out
\* of the memory it picks from, which insert_region() does not ensure.
THEOREM QuestionsAreSound == Spec /\ []SpecifiedTakenAway => []QuestionSound
<1>1. Init => BuildInv
  BY InitBuild
<1>2. BuildInv /\ SpecifiedTakenAway /\ [Next]_vars => BuildInv'
  BY NextBuild
<1>3. BuildInv => QuestionSound
  BY DEF BuildInv, QuestionInv, QuestionSound
<1> QED
  BY <1>1, <1>2, <1>3, PTL DEF Spec

\* What the invariant says of an image that is written.
LEMMA WrittenKept == BuildInv => AddressesKept
<1> SUFFICES ASSUME BuildInv, stage = "written"
             PROVE  packed = mrAddr /\ PickedAligned /\ RegionsApart
  BY DEF AddressesKept
<1>1. packed = mrAddr /\ ~NeedRefinement /\ AddressInv
  BY DEF BuildInv, PackedInv
<1>2. PickedAligned /\ RegionsApart
  BY <1>1 DEF AddressInv, NeedRefinement, PickedAligned
<1> QED
  BY <1>1, <1>2

\* An image that is written has been packed with the addresses the regions
\* have, those the tool picked are aligned, and no two regions share memory.
THEOREM WrittenAddressesKept ==
  Spec /\ []SpecifiedTakenAway => []AddressesKept
<1>1. Init => BuildInv
  BY InitBuild
<1>2. BuildInv /\ SpecifiedTakenAway /\ [Next]_vars => BuildInv'
  BY NextBuild
<1> QED
  BY <1>1, <1>2, WrittenKept, PTL DEF Spec

\* The first iteration, and every one for a description that gives no region
\* an address: there nothing has to be taken away.
NothingToTake ==
  iteration = 0 \/ \A m \in MRs : sys.mrs[m].kind # "Specified"

\* There the invariant of the loop holds without any proviso.
LEMMA FirstBuild == Spec => [](NothingToTake => BuildInv)
<1> DEFINE FirstInv == iteration \in Nat /\ (NothingToTake => BuildInv)
<1>1. Init => FirstInv
  BY InitBuild DEF Init
<1>2. FirstInv /\ [Next]_vars => FirstInv'
  <2> SUFFICES ASSUME FirstInv, [Next]_vars
               PROVE  FirstInv'
    OBVIOUS
  <2>1. /\ sys' = sys /\ iteration' \in {iteration, iteration + 1}
        /\ PickAddresses \/ iteration' = iteration
    BY DEF Next, vars, BuildSpec, GiveUp, PlaceInitialTask, NoRoomForTask, Simulate,
           buildVars, Judge, PickAddresses, WriteImage
  <2>2. NothingToTake' => NothingToTake
    BY <2>1 DEF NothingToTake, MRs
  <2>3. ASSUME NothingToTake'
        PROVE  BuildInv'
    <3>1. BuildInv
      BY <2>2, <2>3
    <3>2. CASE PickAddresses /\ ~Picked.failed
      <4>1. iteration' = iteration + 1
        BY <3>2 DEF PickAddresses
      <4>2. \A m \in MRs : sys.mrs[m].kind # "Specified"
        BY <2>1, <2>3, <4>1 DEF NothingToTake, MRs
      <4>3. SpecifiedTakenAway
        BY <4>2 DEF SpecifiedTakenAway
      <4> QED
        BY <3>1, <3>2, <4>3, PickInv
    <3>3. CASE PickAddresses /\ Picked.failed
      BY <3>1, <3>3, PickInv
    <3> QED
      BY <3>1, <3>2, <3>3, BuildSpecInv, PlaceInv, JudgeInv, OtherInv DEF Next
  <2> QED
    BY <2>1, <2>3
<1>3. FirstInv => (NothingToTake => BuildInv)
  OBVIOUS
<1> QED
  BY <1>1, <1>2, <1>3, PTL DEF Spec

\* The first question is well formed, and so is every other one for a
\* description that gives no region an address.
THEOREM FirstQuestionSound == Spec => [](NothingToTake => QuestionSound)
<1>1. (NothingToTake => BuildInv) => (NothingToTake => QuestionSound)
  BY DEF BuildInv, QuestionInv, QuestionSound
<1> QED
  BY <1>1, FirstBuild, PTL

-----------------------------------------------------------------------------
(* The simulation of the allocation.                                       *)

\* A question that can be answered, and the objects with an address in it.
SoundQ == WellFormed(uts, objs) /\ PhysAddrsOk(uts, objs)
N == Cardinality(Pinned(objs))

Rest == DOMAIN uts \ done
ObjTop(o) == ObjEnd(o, alloc[o].paddr)

(***************************************************************************)
(* The inductive invariant.  Untyped objects still to visit lie above the  *)
(* visited ones; what is allocated lies below the watermark; a pinned      *)
(* object still to come lies at or above it; and the windows hold exactly  *)
(* the objects that still wait.                                            *)
(***************************************************************************)
Typed ==
  /\ done \subseteq DOMAIN uts
  /\ next \in 1 .. N + 1
  /\ win \in [Bits -> [start : Nat, end : Nat]]
  /\ DOMAIN alloc \subseteq DOMAIN objs
  /\ \A o \in DOMAIN alloc : alloc[o].ut \in DOMAIN uts /\ alloc[o].paddr \in Nat
  /\ apc = "fill" => ut \in Rest /\ cur \in Nat

Ordered ==
  \A v \in Rest : /\ \A d \in done : End(uts[d]) <= uts[v].base
                  /\ apc = "fill" => uts[ut].base <= uts[v].base

Watermark ==
  /\ apc = "fill" => /\ uts[ut].base <= cur /\ cur <= End(uts[ut])
                     /\ \A o \in DOMAIN alloc : ObjTop(o) <= cur
  /\ apc = "next" => \A o \in DOMAIN alloc, v \in Rest : ObjTop(o) <= uts[v].base

Ahead ==
  /\ \A i \in 1 .. N : i \in DOMAIN alloc <=> i < next
  /\ \A i \in next .. N : /\ \A d \in done : End(uts[d]) <= objs[i].paddr
                          /\ apc = "fill" => cur <= objs[i].paddr

Window1(b) == win[b].start .. win[b].end - 1
Windows ==
  \A b \in Bits : /\ win[b].start <= win[b].end
                  /\ Window1(b) \subseteq Loose(objs, b) \ DOMAIN alloc
                  /\ b # 0 => Loose(objs, b) \ Window1(b) \subseteq DOMAIN alloc

Placed ==
  /\ \A o \in DOMAIN alloc : InPlace(o)
  /\ \A o, p \in DOMAIN alloc :
       o # p => ObjTop(o) <= alloc[p].paddr \/ ObjTop(p) <= alloc[o].paddr

Verdict ==
  /\ apc # "panic"
  /\ apc = "true" => \A o \in DOMAIN objs : objs[o].bits > 0 => o \in DOMAIN alloc

Busy == apc \in {"next", "fill"}
AllocInv ==
  SoundQ => /\ Placed /\ Verdict
            /\ Busy => Typed /\ Ordered /\ Watermark /\ Ahead /\ Windows

-----------------------------------------------------------------------------
\* What a sound question says of the untyped objects.
LEMMA UntypedFacts ==
  SoundQ =>
    /\ \A i \in DOMAIN uts : /\ uts[i].base \in Nat /\ End(uts[i]) \in Nat
                             /\ uts[i].base < End(uts[i])
    /\ \A i, j \in DOMAIN uts : i # j => \/ End(uts[i]) <= uts[j].base
                                         \/ End(uts[j]) <= uts[i].base
<1> SUFFICES ASSUME SoundQ
             PROVE /\ \A i \in DOMAIN uts : /\ uts[i].base \in Nat /\ End(uts[i]) \in Nat
                                            /\ uts[i].base < End(uts[i])
                   /\ \A i, j \in DOMAIN uts : i # j => \/ End(uts[i]) <= uts[j].base
                                                        \/ End(uts[j]) <= uts[i].base
  OBVIOUS
<1>1. UntypedsSound(uts)
  BY DEF SoundQ, WellFormed
<1>2. \A i \in DOMAIN uts : uts[i].base \in Nat /\ 2^(uts[i].bits) \in Nat \ {0}
  BY <1>1, WordAssumption, PowerFacts DEF UntypedsSound, Bits
<1>3. \A i \in DOMAIN uts : /\ uts[i].base \in Nat /\ End(uts[i]) \in Nat
                            /\ uts[i].base < End(uts[i])
  BY <1>2 DEF End
<1>4. \A i, j \in DOMAIN uts : i # j => \/ End(uts[i]) <= uts[j].base
                                        \/ End(uts[j]) <= uts[i].base
  BY <1>1 DEF UntypedsSound
<1> QED
  BY <1>3, <1>4

\* What it says of the objects: the first N have an address, in order.
LEMMA ObjectFacts ==
  SoundQ =>
    /\ N \in Nat /\ Pinned(objs) = 1 .. N /\ 1 .. N \subseteq DOMAIN objs
    /\ \A o \in DOMAIN objs : ObjSize(o) \in Nat \ {0}
    /\ \A i \in 1 .. N : objs[i].paddr \in Nat
    /\ \A i, j \in 1 .. N : i < j => objs[i].paddr + ObjSize(i) <= objs[j].paddr
    /\ \A o \in DOMAIN objs : o \notin 1 .. N => objs[o].paddr = NoPaddr
<1> SUFFICES ASSUME SoundQ
             PROVE /\ N \in Nat /\ Pinned(objs) = 1 .. N /\ 1 .. N \subseteq DOMAIN objs
                   /\ \A o \in DOMAIN objs : ObjSize(o) \in Nat \ {0}
                   /\ \A i \in 1 .. N : objs[i].paddr \in Nat
                   /\ \A i, j \in 1 .. N : i < j => objs[i].paddr + ObjSize(i) <= objs[j].paddr
                   /\ \A o \in DOMAIN objs : o \notin 1 .. N => objs[o].paddr = NoPaddr
  OBVIOUS
<1>1. ObjectsSound(objs)
  BY DEF SoundQ, WellFormed
<1>2. Pinned(objs) \subseteq DOMAIN objs /\ IsFiniteSet(DOMAIN objs)
  BY <1>1 DEF Pinned, ObjectsSound
<1>3. N \in Nat
  BY <1>2, FS_Subset, FS_CardinalityType DEF N
<1>4. Pinned(objs) = 1 .. N
  BY <1>1 DEF ObjectsSound, N
<1>5. \A o \in DOMAIN objs : ObjSize(o) \in Nat \ {0}
  BY <1>1, WordAssumption, PowerFacts DEF ObjectsSound, Bits, ObjSize
<1>6. \A o \in DOMAIN objs : o \notin 1 .. N => objs[o].paddr = NoPaddr
  BY <1>4 DEF Pinned
<1>7. \A i \in 1 .. N : objs[i].paddr \in Nat
  BY <1>1, <1>2, <1>4 DEF ObjectsSound, Pinned
<1>8. \A i, j \in 1 .. N : i < j => objs[i].paddr + ObjSize(i) <= objs[j].paddr
  BY <1>1, <1>4 DEF ObjectsSound, ObjSize
<1> QED
  BY <1>2, <1>3, <1>4, <1>5, <1>6, <1>7, <1>8

\* What it says of an object without an address.
LEMMA LooseFacts ==
  SoundQ => \A b \in Bits : \A o \in Loose(objs, b) :
              /\ o \in DOMAIN objs /\ o \notin 1 .. N
              /\ objs[o].bits = b /\ ObjSize(o) = 2^b /\ objs[o].paddr = NoPaddr
  BY ObjectFacts DEF Loose, ObjSize

\* An untyped object that holds the address of a pinned object holds all of
\* it, and there is one.
LEMMA PinnedFacts ==
  SoundQ => \A i \in 1 .. N :
    /\ \E j \in DOMAIN uts : /\ uts[j].base <= objs[i].paddr
                             /\ objs[i].paddr + ObjSize(i) <= End(uts[j])
    /\ \A k \in DOMAIN uts : uts[k].base <= objs[i].paddr /\ objs[i].paddr < End(uts[k])
                               => objs[i].paddr + ObjSize(i) <= End(uts[k])
<1> SUFFICES ASSUME SoundQ, NEW i \in 1 .. N
             PROVE  /\ \E j \in DOMAIN uts : /\ uts[j].base <= objs[i].paddr
                                             /\ objs[i].paddr + ObjSize(i) <= End(uts[j])
                    /\ \A k \in DOMAIN uts :
                         uts[k].base <= objs[i].paddr /\ objs[i].paddr < End(uts[k])
                           => objs[i].paddr + ObjSize(i) <= End(uts[k])
  OBVIOUS
<1>1. Allocatable(uts, objs[i])
  BY ObjectFacts DEF SoundQ, PhysAddrsOk
<1>2. PICK j \in DOMAIN uts :
        /\ uts[j].base <= objs[i].paddr
        /\ \A k \in DOMAIN uts : uts[k].base <= objs[i].paddr => uts[k].base <= uts[j].base
        /\ objs[i].paddr + ObjSize(i) <= End(uts[j])
  BY <1>1 DEF Allocatable, Range, ObjSize
<1>3. ASSUME NEW k \in DOMAIN uts, uts[k].base <= objs[i].paddr, objs[i].paddr < End(uts[k])
      PROVE  objs[i].paddr + ObjSize(i) <= End(uts[k])
  <2>1. CASE k = j
    BY <2>1, <1>2
  <2>2. CASE k # j
    BY <2>2, <1>2, <1>3, UntypedFacts, ObjectFacts
  <2> QED
    BY <2>1, <2>2
<1> QED
  BY <1>2, <1>3

-----------------------------------------------------------------------------
\* A step that leaves the question alone keeps what depends on it alone.
SameQ == UNCHANGED <<uts, objs>>

\* No step of the simulation changes the question.
LEMMA QuestionKept == SameQ => (SoundQ' <=> SoundQ) /\ N' = N
  BY DEF SameQ, SoundQ, N

\* The state of the simulation while it runs, in a sound question.
Running == SoundQ /\ AllocInv /\ Busy

\* What the invariant gives while the simulation runs.
LEMMA RunningFacts ==
  Running => /\ Placed /\ Verdict /\ Typed /\ Ordered /\ Watermark /\ Ahead /\ Windows
  BY DEF Running, AllocInv

\* The invariant holds when a question is asked.
LEMMA BeginAlloc ==
  ASSUME NEW us, NEW os, NEW level, Begin(us, os, level)
  PROVE  AllocInv'
<1> SUFFICES ASSUME SoundQ'
             PROVE  /\ Placed' /\ Verdict'
                    /\ Typed' /\ Ordered' /\ Watermark' /\ Ahead' /\ Windows'
  BY DEF AllocInv
<1>1. /\ apc' \in {"false", "next"} /\ done' = {} /\ next' = 1
      /\ alloc' = <<>> /\ DOMAIN alloc' = {}
      /\ win' = [b \in Bits |-> Window(os, b)] /\ objs' = os
  BY DEF Begin
<1>2. WellFormed(uts', objs') /\ N' \in Nat /\ (1 .. N)' \subseteq DOMAIN objs'
  <2>1. WellFormed(uts', objs')
    BY DEF SoundQ
  <2>2. ObjectsSound(objs')
    BY <2>1 DEF WellFormed
  <2>3. Pinned(objs') \subseteq DOMAIN objs' /\ IsFiniteSet(DOMAIN objs')
    BY <2>2 DEF Pinned, ObjectsSound
  <2>4. N' \in Nat
    BY <2>3, FS_Subset, FS_CardinalityType DEF N
  <2>5. Pinned(objs') = (1 .. N)'
    BY <2>2 DEF ObjectsSound, N
  <2> QED
    BY <2>1, <2>3, <2>4, <2>5
<1>3. \A b \in Bits : /\ win'[b].start \in Nat /\ win'[b].end \in Nat
                      /\ win'[b] = [start |-> win'[b].start, end |-> win'[b].end]
                      /\ b = 0 => win'[b].start = 0 /\ win'[b].end = 0
                      /\ b # 0 => Loose(os, b) = win'[b].start .. win'[b].end - 1
                      /\ win'[b].start <= win'[b].end
  <2> SUFFICES ASSUME NEW b \in Bits
               PROVE  /\ win'[b].start \in Nat /\ win'[b].end \in Nat
                      /\ win'[b] = [start |-> win'[b].start, end |-> win'[b].end]
                      /\ b = 0 => win'[b].start = 0 /\ win'[b].end = 0
                      /\ b # 0 => Loose(os, b) = win'[b].start .. win'[b].end - 1
                      /\ win'[b].start <= win'[b].end
    OBVIOUS
  <2>1. win'[b] = Window(os, b)
    BY <1>1
  <2>2. CASE b = 0
    BY <2>1, <2>2 DEF Window
  <2>3. CASE b # 0
    <3>1. /\ win'[b].start \in Nat /\ win'[b].end \in Nat
          /\ Loose(os, b) = win'[b].start .. win'[b].end - 1
      BY <1>1, <1>2, <2>1, <2>3 DEF WellFormed, ObjectsSound
    <3>2. CASE Loose(os, b) = {}
      BY <2>1, <2>3, <3>1, <3>2 DEF Window
    <3>3. CASE Loose(os, b) # {}
      <4>1. win'[b].start <= win'[b].end
        BY <3>1, <3>3
      <4>2. win'[b] = [start |-> win'[b].start, end |-> win'[b].end]
        BY <2>1, <2>3, <3>3 DEF Window
      <4> QED
        BY <2>3, <3>1, <4>1, <4>2
    <3> QED
      BY <3>2, <3>3
  <2> QED
    BY <2>2, <2>3
<1>4. Placed' /\ Verdict' /\ Ordered' /\ Watermark'
  BY <1>1 DEF Placed, Verdict, Ordered, Watermark, Rest
<1>5. Typed'
  <2>1. win' \in [Bits -> [start : Nat, end : Nat]]
    BY <1>1, <1>3
  <2> QED
    BY <1>1, <1>2, <2>1 DEF Typed, Rest
<1>6. Ahead'
  BY <1>1, <1>2 DEF Ahead
<1>7. Windows'
  <2> SUFFICES ASSUME NEW b \in Bits
               PROVE  /\ win'[b].start <= win'[b].end
                      /\ Window1(b)' \subseteq Loose(objs', b) \ DOMAIN alloc'
                      /\ b # 0 => Loose(objs', b) \ Window1(b)' \subseteq DOMAIN alloc'
    BY DEF Windows
  <2> QED
    BY <1>1, <1>3 DEF Window1
<1> QED
  BY <1>4, <1>5, <1>6, <1>7

\* The lowest of the remaining untyped objects: every pinned object to come
\* lies in a remaining one, so not below it.
LEMMA NextUntypedAlloc ==
  ASSUME Running, NextUntyped
  PROVE  AllocInv'
<1> USE RunningFacts, UntypedFacts, ObjectFacts
<1>1. SameQ /\ SoundQ /\ apc = "next" /\ apc' = "fill"
      /\ UNCHANGED <<done, next, win, alloc>>
  BY DEF NextUntyped, SameQ, Running
<1>2. SoundQ' /\ N' = N
  BY <1>1, QuestionKept
<1>3. /\ ut' \in Rest /\ cur' = uts[ut'].base /\ cur' \in Nat
      /\ \A v \in Rest : uts[ut'].base <= uts[v].base
  <2>1. PICK u \in DOMAIN uts \ done :
          /\ \A v \in DOMAIN uts \ done : uts[u].base <= uts[v].base
          /\ ut' = u /\ cur' = uts[u].base
    BY DEF NextUntyped
  <2> QED
    BY <1>1, <2>1 DEF Rest
<1>4. Placed' /\ Verdict'
  BY <1>1 DEF Placed, Verdict, SameQ, InPlace, ObjTop, ObjEnd, ObjSize
<1>5. Typed'
  BY <1>1, <1>2, <1>3 DEF Typed, SameQ, Rest
<1>6. Ordered'
  BY <1>1, <1>3 DEF Ordered, SameQ, Rest, Typed
<1>7. Watermark'
  BY <1>1, <1>3 DEF Watermark, SameQ, Rest, ObjTop, ObjEnd, ObjSize
<1>8. Ahead'
  <2>1. ASSUME NEW i \in next .. N
        PROVE  cur' <= objs[i].paddr
    <3>0. i \in 1 .. N
      BY <1>1 DEF Typed
    <3>1. PICK j \in DOMAIN uts : /\ uts[j].base <= objs[i].paddr
                                  /\ objs[i].paddr + ObjSize(i) <= End(uts[j])
      BY <1>1, <3>0, PinnedFacts
    <3>2. j \in Rest
      BY <1>1, <3>0, <3>1 DEF Ahead, Rest
    <3> QED
      BY <1>1, <1>3, <3>0, <3>1, <3>2 DEF Rest
  <2> QED
    BY <1>1, <1>2, <2>1 DEF Ahead, SameQ
<1>9. Windows'
  BY <1>1 DEF Windows, Window1, SameQ
<1> QED
  BY <1>4, <1>5, <1>6, <1>7, <1>8, <1>9 DEF AllocInv

\* With every untyped object visited and every window empty, nothing waits:
\* a pinned object would lie behind the last untyped object.
LEMMA FinishAlloc ==
  ASSUME Running, Finish
  PROVE  AllocInv'
<1> USE RunningFacts, UntypedFacts, ObjectFacts
<1>1. SameQ /\ SoundQ /\ apc = "next" /\ done = DOMAIN uts
      /\ apc' \in {"true", "false"} /\ UNCHANGED <<done, next, win, alloc>>
  BY DEF Finish, SameQ, Running
<1>2. ASSUME apc' = "true", NEW o \in DOMAIN objs, objs[o].bits > 0
      PROVE  o \in DOMAIN alloc
  <2>1. CASE o \in 1 .. N
    <3>1. PICK j \in DOMAIN uts : objs[o].paddr + ObjSize(o) <= End(uts[j])
      BY <1>1, <2>1, PinnedFacts
    <3>2. ~(End(uts[j]) <= objs[o].paddr)
      BY <1>1, <2>1, <3>1
    <3>3. o \notin next .. N
      BY <1>1, <3>2 DEF Ahead
    <3> QED
      BY <1>1, <2>1, <3>3 DEF Ahead, Typed
  <2>2. CASE o \notin 1 .. N
    <3>1. objs[o].bits \in Bits
      BY <1>1 DEF SoundQ, WellFormed, ObjectsSound
    <3>2. o \in Loose(objs, objs[o].bits)
      BY <1>1, <2>2 DEF Loose
    <3>3. win[objs[o].bits].start = win[objs[o].bits].end
      BY <1>2, <3>1 DEF Finish
    <3>4. Window1(objs[o].bits) = {}
      BY <3>1, <3>3 DEF Window1, Typed
    <3> QED
      BY <1>2, <3>1, <3>2, <3>4 DEF Windows
  <2> QED
    BY <2>1, <2>2
<1>3. Placed' /\ Verdict'
  BY <1>1, <1>2 DEF Placed, Verdict, SameQ, InPlace, ObjTop, ObjEnd, ObjSize
<1> QED
  BY <1>1, <1>3 DEF AllocInv, Busy

\* The watermark never passes the next pinned object.
LEMMA TargetFacts ==
  ASSUME Running, apc = "fill"
  PROVE  /\ Target \in Nat /\ Target <= End(uts[ut])
         /\ \A i \in next .. N : Target <= objs[i].paddr
         /\ PinnedAhead => /\ next \in 1 .. N /\ Target = objs[next].paddr
                           /\ Target < End(uts[ut])
         /\ ~PinnedAhead => Target = End(uts[ut])
<1> USE RunningFacts, UntypedFacts, ObjectFacts
<1>1. SoundQ /\ ut \in DOMAIN uts /\ next \in 1 .. N + 1
  BY DEF Running, Typed, Rest
<1>2. PinnedAhead <=> next <= N /\ objs[next].paddr < End(uts[ut])
  BY DEF PinnedAhead, N
<1>3. CASE PinnedAhead
  <2>1. next \in 1 .. N /\ Target = objs[next].paddr
    BY <1>1, <1>2, <1>3 DEF Target
  <2>2. \A i \in next .. N : objs[next].paddr <= objs[i].paddr
    <3> SUFFICES ASSUME NEW i \in next .. N, i # next
                 PROVE  objs[next].paddr <= objs[i].paddr
      BY <1>1, <2>1
    <3> QED
      BY <1>1, <2>1
  <2> QED
    BY <1>1, <1>2, <1>3, <2>1, <2>2
<1>4. CASE ~PinnedAhead
  <2>1. Target = End(uts[ut])
    BY <1>4 DEF Target
  <2>2. ASSUME NEW i \in next .. N
        PROVE  End(uts[ut]) <= objs[i].paddr
    <3>1. next \in 1 .. N /\ i \in 1 .. N
      BY <1>1, <2>2
    <3>2. End(uts[ut]) <= objs[next].paddr
      BY <1>1, <1>2, <1>4, <3>1
    <3>3. CASE i = next
      BY <3>2, <3>3
    <3>4. CASE i # next
      BY <1>1, <2>2, <3>1, <3>2, <3>4
    <3> QED
      BY <3>3, <3>4
  <2> QED
    BY <1>1, <1>4, <2>1, <2>2
<1> QED
  BY <1>3, <1>4

\* Recording object o at the watermark, which then moves behind it, keeps
\* what is allocated apart.
LEMMA RecordPlaced ==
  ASSUME Running, apc = "fill", SameQ, NEW o \in DOMAIN objs, o \notin DOMAIN alloc,
         Record(o), cur' = cur + ObjSize(o), cur' <= End(uts[ut]),
         objs[o].paddr \in {NoPaddr, cur}
  PROVE  /\ Placed'
         /\ DOMAIN alloc' = DOMAIN alloc \cup {o}
         /\ \A p \in DOMAIN alloc' : /\ alloc'[p].ut \in DOMAIN uts
                                     /\ alloc'[p].paddr \in Nat
                                     /\ ObjTop(p)' <= cur'
<1> USE RunningFacts, UntypedFacts, ObjectFacts
<1>1. /\ SoundQ /\ ut \in DOMAIN uts /\ cur \in Nat /\ ObjSize(o) \in Nat \ {0}
      /\ uts[ut].base <= cur
  BY DEF Running, Typed, Rest, Watermark
<1>2. /\ DOMAIN alloc' = DOMAIN alloc \cup {o}
      /\ alloc'[o].ut = ut /\ alloc'[o].paddr = cur
      /\ \A p \in DOMAIN alloc : alloc'[p] = alloc[p]
  BY DEF Record
<1>3. ObjTop(o)' = cur'
  BY <1>2 DEF ObjTop, ObjEnd, ObjSize, SameQ
<1>4. \A p \in DOMAIN alloc : ObjTop(p)' = ObjTop(p) /\ ObjTop(p) <= cur
  BY <1>2 DEF ObjTop, ObjEnd, ObjSize, SameQ, Watermark
<1>5. \A p \in DOMAIN alloc : /\ alloc[p].paddr \in Nat /\ p \in DOMAIN objs
                              /\ ObjTop(p) \in Nat
  BY <1>1 DEF Typed, ObjTop, ObjEnd
<1>6. \A p \in DOMAIN alloc' : InPlace(p)'
  <2>1. InPlace(o)'
    BY <1>1, <1>2, <1>3 DEF InPlace, SameQ, ObjTop
  <2>2. \A p \in DOMAIN alloc : InPlace(p)'
    BY <1>2 DEF InPlace, SameQ, Placed, ObjEnd, ObjSize
  <2> QED
    BY <1>2, <2>1, <2>2
<1>7. \A p, q \in DOMAIN alloc' :
        p # q => ObjTop(p)' <= alloc'[q].paddr \/ ObjTop(q)' <= alloc'[p].paddr
  BY <1>2, <1>4 DEF Placed
<1>8. \A p \in DOMAIN alloc' : ObjTop(p)' <= cur'
  BY <1>1, <1>2, <1>3, <1>4, <1>5
<1> QED
  BY <1>1, <1>2, <1>5, <1>6, <1>7, <1>8 DEF Placed, Typed

\* The largest object that waits and fits comes from the front of a window.
LEMMA CreateAlloc ==
  ASSUME Running, Create
  PROVE  AllocInv'
<1> USE RunningFacts, UntypedFacts, ObjectFacts
<1>1. SameQ /\ SoundQ /\ apc = "fill" /\ apc' = "fill" /\ UNCHANGED <<done, ut, next>>
  BY DEF Create, SameQ, Running
<1>2. PICK b \in Bits :
        LET o == win[b].start
        IN  /\ Creatable(b) /\ o \notin DOMAIN alloc /\ Record(o)
            /\ cur' = cur + ObjSize(o)
            /\ win' = [win EXCEPT ![b].start = @ + 1]
  BY DEF Create
<1> DEFINE o == win[b].start
<1>3. /\ win[b].start \in Nat /\ win[b].end \in Nat /\ o < win[b].end
      /\ o \in Window1(b)
  BY <1>2 DEF Creatable, Waiting, Typed, Window1
<1>4. /\ o \in DOMAIN objs /\ o \notin 1 .. N
      /\ ObjSize(o) = 2^b /\ objs[o].paddr = NoPaddr /\ o \in Loose(objs, b)
  BY <1>1, <1>2, <1>3, LooseFacts DEF Windows
<1>5. /\ cur \in Nat /\ cur' \in Nat /\ cur < cur' /\ cur' <= Target
      /\ uts[ut].base <= cur /\ ut \in DOMAIN uts
      /\ Target \in Nat /\ Target <= End(uts[ut])
  BY <1>1, <1>2, <1>4, TargetFacts DEF Creatable, Fits, Typed, Watermark, Rest
<1>6. /\ Placed'
      /\ DOMAIN alloc' = DOMAIN alloc \cup {o}
      /\ \A p \in DOMAIN alloc' : /\ alloc'[p].ut \in DOMAIN uts
                                  /\ alloc'[p].paddr \in Nat
                                  /\ ObjTop(p)' <= cur'
  <2>1. cur' <= End(uts[ut])
    BY <1>1, <1>5
  <2> QED
    BY <1>1, <1>2, <1>4, <2>1, RecordPlaced
<1>7. SoundQ' /\ N' = N
  BY <1>1, QuestionKept
<1>8. /\ win' \in [Bits -> [start : Nat, end : Nat]]
      /\ win'[b].start = o + 1 /\ win'[b].end = win[b].end
      /\ \A c \in Bits \ {b} : win'[c] = win[c]
  BY <1>2, <1>3 DEF Typed
<1>9. Verdict'
  BY <1>1 DEF Verdict
<1>10. Typed'
  BY <1>1, <1>4, <1>5, <1>6, <1>7, <1>8 DEF Typed, SameQ, Rest
<1>11. Ordered'
  BY <1>1 DEF Ordered, SameQ, Rest
<1>12. Watermark'
  <2>1. uts[ut].base <= cur' /\ cur' <= End(uts[ut])
    BY <1>1, <1>5
  <2> QED
    BY <1>1, <1>6, <2>1 DEF Watermark, SameQ
<1>13. Ahead'
  <2>1. \A i \in next .. N : cur' <= objs[i].paddr
    <3> SUFFICES ASSUME NEW i \in next .. N
                 PROVE  cur' <= objs[i].paddr
      OBVIOUS
    <3>1. i \in 1 .. N
      BY <1>1 DEF Typed
    <3> QED
      BY <1>1, <1>5, <3>1, TargetFacts
  <2> QED
    BY <1>1, <1>4, <1>6, <1>7, <2>1 DEF Ahead, SameQ
<1>14. Windows'
  <2> SUFFICES ASSUME NEW c \in Bits
               PROVE  /\ win'[c].start <= win'[c].end
                      /\ Window1(c)' \subseteq Loose(objs, c) \ DOMAIN alloc'
                      /\ c # 0 => Loose(objs, c) \ Window1(c)' \subseteq DOMAIN alloc'
    BY <1>1 DEF Windows, SameQ
  <2>1. CASE c = b
    <3>1. Window1(b)' = Window1(b) \ {o}
      BY <1>3, <1>8 DEF Window1
    <3> QED
      BY <1>3, <1>6, <1>8, <2>1, <3>1 DEF Windows
  <2>2. CASE c # b
    <3>1. o \notin Loose(objs, c) /\ Window1(c)' = Window1(c)
      BY <1>1, <1>2, <1>8, <2>2, <1>4, LooseFacts DEF Window1
    <3> QED
      BY <1>6, <1>8, <2>2, <3>1 DEF Windows
  <2> QED
    BY <2>1, <2>2
<1> QED
  BY <1>6, <1>9, <1>10, <1>11, <1>12, <1>13, <1>14 DEF AllocInv

\* No object that waits fits: the watermark moves up without one.
LEMMA SkipAlloc ==
  ASSUME Running, Skip
  PROVE  AllocInv'
<1> USE RunningFacts, UntypedFacts, ObjectFacts
<1>1. SameQ /\ SoundQ /\ apc = "fill" /\ apc' = "fill" /\ cur < Target
      /\ UNCHANGED <<done, ut, next, win, alloc>>
  BY DEF Skip, SameQ, Running
<1>2. SoundQ' /\ N' = N
  BY <1>1, QuestionKept
<1>3. cur \in Nat /\ ut \in Rest /\ Target \in Nat /\ Target <= End(uts[ut])
  BY <1>1, TargetFacts DEF Typed
<1>4. cur' \in Nat /\ cur <= cur' /\ cur' <= Target
  <2>1. CASE PinnedAhead
    <3>1. PICK m \in Bits : Fits(m) /\ cur' = cur + 2^m
      BY <2>1 DEF Skip
    <3>2. 2^m \in Nat
      BY WordAssumption, PowerFacts DEF Bits
    <3> QED
      BY <1>3, <3>1, <3>2 DEF Fits
  <2>2. CASE ~PinnedAhead
    BY <1>1, <1>3, <2>2 DEF Skip
  <2> QED
    BY <2>1, <2>2
<1>5. Placed' /\ Verdict'
  BY <1>1 DEF Placed, Verdict, SameQ, InPlace, ObjTop, ObjEnd, ObjSize
<1>6. Typed'
  BY <1>1, <1>2, <1>4 DEF Typed, SameQ, Rest
<1>7. Ordered'
  BY <1>1 DEF Ordered, SameQ, Rest
<1>8. Watermark'
  <2>1. \A p \in DOMAIN alloc : ObjTop(p)' = ObjTop(p) /\ ObjTop(p) \in Int
    <3>1. \A p \in DOMAIN alloc : alloc[p].paddr \in Nat /\ ObjSize(p) \in Nat
      BY <1>1 DEF Typed
    <3> QED
      BY <1>1, <3>1 DEF ObjTop, ObjEnd, ObjSize, SameQ
  <2>2. \A p \in DOMAIN alloc : ObjTop(p)' <= cur'
    BY <1>1, <1>3, <1>4, <2>1 DEF Watermark
  <2>3. uts[ut].base <= cur' /\ cur' <= End(uts[ut])
    BY <1>1, <1>3, <1>4 DEF Watermark, Rest
  <2> QED
    BY <1>1, <2>2, <2>3 DEF Watermark, SameQ
<1>9. Ahead'
  <2>1. \A i \in next .. N : cur' <= objs[i].paddr
    <3> SUFFICES ASSUME NEW i \in next .. N
                 PROVE  cur' <= objs[i].paddr
      OBVIOUS
    <3>1. i \in 1 .. N
      BY <1>1 DEF Typed
    <3> QED
      BY <1>1, <1>3, <1>4, <3>1, TargetFacts
  <2> QED
    BY <1>1, <1>2, <2>1 DEF Ahead, SameQ
<1>10. Windows'
  BY <1>1 DEF Windows, Window1, SameQ
<1> QED
  BY <1>5, <1>6, <1>7, <1>8, <1>9, <1>10 DEF AllocInv

\* The watermark has reached the pinned object exactly.
LEMMA CreatePinnedAlloc ==
  ASSUME Running, CreatePinned
  PROVE  AllocInv'
<1> USE RunningFacts, UntypedFacts, ObjectFacts
<1>1. SameQ /\ SoundQ /\ apc = "fill" /\ apc' = "fill" /\ UNCHANGED <<done, ut, win>>
      /\ PinnedAhead /\ next' = next + 1 /\ Record(next)
      /\ cur' = cur + ObjSize(next) /\ objs[next].paddr = cur
  BY DEF CreatePinned, SameQ, Running
<1>2. SoundQ' /\ N' = N
  BY <1>1, QuestionKept
<1>3. /\ next \in 1 .. N /\ next \in DOMAIN objs /\ next \notin DOMAIN alloc
      /\ ut \in DOMAIN uts /\ cur \in Nat /\ ObjSize(next) \in Nat \ {0}
  BY <1>1, TargetFacts DEF CreatePinned, Typed, Rest
<1>4. cur' \in Nat /\ cur < cur' /\ uts[ut].base <= cur /\ cur' <= End(uts[ut])
  <2>1. uts[ut].base <= objs[next].paddr /\ objs[next].paddr < End(uts[ut])
    BY <1>1 DEF Watermark, PinnedAhead
  <2> QED
    BY <1>1, <1>3, <2>1, PinnedFacts
<1>5. /\ Placed'
      /\ DOMAIN alloc' = DOMAIN alloc \cup {next}
      /\ \A p \in DOMAIN alloc' : /\ alloc'[p].ut \in DOMAIN uts
                                  /\ alloc'[p].paddr \in Nat
                                  /\ ObjTop(p)' <= cur'
  BY <1>1, <1>3, <1>4, RecordPlaced
<1>6. Verdict'
  BY <1>1 DEF Verdict
<1>7. Typed'
  <2>1. next' \in 1 .. N + 1
    BY <1>1, <1>3
  <2> QED
    BY <1>1, <1>2, <1>3, <1>4, <1>5, <2>1 DEF Typed, SameQ, Rest
<1>8. Ordered'
  BY <1>1 DEF Ordered, SameQ, Rest
<1>9. Watermark'
  <2>1. uts[ut].base <= cur'
    BY <1>1, <1>3, <1>4
  <2> QED
    BY <1>1, <1>4, <1>5, <2>1 DEF Watermark, SameQ
<1>10. Ahead'
  <2>1. ASSUME NEW i \in next' .. N
        PROVE  i \in next .. N /\ cur' <= objs[i].paddr
    <3>1. i \in next .. N /\ next < i /\ i \in 1 .. N
      BY <1>1, <1>3, <2>1
    <3> QED
      BY <1>1, <1>3, <3>1
  <2>2. \A i \in 1 .. N : i \in DOMAIN alloc' <=> i < next'
    BY <1>1, <1>3, <1>5 DEF Ahead
  <2> QED
    BY <1>1, <1>2, <2>1, <2>2 DEF Ahead, SameQ
<1>11. Windows'
  <2>1. \A b \in Bits : next \notin Loose(objs, b)
    BY <1>1, <1>3, LooseFacts
  <2> QED
    BY <1>1, <1>5, <2>1 DEF Windows, Window1, SameQ
<1> QED
  BY <1>5, <1>6, <1>7, <1>8, <1>9, <1>10, <1>11 DEF AllocInv

\* The assertion of the code holds.
LEMMA MissPinnedNever == Running => ~MissPinned
<1> SUFFICES ASSUME Running, MissPinned
             PROVE  FALSE
  OBVIOUS
<1> USE RunningFacts, UntypedFacts, ObjectFacts
<1>1. SoundQ /\ apc = "fill" /\ PinnedAhead /\ Target <= cur /\ objs[next].paddr # cur
  BY TargetFacts DEF MissPinned, Running, Typed
<1>2. next \in 1 .. N /\ Target = objs[next].paddr /\ cur \in Nat
  BY <1>1, TargetFacts DEF Typed
<1>3. next \in next .. N
  BY <1>1, <1>2
<1>4. cur <= objs[next].paddr
  BY <1>1, <1>3 DEF Ahead
<1>5. objs[next].paddr \in Nat
  BY <1>1, <1>2
<1> QED
  BY <1>1, <1>2, <1>4, <1>5

\* The other remaining untyped objects lie behind this one.
LEMMA CloseUntypedAlloc ==
  ASSUME Running, CloseUntyped
  PROVE  AllocInv'
<1> USE RunningFacts, UntypedFacts, ObjectFacts
<1>1. SameQ /\ SoundQ /\ apc = "fill" /\ apc' = "next" /\ done' = done \cup {ut}
      /\ ~PinnedAhead /\ UNCHANGED <<next, win, alloc>>
  BY DEF CloseUntyped, SameQ, Running
<1>2. SoundQ' /\ N' = N
  BY <1>1, QuestionKept
<1>3. ut \in DOMAIN uts /\ cur \in Nat /\ cur <= End(uts[ut])
  BY <1>1 DEF Typed, Watermark, Rest
<1>4. \A v \in Rest \ {ut} : End(uts[ut]) <= uts[v].base
  <2> SUFFICES ASSUME NEW v \in Rest, v # ut
               PROVE  End(uts[ut]) <= uts[v].base
    OBVIOUS
  <2>1. v \in DOMAIN uts /\ uts[ut].base <= uts[v].base
    BY <1>1 DEF Ordered, Rest
  <2>2. End(uts[ut]) <= uts[v].base \/ End(uts[v]) <= uts[ut].base
    BY <1>1, <1>3, <2>1
  <2> QED
    BY <1>1, <1>3, <2>1, <2>2
<1>5. Placed' /\ Verdict'
  BY <1>1 DEF Placed, Verdict, SameQ, InPlace, ObjTop, ObjEnd, ObjSize
<1>6. Typed'
  BY <1>1, <1>2, <1>3 DEF Typed, SameQ, Rest
<1>7. Ordered'
  BY <1>1, <1>4 DEF Ordered, SameQ, Rest
<1>8. Watermark'
  <2>1. ASSUME NEW p \in DOMAIN alloc, NEW v \in Rest \ {ut}
        PROVE  ObjTop(p)' <= uts[v].base
    <3>1. ObjTop(p)' = ObjTop(p) /\ ObjTop(p) <= cur
      BY <1>1 DEF ObjTop, ObjEnd, ObjSize, SameQ, Watermark
    <3>2. alloc[p].paddr \in Nat /\ ObjSize(p) \in Nat
      BY <1>1 DEF Typed
    <3>3. ObjTop(p) \in Nat /\ uts[v].base \in Nat /\ End(uts[ut]) \in Nat
      BY <1>1, <1>3, <3>2 DEF ObjTop, ObjEnd, Rest
    <3> QED
      BY <1>3, <1>4, <3>1, <3>3
  <2> QED
    BY <1>1, <2>1 DEF Watermark, SameQ, Rest
<1>9. Ahead'
  <2>1. \A i \in next .. N : End(uts[ut]) <= objs[i].paddr
    BY <1>1, TargetFacts
  <2> QED
    BY <1>1, <1>2, <2>1 DEF Ahead, SameQ
<1>10. Windows'
  BY <1>1 DEF Windows, Window1, SameQ
<1> QED
  BY <1>5, <1>6, <1>7, <1>8, <1>9, <1>10 DEF AllocInv

-----------------------------------------------------------------------------
\* A step of the simulation that is not taken in a sound question keeps the
\* invariant as well: the question stays what it is.
LEMMA AllocStepInv ==
  ASSUME AllocInv, AllocStep
  PROVE  AllocInv'
<1>1. SameQ /\ Busy
  BY DEF AllocStep, SameQ, Busy, NextUntyped, Finish, Create, Skip, CreatePinned,
         MissPinned, CloseUntyped
<1>2. CASE ~SoundQ
  BY <1>1, <1>2, QuestionKept DEF AllocInv
<1>3. CASE SoundQ
  <2>1. Running
    BY <1>1, <1>3 DEF Running
  <2> QED
    BY <2>1, NextUntypedAlloc, FinishAlloc, CreateAlloc, SkipAlloc, CreatePinnedAlloc,
       MissPinnedNever, CloseUntypedAlloc DEF AllocStep
<1> QED
  BY <1>2, <1>3

\* Steps of the tool that leave the simulation alone keep the invariant.
LEMMA AllocStutter ==
  ASSUME AllocInv, UNCHANGED allocVars
  PROVE  AllocInv'
<1>1. UNCHANGED <<uts, objs, strict, apc, done, ut, cur, next, win, alloc>>
  BY DEF allocVars
<1> QED
  BY <1>1 DEF AllocInv, SoundQ, Placed, Verdict, Busy, Typed, Ordered, Watermark, Ahead,
              Windows, Window1, Rest, N, InPlace, ObjTop, ObjEnd, ObjSize

\* The invariant holds before the first question.
LEMMA InitAlloc == Init => AllocInv
  BY DEF Init, AllocInv, Placed, Verdict, Busy

\* A step of the loop asks a new question, takes a step of the simulation or
\* leaves it alone.
LEMMA NextAlloc ==
  ASSUME Next
  PROVE  \/ \E us, os, level : Begin(us, os, level)
         \/ AllocStep
         \/ UNCHANGED allocVars
  BY DEF Next, BuildSpec, GiveUp, PlaceInitialTask, NoRoomForTask, Simulate, Judge,
         PickAddresses, WriteImage

\* Every step of the loop keeps the invariant of the simulation.
LEMMA NextAllocInv ==
  ASSUME AllocInv, [Next]_vars
  PROVE  AllocInv'
<1>1. CASE Next
  BY <1>1, NextAlloc, BeginAlloc, AllocStepInv, AllocStutter
<1>2. CASE UNCHANGED vars
  BY <1>2, AllocStutter DEF vars, allocVars
<1> QED
  BY <1>1, <1>2

\* In every iteration the simulation is sound: the objects it places are
\* apart and where it says, its assertion about objects with an address does
\* not fail, and it answers "true" only when it has placed all of them -
\* provided the question is well formed and its addresses can be had.
THEOREM SimulationSound == Spec => []AllocationSound
<1>1. Init => AllocInv
  BY InitAlloc
<1>2. AllocInv /\ [Next]_vars => AllocInv'
  BY NextAllocInv
<1>3. AllocInv => AllocationSound
  BY DEF AllocInv, AllocationSound, SoundQ, Placed, Verdict, ObjTop
<1> QED
  BY <1>1, <1>2, <1>3, PTL DEF Spec

-----------------------------------------------------------------------------
(***************************************************************************)
(* How the tool can end in a panic.  In the first iteration the simulation *)
(* does not begin unless all addresses can be had.                         *)
(***************************************************************************)
FirstAsked ==
  stage = "simulate" /\ iteration = 0 /\ apc \in {"next", "fill", "panic", "true"}
    => PhysAddrsOk(uts, objs)

PanicInv == AllocInv /\ iteration \in Nat /\ FirstAsked /\ PanicExplained

\* Judging the answer: a question that was sound has no panic as its answer.
LEMMA JudgePanic ==
  ASSUME PanicInv, QuestionSound, Judge
  PROVE  FirstAsked' /\ PanicExplained'
<1>1. /\ stage = "simulate" /\ stage' # "simulate" /\ WellFormed(uts, objs)
      /\ stage' = "panic" => apc = "panic"
      /\ UNCHANGED <<sys, iteration, segments, task, uts, objs, apc>>
  BY DEF Judge, QuestionSound, allocVars
<1>2. ASSUME apc = "panic"
      PROVE  iteration > 0 /\ ~PhysAddrsOk(uts, objs)
  <2>1. ~PhysAddrsOk(uts, objs)
    BY <1>1, <1>2 DEF PanicInv, AllocInv, SoundQ, Verdict
  <2> QED
    BY <1>1, <1>2, <2>1 DEF PanicInv, FirstAsked
<1> QED
  BY <1>1, <1>2 DEF FirstAsked, PanicExplained

\* Placing the initial task: the simulation is asked, or the kernel's boot
\* was not possible.
LEMMA PlacePanic ==
  ASSUME PanicInv, PlaceInitialTask
  PROVE  FirstAsked' /\ PanicExplained'
<1>1. PICK region, image :
        /\ image = Image /\ task' = region
        /\ IF BootPossible(sys.normal, sys.kernel, region, image)
           THEN /\ \E us, os : Begin(us, os, iteration = 0)
                /\ stage' = "simulate"
           ELSE stage' = "panic"
        /\ UNCHANGED <<sys, iteration, segments>>
  BY DEF PlaceInitialTask
<1>2. CASE BootPossible(sys.normal, sys.kernel, region, image)
  <2>1. PICK us, os : Begin(us, os, iteration = 0)
    BY <1>1, <1>2
  <2>2. stage' = "simulate" /\ iteration' = iteration
    BY <1>1, <1>2
  <2>3. iteration' = 0 /\ apc' \in {"next", "fill", "panic", "true"} => PhysAddrsOk(uts', objs')
    BY <2>1, <2>2 DEF Begin
  <2> QED
    BY <2>2, <2>3 DEF FirstAsked, PanicExplained
<1>3. CASE ~BootPossible(sys.normal, sys.kernel, region, image)
  <2>1. stage' = "panic" /\ sys' = sys /\ task' = region /\ Image' = image
    BY <1>1, <1>3 DEF Image
  <2>2. ~BootPossible(sys'.normal, sys'.kernel, task', Image')
    BY <1>3, <2>1
  <2> QED
    BY <2>1, <2>2 DEF FirstAsked, PanicExplained
<1> QED
  BY <1>2, <1>3

\* The other steps of the tool.
LEMMA OtherPanic ==
  ASSUME PanicInv, Next
  PROVE  \/ Judge \/ PlaceInitialTask
         \/ iteration' \in Nat /\ FirstAsked' /\ PanicExplained'
<1>1. CASE BuildSpec \/ NoRoomForTask \/ WriteImage
  BY <1>1 DEF BuildSpec, NoRoomForTask, WriteImage, PanicInv, FirstAsked, PanicExplained
<1>2. CASE GiveUp
  BY <1>2 DEF GiveUp, PanicInv, FirstAsked, PanicExplained
<1>3. CASE PickAddresses
  BY <1>3 DEF PickAddresses, PanicInv, FirstAsked, PanicExplained
<1>4. CASE Simulate
  <2>1. /\ stage = "simulate" /\ stage' = stage /\ iteration' = iteration
        /\ uts' = uts /\ objs' = objs /\ apc \in {"next", "fill"}
    BY <1>4 DEF Simulate, buildVars, AllocStep, NextUntyped, Finish, Create, Skip,
                CreatePinned, MissPinned, CloseUntyped
  <2> QED
    BY <2>1 DEF PanicInv, FirstAsked, PanicExplained
<1> QED
  BY <1>1, <1>2, <1>3, <1>4 DEF Next

\* Every step of the loop, if it asks a well-formed question.
LEMMA NextPanic ==
  ASSUME PanicInv, QuestionSound, [Next]_vars
  PROVE  PanicInv'
<1>1. AllocInv'
  BY NextAllocInv DEF PanicInv
<1>2. CASE Next
  <2>1. iteration' \in Nat /\ FirstAsked' /\ PanicExplained'
    BY <1>2, JudgePanic, PlacePanic, OtherPanic DEF PanicInv, Judge, PlaceInitialTask
  <2> QED
    BY <1>1, <2>1 DEF PanicInv
<1>3. CASE UNCHANGED vars
  BY <1>1, <1>3 DEF vars, PanicInv, FirstAsked, PanicExplained, Image
<1> QED
  BY <1>2, <1>3

\* The tool panics in the middle of a build for three reasons only: a picked
\* address has become occupied, it has refined too often, or the kernel would
\* not boot - as long as what the description gives an address is taken out of
\* the memory it picks from.
THEOREM PanicsAreExplained == Spec /\ []SpecifiedTakenAway => []PanicExplained
<1>1. Init => PanicInv
  BY InitAlloc DEF Init, PanicInv, FirstAsked, PanicExplained
<1>2. PanicInv /\ QuestionSound /\ [Next]_vars => PanicInv'
  BY NextPanic
<1>3. PanicInv => PanicExplained
  BY DEF PanicInv
<1> QED
  BY <1>1, <1>2, <1>3, QuestionsAreSound, PTL DEF Spec

-----------------------------------------------------------------------------
(***************************************************************************)
(* Builds that pick no address.  Most descriptions ask for none; for those *)
(* the first iteration is the last, and nothing has to be provided for.    *)
(***************************************************************************)
FirstAnswered ==
  stage \in {"pick", "written"} /\ iteration = 0 => PhysAddrsOk(uts, objs)

UnrefinedInv ==
  /\ AllocInv /\ iteration \in Nat /\ FirstAsked /\ FirstAnswered
  /\ iteration = 0 => PanicExplained

\* The first iteration cannot come back.
LEMMA FirstIsFirst ==
  ASSUME iteration \in Nat, [Next]_vars
  PROVE  iteration' \in Nat /\ (iteration' = 0 => iteration = 0)
<1>1. iteration' \in {iteration, iteration + 1}
  BY DEF Next, vars, BuildSpec, GiveUp, PlaceInitialTask, NoRoomForTask, Simulate,
         buildVars, Judge, PickAddresses, WriteImage
<1> QED
  BY <1>1

\* The steps of the first iteration.
LEMMA NextUnrefined ==
  ASSUME UnrefinedInv, iteration = 0 => QuestionSound, [Next]_vars
  PROVE  UnrefinedInv'
<1>1. AllocInv' /\ iteration' \in Nat /\ (iteration' = 0 => iteration = 0)
  BY NextAllocInv, FirstIsFirst DEF UnrefinedInv
<1>2. CASE iteration' # 0
  BY <1>1, <1>2 DEF UnrefinedInv, FirstAsked, FirstAnswered
<1>3. CASE iteration' = 0
  <2>1. iteration = 0 /\ PanicInv /\ QuestionSound
    BY <1>1, <1>3 DEF UnrefinedInv, PanicInv
  <2>2. PanicInv'
    BY <2>1, NextPanic
  <2>3. FirstAnswered'
    <3>1. CASE Judge
      <4>1. /\ stage = "simulate" /\ apc \in {"true", "false", "panic"}
            /\ stage' \in {"pick", "written"} => apc = "true"
            /\ uts' = uts /\ objs' = objs
        BY <2>1, <3>1 DEF Judge, allocVars
      <4> QED
        BY <2>1, <4>1 DEF FirstAnswered, PanicInv, FirstAsked
    <3>2. CASE WriteImage
      BY <2>1, <3>2 DEF WriteImage, allocVars, UnrefinedInv, FirstAnswered
    <3>3. CASE PickAddresses
      BY <3>3 DEF PickAddresses, FirstAnswered
    <3>4. CASE BuildSpec \/ GiveUp \/ PlaceInitialTask \/ NoRoomForTask
      BY <3>4 DEF BuildSpec, GiveUp, PlaceInitialTask, NoRoomForTask, FirstAnswered
    <3>5. CASE Simulate
      BY <3>5 DEF Simulate, buildVars, FirstAnswered
    <3>6. CASE UNCHANGED vars
      BY <3>6 DEF vars, UnrefinedInv, FirstAnswered
    <3> QED
      BY <3>1, <3>2, <3>3, <3>4, <3>5, <3>6 DEF Next
  <2> QED
    BY <2>2, <2>3 DEF PanicInv, UnrefinedInv
<1> QED
  BY <1>2, <1>3

\* A build that picks no address panics only if the kernel would not boot or
\* no iteration is allowed; its simulation says "no" when an address cannot be
\* had; and an image it writes has the addresses of the description, for
\* regions that share no memory, and the kernel can hand out all of it.
THEOREM UnrefinedBuildSound ==
  Spec => [](iteration = 0 =>
               QuestionSound /\ PanicExplained /\ AddressesKept /\ FramesChecked)
<1> DEFINE Asked == iteration = 0 => QuestionSound
           Built == iteration = 0 => BuildInv
<1>1. Init => UnrefinedInv
  BY InitAlloc DEF Init, UnrefinedInv, FirstAsked, FirstAnswered, PanicExplained
<1>2. UnrefinedInv /\ Asked /\ [Next]_vars => UnrefinedInv'
  BY NextUnrefined
<1>3. (NothingToTake => BuildInv) => Built /\ Asked
  BY DEF NothingToTake, BuildInv, QuestionInv, QuestionSound
<1>4. UnrefinedInv /\ Built /\ Asked =>
        (iteration = 0 =>
           QuestionSound /\ PanicExplained /\ AddressesKept /\ FramesChecked)
  <2> SUFFICES ASSUME UnrefinedInv, Built, Asked, iteration = 0
               PROVE  QuestionSound /\ PanicExplained /\ AddressesKept /\ FramesChecked
    OBVIOUS
  <2>1. BuildInv => AddressesKept
    BY WrittenKept
  <2>2. FramesChecked
    BY DEF UnrefinedInv, FirstAsked, FirstAnswered, FramesChecked
  <2> QED
    BY <2>1, <2>2 DEF UnrefinedInv
<1> HIDE DEF Asked, Built
<1> QED
  BY <1>1, <1>2, <1>3, <1>4, FirstBuild, PTL DEF Spec

-----------------------------------------------------------------------------
(* The promise of Placement.                                               *)

WF == WellFormed(uts, objs)

(***************************************************************************)
(* A question that is not proper is not sound either, and then AllocInv    *)
(* says nothing; but the simulation still places only objects that exist.  *)
(***************************************************************************)
Queues ==
  WF /\ Busy =>
    /\ next \in Nat \ {0}
    /\ win \in [Bits -> [start : Nat, end : Nat]]
    /\ \A b \in Bits : Window1(b) \subseteq DOMAIN objs

PromiseInv == AllocInv /\ Queues

-----------------------------------------------------------------------------
\* A question whose addresses are covered by untyped objects is sound.
LEMMA ProperIsSound ==
  ASSUME WF, Promise!Proper
  PROVE  SoundQ
<1> SUFFICES ASSUME NEW i \in Pinned(objs)
             PROVE  Allocatable(uts, objs[i])
  BY DEF SoundQ, WF, PhysAddrsOk
<1>1. i \in DOMAIN objs /\ objs[i].paddr # NoPaddr
  BY DEF Pinned
<1>2. PICK j \in DOMAIN uts : /\ uts[j].base <= objs[i].paddr
                              /\ objs[i].paddr + 2^objs[i].bits <= End(uts[j])
  BY <1>1 DEF Promise!Proper, Promise!Covering, Promise!Last, Promise!EndOf, End
<1>3. /\ objs[i].paddr \in Nat /\ 2^objs[i].bits \in Nat \ {0}
  BY <1>1, AllocationAssumption, WordAssumption, PowerFacts DEF WF, WellFormed, ObjectsSound, Bits
<1>4. \A k \in DOMAIN uts : uts[k].base \in Nat /\ 2^(uts[k].bits) \in Nat \ {0}
  BY AllocationAssumption, WordAssumption, PowerFacts DEF WF, WellFormed, UntypedsSound, Bits
<1>5. ASSUME NEW k \in DOMAIN uts, uts[k].base <= objs[i].paddr
      PROVE  uts[k].base <= uts[j].base
  <2>1. k = j \/ End(uts[j]) <= uts[k].base \/ End(uts[k]) <= uts[j].base
    BY DEF WF, WellFormed, UntypedsSound
  <2>2. End(uts[k]) \in Nat /\ End(uts[j]) \in Nat /\ uts[k].base < End(uts[k])
    BY <1>4 DEF End
  <2> QED
    BY <1>2, <1>3, <1>4, <1>5, <2>1, <2>2
<1>6. uts[j] \in Range(uts) /\ \A v \in Range(uts) : \E k \in DOMAIN uts : v = uts[k]
  BY DEF Range
<1> QED
  BY <1>2, <1>5, <1>6 DEF Allocatable

\* The windows of a new question hold its objects.
LEMMA BeginQueues ==
  ASSUME NEW us, NEW os, NEW level, Begin(us, os, level)
  PROVE  Queues'
<1> SUFFICES ASSUME WF', Busy'
             PROVE  /\ next' \in Nat \ {0}
                    /\ win' \in [Bits -> [start : Nat, end : Nat]]
                    /\ \A b \in Bits : Window1(b)' \subseteq DOMAIN objs'
  BY DEF Queues
<1>1. /\ next' = 1 /\ objs' = os /\ ObjectsSound(os)
      /\ win' = [b \in Bits |-> Window(os, b)]
  BY DEF Begin, WF, WellFormed
<1>2. ASSUME NEW b \in Bits
      PROVE  /\ Window(os, b) \in [start : Nat, end : Nat]
             /\ Window(os, b).start .. Window(os, b).end - 1 \subseteq DOMAIN os
  <2>1. CASE b = 0
    BY <2>1 DEF Window
  <2>2. CASE b # 0
    <3>1. /\ Window(os, b).start \in Nat /\ Window(os, b).end \in Nat
          /\ Loose(os, b) = Window(os, b).start .. Window(os, b).end - 1
      BY <1>1, <2>2 DEF ObjectsSound
    <3>2. Window(os, b) = [start |-> Window(os, b).start, end |-> Window(os, b).end]
      BY DEF Window
    <3>3. Loose(os, b) \subseteq DOMAIN os
      BY DEF Loose
    <3> QED
      BY <3>1, <3>2, <3>3
  <2> QED
    BY <2>1, <2>2
<1> QED
  BY <1>1, <1>2 DEF Window1

\* The queues only ever get shorter.
LEMMA StepQueues ==
  ASSUME Queues, AllocStep
  PROVE  Queues'
<1>1. SameQ /\ Busy
  BY DEF AllocStep, SameQ, Busy, NextUntyped, Finish, Create, Skip, CreatePinned,
         MissPinned, CloseUntyped
<1>2. WF' <=> WF
  BY <1>1 DEF WF, SameQ
<1> SUFFICES ASSUME WF
             PROVE  /\ next' \in Nat \ {0}
                    /\ win' \in [Bits -> [start : Nat, end : Nat]]
                    /\ \A b \in Bits : Window1(b)' \subseteq DOMAIN objs'
  BY <1>2 DEF Queues
<1>3. /\ next \in Nat \ {0}
      /\ win \in [Bits -> [start : Nat, end : Nat]]
      /\ \A b \in Bits : Window1(b) \subseteq DOMAIN objs
  BY <1>1 DEF Queues
<1>4. CASE UNCHANGED win /\ next' \in {next, next + 1}
  BY <1>1, <1>3, <1>4 DEF Window1, SameQ
<1>5. CASE Create
  <2>1. PICK b \in Bits : win' = [win EXCEPT ![b].start = @ + 1]
    BY <1>5 DEF Create
  <2>2. /\ win' \in [Bits -> [start : Nat, end : Nat]]
        /\ win'[b].start = win[b].start + 1 /\ win'[b].end = win[b].end
        /\ \A c \in Bits \ {b} : win'[c] = win[c]
    BY <1>3, <2>1
  <2>3. ASSUME NEW c \in Bits
        PROVE  Window1(c)' \subseteq Window1(c)
    BY <1>3, <2>2 DEF Window1
  <2>4. next' = next
    BY <1>5 DEF Create
  <2> QED
    BY <1>1, <1>3, <2>2, <2>3, <2>4 DEF SameQ
<1>6. (UNCHANGED win /\ next' \in {next, next + 1}) \/ Create
  BY DEF AllocStep, NextUntyped, Finish, Skip, CreatePinned, MissPinned, CloseUntyped
<1> QED
  BY <1>4, <1>5, <1>6

-----------------------------------------------------------------------------
(***************************************************************************)
(* The steps of the abstract specification.                                *)
(***************************************************************************)
Places == [o \in DOMAIN alloc |-> alloc[o].paddr]
Answered == IF apc \in {"true", "false", "panic"} THEN apc ELSE "none"

\* A simulation that has placed nothing yet is a promise with no place.
LEMMA NoPlaces ==
  ASSUME NEW a, a = <<>>
  PROVE  [o \in DOMAIN a |-> a[o].paddr] = <<>>
<1> DEFINE P == [o \in DOMAIN a |-> a[o].paddr]
<1>1. DOMAIN P = {} /\ P = [o \in {} |-> P[o]]
  OBVIOUS
<1>2. <<>> = [o \in {} |-> P[o]]
  OBVIOUS
<1> QED
  BY <1>1, <1>2

\* Recording an object is giving it a place and leaving the others alone.
LEMMA RecordIsPlace ==
  ASSUME NEW o \in DOMAIN objs, o \notin DOMAIN alloc, Record(o), SameQ,
         apc = "fill", apc' = "fill",
         Promise!Proper => /\ Promise!Covering(o, cur) /\ Promise!Apart(o, cur)
                           /\ objs[o].paddr \in {NoPaddr, cur}
  PROVE  Promise!Place(o)
<1>1. DOMAIN Places = DOMAIN alloc
  BY DEF Places
<1>2. /\ DOMAIN alloc' = DOMAIN alloc \cup {o}
      /\ \A p \in DOMAIN alloc' : alloc'[p].paddr = IF p = o THEN cur ELSE alloc[p].paddr
  BY DEF Record
<1>3. Places' = [p \in DOMAIN Places \cup {o} |-> IF p = o THEN cur ELSE Places[p]]
  BY <1>1, <1>2 DEF Places
<1>4. Places'[o] = cur /\ o \in DOMAIN Places'
  BY <1>3
<1>5. Answered = "none" /\ Answered' = "none"
  BY DEF Answered
<1> QED
  BY <1>1, <1>3, <1>4, <1>5 DEF Promise!Place, Places, Answered, SameQ

\* Above the watermark there is nothing yet.
LEMMA AboveWatermark ==
  ASSUME Running, apc = "fill", NEW o
  PROVE  Promise!Apart(o, cur)
<1> SUFFICES ASSUME NEW q \in DOMAIN Places
             PROVE  Promise!Last(q, Places[q]) <= cur
  BY DEF Promise!Apart, Places
<1>1. q \in DOMAIN alloc /\ Places[q] = alloc[q].paddr
  BY DEF Places
<1>2. ObjTop(q) <= cur
  BY <1>1, RunningFacts DEF Watermark
<1> QED
  BY <1>1, <1>2 DEF ObjTop, ObjEnd, ObjSize, Promise!Last

\* An object from a window is placed in memory that no object uses.
LEMMA CreatePromise ==
  ASSUME PromiseInv, WF, Create
  PROVE  \E o \in DOMAIN objs : Promise!Place(o)
<1>1. SameQ /\ apc = "fill" /\ apc' = "fill" /\ Busy
  BY DEF Create, SameQ, Busy
<1>2. PICK b, o : /\ b \in Bits /\ o = win[b].start /\ Creatable(b)
                  /\ o \notin DOMAIN alloc /\ Record(o)
  BY DEF Create, Record
<1>3. o \in Window1(b) /\ o \in DOMAIN objs
  <2>1. /\ win[b].start \in Nat /\ win[b].end \in Nat /\ Window1(b) \subseteq DOMAIN objs
    BY <1>1, <1>2 DEF PromiseInv, Queues
  <2> QED
    BY <1>2, <2>1 DEF Creatable, Waiting, Window1
<1>4. ASSUME Promise!Proper
      PROVE  /\ Promise!Covering(o, cur) /\ Promise!Apart(o, cur)
             /\ objs[o].paddr \in {NoPaddr, cur}
  <2>1. Running
    BY <1>1, <1>4, ProperIsSound DEF Running, PromiseInv
  <2>2. SoundQ /\ Typed /\ Watermark /\ Windows
    BY <2>1, RunningFacts DEF Running
  <2>3. ObjSize(o) = 2^b /\ objs[o].paddr = NoPaddr /\ 2^objs[o].bits = 2^b
    BY <1>2, <1>3, <2>2, LooseFacts DEF Windows
  <2>4. /\ ut \in DOMAIN uts /\ uts[ut].base <= cur /\ cur \in Nat
        /\ Target \in Nat /\ Target <= End(uts[ut]) /\ End(uts[ut]) \in Nat
    BY <1>1, <2>1, <2>2, TargetFacts, UntypedFacts DEF Typed, Watermark, Rest
  <2>5. 2^b \in Nat /\ 2^b <= Target - cur /\ ~uts[ut].device
    BY <1>2, AllocationAssumption, WordAssumption, PowerFacts DEF Creatable, Fits, Bits
  <2>6. cur + 2^objs[o].bits <= End(uts[ut])
    BY <2>3, <2>4, <2>5
  <2>7. Promise!Covering(o, cur)
    BY <2>4, <2>5, <2>6 DEF Promise!Covering, Promise!Last, Promise!EndOf, End
  <2> QED
    BY <1>1, <2>1, <2>3, <2>7, AboveWatermark
<1>5. Promise!Place(o)
  BY <1>1, <1>2, <1>3, <1>4, RecordIsPlace
<1> QED
  BY <1>3, <1>5

\* An object with an address is placed at this address.
LEMMA CreatePinnedPromise ==
  ASSUME PromiseInv, WF, CreatePinned
  PROVE  \E o \in DOMAIN objs : Promise!Place(o)
<1>1. PICK o : /\ o = next /\ SameQ /\ apc = "fill" /\ apc' = "fill" /\ Busy
               /\ PinnedAhead /\ o \notin DOMAIN alloc /\ Record(o)
               /\ objs[o].paddr = cur
  BY DEF CreatePinned, Record, SameQ, Busy
<1>2. o \in DOMAIN objs
  <2>1. next \in Nat \ {0} /\ next <= N
    BY <1>1 DEF PromiseInv, Queues, PinnedAhead, N
  <2>2. Pinned(objs) = 1 .. N /\ Pinned(objs) \subseteq DOMAIN objs /\ N \in Nat
    <3>1. Pinned(objs) = 1 .. N /\ IsFiniteSet(DOMAIN objs)
      BY DEF WF, WellFormed, ObjectsSound, N
    <3>2. Pinned(objs) \subseteq DOMAIN objs
      BY DEF Pinned
    <3> QED
      BY <3>1, <3>2, FS_Subset, FS_CardinalityType DEF N
  <2> QED
    BY <1>1, <2>1, <2>2
<1>3. ASSUME Promise!Proper
      PROVE  Promise!Covering(o, cur) /\ Promise!Apart(o, cur)
  <2>1. Running
    BY <1>1, <1>3, ProperIsSound DEF Running, PromiseInv
  <2>2. o \in 1 .. N /\ SoundQ
    BY <1>1, <2>1, TargetFacts DEF Running
  <2>3. objs[o].paddr # NoPaddr
    BY <1>1, <2>2, ObjectFacts, AllocationAssumption, WordAssumption, PowerFacts
  <2>4. Promise!Covering(o, cur)
    BY <1>1, <1>2, <1>3, <2>3 DEF Promise!Proper
  <2> QED
    BY <1>1, <2>1, <2>4, AboveWatermark
<1>4. Promise!Place(o)
  BY <1>1, <1>2, <1>3, RecordIsPlace
<1> QED
  BY <1>2, <1>4

\* The answer TRUE leaves out no object that takes memory.
LEMMA FinishPromise ==
  ASSUME PromiseInv, WF, Finish
  PROVE  Promise!Answer
<1>1. /\ SameQ /\ UNCHANGED alloc /\ Busy
      /\ apc = "next" /\ apc' \in {"true", "false"}
  BY DEF Finish, SameQ, Busy
<1>2. ASSUME Promise!Proper, apc' = "true", NEW o \in DOMAIN objs, objs[o].bits > 0
      PROVE  o \in DOMAIN Places
  <2>1. SoundQ /\ Running
    BY <1>1, <1>2, ProperIsSound DEF Running, PromiseInv
  <2>2. AllocInv' /\ SoundQ'
    BY <1>1, <2>1, FinishAlloc, QuestionKept
  <2>3. o \in DOMAIN alloc
    BY <1>1, <1>2, <2>2 DEF AllocInv, Verdict, SameQ
  <2> QED
    BY <2>3 DEF Places
<1>3. Answered = "none" /\ Answered' = apc' /\ UNCHANGED Places
  BY <1>1 DEF Answered, Places
<1> QED
  BY <1>1, <1>2, <1>3 DEF Promise!Answer, Places, Answered, SameQ

\* Only a question with an address that cannot be had ends the tool.
LEMMA MissPromise ==
  ASSUME PromiseInv, WF, MissPinned
  PROVE  Promise!Fail
<1>1. /\ SameQ /\ UNCHANGED alloc /\ Busy /\ apc = "fill" /\ apc' = "panic"
  BY DEF MissPinned, SameQ, Busy
<1>2. ~Promise!Proper
  BY <1>1, ProperIsSound, MissPinnedNever DEF Running, PromiseInv
<1>3. Answered = "none" /\ Answered' = "panic" /\ UNCHANGED Places
  BY <1>1 DEF Answered, Places
<1> QED
  BY <1>1, <1>2, <1>3 DEF Promise!Fail, Places, Answered, SameQ

\* A step that changes neither the question nor what is placed nor whether
\* there is an answer is a stutter.
LEMMA QuietStep ==
  ASSUME SameQ, UNCHANGED alloc, Answered' = Answered
  PROVE  UNCHANGED Promise!placementVars
<1>1. UNCHANGED Places
  BY DEF Places
<1> QED
  BY <1>1 DEF SameQ, Promise!placementVars, Places, Answered

\* Every step of the simulation is one that the promise allows.
LEMMA StepPromise ==
  ASSUME PromiseInv, WF, AllocStep
  PROVE  [Promise!PlacementNext]_(Promise!placementVars)
<1>1. CASE NextUntyped \/ Skip \/ CloseUntyped
  <2>1. SameQ /\ UNCHANGED alloc /\ Answered' = Answered
    BY <1>1 DEF NextUntyped, Skip, CloseUntyped, SameQ, Answered
  <2> QED
    BY <2>1, QuietStep
<1>2. CASE Finish
  BY <1>2, FinishPromise DEF Promise!PlacementNext
<1>3. CASE Create \/ CreatePinned
  BY <1>3, CreatePromise, CreatePinnedPromise DEF Promise!PlacementNext
<1>4. CASE MissPinned
  BY <1>4, MissPromise DEF Promise!PlacementNext
<1> QED
  BY <1>1, <1>2, <1>3, <1>4 DEF AllocStep

\* A new question forgets the places of the earlier one.
LEMMA BeginPromise ==
  ASSUME NEW us, NEW os, NEW level, Begin(us, os, level)
  PROVE  Promise!Ask
<1>1. alloc' = <<>> /\ apc' \in {"next", "false"}
  BY DEF Begin
<1>2. Places' = <<>>
  BY <1>1, NoPlaces DEF Places
<1>3. Answered' \in {"none", "false"}
  BY <1>1 DEF Answered
<1> QED
  BY <1>2, <1>3 DEF Promise!Ask, Places, Answered

-----------------------------------------------------------------------------
\* A step of the tool that leaves the simulation alone leaves its promise
\* alone.
LEMMA OtherStep ==
  ASSUME PromiseInv, UNCHANGED allocVars
  PROVE  PromiseInv' /\ UNCHANGED Promise!placementVars
<1>1. UNCHANGED <<uts, objs, strict, apc, done, ut, cur, next, win, alloc>>
  BY DEF allocVars
<1>2. AllocInv'
  BY AllocStutter DEF PromiseInv
<1>3. Queues'
  BY <1>1 DEF PromiseInv, Queues, WF, Busy, Window1
<1>4. UNCHANGED Promise!placementVars
  BY <1>1, QuietStep DEF SameQ, Answered
<1> QED
  BY <1>2, <1>3, <1>4 DEF PromiseInv

\* The simulation steps only where the tool has asked it.
LEMMA NextPromise ==
  ASSUME Next
  PROVE  \/ \E us, os, level : Begin(us, os, level)
         \/ AllocStep /\ stage = "simulate"
         \/ UNCHANGED allocVars
  BY DEF Next, BuildSpec, GiveUp, PlaceInitialTask, NoRoomForTask, Simulate, Judge,
         PickAddresses, WriteImage

\* The loop of main.rs implements Placement, for every system it builds: in
\* every iteration the objects are put one by one into memory that nothing
\* else uses, those with an address there, and TRUE means all of them -
\* provided the tool asks only well-formed questions.
LEMMA ImplementsPlacement == Spec /\ []QuestionSound => PlacementKept
<1>1. Init => PromiseInv /\ Promise!PlacementInit
  <2> SUFFICES ASSUME Init
               PROVE  PromiseInv /\ Promise!PlacementInit
    OBVIOUS
  <2>1. apc = "idle" /\ alloc = <<>>
    BY DEF Init
  <2>2. PromiseInv
    BY <2>1, InitAlloc DEF PromiseInv, Queues, Busy
  <2> QED
    BY <2>1, <2>2, NoPlaces DEF Promise!PlacementInit
<1>2. PromiseInv /\ QuestionSound /\ [Next]_vars =>
        PromiseInv' /\ [Promise!PlacementNext]_(Promise!placementVars)
  <2> SUFFICES ASSUME PromiseInv, QuestionSound, [Next]_vars
               PROVE  PromiseInv' /\ [Promise!PlacementNext]_(Promise!placementVars)
    OBVIOUS
  <2>1. CASE UNCHANGED allocVars
    BY <2>1, OtherStep
  <2>2. CASE \E us, os, level : Begin(us, os, level)
    <3>1. PICK us, os, level : Begin(us, os, level)
      BY <2>2
    <3>2. PromiseInv'
      BY <3>1, BeginAlloc, BeginQueues DEF PromiseInv
    <3> QED
      BY <3>1, <3>2, BeginPromise DEF Promise!PlacementNext
  <2>3. CASE AllocStep /\ stage = "simulate"
    <3>1. WF
      BY <2>3 DEF QuestionSound, WF
    <3>2. PromiseInv'
      BY <2>3, AllocStepInv, StepQueues DEF PromiseInv
    <3> QED
      BY <2>3, <3>1, <3>2, StepPromise
  <2>4. CASE UNCHANGED vars
    BY <2>1, <2>4 DEF vars, allocVars
  <2> QED
    BY <2>1, <2>2, <2>3, <2>4, NextPromise
<1> QED
  BY <1>1, <1>2, PTL DEF Spec, PlacementKept, Promise!PlacementSpec

\* Hence, with what makes the questions well formed in place of that proviso.
THEOREM BuildImplementsPlacement == Spec /\ []SpecifiedTakenAway => PlacementKept
  BY QuestionsAreSound, ImplementsPlacement, PTL
=============================================================================
