-------------------------- MODULE FileDumperProofs --------------------------
(***************************************************************************)
(* Proofs about FileDumper for any finite set of requests, any kinds,      *)
(* limit, base and faults.                                                 *)
(***************************************************************************)
EXTENDS FileDumper, FiniteSetTheorems, SequenceTheorems, TLAPS

-----------------------------------------------------------------------------
(* Induction.  A set of numbers has a least one, because their initial     *)
(* segments are ordered by inclusion.                                      *)

LEMMA LeastNumber ==
  ASSUME NEW S \in SUBSET Nat, S # {}
  PROVE  \E n \in S : \A m \in S : n <= m
<1> DEFINE R == StrictSubsetOrdering(Nat)
           T == {0 .. (n - 1) : n \in S}
<1>1. \E x \in T : \A y \in T : <<y, x>> \notin R
  <2>1. \A n \in S : 0 .. (n - 1) \in FiniteSubsetsOf(Nat)
    BY FS_Interval DEF FiniteSubsetsOf
  <2>2. T \subseteq FiniteSubsetsOf(Nat) /\ T # {}
    BY <2>1
  <2> HIDE DEF T, R
  <2>3. IsWellFoundedOn(R, FiniteSubsetsOf(Nat))
    BY FS_StrictSubsetOrderingWellFounded DEF R
  <2>4. QED
    BY <2>2, <2>3, WFMin
<1>2. PICK n \in S : \A m \in S : <<0 .. (m - 1), 0 .. (n - 1)>> \notin R
  BY <1>1
<1>3. ASSUME NEW m \in S, m < n PROVE FALSE
  <2>1. 0 .. (m - 1) \subseteq 0 .. (n - 1) /\ m \in 0 .. (n - 1) /\ m \notin 0 .. (m - 1)
    BY <1>3
  <2>2. 0 .. (m - 1) \in SUBSET Nat /\ 0 .. (n - 1) \in SUBSET Nat
    OBVIOUS
  <2>3. QED
    BY <1>2, <2>1, <2>2 DEF StrictSubsetOrdering
<1>4. QED
  BY <1>2, <1>3

-----------------------------------------------------------------------------
(* The numerals.                                                           *)

LEMMA Quotient ==
  ASSUME NEW n \in Nat
  PROVE  /\ n \div Base \in Nat /\ n % Base \in Nat
         /\ n >= Base => n \div Base < n
  BY FileDumperAssumption

\* What Numeral is defined by, over the first numbers.
Digits(g, n) == IF n < Base THEN <<n>> ELSE Append(g[n \div Base], n % Base)
IsNumeralTo(g, n) == g = [k \in 0 .. n |-> Digits(g, k)]

LEMMA NumeralAt ==
  ASSUME NEW n \in Nat, NEW g, IsNumeralTo(g, n), NEW k \in Nat, k <= n
  PROVE  g[k] = Digits(g, k)
<1> DEFINE h == [i \in 0 .. n |-> Digits(g, i)]
<1>1. h[k] = Digits(g, k)
  OBVIOUS
<1>2. g = h
  BY DEF IsNumeralTo
<1> HIDE DEF h
<1>3. QED
  BY <1>1, <1>2

LEMMA NumeralAgree ==
  ASSUME NEW m \in Nat, NEW g, IsNumeralTo(g, m), NEW n \in Nat, NEW h, IsNumeralTo(h, n),
         NEW k \in Nat, k <= m, k <= n
  PROVE  g[k] = h[k]
<1> DEFINE S == {i \in Nat : i <= m /\ i <= n /\ g[i] # h[i]}
<1>1. CASE S = {}
  BY <1>1
<1>2. CASE S # {}
  <2>1. PICK i \in S : \A j \in S : i <= j
    BY <1>2, LeastNumber
  <2>2. i \div Base \in Nat /\ (i >= Base => i \div Base < i /\ i \div Base \notin S)
    BY <2>1, Quotient
  <2>3. i >= Base => g[i \div Base] = h[i \div Base]
    BY <2>2
  <2>4. g[i] = Digits(g, i) /\ h[i] = Digits(h, i)
    BY NumeralAt
  <2>5. Digits(g, i) = Digits(h, i)
    BY <2>3, FileDumperAssumption DEF Digits
  <2>6. QED
    BY <2>4, <2>5
<1>3. QED
  BY <1>1, <1>2

LEMMA NumeralUpTo ==
  ASSUME NEW n \in Nat
  PROVE  \E g : IsNumeralTo(g, n)
<1> DEFINE S == {i \in Nat : ~ \E g : IsNumeralTo(g, i)}
<1>1. CASE S = {}
  BY <1>1
<1>2. CASE S # {}
  <2>1. PICK i \in S : \A j \in S : i <= j
    BY <1>2, LeastNumber
  <2>2. CASE i = 0
    <3> DEFINE h == [k \in 0 .. 0 |-> <<k>>]
    <3>1. IsNumeralTo(h, 0)
      BY FileDumperAssumption DEF IsNumeralTo, Digits
    <3>2. QED
      BY <2>2, <3>1
  <2>3. CASE i # 0
    <3>1. i - 1 \in Nat /\ i - 1 \notin S
      BY <2>1, <2>3
    <3>2. PICK g : IsNumeralTo(g, i - 1)
      BY <3>1
    <3> DEFINE h == [k \in 0 .. i |-> IF k < i THEN g[k] ELSE Digits(g, i)]
    <3>3. ASSUME NEW k \in 0 .. i PROVE h[k] = Digits(h, k)
      <4>1. k \div Base \in Nat /\ (k >= Base => k \div Base < k)
        BY Quotient
      <4>2. k >= Base => h[k \div Base] = g[k \div Base]
        BY <4>1
      <4>3. Digits(h, k) = Digits(g, k)
        BY <4>2, FileDumperAssumption DEF Digits
      <4>4. k < i => g[k] = Digits(g, k)
        BY <3>1, <3>2, NumeralAt
      <4>5. QED
        BY <4>3, <4>4
    <3>4. IsNumeralTo(h, i)
      BY <3>3 DEF IsNumeralTo
    <3>5. QED
      BY <3>4
  <2>4. QED
    BY <2>2, <2>3
<1>3. QED
  BY <1>1, <1>2

\* Numeral is what its definition says.
LEMMA NumeralDef == Numeral = [n \in Nat |-> Digits(Numeral, n)]
<1> DEFINE G(n) == CHOOSE g : IsNumeralTo(g, n)
           f == [n \in Nat |-> G(n)[n]]
<1>1. \A n \in Nat : IsNumeralTo(G(n), n)
  BY NumeralUpTo
<1>2. ASSUME NEW n \in Nat PROVE f[n] = Digits(f, n)
  <2>1. n \div Base \in Nat /\ (n >= Base => n \div Base < n)
    BY Quotient
  <2>2. G(n)[n] = Digits(G(n), n)
    BY <1>1, NumeralAt
  <2>3. n >= Base => G(n \div Base)[n \div Base] = G(n)[n \div Base]
    <3>1. SUFFICES ASSUME n >= Base
                   PROVE  G(n \div Base)[n \div Base] = G(n)[n \div Base]
      OBVIOUS
    <3>2. IsNumeralTo(G(n), n) /\ IsNumeralTo(G(n \div Base), n \div Base)
      BY <1>1, <2>1
    <3> HIDE DEF G
    <3>3. QED
      BY <2>1, <3>1, <3>2, NumeralAgree
  <2>4. QED
    BY <2>1, <2>2, <2>3, FileDumperAssumption DEF Digits
<1>3. f = [n \in Nat |-> Digits(f, n)]
  BY <1>2
<1> HIDE DEF f
<1>4. QED
  BY <1>3 DEF Numeral, Digits

LEMMA NumeralType == ASSUME NEW n \in Nat PROVE Numeral[n] \in Seq(Nat) /\ Numeral[n] # <<>>
<1> DEFINE S == {i \in Nat : ~ (Numeral[i] \in Seq(Nat) /\ Numeral[i] # <<>>)}
<1>1. CASE S = {}
  BY <1>1
<1>2. CASE S # {}
  <2>1. PICK i \in S : \A j \in S : i <= j
    BY <1>2, LeastNumber
  <2>2. i \div Base \in Nat /\ i % Base \in Nat /\ (i >= Base => i \div Base < i)
    BY Quotient
  <2>3. Numeral[i] = Digits(Numeral, i)
    BY NumeralDef
  <2>4. CASE i < Base
    <3>1. Numeral[i] = <<i>>
      BY <2>3, <2>4 DEF Digits
    <3>2. <<i>> \in Seq(Nat) /\ <<i>> # <<>>
      OBVIOUS
    <3>3. QED
      BY <3>1, <3>2
  <2>5. CASE i >= Base
    <3>1. Numeral[i] = Append(Numeral[i \div Base], i % Base)
      BY <2>3, <2>5, FileDumperAssumption DEF Digits
    <3>2. Numeral[i \div Base] \in Seq(Nat)
      BY <2>1, <2>2, <2>5
    <3>3. Append(Numeral[i \div Base], i % Base) \in Seq(Nat)
      BY <2>2, <3>2, AppendProperties
    <3>4. Append(Numeral[i \div Base], i % Base) # <<>>
      BY <2>2, <3>2, AppendProperties
    <3>5. QED
      BY <3>1, <3>3, <3>4
  <2>6. QED
    BY <2>4, <2>5, FileDumperAssumption
<1>3. QED
  BY <1>1, <1>2

\* Different numbers have different numerals.
LEMMA NumeralInjective ==
  ASSUME NEW m \in Nat, NEW n \in Nat, Numeral[m] = Numeral[n]
  PROVE  m = n
<1> DEFINE S == {i \in Nat : \E j \in Nat : Numeral[i] = Numeral[j] /\ i # j}
<1>1. CASE S = {}
  BY <1>1
<1>2. CASE S # {}
  <2>1. PICK i \in S : \A j \in S : i <= j
    BY <1>2, LeastNumber
  <2>2. PICK j \in Nat : Numeral[i] = Numeral[j] /\ i # j
    OBVIOUS
  <2>3. j \in S /\ i < j
    BY <2>1, <2>2
  <2>4. ASSUME NEW k \in Nat
        PROVE  /\ k < Base => Numeral[k] = <<k>>
               /\ k >= Base => Numeral[k] = Append(Numeral[k \div Base], k % Base)
    <3>1. Numeral[k] = Digits(Numeral, k)
      BY NumeralDef
    <3>2. QED
      BY <3>1, FileDumperAssumption DEF Digits
  <2>5. CASE i < Base /\ j < Base
    BY <2>2, <2>4, <2>5
  <2>6. CASE i < Base /\ j >= Base
    <3> DEFINE t == Numeral[j \div Base]
    <3>1. t \in Seq(Nat) /\ t # <<>> /\ j % Base \in Nat
      BY Quotient, NumeralType
    <3>2. Len(Append(t, j % Base)) = Len(t) + 1 /\ Len(t) \in Nat \ {0}
      BY <3>1, AppendProperties, EmptySeq
    <3>3. Append(t, j % Base) = <<i>>
      BY <2>2, <2>4, <2>6
    <3>4. Len(<<i>>) = 1
      OBVIOUS
    <3> HIDE DEF t
    <3>5. Len(t) + 1 = 1
      BY <3>2, <3>3, <3>4
    <3>6. QED
      BY <3>2, <3>5
  <2>7. CASE i >= Base /\ j >= Base
    <3>1. /\ Numeral[i \div Base] \in Seq(Nat) /\ i % Base \in Nat
          /\ Numeral[j \div Base] \in Seq(Nat) /\ j % Base \in Nat
      BY Quotient, NumeralType
    <3>2. Append(Numeral[i \div Base], i % Base) = Append(Numeral[j \div Base], j % Base)
      BY <2>2, <2>4, <2>7
    <3>3. Numeral[i \div Base] = Numeral[j \div Base] /\ i % Base = j % Base
      <4> DEFINE s == Numeral[i \div Base]
                 t == Numeral[j \div Base]
                 x == i % Base
                 y == j % Base
      <4>1. s \in Seq(Nat) /\ t \in Seq(Nat) /\ x \in Nat /\ y \in Nat
        BY <3>1
      <4>2. Append(s, x) = Append(t, y)
        BY <3>2
      <4> HIDE DEF s, t, x, y
      <4>3. s = t /\ x = y
        BY <4>1, <4>2, AppendInjective
      <4>4. QED
        BY <4>3 DEF s, t, x, y
    <3>4. i \div Base \in Nat /\ i \div Base < i /\ j \div Base \in Nat
      BY <2>7, Quotient
    <3>5. i \div Base = j \div Base
      BY <2>1, <3>3, <3>4
    <3>6. QED
      BY <2>2, <3>3, <3>5, FileDumperAssumption
  <2>8. QED
    BY <2>3, <2>5, <2>6, <2>7, FileDumperAssumption
<1>3. QED
  BY <1>1, <1>2

-----------------------------------------------------------------------------
(* The order of the names.                                                 *)

\* Two strings of digits, of lengths a and b, agree before i, where s ends or
\* has the smaller digit.
SmallerAt(i, s, a, t) ==
  /\ i <= a + 1
  /\ \A j \in 1 .. (i - 1) : s[j] = t[j]
  /\ i <= a => s[i] < t[i]
Smaller(s, a, t, b) == \E i \in 1 .. b : SmallerAt(i, s, a, t)

LEMMA MinOfTwo ==
  ASSUME NEW a \in Int, NEW b \in Int
  PROVE  Min({a, b}) = IF a <= b THEN a ELSE b
<1> DEFINE m == IF a <= b THEN a ELSE b
<1>1. m \in {a, b} /\ \A y \in {a, b} : m =< y
  OBVIOUS
<1>2. \A x \in {a, b} : (\A y \in {a, b} : x =< y) => x = m
  OBVIOUS
<1> HIDE DEF m
<1>3. QED
  BY <1>1, <1>2 DEF Min, m

LEMMA MaxOfTwo ==
  ASSUME NEW a \in Int, NEW b \in Int
  PROVE  Max({a, b}) = IF a >= b THEN a ELSE b
<1> DEFINE m == IF a >= b THEN a ELSE b
<1>1. m \in {a, b} /\ \A y \in {a, b} : m >= y
  OBVIOUS
<1>2. \A x \in {a, b} : (\A y \in {a, b} : x >= y) => x = m
  OBVIOUS
<1> HIDE DEF m
<1>3. QED
  BY <1>1, <1>2 DEF Max, m

LEMMA BeforeIsSmaller ==
  ASSUME NEW m \in Nat, NEW n \in Nat
  PROVE  NumeralBefore(m, n)
           <=> Smaller(Numeral[m], Len(Numeral[m]), Numeral[n], Len(Numeral[n]))
<1> DEFINE s == Numeral[m]
           t == Numeral[n]
           a == Len(s)
           b == Len(t)
<1>1. a \in Nat /\ b \in Nat
  BY NumeralType, LenProperties
<1>2. Min({a, b}) = IF a <= b THEN a ELSE b
  BY <1>1, MinOfTwo
<1>3. NumeralBefore(m, n) <=>
        \/ a < b /\ \A i \in 1 .. a : s[i] = t[i]
        \/ \E i \in 1 .. Min({a, b}) :
             (\A j \in 1 .. (i - 1) : s[j] = t[j]) /\ s[i] < t[i]
  BY DEF NumeralBefore
<1> HIDE DEF s, t, a, b
<1>4. ASSUME NumeralBefore(m, n) PROVE Smaller(s, a, t, b)
  <2>1. CASE a < b /\ \A i \in 1 .. a : s[i] = t[i]
    <3>1. a + 1 \in 1 .. b /\ SmallerAt(a + 1, s, a, t)
      BY <1>1, <2>1 DEF SmallerAt
    <3>2. QED
      BY <3>1 DEF Smaller
  <2>2. CASE \E i \in 1 .. Min({a, b}) :
               (\A j \in 1 .. (i - 1) : s[j] = t[j]) /\ s[i] < t[i]
    BY <1>1, <1>2, <2>2 DEF Smaller, SmallerAt
  <2>3. QED
    BY <1>3, <1>4, <2>1, <2>2
<1>5. ASSUME Smaller(s, a, t, b) PROVE NumeralBefore(m, n)
  <2>1. PICK i \in 1 .. b : SmallerAt(i, s, a, t)
    BY <1>5 DEF Smaller
  <2>2. CASE i = a + 1
    BY <1>1, <1>3, <2>1, <2>2 DEF SmallerAt
  <2>3. CASE i <= a
    <3>1. i \in 1 .. Min({a, b})
      BY <1>1, <1>2, <2>1, <2>3
    <3>2. QED
      BY <1>3, <2>1, <2>3, <3>1 DEF SmallerAt
  <2>4. QED
    BY <1>1, <2>1, <2>2, <2>3 DEF SmallerAt
<1>6. QED
  BY <1>4, <1>5 DEF s, t, a, b

LEMMA SmallerIrreflexive ==
  ASSUME NEW a \in Nat, NEW s \in [1 .. a -> Nat]
  PROVE  ~Smaller(s, a, s, a)
  BY DEF Smaller, SmallerAt

LEMMA SmallerTransitive ==
  ASSUME NEW a \in Nat, NEW b \in Nat, NEW c \in Nat,
         NEW s \in [1 .. a -> Nat], NEW t \in [1 .. b -> Nat], NEW u \in [1 .. c -> Nat],
         Smaller(s, a, t, b), Smaller(t, b, u, c)
  PROVE  Smaller(s, a, u, c)
<1>1. PICK i \in 1 .. b : SmallerAt(i, s, a, t)
  BY DEF Smaller
<1>2. PICK k \in 1 .. c : SmallerAt(k, t, b, u)
  BY DEF Smaller
<1>3. CASE i <= k
  <2>1. i \in 1 .. c /\ \A j \in 1 .. (i - 1) : s[j] = u[j]
    BY <1>1, <1>2, <1>3 DEF SmallerAt
  <2>2. i <= a => s[i] < u[i]
    <3>1. i < k => t[i] = u[i]
      BY <1>2, <1>3 DEF SmallerAt
    <3>2. i <= a => s[i] \in Nat /\ t[i] \in Nat /\ u[i] \in Nat
      BY <2>1
    <3>3. QED
      BY <1>1, <1>2, <1>3, <3>1, <3>2 DEF SmallerAt
  <2>3. QED
    BY <1>1, <2>1, <2>2 DEF Smaller, SmallerAt
<1>4. CASE k < i
  <2>1. k <= a + 1 /\ \A j \in 1 .. (k - 1) : s[j] = u[j]
    BY <1>1, <1>2, <1>4 DEF SmallerAt
  <2>2. k <= a => s[k] < u[k]
    BY <1>1, <1>2, <1>4 DEF SmallerAt
  <2>3. QED
    BY <1>2, <2>1, <2>2 DEF Smaller, SmallerAt
<1>5. QED
  BY <1>3, <1>4

LEMMA ShorterIsSmaller ==
  ASSUME NEW a \in Nat, NEW b \in Nat, a < b, NEW s \in [1 .. a -> Nat],
         NEW t \in [1 .. b -> Nat], \A j \in 1 .. a : s[j] = t[j]
  PROVE  Smaller(s, a, t, b)
<1>1. a + 1 \in 1 .. b /\ SmallerAt(a + 1, s, a, t)
  BY DEF SmallerAt
<1>2. QED
  BY <1>1 DEF Smaller

LEMMA SmallerTotal ==
  ASSUME NEW a \in Nat, NEW b \in Nat,
         NEW s \in [1 .. a -> Nat], NEW t \in [1 .. b -> Nat], s # t
  PROVE  Smaller(s, a, t, b) \/ Smaller(t, b, s, a)
<1> DEFINE D == {i \in Nat : i \in 1 .. a /\ i \in 1 .. b /\ s[i] # t[i]}
<1>1. CASE D = {}
  <2>1. \A j \in Nat : j \in 1 .. a /\ j \in 1 .. b => s[j] = t[j]
    BY <1>1
  <2>2. a # b
    BY <2>1
  <2>3. CASE a < b
    <3>1. \A j \in 1 .. a : s[j] = t[j]
      BY <2>1, <2>3
    <3>2. QED
      BY <2>3, <3>1, ShorterIsSmaller
  <2>4. CASE b < a
    <3>1. \A j \in 1 .. b : t[j] = s[j]
      BY <2>1, <2>4
    <3>2. QED
      BY <2>4, <3>1, ShorterIsSmaller
  <2>5. QED
    BY <2>2, <2>3, <2>4
<1>2. CASE D # {}
  <2>1. PICK i \in D : \A j \in D : i <= j
    BY <1>2, LeastNumber
  <2>2. \A j \in 1 .. (i - 1) : s[j] = t[j]
    BY <2>1
  <2>3. SmallerAt(i, s, a, t) \/ SmallerAt(i, t, b, s)
    BY <2>2 DEF SmallerAt
  <2>4. QED
    BY <2>3 DEF Smaller
<1>3. QED
  BY <1>1, <1>2

\* sort.Strings has one way to sort the names.
LEMMA NamesAreOrdered ==
  ASSUME NEW l \in Name, NEW m \in Name, NEW n \in Name
  PROVE  /\ ~NameBefore(l, l)
         /\ NameBefore(l, m) /\ NameBefore(m, n) => NameBefore(l, n)
         /\ l # m => NameBefore(l, m) \/ NameBefore(m, l)
<1>1. /\ IsFiniteSet(Requests) /\ Cardinality(Requests) \in Nat /\ MaxClock \in Nat
  BY FileDumperAssumption, FS_CardinalityType
<1>2. /\ l.num \in Nat /\ l.sec \in Nat /\ l.kind \in {"1", "2"}
      /\ m.num \in Nat /\ m.sec \in Nat /\ m.kind \in {"1", "2"}
      /\ n.num \in Nat /\ n.sec \in Nat /\ n.kind \in {"1", "2"}
  BY <1>1 DEF Name
<1>3. l # m => l.num # m.num \/ l.sec # m.sec \/ l.kind # m.kind
  BY DEF Name
<1>4. \A i, j \in Nat :
        NumeralBefore(i, j) <=> Smaller(Numeral[i], Len(Numeral[i]), Numeral[j], Len(Numeral[j]))
  BY BeforeIsSmaller
<1>5. \A a \in Nat : Len(Numeral[a]) \in Nat /\ Numeral[a] \in [1 .. Len(Numeral[a]) -> Nat]
  BY NumeralType, LenProperties
<1>6. ~NumeralBefore(l.num, l.num)
  BY <1>2, <1>4, <1>5, SmallerIrreflexive
<1>7. ASSUME NumeralBefore(l.num, m.num), NumeralBefore(m.num, n.num)
      PROVE  NumeralBefore(l.num, n.num)
  <2> DEFINE s(i) == Numeral[i]
             a(i) == Len(Numeral[i])
  <2>1. /\ Smaller(s(l.num), a(l.num), s(m.num), a(m.num))
        /\ Smaller(s(m.num), a(m.num), s(n.num), a(n.num))
    BY <1>2, <1>4, <1>7
  <2>2. \A i \in {l.num, m.num, n.num} : a(i) \in Nat /\ s(i) \in [1 .. a(i) -> Nat]
    BY <1>2, <1>5
  <2> HIDE DEF s, a
  <2>3. Smaller(s(l.num), a(l.num), s(n.num), a(n.num))
    BY <2>1, <2>2, SmallerTransitive
  <2>4. QED
    BY <1>2, <1>4, <2>3 DEF s, a
<1>8. l.num # m.num => NumeralBefore(l.num, m.num) \/ NumeralBefore(m.num, l.num)
  <2>1. l.num # m.num => Numeral[l.num] # Numeral[m.num]
    BY <1>2, NumeralInjective
  <2>2. QED
    BY <1>2, <1>4, <1>5, <2>1, SmallerTotal
<1>9. QED
  BY <1>2, <1>3, <1>6, <1>7, <1>8 DEF NameBefore

-----------------------------------------------------------------------------
(* The first files of a directory.                                         *)

\* No two files have the same name.
Unique(S) == \A f, g \in S : f.name = g.name => f = g

LEMMA PrecedingFinite ==
  ASSUME NEW S, IsFiniteSet(S), NEW f
  PROVE  IsFiniteSet(Preceding(f, S)) /\ Cardinality(Preceding(f, S)) \in Nat
<1>1. Preceding(f, S) \subseteq S
  BY DEF Preceding
<1>2. QED
  BY <1>1, FS_Subset, FS_CardinalityType

\* Fewer files precede one that comes before.
LEMMA PrecedingGrows ==
  ASSUME NEW S \in SUBSET File, IsFiniteSet(S), NEW g \in S, NEW f \in S,
         NameBefore(g.name, f.name)
  PROVE  Cardinality(Preceding(g, S)) < Cardinality(Preceding(f, S))
<1>1. \A h \in S : h.name \in Name
  BY DEF File
<1>2. Preceding(g, S) \subseteq Preceding(f, S)
  BY <1>1, NamesAreOrdered DEF Preceding
<1>3. g \in Preceding(f, S) /\ g \notin Preceding(g, S)
  BY <1>1, NamesAreOrdered DEF Preceding
<1>4. /\ Cardinality(Preceding(g, S)) <= Cardinality(Preceding(f, S))
      /\ Cardinality(Preceding(g, S)) # Cardinality(Preceding(f, S))
  BY <1>2, <1>3, PrecedingFinite, FS_Subset
<1>5. QED
  BY <1>4, PrecedingFinite

\* What GetDump and ReplayFailed take is there, and nothing comes before it.
LEMMA FirstExists ==
  ASSUME NEW S \in SUBSET File, IsFiniteSet(S), S # {}
  PROVE  First(S) \in S /\ Preceding(First(S), S) = {}
<1> DEFINE c(f) == Cardinality(Preceding(f, S))
           D == {c(f) : f \in S}
<1>1. D \in SUBSET Nat /\ D # {}
  BY PrecedingFinite
<1>2. PICK n \in D : \A m \in D : n <= m
  BY <1>1, LeastNumber
<1>3. PICK f \in S : \A g \in S : c(f) <= c(g)
  BY <1>2
<1>4. \A g \in S : ~NameBefore(g.name, f.name)
  BY <1>3, PrecedingGrows, PrecedingFinite
<1>5. Preceding(f, S) = {}
  BY <1>4 DEF Preceding
<1>6. QED
  BY <1>5 DEF First

\* The first k files are k files: a pruning that goes well removes the excess
\* and no more.
LEMMA LeadingCount ==
  ASSUME NEW S \in SUBSET File, IsFiniteSet(S), Unique(S), NEW k \in 0 .. Cardinality(S)
  PROVE  Cardinality(Leading(k, S)) = k
<1> DEFINE c(f) == Cardinality(Preceding(f, S))
           D == {i \in Nat : i <= Cardinality(S) /\ Cardinality(Leading(i, S)) # i}
<1>1. Cardinality(S) \in Nat
  BY FS_CardinalityType
<1>2. CASE D = {}
  BY <1>1, <1>2
<1>3. CASE D # {}
  <2>1. PICK i \in D : \A j \in D : i <= j
    BY <1>3, LeastNumber
  <2>2. i # 0
    <3>1. Leading(0, S) = {}
      BY PrecedingFinite DEF Leading
    <3>2. QED
      BY <3>1, FS_EmptySet
  <2> DEFINE L == Leading(i - 1, S)
             rest == S \ L
             f == First(rest)
  <2>3. Cardinality(L) = i - 1
    BY <1>1, <2>1, <2>2
  <2>4. IsFiniteSet(L) /\ L \subseteq S /\ rest \in SUBSET File /\ IsFiniteSet(rest)
    BY FS_Subset DEF Leading
  <2>5. rest # {}
    BY <1>1, <2>3, <2>4
  <2>6. f \in rest /\ Preceding(f, rest) = {}
    BY <2>4, <2>5, FirstExists
  <2>7. \A g \in S : c(g) \in Nat
    BY PrecedingFinite
  <2>8. \A g \in S : g.name \in Name
    BY DEF File
  <2>9. Cardinality(L \cup {f}) = i
    <3>1. f \notin L
      BY <2>6
    <3> HIDE DEF L, f
    <3>2. Cardinality(L \cup {f}) = (i - 1) + 1
      BY <2>3, <2>4, <3>1, FS_AddElement
    <3>3. QED
      BY <3>2
  <2>10. Leading(i, S) = L \cup {f}
    <3>1. L \subseteq Leading(i, S)
      BY <1>1, <2>7 DEF Leading
    <3>2. f \in Leading(i, S)
      <4>1. Preceding(f, S) \subseteq L
        BY <2>4, <2>6 DEF Preceding
      <4>2. c(f) <= i - 1
        BY <2>3, <2>4, <4>1, FS_Subset
      <4>3. QED
        BY <1>1, <2>4, <2>6, <2>7, <4>2 DEF Leading
    <3>3. ASSUME NEW g \in rest, g # f PROVE g \notin Leading(i, S)
      <4>1. NameBefore(f.name, g.name)
        BY <2>4, <2>6, <2>8, <3>3, NamesAreOrdered DEF Preceding, Unique
      <4>2. ASSUME NEW h \in L PROVE NameBefore(h.name, g.name)
        <5>1. c(h) < i - 1 /\ ~(c(g) < i - 1)
          BY <2>4, <3>3, <4>2 DEF Leading
        <5>2. ~NameBefore(g.name, h.name)
          BY <2>4, <2>7, <3>3, <5>1, PrecedingGrows
        <5>3. QED
          BY <2>4, <2>8, <3>3, <5>2, NamesAreOrdered DEF Unique
      <4>3. L \cup {f} \subseteq Preceding(g, S)
        BY <2>4, <2>6, <4>1, <4>2 DEF Preceding
      <4>4. i <= c(g)
        <5>1. Cardinality(L \cup {f}) <= Cardinality(Preceding(g, S))
          BY <4>3, PrecedingFinite, FS_Subset
        <5>2. QED
          BY <2>9, <5>1
      <4>5. QED
        BY <2>7, <4>4 DEF Leading
    <3>4. QED
      BY <2>4, <3>1, <3>2, <3>3 DEF Leading
  <2>11. QED
    BY <2>9, <2>10
<1>4. QED
  BY <1>2, <1>3

-----------------------------------------------------------------------------
(* The inductive invariant, in named parts.                                *)

\* Each call of Dump left one file at most.
Finite ==
  /\ IsFiniteSet(pending) /\ IsFiniteSet(failed) /\ IsFiniteSet(todo)
  /\ Cardinality(pending) <= calls

\* A name this process or one before it has given; NewFile's is another.
Taken(n) == n.sec <= prefix /\ (n.sec = prefix => n.num <= num)
Stamped ==
  /\ \A f \in pending \cup failed : Taken(f.name)
  /\ \A n \in loopSent : Taken(n)

\* What the loop has sent and could not remove, it passes over.
SentArePassed == \A f \in pending : f.name \in loopSent => f.name \in locked

\* What the loop sends is still in dump_dir, as it holds d.mu.
SendsPending == replay = "loop" => current \in Sendable

Rest ==
  /\ Finite /\ Stamped /\ Unique(pending \cup failed)
  /\ SentArePassed /\ SendsPending /\ DumpedIsSafe /\ PendingBounded

IInv == TypeOK /\ Rest
-----------------------------------------------------------------------------
(* The types.                                                              *)

LEMMA Bounds ==
  /\ IsFiniteSet(Requests) /\ Cardinality(Requests) \in Nat
  /\ MaxClock \in Nat /\ MaxDumpFiles \in Nat
  BY FileDumperAssumption, FS_CardinalityType

LEMMA TypeInit == Init => TypeOK
  BY Bounds DEF Init, TypeOK

\* The file of a call of Dump.
LEMMA NewFileType ==
  ASSUME TypeOK, NEW r \in Requests, Given(r), NEW size \in {"whole", "part", "empty"}
  PROVE  NewFile(r, size) \in File /\ With(pending, NewFile(r, size)) \subseteq File
<1>1. prefix \in 0 .. MaxClock /\ num + 1 \in 1 .. Cardinality(Requests)
  BY Bounds DEF TypeOK, Given
<1>2. KindOf[r] \in {"1", "2"}
  BY FileDumperAssumption
<1>3. NewFile(r, size) \in File
  BY <1>1, <1>2 DEF NewFile, File, Name
<1>4. QED
  BY <1>3 DEF With, TypeOK

\* With replaces, adds, or both: one file more at most.
LEMMA WithFinite ==
  ASSUME NEW S, IsFiniteSet(S), NEW f
  PROVE  IsFiniteSet(With(S, f)) /\ Cardinality(With(S, f)) <= Cardinality(S) + 1
<1> DEFINE T == {g \in S : g.name # f.name}
<1>1. /\ IsFiniteSet(T) /\ Cardinality(T) \in Nat /\ Cardinality(S) \in Nat
      /\ Cardinality(T) <= Cardinality(S)
  BY FS_Subset, FS_CardinalityType
<1> HIDE DEF T
<1>2. /\ IsFiniteSet(T \cup {f})
      /\ Cardinality(T \cup {f}) = IF f \in T THEN Cardinality(T) ELSE Cardinality(T) + 1
  BY <1>1, FS_AddElement
<1>3. QED
  BY <1>1, <1>2 DEF With, T

LEMMA ExcessIs ==
  ASSUME NEW S, IsFiniteSet(S)
  PROVE  /\ Cardinality(S) \in Nat
         /\ Excess(S) \in 0 .. Cardinality(S)
         /\ MaxDumpFiles > 0 => Cardinality(S) <= MaxDumpFiles + Excess(S)
<1>1. Cardinality(S) \in Nat
  BY FS_CardinalityType
<1>2. Max({0, Cardinality(S) - MaxDumpFiles})
        = IF 0 >= Cardinality(S) - MaxDumpFiles THEN 0 ELSE Cardinality(S) - MaxDumpFiles
  BY <1>1, Bounds, MaxOfTwo
<1>3. QED
  BY <1>1, <1>2, Bounds DEF Excess

\* A pruning deletes k files, out of those that are too many.
LEMMA Prunes ==
  ASSUME NEW all, IsFiniteSet(all),
         NEW k \in IF "remove" \in Faults THEN 0 .. Excess(all) ELSE {Excess(all)}
  PROVE  k \in 0 .. Excess(all) /\ k \in 0 .. Cardinality(all)
  BY ExcessIs

LEMMA SendableFirst ==
  ASSUME TypeOK, Finite, Sendable # {}
  PROVE  First(Sendable) \in Sendable /\ First(Sendable) \in pending
<1>1. Sendable \in SUBSET File /\ Sendable \subseteq pending
  BY DEF Sendable, TypeOK
<1>2. IsFiniteSet(Sendable)
  BY <1>1, FS_Subset DEF Finite
<1>3. QED
  BY <1>1, <1>2, FirstExists

LEMMA TodoFirst ==
  ASSUME TypeOK, Finite, todo # {}
  PROVE  First(todo) \in todo /\ First(todo) \in File
  BY FirstExists DEF TypeOK, Finite

LEMMA TypeStep ==
  ASSUME TypeOK, Finite, SendsPending, [Next]_vars
  PROVE  TypeOK'
<1> USE DEF disk, memory, replaying, history
<1>1. ASSUME NEW r \in Requests, Dump(r) PROVE TypeOK'
  <2> DEFINE all == With(pending, NewFile(r, "whole"))
  <2>1. IsFiniteSet(all) /\ Cardinality(all) <= calls + 1 /\ all \subseteq File
    BY <1>1, WithFinite, NewFileType, FS_CardinalityType DEF Finite, Dump, TypeOK
  <2>2. /\ num' = num + 1 /\ calls' = calls + 1 /\ calls < Cardinality(Requests)
        /\ written' = written \cup {r}
        /\ UNCHANGED <<failed, prefix, locked, clock, replaying, accepted, loopSent>>
    BY <1>1 DEF Dump, Given
  <2> HIDE DEF all
  <2>3. PICK k \in IF "remove" \in Faults THEN 0 .. Excess(all) ELSE {Excess(all)} :
          /\ pending' = all \ Leading(k, all)
          /\ pruned' = pruned \cup Reqs(Leading(k, all))
          /\ behind' = Excess(all) - k
    BY <1>1 DEF Dump, all
  <2>4. k \in 0 .. Excess(all) /\ Excess(all) \in 0 .. Cardinality(all) /\ Cardinality(all) \in Nat
    BY <2>1, <2>3, Prunes, ExcessIs
  <2>5. Leading(k, all) \subseteq all /\ Reqs(Leading(k, all)) \subseteq Requests
    BY <2>1 DEF Leading, Reqs, File
  <2>6. pending' \subseteq File /\ written' \cup pruned' \cup accepted' \subseteq Requests
    BY <2>1, <2>2, <2>3, <2>5 DEF TypeOK
  <2>7. behind' \in 0 .. calls'
    BY <2>1, <2>2, <2>3, <2>4 DEF TypeOK
  <2>8. num' \in 0 .. calls' /\ calls' \in 0 .. Cardinality(Requests)
    BY <2>2, Bounds DEF TypeOK
  <2>9. QED
    BY <2>2, <2>6, <2>7, <2>8 DEF TypeOK
<1>2. ASSUME NEW r \in Requests, DumpFails(r) PROVE TypeOK'
  <2>1. pending' \subseteq File
    BY <1>2, NewFileType DEF DumpFails, TypeOK
  <2>2. /\ num' = num + 1 /\ calls' = calls + 1 /\ calls < Cardinality(Requests)
        /\ UNCHANGED <<failed, prefix, locked, clock, replaying, written, pruned, behind,
                       accepted, loopSent>>
    BY <1>2 DEF DumpFails, Given
  <2>3. num' \in 0 .. calls' /\ calls' \in 0 .. Cardinality(Requests) /\ behind' \in 0 .. calls'
    BY <2>2, Bounds DEF TypeOK
  <2>4. QED
    BY <2>1, <2>2, <2>3 DEF TypeOK
<1>3. CASE ProcessMove
  BY <1>3, SendableFirst DEF ProcessMove, With, TypeOK
<1>4. CASE ProcessSend
  BY <1>4, SendableFirst DEF ProcessSend, TypeOK
<1>5. CASE ProcessSent \/ ProcessSentNotRemoved
  <2>1. current \in pending /\ current.name \in Name /\ current.req \in Requests
    BY <1>5 DEF ProcessSent, ProcessSentNotRemoved, SendsPending, Sendable, TypeOK, File
  <2>2. QED
    BY <1>5, <2>1 DEF ProcessSent, ProcessSentNotRemoved, Accepts, TypeOK
<1>6. CASE ProcessRefused \/ ReplayFailedRefused \/ ReplayFailedEnd
  BY <1>6 DEF ProcessRefused, ReplayFailedRefused, ReplayFailedEnd, TypeOK
<1>7. ASSUME NEW limit \in 0 .. 1, ReplayFailed(limit) PROVE TypeOK'
  BY <1>7 DEF ReplayFailed, Leading, TypeOK
<1>8. CASE ReplayFailedNext
  BY <1>8, TodoFirst DEF ReplayFailedNext, TypeOK
<1>9. CASE ReplayFailedSent
  <2>1. current.req \in Requests
    BY <1>9 DEF ReplayFailedSent, TypeOK, File
  <2>2. QED
    BY <1>9, <2>1 DEF ReplayFailedSent, Accepts, TypeOK
<1>10. CASE Tick
  BY <1>10, Bounds DEF Tick, TypeOK
<1>11. CASE Restart
  BY <1>11, Bounds DEF Restart, TypeOK
<1>12. CASE UNCHANGED vars
  BY <1>12 DEF vars, TypeOK
<1>13. QED
  BY <1>1, <1>2, <1>3, <1>4, <1>5, <1>6, <1>7, <1>8, <1>9, <1>10, <1>11, <1>12 DEF Next
-----------------------------------------------------------------------------
(* The steps.                                                              *)

LEMMA RestInit == Init => Rest
  BY FS_EmptySet, Bounds
  DEF Init, Rest, Finite, Stamped, Unique, SentArePassed, SendsPending, DumpedIsSafe,
      PendingBounded, Whole

\* A step that gives no name: files move, or go when ClickHouse has their rows.
LEMMA Moves ==
  ASSUME IInv,
         pending' \subseteq pending, pending' \cup failed' \subseteq pending \cup failed,
         IsFiniteSet(failed'), IsFiniteSet(todo'),
         UNCHANGED <<prefix, num, calls, written, pruned, behind>>,
         accepted \subseteq accepted',
         Reqs(Whole(pending \cup failed))
           \subseteq accepted' \cup Reqs(Whole(pending' \cup failed')),
         \A n \in loopSent' : Taken(n),
         SentArePassed', SendsPending'
  PROVE  Rest'
<1>1. Finite'
  <2>1. IsFiniteSet(pending') /\ Cardinality(pending') <= Cardinality(pending)
    BY FS_Subset DEF IInv, Rest, Finite
  <2>2. Cardinality(pending') \in Nat /\ Cardinality(pending) \in Nat /\ calls \in Nat
    BY <2>1, FS_CardinalityType, Bounds DEF IInv, Rest, Finite, TypeOK
  <2>3. QED
    BY <2>1, <2>2 DEF IInv, Rest, Finite
<1>2. Stamped' /\ Unique(pending' \cup failed')
  BY DEF IInv, Rest, Stamped, Taken, Unique
<1>3. DumpedIsSafe'
  BY DEF IInv, Rest, DumpedIsSafe
<1>4. PendingBounded'
  <2>1. Whole(pending') \subseteq Whole(pending) /\ Whole(pending) \subseteq pending
    BY DEF Whole
  <2>2. IsFiniteSet(Whole(pending)) /\ IsFiniteSet(Whole(pending'))
    BY <2>1, FS_Subset DEF IInv, Rest, Finite
  <2>3. /\ Cardinality(Whole(pending')) <= Cardinality(Whole(pending))
        /\ Cardinality(Whole(pending')) \in Nat /\ Cardinality(Whole(pending)) \in Nat
    BY <2>1, <2>2, FS_Subset, FS_CardinalityType
  <2>4. behind \in Nat
    BY Bounds DEF IInv, TypeOK
  <2>5. QED
    BY <2>3, <2>4, Bounds DEF IInv, Rest, PendingBounded
<1>5. QED
  BY <1>1, <1>2, <1>3, <1>4 DEF Rest

\* The name of NewFile is new: DumpPrefix and DumpNum have not met before.
LEMMA NewName ==
  ASSUME IInv, NEW r \in Requests, NEW size
  PROVE  /\ \A f \in pending \cup failed : f.name # NewFile(r, size).name
         /\ NewFile(r, size).name \notin loopSent
         /\ With(pending, NewFile(r, size)) = pending \cup {NewFile(r, size)}
<1>1. NewFile(r, size).name.sec = prefix /\ NewFile(r, size).name.num = num + 1
  BY DEF NewFile
<1>2. num \in Nat /\ ~(num + 1 <= num)
  BY Bounds DEF IInv, TypeOK
<1>3. ~Taken(NewFile(r, size).name)
  BY <1>1, <1>2 DEF Taken
<1>4. QED
  BY <1>3 DEF IInv, Rest, Stamped, With

\* What a call of Dump may leave behind, beside the files that were there.
LEMMA Dumped ==
  ASSUME IInv, NEW r \in Requests, NEW size, NEW f, f = NewFile(r, size),
         pending' \subseteq pending \cup {f}, num' = num + 1,
         UNCHANGED <<failed, prefix, locked, replaying, loopSent>>, replay = "none"
  PROVE  Stamped' /\ Unique(pending' \cup failed') /\ SentArePassed' /\ SendsPending'
<1>1. num \in Nat /\ prefix \in Nat
  BY Bounds DEF IInv, TypeOK
<1>2. /\ \A g \in pending \cup failed : g.name.num \in Int
      /\ \A n \in loopSent : n.num \in Int
  BY Bounds DEF IInv, TypeOK, File, Name
<1>3. f.name.sec = prefix /\ f.name.num = num + 1
  BY DEF NewFile
<1>4. Stamped'
  <2>1. ASSUME NEW n, Taken(n), n.num \in Int PROVE Taken(n)'
    BY <1>1, <2>1 DEF Taken
  <2>2. Taken(f.name)'
    BY <1>1, <1>3 DEF Taken
  <2>3. \A g \in pending' \cup failed' : g \in pending \cup failed \/ g = f
    OBVIOUS
  <2>4. \A g \in pending' \cup failed' : Taken(g.name)'
    BY <1>2, <2>1, <2>2, <2>3 DEF IInv, Rest, Stamped
  <2>5. \A n \in loopSent' : Taken(n)'
    BY <1>2, <2>1 DEF IInv, Rest, Stamped
  <2>6. QED
    BY <2>4, <2>5 DEF Stamped
<1>5. Unique(pending' \cup failed')
  BY NewName DEF IInv, Rest, Unique
<1>6. SentArePassed'
  BY NewName DEF IInv, Rest, SentArePassed
<1>7. SendsPending'
  BY DEF SendsPending, replaying
<1>8. QED
  BY <1>4, <1>5, <1>6, <1>7

LEMMA DumpStep ==
  ASSUME IInv, NEW r \in Requests, Dump(r)
  PROVE  Rest'
<1>1. PICK f : f = NewFile(r, "whole")
  OBVIOUS
<1>2. PICK all : all = pending \cup {f} /\ all = With(pending, f)
  BY <1>1, NewName
<1>3. /\ replay = "none" /\ num' = num + 1 /\ calls' = calls + 1
      /\ written' = written \cup {r}
      /\ UNCHANGED <<failed, prefix, locked, replaying, accepted, loopSent>>
  BY DEF Dump, Given
<1>4. PICK k \in IF "remove" \in Faults THEN 0 .. Excess(all) ELSE {Excess(all)} :
        /\ pending' = all \ Leading(k, all)
        /\ pruned' = pruned \cup Reqs(Leading(k, all))
        /\ behind' = Excess(all) - k
  BY <1>1, <1>2 DEF Dump
<1>5. IsFiniteSet(all) /\ Cardinality(all) <= Cardinality(pending) + 1
  BY <1>2, WithFinite DEF IInv, Rest, Finite
<1>6. /\ k \in 0 .. Excess(all) /\ k \in 0 .. Cardinality(all)
      /\ Cardinality(all) \in Nat /\ Excess(all) \in 0 .. Cardinality(all)
      /\ MaxDumpFiles > 0 => Cardinality(all) <= MaxDumpFiles + Excess(all)
  BY <1>5, Prunes, ExcessIs
<1>7. all \subseteq File /\ Unique(all)
  <2>1. f \in File
    BY <1>1, NewFileType DEF Dump, IInv
  <2>2. QED
    BY <1>1, <1>2, <2>1, NewName DEF IInv, Rest, TypeOK, Unique
<1>8. Cardinality(Leading(k, all)) = k /\ Leading(k, all) \subseteq all
  BY <1>5, <1>6, <1>7, LeadingCount DEF Leading
<1>9. IsFiniteSet(pending') /\ Cardinality(pending') = Cardinality(all) - k
  <2>1. all \cap Leading(k, all) = Leading(k, all)
    BY <1>8
  <2>2. /\ IsFiniteSet(all \ Leading(k, all))
        /\ Cardinality(all \ Leading(k, all))
             = Cardinality(all) - Cardinality(all \cap Leading(k, all))
    BY <1>5, FS_Difference
  <2>3. QED
    BY <1>4, <1>8, <2>1, <2>2
<1>10. Stamped' /\ Unique(pending' \cup failed') /\ SentArePassed' /\ SendsPending'
  BY <1>1, <1>2, <1>3, <1>4, Dumped
<1>11. Finite'
  <2>1. Cardinality(pending) \in Nat /\ calls \in Nat /\ Cardinality(pending) <= calls
    BY FS_CardinalityType, Bounds DEF IInv, Rest, Finite, TypeOK
  <2>2. Cardinality(pending') <= calls'
    BY <1>3, <1>5, <1>6, <1>9, <2>1
  <2>3. QED
    BY <1>3, <1>9, <2>2 DEF IInv, Rest, Finite, replaying
<1>12. DumpedIsSafe'
  <2>1. Whole(pending \cup failed) \subseteq Leading(k, all) \cup Whole(pending' \cup failed')
    BY <1>2, <1>3, <1>4 DEF Whole
  <2>2. f.req = r /\ f.size = "whole"
    BY <1>1 DEF NewFile
  <2>3. f \in Leading(k, all) \cup Whole(pending' \cup failed')
    BY <1>2, <1>4, <2>2 DEF Whole
  <2>4. r \in pruned' \cup Reqs(Whole(pending' \cup failed'))
    BY <1>4, <2>2, <2>3 DEF Reqs
  <2>5. Reqs(Whole(pending \cup failed)) \subseteq pruned' \cup Reqs(Whole(pending' \cup failed'))
    BY <1>4, <2>1 DEF Reqs
  <2>6. QED
    BY <1>3, <1>4, <2>4, <2>5 DEF IInv, Rest, DumpedIsSafe
<1>13. PendingBounded'
  <2>1. Whole(pending') \subseteq pending'
    BY DEF Whole
  <2>2. Cardinality(Whole(pending')) <= Cardinality(pending') /\ Cardinality(Whole(pending')) \in Nat
    BY <1>9, <2>1, FS_Subset, FS_CardinalityType
  <2>3. MaxDumpFiles > 0 => Cardinality(pending') <= MaxDumpFiles + behind'
    BY <1>4, <1>6, <1>9, Bounds
  <2>4. QED
    BY <1>4, <1>6, <1>9, <2>2, <2>3, Bounds DEF PendingBounded
<1>14. QED
  BY <1>10, <1>11, <1>12, <1>13 DEF Rest

LEMMA DumpFailsStep ==
  ASSUME IInv, NEW r \in Requests, DumpFails(r)
  PROVE  Rest'
<1>1. /\ replay = "none" /\ num' = num + 1 /\ calls' = calls + 1
      /\ UNCHANGED <<failed, prefix, locked, replaying, written, pruned, behind, accepted,
                     loopSent>>
  BY DEF DumpFails, Given
<1>2. PICK size \in {"part", "empty"} :
        pending' = pending \/ pending' = With(pending, NewFile(r, size))
  BY DEF DumpFails
<1>3. PICK f : f = NewFile(r, size)
  OBVIOUS
<1>4. pending' = pending \/ (pending' = pending \cup {f} /\ pending' = With(pending, f))
  BY <1>2, <1>3, NewName
<1>5. Stamped' /\ Unique(pending' \cup failed') /\ SentArePassed' /\ SendsPending'
  BY <1>1, <1>3, <1>4, Dumped
<1>6. f.size # "whole"
  BY <1>2, <1>3 DEF NewFile
<1>7. Finite'
  <2>1. IsFiniteSet(pending) /\ Cardinality(pending) \in Nat /\ calls \in Nat /\ Cardinality(pending) <= calls
    BY FS_CardinalityType, Bounds DEF IInv, Rest, Finite, TypeOK
  <2>2. IsFiniteSet(pending') /\ Cardinality(pending') <= Cardinality(pending) + 1
    BY <1>4, <2>1, WithFinite
  <2>3. Cardinality(pending') \in Nat
    BY <2>2, FS_CardinalityType
  <2>4. Cardinality(pending') <= calls'
    BY <1>1, <2>1, <2>2, <2>3
  <2>5. QED
    BY <1>1, <2>2, <2>4 DEF IInv, Rest, Finite, replaying
<1>8. Whole(pending') = Whole(pending) /\ Whole(pending' \cup failed') = Whole(pending \cup failed)
  BY <1>1, <1>4, <1>6 DEF Whole
<1>9. DumpedIsSafe'
  BY <1>1, <1>8 DEF IInv, Rest, DumpedIsSafe
<1>10. PendingBounded'
  BY <1>1, <1>8 DEF IInv, Rest, PendingBounded
<1>11. QED
  BY <1>5, <1>7, <1>9, <1>10 DEF Rest

LEMMA MoveStep ==
  ASSUME IInv, ProcessMove
  PROVE  Rest'
<1>1. PICK f : f = First(Sendable) /\ f \in pending
  BY SendableFirst DEF ProcessMove, IInv, Rest
<1>2. /\ replay = "none" /\ pending' = pending \ {f} /\ failed' = With(failed, f)
      /\ UNCHANGED <<memory, clock, replaying, history>>
  BY <1>1 DEF ProcessMove
\* The file that With replaces has the name of one in dump_dir: it is that one.
<1>3. \A g \in failed : g.name = f.name => g = f
  BY <1>1 DEF IInv, Rest, Unique
<1>4. pending' \cup failed' = pending \cup failed
  BY <1>1, <1>2, <1>3 DEF With
<1>5. IsFiniteSet(failed') /\ IsFiniteSet(todo')
  BY <1>2, WithFinite DEF IInv, Rest, Finite, replaying
<1>6. SentArePassed' /\ SendsPending'
  BY <1>2 DEF IInv, Rest, SentArePassed, SendsPending, memory, replaying, history
<1>7. \A n \in loopSent' : Taken(n)
  BY <1>2 DEF IInv, Rest, Stamped, history
<1>8. QED
  BY <1>2, <1>4, <1>5, <1>6, <1>7, Moves DEF memory, history

LEMMA SentStep ==
  ASSUME IInv, ProcessSent
  PROVE  Rest'
<1>1. /\ replay = "loop" /\ Accepts(current) /\ pending' = pending \ {current}
      /\ loopSent' = loopSent \cup {current.name} /\ replay' = "none"
      /\ UNCHANGED <<failed, memory, clock, todo, calls, written, pruned, behind>>
  BY DEF ProcessSent
<1>2. current \in pending
  BY <1>1 DEF IInv, Rest, SendsPending, Sendable
<1>3. Reqs(Whole(pending \cup failed)) \subseteq accepted' \cup Reqs(Whole(pending' \cup failed'))
  BY <1>1 DEF Accepts, Reqs, Whole
<1>4. \A g \in pending' : g.name # current.name
  BY <1>1, <1>2 DEF IInv, Rest, Unique
<1>5. SentArePassed' /\ SendsPending'
  BY <1>1, <1>4 DEF IInv, Rest, SentArePassed, SendsPending, memory
<1>6. \A n \in loopSent' : Taken(n)
  BY <1>1, <1>2 DEF IInv, Rest, Stamped
<1>7. QED
  BY <1>1, <1>3, <1>5, <1>6, Moves DEF IInv, Rest, Finite, Accepts, memory

LEMMA SentNotRemovedStep ==
  ASSUME IInv, ProcessSentNotRemoved
  PROVE  Rest'
<1>1. /\ replay = "loop" /\ Accepts(current) /\ locked' = locked \cup {current.name}
      /\ loopSent' = loopSent \cup {current.name} /\ replay' = "none"
      /\ UNCHANGED <<disk, prefix, num, todo, calls, written, pruned, behind>>
  BY DEF ProcessSentNotRemoved
<1>2. current \in pending
  BY <1>1 DEF IInv, Rest, SendsPending, Sendable
<1>3. SentArePassed' /\ SendsPending'
  BY <1>1 DEF IInv, Rest, SentArePassed, SendsPending, disk
<1>4. \A n \in loopSent' : Taken(n)
  BY <1>1, <1>2 DEF IInv, Rest, Stamped
<1>5. QED
  BY <1>1, <1>3, <1>4, Moves DEF IInv, Rest, Finite, Accepts, disk

LEMMA ReplayFailedSentStep ==
  ASSUME IInv, ReplayFailedSent
  PROVE  Rest'
<1>1. /\ replay = "operator" /\ Accepts(current)
      /\ failed' = failed \ {current} \/ failed' = failed
      /\ UNCHANGED <<pending, memory, replay, todo, calls, written, pruned, behind, loopSent>>
  BY DEF ReplayFailedSent
<1>2. IsFiniteSet(failed')
  BY <1>1, FS_RemoveElement DEF IInv, Rest, Finite
<1>3. Reqs(Whole(pending \cup failed)) \subseteq accepted' \cup Reqs(Whole(pending' \cup failed'))
  BY <1>1 DEF Accepts, Reqs, Whole
<1>4. SentArePassed' /\ SendsPending'
  BY <1>1 DEF IInv, Rest, SentArePassed, SendsPending, memory
<1>5. \A n \in loopSent' : Taken(n)
  BY <1>1 DEF IInv, Rest, Stamped
<1>6. QED
  BY <1>1, <1>2, <1>3, <1>4, <1>5, Moves DEF IInv, Rest, Finite, Accepts, memory

\* What only chooses a file, or gives d.mu back.
LEMMA ChoiceStep ==
  ASSUME IInv, UNCHANGED <<disk, memory, history>>, IsFiniteSet(todo'), SendsPending'
  PROVE  Rest'
<1>1. SentArePassed' /\ \A n \in loopSent' : Taken(n)
  BY DEF IInv, Rest, SentArePassed, Stamped, disk, memory, history
<1>2. QED
  BY <1>1, Moves DEF IInv, Rest, Finite, disk, memory, history

\* A new process has a DumpPrefix that no file has.
LEMMA RestartStep ==
  ASSUME IInv, Restart
  PROVE  Rest'
<1>1. /\ prefix < clock /\ prefix' = clock /\ loopSent' = {} /\ replay' = "none" /\ todo' = {}
      /\ UNCHANGED <<disk, calls, written, pruned, behind, accepted>>
  BY Bounds DEF Restart, IInv, TypeOK
<1>2. prefix \in Int /\ clock \in Int /\ \A f \in pending \cup failed : f.name.sec \in Int
  BY Bounds DEF IInv, TypeOK, File, Name
<1>3. Stamped'
  BY <1>1, <1>2 DEF IInv, Rest, Stamped, Taken, disk
<1>4. Finite'
  BY <1>1, FS_EmptySet DEF IInv, Rest, Finite, disk
<1>5. QED
  BY <1>1, <1>3, <1>4
  DEF IInv, Rest, Unique, SentArePassed, SendsPending, DumpedIsSafe, PendingBounded, disk

LEMMA RestStep ==
  ASSUME IInv, [Next]_vars
  PROVE  Rest'
<1>1. ASSUME NEW r \in Requests, Dump(r) \/ DumpFails(r) PROVE Rest'
  BY <1>1, DumpStep, DumpFailsStep
<1>2. CASE ProcessMove \/ ProcessSent \/ ProcessSentNotRemoved \/ ReplayFailedSent
  BY <1>2, MoveStep, SentStep, SentNotRemovedStep, ReplayFailedSentStep
<1>3. CASE ProcessSend
  BY <1>3, SendableFirst, ChoiceStep
  DEF ProcessSend, IInv, Rest, Finite, SendsPending, Sendable, disk, memory
<1>4. CASE ProcessRefused
  BY <1>4, ChoiceStep DEF ProcessRefused, IInv, Rest, Finite, SendsPending
<1>5. ASSUME NEW limit \in 0 .. 1, ReplayFailed(limit) PROVE Rest'
  <2>1. todo' \subseteq failed
    BY <1>5 DEF ReplayFailed, Leading
  <2>2. IsFiniteSet(todo')
    BY <2>1, FS_Subset DEF IInv, Rest, Finite
  <2>3. QED
    BY <1>5, <2>2, ChoiceStep DEF ReplayFailed, SendsPending
<1>6. CASE ReplayFailedNext
  <2>1. IsFiniteSet(todo')
    BY <1>6, FS_RemoveElement DEF ReplayFailedNext, IInv, Rest, Finite
  <2>2. QED
    BY <1>6, <2>1, ChoiceStep DEF ReplayFailedNext, SendsPending
<1>7. CASE ReplayFailedRefused \/ ReplayFailedEnd
  BY <1>7, ChoiceStep DEF ReplayFailedRefused, ReplayFailedEnd, IInv, Rest, Finite, SendsPending
<1>8. CASE Tick
  BY <1>8, ChoiceStep
  DEF Tick, IInv, Rest, Finite, SendsPending, Sendable, disk, memory, replaying
<1>9. CASE Restart
  BY <1>9, RestartStep
<1>10. CASE UNCHANGED vars
  BY <1>10, ChoiceStep
  DEF vars, IInv, Rest, Finite, SendsPending, Sendable, disk, memory, replaying
<1>11. QED
  BY <1>1, <1>2, <1>3, <1>4, <1>5, <1>6, <1>7, <1>8, <1>9, <1>10 DEF Next

LEMMA Invariance == Spec => []IInv
<1>1. Init => IInv
  BY TypeInit, RestInit DEF IInv
<1>2. IInv /\ [Next]_vars => IInv'
  BY TypeStep, RestStep DEF IInv, Rest
<1>3. QED
  BY <1>1, <1>2, PTL DEF Spec
-----------------------------------------------------------------------------
\* Every variable of the dumper keeps its type.
THEOREM TypeCorrect == Spec => []TypeOK
  BY Invariance, PTL DEF IInv

\* What Dump wrote is in dump_dir or failed/, in ClickHouse, or pruned: names
\* never collide, so that no Dump, move or restart overwrites a file.
THEOREM DumpsStaySafe == Spec => []DumpedIsSafe
<1>1. IInv => DumpedIsSafe
  BY DEF IInv, Rest
<1>2. QED
  BY <1>1, Invariance, PTL

\* dump_dir stays within max_dump_files, but for what the last pruning could
\* not remove.
THEOREM DirStaysBounded == Spec => []PendingBounded
<1>1. IInv => PendingBounded
  BY DEF IInv, Rest
<1>2. QED
  BY <1>1, Invariance, PTL

\* The loop of Listen sends no file a second time in the life of a process.
THEOREM NothingIsSentTwice == Spec => []LoopSendsOnce
<1>1. IInv => LoopSendsOnce
  BY DEF IInv, Rest, SendsPending, SentArePassed, Sendable, LoopSendsOnce
<1>2. QED
  BY <1>1, Invariance, PTL
=============================================================================
