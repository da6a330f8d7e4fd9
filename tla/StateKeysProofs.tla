--------------------------- MODULE StateKeysProofs ----------------------------
(***************************************************************************)
(* The keys of StateKeys are unambiguous for all ids that validate_id      *)
(* accepts, provided that none ends with "|", which it does not refuse.    *)
(* Padded numbers are in order as strings, for every width, and the        *)
(* namespaces of two tenants are apart if their ids have no ":".           *)
(***************************************************************************)
EXTENDS NamespaceKeys, SequenceTheorems, WellFoundedInduction, TLAPS

String == Seq(Symbol)

Accepted == {id \in Ids : IsSafe(id)}

------------------------------------------------------------------------------
(* Strings *)

LEMMA Concat ==
    ASSUME NEW s \in String, NEW t \in String
    PROVE  /\ Len(s) \in Nat /\ Len(t) \in Nat
           /\ s \o t \in String /\ Len(s \o t) = Len(s) + Len(t)
           /\ \A i \in 1 .. Len(s) : (s \o t)[i] = s[i]
           /\ \A i \in 1 .. Len(t) : (s \o t)[Len(s) + i] = t[i]
<1> USE DEF String
<1>1. Len(s) \in Nat /\ Len(t) \in Nat
  BY LenProperties
<1>2. /\ s \o t \in String /\ Len(s \o t) = Len(s) + Len(t)
      /\ \A i \in 1 .. Len(s) + Len(t) :
            (s \o t)[i] = IF i <= Len(s) THEN s[i] ELSE t[i - Len(s)]
  BY ConcatProperties
<1>3. ASSUME NEW i \in 1 .. Len(s) PROVE (s \o t)[i] = s[i]
  BY <1>1, <1>2
<1>4. ASSUME NEW i \in 1 .. Len(t) PROVE (s \o t)[Len(s) + i] = t[i]
  <2>1. Len(s) + i \in 1 .. Len(s) + Len(t) /\ ~(Len(s) + i <= Len(s))
        /\ (Len(s) + i) - Len(s) = i
    BY <1>1
  <2>2. (s \o t)[Len(s) + i] = t[(Len(s) + i) - Len(s)]
    BY <1>2, <2>1
  <2>3. QED
    BY <2>1, <2>2
<1>5. QED
  BY <1>1, <1>2, <1>3, <1>4

LEMMA SameString ==
    ASSUME NEW s \in String, NEW t \in String, Len(s) = Len(t),
           \A i \in 1 .. Len(s) : s[i] = t[i]
    PROVE  s = t
  BY SeqEqual DEF String

LEMMA CancelLeft ==
    ASSUME NEW s \in String, NEW t \in String, NEW u \in String, s \o t = s \o u
    PROVE  t = u
<1>1. Len(s) \in Nat /\ Len(t) \in Nat /\ Len(u) \in Nat
      /\ Len(s) + Len(t) = Len(s) + Len(u)
  <2>1. Len(s) \in Nat /\ Len(t) \in Nat /\ Len(s \o t) = Len(s) + Len(t)
    BY Concat
  <2>2. Len(u) \in Nat /\ Len(s \o u) = Len(s) + Len(u)
    BY Concat
  <2>3. QED
    BY <2>1, <2>2
<1>2. Len(t) = Len(u)
  BY <1>1
<1>3. ASSUME NEW i \in 1 .. Len(t) PROVE t[i] = u[i]
  <2>1. (s \o t)[Len(s) + i] = t[i]
    BY Concat
  <2>2. (s \o u)[Len(s) + i] = u[i]
    BY <1>2, Concat
  <2>3. QED
    BY <2>1, <2>2
<1>4. QED
  BY <1>2, <1>3, SameString

LEMMA PairType ==
    ASSUME NEW S, NEW a \in S
    PROVE  /\ <<a>> \in Seq(S) /\ Len(<<a>>) = 1 /\ <<a>>[1] = a
           /\ <<a, a>> \in Seq(S) /\ Len(<<a, a>>) = 2
           /\ <<a, a>>[1] = a /\ <<a, a>>[2] = a
  OBVIOUS

LEMMA SepType ==
    KEY_SEP \in String /\ Len(KEY_SEP) = 2 /\ KEY_SEP[1] = "|" /\ KEY_SEP[2] = "|"
<1>1. "|" \in Symbol
  BY KeysAssumption
<1>2. QED
  BY <1>1, PairType DEF KEY_SEP, String

------------------------------------------------------------------------------
(* Numbers *)

(* A non-empty set of numbers has a least one: the induction below is over *)
(* sets of numbers, for want of one over formulas.                          *)
LEMMA Least ==
    ASSUME NEW B \in SUBSET Nat, B # {}
    PROVE  \E m \in B : \A k \in B : m <= k
<1> DEFINE less == OpToRel(<, Nat)
<1>1. IsWellFoundedOn(less, Nat)
  BY NatLessThanWellFounded
<1>2. ASSUME NEW k \in Nat, NEW m \in Nat, k < m PROVE <<k, m>> \in less
  <2>1. <<k, m>> \in Nat \X Nat
    OBVIOUS
  <2>2. <<k, m>>[1] < <<k, m>>[2]
    BY <1>2
  <2>3. QED
    BY <2>1, <2>2 DEF OpToRel
<1> HIDE DEF less
<1>3. PICK m \in B : \A k \in B : <<k, m>> \notin less
  BY <1>1, WFMin
<1>4. ASSUME NEW k \in B PROVE m <= k
  <2>1. k \in Nat /\ m \in Nat /\ ~(k < m)
    BY <1>2, <1>3
  <2>2. QED
    BY <2>1
<1>5. QED
  BY <1>4

LEMMA NatSetInduction ==
    ASSUME NEW G, 0 \in G, \A k \in Nat : k \in G => k + 1 \in G
    PROVE  Nat \subseteq G
<1> DEFINE B == Nat \ G
<1>1. SUFFICES ASSUME B # {} PROVE FALSE
  BY <1>1
<1>2. PICK m \in B : \A k \in B : m <= k
  BY <1>1, Least
<1>3. m # 0 /\ m - 1 \in Nat /\ (m - 1) + 1 = m /\ ~(m <= m - 1)
  BY <1>2
<1>4. m - 1 \in G
  BY <1>2, <1>3
<1>5. QED
  BY <1>2, <1>3, <1>4

(* The equation by which TenTo is defined, of which there is one solution  *)
(* on every interval, hence one on Nat.                                    *)
TenAt(g, k) == IF k = 0 THEN 1 ELSE 10 * g[k - 1]

TenTable(g, D) == g = [k \in D |-> TenAt(g, k)]

LEMMA TenTableUnique ==
    ASSUME NEW a \in Nat, NEW b \in Nat, NEW g, TenTable(g, 0 .. a),
           NEW h, TenTable(h, 0 .. b)
    PROVE  \A k \in Nat : k <= a /\ k <= b => g[k] = h[k]
<1> DEFINE G == {k \in Nat : k <= a /\ k <= b => g[k] = h[k]}
<1>1. 0 \in G
  BY DEF TenTable, TenAt
<1>2. ASSUME NEW k \in G PROVE k + 1 \in G
  <2>1. SUFFICES ASSUME k + 1 <= a, k + 1 <= b PROVE g[k + 1] = h[k + 1]
    OBVIOUS
  <2>2. k + 1 \in 0 .. a /\ k + 1 \in 0 .. b /\ k + 1 # 0 /\ (k + 1) - 1 = k
    BY <2>1
  <2>3. g[k + 1] = 10 * g[k] /\ h[k + 1] = 10 * h[k]
    BY <2>2 DEF TenTable, TenAt
  <2>4. g[k] = h[k]
    BY <2>1
  <2>5. QED
    BY <2>3, <2>4
<1>3. Nat \subseteq G
  <2> HIDE DEF G
  <2>1. QED
    BY <1>1, <1>2, NatSetInduction
<1>4. QED
  BY <1>3

LEMMA TenTableExists == \A m \in Nat : \E g : TenTable(g, 0 .. m)
<1> DEFINE G == {m \in Nat : \E g : TenTable(g, 0 .. m)}
<1>1. 0 \in G
  <2>1. TenTable([k \in 0 .. 0 |-> 1], 0 .. 0)
    BY DEF TenTable, TenAt
  <2>2. QED
    BY <2>1
<1>2. ASSUME NEW m \in G PROVE m + 1 \in G
  <2>1. PICK g : TenTable(g, 0 .. m)
    OBVIOUS
  <2> DEFINE h == [k \in 0 .. m + 1 |-> TenAt(g, k)]
  <2>2. ASSUME NEW k \in 0 .. m + 1 PROVE TenAt(g, k) = TenAt(h, k)
    <3>1. CASE k = 0
      BY <3>1 DEF TenAt
    <3>2. CASE k # 0
      <4>1. k - 1 \in 0 .. m /\ k - 1 \in 0 .. m + 1
        BY <3>2
      <4>2. h[k - 1] = g[k - 1]
        BY <2>1, <4>1 DEF TenTable
      <4>3. QED
        BY <4>2 DEF TenAt
    <3>3. QED
      BY <3>1, <3>2
  <2>3. h = [k \in 0 .. m + 1 |-> TenAt(h, k)]
    BY <2>2
  <2>4. TenTable(h, 0 .. m + 1)
    BY <2>3 DEF TenTable
  <2>5. QED
    BY <2>4
<1>3. Nat \subseteq G
  <2> HIDE DEF G
  <2>1. QED
    BY <1>1, <1>2, NatSetInduction
<1>4. QED
  BY <1>3

LEMMA TenUnfolds == \A k \in Nat : TenTo[k] = IF k = 0 THEN 1 ELSE 10 * TenTo[k - 1]
<1> DEFINE table(m) == CHOOSE g : TenTable(g, 0 .. m)
           g == [m \in Nat |-> table(m)[m]]
<1>1. \A m \in Nat : TenTable(table(m), 0 .. m)
  BY TenTableExists
<1>2. ASSUME NEW k \in Nat PROVE g[k] = TenAt(g, k)
  <2>1. table(k)[k] = TenAt(table(k), k)
    <3>1. TenTable(table(k), 0 .. k) /\ k \in 0 .. k
      BY <1>1
    <3> HIDE DEF table
    <3>2. QED
      BY <3>1 DEF TenTable
  <2>2. CASE k = 0
    BY <2>1, <2>2 DEF TenAt
  <2>3. CASE k # 0
    <3>1. k - 1 \in Nat /\ k - 1 <= k
      BY <2>3
    <3>2. table(k)[k - 1] = table(k - 1)[k - 1]
      <4>1. TenTable(table(k), 0 .. k) /\ TenTable(table(k - 1), 0 .. k - 1)
        BY <1>1, <3>1
      <4> HIDE DEF table
      <4>2. QED
        BY <3>1, <4>1, TenTableUnique
    <3>3. QED
      BY <2>1, <2>3, <3>1, <3>2 DEF TenAt
  <2>4. QED
    BY <2>2, <2>3
<1>3. g = [k \in Nat |-> IF k = 0 THEN 1 ELSE 10 * g[k - 1]]
  <2> HIDE DEF table
  <2>1. QED
    BY <1>2 DEF TenAt
<1> HIDE DEF g
<1>4. TenTo = [k \in Nat |-> IF k = 0 THEN 1 ELSE 10 * TenTo[k - 1]]
  BY <1>3 DEF TenTo
<1>5. QED
  BY <1>4

LEMMA TenToType ==
    /\ TenTo[0] = 1
    /\ \A k \in Nat : TenTo[k] \in Nat \ {0} /\ TenTo[k + 1] = 10 * TenTo[k]
<1>1. TenTo[0] = 1
  BY TenUnfolds
<1>2. \A k \in Nat : TenTo[k + 1] = 10 * TenTo[k]
  BY TenUnfolds
<1> DEFINE G == {k \in Nat : TenTo[k] \in Nat \ {0}}
<1>3. 0 \in G
  BY <1>1
<1>4. \A k \in Nat : k \in G => k + 1 \in G
  BY <1>2
<1>5. Nat \subseteq G
  <2> HIDE DEF G
  <2>1. QED
    BY <1>3, <1>4, NatSetInduction
<1>6. QED
  BY <1>1, <1>2, <1>5

LEMMA Remainder ==
    \A m \in Nat : m = 10 * (m \div 10) + (m % 10) /\ m % 10 \in 0 .. 9
  OBVIOUS

LEMMA Division ==
    ASSUME NEW m \in Nat, NEW n \in Nat, NEW d \in Nat \ {0}
    PROVE  /\ m \div d \in Nat /\ m \div 1 = m
           /\ m \div (10 * d) = (m \div d) \div 10
           /\ m <= n => m \div d <= n \div d
           /\ m < 10 * d => m \div d <= 9
<1>1. m \div d \in Nat /\ m \div 1 = m
  OBVIOUS
<1>2. m \div (10 * d) = (m \div d) \div 10
  OBVIOUS
<1>3. m <= n => m \div d <= n \div d
  OBVIOUS
<1>4. m < 10 * d => m \div d <= 9
  OBVIOUS
<1>5. QED
  BY <1>1, <1>2, <1>3, <1>4

(* The digit at place i of a padded number. *)
Digit(n, i) == (n \div TenTo[Width - i]) % 10

LEMMA PaddedType ==
    ASSUME NEW n \in Nat
    PROVE  /\ Padded(n) \in String /\ Len(Padded(n)) = Width
           /\ \A i \in 1 .. Width : /\ Digit(n, i) \in 0 .. 9
                                   /\ Padded(n)[i] = Digits[Digit(n, i) + 1]
<1>1. Width \in Nat
  BY KeysAssumption
<1>2. ASSUME NEW i \in 1 .. Width PROVE Digit(n, i) \in 0 .. 9
  <2>1. TenTo[Width - i] \in Nat \ {0}
    BY <1>1, TenToType
  <2>2. n \div TenTo[Width - i] \in Nat
    BY <2>1, Division
  <2>3. QED
    BY <2>2, Remainder DEF Digit
<1>3. Padded(n) = [i \in 1 .. Width |-> Digits[Digit(n, i) + 1]]
  BY DEF Padded, Decimal, Digit
<1>4. \A a \in 0 .. 9 : Digits[a + 1] \in Symbol
  <2>1. \A a \in 0 .. 9 : a + 1 \in 1 .. 10
    OBVIOUS
  <2>2. QED
    BY <2>1, KeysAssumption
<1>5. Padded(n) \in [1 .. Width -> Symbol]
  BY <1>2, <1>3, <1>4
<1>6. Padded(n) \in String /\ Len(Padded(n)) = Width
  BY <1>1, <1>5 DEF String
<1>7. QED
  BY <1>2, <1>3, <1>6

LEMMA NumbersType == \A n \in Numbers : n \in Nat /\ n < TenTo[Width]
<1>1. Width \in Nat /\ TenTo[Width] \in Nat
  BY TenToType, KeysAssumption
<1>2. QED
  BY <1>1, KeysAssumption

(* The padded forms of two numbers differ first at a place where the       *)
(* smaller number has the smaller digit.                                   *)
LEMMA PaddedOrder ==
    ASSUME NEW m \in Numbers, NEW n \in Numbers, m < n
    PROVE  \E i \in 1 .. Width : /\ Digit(m, i) < Digit(n, i)
                                /\ \A j \in 1 .. i - 1 : Digit(m, j) = Digit(n, j)
<1> DEFINE M(i) == m \div TenTo[Width - i]
           N(i) == n \div TenTo[Width - i]
           Apart == {i \in 1 .. Width : M(i) # N(i)}
<1>1. /\ Width \in Nat /\ m \in Nat /\ n \in Nat
      /\ m < TenTo[Width] /\ n < TenTo[Width]
  BY NumbersType, KeysAssumption
<1>2. Width # 0
  <2>1. Width = 0 => m = 0 /\ n = 0
    BY <1>1, TenToType
  <2>2. QED
    BY <2>1
<1>3. \A i \in 1 .. Width : /\ Width - i \in Nat /\ TenTo[Width - i] \in Nat \ {0}
                            /\ M(i) \in Nat /\ N(i) \in Nat /\ M(i) <= N(i)
  <2> SUFFICES ASSUME NEW i \in 1 .. Width
               PROVE  /\ Width - i \in Nat /\ TenTo[Width - i] \in Nat \ {0}
                      /\ M(i) \in Nat /\ N(i) \in Nat /\ M(i) <= N(i)
    OBVIOUS
  <2>1. Width - i \in Nat /\ TenTo[Width - i] \in Nat \ {0}
    BY <1>1, TenToType
  <2>2. M(i) \in Nat /\ N(i) \in Nat
    BY <1>1, <2>1, Division
  <2>3. m <= n
    BY <1>1
  <2>4. M(i) <= N(i)
    BY <1>1, <2>1, <2>3, Division
  <2>5. QED
    BY <2>1, <2>2, <2>4
<1>4. Width \in Apart
  <2>1. Width \in 1 .. Width /\ Width - Width = 0
    BY <1>1, <1>2
  <2>2. M(Width) = m /\ N(Width) = n
    BY <1>1, <2>1, TenToType, Division
  <2>3. QED
    BY <1>1, <2>1, <2>2
<1>5. PICK i \in Apart : \A j \in Apart : i <= j
  <2>1. Apart \in SUBSET Nat /\ Apart # {}
    BY <1>1, <1>4
  <2> HIDE DEF Apart
  <2>2. QED
    BY <2>1, Least
<1>6. i \in 1 .. Width /\ M(i) < N(i)
  BY <1>3
<1>7. \A j \in 1 .. i - 1 : M(j) = N(j)
  BY <1>1, <1>5
<1>8. /\ Digit(m, i) = M(i) % 10 /\ Digit(n, i) = N(i) % 10
      /\ M(i) = 10 * (M(i) \div 10) + (M(i) % 10)
      /\ N(i) = 10 * (N(i) \div 10) + (N(i) % 10)
  <2>1. M(i) \in Nat /\ N(i) \in Nat
    BY <1>3, <1>6
  <2>2. QED
    BY <2>1, Remainder DEF Digit
<1>9. M(i) \div 10 = N(i) \div 10
  <2>1. CASE i = 1
    <3>1. TenTo[Width] = 10 * TenTo[Width - 1]
      <4>1. Width - 1 \in Nat /\ (Width - 1) + 1 = Width
        BY <1>1, <1>2
      <4>2. QED
        BY <4>1, TenToType
    <3>2. M(i) <= 9 /\ N(i) <= 9 /\ M(i) \in Nat /\ N(i) \in Nat
      BY <1>1, <1>3, <1>6, <2>1, <3>1, Division
    <3> HIDE DEF M, N
    <3>3. QED
      BY <3>2
  <2>2. CASE i # 1
    <3>1. i - 1 \in 1 .. i - 1 /\ i - 1 \in 1 .. Width /\ Width - (i - 1) = (Width - i) + 1
      BY <1>1, <1>6, <2>2
    <3>2. TenTo[Width - (i - 1)] = 10 * TenTo[Width - i]
      BY <1>3, <1>6, <3>1, TenToType
    <3>3. M(i - 1) = M(i) \div 10 /\ N(i - 1) = N(i) \div 10
      <4> DEFINE d == TenTo[Width - i]
      <4>1. d \in Nat \ {0} /\ TenTo[Width - (i - 1)] = 10 * d
        BY <1>3, <1>6, <3>2
      <4> HIDE DEF d
      <4>2. \A k \in Nat : k \div (10 * d) = (k \div d) \div 10
        BY <4>1, Division
      <4>3. QED
        BY <1>1, <4>1, <4>2 DEF d
    <3>4. QED
      BY <1>7, <3>1, <3>3
  <2>3. QED
    BY <2>1, <2>2
<1>10. Digit(m, i) < Digit(n, i)
  <2>1. M(i) \in Nat /\ N(i) \in Nat /\ M(i) % 10 \in Int /\ N(i) % 10 \in Int
        /\ M(i) \div 10 \in Int
    BY <1>3, <1>6
  <2> HIDE DEF M, N
  <2>2. QED
    BY <1>6, <1>8, <1>9, <2>1
<1>11. \A j \in 1 .. i - 1 : Digit(m, j) = Digit(n, j)
  BY <1>7 DEF Digit
<1>12. QED
  BY <1>6, <1>10, <1>11

LEMMA RankOfDigit == \A a \in 0 .. 9 : Rank(Digits[a + 1]) = a + 1
<1> SUFFICES ASSUME NEW a \in 0 .. 9 PROVE Rank(Digits[a + 1]) = a + 1
  OBVIOUS
<1>1. DOMAIN Digits = 1 .. 10 /\ a + 1 \in 1 .. 10
  BY DEF Digits
<1>2. \A i, j \in 1 .. 10 : Digits[i] = Digits[j] => i = j
  BY DEF Digits
<1> HIDE DEF Digits
<1>3. QED
  BY <1>1, <1>2 DEF Rank

LEMMA PaddedUnique ==
    ASSUME NEW m \in Numbers, NEW n \in Numbers, Padded(m) = Padded(n)
    PROVE  m = n
<1>1. ASSUME NEW a \in Numbers, NEW b \in Numbers, a < b PROVE Padded(a) # Padded(b)
  <2>1. PICK i \in 1 .. Width : Digit(a, i) < Digit(b, i)
    BY <1>1, PaddedOrder
  <2>2. a \in Nat /\ b \in Nat
    BY NumbersType
  <2>3. /\ Digit(a, i) \in 0 .. 9 /\ Padded(a)[i] = Digits[Digit(a, i) + 1]
        /\ Digit(b, i) \in 0 .. 9 /\ Padded(b)[i] = Digits[Digit(b, i) + 1]
    BY <2>2, PaddedType
  <2>4. Rank(Padded(a)[i]) = Digit(a, i) + 1 /\ Rank(Padded(b)[i]) = Digit(b, i) + 1
    BY <2>3, RankOfDigit
  <2>5. Rank(Padded(a)[i]) # Rank(Padded(b)[i])
    <3> HIDE DEF Digit
    <3>1. QED
      BY <2>1, <2>3, <2>4
  <2>6. QED
    BY <2>5
<1>2. m \in Nat /\ n \in Nat
  BY NumbersType
<1>3. QED
  BY <1>1, <1>2

------------------------------------------------------------------------------
(* Ids *)

LEMMA AcceptedType ==
    ASSUME NEW id \in Accepted
    PROVE  /\ id \in String
           /\ Len(id) \in Nat \ {0}
           /\ \A i \in 1 .. Len(id) - 1 : ~(id[i] = "|" /\ id[i + 1] = "|")
           /\ id[Len(id)] # "|"
<1>1. id \in String /\ ValidId(id) /\ id[Len(id)] # "|"
  BY KeysAssumption DEF Accepted, IsSafe, String
<1>2. QED
  BY <1>1, EmptySeq DEF ValidId, String

(* A separator ends an accepted id, and there is none before it. *)
LEMMA NoShorterId ==
    ASSUME NEW s \in Accepted, NEW t \in Accepted,
           NEW x \in String, NEW y \in String,
           s \o (KEY_SEP \o x) = t \o (KEY_SEP \o y)
    PROVE  Len(s) >= Len(t)
<1> DEFINE u == KEY_SEP \o x
           v == KEY_SEP \o y
<1>1. s \in String /\ t \in String /\ Len(s) \in Nat /\ Len(t) \in Nat
  BY AcceptedType
<1>2. SUFFICES ASSUME Len(s) < Len(t) PROVE FALSE
  BY <1>1
<1>3. /\ u \in String /\ v \in String /\ Len(u) \in Nat /\ 2 <= Len(u)
      /\ u[1] = "|" /\ u[2] = "|"
  <2>1. KEY_SEP \in String
    BY SepType
  <2>2. /\ Len(x) \in Nat /\ u \in String /\ Len(u) = Len(KEY_SEP) + Len(x)
        /\ \A i \in 1 .. Len(KEY_SEP) : u[i] = KEY_SEP[i]
    BY <2>1, Concat
  <2>3. v \in String
    BY <2>1, Concat
  <2>4. Len(u) \in Nat /\ 2 <= Len(u)
    BY <2>2, SepType
  <2>5. u[1] = "|" /\ u[2] = "|"
    BY <2>2, SepType
  <2>6. QED
    BY <2>2, <2>3, <2>4, <2>5
<1> HIDE DEF u, v
<1>4. s \o u = t \o v
  BY DEF u, v
<1>5. (s \o u)[Len(s) + 1] = "|" /\ (s \o u)[Len(s) + 2] = "|"
  <2>1. \A i \in 1 .. Len(u) : (s \o u)[Len(s) + i] = u[i]
    BY <1>1, <1>3, Concat
  <2>2. 1 \in 1 .. Len(u) /\ 2 \in 1 .. Len(u)
    BY <1>3
  <2>3. QED
    BY <1>3, <2>1, <2>2
<1>6. \A i \in 1 .. Len(t) : (t \o v)[i] = t[i]
  BY <1>1, <1>3, Concat
<1>7. Len(s) + 1 \in 1 .. Len(t)
  BY <1>1, <1>2
<1>8. t[Len(s) + 1] = "|"
  BY <1>4, <1>5, <1>6, <1>7
<1>9. CASE Len(t) = Len(s) + 1
  BY <1>8, <1>9, AcceptedType
<1>10. CASE Len(t) # Len(s) + 1
  <2>1. /\ Len(s) + 2 \in 1 .. Len(t) /\ Len(s) + 1 \in 1 .. Len(t) - 1
        /\ (Len(s) + 1) + 1 = Len(s) + 2
    BY <1>1, <1>2, <1>10
  <2>2. t[Len(s) + 2] = "|"
    BY <1>4, <1>5, <1>6, <2>1
  <2>3. QED
    BY <1>8, <2>1, <2>2, AcceptedType
<1>11. QED
  BY <1>9, <1>10

LEMMA FirstIdUnique ==
    ASSUME NEW s \in Accepted, NEW t \in Accepted,
           NEW x \in String, NEW y \in String,
           s \o (KEY_SEP \o x) = t \o (KEY_SEP \o y)
    PROVE  s = t /\ x = y
<1>1. s \in String /\ t \in String /\ Len(s) \in Nat /\ Len(t) \in Nat
  BY AcceptedType
<1>2. Len(s) >= Len(t)
  BY NoShorterId
<1>3. Len(t) >= Len(s)
  BY NoShorterId
<1>4. Len(s) = Len(t)
  BY <1>1, <1>2, <1>3
<1>5. KEY_SEP \o x \in String /\ KEY_SEP \o y \in String
  BY SepType, Concat
<1>6. s = t
  <2>1. \A i \in 1 .. Len(s) : (s \o (KEY_SEP \o x))[i] = s[i]
    BY <1>1, <1>5, Concat
  <2>2. \A i \in 1 .. Len(t) : (t \o (KEY_SEP \o y))[i] = t[i]
    BY <1>1, <1>5, Concat
  <2>3. QED
    BY <1>1, <1>4, <2>1, <2>2, SameString
<1>7. KEY_SEP \o x = KEY_SEP \o y
  BY <1>1, <1>5, <1>6, CancelLeft
<1>8. QED
  BY <1>6, <1>7, SepType, CancelLeft

------------------------------------------------------------------------------
(* Keys *)

LEMMA KindInString ==
    ASSUME NEW kind \in Kinds
    PROVE  <<kind>> \in String /\ Len(<<kind>>) = 1 /\ <<kind>>[1] = kind
<1>1. kind \in Symbol
  BY KeysAssumption
<1>2. QED
  BY <1>1, PairType DEF String

(* Concatenation as an operator of which the provers know these facts only. *)
Cat(s, t) == s \o t

LEMMA CatType == \A s, t \in String : Cat(s, t) \in String
  BY Concat DEF Cat

LEMMA CatAssoc == \A s, t, u \in String : Cat(Cat(s, t), u) = Cat(s, Cat(t, u))
  BY ConcatAssociative DEF Cat, String

LEMMA CatCancel == \A s, t, u \in String : Cat(s, t) = Cat(s, u) => t = u
  BY CancelLeft DEF Cat

LEMMA CatFirstId ==
    \A s, t \in Accepted, x, y \in String :
        Cat(s, Cat(KEY_SEP, x)) = Cat(t, Cat(KEY_SEP, y)) => s = t /\ x = y
  BY FirstIdUnique DEF Cat

LEMMA CatFirst ==
    ASSUME NEW kind \in Kinds, NEW x \in String
    PROVE  Cat(<<kind>>, x)[1] = kind
<1>1. \A i \in 1 .. 1 : (<<kind>> \o x)[i] = <<kind>>[i]
  BY KindInString, Concat
<1>2. QED
  BY <1>1, KindInString DEF Cat

(* What follows the two ids of a key, and what follows the first. *)
Rest(kind, x) == Cat(<<kind>>, x)

AfterTenant(agent, kind, x) == Cat(agent, Cat(KEY_SEP, Rest(kind, x)))

LEMMA KeyShape ==
    ASSUME NEW tenant \in String, NEW agent \in String, NEW kind \in Kinds,
           NEW x \in String
    PROVE  /\ Rest(kind, x) \in String
           /\ AfterTenant(agent, kind, x) \in String
           /\ KindKey(tenant, agent, kind) \in String
           /\ Cat(KindKey(tenant, agent, kind), x) =
                 Cat(tenant, Cat(KEY_SEP, AfterTenant(agent, kind, x)))
<1> DEFINE prefix == Cat(Cat(Cat(tenant, KEY_SEP), agent), KEY_SEP)
<1>1. KEY_SEP \in String /\ <<kind>> \in String
  BY SepType, KindInString
<1>2. Rest(kind, x) \in String /\ AfterTenant(agent, kind, x) \in String
  BY <1>1, CatType DEF Rest, AfterTenant
<1>3. /\ Cat(tenant, KEY_SEP) \in String
      /\ Cat(Cat(tenant, KEY_SEP), agent) \in String
      /\ prefix \in String
      /\ Cat(prefix, <<kind>>) \in String
  BY <1>1, CatType
<1>4. Cat(Cat(prefix, <<kind>>), x) =
         Cat(tenant, Cat(KEY_SEP, AfterTenant(agent, kind, x)))
  <2>1. Cat(Cat(prefix, <<kind>>), x) = Cat(prefix, Rest(kind, x))
    BY <1>1, <1>3, CatAssoc DEF Rest
  <2>2. Cat(prefix, Rest(kind, x)) =
           Cat(Cat(Cat(tenant, KEY_SEP), agent), Cat(KEY_SEP, Rest(kind, x)))
    BY <1>1, <1>2, <1>3, CatAssoc
  <2>3. Cat(KEY_SEP, Rest(kind, x)) \in String
    BY <1>1, <1>2, CatType
  <2>4. Cat(Cat(Cat(tenant, KEY_SEP), agent), Cat(KEY_SEP, Rest(kind, x))) =
           Cat(Cat(tenant, KEY_SEP), AfterTenant(agent, kind, x))
    BY <1>3, <2>3, CatAssoc DEF AfterTenant
  <2>5. Cat(Cat(tenant, KEY_SEP), AfterTenant(agent, kind, x)) =
           Cat(tenant, Cat(KEY_SEP, AfterTenant(agent, kind, x)))
    BY <1>1, <1>2, CatAssoc
  <2>6. QED
    BY <2>1, <2>2, <2>4, <2>5
<1>5. KindKey(tenant, agent, kind) = Cat(prefix, <<kind>>)
  BY DEF KindKey, Cat
<1>6. QED
  BY <1>2, <1>3, <1>4, <1>5

(* A key tells its tenant, its agent and its kind. *)
LEMMA KindKeyUnique ==
    ASSUME NEW t1 \in Accepted, NEW a1 \in Accepted, NEW k1 \in Kinds, NEW x1 \in String,
           NEW t2 \in Accepted, NEW a2 \in Accepted, NEW k2 \in Kinds, NEW x2 \in String,
           Cat(KindKey(t1, a1, k1), x1) = Cat(KindKey(t2, a2, k2), x2)
    PROVE  t1 = t2 /\ a1 = a2 /\ k1 = k2 /\ x1 = x2
<1>1. t1 \in String /\ a1 \in String /\ t2 \in String /\ a2 \in String
  BY AcceptedType
<1>2. /\ Rest(k1, x1) \in String /\ AfterTenant(a1, k1, x1) \in String
      /\ Rest(k2, x2) \in String /\ AfterTenant(a2, k2, x2) \in String
      /\ Cat(t1, Cat(KEY_SEP, AfterTenant(a1, k1, x1))) =
            Cat(t2, Cat(KEY_SEP, AfterTenant(a2, k2, x2)))
  BY <1>1, KeyShape
<1>3. t1 = t2 /\ AfterTenant(a1, k1, x1) = AfterTenant(a2, k2, x2)
  BY <1>2, CatFirstId
<1>4. a1 = a2 /\ Rest(k1, x1) = Rest(k2, x2)
  BY <1>2, <1>3, CatFirstId DEF AfterTenant
<1>5. k1 = k2
  <2>1. Rest(k1, x1)[1] = k1 /\ Rest(k2, x2)[1] = k2
    BY CatFirst DEF Rest
  <2>2. QED
    BY <1>4, <2>1
<1>6. x1 = x2
  BY <1>4, <1>5, KindInString, CatCancel DEF Rest
<1>7. QED
  BY <1>3, <1>4, <1>5, <1>6

LEMMA SuffixType ==
    ASSUME NEW r \in Record
    PROVE  /\ r.tenant \in Ids /\ r.agent \in Ids /\ r.kind \in Kinds
           /\ Suffix(r) \in String
<1>1. r.tenant \in Ids /\ r.agent \in Ids /\ r.kind \in Kinds
  BY DEF Record, Kinds
<1>2. CASE r.kind \in Singletons
  <2>1. <<>> \in String
    BY EmptySeq DEF String
  <2>2. QED
    BY <1>1, <1>2, <2>1 DEF Suffix
<1>3. CASE r.kind \notin Singletons
  <2>1. r.number \in Numbers
    BY <1>3 DEF Record
  <2>2. Padded(r.number) \in String
    BY <2>1, NumbersType, PaddedType
  <2>3. KEY_SEP \o Padded(r.number) \in String
    BY <2>2, SepType, CatType DEF Cat
  <2>4. QED
    BY <1>1, <1>3, <2>3 DEF Suffix
<1>4. QED
  BY <1>1, <1>2, <1>3

LEMMA KeyUnique ==
    ASSUME NEW p \in Record, NEW q \in Record,
           p.tenant \in Accepted, p.agent \in Accepted,
           q.tenant \in Accepted, q.agent \in Accepted,
           Key(p) = Key(q)
    PROVE  p = q
<1>1. /\ p.tenant = q.tenant /\ p.agent = q.agent /\ p.kind = q.kind
      /\ Suffix(p) = Suffix(q)
  <2>1. Cat(KindKey(p.tenant, p.agent, p.kind), Suffix(p)) =
           Cat(KindKey(q.tenant, q.agent, q.kind), Suffix(q))
    BY DEF Key, Cat
  <2>2. p.kind \in Kinds /\ Suffix(p) \in String /\ q.kind \in Kinds /\ Suffix(q) \in String
    BY SuffixType
  <2>3. QED
    BY <2>1, <2>2, KindKeyUnique
<1>2. p.number = q.number
  <2>1. CASE p.kind \in Singletons
    BY <1>1, <2>1 DEF Record
  <2>2. CASE p.kind \notin Singletons
    <3>1. p.number \in Numbers /\ q.number \in Numbers
      BY <1>1, <2>2 DEF Record
    <3>2. KEY_SEP \o Padded(p.number) = KEY_SEP \o Padded(q.number)
      BY <1>1, <2>2 DEF Suffix
    <3>3. Padded(p.number) \in String /\ Padded(q.number) \in String
      BY <3>1, NumbersType, PaddedType
    <3>4. Padded(p.number) = Padded(q.number)
      BY <3>2, <3>3, SepType, CancelLeft
    <3>5. QED
      BY <3>1, <3>4, PaddedUnique
  <2>3. QED
    BY <2>1, <2>2
<1>3. QED
  BY <1>1, <1>2 DEF Record

------------------------------------------------------------------------------
(* Theorems *)

LEMMA InitStep == Init => TypeOK
  BY DEF Init, TypeOK

LEMMA NextStep == TypeOK /\ [Next]_store => TypeOK'
<1> SUFFICES ASSUME TypeOK, [Next]_store PROVE TypeOK'
  OBVIOUS
<1>1. CASE UNCHANGED store
  BY <1>1 DEF TypeOK
<1>2. CASE Next
  <2>1. PICK r \in Record : Put(r)
    BY <1>2 DEF Next
  <2>2. ASSUME NEW k \in DOMAIN store'
        PROVE  /\ store'[k] \in Record
               /\ k = Key(store'[k])
    <3>1. CASE k = Key(r)
      BY <2>1, <2>2, <3>1 DEF Put
    <3>2. CASE k # Key(r)
      <4>1. k \in DOMAIN store /\ store'[k] = store[k]
        BY <2>1, <2>2, <3>2 DEF Put
      <4>2. QED
        BY <4>1 DEF TypeOK
    <3>3. QED
      BY <3>1, <3>2
  <2>3. QED
    BY <2>2 DEF TypeOK
<1>3. QED
  BY <1>1, <1>2

(* What is in the store is a record under its own key. *)
LEMMA TypeCorrect == Spec => []TypeOK
  BY InitStep, NextStep, PTL DEF Spec

LEMMA ValidRecord ==
    ASSUME NEW r \in Record
    PROVE  HasSafeIds(r) <=> r.tenant \in Accepted /\ r.agent \in Accepted
  BY SuffixType DEF HasSafeIds, Accepted

LEMMA StoredType ==
    ASSUME TypeOK, NEW k \in DOMAIN store, HasSafeIds(store[k])
    PROVE  /\ store[k] \in Record
           /\ k = Key(store[k])
           /\ store[k].tenant \in Accepted /\ store[k].agent \in Accepted
  BY ValidRecord DEF TypeOK

(* For ids without a trailing bar, no put of a record of such ids replaces *)
(* another such record: the builders of lib.rs:77-100 give two of them two *)
(* keys, whatever else is in the store.                                    *)
THEOREM NoneReplacedHolds ==
    Spec => NoneReplaced
<1> DEFINE Kept == \A k \in DOMAIN store :
                      HasSafeIds(store[k]) /\ HasSafeIds(store'[k]) =>
                          store'[k] = store[k]
<1>1. ASSUME TypeOK, TypeOK', [Next]_store PROVE [Kept]_store
  <2>1. CASE UNCHANGED store
    BY <2>1
  <2>2. CASE Next
    <3>1. PICK r \in Record : Put(r)
      BY <2>2 DEF Next
    <3>2. ASSUME NEW k \in DOMAIN store, HasSafeIds(store[k]), HasSafeIds(store'[k])
          PROVE  store'[k] = store[k]
      <4>1. CASE k = Key(r)
        <5>1. store'[k] = r
          BY <3>1, <4>1 DEF Put
        <5>2. /\ store[k] \in Record /\ Key(store[k]) = Key(r)
              /\ store[k].tenant \in Accepted /\ store[k].agent \in Accepted
          BY <1>1, <3>2, <4>1, StoredType
        <5>3. r.tenant \in Accepted /\ r.agent \in Accepted
          BY <3>2, <5>1, ValidRecord
        <5>4. QED
          BY <5>1, <5>2, <5>3, KeyUnique
      <4>2. CASE k # Key(r)
        BY <3>1, <3>2, <4>2 DEF Put
      <4>3. QED
        BY <4>1, <4>2
    <3>3. QED
      BY <3>2
  <2>3. QED
    BY <1>1, <2>1, <2>2
<1>2. QED
  BY <1>1, InitStep, NextStep, PTL DEF Spec, NoneReplaced

LEMMA PrefixSplits ==
    ASSUME NEW p \in String, NEW k \in String,
           Len(p) <= Len(k), SubSeq(k, 1, Len(p)) = p
    PROVE  \E x \in String : k = Cat(p, x)
<1> DEFINE x == SubSeq(k, Len(p) + 1, Len(k))
<1>1. Len(p) \in Nat /\ Len(k) \in Nat
  BY LenProperties DEF String
<1>2. \A i \in 1 .. Len(k) : k[i] \in Symbol
  BY ElementOfSeq DEF String
<1>3. x \in String
  BY <1>1, <1>2, SubSeqProperties DEF String
<1>4. SubSeq(k, 1, Len(p)) \o x = SubSeq(k, 1, Len(k))
  <2>1. 1 \in 1 .. Len(k) + 1 /\ Len(p) \in 1 - 1 .. Len(k) /\ Len(k) \in Len(p) .. Len(k)
    BY <1>1
  <2>2. QED
    BY <2>1, ConcatAdjacentSubSeq DEF String
<1>5. SubSeq(k, 1, Len(k)) = k
  BY SubSeqFull DEF String
<1>6. QED
  BY <1>3, <1>4, <1>5 DEF Cat

LEMMA PrefixOfCat ==
    ASSUME NEW p \in String, NEW x \in String
    PROVE  Len(p) <= Len(Cat(p, x)) /\ SubSeq(Cat(p, x), 1, Len(p)) = p
<1>1. /\ Len(p) \in Nat /\ Len(x) \in Nat /\ Cat(p, x) \in String
      /\ Len(Cat(p, x)) = Len(p) + Len(x)
      /\ \A i \in 1 .. Len(p) : Cat(p, x)[i] = p[i]
  BY Concat DEF Cat
<1>2. \A i \in 1 .. Len(p) : Cat(p, x)[i] \in Symbol
  BY <1>1, ElementOfSeq DEF String
<1>3. /\ SubSeq(Cat(p, x), 1, Len(p)) \in String
      /\ Len(SubSeq(Cat(p, x), 1, Len(p))) = IF 1 <= Len(p) THEN Len(p) - 1 + 1 ELSE 0
      /\ \A i \in 1 .. Len(p) - 1 + 1 :
            SubSeq(Cat(p, x), 1, Len(p))[i] = Cat(p, x)[1 + i - 1]
  BY <1>1, <1>2, SubSeqProperties DEF String
<1>4. Len(SubSeq(Cat(p, x), 1, Len(p))) = Len(p)
  BY <1>1, <1>3
<1>5. ASSUME NEW i \in 1 .. Len(p) PROVE SubSeq(Cat(p, x), 1, Len(p))[i] = p[i]
  <2>1. i \in 1 .. Len(p) - 1 + 1 /\ 1 + i - 1 = i
    BY <1>1
  <2>2. QED
    BY <1>1, <1>3, <2>1
<1>6. SubSeq(Cat(p, x), 1, Len(p)) = p
  <2> DEFINE q == SubSeq(Cat(p, x), 1, Len(p))
  <2>1. q \in String /\ Len(q) = Len(p) /\ \A i \in 1 .. Len(q) : q[i] = p[i]
    BY <1>3, <1>4, <1>5
  <2> HIDE DEF q
  <2>2. q = p
    BY <2>1, SameString
  <2>3. QED
    BY <2>2 DEF q
<1>7. QED
  BY <1>1, <1>6

(* What a scan for an agent's checkpoints looks for. *)
CheckpointPrefix(tenant, agent) == Cat(KindKey(tenant, agent, "checkpoint"), KEY_SEP)

LEMMA CheckpointPrefixType ==
    ASSUME NEW tenant \in Accepted, NEW agent \in Accepted
    PROVE  /\ KindKey(tenant, agent, "checkpoint") \in String
           /\ CheckpointPrefix(tenant, agent) \in String
<1>1. "checkpoint" \in Kinds /\ tenant \in String /\ agent \in String
  BY AcceptedType DEF Kinds
<1>2. KindKey(tenant, agent, "checkpoint") \in String
  BY <1>1, KeyShape
<1>3. QED
  BY <1>2, SepType, CatType DEF CheckpointPrefix

LEMMA CheckpointKey ==
    ASSUME TypeOK, NEW k \in DOMAIN store, HasSafeIds(store[k]),
           store[k].kind = "checkpoint"
    PROVE  /\ store[k].number \in Numbers
           /\ Padded(store[k].number) \in String
           /\ k = Cat(CheckpointPrefix(store[k].tenant, store[k].agent),
                      Padded(store[k].number))
<1> DEFINE r == store[k]
           kk == KindKey(r.tenant, r.agent, "checkpoint")
<1>1. "checkpoint" \notin Singletons
  BY DEF Singletons
<1>2. r \in Record /\ k = Key(r) /\ r.tenant \in Accepted /\ r.agent \in Accepted
  BY StoredType
<1>3. r.number \in Numbers
  BY <1>1, <1>2 DEF Record
<1>4. Padded(r.number) \in String
  BY <1>3, NumbersType, PaddedType
<1>5. k = Cat(kk, Cat(KEY_SEP, Padded(r.number)))
  BY <1>1, <1>2 DEF Key, Suffix, Cat
<1>6. kk \in String
  BY <1>2, CheckpointPrefixType
<1>7. k = Cat(Cat(kk, KEY_SEP), Padded(r.number))
  BY <1>4, <1>5, <1>6, SepType, CatAssoc
<1>8. QED
  BY <1>3, <1>4, <1>7 DEF CheckpointPrefix

LEMMA ScanFindsCheckpoints ==
    ASSUME TypeOK, NEW tenant \in Accepted, NEW agent \in Accepted,
           NEW k \in DOMAIN store, HasSafeIds(store[k])
    PROVE  k \in CheckpointsOf(tenant, agent) <=>
             /\ store[k].tenant = tenant
             /\ store[k].agent = agent
             /\ store[k].kind = "checkpoint"
<1> DEFINE kk == KindKey(tenant, agent, "checkpoint")
           prefix == CheckpointPrefix(tenant, agent)
           r == store[k]
<1>1. kk \in String /\ prefix \in String /\ KEY_SEP \in String
  BY CheckpointPrefixType, SepType
<1>2. /\ r.tenant \in Accepted /\ r.agent \in Accepted
      /\ r.kind \in Kinds /\ Suffix(r) \in String
      /\ k = Cat(KindKey(r.tenant, r.agent, r.kind), Suffix(r))
  <2>1. r \in Record /\ k = Key(r) /\ r.tenant \in Accepted /\ r.agent \in Accepted
    BY StoredType
  <2>2. r.kind \in Kinds /\ Suffix(r) \in String
    BY <2>1, SuffixType
  <2>3. QED
    BY <2>1, <2>2 DEF Key, Cat
<1>3. k \in String
  <2>1. r.tenant \in String /\ r.agent \in String
    BY <1>2, AcceptedType
  <2>2. KindKey(r.tenant, r.agent, r.kind) \in String
    BY <1>2, <2>1, KeyShape
  <2>3. QED
    BY <1>2, <2>2, CatType
<1>4. k \in CheckpointsOf(tenant, agent) <=>
         Len(prefix) <= Len(k) /\ SubSeq(k, 1, Len(prefix)) = prefix
  BY DEF CheckpointsOf, Scan, CheckpointPrefix, Cat
<1>5. ASSUME k \in CheckpointsOf(tenant, agent)
      PROVE  r.tenant = tenant /\ r.agent = agent /\ r.kind = "checkpoint"
  <2>1. PICK x \in String : k = Cat(prefix, x)
    BY <1>1, <1>3, <1>4, <1>5, PrefixSplits
  <2>2. k = Cat(kk, Cat(KEY_SEP, x)) /\ Cat(KEY_SEP, x) \in String
    BY <1>1, <2>1, CatAssoc, CatType DEF CheckpointPrefix
  <2>3. "checkpoint" \in Kinds
    BY DEF Kinds
  <2>4. QED
    BY <1>2, <2>2, <2>3, KindKeyUnique
<1>6. ASSUME r.tenant = tenant, r.agent = agent, r.kind = "checkpoint"
      PROVE  k \in CheckpointsOf(tenant, agent)
  <2>1. Padded(r.number) \in String /\ k = Cat(prefix, Padded(r.number))
    BY <1>6, CheckpointKey
  <2>2. QED
    BY <1>1, <1>4, <2>1, PrefixOfCat
<1>7. QED
  BY <1>5, <1>6

(* For such ids, the scan by prefix for an agent's checkpoints finds those *)
(* and no other record of such ids (hydrate.rs:160).                       *)
THEOREM ScanIsExactHolds ==
    Spec => []ScanIsExact
<1>1. ASSUME TypeOK PROVE ScanIsExact
  <2> SUFFICES ASSUME NEW tenant \in Accepted, NEW agent \in Accepted,
                      NEW k \in DOMAIN store
               PROVE  k \in CheckpointsOf(tenant, agent) /\ HasSafeIds(store[k]) <=>
                        /\ store[k].tenant = tenant
                        /\ store[k].agent = agent
                        /\ store[k].kind = "checkpoint"
    BY DEF ScanIsExact, CheckpointsOf, Scan, Accepted
  <2>1. CASE HasSafeIds(store[k])
    BY <1>1, <2>1, ScanFindsCheckpoints
  <2>2. CASE ~HasSafeIds(store[k])
    BY <2>2 DEF HasSafeIds, Accepted
  <2>3. QED
    BY <2>1, <2>2
<1>2. QED
  BY <1>1, TypeCorrect, PTL

------------------------------------------------------------------------------
(* Order *)

NumberedKey(p, n) == Cat(p, Padded(n))

LEMMA NumberedKeyType ==
    ASSUME NEW p \in String, NEW n \in Numbers
    PROVE  /\ NumberedKey(p, n) \in String
           /\ Len(p) \in Nat /\ Width \in Nat
           /\ Len(NumberedKey(p, n)) = Len(p) + Width
           /\ \A j \in 1 .. Len(p) : NumberedKey(p, n)[j] = p[j]
           /\ \A i \in 1 .. Width : NumberedKey(p, n)[Len(p) + i] = Padded(n)[i]
<1>1. Padded(n) \in String /\ Len(Padded(n)) = Width
  BY NumbersType, PaddedType
<1>2. QED
  BY <1>1, Concat, KeysAssumption DEF NumberedKey, Cat

(* Two numbered keys part at a place where the smaller number's symbol has *)
(* the lower rank.                                                         *)
LEMMA KeysPart ==
    ASSUME NEW p \in String, NEW m \in Numbers, NEW n \in Numbers, m < n
    PROVE  \E c \in 1 .. Len(p) + Width :
              /\ NumberedKey(p, m)[c] # NumberedKey(p, n)[c]
              /\ Rank(NumberedKey(p, m)[c]) \in Int
              /\ Rank(NumberedKey(p, n)[c]) \in Int
              /\ Rank(NumberedKey(p, m)[c]) < Rank(NumberedKey(p, n)[c])
              /\ \A j \in 1 .. c - 1 : NumberedKey(p, m)[j] = NumberedKey(p, n)[j]
<1> DEFINE k == NumberedKey(p, m)
           l == NumberedKey(p, n)
<1>1. PICK i \in 1 .. Width : /\ Digit(m, i) < Digit(n, i)
                              /\ \A j \in 1 .. i - 1 : Digit(m, j) = Digit(n, j)
  BY PaddedOrder
<1>2. /\ \A j \in 1 .. Width : /\ Digit(m, j) \in 0 .. 9
                               /\ Padded(m)[j] = Digits[Digit(m, j) + 1]
      /\ \A j \in 1 .. Width : /\ Digit(n, j) \in 0 .. 9
                               /\ Padded(n)[j] = Digits[Digit(n, j) + 1]
  BY NumbersType, PaddedType
<1>3. /\ Len(p) \in Nat /\ Width \in Nat
      /\ \A j \in 1 .. Len(p) : k[j] = p[j] /\ l[j] = p[j]
      /\ \A j \in 1 .. Width : /\ k[Len(p) + j] = Padded(m)[j]
                               /\ l[Len(p) + j] = Padded(n)[j]
  BY NumberedKeyType
<1> HIDE DEF Digit, k, l
<1> DEFINE c == Len(p) + i
<1>4. c \in 1 .. Len(p) + Width
  BY <1>3
<1>5. Rank(k[c]) = Digit(m, i) + 1 /\ Rank(l[c]) = Digit(n, i) + 1
  BY <1>2, <1>3, RankOfDigit
<1>6. Rank(k[c]) \in Int /\ Rank(l[c]) \in Int /\ Rank(k[c]) < Rank(l[c])
  BY <1>1, <1>2, <1>5
<1>7. ASSUME NEW j \in 1 .. c - 1 PROVE k[j] = l[j]
  <2>1. CASE j <= Len(p)
    BY <1>3, <2>1
  <2>2. CASE ~(j <= Len(p))
    <3> DEFINE h == j - Len(p)
    <3>1. h \in 1 .. i - 1 /\ h \in 1 .. Width /\ Len(p) + h = j
      BY <1>3, <2>2
    <3> HIDE DEF h
    <3>2. k[j] = Padded(m)[h] /\ l[j] = Padded(n)[h]
      BY <1>3, <3>1
    <3>3. QED
      BY <1>1, <1>2, <3>1, <3>2
  <2>3. QED
    BY <2>1, <2>2
<1>8. k[c] # l[c]
  BY <1>6
<1>9. QED
  BY <1>4, <1>6, <1>7, <1>8 DEF k, l

LEMMA SubSeqSame ==
    ASSUME NEW k \in String, NEW l \in String, Len(k) = Len(l), NEW c \in 1 .. Len(k)
    PROVE  SubSeq(k, 1, c - 1) = SubSeq(l, 1, c - 1) <=>
             \A j \in 1 .. c - 1 : k[j] = l[j]
<1>1. Len(k) \in Nat
  BY LenProperties DEF String
<1>2. ASSUME NEW s \in String, Len(s) = Len(k)
      PROVE  /\ SubSeq(s, 1, c - 1) \in String
             /\ Len(SubSeq(s, 1, c - 1)) = c - 1
             /\ \A j \in 1 .. c - 1 : SubSeq(s, 1, c - 1)[j] = s[j]
  <2>1. \A j \in 1 .. c - 1 : s[j] \in Symbol
    BY <1>1, <1>2, ElementOfSeq DEF String
  <2>2. c - 1 \in Int /\ 1 \in Int
    BY <1>1
  <2>3. /\ SubSeq(s, 1, c - 1) \in String
        /\ Len(SubSeq(s, 1, c - 1)) = IF 1 <= c - 1 THEN (c - 1) - 1 + 1 ELSE 0
        /\ \A j \in 1 .. (c - 1) - 1 + 1 : SubSeq(s, 1, c - 1)[j] = s[1 + j - 1]
    BY <2>1, <2>2, SubSeqProperties DEF String
  <2>4. Len(SubSeq(s, 1, c - 1)) = c - 1
    BY <1>1, <2>3
  <2>5. ASSUME NEW j \in 1 .. c - 1 PROVE SubSeq(s, 1, c - 1)[j] = s[j]
    <3>1. j \in 1 .. (c - 1) - 1 + 1 /\ 1 + j - 1 = j
      BY <1>1
    <3>2. QED
      BY <2>3, <3>1
  <2>6. QED
    BY <2>3, <2>4, <2>5
<1> DEFINE a == SubSeq(k, 1, c - 1)
           b == SubSeq(l, 1, c - 1)
<1>3. /\ a \in String /\ Len(a) = c - 1 /\ \A j \in 1 .. c - 1 : a[j] = k[j]
      /\ b \in String /\ Len(b) = c - 1 /\ \A j \in 1 .. c - 1 : b[j] = l[j]
  BY <1>2
<1> HIDE DEF a, b
<1>4. a = b => \A j \in 1 .. c - 1 : k[j] = l[j]
  BY <1>3
<1>5. ASSUME \A j \in 1 .. c - 1 : k[j] = l[j] PROVE a = b
  BY <1>3, <1>5, SameString
<1>6. QED
  BY <1>4, <1>5 DEF a, b

LEMMA NumberedOrder ==
    ASSUME NEW p \in String, NEW m \in Numbers, NEW n \in Numbers
    PROVE  SortsBefore(NumberedKey(p, m), NumberedKey(p, n)) <=> m < n
<1> DEFINE k == NumberedKey(p, m)
           l == NumberedKey(p, n)
           len == Len(p) + Width
           Parts(s, t, c) == /\ s[c] # t[c]
                             /\ Rank(s[c]) \in Int /\ Rank(t[c]) \in Int
                             /\ Rank(s[c]) < Rank(t[c])
                             /\ \A j \in 1 .. c - 1 : s[j] = t[j]
<1>1. /\ k \in String /\ Len(k) = len /\ l \in String /\ Len(l) = len /\ len \in Nat
      /\ DOMAIN k = 1 .. len /\ DOMAIN l = 1 .. len
  <2>1. k \in String /\ Len(k) = len /\ l \in String /\ Len(l) = len /\ len \in Nat
    BY NumberedKeyType
  <2>2. QED
    BY <2>1, LenProperties DEF String
<1>2. /\ m < n => \E c \in 1 .. len : Parts(k, l, c)
      /\ n < m => \E c \in 1 .. len : Parts(l, k, c)
  BY KeysPart
<1>3. m \in Nat /\ n \in Nat /\ (m = n => k = l)
  BY NumbersType
<1> HIDE DEF k, l, len
<1>4. ASSUME m < n PROVE SortsBefore(k, l)
  <2>1. PICK c \in 1 .. len : Parts(k, l, c)
    BY <1>2, <1>4
  <2>2. SubSeq(k, 1, c - 1) = SubSeq(l, 1, c - 1)
    BY <1>1, <2>1, SubSeqSame
  <2>3. QED
    BY <1>1, <2>1, <2>2 DEF SortsBefore
<1>5. ASSUME SortsBefore(k, l) PROVE m < n
  <2>1. PICK i \in 1 .. len : /\ SubSeq(k, 1, i - 1) = SubSeq(l, 1, i - 1)
                              /\ k[i] # l[i] /\ Rank(k[i]) < Rank(l[i])
    BY <1>1, <1>5 DEF SortsBefore
  <2>2. \A j \in 1 .. i - 1 : k[j] = l[j]
    BY <1>1, <2>1, SubSeqSame
  <2>3. ASSUME n < m PROVE FALSE
    <3>1. PICK c \in 1 .. len : Parts(l, k, c)
      BY <1>2, <2>3
    <3>2. ~(i < c) /\ ~(c < i)
      BY <1>1, <2>1, <2>2, <3>1
    <3>3. i = c
      BY <1>1, <3>2
    <3>4. QED
      BY <2>1, <3>1, <3>3
  <2>4. m # n
    BY <1>3, <2>1
  <2>5. QED
    BY <1>3, <2>3, <2>4
<1>6. QED
  BY <1>4, <1>5 DEF k, l

(* For such ids, the keys of an agent's checkpoints sort in the            *)
(* order of the sequence numbers, so that the last of a scan is the newest *)
(* (lib.rs:87-90, the test of lib.rs:117-124 for three of them): for a     *)
(* padded number of any width.                                             *)
THEOREM ScanIsInOrderHolds ==
    Spec => []ScanIsInOrder
<1>1. ASSUME TypeOK PROVE ScanIsInOrder
  <2> SUFFICES ASSUME NEW tenant \in Accepted, NEW agent \in Accepted,
                      NEW k \in CheckpointsOf(tenant, agent), HasSafeIds(store[k]),
                      NEW l \in CheckpointsOf(tenant, agent), HasSafeIds(store[l])
               PROVE  SortsBefore(k, l) <=> store[k].number < store[l].number
    BY DEF ScanIsInOrder, Accepted
  <2> DEFINE p == CheckpointPrefix(tenant, agent)
  <2>1. k \in DOMAIN store /\ l \in DOMAIN store
    BY DEF CheckpointsOf, Scan
  <2>2. ASSUME NEW key \in CheckpointsOf(tenant, agent), HasSafeIds(store[key])
        PROVE  /\ store[key].number \in Numbers
               /\ key = NumberedKey(p, store[key].number)
    <3>1. key \in DOMAIN store
      BY DEF CheckpointsOf, Scan
    <3>2. /\ store[key].tenant = tenant /\ store[key].agent = agent
          /\ store[key].kind = "checkpoint"
      BY <1>1, <2>2, <3>1, ScanFindsCheckpoints
    <3>3. QED
      BY <1>1, <2>2, <3>1, <3>2, CheckpointKey DEF NumberedKey
  <2>3. p \in String
    BY CheckpointPrefixType
  <2> HIDE DEF p
  <2>4. QED
    BY <2>2, <2>3, NumberedOrder
<1>2. QED
  BY <1>1, TypeCorrect, PTL

------------------------------------------------------------------------------
(* Namespaces *)

LEMMA NoShorterName ==
    ASSUME NEW s \in String, NEW u \in String, NEW t \in String, NEW v \in String,
           Len(u) # 0, u[1] = ":", \A i \in 1 .. Len(t) : t[i] # ":",
           Cat(s, u) = Cat(t, v)
    PROVE  Len(s) >= Len(t)
<1>1. Len(s) \in Nat /\ Len(t) \in Nat /\ Len(u) \in Nat
  BY Concat
<1>2. SUFFICES ASSUME Len(s) < Len(t) PROVE FALSE
  BY <1>1
<1>3. Cat(s, u)[Len(s) + 1] = ":"
  <2>1. \A i \in 1 .. Len(u) : Cat(s, u)[Len(s) + i] = u[i]
    BY Concat DEF Cat
  <2>2. 1 \in 1 .. Len(u)
    BY <1>1
  <2>3. QED
    BY <2>1, <2>2
<1>4. Len(s) + 1 \in 1 .. Len(t)
  BY <1>1, <1>2
<1>5. Cat(t, v)[Len(s) + 1] = t[Len(s) + 1]
  BY <1>4, Concat DEF Cat
<1>6. QED
  BY <1>3, <1>4, <1>5

(* A name without ":" ends at the first ":". *)
LEMMA NameUnique ==
    ASSUME NEW s \in String, NEW u \in String, NEW t \in String, NEW v \in String,
           Len(u) # 0, u[1] = ":", \A i \in 1 .. Len(s) : s[i] # ":",
           Len(v) # 0, v[1] = ":", \A i \in 1 .. Len(t) : t[i] # ":",
           Cat(s, u) = Cat(t, v)
    PROVE  s = t /\ u = v
<1>1. Len(s) \in Nat /\ Len(t) \in Nat
  BY Concat
<1>2. Len(s) = Len(t)
  <2>1. Len(s) >= Len(t)
    BY NoShorterName
  <2>2. Len(t) >= Len(s)
    BY NoShorterName
  <2>3. QED
    BY <1>1, <2>1, <2>2
<1>3. s = t
  <2>1. /\ \A i \in 1 .. Len(s) : Cat(s, u)[i] = s[i]
        /\ \A i \in 1 .. Len(t) : Cat(t, v)[i] = t[i]
    BY Concat DEF Cat
  <2>2. QED
    BY <1>2, <2>1, SameString
<1>4. QED
  BY <1>3, CatCancel

Colon == <<":">>

LabelPart(code) == <<":", sensitivity_label(code), ":">>

(* What follows the label of a rendered key. *)
AfterLabel(agent_type, digest) == Cat(agent_type, Cat(Colon, digest))

LEMMA CatIndex ==
    ASSUME NEW s \in String, NEW t \in String
    PROVE  /\ Cat(s, t) \in String /\ Len(t) \in Nat
           /\ Len(Cat(s, t)) = Len(s) + Len(t)
           /\ \A i \in 1 .. Len(s) : Cat(s, t)[i] = s[i]
  BY Concat DEF Cat

LEMMA ColonType ==
    ASSUME NEW x \in String
    PROVE  /\ Colon \in String /\ Cat(Colon, x) \in String
           /\ Len(Cat(Colon, x)) # 0 /\ Cat(Colon, x)[1] = ":"
<1>1. Colon \in String /\ Len(Colon) = 1 /\ Colon[1] = ":"
  BY NamespaceAssumption, PairType DEF Colon, String
<1>2. /\ Cat(Colon, x) \in String /\ Len(x) \in Nat
      /\ Len(Cat(Colon, x)) = Len(Colon) + Len(x)
      /\ \A i \in 1 .. Len(Colon) : Cat(Colon, x)[i] = Colon[i]
  BY <1>1, CatIndex
<1>3. QED
  BY <1>1, <1>2

LEMMA LabelType ==
    ASSUME NEW code \in Int, NEW x \in String
    PROVE  /\ LabelPart(code) \in String /\ Cat(LabelPart(code), x) \in String
           /\ Len(Cat(LabelPart(code), x)) # 0
           /\ Cat(LabelPart(code), x)[1] = ":"
           /\ Cat(LabelPart(code), x)[2] = sensitivity_label(code)
<1> DEFINE label == sensitivity_label(code)
<1>1. label \in Symbol /\ ":" \in Symbol
  BY NamespaceAssumption DEF sensitivity_label, Range
<1> HIDE DEF label
<1>2. /\ <<":", label, ":">> \in Seq(Symbol) /\ Len(<<":", label, ":">>) = 3
      /\ <<":", label, ":">>[1] = ":" /\ <<":", label, ":">>[2] = label
  BY <1>1
<1>3. /\ LabelPart(code) \in String /\ Len(LabelPart(code)) = 3
      /\ LabelPart(code)[1] = ":" /\ LabelPart(code)[2] = label
  BY <1>2 DEF LabelPart, String, label
<1> HIDE DEF LabelPart
<1>4. /\ Cat(LabelPart(code), x) \in String /\ Len(x) \in Nat
      /\ Len(Cat(LabelPart(code), x)) = Len(LabelPart(code)) + Len(x)
      /\ \A i \in 1 .. Len(LabelPart(code)) :
            Cat(LabelPart(code), x)[i] = LabelPart(code)[i]
  BY <1>3, CatIndex
<1>5. QED
  BY <1>3, <1>4 DEF label

LEMMA NamespaceShape ==
    ASSUME TypeOK, NEW key \in KvNamespaceKey
    PROVE  /\ key.tenant_id \in String /\ key.sensitivity \in Int
           /\ AfterLabel(key.agent_type, key.prefix_hash) \in String
           /\ namespace_key_to_prefix(key) =
                Cat(key.tenant_id, Cat(LabelPart(key.sensitivity),
                                       AfterLabel(key.agent_type, key.prefix_hash)))
<1> DEFINE t == key.tenant_id
           a == key.agent_type
           d == key.prefix_hash
           part == LabelPart(key.sensitivity)
<1>1. t \in Ids /\ a \in AgentTypes /\ key.sensitivity \in Int /\ d \in Digests
  <2>1. \A k \in DOMAIN store : store[k].tenant \in Ids
    BY SuffixType DEF TypeOK
  <2>2. QED
    BY <2>1, NamespaceAssumption DEF KvNamespaceKey, Tenants
<1>2. t \in String /\ a \in String /\ d \in String
  BY <1>1, KeysAssumption, NamespaceAssumption DEF String
<1>3. namespace_key_to_prefix(key) = Cat(Cat(Cat(Cat(t, part), a), Colon), d)
  BY DEF namespace_key_to_prefix, LabelPart, Colon, Cat
<1>4. part \in String /\ Colon \in String
  BY <1>1, <1>2, LabelType, ColonType
<1> HIDE DEF part
<1>5. /\ Cat(Colon, d) \in String /\ Cat(a, Cat(Colon, d)) \in String
      /\ Cat(t, part) \in String /\ Cat(Cat(t, part), a) \in String
  BY <1>2, <1>4, CatType
<1>6. Cat(Cat(Cat(Cat(t, part), a), Colon), d) =
         Cat(t, Cat(part, Cat(a, Cat(Colon, d))))
  <2>1. Cat(Cat(Cat(Cat(t, part), a), Colon), d) =
           Cat(Cat(Cat(t, part), a), Cat(Colon, d))
    BY <1>2, <1>4, <1>5, CatAssoc
  <2>2. Cat(Cat(Cat(t, part), a), Cat(Colon, d)) =
           Cat(Cat(t, part), Cat(a, Cat(Colon, d)))
    BY <1>2, <1>4, <1>5, CatAssoc
  <2>3. Cat(Cat(t, part), Cat(a, Cat(Colon, d))) =
           Cat(t, Cat(part, Cat(a, Cat(Colon, d))))
    BY <1>2, <1>4, <1>5, CatAssoc
  <2>4. QED
    BY <2>1, <2>2, <2>3
<1>7. QED
  BY <1>1, <1>2, <1>3, <1>5, <1>6 DEF AfterLabel, part

LEMMA PrefixExtends ==
    ASSUME NEW s \in String, NEW t \in String, IsPrefix(s, t)
    PROVE  \E x \in String : t = Cat(s, x)
<1>1. Len(s) <= Len(t) /\ SubSeq(t, 1, Len(s)) = s
  BY SubSeqFull DEF IsPrefix, String
<1>2. QED
  BY <1>1, PrefixSplits

(* The first ":" of a cache key ends the tenant, and the label is next,    *)
(* whatever comes after it.                                                *)
LEMMA SameTenantAndLevel ==
    ASSUME NEW s \in String, NEW c \in Int, NEW u \in String,
           NEW t \in String, NEW e \in Int, NEW v \in String,
           \A i \in 1 .. Len(s) : s[i] # ":", \A i \in 1 .. Len(t) : t[i] # ":",
           Cat(s, Cat(LabelPart(c), u)) = Cat(t, Cat(LabelPart(e), v))
    PROVE  s = t /\ sensitivity_label(c) = sensitivity_label(e)
<1> DEFINE x == Cat(LabelPart(c), u)
           y == Cat(LabelPart(e), v)
<1>1. /\ x \in String /\ Len(x) # 0 /\ x[1] = ":" /\ x[2] = sensitivity_label(c)
      /\ y \in String /\ Len(y) # 0 /\ y[1] = ":" /\ y[2] = sensitivity_label(e)
  BY LabelType
<1>2. Cat(s, x) = Cat(t, y)
  OBVIOUS
<1> HIDE DEF x, y
<1>3. s = t /\ x = y
  BY <1>1, <1>2, NameUnique
<1>4. QED
  BY <1>1, <1>3

(* No block of a tenant or of a level is served to another (namespace.rs:  *)
(* 13-14, 35-36), for any agent types, codes and digests, and any tenants  *)
(* without ":".                                                            *)
THEOREM TenantsAreApartHolds == Spec => []TenantsAreApart
<1>1. ASSUME TypeOK PROVE TenantsAreApart
  <2> SUFFICES ASSUME NEW k \in KvNamespaceKey, NEW l \in KvNamespaceKey,
                      HasNoColon(k.tenant_id), HasNoColon(l.tenant_id), MayServe(k, l)
               PROVE  /\ k.tenant_id = l.tenant_id
                      /\ sensitivity_label(k.sensitivity)
                            = sensitivity_label(l.sensitivity)
    BY DEF TenantsAreApart
  <2> DEFINE after(key) == AfterLabel(key.agent_type, key.prefix_hash)
             part(key) == LabelPart(key.sensitivity)
             p(key) == namespace_key_to_prefix(key)
  <2>1. ASSUME NEW key \in KvNamespaceKey
        PROVE  /\ key.tenant_id \in String /\ key.sensitivity \in Int
               /\ after(key) \in String
               /\ part(key) \in String /\ Cat(part(key), after(key)) \in String
               /\ p(key) = Cat(key.tenant_id, Cat(part(key), after(key)))
    BY <1>1, NamespaceShape, LabelType
  <2>2. /\ \A i \in 1 .. Len(k.tenant_id) : k.tenant_id[i] # ":"
        /\ \A i \in 1 .. Len(l.tenant_id) : l.tenant_id[i] # ":"
    <3>1. DOMAIN k.tenant_id = 1 .. Len(k.tenant_id) /\ DOMAIN l.tenant_id = 1 .. Len(l.tenant_id)
      BY <2>1, LenProperties DEF String
    <3>2. QED
      BY <3>1 DEF HasNoColon
  <2>3. p(k) \in String /\ p(l) \in String
    BY <2>1, CatType
  <2>4. PICK x \in String : p(l) = Cat(p(k), x)
    BY <2>3, PrefixExtends DEF MayServe
  <2>5. p(l) = Cat(k.tenant_id, Cat(part(k), Cat(after(k), x)))
    <3> HIDE DEF after, part
    <3>1. Cat(Cat(k.tenant_id, Cat(part(k), after(k))), x) =
             Cat(k.tenant_id, Cat(Cat(part(k), after(k)), x))
      BY <2>1, CatAssoc
    <3>2. Cat(Cat(part(k), after(k)), x) = Cat(part(k), Cat(after(k), x))
      BY <2>1, CatAssoc
    <3>3. QED
      BY <2>1, <2>4, <3>1, <3>2
  <2>6. Cat(after(k), x) \in String
    BY <2>1, CatType
  <2>7. Cat(k.tenant_id, Cat(part(k), Cat(after(k), x))) =
           Cat(l.tenant_id, Cat(part(l), after(l)))
    BY <2>1, <2>5
  <2>8. QED
    <3> HIDE DEF after
    <3>1. QED
      BY SMTT(30), <2>1, <2>2, <2>6, <2>7, SameTenantAndLevel
<1>2. QED
  BY <1>1, TypeCorrect, PTL
==============================================================================
