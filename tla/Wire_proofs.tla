----------------------------- MODULE Wire_proofs -----------------------------
(***************************************************************************)
(* Proofs about Wire, for every width of the encodings, every set of       *)
(* transactions and every way of another encoder to write one.             *)
(*                                                                         *)
(* The argument has four parts: the arithmetic of minimal encodings; that  *)
(* what is written is read again, and what is read in canonical form is    *)
(* written again; that the node finds the fields of an authorization where *)
(* the library put them; and an invariant of the programs and the strings. *)
(***************************************************************************)
EXTENDS Wire, WellFoundedInduction, SequenceTheorems, TLAPS

-----------------------------------------------------------------------------
(* Numbers and their lengths.                                              *)

LEMMA LessThanIsWellFounded ==
    \E R : IsWellFoundedOn(R, Nat) /\ \A x, y \in Nat : <<y, x>> \in R <=> y < x
<1>. DEFINE R == {p \in Nat \X Nat : p[1] < p[2]}
<1>1. R = OpToRel(<, Nat)
  BY DEF OpToRel
<1>2. IsWellFoundedOn(R, Nat)
  BY <1>1, NatLessThanWellFounded, Zenon
<1>3. \A x, y \in Nat : <<y, x>> \in R <=> y < x
  OBVIOUS
<1>. HIDE DEF R
<1>. QED
  BY <1>2, <1>3

LEMMA LeastNumber ==
    ASSUME NEW T \in SUBSET Nat, T # {}
    PROVE  \E x \in T : \A y \in T : x <= y
<1>1. PICK R : IsWellFoundedOn(R, Nat) /\ \A x, y \in Nat : <<y, x>> \in R <=> y < x
  BY LessThanIsWellFounded
<1>2. PICK x \in T : \A y \in T : ~ (<<y, x>> \in R)
  BY <1>1, WFMin
<1>3. \A y \in T : ~ (y < x)
  BY <1>1, <1>2
<1>. QED
  BY <1>3

\* Induction, as a property of sets of numbers.
LEMMA Induction ==
    ASSUME NEW G, 0 \in G, \A n \in Nat : n \in G => n + 1 \in G
    PROVE  Nat \subseteq G
<1>. DEFINE T == Nat \ G
<1>1. SUFFICES ASSUME T # {} PROVE FALSE
  OBVIOUS
<1>2. PICK x \in T : \A y \in T : x <= y
  <2>. T \in SUBSET Nat
    OBVIOUS
  <2>. HIDE DEF T
  <2>. QED
    BY <1>1, LeastNumber
<1>3. x \in Nat /\ x \notin G /\ x # 0
  OBVIOUS
<1>4. x - 1 \in Nat /\ x - 1 \in G
  BY <1>2, <1>3
<1>5. (x - 1) + 1 \in G
  BY <1>4
<1>. QED
  BY <1>3, <1>5

\* g is Power as far as n.
IsPowerTo(g, n) == \A l \in 0..n : g[l] = IF l = 0 THEN 1 ELSE Byte * g[l - 1]

LEMMA PowersAgree ==
    ASSUME NEW g, NEW h, NEW n \in Nat, NEW m \in Nat, IsPowerTo(g, n), IsPowerTo(h, m)
    PROVE  \A l \in Nat : l <= n /\ l <= m => g[l] = h[l]
<1>. DEFINE G == {l \in Nat : l <= n /\ l <= m => g[l] = h[l]}
<1>1. 0 \in G
  BY DEF IsPowerTo
<1>2. ASSUME NEW l \in Nat, l \in G PROVE l + 1 \in G
  <2>1. CASE ~(l + 1 <= n /\ l + 1 <= m)
    BY <2>1
  <2>2. CASE l + 1 <= n /\ l + 1 <= m
    <3>1. g[l + 1] = Byte * g[(l + 1) - 1] /\ h[l + 1] = Byte * h[(l + 1) - 1]
      BY <2>2 DEF IsPowerTo
    <3>2. g[l] = h[l] /\ (l + 1) - 1 = l
      BY <2>2, <1>2
    <3>. QED
      BY <3>1, <3>2
  <2>. QED
    BY <2>1, <2>2
<1>3. Nat \subseteq G
  <2>. HIDE DEF G
  <2>. QED
    BY <1>1, <1>2, Induction
<1>. QED
  BY <1>3

LEMMA PowersExist == \A n \in Nat : \E g : IsPowerTo(g, n)
<1>. DEFINE G == {n \in Nat : \E g : IsPowerTo(g, n)}
<1>1. 0 \in G
  <2>1. IsPowerTo([l \in 0..0 |-> 1], 0)
    BY DEF IsPowerTo
  <2>. QED
    BY <2>1
<1>2. ASSUME NEW n \in Nat, n \in G PROVE n + 1 \in G
  <2>1. PICK g : IsPowerTo(g, n)
    BY <1>2
  <2>2. PICK h : h = [l \in 0..(n + 1) |-> IF l = n + 1 THEN Byte * g[n] ELSE g[l]]
    OBVIOUS
  <2>3. ASSUME NEW l \in 0..(n + 1)
        PROVE  h[l] = IF l = 0 THEN 1 ELSE Byte * h[l - 1]
    <3>1. CASE l = n + 1
      <4>1. h[l] = Byte * g[n] /\ h[n] = g[n] /\ l - 1 = n
        BY <2>2, <3>1
      <4>. QED
        BY <4>1, <3>1
    <3>2. CASE l # n + 1
      <4>1. l \in 0..n /\ h[l] = g[l]
        BY <2>2, <3>2
      <4>2. l # 0 => h[l - 1] = g[l - 1]
        BY <2>2, <4>1
      <4>. QED
        BY <4>1, <4>2, <2>1 DEF IsPowerTo
    <3>. QED
      BY <3>1, <3>2
  <2>. QED
    BY <2>3 DEF IsPowerTo
<1>3. Nat \subseteq G
  <2>. HIDE DEF G
  <2>. QED
    BY <1>1, <1>2, Induction
<1>. QED
  BY <1>3

\* The recursive definition of Power defines it.
LEMMA PowerDef ==
    \A l \in Nat : Power[l] = IF l = 0 THEN 1 ELSE Byte * Power[l - 1]
<1>. DEFINE start(m) == CHOOSE g : IsPowerTo(g, m)
<1>1. \A l \in Nat : IsPowerTo(start(l), l)
  BY PowersExist
<1>2. ASSUME NEW l \in Nat
      PROVE  start(l)[l] = IF l = 0 THEN 1 ELSE Byte * start(l - 1)[l - 1]
  <2>1. start(l)[l] = IF l = 0 THEN 1 ELSE Byte * start(l)[l - 1]
    BY <1>1 DEF IsPowerTo
  <2>2. ASSUME l # 0 PROVE start(l)[l - 1] = start(l - 1)[l - 1]
    <3>1. /\ l - 1 \in Nat
          /\ IsPowerTo(start(l), l) /\ IsPowerTo(start(l - 1), l - 1)
      BY <1>1, <2>2
    <3>. HIDE DEF start
    <3>. QED
      BY <3>1, PowersAgree
  <2>. QED
    BY <2>1, <2>2
<1>. HIDE DEF start
<1>3. PICK f : f = [l \in Nat |-> start(l)[l]]
  OBVIOUS
<1>4. ASSUME NEW l \in Nat PROVE f[l] = IF l = 0 THEN 1 ELSE Byte * f[l - 1]
  <2>1. f[l] = start(l)[l] /\ (l # 0 => f[l - 1] = start(l - 1)[l - 1])
    BY <1>3
  <2>. QED
    BY <1>2, <2>1
<1>5. f = [l \in Nat |-> f[l]]
  BY <1>3
<1>6. f = [l \in Nat |-> IF l = 0 THEN 1 ELSE Byte * f[l - 1]]
  BY <1>4, <1>5
<1>7. Power = [l \in Nat |-> IF l = 0 THEN 1 ELSE Byte * Power[l - 1]]
  BY <1>6 DEF Power
<1>. QED
  BY <1>7

LEMMA PowerType == \A l \in Nat : Power[l] \in Nat /\ l < Power[l]
<1>. DEFINE G == {l \in Nat : Power[l] \in Nat /\ l < Power[l]}
<1>1. 0 \in G
  BY PowerDef
<1>2. ASSUME NEW l \in Nat, l \in G PROVE l + 1 \in G
  <2>1. Power[l + 1] = Byte * Power[l]
    BY PowerDef
  <2>2. PICK p \in Nat : p = Power[l] /\ l < p
    BY <1>2
  <2>3. Byte * p >= 2 * p /\ Byte * p \in Nat
    BY WidthAssumption
  <2>4. Byte * p > l + 1
    BY <2>2, <2>3
  <2>. QED
    BY <2>1, <2>2, <2>3, <2>4
<1>3. Nat \subseteq G
  <2>. HIDE DEF G
  <2>. QED
    BY <1>1, <1>2, Induction
<1>. QED
  BY <1>3

LEMMA PowerGrows == \A l, m \in Nat : l <= m => Power[l] <= Power[m]
<1>. SUFFICES ASSUME NEW l \in Nat PROVE \A k \in Nat : Power[l] <= Power[l + k]
  <2>1. \A l, m \in Nat : l <= m => m - l \in Nat /\ l + (m - l) = m
    OBVIOUS
  <2>. QED
    BY <2>1
<1>. DEFINE G == {k \in Nat : Power[l] <= Power[l + k]}
<1>1. 0 \in G
  BY PowerType
<1>2. ASSUME NEW k \in Nat, k \in G PROVE k + 1 \in G
  <2>1. Power[l + (k + 1)] = Byte * Power[l + k]
    BY PowerDef
  <2>2. PICK p \in Nat : p = Power[l + k]
    BY PowerType
  <2>3. Byte * p >= p /\ Byte * p \in Nat
    BY WidthAssumption
  <2>. QED
    BY <1>2, <2>1, <2>2, <2>3, PowerType
<1>3. Nat \subseteq G
  <2>. HIDE DEF G
  <2>. QED
    BY <1>1, <1>2, Induction
<1>. QED
  BY <1>3

\* The minimal encoding of a number is one of it, and fits where the number does.
LEMMA MinimalForm ==
    ASSUME NEW n \in Nat
    PROVE  /\ Minimal(n) = Bytes(Minimal(n).len, n)
           /\ Minimal(n).len \in Nat /\ n < Power[Minimal(n).len]
           /\ \A m \in Nat : n < Power[m] <=> Minimal(n).len <= m
<1>. DEFINE T == {l \in Nat : n < Power[l]}
            least == CHOOSE x \in T : \A m \in T : x <= m
<1>1. least \in T /\ \A m \in T : least <= m
  <2>1. T \in SUBSET Nat /\ n \in T
    BY PowerType
  <2>. HIDE DEF T
  <2>. QED
    BY <2>1, LeastNumber
<1>2. least \in 0..n /\ n < Power[least] /\ (least > 0 => Power[least - 1] <= n)
  <2>1. least > 0 => least - 1 \in Nat /\ least - 1 \notin T
    BY <1>1
  <2>. QED
    BY <1>1, <2>1, PowerType
<1>3. \E k \in 0..n : n < Power[k] /\ (k > 0 => Power[k - 1] <= n)
  BY <1>2
<1>4. PICK k \in 0..n :
          Minimal(n) = Bytes(k, n) /\ n < Power[k] /\ (k > 0 => Power[k - 1] <= n)
  BY <1>3 DEF Minimal
<1>5. ASSUME NEW m \in Nat, n < Power[m] PROVE k <= m
  <2>1. SUFFICES ASSUME m < k PROVE FALSE
    OBVIOUS
  <2>2. k > 0 /\ k - 1 \in Nat /\ m <= k - 1
    BY <2>1
  <2>3. Power[m] <= Power[k - 1] /\ Power[k - 1] <= n
    BY <1>4, <2>2, PowerGrows
  <2>. QED
    BY <1>5, <2>2, <2>3, PowerType
<1>6. ASSUME NEW m \in Nat, k <= m PROVE n < Power[m]
  BY <1>4, <1>6, PowerGrows, PowerType
<1>7. Minimal(n).len = k
  BY <1>4 DEF Bytes
<1>. QED
  BY <1>4, <1>5, <1>6, <1>7

LEMMA WidthsArePositive ==
    \A l \in {WordLen, AddressLen, HashLen} :
        l \in Nat \ {0} /\ Power[l] \in Nat \ {0, 1} /\ 0 \in Below(l)
<1>. SUFFICES ASSUME NEW l \in {WordLen, AddressLen, HashLen}
              PROVE  l \in Nat \ {0} /\ Power[l] \in Nat \ {0, 1} /\ 0 \in Below(l)
  OBVIOUS
<1>1. l \in Nat \ {0}
  BY WidthAssumption
<1>2. Power[l] \in Nat /\ l < Power[l]
  BY <1>1, PowerType
<1>. QED
  BY <1>1, <1>2 DEF Below

LEMMA MinimalIsItem ==
    ASSUME NEW n \in Nat
    PROVE  /\ Minimal(n) \in ByteStrings /\ Minimal(n).kind = "bytes" /\ Minimal(n).val = n
           /\ Minimal(n).len \in Nat /\ (Minimal(n).len = 0 <=> n = 0)
           /\ (n = 0 => Minimal(n) = Empty)
<1>1. /\ Minimal(n) = Bytes(Minimal(n).len, n)
      /\ Minimal(n).len \in Nat /\ n < Power[Minimal(n).len]
      /\ \A m \in Nat : n < Power[m] <=> Minimal(n).len <= m
  BY MinimalForm
<1>2. PICK l \in Nat : l = Minimal(n).len /\ Minimal(n) = Bytes(l, n)
  BY <1>1
<1>3. l = 0 <=> n = 0
  <2>1. n < Power[0] <=> l <= 0
    BY <1>1, <1>2
  <2>. QED
    BY <2>1, PowerDef
<1>4. Bytes(l, n) \in ByteStrings
  BY <1>1, <1>2 DEF Bytes, ByteStrings
<1>. QED
  BY <1>2, <1>3, <1>4 DEF Bytes, Empty

LEMMA MinimalFits ==
    ASSUME NEW n \in Nat, NEW l \in Nat
    PROVE  Minimal(n).len <= l <=> n \in Below(l)
  BY MinimalForm, PowerType DEF Below

LEMMA Remainders ==
    ASSUME NEW p \in Nat \ {0}, NEW n \in Nat
    PROVE  n % p \in 0..(p - 1) /\ (n < p => n % p = n)
  OBVIOUS

LEMMA FixedIsItem ==
    ASSUME NEW l \in {AddressLen, HashLen}, NEW n \in Below(l)
    PROVE  /\ Bytes(l, n) \in ByteStrings /\ Given(Bytes(l, n)) /\ n \in Nat
           /\ Bytes(l, n).val % Power[l] = n
<1>1. l \in Nat \ {0} /\ Power[l] \in Nat \ {0}
  BY WidthsArePositive
<1>2. n \in Nat /\ n < Power[l]
  BY <1>1 DEF Below
<1>3. n % Power[l] = n
  BY <1>1, <1>2, Remainders
<1>. QED
  BY <1>1, <1>2, <1>3 DEF Bytes, ByteStrings, Given, IsBytes

\* An item that is a byte string stands for a number below its length.
LEMMA ItemValue ==
    ASSUME NEW x, IsItem(x), IsBytes(x)
    PROVE  /\ x = Bytes(x.len, x.val) /\ x.len \in Nat /\ x.val \in Nat
           /\ x.val < Power[x.len] /\ (x.len = 0 => x = Empty)
           /\ x \in ByteStrings
<1>1. x \in ByteStrings
  BY DEF IsItem
<1>2. x = Bytes(x.len, x.val) /\ x.len \in Nat /\ x.val \in Nat /\ x.val < Power[x.len]
  BY <1>1 DEF ByteStrings, Bytes
<1>3. ASSUME x.len = 0 PROVE x = Empty
  <2>1. x.val < 1
    BY <1>2, <1>3, PowerDef
  <2>2. x.val = 0
    BY <1>2, <2>1
  <2>. QED
    BY <1>2, <1>3, <2>2 DEF Empty
<1>. QED
  BY <1>1, <1>2, <1>3

\* What is cut to a length is below it, and unchanged if it was.
LEMMA CutValue ==
    ASSUME NEW l \in {AddressLen, HashLen}, NEW x, IsItem(x), IsBytes(x)
    PROVE  /\ x.val % Power[l] \in Below(l)
           /\ x.len = l => Bytes(l, x.val % Power[l]) = x
<1>1. l \in Nat \ {0} /\ Power[l] \in Nat \ {0}
  BY WidthsArePositive
<1>2. x = Bytes(x.len, x.val) /\ x.val \in Nat /\ x.val < Power[x.len]
  BY ItemValue
<1>3. /\ x.val % Power[l] \in 0..(Power[l] - 1)
      /\ x.val < Power[l] => x.val % Power[l] = x.val
  BY <1>1, <1>2, Remainders
<1>. QED
  BY <1>2, <1>3 DEF Below

\* Sequences, as they are and as functions of their places.
LEMMA SeqForm ==
    ASSUME NEW S, NEW s \in Seq(S)
    PROVE  /\ Len(s) \in Nat /\ DOMAIN s = 1..Len(s)
           /\ s = [i \in 1..Len(s) |-> s[i]] /\ \A i \in DOMAIN s : s[i] \in S
<1>1. Len(s) \in Nat /\ DOMAIN s = 1..Len(s) /\ \A i \in DOMAIN s : s[i] \in S
  OBVIOUS
<1>2. s \in [1..Len(s) -> S]
  BY LenProperties
<1>. QED
  BY <1>1, <1>2

LEMMA MadeSeq ==
    ASSUME NEW S, NEW n \in Nat, NEW s \in [1..n -> S]
    PROVE  s \in Seq(S) /\ Len(s) = n /\ IsSeq(s) /\ DOMAIN s = 1..n
<1>1. s \in Seq(S)
  BY SeqDef
<1>2. Len(s) = n /\ DOMAIN s = 1..n
  BY <1>1, LenProperties
<1>3. IsSeq(s)
  BY <1>2 DEF IsSeq
<1>. QED
  BY <1>1, <1>2, <1>3

LEMMA PointersForm ==
    ASSUME NEW S, NEW p
    PROVE  p \in Pointers(S) <=> p = <<>> \/ \E x \in S : p = <<x>>
<1>1. ASSUME p \in Pointers(S) PROVE p = <<>> \/ \E x \in S : p = <<x>>
  <2>1. p \in Seq(S) /\ Len(p) \in Nat /\ Len(p) <= 1
    BY <1>1 DEF Pointers
  <2>2. CASE Len(p) = 0
    BY <2>1, <2>2
  <2>3. CASE Len(p) = 1
    <3>1. PICK x : x = p[1]
      OBVIOUS
    <3>2. x \in S /\ p = <<x>>
      BY <2>1, <2>3, <3>1
    <3>. QED
      BY <3>2
  <2>. QED
    BY <2>1, <2>2, <2>3
<1>2. ASSUME NEW x \in S PROVE <<x>> \in Pointers(S)
  BY DEF Pointers
<1>3. <<>> \in Pointers(S)
  BY DEF Pointers
<1>. QED
  BY <1>1, <1>2, <1>3

-----------------------------------------------------------------------------
(* What is written is read again, a field at a time.                       *)

\* big.Int.Bytes leaves the sign out.
LEMMA MagnitudeForm ==
    \A n \in Int : Magnitude(n) \in Nat /\ (n >= 0 => Magnitude(n) = n)
  BY DEF Magnitude

LEMMA NaturalBytes == \A n \in Nat : bigIntToBytes(n) = Minimal(n)
  BY MagnitudeForm DEF bigIntToBytes

LEMMA BigIntIsItem ==
    ASSUME NEW n \in Int
    PROVE  /\ bigIntToBytes(n) \in ByteStrings /\ IsBytes(bigIntToBytes(n))
           /\ bigIntToBytes(n).val = Magnitude(n)
           /\ Given(bigIntToBytes(n)) <=> Magnitude(n) # 0
           /\ \A l \in Nat : bigIntToBytes(n).len <= l <=> Magnitude(n) \in Below(l)
<1>1. PICK m \in Nat : m = Magnitude(n)
  BY MagnitudeForm
<1>2. bigIntToBytes(n) = Minimal(m)
  BY <1>1 DEF bigIntToBytes
<1>. QED
  BY <1>1, <1>2, MinimalIsItem, MinimalFits DEF Given, IsBytes

LEMMA ListForm ==
    ASSUME NEW q
    PROVE  /\ List(q).kind = "list" /\ List(q).items = q /\ IsItem(List(q))
           /\ List(q) = List(List(q).items)
<1>1. List(q).kind = "list" /\ List(q).items = q
  BY DEF List
<1>2. IsItem(List(q))
  BY <1>1 DEF IsItem, IsBytes
<1>. QED
  BY <1>1, <1>2

LEMMA SequenceIsFlat ==
    ASSUME NEW S, NEW q \in Seq(S), \A x \in S : IsItem(x)
    PROVE  IsFlat(List(q))
<1>1. /\ List(q).kind = "list" /\ List(q).items = q /\ IsItem(List(q))
      /\ List(q) = List(List(q).items)
  BY ListForm
<1>2. IsSeq(q) /\ \A i \in DOMAIN q : IsItem(q[i])
  BY SeqForm DEF IsSeq
<1>. HIDE DEF List
<1>. QED
  BY <1>1, <1>2 DEF IsFlat

LEMMA SequenceIsNested ==
    ASSUME NEW S, NEW q \in Seq(S), \A x \in S : IsFlat(x)
    PROVE  IsNested(List(q))
<1>1. \A x \in S : IsItem(x)
  BY DEF IsFlat
<1>2. IsFlat(List(q))
  BY <1>1, SequenceIsFlat
<1>3. List(q).kind = "list" /\ List(q).items = q /\ \A i \in DOMAIN q : IsFlat(q[i])
  BY ListForm, SeqForm
<1>. QED
  BY <1>2, <1>3 DEF IsNested

LEMMA SequenceIsDeep ==
    ASSUME NEW S, NEW q \in Seq(S), \A x \in S : IsNested(x)
    PROVE  IsDeep(List(q))
<1>1. \A x \in S : IsItem(x)
  BY DEF IsNested, IsFlat
<1>2. IsFlat(List(q))
  BY <1>1, SequenceIsFlat
<1>3. List(q).kind = "list" /\ List(q).items = q /\ \A i \in DOMAIN q : IsNested(q[i])
  BY ListForm, SeqForm
<1>. QED
  BY <1>2, <1>3 DEF IsDeep

LEMMA BytesAreFlat ==
    ASSUME NEW b \in ByteStrings
    PROVE  IsBytes(b) /\ IsItem(b) /\ IsFlat(b) /\ IsNested(b) /\ IsDeep(b)
  BY DEF ByteStrings, IsBytes, IsItem, IsFlat, IsNested, IsDeep

LEMMA EncodedCall ==
    ASSUME NEW c \in Calls, NEW e, e = encodeCall(c)
    PROVE  IsFlat(e) /\ IsList(e, 3) /\ decodeCall(e) = CallMagnitude(c)
<1>1. /\ c = [to |-> c.to, value |-> c.value, data |-> c.data]
      /\ c.to \in Pointers(Below(AddressLen)) /\ c.value \in Int /\ c.data \in ByteStrings
  BY DEF Calls
<1>2. PICK to, value, data :
          /\ to = IF c.to = <<>> THEN Empty ELSE Address(c.to[1])
          /\ value = bigIntToBytes(c.value) /\ data = c.data
  OBVIOUS
<1>3. e.kind = "list" /\ e = List(<<to, value, data>>) /\ e.items = <<to, value, data>>
  BY <1>2 DEF encodeCall, List
<1>4. /\ to \in ByteStrings
      /\ c.to = IF Given(to) THEN <<ToAddress(to)>> ELSE <<>>
  <2>1. CASE c.to = <<>>
    <3>1. to = Empty
      BY <1>2, <2>1
    <3>. QED
      BY <3>1, <2>1, PowerDef DEF Empty, Bytes, ByteStrings, Given
  <2>2. ASSUME NEW a \in Below(AddressLen), c.to = <<a>>
        PROVE  to \in ByteStrings /\ Given(to) /\ ToAddress(to) = a
    <3>1. to = Bytes(AddressLen, a)
      BY <1>2, <2>2 DEF Address
    <3>. QED
      BY <3>1, FixedIsItem DEF ToAddress
  <2>. QED
    BY <1>1, <2>1, <2>2, PointersForm
<1>5. /\ value \in ByteStrings
      /\ Magnitude(c.value) = IF Given(value) THEN value.val ELSE 0
  BY <1>1, <1>2, BigIntIsItem
<1>6. data \in ByteStrings /\ IsBytes(data)
  BY <1>1, <1>2 DEF ByteStrings, IsBytes
<1>7. IsFlat(e)
  <2>1. <<to, value, data>> \in Seq(ByteStrings)
    BY <1>4, <1>5, <1>6
  <2>. QED
    BY <1>3, <2>1, SequenceIsFlat, BytesAreFlat
<1>8. decodeCall(e) = [to |-> c.to, value |-> Magnitude(c.value), data |-> c.data]
  BY <1>2, <1>3, <1>4, <1>5, <1>6 DEF decodeCall
<1>9. CallMagnitude(c) = [to |-> c.to, value |-> Magnitude(c.value), data |-> c.data]
  BY <1>1 DEF CallMagnitude
<1>. QED
  BY <1>3, <1>7, <1>8, <1>9 DEF IsList

LEMMA EncodedAccess ==
    ASSUME NEW entry \in [address : Below(AddressLen), keys : Seq(Below(HashLen))],
           NEW e, e = encodeAccess(entry)
    PROVE  IsNested(e) /\ ValidAccess(e) /\ decodeAccess(e) = entry
<1>1. PICK a, keys : /\ entry = [address |-> a, keys |-> keys]
                     /\ a \in Below(AddressLen) /\ keys \in Seq(Below(HashLen))
  OBVIOUS
<1>2. PICK hashes : hashes = [i \in DOMAIN keys |-> Hash(keys[i])]
  OBVIOUS
<1>3. PICK n \in Nat : n = Len(keys) /\ DOMAIN keys = 1..n
  BY <1>1, SeqForm
<1>4. \A i \in 1..n : keys[i] \in Below(HashLen)
  BY <1>1, <1>3
<1>5. PICK address, list : address = Address(a) /\ list = List(hashes)
  OBVIOUS
<1>6. e = List(<<address, list>>) /\ e.kind = "list" /\ e.items = <<address, list>>
  BY <1>1, <1>2, <1>5 DEF encodeAccess, List
<1>7. \A i \in 1..n : hashes[i] \in ByteStrings /\ ToHash(hashes[i]) = keys[i]
  BY <1>2, <1>3, <1>4, FixedIsItem DEF Hash, ToHash
<1>8. hashes \in [1..n -> ByteStrings] /\ DOMAIN hashes = 1..n
  BY <1>2, <1>3, <1>7
<1>9. IsSeq(hashes) /\ Len(hashes) = n
  BY <1>8, MadeSeq
<1>10. \A b \in ByteStrings : IsBytes(b) /\ IsItem(b) /\ IsFlat(b)
  BY BytesAreFlat
<1>11. address \in ByteStrings /\ ToAddress(address) = a
  BY <1>1, <1>5, FixedIsItem DEF Address, ToAddress
<1>12. IsFlat(list) /\ list.kind = "list" /\ list.items = hashes
  <2>1. hashes \in Seq(ByteStrings)
    BY <1>8, MadeSeq
  <2>. QED
    BY <1>5, <2>1, BytesAreFlat, SequenceIsFlat, ListForm
<1>13. IsNested(e)
  <2>1. PICK S, q : S = {address, list} /\ q = <<address, list>>
    OBVIOUS
  <2>2. q \in Seq(S) /\ \A x \in S : IsFlat(x)
    BY <1>10, <1>11, <1>12, <2>1
  <2>3. IsNested(List(q))
    BY <2>2, SequenceIsNested
  <2>. QED
    BY <1>6, <2>1, <2>3
<1>14. ValidAccess(e)
  BY <1>6, <1>7, <1>8, <1>10, <1>11, <1>12 DEF ValidAccess, IsList
<1>15. [i \in DOMAIN hashes |-> ToHash(hashes[i])] = keys
  <2>1. keys = [i \in 1..n |-> keys[i]]
    BY <1>1, <1>3, SeqForm
  <2>2. [i \in 1..n |-> ToHash(hashes[i])] = [i \in 1..n |-> keys[i]]
    BY <1>7
  <2>3. [i \in DOMAIN hashes |-> ToHash(hashes[i])] = [i \in 1..n |-> ToHash(hashes[i])]
    BY <1>8
  <2>. QED
    BY <2>1, <2>2, <2>3, Zenon
<1>16. decodeAccess(e) = [address |-> a, keys |-> keys]
  <2>1. e.items[1] = address /\ e.items[2].items = hashes
    BY <1>6, <1>12
  <2>. QED
    BY <1>11, <1>15, <2>1, Zenon DEF decodeAccess
<1>. QED
  BY <1>1, <1>13, <1>14, <1>16

LEMMA ScalarMagnitudesForm ==
    ASSUME NEW yParity, NEW r, NEW t, NEW s, s = [yParity |-> yParity, r |-> r, s |-> t]
    PROVE  ScalarMagnitudes(s) =
             [yParity |-> yParity, r |-> Magnitude(r), s |-> Magnitude(t)]
<1>1. PICK m, n : m = Magnitude(r) /\ n = Magnitude(t)
  OBVIOUS
<1>2. s.r = r /\ s.s = t
  OBVIOUS
<1>3. ScalarMagnitudes(s) = [s EXCEPT !.r = m, !.s = n]
  BY <1>1, <1>2, Zenon DEF ScalarMagnitudes
<1>4. [s EXCEPT !.r = m, !.s = n] = [yParity |-> yParity, r |-> m, s |-> n]
  <2>1. PICK u : u = [s EXCEPT !.r = m]
    OBVIOUS
  <2>2. u = [yParity |-> yParity, r |-> m, s |-> t]
    BY <2>1
  <2>3. [u EXCEPT !.s = n] = [yParity |-> yParity, r |-> m, s |-> n]
    BY <2>2
  <2>. QED
    BY <2>1, <2>3, Zenon
<1>. QED
  BY <1>1, <1>3, <1>4, Zenon

LEMMA EncodedSignature ==
    ASSUME NEW s \in FeePayerSignatures, NEW e, e = encodeSignature(s)
    PROVE  /\ IsFlat(e) /\ IsList(e, 3) /\ (ValidSignature(e) <=> ScalarsFit(s))
           /\ decodeSignature(e) = ScalarMagnitudes(s)
<1>1. /\ s = [yParity |-> s.yParity, r |-> s.r, s |-> s.s]
      /\ s.yParity \in Below(1) /\ s.r \in Int /\ s.s \in Int
  BY DEF FeePayerSignatures
<1>2. Power[1] \in Nat /\ 1 < Power[1]
  BY PowerType
<1>3. s.yParity \in Nat
  BY <1>1, <1>2 DEF Below
<1>4. PICK v, r, t :
          v = Minimal(s.yParity) /\ r = bigIntToBytes(s.r) /\ t = bigIntToBytes(s.s)
  OBVIOUS
<1>5. e.kind = "list" /\ e = List(<<v, r, t>>) /\ e.items = <<v, r, t>>
  BY <1>4 DEF encodeSignature, List
<1>6. v \in ByteStrings /\ IsBytes(v) /\ v.val = s.yParity /\ v.len <= 1
  BY <1>1, <1>3, <1>4, MinimalIsItem, MinimalFits DEF IsBytes
<1>7. /\ r \in ByteStrings /\ IsBytes(r) /\ r.val = Magnitude(s.r)
      /\ r.len <= HashLen <=> Magnitude(s.r) \in Below(HashLen)
  BY <1>1, <1>4, BigIntIsItem, WidthAssumption
<1>8. /\ t \in ByteStrings /\ IsBytes(t) /\ t.val = Magnitude(s.s)
      /\ t.len <= HashLen <=> Magnitude(s.s) \in Below(HashLen)
  BY <1>1, <1>4, BigIntIsItem, WidthAssumption
<1>9. IsFlat(e)
  <2>1. <<v, r, t>> \in Seq(ByteStrings)
    BY <1>6, <1>7, <1>8
  <2>. QED
    BY <1>5, <2>1, SequenceIsFlat, BytesAreFlat
<1>10. ValidSignature(e) <=> ScalarsFit(s)
  BY <1>5, <1>6, <1>7, <1>8 DEF ValidSignature, ScalarsFit
<1>11. decodeSignature(e) =
           [yParity |-> s.yParity, r |-> Magnitude(s.r), s |-> Magnitude(s.s)]
  BY <1>5, <1>6, <1>7, <1>8 DEF decodeSignature
<1>12. ScalarMagnitudes(s) =
           [yParity |-> s.yParity, r |-> Magnitude(s.r), s |-> Magnitude(s.s)]
  BY <1>1, ScalarMagnitudesForm
<1>. QED
  BY <1>5, <1>9, <1>10, <1>11, <1>12 DEF IsList

\* An envelope that is written is one, and read as the signature it was if its type is a known one.
LEMMA EncodedEnvelope ==
    ASSUME NEW s \in Signatures, NEW e, e = encodeSignatureEnvelope(s), WritableEnvelope(s)
    PROVE  /\ e.kind = "envelope" /\ IsEnvelope(e)
           /\ ValidEnvelope(e) <=> s.type # "unknown"
           /\ decodeSignatureEnvelope(e) = EnvelopeMagnitudes(s)
<1>1. CASE s.type = "secp256k1"
  <2>1. /\ s = [type |-> "secp256k1", r |-> s.r, s |-> s.s, yParity |-> s.yParity]
        /\ s.yParity \in Below(1) /\ s.r \in Int /\ s.s \in Int
    BY <1>1 DEF Signatures, RawSignatures, RawTypes
  <2>2. s.yParity \in {0, 1}
    <3>1. Power[1] \in Nat
      BY PowerType
    <3>. QED
      BY <1>1, <2>1, <3>1 DEF Below, WritableEnvelope, ScalarsFit
  <2>3. PICK r, t : /\ r = Magnitude(s.r) /\ t = Magnitude(s.s)
                    /\ r \in Below(HashLen) /\ t \in Below(HashLen)
    BY <1>1 DEF WritableEnvelope, ScalarsFit
  <2>4. PICK of : of = [type |-> "secp256k1", r |-> r, s |-> t, recoveryID |-> s.yParity]
    OBVIOUS
  <2>5. e = Envelope(of)
    BY <1>1, <2>3, <2>4 DEF encodeSignatureEnvelope
  <2>6. e.kind = "envelope" /\ e.of = of
    BY <2>5 DEF Envelope
  <2>7. /\ of.type = "secp256k1" /\ of.type \notin RawTypes
        /\ of \in [type : {"secp256k1"}, r : Below(HashLen), s : Below(HashLen),
                   recoveryID : Nat]
        /\ of.recoveryID \in {0, 1} /\ of.r = r /\ of.s = t
        /\ of.recoveryID = s.yParity
    BY <2>2, <2>3, <2>4 DEF RawTypes
  <2>8. IsEnvelope(e)
    BY <2>5, <2>6, <2>7 DEF IsEnvelope
  <2>9. ValidEnvelope(e)
    BY <2>6, <2>7 DEF ValidEnvelope
  <2>10. decodeSignatureEnvelope(e) =
             [type |-> "secp256k1", r |-> r, s |-> t, yParity |-> s.yParity]
    BY <2>6, <2>7 DEF decodeSignatureEnvelope
  <2>11. EnvelopeMagnitudes(s) =
             [type |-> "secp256k1", r |-> r, s |-> t, yParity |-> s.yParity]
    BY <1>1, <2>1, <2>3 DEF EnvelopeMagnitudes, ScalarMagnitudes
  <2>. QED
    BY <1>1, <2>6, <2>8, <2>9, <2>10, <2>11
<1>2. CASE s.type # "secp256k1"
  <2>1. s \in RawSignatures /\ s.type \in RawTypes \cup {"unknown"}
    BY <1>2 DEF Signatures, RawSignatures, WritableEnvelope
  <2>2. e = Envelope(s)
    BY <1>2 DEF encodeSignatureEnvelope
  <2>3. e.kind = "envelope" /\ e.of = s
    BY <2>2 DEF Envelope
  <2>4. IsEnvelope(e) /\ decodeSignatureEnvelope(e) = EnvelopeMagnitudes(s)
    BY <1>2, <2>1, <2>2, <2>3
       DEF IsEnvelope, decodeSignatureEnvelope, EnvelopeMagnitudes
  <2>5. ValidEnvelope(e) <=> s.type # "unknown"
    BY <1>2, <2>1, <2>3 DEF ValidEnvelope, RawTypes
  <2>. QED
    BY <2>3, <2>4, <2>5
<1>. QED
  BY <1>1, <1>2

CallsMagnitude(calls) == [i \in DOMAIN calls |-> CallMagnitude(calls[i])]

LEMMA WrittenCalls ==
    ASSUME NEW calls \in Seq(Calls), NEW p, p = [i \in DOMAIN calls |-> encodeCall(calls[i])]
    PROVE  /\ IsNested(List(p)) /\ \A i \in DOMAIN p : IsList(p[i], 3)
           /\ [i \in DOMAIN p |-> decodeCall(p[i])] = CallsMagnitude(calls)
<1>. DEFINE T == {encodeCall(c) : c \in Calls}
<1>1. PICK n \in Nat : /\ n = Len(calls) /\ DOMAIN calls = 1..n
                       /\ calls = [i \in 1..n |-> calls[i]]
                       /\ \A i \in 1..n : calls[i] \in Calls
  BY SeqForm, Zenon
<1>2. p \in [1..n -> T]
  BY <1>1
<1>3. p \in Seq(T) /\ DOMAIN p = 1..n
  BY <1>2, MadeSeq
<1>4. \A x \in T : IsFlat(x)
  BY EncodedCall
<1>5. \A i \in 1..n : IsList(p[i], 3) /\ decodeCall(p[i]) = CallMagnitude(calls[i])
  BY <1>1, EncodedCall
<1>6. [i \in 1..n |-> decodeCall(p[i])] = [i \in 1..n |-> CallMagnitude(calls[i])]
  BY <1>5
<1>7. [i \in DOMAIN p |-> decodeCall(p[i])] = CallsMagnitude(calls)
  BY <1>1, <1>3, <1>6, Zenon DEF CallsMagnitude
<1>. HIDE DEF T
<1>8. IsNested(List(p))
  BY <1>3, <1>4, SequenceIsNested
<1>. QED
  BY <1>3, <1>5, <1>7, <1>8

LEMMA WrittenAccessList ==
    ASSUME NEW list \in AccessList, NEW p, p = [i \in DOMAIN list |-> encodeAccess(list[i])]
    PROVE  /\ IsDeep(List(p)) /\ \A i \in DOMAIN p : ValidAccess(p[i])
           /\ [i \in DOMAIN p |-> decodeAccess(p[i])] = list
<1>. DEFINE S == [address : Below(AddressLen), keys : Seq(Below(HashLen))]
            T == {encodeAccess(e) : e \in S}
<1>0. list \in Seq(S)
  BY DEF AccessList
<1>1. PICK n \in Nat : /\ n = Len(list) /\ DOMAIN list = 1..n
                       /\ list = [i \in 1..n |-> list[i]]
                       /\ \A i \in 1..n : list[i] \in S
  <2>. HIDE DEF S
  <2>. QED
    BY <1>0, SeqForm, Zenon
<1>2. \A e \in S : /\ IsNested(encodeAccess(e)) /\ ValidAccess(encodeAccess(e))
                   /\ decodeAccess(encodeAccess(e)) = e
  BY EncodedAccess
<1>. HIDE DEF S
<1>3. p \in [1..n -> T]
  BY <1>1
<1>4. p \in Seq(T) /\ DOMAIN p = 1..n
  BY <1>3, MadeSeq
<1>5. \A x \in T : IsNested(x)
  BY <1>2
<1>6. \A i \in 1..n : ValidAccess(p[i]) /\ decodeAccess(p[i]) = list[i]
  BY <1>1, <1>2
<1>7. [i \in 1..n |-> decodeAccess(p[i])] = [i \in 1..n |-> list[i]]
  BY <1>6
<1>8. [i \in DOMAIN p |-> decodeAccess(p[i])] = list
  BY <1>1, <1>4, <1>7, Zenon
<1>. HIDE DEF T
<1>9. IsDeep(List(p))
  BY <1>4, <1>5, SequenceIsDeep
<1>. QED
  BY <1>4, <1>6, <1>8, <1>9

\* The numeric fields of a string, what is read from them, and what is meant.
NumbersOf(num) == [f \in NumFields |-> bigIntToBytes(num[f])]
NumbersIn(p) == [f \in NumFields |-> IF Given(p[f]) THEN p[f].val ELSE New.num[f]]
NumbersMagnitude(num) == [f \in NumFields |-> Magnitude(num[f])]
NumbersKnown(num) == [num EXCEPT !["chainID"] = IF @ = 0 THEN MainnetId ELSE @]

LEMMA WrittenNumbers ==
    ASSUME NEW num \in [NumFields -> Int], \A f \in WordFields : num[f] \in Below(WordLen),
           NEW p, p = NumbersOf(num)
    PROVE  /\ \A f \in NumFields : IsItem(p[f])
           /\ \A f \in WordFields : Given(p[f]) => FitsWord(p[f])
           /\ NumbersIn(p) = NumbersKnown(NumbersMagnitude(num))
<1>1. \A f \in NumFields : /\ p[f] \in ByteStrings /\ p[f].val = Magnitude(num[f])
                           /\ (Given(p[f]) <=> Magnitude(num[f]) # 0)
  BY BigIntIsItem DEF NumbersOf
<1>2. "chainID" \in NumFields /\ WordFields \subseteq NumFields
  BY DEF NumFields, BigFields
<1>3. PICK m : m = NumbersMagnitude(num)
  OBVIOUS
<1>4. m = [f \in NumFields |-> m[f]] /\ \A f \in NumFields : m[f] = Magnitude(num[f])
  BY <1>3 DEF NumbersMagnitude
<1>5. ASSUME NEW f \in NumFields
      PROVE  (IF Given(p[f]) THEN p[f].val ELSE New.num[f])
                = [m EXCEPT !["chainID"] = IF @ = 0 THEN MainnetId ELSE @][f]
  <2>1. New.num[f] = IF f = "chainID" THEN MainnetId ELSE 0
    BY DEF New
  <2>. QED
    BY <1>1, <1>2, <1>4, <2>1
<1>6. \A f \in NumFields : IsItem(p[f])
  BY <1>1, BytesAreFlat
<1>7. \A f \in WordFields : Given(p[f]) => FitsWord(p[f])
  <2>1. ASSUME NEW f \in WordFields PROVE Magnitude(num[f]) = num[f]
    <3>1. num[f] \in Int /\ num[f] >= 0
      BY WidthsArePositive, <1>2 DEF Below
    <3>. QED
      BY <3>1, MagnitudeForm
  <2>. QED
    BY <1>1, <1>2, <2>1 DEF FitsWord
<1>8. NumbersIn(p) = NumbersKnown(m)
  BY <1>4, <1>5 DEF NumbersIn, NumbersKnown
<1>. QED
  BY <1>3, <1>6, <1>7, <1>8

LEMMA WrittenFeeToken ==
    ASSUME NEW token \in Below(AddressLen), NEW x, x = encodeFeeToken(token)
    PROVE  IsItem(x) /\ (IF Given(x) THEN ToAddress(x) ELSE 0) = token
<1>1. CASE token = 0
  <2>1. x = Empty
    BY <1>1 DEF encodeFeeToken
  <2>. QED
    BY <1>1, <2>1, PowerDef DEF Empty, Bytes, IsItem, IsBytes, ByteStrings, Given
<1>2. CASE token # 0
  <2>1. x = Bytes(AddressLen, token)
    BY <1>2 DEF encodeFeeToken, Address
  <2>. QED
    BY <2>1, FixedIsItem, BytesAreFlat DEF ToAddress
<1>. QED
  BY <1>1, <1>2

PayerMagnitude(p) == IF p = <<>> THEN <<>> ELSE <<ScalarMagnitudes(p[1])>>

LEMMA WrittenFeePayer ==
    ASSUME NEW t, t.feePayerSig \in Pointers(FeePayerSignatures), t.awaiting \in BOOLEAN,
           NEW x, x = encodeFeePayerField(t)
    PROVE  /\ IsFlat(x)
           /\ (IsList(x, 3) => ValidSignature(x))
                 <=> (t.feePayerSig # <<>> => ScalarsFit(t.feePayerSig[1]))
           /\ (IF IsList(x, 3) THEN <<decodeSignature(x)>> ELSE <<>>)
                 = PayerMagnitude(t.feePayerSig)
           /\ (x = Marker) = (t.awaiting /\ t.feePayerSig = <<>>)
<1>1. Marker.kind = "bytes" /\ Empty.kind = "bytes" /\ Marker # Empty
  BY DEF Marker, Empty, Bytes
<1>2. Marker \in ByteStrings /\ Empty \in ByteStrings
  <2>1. 0 < Power[1] /\ 0 < Power[0]
    BY PowerType
  <2>. QED
    BY <2>1 DEF Marker, Empty, Bytes, ByteStrings
<1>3. CASE t.feePayerSig = <<>>
  <2>1. x = IF t.awaiting THEN Marker ELSE Empty
    BY <1>3 DEF encodeFeePayerField
  <2>2. IsFlat(x) /\ ~IsList(x, 3)
    BY <1>1, <1>2, <2>1, BytesAreFlat DEF IsList
  <2>3. (x = Marker) = (t.awaiting /\ t.feePayerSig = <<>>)
    BY <1>1, <1>3, <2>1
  <2>. QED
    BY <1>3, <2>2, <2>3 DEF PayerMagnitude
<1>4. ASSUME NEW s \in FeePayerSignatures, t.feePayerSig = <<s>>
      PROVE  /\ IsFlat(x) /\ IsList(x, 3) /\ (ValidSignature(x) <=> ScalarsFit(s))
             /\ <<decodeSignature(x)>> = PayerMagnitude(t.feePayerSig)
             /\ x # Marker /\ t.feePayerSig # <<>> /\ t.feePayerSig[1] = s
  <2>1. x = encodeSignature(s)
    BY <1>4 DEF encodeFeePayerField
  <2>2. /\ IsFlat(x) /\ IsList(x, 3) /\ (ValidSignature(x) <=> ScalarsFit(s))
        /\ decodeSignature(x) = ScalarMagnitudes(s)
    BY <2>1, EncodedSignature
  <2>3. t.feePayerSig # <<>> /\ t.feePayerSig[1] = s
    BY <1>4
  <2>. QED
    BY <1>1, <2>2, <2>3 DEF IsList, PayerMagnitude
<1>. QED
  BY <1>3, <1>4, PointersForm

LEMMA Joined == \A k, e : <<k>> \o <<e>> = <<k, e>>
<1>. SUFFICES ASSUME NEW k, NEW e PROVE <<k>> \o <<e>> = <<k, e>>
  OBVIOUS
<1>1. <<k>> \in Seq({k, e}) /\ <<e>> \in Seq({k, e}) /\ <<k, e>> \in Seq({k, e})
  OBVIOUS
<1>2. Len(<<k>>) = 1 /\ Len(<<e>>) = 1 /\ Len(<<k, e>>) = 2
  OBVIOUS
<1>3. PICK q : q = <<k>> \o <<e>>
  OBVIOUS
<1>4. q \in Seq({k, e}) /\ Len(q) = 2 /\ q[1] = k /\ q[2] = e
  BY <1>1, <1>2, <1>3, ConcatProperties
<1>5. \A i \in 1..Len(q) : q[i] = <<k, e>>[i]
  BY <1>4
<1>6. q = <<k, e>>
  BY <1>1, <1>2, <1>4, <1>5, SeqEqual
<1>. QED
  BY <1>3, <1>6

\* The fields 13 and 14 of a transaction with these two.
TailOf(keyAuth, sig) ==
    keyAuth \o (IF sig = <<>> THEN <<>> ELSE <<encodeSignatureEnvelope(sig[1])>>)

\* The signature and the authorization that a reader finds in fields 13 and 14.
AuthIn(tail) == IF tail # <<>> /\ tail[1].kind = "list" THEN <<tail[1]>> ELSE <<>>
SigIn(tail) ==
    IF tail # <<>> /\ Last(tail).kind = "envelope"
    THEN <<decodeSignatureEnvelope(Last(tail))>> ELSE <<>>

SigMagnitude(p) == IF p = <<>> THEN <<>> ELSE <<EnvelopeMagnitudes(p[1])>>

LEMMA WrittenTail ==
    ASSUME NEW keyAuth, keyAuth = <<>> \/ \E k : keyAuth = <<k>> /\ k.kind = "list",
           NEW sig \in Pointers(Signatures),
           sig # <<>> => WritableEnvelope(sig[1]),
           NEW tail, tail = TailOf(keyAuth, sig)
    PROVE  /\ IsTail(tail) /\ (ValidTail(tail) <=> (sig # <<>> => sig[1].type # "unknown"))
           /\ AuthIn(tail) = keyAuth /\ SigIn(tail) = SigMagnitude(sig)
           /\ \A i \in DOMAIN tail : tail[i].kind = "list" => <<tail[i]>> = keyAuth
<1>1. CASE keyAuth = <<>> /\ sig = <<>>
  <2>1. tail = <<>>
    BY <1>1 DEF TailOf
  <2>2. IsSeq(tail) /\ DOMAIN tail = {}
    BY <2>1 DEF IsSeq
  <2>. QED
    BY <1>1, <2>1, <2>2 DEF IsTail, ValidTail, AuthIn, SigIn, SigMagnitude
<1>2. ASSUME NEW k, keyAuth = <<k>>, k.kind = "list", sig = <<>>
      PROVE  /\ IsTail(tail) /\ ValidTail(tail) /\ tail = <<k>>
             /\ Last(tail).kind # "envelope"
  <2>1. tail = <<k>>
    BY <1>2 DEF TailOf
  <2>2. IsSeq(tail) /\ DOMAIN tail = 1..1 /\ Len(tail) = 1 /\ tail[1] = k
    BY <2>1 DEF IsSeq
  <2>. QED
    BY <1>2, <2>1, <2>2 DEF IsTail, ValidTail, Last
<1>3. ASSUME NEW s \in Signatures, sig = <<s>>
      PROVE  LET e == encodeSignatureEnvelope(s)
             IN  /\ e.kind = "envelope" /\ IsEnvelope(e)
                 /\ ValidEnvelope(e) <=> s.type # "unknown"
                 /\ decodeSignatureEnvelope(e) = EnvelopeMagnitudes(s)
  <2>1. sig # <<>> /\ sig[1] = s
    BY <1>3
  <2>. QED
    BY <2>1, EncodedEnvelope
<1>4. ASSUME NEW s \in Signatures, sig = <<s>>, keyAuth = <<>>,
             NEW e, e = encodeSignatureEnvelope(s)
      PROVE  /\ IsTail(tail) /\ (ValidTail(tail) <=> s.type # "unknown")
             /\ tail = <<e>> /\ Last(tail) = e
  <2>1. tail = <<e>>
    BY <1>4 DEF TailOf
  <2>2. IsSeq(tail) /\ DOMAIN tail = 1..1 /\ Len(tail) = 1 /\ tail[1] = e
    BY <2>1 DEF IsSeq
  <2>. QED
    BY <1>3, <1>4, <2>1, <2>2 DEF IsTail, ValidTail, Last
<1>5. ASSUME NEW s \in Signatures, sig = <<s>>, NEW k, keyAuth = <<k>>, k.kind = "list",
             NEW e, e = encodeSignatureEnvelope(s)
      PROVE  /\ IsTail(tail) /\ (ValidTail(tail) <=> s.type # "unknown")
             /\ tail = <<k, e>> /\ Last(tail) = e
  <2>0. sig # <<>> /\ sig[1] = s
    BY <1>5
  <2>1. tail = <<k, e>>
    <3>1. tail = <<k>> \o <<e>>
      BY <1>5, <2>0 DEF TailOf
    <3>2. <<k>> \o <<e>> = <<k, e>>
      BY Joined
    <3>. QED
      BY <3>1, <3>2
  <2>2. /\ IsSeq(tail) /\ DOMAIN tail = 1..2 /\ Len(tail) = 2
        /\ tail[1] = k /\ tail[2] = e
    BY <2>1 DEF IsSeq
  <2>. QED
    BY <1>3, <1>5, <2>1, <2>2 DEF IsTail, ValidTail, Last
<1>6. sig = <<>> \/ \E s \in Signatures : sig = <<s>>
  BY PointersForm
<1>7. CASE sig = <<>>
  BY <1>1, <1>2, <1>7 DEF AuthIn, SigIn, SigMagnitude
<1>8. ASSUME NEW s \in Signatures, sig = <<s>>, NEW e, e = encodeSignatureEnvelope(s)
      PROVE  /\ IsTail(tail) /\ (ValidTail(tail) <=> s.type # "unknown")
             /\ AuthIn(tail) = keyAuth
             /\ tail # <<>> /\ Last(tail) = e
             /\ \A i \in DOMAIN tail : tail[i].kind = "list" => <<tail[i]>> = keyAuth
  <2>1. e.kind = "envelope"
    BY <1>3, <1>8
  <2>2. CASE keyAuth = <<>>
    <3>1. /\ IsTail(tail) /\ (ValidTail(tail) <=> s.type # "unknown")
          /\ tail = <<e>> /\ Last(tail) = e
      BY <1>4, <1>8, <2>2
    <3>. QED
      BY <2>1, <2>2, <3>1 DEF AuthIn
  <2>3. ASSUME NEW k, keyAuth = <<k>>, k.kind = "list"
        PROVE  /\ IsTail(tail) /\ (ValidTail(tail) <=> s.type # "unknown")
               /\ tail = <<k, e>> /\ Last(tail) = e
    BY <1>5, <1>8, <2>3
  <2>4. keyAuth # <<>> => AuthIn(tail) = keyAuth
    BY <2>3 DEF AuthIn
  <2>. QED
    BY <2>1, <2>2, <2>3, <2>4
<1>9. ASSUME NEW s \in Signatures, sig = <<s>>
      PROVE  sig # <<>> /\ sig[1] = s /\ SigMagnitude(sig) = <<EnvelopeMagnitudes(s)>>
  BY <1>9 DEF SigMagnitude
<1>. QED
  BY <1>3, <1>6, <1>7, <1>8, <1>9 DEF SigIn

-----------------------------------------------------------------------------
(* What is written is read again.                                          *)

LEMMA TxForm ==
    ASSUME NEW t, IsTx(t)
    PROVE  \E num, calls, accessList, feeToken, feePayerSig, awaiting, keyAuth, sig :
             /\ t = [num |-> num, calls |-> calls, accessList |-> accessList,
                     feeToken |-> feeToken, feePayerSig |-> feePayerSig,
                     awaiting |-> awaiting, keyAuth |-> keyAuth, sig |-> sig]
             /\ num \in [NumFields -> Int]
             /\ \A f \in WordFields : num[f] \in Below(WordLen)
             /\ calls \in Seq(Calls) /\ accessList \in AccessList
             /\ feeToken \in Below(AddressLen)
             /\ feePayerSig \in Pointers(FeePayerSignatures) /\ awaiting \in BOOLEAN
             /\ keyAuth = <<>> \/ \E k : keyAuth = <<k>> /\ k.kind = "list"
             /\ sig \in Pointers(Signatures)
<1>1. t.keyAuth = <<>> \/ \E k : t.keyAuth = <<k>> /\ k.kind = "list"
  BY Zenon DEF IsTx
<1>. QED
  BY <1>1, Zenon DEF IsTx

\* A transaction as it is read from what it was written as.
Reread(t) == [ChainKnown(Magnitudes(t)) EXCEPT !.awaiting = @ /\ t.feePayerSig = <<>>]

LEMMA MagnitudesForm ==
    ASSUME NEW num, NEW calls, NEW accessList, NEW feeToken, NEW feePayerSig,
           NEW awaiting, NEW keyAuth, NEW sig, NEW t,
           t = [num |-> num, calls |-> calls, accessList |-> accessList,
                feeToken |-> feeToken, feePayerSig |-> feePayerSig,
                awaiting |-> awaiting, keyAuth |-> keyAuth, sig |-> sig]
    PROVE  Magnitudes(t) =
             [num |-> NumbersMagnitude(num), calls |-> CallsMagnitude(calls),
              accessList |-> accessList, feeToken |-> feeToken,
              feePayerSig |-> PayerMagnitude(feePayerSig), awaiting |-> awaiting,
              keyAuth |-> keyAuth, sig |-> SigMagnitude(sig)]
<1>1. /\ t.num = num /\ t.calls = calls /\ t.feePayerSig = feePayerSig /\ t.sig = sig
  OBVIOUS
<1>2. PICK n, c, p, s : /\ n = NumbersMagnitude(num) /\ c = CallsMagnitude(calls)
                        /\ p = PayerMagnitude(feePayerSig) /\ s = SigMagnitude(sig)
  OBVIOUS
<1>3. Magnitudes(t) = [t EXCEPT !.num = n, !.calls = c, !.feePayerSig = p, !.sig = s]
  BY <1>1, <1>2, Zenon
     DEF Magnitudes, NumbersMagnitude, CallsMagnitude, PayerMagnitude, SigMagnitude
<1>4. [t EXCEPT !.num = n, !.calls = c, !.feePayerSig = p, !.sig = s] =
        [num |-> n, calls |-> c, accessList |-> accessList, feeToken |-> feeToken,
         feePayerSig |-> p, awaiting |-> awaiting, keyAuth |-> keyAuth, sig |-> s]
  <2>1. PICK u : u = [t EXCEPT !.num = n]
    OBVIOUS
  <2>2. PICK v : v = [u EXCEPT !.calls = c]
    OBVIOUS
  <2>3. PICK w : w = [v EXCEPT !.feePayerSig = p]
    OBVIOUS
  <2>4. u = [num |-> n, calls |-> calls, accessList |-> accessList, feeToken |-> feeToken,
             feePayerSig |-> feePayerSig, awaiting |-> awaiting, keyAuth |-> keyAuth,
             sig |-> sig]
    BY <2>1
  <2>5. v = [num |-> n, calls |-> c, accessList |-> accessList, feeToken |-> feeToken,
             feePayerSig |-> feePayerSig, awaiting |-> awaiting, keyAuth |-> keyAuth,
             sig |-> sig]
    BY <2>2, <2>4
  <2>6. w = [num |-> n, calls |-> c, accessList |-> accessList, feeToken |-> feeToken,
             feePayerSig |-> p, awaiting |-> awaiting, keyAuth |-> keyAuth, sig |-> sig]
    BY <2>3, <2>5
  <2>7. [w EXCEPT !.sig = s] =
          [num |-> n, calls |-> c, accessList |-> accessList, feeToken |-> feeToken,
           feePayerSig |-> p, awaiting |-> awaiting, keyAuth |-> keyAuth, sig |-> s]
    BY <2>6
  <2>. QED
    BY <2>1, <2>2, <2>3, <2>7, Zenon
<1>. QED
  BY <1>2, <1>3, <1>4, Zenon

\* A transaction as it is written, with or without tempo.ts's suffix.
Sent(t, suffix) == [Serialize(t) EXCEPT !.suffix = suffix]

LEMMA WrittenIsRead ==
    ASSUME NEW t, IsTx(t), Writable(t), NEW suffix \in BOOLEAN, NEW w, w = Sent(t, suffix)
    PROVE  /\ IsString(w) /\ ((Readable(w) <=> KnownSignatures(t)) \/ EndsLikeMarker(w))
           /\ Deserialize(w) = Reread(t)
           /\ \A i \in DOMAIN w.tail : w.tail[i].kind = "list" => <<w.tail[i]>> = t.keyAuth
<1>1. PICK num, calls, accessList, feeToken, feePayerSig, awaiting, keyAuth, sig :
             /\ t = [num |-> num, calls |-> calls, accessList |-> accessList,
                     feeToken |-> feeToken, feePayerSig |-> feePayerSig,
                     awaiting |-> awaiting, keyAuth |-> keyAuth, sig |-> sig]
             /\ num \in [NumFields -> Int]
             /\ \A f \in WordFields : num[f] \in Below(WordLen)
             /\ calls \in Seq(Calls) /\ accessList \in AccessList
             /\ feeToken \in Below(AddressLen)
             /\ feePayerSig \in Pointers(FeePayerSignatures) /\ awaiting \in BOOLEAN
             /\ keyAuth = <<>> \/ \E k : keyAuth = <<k>> /\ k.kind = "list"
             /\ sig \in Pointers(Signatures)
  BY TxForm
<1>2. /\ t.num = num /\ t.calls = calls /\ t.accessList = accessList
      /\ t.feeToken = feeToken /\ t.feePayerSig = feePayerSig
      /\ t.awaiting = awaiting /\ t.keyAuth = keyAuth /\ t.sig = sig
  BY <1>1
<1>3. PICK p, c, a, x, y, tail :
             /\ p = NumbersOf(num)
             /\ c = [i \in DOMAIN calls |-> encodeCall(calls[i])]
             /\ a = [i \in DOMAIN accessList |-> encodeAccess(accessList[i])]
             /\ x = encodeFeeToken(feeToken) /\ y = encodeFeePayerField(t)
             /\ tail = TailOf(keyAuth, sig)
  OBVIOUS
<1>4. w = [prefix |-> "76", suffix |-> suffix, num |-> p, calls |-> List(c),
           accessList |-> List(a), feeToken |-> x, feePayer |-> y,
           authList |-> List(<<>>), tail |-> tail]
  <2>1. PICK plain, none : plain = Serialize(t) /\ none = List(<<>>)
    OBVIOUS
  <2>2. plain = [prefix |-> "76", suffix |-> FALSE, num |-> p, calls |-> List(c),
                 accessList |-> List(a), feeToken |-> x, feePayer |-> y,
                 authList |-> none, tail |-> tail]
    BY <1>2, <1>3, <2>1, Zenon DEF Serialize, TailOf, NumbersOf
  <2>3. [plain EXCEPT !.suffix = suffix] =
            [prefix |-> "76", suffix |-> suffix, num |-> p, calls |-> List(c),
             accessList |-> List(a), feeToken |-> x, feePayer |-> y,
             authList |-> none, tail |-> tail]
    BY <2>2
  <2>. QED
    BY <2>1, <2>3, Zenon DEF Sent
<1>5. /\ w.prefix = "76" /\ w.suffix = suffix /\ w.num = p /\ w.calls = List(c)
      /\ w.accessList = List(a) /\ w.feeToken = x /\ w.feePayer = y
      /\ w.authList = List(<<>>) /\ w.tail = tail
  BY <1>4
<1>6. /\ \A f \in NumFields : IsItem(p[f])
      /\ \A f \in WordFields : Given(p[f]) => FitsWord(p[f])
      /\ NumbersIn(p) = NumbersKnown(NumbersMagnitude(num))
  BY <1>1, <1>3, WrittenNumbers
<1>7. /\ IsNested(List(c)) /\ \A i \in DOMAIN c : IsList(c[i], 3)
      /\ [i \in DOMAIN c |-> decodeCall(c[i])] = CallsMagnitude(calls)
  BY <1>1, <1>3, WrittenCalls
<1>8. /\ IsDeep(List(a)) /\ \A i \in DOMAIN a : ValidAccess(a[i])
      /\ [i \in DOMAIN a |-> decodeAccess(a[i])] = accessList
  BY <1>1, <1>3, WrittenAccessList
<1>9. IsItem(x) /\ (IF Given(x) THEN ToAddress(x) ELSE 0) = feeToken
  BY <1>1, <1>3, WrittenFeeToken
<1>10. /\ IsFlat(y)
       /\ (IsList(y, 3) => ValidSignature(y))
             <=> (feePayerSig # <<>> => ScalarsFit(feePayerSig[1]))
       /\ (IF IsList(y, 3) THEN <<decodeSignature(y)>> ELSE <<>>)
             = PayerMagnitude(feePayerSig)
       /\ (y = Marker) = (awaiting /\ feePayerSig = <<>>)
  BY <1>1, <1>2, <1>3, WrittenFeePayer
<1>11. /\ IsTail(tail) /\ (ValidTail(tail) <=> (sig # <<>> => sig[1].type # "unknown"))
       /\ AuthIn(tail) = keyAuth /\ SigIn(tail) = SigMagnitude(sig)
       /\ \A i \in DOMAIN tail : tail[i].kind = "list" => <<tail[i]>> = keyAuth
  <2>1. sig # <<>> => WritableEnvelope(sig[1])
    BY <1>2 DEF Writable
  <2>. QED
    BY <1>1, <1>3, <2>1, WrittenTail
<1>12. IsString(w)
  <2>1. w.num = [f \in NumFields |-> w.num[f]]
    BY <1>3, <1>5 DEF NumbersOf
  <2>2. \A f \in NumFields : IsItem(w.num[f])
    BY <1>5, <1>6
  <2>3. w = [prefix |-> w.prefix, suffix |-> w.suffix, num |-> w.num, calls |-> w.calls,
             accessList |-> w.accessList, feeToken |-> w.feeToken,
             feePayer |-> w.feePayer, authList |-> w.authList, tail |-> w.tail]
    BY <1>4, <1>5, Zenon
  <2>. QED
    BY <1>5, <1>7, <1>8, <1>9, <1>10, <1>11, <2>1, <2>2, <2>3, Zenon DEF IsString
<1>13. (Readable(w) <=> KnownSignatures(t)) \/ EndsLikeMarker(w)
  <2>1. /\ List(c).kind = "list" /\ List(c).items = c
        /\ List(a).kind = "list" /\ List(a).items = a
    BY ListForm
  <2>2. KnownSignatures(t) <=>
            /\ feePayerSig # <<>> => ScalarsFit(feePayerSig[1])
            /\ sig # <<>> => sig[1].type # "unknown"
    BY <1>2 DEF KnownSignatures
  <2>3. KnownSignatures(t) <=> (IsList(y, 3) => ValidSignature(y)) /\ ValidTail(tail)
    BY <1>10, <1>11, <2>2
  <2>4. ~EndsLikeMarker(w) =>
            (Readable(w) <=> (IsList(y, 3) => ValidSignature(y)) /\ ValidTail(tail))
    BY <1>5, <1>6, <1>7, <1>8, <2>1, Zenon DEF Readable
  <2>. QED
    BY <2>3, <2>4
<1>14. Deserialize(w) = Reread(t)
  <2>1. /\ List(c).kind = "list" /\ List(c).items = c
        /\ List(a).kind = "list" /\ List(a).items = a
    BY ListForm
  <2>2. Deserialize(w) =
          [num |-> NumbersKnown(NumbersMagnitude(num)),
           calls |-> CallsMagnitude(calls), accessList |-> accessList,
           feeToken |-> feeToken, feePayerSig |-> PayerMagnitude(feePayerSig),
           awaiting |-> awaiting /\ feePayerSig = <<>>,
           keyAuth |-> keyAuth, sig |-> SigMagnitude(sig)]
    BY <1>5, <1>6, <1>7, <1>8, <1>9, <1>10, <1>11, <2>1, Zenon
       DEF Deserialize, NumbersIn, AuthIn, SigIn
  <2>3. Reread(t) =
          [num |-> NumbersKnown(NumbersMagnitude(num)),
           calls |-> CallsMagnitude(calls), accessList |-> accessList,
           feeToken |-> feeToken, feePayerSig |-> PayerMagnitude(feePayerSig),
           awaiting |-> awaiting /\ feePayerSig = <<>>,
           keyAuth |-> keyAuth, sig |-> SigMagnitude(sig)]
    <3>0. PICK m, mcalls, mpayer, msig, u :
             /\ m = NumbersMagnitude(num) /\ mcalls = CallsMagnitude(calls)
             /\ mpayer = PayerMagnitude(feePayerSig) /\ msig = SigMagnitude(sig)
             /\ u = Magnitudes(t)
      OBVIOUS
    <3>1. PICK n : n = NumbersKnown(m)
      OBVIOUS
    <3>2. PICK k : k = ChainKnown(u)
      OBVIOUS
    <3>a. u = [num |-> m, calls |-> mcalls, accessList |-> accessList,
               feeToken |-> feeToken, feePayerSig |-> mpayer, awaiting |-> awaiting,
               keyAuth |-> keyAuth, sig |-> msig]
      <4>1. t = [num |-> num, calls |-> calls, accessList |-> accessList,
                 feeToken |-> feeToken, feePayerSig |-> feePayerSig,
                 awaiting |-> awaiting, keyAuth |-> keyAuth, sig |-> sig]
        BY <1>1
      <4>2. Magnitudes(t) =
              [num |-> NumbersMagnitude(num), calls |-> CallsMagnitude(calls),
               accessList |-> accessList, feeToken |-> feeToken,
               feePayerSig |-> PayerMagnitude(feePayerSig), awaiting |-> awaiting,
               keyAuth |-> keyAuth, sig |-> SigMagnitude(sig)]
        BY <4>1, MagnitudesForm
      <4>. QED
        BY <3>0, <4>2, Zenon
    <3>3. k = [num |-> n, calls |-> mcalls, accessList |-> accessList,
               feeToken |-> feeToken, feePayerSig |-> mpayer, awaiting |-> awaiting,
               keyAuth |-> keyAuth, sig |-> msig]
      BY <3>a, <3>1, <3>2 DEF ChainKnown, NumbersKnown
    <3>4. Reread(t) = [k EXCEPT !.awaiting = @ /\ feePayerSig = <<>>]
      BY <1>2, <3>0, <3>2 DEF Reread
    <3>5. Reread(t) =
            [num |-> n, calls |-> mcalls, accessList |-> accessList,
             feeToken |-> feeToken, feePayerSig |-> mpayer,
             awaiting |-> awaiting /\ feePayerSig = <<>>,
             keyAuth |-> keyAuth, sig |-> msig]
      BY <3>3, <3>4
    <3>. QED
      BY <3>0, <3>1, <3>5, Zenon
  <2>. QED
    BY <2>2, <2>3
<1>. QED
  BY <1>2, <1>5, <1>11, <1>12, <1>13, <1>14

-----------------------------------------------------------------------------
(* What is read is a transaction that can be written.                      *)

LEMMA EmptyIsItem == Empty \in ByteStrings /\ IsBytes(Empty) /\ ~Given(Empty)
<1>1. 0 < Power[0]
  BY PowerType
<1>. QED
  BY <1>1 DEF Empty, Bytes, ByteStrings, IsBytes, Given

LEMMA NumbersRead ==
    ASSUME NEW p, \A f \in NumFields : IsItem(p[f]),
           \A f \in WordFields : Given(p[f]) => FitsWord(p[f])
    PROVE  /\ NumbersIn(p) \in [NumFields -> Nat]
           /\ \A f \in WordFields : NumbersIn(p)[f] \in Below(WordLen)
           /\ NumbersMagnitude(NumbersIn(p)) = NumbersIn(p)
<1>1. ASSUME NEW f \in NumFields PROVE NumbersIn(p)[f] \in Nat
  <2>1. Given(p[f]) => p[f].val \in Nat
    BY ItemValue DEF Given
  <2>2. MainnetId \in Nat
    BY WidthAssumption, WidthsArePositive DEF Below
  <2>. QED
    BY <2>1, <2>2 DEF NumbersIn, New
<1>2. ASSUME NEW f \in WordFields PROVE NumbersIn(p)[f] \in Below(WordLen)
  <2>1. f \in NumFields /\ f # "chainID"
    BY DEF WordFields, NumFields
  <2>2. NumbersIn(p)[f] = IF Given(p[f]) THEN p[f].val ELSE 0
    BY <2>1 DEF NumbersIn, New
  <2>. QED
    BY <2>2, WidthsArePositive DEF FitsWord
<1>3. PICK num : num = NumbersIn(p)
  OBVIOUS
<1>4. num = [f \in NumFields |-> num[f]] /\ \A f \in NumFields : num[f] \in Nat
  BY <1>1, <1>3 DEF NumbersIn
<1>5. \A f \in NumFields : Magnitude(num[f]) = num[f]
  BY <1>4, MagnitudeForm
<1>6. NumbersMagnitude(num) = num
  BY <1>4, <1>5 DEF NumbersMagnitude
<1>. QED
  BY <1>2, <1>3, <1>4, <1>6

LEMMA CallRead ==
    ASSUME NEW c, IsFlat(c), IsList(c, 3)
    PROVE  decodeCall(c) \in Calls /\ CallMagnitude(decodeCall(c)) = decodeCall(c)
<1>1. c.kind = "list" /\ Len(c.items) = 3
  BY DEF IsList
<1>2. \A i \in 1..3 : IsItem(c.items[i])
  <2>1. DOMAIN c.items = 1..3
    BY <1>1 DEF IsFlat, IsSeq
  <2>. QED
    BY <1>1, <2>1 DEF IsFlat
<1>3. PICK x, y, z : x = c.items[1] /\ y = c.items[2] /\ z = c.items[3]
  OBVIOUS
<1>4. IsItem(x) /\ IsItem(y) /\ IsItem(z)
  BY <1>2, <1>3
<1>5. (IF Given(x) THEN <<ToAddress(x)>> ELSE <<>>) \in Pointers(Below(AddressLen))
  <2>1. CASE Given(x)
    <3>1. ToAddress(x) \in Below(AddressLen)
      BY <1>4, <2>1, CutValue DEF Given, ToAddress
    <3>. QED
      BY <2>1, <3>1, PointersForm
  <2>2. CASE ~Given(x)
    BY <2>2, PointersForm
  <2>. QED
    BY <2>1, <2>2
<1>6. (IF Given(y) THEN y.val ELSE 0) \in Nat
  BY <1>4, ItemValue DEF Given
<1>7. (IF IsBytes(z) THEN z ELSE Empty) \in ByteStrings
  BY <1>4, ItemValue, EmptyIsItem
<1>8. PICK to, value, data :
          /\ to = (IF Given(x) THEN <<ToAddress(x)>> ELSE <<>>)
          /\ value = (IF Given(y) THEN y.val ELSE 0)
          /\ data = (IF IsBytes(z) THEN z ELSE Empty)
  OBVIOUS
<1>9. decodeCall(c) = [to |-> to, value |-> value, data |-> data]
  BY <1>3, <1>8, Zenon DEF decodeCall
<1>10. to \in Pointers(Below(AddressLen)) /\ value \in Nat /\ data \in ByteStrings
  BY <1>5, <1>6, <1>7, <1>8
<1>11. value \in Int /\ Magnitude(value) = value
  BY <1>10, MagnitudeForm
<1>12. CallMagnitude([to |-> to, value |-> value, data |-> data])
           = [to |-> to, value |-> value, data |-> data]
  BY <1>11 DEF CallMagnitude
<1>. QED
  BY <1>9, <1>10, <1>11, <1>12 DEF Calls

LEMMA CallsRead ==
    ASSUME NEW x, IsNested(x), x.kind = "list", \A i \in DOMAIN x.items : IsList(x.items[i], 3)
    PROVE  LET calls == [i \in DOMAIN x.items |-> decodeCall(x.items[i])]
           IN  calls \in Seq(Calls) /\ CallsMagnitude(calls) = calls
<1>1. PICK n \in Nat : DOMAIN x.items = 1..n
  BY DEF IsNested, IsFlat, IsSeq
<1>2. \A i \in 1..n : /\ decodeCall(x.items[i]) \in Calls
                      /\ CallMagnitude(decodeCall(x.items[i])) = decodeCall(x.items[i])
  BY <1>1, CallRead DEF IsNested
<1>3. PICK calls : calls = [i \in 1..n |-> decodeCall(x.items[i])]
  OBVIOUS
<1>4. /\ calls \in [1..n -> Calls] /\ DOMAIN calls = 1..n
      /\ \A i \in 1..n : CallMagnitude(calls[i]) = calls[i]
  BY <1>2, <1>3
<1>5. calls = [i \in 1..n |-> calls[i]]
  BY <1>3
<1>6. CallsMagnitude(calls) = [i \in 1..n |-> calls[i]]
  BY <1>4 DEF CallsMagnitude
<1>7. calls \in Seq(Calls)
  BY <1>4, MadeSeq
<1>. QED
  BY <1>1, <1>3, <1>5, <1>6, <1>7, Zenon

LEMMA AccessRead ==
    ASSUME NEW e, IsNested(e), ValidAccess(e)
    PROVE  decodeAccess(e) \in [address : Below(AddressLen), keys : Seq(Below(HashLen))]
<1>1. e.kind = "list" /\ Len(e.items) = 2
  BY DEF ValidAccess, IsList
<1>2. PICK x, y : x = e.items[1] /\ y = e.items[2]
  OBVIOUS
<1>3. IsItem(x) /\ IsFlat(y) /\ IsBytes(x) /\ y.kind = "list"
  <2>1. DOMAIN e.items = 1..2
    BY <1>1 DEF IsNested, IsFlat, IsSeq
  <2>2. IsFlat(x) /\ IsFlat(y)
    BY <1>1, <1>2, <2>1 DEF IsNested
  <2>. QED
    BY <1>2, <2>2 DEF ValidAccess, IsFlat
<1>4. PICK keys : keys = y.items
  OBVIOUS
<1>5. PICK n \in Nat : DOMAIN keys = 1..n
  BY <1>3, <1>4 DEF IsFlat, IsSeq
<1>6. \A i \in 1..n : IsItem(keys[i]) /\ IsBytes(keys[i])
  BY <1>2, <1>3, <1>4, <1>5 DEF IsFlat, ValidAccess
<1>7. \A i \in 1..n : ToHash(keys[i]) \in Below(HashLen)
  BY <1>6, CutValue DEF ToHash
<1>8. [i \in 1..n |-> ToHash(keys[i])] \in [1..n -> Below(HashLen)]
  BY <1>7
<1>9. [i \in 1..n |-> ToHash(keys[i])] \in Seq(Below(HashLen))
  BY <1>8, MadeSeq
<1>10. ToAddress(x) \in Below(AddressLen)
  BY <1>3, CutValue DEF ToAddress
<1>11. decodeAccess(e) =
           [address |-> ToAddress(x), keys |-> [i \in 1..n |-> ToHash(keys[i])]]
  BY <1>2, <1>4, <1>5, Zenon DEF decodeAccess
<1>. QED
  BY <1>9, <1>10, <1>11

LEMMA AccessListRead ==
    ASSUME NEW x, IsDeep(x), x.kind = "list", \A i \in DOMAIN x.items : ValidAccess(x.items[i])
    PROVE  [i \in DOMAIN x.items |-> decodeAccess(x.items[i])] \in AccessList
<1>. DEFINE S == [address : Below(AddressLen), keys : Seq(Below(HashLen))]
<1>1. PICK n \in Nat : DOMAIN x.items = 1..n
  BY DEF IsDeep, IsFlat, IsSeq
<1>2. \A i \in 1..n : decodeAccess(x.items[i]) \in S
  BY <1>1, AccessRead DEF IsDeep
<1>. HIDE DEF S
<1>3. [i \in 1..n |-> decodeAccess(x.items[i])] \in [1..n -> S]
  BY <1>2
<1>4. [i \in 1..n |-> decodeAccess(x.items[i])] \in Seq(S)
  BY <1>3, MadeSeq
<1>. QED
  BY <1>1, <1>4 DEF AccessList, S

LEMMA SignatureRead ==
    ASSUME NEW x, IsFlat(x), IsList(x, 3), ValidSignature(x)
    PROVE  /\ decodeSignature(x) \in FeePayerSignatures /\ ScalarsFit(decodeSignature(x))
           /\ ScalarMagnitudes(decodeSignature(x)) = decodeSignature(x)
<1>1. \A i \in 1..3 : IsItem(x.items[i]) /\ IsBytes(x.items[i])
  <2>1. DOMAIN x.items = 1..3
    BY DEF IsList, IsFlat, IsSeq
  <2>. QED
    BY <2>1 DEF IsList, IsFlat, ValidSignature
<1>2. \A i \in 1..3 : /\ x.items[i].len \in Nat /\ x.items[i].val \in Nat
                      /\ x.items[i].val < Power[x.items[i].len]
  BY <1>1, ItemValue
<1>3. x.items[1].val \in 0..1
  BY <1>2 DEF ValidSignature
<1>4. ASSUME NEW i \in {2, 3} PROVE x.items[i].val \in Below(HashLen)
  <2>1. PICK l \in Nat, v \in Nat : l = x.items[i].len /\ v = x.items[i].val /\ v < Power[l]
    BY <1>2
  <2>2. l <= HashLen /\ HashLen \in Nat
    BY <2>1, WidthsArePositive DEF ValidSignature
  <2>3. Power[l] <= Power[HashLen] /\ Power[l] \in Nat /\ Power[HashLen] \in Nat
    BY <2>1, <2>2, PowerGrows, PowerType
  <2>. QED
    BY <2>1, <2>3 DEF Below
<1>5. PICK v, r, t : v = x.items[1].val /\ r = x.items[2].val /\ t = x.items[3].val
  OBVIOUS
<1>6. decodeSignature(x) = [yParity |-> v, r |-> r, s |-> t]
  BY <1>5, Zenon DEF decodeSignature
<1>7. v \in 0..1 /\ r \in Below(HashLen) /\ t \in Below(HashLen)
  BY <1>3, <1>4, <1>5
<1>8. r \in Nat /\ t \in Nat /\ v \in Below(1)
  <2>1. Power[1] \in Nat /\ 1 < Power[1]
    BY PowerType
  <2>. QED
    BY <1>7, <2>1, WidthsArePositive DEF Below
<1>9. Magnitude(r) = r /\ Magnitude(t) = t
  BY <1>8, MagnitudeForm
<1>10. PICK d : d = [yParity |-> v, r |-> r, s |-> t]
  OBVIOUS
<1>11. ScalarMagnitudes(d) = d
  BY <1>9, <1>10, ScalarMagnitudesForm
<1>12. d \in FeePayerSignatures /\ ScalarsFit(d)
  BY <1>7, <1>8, <1>9, <1>10 DEF FeePayerSignatures, ScalarsFit
<1>. QED
  BY <1>6, <1>10, <1>11, <1>12

LEMMA EnvelopeRead ==
    ASSUME NEW x, IsEnvelope(x), ValidEnvelope(x), NEW s, s = decodeSignatureEnvelope(x)
    PROVE  /\ s \in Signatures /\ WritableEnvelope(s) /\ s.type # "unknown"
           /\ EnvelopeMagnitudes(s) = s
<1>1. CASE x.of.type = "secp256k1"
  <2>1. x.of \in [type : {"secp256k1"}, r : Below(HashLen), s : Below(HashLen),
                  recoveryID : Nat]
    BY <1>1 DEF IsEnvelope
  <2>2. x.of.recoveryID \in {0, 1, 27, 28}
    BY <1>1 DEF ValidEnvelope, RawTypes
  <2>3. PICK v : v = IF x.of.recoveryID \in {27, 28} THEN x.of.recoveryID - 27
                                                     ELSE x.of.recoveryID
    OBVIOUS
  <2>4. s = [type |-> "secp256k1", r |-> x.of.r, s |-> x.of.s, yParity |-> v]
    BY <1>1, <2>3 DEF decodeSignatureEnvelope
  <2>5. v \in {0, 1}
    BY <2>2, <2>3
  <2>6. PICK r, t : r = x.of.r /\ t = x.of.s
    OBVIOUS
  <2>7. r \in Below(HashLen) /\ t \in Below(HashLen) /\ r \in Nat /\ t \in Nat
    BY <2>1, <2>6, WidthsArePositive DEF Below
  <2>8. Magnitude(r) = r /\ Magnitude(t) = t
    BY <2>7, MagnitudeForm
  <2>9. s = [type |-> "secp256k1", r |-> r, s |-> t, yParity |-> v]
    BY <2>4, <2>6
  <2>10. v \in Below(1)
    <3>1. Power[1] \in Nat /\ 1 < Power[1]
      BY PowerType
    <3>. QED
      BY <2>5, <3>1 DEF Below
  <2>11. s \in Signatures /\ s.type = "secp256k1" /\ ScalarsFit(s)
    BY <2>5, <2>7, <2>8, <2>9, <2>10 DEF Signatures, ScalarsFit
  <2>12. EnvelopeMagnitudes(s) = s
    <3>1. PICK u : u = [s EXCEPT !.r = r]
      OBVIOUS
    <3>2. u = [type |-> "secp256k1", r |-> r, s |-> t, yParity |-> v]
      BY <2>9, <3>1
    <3>3. [u EXCEPT !.s = t] = [type |-> "secp256k1", r |-> r, s |-> t, yParity |-> v]
      BY <3>2
    <3>4. s.r = r /\ s.s = t
      BY <2>9
    <3>5. ScalarMagnitudes(s) = [u EXCEPT !.s = t]
      BY <2>8, <3>1, <3>4, Zenon DEF ScalarMagnitudes
    <3>. QED
      BY <2>9, <2>11, <3>3, <3>5, Zenon DEF EnvelopeMagnitudes
  <2>. QED
    BY <2>11, <2>12 DEF WritableEnvelope
<1>2. CASE x.of.type # "secp256k1"
  <2>1. x.of.type \in RawTypes
    BY <1>2 DEF ValidEnvelope
  <2>2. s = x.of /\ x.of \in RawSignatures
    BY <1>2, <2>1 DEF decodeSignatureEnvelope, IsEnvelope
  <2>3. s.type # "secp256k1" /\ s.type # "unknown" /\ s.type # "hollow"
    BY <1>2, <2>1, <2>2 DEF RawTypes
  <2>. QED
    BY <2>2, <2>3 DEF Signatures, WritableEnvelope, EnvelopeMagnitudes
<1>. QED
  BY <1>1, <1>2

LEMMA TailRead ==
    ASSUME NEW tail, IsTail(tail), ValidTail(tail)
    PROVE  /\ SigIn(tail) \in Pointers(Signatures)
           /\ SigIn(tail) # <<>> =>
                  WritableEnvelope(SigIn(tail)[1]) /\ SigIn(tail)[1].type # "unknown"
           /\ SigMagnitude(SigIn(tail)) = SigIn(tail)
           /\ AuthIn(tail) = <<>> \/ \E i \in DOMAIN tail : /\ AuthIn(tail) = <<tail[i]>>
                                                            /\ tail[i].kind = "list"
<1>1. AuthIn(tail) = <<>> \/ \E i \in DOMAIN tail : /\ AuthIn(tail) = <<tail[i]>>
                                                    /\ tail[i].kind = "list"
  <2>1. tail # <<>> => 1 \in DOMAIN tail
    BY DEF IsTail, IsSeq, ValidTail
  <2>. QED
    BY <2>1 DEF AuthIn
<1>2. CASE SigIn(tail) = <<>>
  BY <1>1, <1>2, PointersForm DEF SigMagnitude
<1>3. CASE SigIn(tail) # <<>>
  <2>1. tail # <<>> /\ Last(tail).kind = "envelope"
    BY <1>3 DEF SigIn
  <2>2. PICK x : x = Last(tail)
    OBVIOUS
  <2>3. IsEnvelope(x) /\ ValidEnvelope(x)
    <3>1. CASE Len(tail) = 1
      <4>1. x = tail[1] /\ 1 \in DOMAIN tail
        BY <2>2, <3>1 DEF Last, IsTail, IsSeq
      <4>. QED
        BY <2>1, <2>2, <3>1, <4>1 DEF IsTail, ValidTail
    <3>2. CASE Len(tail) = 2
      <4>1. x = tail[2] /\ 2 \in DOMAIN tail
        BY <2>2, <3>2 DEF Last, IsTail, IsSeq
      <4>. QED
        BY <2>1, <2>2, <3>2, <4>1 DEF IsTail, ValidTail
    <3>. QED
      BY <2>1, <3>1, <3>2 DEF ValidTail
  <2>4. PICK s : s = decodeSignatureEnvelope(x) /\ SigIn(tail) = <<s>>
    BY <2>1, <2>2 DEF SigIn
  <2>5. /\ s \in Signatures /\ WritableEnvelope(s) /\ s.type # "unknown"
        /\ EnvelopeMagnitudes(s) = s
    BY <2>3, <2>4, EnvelopeRead
  <2>6. SigIn(tail) \in Pointers(Signatures) /\ SigIn(tail)[1] = s
    BY <2>4, <2>5, PointersForm
  <2>7. SigMagnitude(SigIn(tail)) = SigIn(tail)
    BY <1>3, <2>4, <2>5, <2>6, Zenon DEF SigMagnitude
  <2>. QED
    BY <1>1, <2>5, <2>6, <2>7
<1>. QED
  BY <1>2, <1>3

LEMMA ReadIsTx ==
    ASSUME NEW w, IsString(w), Readable(w), NEW t, t = Deserialize(w)
    PROVE  /\ IsTx(t) /\ Writable(t) /\ (t.awaiting => t.feePayerSig = <<>>)
           /\ KnownSignatures(t) /\ Magnitudes(t) = t
           /\ t.keyAuth = <<>> \/ \E i \in DOMAIN w.tail : /\ t.keyAuth = <<w.tail[i]>>
                                                           /\ w.tail[i].kind = "list"
<1>1. PICK num, calls, accessList, feeToken, feePayerSig, awaiting, keyAuth, sig :
        /\ num = NumbersIn(w.num)
        /\ calls = IF w.calls.kind = "list"
                   THEN [i \in DOMAIN w.calls.items |-> decodeCall(w.calls.items[i])]
                   ELSE <<>>
        /\ accessList = IF w.accessList.kind = "list"
                        THEN [i \in DOMAIN w.accessList.items |->
                                 decodeAccess(w.accessList.items[i])]
                        ELSE <<>>
        /\ feeToken = IF Given(w.feeToken) THEN ToAddress(w.feeToken) ELSE 0
        /\ feePayerSig = IF IsList(w.feePayer, 3) THEN <<decodeSignature(w.feePayer)>>
                                                  ELSE <<>>
        /\ awaiting = (w.feePayer = Marker)
        /\ keyAuth = AuthIn(w.tail) /\ sig = SigIn(w.tail)
  OBVIOUS
<1>2. t = [num |-> num, calls |-> calls, accessList |-> accessList,
           feeToken |-> feeToken, feePayerSig |-> feePayerSig,
           awaiting |-> awaiting, keyAuth |-> keyAuth, sig |-> sig]
  BY <1>1, Zenon DEF Deserialize, NumbersIn, AuthIn, SigIn
<1>3. /\ t.num = num /\ t.calls = calls /\ t.accessList = accessList
      /\ t.feeToken = feeToken /\ t.feePayerSig = feePayerSig
      /\ t.awaiting = awaiting /\ t.keyAuth = keyAuth /\ t.sig = sig
  BY <1>2
<1>4. /\ \A f \in NumFields : IsItem(w.num[f])
      /\ IsNested(w.calls) /\ IsDeep(w.accessList)
      /\ IsItem(w.feeToken) /\ IsFlat(w.feePayer) /\ IsTail(w.tail)
  BY DEF IsString
<1>5. /\ \A f \in WordFields : Given(w.num[f]) => FitsWord(w.num[f])
      /\ w.calls.kind = "list" =>
            \A i \in DOMAIN w.calls.items : IsList(w.calls.items[i], 3)
      /\ w.accessList.kind = "list" =>
            \A i \in DOMAIN w.accessList.items : ValidAccess(w.accessList.items[i])
      /\ IsList(w.feePayer, 3) => ValidSignature(w.feePayer)
      /\ ValidTail(w.tail)
  BY DEF Readable
<1>6. /\ num \in [NumFields -> Int] /\ \A f \in WordFields : num[f] \in Below(WordLen)
      /\ NumbersMagnitude(num) = num
  <2>1. num \in [NumFields -> Nat] => num \in [NumFields -> Int]
    OBVIOUS
  <2>. QED
    BY <1>1, <1>4, <1>5, <2>1, NumbersRead
<1>7. calls \in Seq(Calls) /\ CallsMagnitude(calls) = calls
  <2>1. CASE w.calls.kind = "list"
    BY <1>1, <1>4, <1>5, <2>1, CallsRead, Zenon
  <2>2. CASE w.calls.kind # "list"
    BY <1>1, <2>2 DEF CallsMagnitude
  <2>. QED
    BY <2>1, <2>2
<1>8. accessList \in AccessList
  <2>1. CASE w.accessList.kind = "list"
    BY <1>1, <1>4, <1>5, <2>1, AccessListRead
  <2>2. CASE w.accessList.kind # "list"
    BY <1>1, <2>2 DEF AccessList
  <2>. QED
    BY <2>1, <2>2
<1>9. feeToken \in Below(AddressLen)
  <2>1. Given(w.feeToken) => ToAddress(w.feeToken) \in Below(AddressLen)
    BY <1>4, CutValue DEF Given, ToAddress
  <2>. QED
    BY <1>1, <2>1, WidthsArePositive
<1>10. /\ feePayerSig \in Pointers(FeePayerSignatures)
       /\ feePayerSig # <<>> => ScalarsFit(feePayerSig[1])
       /\ PayerMagnitude(feePayerSig) = feePayerSig
  <2>1. CASE IsList(w.feePayer, 3)
    <3>1. PICK s : s = decodeSignature(w.feePayer) /\ feePayerSig = <<s>>
      BY <1>1, <2>1
    <3>2. s \in FeePayerSignatures /\ ScalarsFit(s) /\ ScalarMagnitudes(s) = s
      BY <1>4, <1>5, <2>1, <3>1, SignatureRead
    <3>3. feePayerSig # <<>> /\ feePayerSig[1] = s
      BY <3>1
    <3>4. PayerMagnitude(feePayerSig) = feePayerSig
      BY <3>1, <3>2, <3>3, Zenon DEF PayerMagnitude
    <3>. QED
      BY <3>1, <3>2, <3>3, <3>4, PointersForm
  <2>2. CASE ~IsList(w.feePayer, 3)
    BY <1>1, <2>2, PointersForm DEF PayerMagnitude
  <2>. QED
    BY <2>1, <2>2
<1>11. awaiting \in BOOLEAN /\ (awaiting => feePayerSig = <<>>)
  <2>1. Marker.kind # "list"
    BY DEF Marker, Bytes
  <2>. QED
    BY <1>1, <2>1 DEF IsList
<1>12. /\ sig \in Pointers(Signatures)
       /\ sig # <<>> => WritableEnvelope(sig[1]) /\ sig[1].type # "unknown"
       /\ SigMagnitude(sig) = sig
       /\ keyAuth = <<>> \/ \E i \in DOMAIN w.tail : /\ keyAuth = <<w.tail[i]>>
                                                     /\ w.tail[i].kind = "list"
  BY <1>1, <1>4, <1>5, TailRead
<1>13. IsTx(t)
  <2>1. t = [num |-> t.num, calls |-> t.calls, accessList |-> t.accessList,
             feeToken |-> t.feeToken, feePayerSig |-> t.feePayerSig,
             awaiting |-> t.awaiting, keyAuth |-> t.keyAuth, sig |-> t.sig]
    BY <1>2, <1>3, Zenon
  <2>2. \/ t.keyAuth = <<>>
        \/ t.keyAuth = <<t.keyAuth[1]>> /\ t.keyAuth[1].kind = "list"
    BY <1>3, <1>12
  <2>. QED
    BY <1>3, <1>6, <1>7, <1>8, <1>9, <1>10, <1>11, <1>12, <2>1, <2>2, Zenon DEF IsTx
<1>14. Writable(t)
  BY <1>3, <1>12 DEF Writable
<1>15. KnownSignatures(t)
  BY <1>3, <1>10, <1>12 DEF KnownSignatures
<1>16. Magnitudes(t) = t
  <2>1. Magnitudes(t) =
          [num |-> NumbersMagnitude(num), calls |-> CallsMagnitude(calls),
           accessList |-> accessList, feeToken |-> feeToken,
           feePayerSig |-> PayerMagnitude(feePayerSig), awaiting |-> awaiting,
           keyAuth |-> keyAuth, sig |-> SigMagnitude(sig)]
    BY <1>2, MagnitudesForm
  <2>2. /\ NumbersMagnitude(num) = num /\ CallsMagnitude(calls) = calls
        /\ PayerMagnitude(feePayerSig) = feePayerSig /\ SigMagnitude(sig) = sig
    BY <1>6, <1>7, <1>10, <1>12
  <2>. QED
    BY <1>2, <2>1, <2>2, Zenon
<1>. QED
  BY <1>3, <1>11, <1>12, <1>13, <1>14, <1>15, <1>16

-----------------------------------------------------------------------------
(* What is read in canonical form is written again.                        *)

LEMMA CanonicalNumbers ==
    ASSUME NEW p, p = [f \in NumFields |-> p[f]], \A f \in NumFields : IsItem(p[f]),
           \A f \in NumFields : IsBytes(p[f]) /\ p[f] = Minimal(p[f].val),
           \A f \in WordFields : p[f].len <= WordLen, p["chainID"] # Empty
    PROVE  /\ NumbersOf(NumbersIn(p)) = p
           /\ \A f \in WordFields : FitsWord(p[f])
<1>1. ASSUME NEW f \in NumFields PROVE bigIntToBytes(NumbersIn(p)[f]) = p[f]
  <2>1. /\ p[f].len \in Nat /\ p[f].val \in Nat /\ (p[f].len = 0 => p[f] = Empty)
        /\ IsBytes(p[f]) /\ p[f] = Minimal(p[f].val)
    BY ItemValue
  <2>2. CASE Given(p[f])
    <3>1. NumbersIn(p)[f] = p[f].val
      BY <2>2 DEF NumbersIn
    <3>2. bigIntToBytes(p[f].val) = Minimal(p[f].val)
      BY <2>1, NaturalBytes
    <3>. QED
      BY <2>1, <3>1, <3>2, Zenon
  <2>3. CASE ~Given(p[f])
    <3>1. p[f] = Empty
      BY <2>1, <2>3 DEF Given
    <3>2. f # "chainID"
      BY <3>1
    <3>3. NumbersIn(p)[f] = 0
      BY <2>3, <3>2 DEF NumbersIn, New
    <3>. QED
      BY <3>1, <3>3, MinimalIsItem, NaturalBytes
  <2>. QED
    BY <2>2, <2>3
<1>2. ASSUME NEW f \in WordFields PROVE FitsWord(p[f])
  <2>1. f \in NumFields
    BY DEF WordFields, NumFields
  <2>2. PICK n \in Nat : n = p[f].val /\ p[f] = Minimal(n)
    BY <2>1, ItemValue
  <2>3. Minimal(n).len <= WordLen /\ WordLen \in Nat
    BY <2>2, WidthAssumption
  <2>4. n \in Below(WordLen)
    BY <2>3, MinimalFits
  <2>. QED
    BY <2>2, <2>4 DEF FitsWord
<1>3. NumbersOf(NumbersIn(p)) = [f \in NumFields |-> p[f]]
  BY <1>1 DEF NumbersOf
<1>. QED
  BY <1>2, <1>3, Zenon

LEMMA CanonicalCallIsKept ==
    ASSUME NEW c, IsFlat(c), CanonicalCall(c)
    PROVE  IsList(c, 3) /\ encodeCall(decodeCall(c)) = c
<1>1. c.kind = "list" /\ Len(c.items) = 3 /\ IsList(c, 3)
  BY DEF CanonicalCall, IsList
<1>2. PICK items : items = c.items
  OBVIOUS
<1>3. c = List(items) /\ items = [i \in 1..3 |-> items[i]] /\ DOMAIN items = 1..3
  BY <1>1, <1>2 DEF IsFlat, IsSeq
<1>4. PICK x, y, z : x = items[1] /\ y = items[2] /\ z = items[3]
  OBVIOUS
<1>5. items = <<x, y, z>>
  BY <1>3, <1>4
<1>6. /\ IsItem(x) /\ IsItem(y) /\ IsItem(z) /\ IsBytes(x) /\ IsBytes(y) /\ IsBytes(z)
      /\ x.len \in {0, AddressLen} /\ y = Minimal(y.val)
  <2>1. \A i \in 1..3 : IsItem(items[i]) /\ IsBytes(items[i])
    BY <1>1, <1>2, <1>3 DEF IsFlat, CanonicalCall
  <2>2. items[1].len \in {0, AddressLen} /\ items[2] = Minimal(items[2].val)
    BY <1>2, Zenon DEF CanonicalCall
  <2>3. 1 \in 1..3 /\ 2 \in 1..3 /\ 3 \in 1..3
    OBVIOUS
  <2>. QED
    BY <1>4, <2>1, <2>2, <2>3, Zenon
<1>7. PICK d : d = decodeCall(c)
  OBVIOUS
<1>8. /\ d.to = (IF Given(x) THEN <<ToAddress(x)>> ELSE <<>>)
      /\ d.value = (IF Given(y) THEN y.val ELSE 0) /\ d.data = z
  BY <1>2, <1>4, <1>6, <1>7 DEF decodeCall
<1>9. (IF d.to = <<>> THEN Empty ELSE Address(d.to[1])) = x
  <2>1. CASE Given(x)
    <3>1. d.to = <<ToAddress(x)>> /\ x.len = AddressLen
      BY <1>6, <1>8, <2>1 DEF Given
    <3>2. Address(ToAddress(x)) = x
      BY <1>6, <3>1, CutValue DEF Address, ToAddress
    <3>. QED
      BY <3>1, <3>2
  <2>2. CASE ~Given(x)
    <3>1. x = Empty
      BY <1>6, <2>2, ItemValue DEF Given
    <3>. QED
      BY <1>8, <2>2, <3>1
  <2>. QED
    BY <2>1, <2>2
<1>10. bigIntToBytes(d.value) = y
  <2>1. CASE Given(y)
    <3>1. bigIntToBytes(y.val) = Minimal(y.val)
      BY <1>6, ItemValue, NaturalBytes
    <3>. QED
      BY <1>6, <1>8, <2>1, <3>1, Zenon
  <2>2. CASE ~Given(y)
    <3>1. y = Empty /\ d.value = 0
      BY <1>6, <1>8, <2>2, ItemValue DEF Given
    <3>. QED
      BY <3>1, MinimalIsItem, NaturalBytes
  <2>. QED
    BY <2>1, <2>2
<1>11. encodeCall(d) = List(<<x, y, z>>)
  BY <1>8, <1>9, <1>10, Zenon DEF encodeCall
<1>. QED
  BY <1>1, <1>3, <1>5, <1>7, <1>11, Zenon

\* The calls and the accesses in a list of them, and the lists of them.
CallsIn(x)      == [i \in DOMAIN x.items |-> decodeCall(x.items[i])]
CallsOf(calls)  == List([i \in DOMAIN calls |-> encodeCall(calls[i])])
AccessIn(x)     == [i \in DOMAIN x.items |-> decodeAccess(x.items[i])]
AccessOf(list)  == List([i \in DOMAIN list |-> encodeAccess(list[i])])

LEMMA CanonicalCallsAreKept ==
    ASSUME NEW x, IsNested(x), x.kind = "list", \A c \in ToSet(x.items) : CanonicalCall(c)
    PROVE  /\ \A i \in DOMAIN x.items : IsList(x.items[i], 3)
           /\ CallsOf(CallsIn(x)) = x
<1>0. PICK calls : calls = [i \in DOMAIN x.items |-> decodeCall(x.items[i])]
  OBVIOUS
<1>1. PICK items : items = x.items
  OBVIOUS
<1>2. PICK n \in Nat : DOMAIN items = 1..n /\ items = [i \in 1..n |-> items[i]]
  BY <1>1 DEF IsNested, IsFlat, IsSeq
<1>3. \A i \in 1..n : IsList(items[i], 3) /\ encodeCall(decodeCall(items[i])) = items[i]
  BY <1>1, <1>2, CanonicalCallIsKept DEF IsNested, ToSet
<1>4. [i \in DOMAIN calls |-> encodeCall(calls[i])] = [i \in 1..n |-> items[i]]
  BY <1>0, <1>1, <1>2, <1>3
<1>5. x = List(items)
  BY <1>1 DEF IsNested, IsFlat
<1>. QED
  BY <1>0, <1>1, <1>2, <1>3, <1>4, <1>5, Zenon DEF CallsOf, CallsIn

LEMMA CanonicalAccessIsKept ==
    ASSUME NEW e, IsNested(e), CanonicalAccess(e)
    PROVE  ValidAccess(e) /\ encodeAccess(decodeAccess(e)) = e
<1>1. e.kind = "list" /\ Len(e.items) = 2
  BY DEF CanonicalAccess, IsList
<1>2. PICK items : items = e.items
  OBVIOUS
<1>3. e = List(items) /\ items = [i \in 1..2 |-> items[i]] /\ DOMAIN items = 1..2
  BY <1>1, <1>2 DEF IsNested, IsFlat, IsSeq
<1>4. PICK x, y, keys : x = items[1] /\ y = items[2] /\ keys = y.items
  OBVIOUS
<1>5. items = <<x, y>>
  BY <1>3, <1>4
<1>6. IsItem(x) /\ IsFlat(y) /\ IsBytes(x) /\ x.len = AddressLen /\ y.kind = "list"
  <2>1. IsFlat(items[1]) /\ IsFlat(items[2])
    BY <1>1, <1>2, <1>3 DEF IsNested
  <2>2. /\ IsBytes(items[1]) /\ items[1].len = AddressLen /\ items[2].kind = "list"
    BY <1>2 DEF CanonicalAccess
  <2>. QED
    BY <1>4, <2>1, <2>2 DEF IsFlat
<1>7. PICK n \in Nat : DOMAIN keys = 1..n /\ keys = [i \in 1..n |-> keys[i]]
  BY <1>4, <1>6 DEF IsFlat, IsSeq
<1>8. y = List(keys)
  BY <1>4, <1>6 DEF IsFlat
<1>9. \A i \in 1..n : IsItem(keys[i]) /\ IsBytes(keys[i]) /\ keys[i].len = HashLen
  BY <1>2, <1>4, <1>6, <1>7 DEF IsFlat, CanonicalAccess, ToSet
<1>10. \A i \in 1..n : Hash(ToHash(keys[i])) = keys[i]
  BY <1>9, CutValue DEF Hash, ToHash
<1>11. Address(ToAddress(x)) = x
  BY <1>6, CutValue DEF Address, ToAddress
<1>12. PICK hashes : hashes = [i \in 1..n |-> ToHash(keys[i])]
  OBVIOUS
<1>13. decodeAccess(e) = [address |-> ToAddress(x), keys |-> hashes]
  BY <1>2, <1>4, <1>7, <1>12, Zenon DEF decodeAccess
<1>14. [i \in DOMAIN hashes |-> Hash(hashes[i])] = [i \in 1..n |-> keys[i]]
  BY <1>10, <1>12
<1>15. [i \in DOMAIN hashes |-> Hash(hashes[i])] = keys
  BY <1>7, <1>14, Zenon
<1>16. encodeAccess([address |-> ToAddress(x), keys |-> hashes])
           = List(<<x, List([i \in DOMAIN hashes |-> Hash(hashes[i])])>>)
  BY <1>11 DEF encodeAccess
<1>17. ValidAccess(e)
  BY <1>1, <1>2, <1>4, <1>6, <1>7, <1>9 DEF ValidAccess, IsList
<1>. QED
  BY <1>3, <1>5, <1>8, <1>13, <1>15, <1>16, <1>17, Zenon

LEMMA CanonicalAccessListIsKept ==
    ASSUME NEW x, IsDeep(x), x.kind = "list", \A e \in ToSet(x.items) : CanonicalAccess(e)
    PROVE  /\ \A i \in DOMAIN x.items : ValidAccess(x.items[i])
           /\ AccessOf(AccessIn(x)) = x
<1>0. PICK list : list = [i \in DOMAIN x.items |-> decodeAccess(x.items[i])]
  OBVIOUS
<1>1. PICK items : items = x.items
  OBVIOUS
<1>2. PICK n \in Nat : DOMAIN items = 1..n /\ items = [i \in 1..n |-> items[i]]
  BY <1>1 DEF IsDeep, IsFlat, IsSeq
<1>3. \A i \in 1..n : ValidAccess(items[i]) /\ encodeAccess(decodeAccess(items[i])) = items[i]
  BY <1>1, <1>2, CanonicalAccessIsKept DEF IsDeep, ToSet
<1>4. [i \in DOMAIN list |-> encodeAccess(list[i])] = [i \in 1..n |-> items[i]]
  BY <1>0, <1>1, <1>2, <1>3
<1>5. x = List(items)
  BY <1>1 DEF IsDeep, IsFlat
<1>. QED
  BY <1>0, <1>1, <1>2, <1>3, <1>4, <1>5, Zenon DEF AccessOf, AccessIn

LEMMA CanonicalFeeTokenIsKept ==
    ASSUME NEW x, IsItem(x), IsBytes(x), x # Empty => x.len = AddressLen /\ x.val # 0
    PROVE  encodeFeeToken(IF Given(x) THEN ToAddress(x) ELSE 0) = x
<1>1. CASE Given(x)
  <2>1. x # Empty
    BY <1>1, EmptyIsItem
  <2>2. x.len = AddressLen /\ x.val # 0
    BY <2>1
  <2>3. x = Bytes(AddressLen, ToAddress(x))
    BY <2>2, CutValue DEF ToAddress
  <2>4. ToAddress(x) # 0
    BY <2>2, <2>3 DEF Bytes
  <2>. QED
    BY <1>1, <2>3, <2>4, Zenon DEF encodeFeeToken, Address
<1>2. CASE ~Given(x)
  <2>1. x = Empty
    BY <1>2, ItemValue DEF Given
  <2>. QED
    BY <1>2, <2>1 DEF encodeFeeToken
<1>. QED
  BY <1>1, <1>2

LEMMA CanonicalSignatureIsKept ==
    ASSUME NEW x, IsFlat(x), IsList(x, 3), CanonicalSignature(x)
    PROVE  ValidSignature(x) /\ encodeSignature(decodeSignature(x)) = x
<1>1. PICK items : items = x.items
  OBVIOUS
<1>2. x = List(items) /\ items = [i \in 1..3 |-> items[i]] /\ DOMAIN items = 1..3
  BY <1>1 DEF IsList, IsFlat, IsSeq
<1>3. PICK v, r, s : v = items[1] /\ r = items[2] /\ s = items[3]
  OBVIOUS
<1>4. items = <<v, r, s>>
  BY <1>2, <1>3
<1>5. \A i \in 1..3 : IsItem(items[i]) /\ IsBytes(items[i]) /\ items[i] = Minimal(items[i].val)
  BY <1>1, <1>2 DEF IsList, IsFlat, CanonicalSignature
<1>6. /\ v.val \in {0, 1} /\ r.len <= HashLen /\ s.len <= HashLen
      /\ v = Minimal(v.val) /\ r = Minimal(r.val) /\ s = Minimal(s.val)
  <2>1. 1 \in 1..3 /\ 2 \in 1..3 /\ 3 \in 1..3
    OBVIOUS
  <2>. QED
    BY <1>1, <1>3, <1>5, <2>1, Zenon DEF CanonicalSignature
<1>7. v.len <= 1
  <2>1. PICK n \in {0, 1} : n = v.val /\ v = Minimal(n)
    BY <1>6
  <2>2. Power[1] \in Nat /\ 1 < Power[1]
    BY PowerType
  <2>3. n \in Nat /\ n \in Below(1)
    BY <2>2 DEF Below
  <2>. QED
    BY <2>1, <2>3, MinimalFits
<1>8. ValidSignature(x)
  <2>1. v.val <= 1
    BY <1>6
  <2>. QED
    BY <1>1, <1>3, <1>5, <1>6, <1>7, <2>1, Zenon DEF ValidSignature
<1>9. PICK d : d = decodeSignature(x)
  OBVIOUS
<1>10. d.yParity = v.val /\ d.r = r.val /\ d.s = s.val
  BY <1>1, <1>3, <1>9 DEF decodeSignature
<1>11. encodeSignature(d) = List(<<v, r, s>>)
  <2>1. r.val \in Nat /\ s.val \in Nat
    BY <1>3, <1>5, ItemValue
  <2>2. bigIntToBytes(r.val) = r /\ bigIntToBytes(s.val) = s
    BY <1>6, <2>1, NaturalBytes, Zenon
  <2>. QED
    BY <1>6, <1>10, <2>2, Zenon DEF encodeSignature
<1>. QED
  BY <1>2, <1>4, <1>8, <1>9, <1>11, Zenon

LEMMA CanonicalFeePayerIsKept ==
    ASSUME NEW x, IsFlat(x),
           x \notin {Empty, Marker} => IsList(x, 3) /\ CanonicalSignature(x),
           NEW t, t.awaiting = (x = Marker),
           t.feePayerSig = IF IsList(x, 3) THEN <<decodeSignature(x)>> ELSE <<>>
    PROVE  /\ IsList(x, 3) => ValidSignature(x)
           /\ encodeFeePayerField(t) = x
<1>1. Marker.kind = "bytes" /\ Empty.kind = "bytes" /\ Marker # Empty
  BY DEF Marker, Empty, Bytes
<1>2. CASE x \in {Empty, Marker}
  <2>1. ~IsList(x, 3)
    BY <1>1, <1>2 DEF IsList
  <2>2. t.feePayerSig = <<>>
    BY <2>1
  <2>. QED
    BY <1>1, <1>2, <2>1, <2>2 DEF encodeFeePayerField
<1>3. CASE x \notin {Empty, Marker}
  <2>1. ValidSignature(x) /\ encodeSignature(decodeSignature(x)) = x
    BY <1>3, CanonicalSignatureIsKept
  <2>2. PICK s : s = decodeSignature(x) /\ t.feePayerSig = <<s>>
    BY <1>3
  <2>3. encodeFeePayerField(t) = encodeSignature(s)
    BY <2>2 DEF encodeFeePayerField
  <2>. QED
    BY <2>1, <2>2, <2>3
<1>. QED
  BY <1>2, <1>3

LEMMA CanonicalEnvelopeIsKept ==
    ASSUME NEW e, IsEnvelope(e), CanonicalEnvelope(e)
    PROVE  ValidEnvelope(e) /\ encodeSignatureEnvelope(decodeSignatureEnvelope(e)) = e
<1>1. PICK of : of = e.of
  OBVIOUS
<1>2. e = Envelope(of) /\ e.kind = "envelope"
  BY <1>1 DEF IsEnvelope, CanonicalEnvelope
<1>3. CASE of.type = "secp256k1"
  <2>1. of.recoveryID \in {0, 1}
    BY <1>1, <1>3 DEF CanonicalEnvelope, RawTypes
  <2>2. of = [type |-> "secp256k1", r |-> of.r, s |-> of.s, recoveryID |-> of.recoveryID]
    BY <1>1, <1>3 DEF IsEnvelope
  <2>3. PICK d : d = decodeSignatureEnvelope(e)
    OBVIOUS
  <2>4. of.recoveryID \notin {27, 28}
    BY <2>1
  <2>5. d = [type |-> "secp256k1", r |-> of.r, s |-> of.s, yParity |-> of.recoveryID]
    BY <1>1, <1>3, <2>3, <2>4 DEF decodeSignatureEnvelope
  <2>6. encodeSignatureEnvelope(d) =
            Envelope([type |-> "secp256k1", r |-> of.r, s |-> of.s,
                      recoveryID |-> of.recoveryID])
    <3>1. of.r \in Below(HashLen) /\ of.s \in Below(HashLen)
      BY <1>1, <1>3 DEF IsEnvelope
    <3>2. of.r \in Nat /\ of.s \in Nat
      BY <3>1, WidthsArePositive DEF Below
    <3>3. Magnitude(of.r) = of.r /\ Magnitude(of.s) = of.s
      BY <3>2, MagnitudeForm
    <3>4. d.type = "secp256k1" /\ d.r = of.r /\ d.s = of.s /\ d.yParity = of.recoveryID
      BY <2>5
    <3>. QED
      BY <3>3, <3>4, Zenon DEF encodeSignatureEnvelope
  <2>7. ValidEnvelope(e)
    BY <1>1, <1>2, <1>3, <2>1 DEF ValidEnvelope
  <2>. QED
    BY <1>2, <2>2, <2>3, <2>6, <2>7, Zenon
<1>4. CASE of.type # "secp256k1"
  BY <1>1, <1>2, <1>4 DEF CanonicalEnvelope, ValidEnvelope, encodeSignatureEnvelope,
                          decodeSignatureEnvelope
<1>. QED
  BY <1>3, <1>4

LEMMA CanonicalTailIsKept ==
    ASSUME NEW tail, IsTail(tail),
           \/ tail = <<>>
           \/ Len(tail) = 1 /\ (tail[1].kind = "list" \/ CanonicalEnvelope(tail[1]))
           \/ Len(tail) = 2 /\ tail[1].kind = "list" /\ CanonicalEnvelope(tail[2])
    PROVE  ValidTail(tail) /\ TailOf(AuthIn(tail), SigIn(tail)) = tail
<1>1. IsSeq(tail) /\ \A i \in DOMAIN tail : tail[i].kind = "envelope" => IsEnvelope(tail[i])
  BY DEF IsTail
<1>2. CASE tail = <<>>
  <2>1. AuthIn(tail) = <<>> /\ SigIn(tail) = <<>>
    BY <1>2 DEF AuthIn, SigIn
  <2>. QED
    BY <1>2, <2>1 DEF ValidTail, TailOf
<1>3. ASSUME Len(tail) = 1, tail[1].kind = "list"
      PROVE  ValidTail(tail) /\ TailOf(AuthIn(tail), SigIn(tail)) = tail
  <2>1. PICK k : k = tail[1]
    OBVIOUS
  <2>2. tail = <<k>>
    BY <1>1, <1>3, <2>1 DEF IsSeq
  <2>3. AuthIn(tail) = <<k>> /\ SigIn(tail) = <<>>
    BY <1>3, <2>1, <2>2 DEF AuthIn, SigIn, Last
  <2>4. TailOf(<<k>>, <<>>) = <<k>>
    BY DEF TailOf
  <2>. QED
    BY <1>3, <2>2, <2>3, <2>4 DEF ValidTail
<1>4. ASSUME NEW i \in DOMAIN tail, CanonicalEnvelope(tail[i]), NEW e, e = tail[i]
      PROVE  /\ ValidEnvelope(e) /\ e.kind = "envelope"
             /\ encodeSignatureEnvelope(decodeSignatureEnvelope(e)) = e
  BY <1>1, <1>4, CanonicalEnvelopeIsKept DEF CanonicalEnvelope
<1>5. ASSUME Len(tail) = 1, CanonicalEnvelope(tail[1])
      PROVE  ValidTail(tail) /\ TailOf(AuthIn(tail), SigIn(tail)) = tail
  <2>1. PICK e : e = tail[1]
    OBVIOUS
  <2>2. tail = <<e>> /\ 1 \in DOMAIN tail
    BY <1>1, <1>5, <2>1 DEF IsSeq
  <2>3. /\ ValidEnvelope(e) /\ e.kind = "envelope"
        /\ encodeSignatureEnvelope(decodeSignatureEnvelope(e)) = e
    BY <1>4, <1>5, <2>1, <2>2
  <2>4. PICK s : s = decodeSignatureEnvelope(e)
    OBVIOUS
  <2>5. AuthIn(tail) = <<>> /\ SigIn(tail) = <<s>>
    BY <2>2, <2>3, <2>4 DEF AuthIn, SigIn, Last
  <2>6. TailOf(<<>>, <<s>>) = <<e>>
    BY <2>3, <2>4 DEF TailOf
  <2>. QED
    BY <1>5, <2>1, <2>2, <2>3, <2>5, <2>6 DEF ValidTail
<1>6. ASSUME Len(tail) = 2, tail[1].kind = "list", CanonicalEnvelope(tail[2])
      PROVE  ValidTail(tail) /\ TailOf(AuthIn(tail), SigIn(tail)) = tail
  <2>1. PICK k, e : k = tail[1] /\ e = tail[2]
    OBVIOUS
  <2>2. tail = <<k, e>> /\ 2 \in DOMAIN tail
    BY <1>1, <1>6, <2>1 DEF IsSeq
  <2>3. /\ ValidEnvelope(e) /\ e.kind = "envelope"
        /\ encodeSignatureEnvelope(decodeSignatureEnvelope(e)) = e
    BY <1>4, <1>6, <2>1, <2>2
  <2>4. PICK s : s = decodeSignatureEnvelope(e)
    OBVIOUS
  <2>5. AuthIn(tail) = <<k>> /\ SigIn(tail) = <<s>>
    BY <1>6, <2>1, <2>2, <2>3, <2>4 DEF AuthIn, SigIn, Last
  <2>6. TailOf(<<k>>, <<s>>) = <<k>> \o <<e>>
    BY <2>3, <2>4 DEF TailOf
  <2>. QED
    BY <1>6, <2>1, <2>2, <2>3, <2>5, <2>6, Joined DEF ValidTail
<1>. QED
  BY <1>2, <1>3, <1>5, <1>6

LEMMA CanonicalIsRewritten ==
    ASSUME NEW w, IsString(w), Canonical(w), ~EndsLikeMarker(w)
    PROVE  Readable(w) /\ Serialize(Deserialize(w)) = [w EXCEPT !.suffix = FALSE]
<1>1. PICK suffix, p, c, a, x, y, tail :
        /\ suffix = w.suffix /\ p = w.num /\ c = w.calls /\ a = w.accessList /\ x = w.feeToken
        /\ y = w.feePayer /\ tail = w.tail
  OBVIOUS
<1>2. w = [prefix |-> "76", suffix |-> suffix, num |-> p, calls |-> c,
           accessList |-> a, feeToken |-> x, feePayer |-> y,
           authList |-> List(<<>>), tail |-> tail]
  BY <1>1, Zenon DEF IsString, Canonical
<1>3. [w EXCEPT !.suffix = FALSE] =
          [prefix |-> "76", suffix |-> FALSE, num |-> p, calls |-> c,
           accessList |-> a, feeToken |-> x, feePayer |-> y,
           authList |-> List(<<>>), tail |-> tail]
  <2>1. PICK none, off : none = List(<<>>) /\ off = FALSE
    OBVIOUS
  <2>2. w = [prefix |-> "76", suffix |-> suffix, num |-> p, calls |-> c,
             accessList |-> a, feeToken |-> x, feePayer |-> y,
             authList |-> none, tail |-> tail]
    BY <1>2, <2>1, Zenon
  <2>3. [w EXCEPT !.suffix = off] =
            [prefix |-> "76", suffix |-> off, num |-> p, calls |-> c,
             accessList |-> a, feeToken |-> x, feePayer |-> y,
             authList |-> none, tail |-> tail]
    BY <2>2
  <2>. QED
    BY <2>1, <2>3, Zenon
<1>4. PICK num, calls, accessList, feeToken, feePayerSig, awaiting, keyAuth, sig :
        /\ num = NumbersIn(p)
        /\ calls = CallsIn(c)
        /\ accessList = AccessIn(a)
        /\ feeToken = IF Given(x) THEN ToAddress(x) ELSE 0
        /\ feePayerSig = IF IsList(y, 3) THEN <<decodeSignature(y)>> ELSE <<>>
        /\ awaiting = (y = Marker)
        /\ keyAuth = AuthIn(tail) /\ sig = SigIn(tail)
  OBVIOUS
<1>5. /\ c.kind = "list" /\ IsNested(c) /\ \A e \in ToSet(c.items) : CanonicalCall(e)
      /\ a.kind = "list" /\ IsDeep(a) /\ \A e \in ToSet(a.items) : CanonicalAccess(e)
  BY <1>1, Zenon DEF IsString, Canonical
<1>6. PICK t : t = Deserialize(w)
  OBVIOUS
<1>7. t = [num |-> num, calls |-> calls, accessList |-> accessList,
           feeToken |-> feeToken, feePayerSig |-> feePayerSig,
           awaiting |-> awaiting, keyAuth |-> keyAuth, sig |-> sig]
  BY <1>1, <1>4, <1>5, <1>6, Zenon DEF Deserialize, NumbersIn, CallsIn, AccessIn,
                                          AuthIn, SigIn
<1>8. /\ t.num = num /\ t.calls = calls /\ t.accessList = accessList
      /\ t.feeToken = feeToken /\ t.feePayerSig = feePayerSig
      /\ t.awaiting = awaiting /\ t.keyAuth = keyAuth /\ t.sig = sig
  BY <1>7
<1>9. NumbersOf(num) = p /\ \A f \in WordFields : FitsWord(p[f])
  <2>1. p = [f \in NumFields |-> p[f]] /\ \A f \in NumFields : IsItem(p[f])
    BY <1>1, Zenon DEF IsString
  <2>2. /\ \A f \in NumFields : IsBytes(p[f]) /\ p[f] = Minimal(p[f].val)
        /\ \A f \in WordFields : p[f].len <= WordLen /\ p["chainID"] # Empty
    BY <1>1, Zenon DEF Canonical
  <2>3. p["chainID"] # Empty
    BY <1>1 DEF Canonical
  <2>. QED
    BY <1>4, <2>1, <2>2, <2>3, CanonicalNumbers
<1>10. /\ \A i \in DOMAIN c.items : IsList(c.items[i], 3)
       /\ CallsOf(calls) = c
  BY <1>4, <1>5, CanonicalCallsAreKept
<1>11. /\ \A i \in DOMAIN a.items : ValidAccess(a.items[i])
       /\ AccessOf(accessList) = a
  BY <1>4, <1>5, CanonicalAccessListIsKept
<1>12. encodeFeeToken(feeToken) = x
  BY <1>1, <1>4, CanonicalFeeTokenIsKept DEF IsString, Canonical
<1>13. (IsList(y, 3) => ValidSignature(y)) /\ encodeFeePayerField(t) = y
  <2>1. t.awaiting = (y = Marker)
    BY <1>4, <1>8
  <2>2. t.feePayerSig = IF IsList(y, 3) THEN <<decodeSignature(y)>> ELSE <<>>
    BY <1>4, <1>8
  <2>. QED
    BY <1>1, <2>1, <2>2, CanonicalFeePayerIsKept DEF IsString, Canonical
<1>14. ValidTail(tail) /\ TailOf(keyAuth, sig) = tail
  BY <1>1, <1>4, CanonicalTailIsKept DEF IsString, Canonical
<1>15. Readable(w)
  BY <1>1, <1>9, <1>10, <1>11, <1>13, <1>14 DEF Readable, Canonical
<1>16. Serialize(t) =
          [prefix |-> "76", suffix |-> FALSE, num |-> p, calls |-> c,
           accessList |-> a, feeToken |-> x, feePayer |-> y,
           authList |-> List(<<>>), tail |-> tail]
  BY <1>8, <1>9, <1>10, <1>11, <1>12, <1>13, <1>14, Zenon
     DEF Serialize, NumbersOf, CallsOf, AccessOf, TailOf
<1>. QED
  BY <1>3, <1>6, <1>15, <1>16

-----------------------------------------------------------------------------
(* The node reads an authorization as it was put together.                 *)

\* What is left out at the end is what the reader takes to be absent.
LEMMA LastPresent ==
    ASSUME NEW o, DOMAIN o = 1..6
    PROVE  LET highest == Max({0} \cup {i \in DOMAIN o : o[i] # Empty})
           IN  highest \in 0..6 /\ \A i \in 1..6 : o[i] # Empty => i <= highest
<1>. DEFINE T == {0} \cup {i \in DOMAIN o : o[i] # Empty}
            D == {6 - x : x \in T}
<1>1. T \subseteq 0..6 /\ 0 \in T
  OBVIOUS
<1>2. D \in SUBSET Nat /\ D # {}
  BY <1>1
<1>3. PICK d \in D : \A y \in D : d <= y
  <2>. HIDE DEF D
  <2>. QED
    BY <1>2, LeastNumber
<1>4. PICK x \in T : d = 6 - x
  BY <1>3
<1>5. \A y \in T : y <= x
  <2>1. \A y \in T : d <= 6 - y
    BY <1>3
  <2>. HIDE DEF T
  <2>. QED
    BY <1>1, <1>4, <2>1
<1>6. Max(T) \in T /\ \A y \in T : y <= Max(T)
  <2>. HIDE DEF T
  <2>. QED
    BY <1>5 DEF Max
<1>. QED
  BY <1>1, <1>6

\* Three fields, and the first n of others.
Placed(x, y, z, o, n) == <<x, y, z>> \o SubSeq(o, 1, n)

LEMMA FieldsInPlace ==
    ASSUME NEW x, NEW y, NEW z, NEW S, NEW o \in Seq(S), Len(o) = 6, NEW n \in 0..6,
           \A i \in 1..6 : o[i] # Empty => i <= n,
           NEW fields, fields = Placed(x, y, z, o, n)
    PROVE  /\ fields[1] = x /\ fields[2] = y /\ fields[3] = z
           /\ \A i \in 1..6 : Field(fields, 3 + i) = o[i]
<1>. DEFINE U == S \cup {x, y, z}
<1>1. PICK h, s : h = <<x, y, z>> /\ s = SubSeq(o, 1, n) /\ fields = h \o s
  BY DEF Placed
<1>2. h \in Seq(U) /\ Len(h) = 3 /\ h[1] = x /\ h[2] = y /\ h[3] = z
  BY <1>1
<1>3. s \in Seq(S) /\ Len(s) = n /\ \A i \in 1..n : s[i] = o[i]
  <2>1. 1 \in Int /\ n \in Int /\ \A i \in 1..n : o[i] \in S
    <3>1. \A i \in 1..6 : o[i] \in S
      BY SeqForm
    <3>2. \A i \in 1..n : i \in 1..6
      OBVIOUS
    <3>. QED
      BY <3>1, <3>2
  <2>2. /\ s \in Seq(S) /\ Len(s) = (IF 1 <= n THEN n - 1 + 1 ELSE 0)
        /\ \A i \in 1..(n - 1 + 1) : s[i] = o[1 + i - 1]
    BY <1>1, <2>1, SubSeqProperties
  <2>. QED
    BY <2>2
<1>4. s \in Seq(U)
  BY <1>3
<1>. HIDE DEF U
<1>5. /\ Len(fields) = 3 + n
      /\ \A i \in 1..Len(fields) : fields[i] = IF i <= 3 THEN h[i] ELSE s[i - 3]
  BY <1>1, <1>2, <1>3, <1>4, ConcatProperties
<1>6. ASSUME NEW i \in 1..6 PROVE Field(fields, 3 + i) = o[i]
  <2>1. CASE i <= n
    <3>1. /\ 3 + i <= Len(fields) /\ 3 + i \in 1..Len(fields) /\ ~(3 + i <= 3)
          /\ (3 + i) - 3 = i /\ i \in 1..n
      BY <1>5, <2>1
    <3>2. fields[3 + i] = s[i]
      BY <1>5, <3>1
    <3>. QED
      BY <1>3, <3>1, <3>2 DEF Field
  <2>2. CASE ~(i <= n)
    BY <1>5, <2>2 DEF Field
  <2>. QED
    BY <2>1, <2>2
<1>. QED
  BY <1>2, <1>5, <1>6

LEMMA LimitRead ==
    ASSUME NEW l \in Limits, ValidLimit(l),
           NEW t, t = List(<<Address(l.token), Minimal(l.amount[1])>>
                               \o (IF l.period = 0 THEN <<>> ELSE <<Minimal(l.period)>>))
    PROVE  decodeLimit(t) = l
<1>1. PICK token \in Nat, amount \in Below(HashLen), period \in Nat :
          l = [token |-> token, amount |-> <<amount>>, period |-> period]
  <2>1. /\ l = [token |-> l.token, amount |-> l.amount, period |-> l.period]
        /\ l.token \in Nat /\ l.amount \in Pointers(Int) /\ l.period \in Nat
    BY DEF Limits
  <2>2. PICK amount \in Int : l.amount = <<amount>>
    BY <2>1, PointersForm DEF ValidLimit
  <2>3. amount \in Below(HashLen)
    BY <2>2 DEF ValidLimit
  <2>. QED
    BY <2>1, <2>2, <2>3
<1>2. amount \in Nat
  BY WidthsArePositive DEF Below
<1>3. PICK x, y, z : x = Address(token) /\ y = Minimal(amount) /\ z = Minimal(period)
  OBVIOUS
<1>4. x.val = token /\ y.val = amount /\ z.val = period
  BY <1>2, <1>3, MinimalIsItem DEF Address, Bytes
<1>5. t.items = <<x, y>> \o (IF period = 0 THEN <<>> ELSE <<z>>)
  BY <1>1, <1>3 DEF List
<1>6. PICK items : items = t.items
  OBVIOUS
<1>7. /\ items[1] = x /\ items[2] = y
      /\ (IF Len(items) = 3 THEN items[3].val ELSE 0) = period
  <2>1. CASE period = 0
    <3>1. items = <<x, y>>
      BY <1>5, <1>6, <2>1
    <3>. QED
      BY <2>1, <3>1
  <2>2. CASE period # 0
    <3>1. items = <<x, y>> \o <<z>>
      BY <1>5, <1>6, <2>2
    <3>2. /\ <<x, y>> \in Seq({x, y, z}) /\ <<z>> \in Seq({x, y, z})
          /\ Len(<<x, y>>) = 2 /\ Len(<<z>>) = 1
      OBVIOUS
    <3>3. Len(items) = 3 /\ items[1] = x /\ items[2] = y /\ items[3] = z
      BY <3>1, <3>2, ConcatProperties
    <3>. QED
      BY <1>4, <3>3
  <2>. QED
    BY <2>1, <2>2
<1>8. decodeLimit(t) = [token |-> items[1].val, amount |-> <<items[2].val>>,
                        period |-> IF Len(items) = 3 THEN items[3].val ELSE 0]
  BY <1>6, Zenon DEF decodeLimit
<1>. QED
  BY <1>1, <1>4, <1>7, <1>8

LEMMA LimitsRead ==
    ASSUME NEW limits \in Seq(Limits), \A i \in DOMAIN limits : ValidLimit(limits[i])
    PROVE  /\ encodeTokenLimits(limits).kind = "list"
           /\ decodeLimits(encodeTokenLimits(limits)) = limits
<1>1. PICK items :
          items = [i \in DOMAIN limits |->
                     List(<<Address(limits[i].token), Minimal(limits[i].amount[1])>>
                             \o (IF limits[i].period = 0 THEN <<>>
                                 ELSE <<Minimal(limits[i].period)>>))]
  OBVIOUS
<1>2. encodeTokenLimits(limits) = List(items)
  BY <1>1, Zenon DEF encodeTokenLimits
<1>3. PICK e : e = encodeTokenLimits(limits)
  OBVIOUS
<1>4. e.kind = "list" /\ e.items = items
  BY <1>2, <1>3, ListForm
<1>5. limits = [i \in 1..Len(limits) |-> limits[i]] /\ DOMAIN limits = 1..Len(limits)
  BY SeqForm
<1>6. \A i \in DOMAIN limits : decodeLimit(items[i]) = limits[i]
  <2>1. \A i \in DOMAIN limits : limits[i] \in Limits
    BY SeqForm
  <2>. QED
    BY <1>1, <2>1, LimitRead
<1>7. decodeLimits(e) = [i \in DOMAIN limits |-> decodeLimit(items[i])]
  <2>1. DOMAIN items = DOMAIN limits
    BY <1>1
  <2>. QED
    BY <1>4, <2>1 DEF decodeLimits
<1>8. decodeLimits(e) = [i \in 1..Len(limits) |-> limits[i]]
  BY <1>5, <1>6, <1>7
<1>. QED
  BY <1>3, <1>4, <1>5, <1>8, Zenon

LEMMA RuleRead ==
    ASSUME NEW rule \in [selector : Nat, recipients : Seq(Nat)], NEW e, e = encodeRule(rule)
    PROVE  [selector |-> e.items[1].val,
            recipients |-> [j \in DOMAIN e.items[2].items |-> e.items[2].items[j].val]] = rule
<1>1. PICK selector \in Nat, recipients \in Seq(Nat) :
          rule = [selector |-> selector, recipients |-> recipients]
  OBVIOUS
<1>2. PICK items : items = [i \in DOMAIN recipients |-> Address(recipients[i])]
  OBVIOUS
<1>3. PICK x, y : x = Bytes(SelectorLen, selector) /\ y = List(items)
  OBVIOUS
<1>4. e = List(<<x, y>>)
  BY <1>1, <1>2, <1>3 DEF encodeRule
<1>5. e.items = <<x, y>> /\ y.items = items /\ x.val = selector
  BY <1>3, <1>4, ListForm DEF Bytes
<1>6. DOMAIN items = DOMAIN recipients /\ \A i \in DOMAIN recipients : items[i].val = recipients[i]
  BY <1>2 DEF Address, Bytes
<1>7. /\ recipients = [i \in 1..Len(recipients) |-> recipients[i]]
      /\ DOMAIN recipients = 1..Len(recipients)
  BY SeqForm
<1>8. [j \in DOMAIN items |-> items[j].val] = [i \in 1..Len(recipients) |-> recipients[i]]
  BY <1>6, <1>7
<1>9. [j \in DOMAIN items |-> items[j].val] = recipients
  BY <1>7, <1>8, Zenon
<1>10. e.items[1] = x /\ e.items[2] = y
  BY <1>5
<1>. QED
  BY <1>1, <1>5, <1>9, <1>10, Zenon

LEMMA ScopeRead ==
    ASSUME NEW scope \in Scopes,
           NEW e, e = List(<<Address(scope.target),
                             List([j \in DOMAIN scope.rules |-> encodeRule(scope.rules[j])])>>)
    PROVE  decodeScope(e) = scope
<1>1. PICK target \in Nat, rules \in Seq([selector : Nat, recipients : Seq(Nat)]) :
          scope = [target |-> target, rules |-> rules]
  BY DEF Scopes
<1>2. PICK items : items = [j \in DOMAIN scope.rules |-> encodeRule(scope.rules[j])]
  OBVIOUS
<1>3. PICK x, y : x = Address(scope.target) /\ y = List(items)
  OBVIOUS
<1>4. e = List(<<x, y>>)
  BY <1>2, <1>3, Zenon
<1>5. scope.target = target /\ scope.rules = rules
  BY <1>1
<1>6. /\ e.items[1] = x /\ e.items[2] = y /\ y.items = items /\ x.val = target
  BY <1>3, <1>4, <1>5, ListForm DEF Address, Bytes
<1>7. /\ DOMAIN rules = 1..Len(rules) /\ rules = [i \in 1..Len(rules) |-> rules[i]]
      /\ \A i \in DOMAIN rules : rules[i] \in [selector : Nat, recipients : Seq(Nat)]
  BY SeqForm
<1>8. DOMAIN items = DOMAIN rules /\ \A j \in DOMAIN rules : items[j] = encodeRule(rules[j])
  BY <1>2, <1>5
<1>9. PICK n, back :
          /\ n = 1..Len(rules)
          /\ back = [i \in DOMAIN items |->
                       [selector |-> items[i].items[1].val,
                        recipients |-> [j \in DOMAIN items[i].items[2].items |->
                                           items[i].items[2].items[j].val]]]
  OBVIOUS
<1>10. ASSUME NEW i \in n PROVE back[i] = rules[i]
  <2>1. i \in DOMAIN rules /\ i \in DOMAIN items
    BY <1>7, <1>8, <1>9
  <2>2. PICK r : r = items[i]
    OBVIOUS
  <2>3. r = encodeRule(rules[i]) /\ rules[i] \in [selector : Nat, recipients : Seq(Nat)]
    BY <1>7, <1>8, <2>1, <2>2
  <2>4. [selector |-> r.items[1].val,
         recipients |-> [j \in DOMAIN r.items[2].items |-> r.items[2].items[j].val]]
            = rules[i]
    BY <2>3, RuleRead
  <2>5. back[i] = [selector |-> r.items[1].val,
                   recipients |-> [j \in DOMAIN r.items[2].items |->
                                      r.items[2].items[j].val]]
    BY <1>9, <2>1, <2>2
  <2>. QED
    BY <2>4, <2>5, Zenon
<1>11. back = [i \in n |-> rules[i]]
  <2>1. back = [i \in n |-> back[i]]
    BY <1>7, <1>8, <1>9
  <2>. QED
    BY <1>10, <2>1
<1>12. back = rules
  BY <1>7, <1>9, <1>11, Zenon
<1>13. decodeScope(e) = [target |-> target, rules |-> back]
  BY <1>6, <1>9, Zenon DEF decodeScope
<1>. QED
  BY <1>1, <1>12, <1>13, Zenon

LEMMA ScopesRead ==
    ASSUME NEW scopes \in Seq(Scopes)
    PROVE  /\ encodeCallScopes(scopes).kind = "list"
           /\ decodeScopes(encodeCallScopes(scopes)) = scopes
<1>1. PICK items :
          items = [i \in DOMAIN scopes |->
                     List(<<Address(scopes[i].target),
                            List([j \in DOMAIN scopes[i].rules |->
                                     encodeRule(scopes[i].rules[j])])>>)]
  OBVIOUS
<1>2. encodeCallScopes(scopes) = List(items)
  BY <1>1, Zenon DEF encodeCallScopes
<1>3. PICK e : e = encodeCallScopes(scopes)
  OBVIOUS
<1>4. e.kind = "list" /\ e.items = items
  BY <1>2, <1>3, ListForm
<1>5. scopes = [i \in 1..Len(scopes) |-> scopes[i]] /\ DOMAIN scopes = 1..Len(scopes)
  BY SeqForm
<1>6. ASSUME NEW i \in DOMAIN scopes PROVE decodeScope(items[i]) = scopes[i]
  <2>1. PICK scope, x : scope = scopes[i] /\ x = items[i]
    OBVIOUS
  <2>2. scope \in Scopes
    BY <2>1, SeqForm
  <2>3. x = List(<<Address(scope.target),
                   List([j \in DOMAIN scope.rules |-> encodeRule(scope.rules[j])])>>)
    BY <1>1, <2>1, Zenon
  <2>. QED
    BY <2>1, <2>2, <2>3, ScopeRead
<1>7. decodeScopes(e) = [i \in DOMAIN scopes |-> decodeScope(items[i])]
  <2>1. DOMAIN items = DOMAIN scopes
    BY <1>1
  <2>. QED
    BY <1>4, <2>1 DEF decodeScopes
<1>8. decodeScopes(e) = [i \in 1..Len(scopes) |-> scopes[i]]
  BY <1>5, <1>6, <1>7
<1>. QED
  BY <1>3, <1>4, <1>5, <1>8, Zenon

LEMMA ValueRead ==
    /\ \A n \in Nat : Value(Minimal(n)) = n
    /\ \A l \in {AddressLen, HashLen} : \A n : Given(Bytes(l, n)) /\ Value(Bytes(l, n)) = n
<1>1. ASSUME NEW n \in Nat PROVE Value(Minimal(n)) = n
  BY MinimalIsItem DEF Value, Given, IsBytes
<1>2. ASSUME NEW l \in {AddressLen, HashLen}, NEW n
      PROVE  Given(Bytes(l, n)) /\ Value(Bytes(l, n)) = n
  BY WidthsArePositive DEF Value, Given, IsBytes, Bytes
<1>. QED
  BY <1>1, <1>2

\* What the node reads out of an authorization's fields is what was put in,
\* for every one that Validate accepts.
LEMMA FieldsAreRead ==
    ASSUME NEW a \in Authorizations, Validate(a)
    PROVE  ReadByNode(encodeFields(a)) = a
<1>1. PICK chainID, keyType, keyID, expiry, limits, allowedCalls, witness, isAdmin, account :
        /\ chainID = a.chainID /\ keyType = a.keyType /\ keyID = a.keyID
        /\ expiry = a.expiry /\ limits = a.limits /\ allowedCalls = a.allowedCalls
        /\ witness = a.witness /\ isAdmin = a.isAdmin /\ account = a.account
  OBVIOUS
<1>2. /\ a = [chainID |-> chainID, keyType |-> keyType, keyID |-> keyID,
              expiry |-> expiry, limits |-> limits, allowedCalls |-> allowedCalls,
              witness |-> witness, isAdmin |-> isAdmin, account |-> account]
      /\ chainID \in Nat /\ keyType \in KeyTypes /\ keyID \in Nat
      /\ expiry \in {0} \cup Expiries /\ isAdmin \in BOOLEAN
      /\ limits \in {<<>>} \cup {<<l>> : l \in LimitLists}
      /\ allowedCalls \in {<<>>} \cup {<<s>> : s \in ScopeLists}
      /\ witness \in {<<>>} \cup {<<h>> : h \in Witnesses}
      /\ account \in {<<>>} \cup {<<r>> : r \in Roots}
  BY <1>1 DEF Authorizations
<1>0. /\ limits = <<>> \/ \E l \in LimitLists : limits = <<l>>
      /\ allowedCalls = <<>> \/ \E s \in ScopeLists : allowedCalls = <<s>>
      /\ witness = <<>> \/ \E h \in Witnesses : witness = <<h>>
      /\ account = <<>> \/ \E r \in Roots : account = <<r>>
  BY <1>2
<1>3. PICK o1, o2, o3, o4, o5, o6 :
        /\ o1 = Minimal(expiry)
        /\ o2 = Optional(limits, encodeTokenLimits(limits[1]))
        /\ o3 = Optional(allowedCalls, encodeCallScopes(allowedCalls[1]))
        /\ o4 = Optional(witness, Hash(witness[1]))
        /\ o5 = IF isAdmin THEN Bytes(1, 1) ELSE Empty
        /\ o6 = Optional(account, Address(account[1]))
  OBVIOUS
<1>4. PICK o, S : o = <<o1, o2, o3, o4, o5, o6>> /\ S = {o1, o2, o3, o4, o5, o6}
  OBVIOUS
<1>5. optionals(a) = o
  BY <1>1, <1>3, <1>4, Zenon DEF optionals
<1>6. /\ o \in Seq(S) /\ Len(o) = 6 /\ DOMAIN o = 1..6
      /\ o[1] = o1 /\ o[2] = o2 /\ o[3] = o3 /\ o[4] = o4 /\ o[5] = o5 /\ o[6] = o6
  BY <1>4
<1>7. PICK n : n = Max({0} \cup {i \in DOMAIN o : o[i] # Empty})
  OBVIOUS
<1>8. n \in 0..6 /\ \A i \in 1..6 : o[i] # Empty => i <= n
  BY <1>6, <1>7, LastPresent
<1>9. PICK x, y, z : x = Minimal(chainID) /\ y = Minimal(keyType) /\ z = Address(keyID)
  OBVIOUS
<1>10. PICK fields : fields = encodeFields(a)
  OBVIOUS
<1>11. fields = Placed(x, y, z, o, n)
  BY <1>1, <1>5, <1>7, <1>9, <1>10, Zenon DEF encodeFields, Placed
<1>12. /\ fields[1] = x /\ fields[2] = y /\ fields[3] = z
       /\ \A i \in 1..6 : Field(fields, 3 + i) = o[i]
  <2>1. o \in Seq(S) /\ Len(o) = 6
    BY <1>6
  <2>. QED
    BY <2>1, <1>8, <1>11, FieldsInPlace
<1>13. /\ Field(fields, 4) = o1 /\ Field(fields, 5) = o2 /\ Field(fields, 6) = o3
       /\ Field(fields, 7) = o4 /\ Field(fields, 8) = o5 /\ Field(fields, 9) = o6
  <2>1. /\ Field(fields, 3 + 1) = o[1] /\ Field(fields, 3 + 2) = o[2]
        /\ Field(fields, 3 + 3) = o[3] /\ Field(fields, 3 + 4) = o[4]
        /\ Field(fields, 3 + 5) = o[5] /\ Field(fields, 3 + 6) = o[6]
    BY <1>12
  <2>2. 3 + 1 = 4 /\ 3 + 2 = 5 /\ 3 + 3 = 6 /\ 3 + 4 = 7 /\ 3 + 5 = 8 /\ 3 + 6 = 9
    OBVIOUS
  <2>. QED
    BY <1>6, <2>1, <2>2
<1>14. Value(x) = chainID /\ Value(y) = keyType /\ Value(z) = keyID /\ Value(o1) = expiry
  BY <1>2, <1>3, <1>9, ValueRead, AuthAssumption DEF Address
<1>15. Empty.kind # "list" /\ ~Given(Empty)
  BY EmptyIsItem DEF Empty, Bytes
<1>16. Listed(o2, decodeLimits(o2)) = limits
  <2>1. CASE limits = <<>>
    BY <1>3, <1>15, <2>1 DEF Optional, Listed
  <2>2. ASSUME NEW l \in LimitLists, limits = <<l>>
        PROVE  Listed(o2, decodeLimits(o2)) = limits
    <3>1. limits # <<>> /\ limits[1] = l
      BY <2>2
    <3>2. \A i \in DOMAIN l : ValidLimit(l[i])
      BY <1>1, <3>1 DEF Validate
    <3>3. o2 = encodeTokenLimits(l)
      BY <1>3, <3>1 DEF Optional
    <3>4. o2.kind = "list" /\ decodeLimits(o2) = l
      BY <3>2, <3>3, LimitsRead, AuthAssumption
    <3>. QED
      BY <2>2, <3>4 DEF Listed
  <2>. QED
    BY <1>0, <2>1, <2>2
<1>17. Listed(o3, decodeScopes(o3)) = allowedCalls
  <2>1. CASE allowedCalls = <<>>
    BY <1>3, <1>15, <2>1 DEF Optional, Listed
  <2>2. ASSUME NEW s \in ScopeLists, allowedCalls = <<s>>
        PROVE  Listed(o3, decodeScopes(o3)) = allowedCalls
    <3>1. allowedCalls # <<>> /\ allowedCalls[1] = s
      BY <2>2
    <3>2. o3 = encodeCallScopes(s)
      BY <1>3, <3>1 DEF Optional
    <3>3. o3.kind = "list" /\ decodeScopes(o3) = s
      BY <3>2, ScopesRead, AuthAssumption
    <3>. QED
      BY <2>2, <3>3 DEF Listed
  <2>. QED
    BY <1>0, <2>1, <2>2
<1>18. (IF Given(o4) THEN <<o4.val>> ELSE <<>>) = witness
  <2>1. CASE witness = <<>>
    BY <1>3, <1>15, <2>1 DEF Optional
  <2>2. ASSUME NEW h \in Witnesses, witness = <<h>>
        PROVE  Given(o4) /\ o4.val = h
    <3>1. o4 = Bytes(HashLen, h)
      BY <1>3, <2>2 DEF Optional, Hash
    <3>. QED
      BY <3>1, ValueRead DEF Bytes
  <2>. QED
    BY <1>0, <2>1, <2>2
<1>19. Given(o5) = isAdmin
  BY <1>2, <1>3, <1>15 DEF Given, IsBytes, Bytes
<1>20. (IF Given(o6) THEN <<o6.val>> ELSE <<>>) = account
  <2>1. CASE account = <<>>
    BY <1>3, <1>15, <2>1 DEF Optional
  <2>2. ASSUME NEW r \in Roots, account = <<r>>
        PROVE  Given(o6) /\ o6.val = r
    <3>1. o6 = Bytes(AddressLen, r)
      BY <1>3, <2>2 DEF Optional, Address
    <3>. QED
      BY <3>1, ValueRead DEF Bytes
  <2>. QED
    BY <1>0, <2>1, <2>2
<1>21. ReadByNode(fields) =
         [chainID |-> chainID, keyType |-> keyType, keyID |-> keyID,
          expiry |-> expiry, limits |-> limits, allowedCalls |-> allowedCalls,
          witness |-> witness, isAdmin |-> isAdmin, account |-> account]
  BY <1>12, <1>13, <1>14, <1>16, <1>17, <1>18, <1>19, <1>20, Zenon DEF ReadByNode
<1>. QED
  BY <1>2, <1>10, <1>21, Zenon

\* A signature over the fields that its signer had before it makes a grant of
\* just these, whatever fields it is put beside.
LEMMA GrantForm ==
    ASSUME NEW a \in Authorizations, Validate(a), NEW sig, NEW b \in Authorizations, Validate(b),
           sig.says = b, sig.digest = encodeFields(b)
    PROVE  SignedWith(a, sig).kind = "list" /\ IsAsSigned(SignedWith(a, sig))
<1>1. PICK x, y : x = List(encodeFields(a)) /\ y = Envelope(sig)
  OBVIOUS
<1>2. PICK k : k = SignedWith(a, sig)
  OBVIOUS
<1>3. k = List(<<x, y>>)
  BY <1>1, <1>2 DEF SignedWith
<1>4. k.kind = "list" /\ k.items = <<x, y>> /\ x.items = encodeFields(a) /\ y.of = sig
  BY <1>1, <1>3, ListForm DEF Envelope
<1>5. k.items[1] = x /\ k.items[2] = y
  BY <1>4
<1>6. ReadByNode(encodeFields(a)) = a /\ ReadByNode(encodeFields(b)) = b
  BY FieldsAreRead
<1>7. ASSUME Authentic(k) PROVE ReadByNode(k.items[1].items) = k.items[2].of.says
  <2>1. encodeFields(b) = encodeFields(a)
    BY <1>4, <1>5, <1>7 DEF Authentic
  <2>2. ReadByNode(encodeFields(a)) = sig.says
    BY <1>6, <2>1
  <2>. QED
    BY <1>4, <1>5, <2>2
<1>. QED
  BY <1>2, <1>4, <1>7 DEF IsAsSigned

-----------------------------------------------------------------------------
(* The invariant.                                                          *)

\* A transaction whose grants are as their signers had them, and a string with
\* such grants.
Granted(t)   == \A grant \in ToSet(t.keyAuth) : IsAsSigned(grant)
GrantedIn(w) == \A i \in DOMAIN w.tail : w.tail[i].kind = "list" => IsAsSigned(w.tail[i])

\* Nothing, or a transaction of this kind.
Sound(txs) == txs = <<>> \/ (txs = <<txs[1]>> /\ IsTx(txs[1]) /\ Granted(txs[1]))

\* What a reader makes of a string can be written and read again, has no sign to
\* lose, and does not await a fee payer whose signature it has.
Settled(t) ==
    /\ Writable(t) /\ KnownSignatures(t) /\ Magnitudes(t) = t
    /\ t.awaiting => t.feePayerSig = <<>>

AuthInv ==
    /\ auth \in Authorizations \cup {NoAuth}
    /\ device # NoAuth =>
          /\ device.says \in Authorizations /\ Validate(device.says)
          /\ device.digest = encodeFields(device.says)

TxInv == Sound(tx) /\ Sound(written) /\ Sound(first) /\ Sound(seen)

WireInv == wire # NoWire => IsString(wire) /\ GrantedIn(wire)

BoundInv == oddities \in 0..MaxOddities /\ hops \in 0..MaxHops

\* Where a transaction is: put together, on its way, or read; first of all.
OrderInv ==
    /\ tx # <<>> =>
          wire = NoWire /\ seen = <<>> /\ first = <<>> /\ written = <<>> /\ hops = 0
    /\ wire # NoWire => seen = <<>>
    /\ hops = 0 => first = seen
    /\ hops > 0 => first # <<>>

\* What the readers after the first have, and get, is what it had.
HopInv ==
    /\ first # <<>> => Settled(first[1])
    /\ hops > 0 /\ seen # <<>> => seen[1] = ChainKnown(first[1])
    /\ hops > 0 /\ wire # NoWire =>
          \/ wire = Sent(first[1], FALSE)
          \/ wire = Sent(ChainKnown(first[1]), FALSE)

\* What the first reader gets, or has, is what was written.
OwnInv ==
    /\ written # <<>> /\ hops = 0 /\ wire # NoWire =>
          /\ Writable(written[1])
          /\ wire.suffix \in BOOLEAN /\ wire = Sent(written[1], wire.suffix)
    /\ written # <<>> /\ first # <<>> =>
          KnownSignatures(written[1]) /\ first[1] = Reread(written[1])

IInv == AuthInv /\ TxInv /\ WireInv /\ BoundInv /\ OrderInv /\ HopInv /\ OwnInv

LEMMA SoundForm ==
    ASSUME NEW p
    PROVE  /\ Sound(p) <=> p = <<>> \/ \E t : p = <<t>> /\ IsTx(t) /\ Granted(t)
           /\ Sound(p) /\ p # <<>> => p = <<p[1]>> /\ IsTx(p[1]) /\ Granted(p[1])
<1>1. ASSUME NEW t, p = <<t>> PROVE p[1] = t
  BY <1>1
<1>2. ASSUME NEW t, p = <<t>>, IsTx(t), Granted(t) PROVE Sound(p)
  BY <1>1, <1>2, Zenon DEF Sound
<1>. QED
  BY <1>2, Zenon DEF Sound

LEMMA KnownForm ==
    ASSUME NEW num, NEW calls, NEW accessList, NEW feeToken, NEW feePayerSig, NEW awaiting,
           NEW keyAuth, NEW sig,
           NEW t, t = [num |-> num, calls |-> calls, accessList |-> accessList,
                       feeToken |-> feeToken, feePayerSig |-> feePayerSig,
                       awaiting |-> awaiting, keyAuth |-> keyAuth, sig |-> sig]
    PROVE  ChainKnown(t) =
               [num |-> NumbersKnown(num),
                calls |-> calls, accessList |-> accessList,
                feeToken |-> feeToken, feePayerSig |-> feePayerSig,
                awaiting |-> awaiting, keyAuth |-> keyAuth, sig |-> sig]
<1>1. PICK known : known = NumbersKnown(num)
  OBVIOUS
<1>2. ChainKnown(t) = [num |-> known, calls |-> calls, accessList |-> accessList,
                       feeToken |-> feeToken, feePayerSig |-> feePayerSig,
                       awaiting |-> awaiting, keyAuth |-> keyAuth, sig |-> sig]
  BY <1>1 DEF ChainKnown, NumbersKnown
<1>. QED
  BY <1>1, <1>2, Zenon

LEMMA KnownTx ==
    ASSUME NEW t, IsTx(t), NEW k, k = ChainKnown(t)
    PROVE  /\ IsTx(k) /\ (Settled(t) => Settled(k)) /\ (Granted(t) => Granted(k))
           /\ k.awaiting = t.awaiting /\ k.feePayerSig = t.feePayerSig
           /\ ChainKnown(k) = k
<1>1. PICK num, calls, accessList, feeToken, feePayerSig, awaiting, keyAuth, sig :
             /\ t = [num |-> num, calls |-> calls, accessList |-> accessList,
                     feeToken |-> feeToken, feePayerSig |-> feePayerSig,
                     awaiting |-> awaiting, keyAuth |-> keyAuth, sig |-> sig]
             /\ num \in [NumFields -> Int]
             /\ \A f \in WordFields : num[f] \in Below(WordLen)
             /\ calls \in Seq(Calls) /\ accessList \in AccessList
             /\ feeToken \in Below(AddressLen)
             /\ feePayerSig \in Pointers(FeePayerSignatures) /\ awaiting \in BOOLEAN
             /\ keyAuth = <<>> \/ \E x : keyAuth = <<x>> /\ x.kind = "list"
             /\ sig \in Pointers(Signatures)
  BY TxForm
<1>2. PICK known : known = NumbersKnown(num)
  OBVIOUS
<1>3. k = [num |-> known, calls |-> calls, accessList |-> accessList,
           feeToken |-> feeToken, feePayerSig |-> feePayerSig,
           awaiting |-> awaiting, keyAuth |-> keyAuth, sig |-> sig]
  BY <1>1, <1>2, KnownForm
<1>4. MainnetId \in Nat \ {0}
  BY WidthAssumption, WidthsArePositive DEF Below
<1>5. "chainID" \in NumFields /\ "chainID" \notin WordFields /\ WordFields \subseteq NumFields
  BY DEF NumFields, BigFields, WordFields
<1>6. /\ known \in [NumFields -> Int] /\ known["chainID"] # 0
      /\ \A f \in WordFields : known[f] \in Below(WordLen)
  BY <1>1, <1>2, <1>4, <1>5 DEF NumbersKnown
<1>7. /\ k.num = known /\ k.calls = calls /\ k.accessList = accessList
      /\ k.feeToken = feeToken /\ k.feePayerSig = feePayerSig
      /\ k.awaiting = awaiting /\ k.keyAuth = keyAuth /\ k.sig = sig
  BY <1>3
<1>8. /\ t.feePayerSig = feePayerSig /\ t.awaiting = awaiting
      /\ t.keyAuth = keyAuth /\ t.sig = sig
  BY <1>1
<1>9. IsTx(k)
  <2>1. \/ k.keyAuth = <<>>
        \/ k.keyAuth = <<k.keyAuth[1]>> /\ k.keyAuth[1].kind = "list"
    BY <1>8, <1>7, Zenon DEF IsTx
  <2>2. k = [num |-> k.num, calls |-> k.calls, accessList |-> k.accessList,
             feeToken |-> k.feeToken, feePayerSig |-> k.feePayerSig,
             awaiting |-> k.awaiting, keyAuth |-> k.keyAuth, sig |-> k.sig]
    BY <1>3, <1>7, Zenon
  <2>. QED
    BY <1>1, <1>6, <1>7, <2>1, <2>2, Zenon DEF IsTx
<1>10. ChainKnown(k) = k
  <2>1. PICK again : again = NumbersKnown(known)
    OBVIOUS
  <2>2. again = known
    BY <1>6, <2>1 DEF NumbersKnown
  <2>3. ChainKnown(k) = [num |-> again, calls |-> calls, accessList |-> accessList,
                         feeToken |-> feeToken, feePayerSig |-> feePayerSig,
                         awaiting |-> awaiting, keyAuth |-> keyAuth, sig |-> sig]
    BY <1>3, <2>1, KnownForm
  <2>. QED
    BY <1>3, <2>2, <2>3, Zenon
<1>11. /\ Writable(t) => Writable(k)
       /\ KnownSignatures(t) => KnownSignatures(k)
       /\ Granted(t) => Granted(k)
  BY <1>7, <1>8, Zenon DEF Writable, KnownSignatures, Granted
<1>12. ASSUME Magnitudes(t) = t PROVE Magnitudes(k) = k
  <2>1. PICK m, c, p, s, u, v :
                          /\ m = NumbersMagnitude(num) /\ c = CallsMagnitude(calls)
                          /\ p = PayerMagnitude(feePayerSig) /\ s = SigMagnitude(sig)
                          /\ u = Magnitudes(t) /\ v = Magnitudes(k)
    OBVIOUS
  <2>a. u = [num |-> m, calls |-> c, accessList |-> accessList, feeToken |-> feeToken,
             feePayerSig |-> p, awaiting |-> awaiting, keyAuth |-> keyAuth, sig |-> s]
    <3>1. t = [num |-> num, calls |-> calls, accessList |-> accessList,
               feeToken |-> feeToken, feePayerSig |-> feePayerSig,
               awaiting |-> awaiting, keyAuth |-> keyAuth, sig |-> sig]
      BY <1>1
    <3>2. Magnitudes(t) =
            [num |-> NumbersMagnitude(num), calls |-> CallsMagnitude(calls),
             accessList |-> accessList, feeToken |-> feeToken,
             feePayerSig |-> PayerMagnitude(feePayerSig), awaiting |-> awaiting,
             keyAuth |-> keyAuth, sig |-> SigMagnitude(sig)]
      BY <3>1, MagnitudesForm
    <3>. QED
      BY <2>1, <3>2, Zenon
  <2>2. t = [num |-> m, calls |-> c, accessList |-> accessList, feeToken |-> feeToken,
             feePayerSig |-> p, awaiting |-> awaiting, keyAuth |-> keyAuth, sig |-> s]
    BY <1>12, <2>1, <2>a
  <2>3. m = num /\ c = calls /\ p = feePayerSig /\ s = sig
    BY <1>1, <2>2
  <2>4. ASSUME NEW f \in NumFields PROVE Magnitude(known[f]) = known[f]
    <3>1. Magnitude(num[f]) = num[f]
      BY <2>1, <2>3 DEF NumbersMagnitude
    <3>2. known[f] = num[f] \/ known[f] = MainnetId
      BY <1>1, <1>2 DEF NumbersKnown
    <3>. QED
      BY <1>4, <3>1, <3>2, MagnitudeForm
  <2>5. NumbersMagnitude(known) = known
    BY <1>6, <2>4 DEF NumbersMagnitude
  <2>6. PICK n : n = NumbersMagnitude(known) /\ n = known
    BY <2>5
  <2>7. v = [num |-> n, calls |-> c, accessList |-> accessList, feeToken |-> feeToken,
             feePayerSig |-> p, awaiting |-> awaiting, keyAuth |-> keyAuth, sig |-> s]
    <3>1. Magnitudes(k) =
            [num |-> NumbersMagnitude(known), calls |-> CallsMagnitude(calls),
             accessList |-> accessList, feeToken |-> feeToken,
             feePayerSig |-> PayerMagnitude(feePayerSig), awaiting |-> awaiting,
             keyAuth |-> keyAuth, sig |-> SigMagnitude(sig)]
      BY <1>3, MagnitudesForm
    <3>. QED
      BY <2>1, <2>6, <3>1, Zenon
  <2>8. v = k
    BY <1>3, <2>3, <2>6, <2>7
  <2>. QED
    BY <2>1, <2>8
<1>13. Settled(t) => Settled(k)
  BY <1>7, <1>8, <1>11, <1>12 DEF Settled
<1>. QED
  BY <1>7, <1>8, <1>9, <1>10, <1>11, <1>13

\* What was settled once is read as it is, but for the chain id.
LEMMA SettledIsReread ==
    ASSUME NEW t, IsTx(t), Settled(t)
    PROVE  Reread(t) = ChainKnown(t)
<1>1. PICK k : k = ChainKnown(t)
  OBVIOUS
<1>2. IsTx(k) /\ k.awaiting = t.awaiting /\ k.feePayerSig = t.feePayerSig
  BY <1>1, KnownTx
<1>3. PICK num, calls, accessList, feeToken, feePayerSig, awaiting, keyAuth, sig :
             /\ k = [num |-> num, calls |-> calls, accessList |-> accessList,
                     feeToken |-> feeToken, feePayerSig |-> feePayerSig,
                     awaiting |-> awaiting, keyAuth |-> keyAuth, sig |-> sig]
             /\ awaiting \in BOOLEAN
  BY <1>2, TxForm
<1>4. k.awaiting = awaiting /\ (awaiting /\ t.feePayerSig = <<>>) = awaiting
  BY <1>2, <1>3 DEF Settled
<1>5. Reread(t) = [k EXCEPT !.awaiting = awaiting /\ t.feePayerSig = <<>>]
  BY <1>1, <1>4, Zenon DEF Reread, Settled
<1>6. [k EXCEPT !.awaiting = awaiting] = k
  BY <1>3
<1>. QED
  BY <1>1, <1>4, <1>5, <1>6

LEMMA SentIsPlain == \A t : Sent(t, FALSE) = Serialize(t)
<1>. SUFFICES ASSUME NEW t PROVE Sent(t, FALSE) = Serialize(t)
  OBVIOUS
<1>1. PICK w : w = Serialize(t)
  OBVIOUS
<1>2. PICK num, calls, accessList, feeToken, feePayer, authList, tail, off :
          /\ w = [prefix |-> "76", suffix |-> off, num |-> num, calls |-> calls,
                  accessList |-> accessList, feeToken |-> feeToken,
                  feePayer |-> feePayer, authList |-> authList, tail |-> tail]
          /\ off = FALSE
  BY <1>1, Zenon DEF Serialize
<1>3. [w EXCEPT !.suffix = off] = w
  BY <1>2
<1>. QED
  BY <1>1, <1>2, <1>3, Zenon DEF Sent

LEMMA SentIsRead ==
    ASSUME NEW t, IsTx(t), Granted(t), Writable(t), NEW suffix \in BOOLEAN,
           NEW w, w = Sent(t, suffix)
    PROVE  /\ IsString(w) /\ GrantedIn(w) /\ Deserialize(w) = Reread(t)
           /\ (Readable(w) <=> KnownSignatures(t)) \/ EndsLikeMarker(w)
<1>1. /\ IsString(w) /\ Deserialize(w) = Reread(t)
      /\ (Readable(w) <=> KnownSignatures(t)) \/ EndsLikeMarker(w)
      /\ \A i \in DOMAIN w.tail : w.tail[i].kind = "list" => <<w.tail[i]>> = t.keyAuth
  BY WrittenIsRead
<1>2. ASSUME NEW i \in DOMAIN w.tail, w.tail[i].kind = "list" PROVE IsAsSigned(w.tail[i])
  <2>1. PICK x : x = w.tail[i] /\ t.keyAuth = <<x>>
    BY <1>1, <1>2
  <2>2. x \in ToSet(t.keyAuth)
    BY <2>1 DEF ToSet
  <2>. QED
    BY <2>1, <2>2 DEF Granted
<1>. QED
  BY <1>1, <1>2 DEF GrantedIn

LEMMA ReadIsSettled ==
    ASSUME NEW w, IsString(w), GrantedIn(w), Readable(w), NEW t, t = Deserialize(w)
    PROVE  IsTx(t) /\ Granted(t) /\ Settled(t)
<1>1. /\ IsTx(t) /\ Settled(t)
      /\ t.keyAuth = <<>> \/ \E i \in DOMAIN w.tail : /\ t.keyAuth = <<w.tail[i]>>
                                                      /\ w.tail[i].kind = "list"
  BY ReadIsTx DEF Settled
<1>2. Granted(t)
  <2>1. CASE t.keyAuth = <<>>
    BY <2>1 DEF Granted, ToSet
  <2>2. ASSUME NEW i \in DOMAIN w.tail, t.keyAuth = <<w.tail[i]>>, w.tail[i].kind = "list"
        PROVE  Granted(t)
    <3>1. PICK x : x = w.tail[i]
      OBVIOUS
    <3>2. IsAsSigned(x) /\ t.keyAuth = <<x>>
      BY <2>2, <3>1 DEF GrantedIn
    <3>. QED
      BY <3>2 DEF Granted, ToSet
  <2>. QED
    BY <1>1, <2>1, <2>2
<1>. QED
  BY <1>1, <1>2

LEMMA Initially == Init => IInv
<1>. SUFFICES ASSUME Init PROVE IInv
  OBVIOUS
<1>1. PICK t \in OwnTxs : tx = <<t>>
  BY DEF Init
<1>2. IsTx(t) /\ Granted(t)
  <2>1. IsTx(t) /\ t.keyAuth = <<>>
    BY OwnAssumption
  <2>. QED
    BY <2>1 DEF Granted, ToSet
<1>3. Sound(tx) /\ Sound(<<>>)
  BY <1>1, <1>2, SoundForm
<1>4. TxInv
  BY <1>3 DEF Init, TxInv
<1>5. BoundInv
  BY WireAssumption DEF Init, BoundInv
<1>. QED
  BY <1>4, <1>5 DEF Init, IInv, AuthInv, WireInv, OrderInv, HopInv, OwnInv

\* While only the authorization changes.
LEMMA RestIsKept ==
    ASSUME IInv, AuthInv', UNCHANGED <<tx, wireVars>>
    PROVE  IInv'
  BY DEF IInv, TxInv, WireInv, BoundInv, OrderInv, HopInv, OwnInv, wireVars

LEMMA StartAuthorizationStep == IInv /\ StartAuthorization => IInv'
<1>. SUFFICES ASSUME IInv, StartAuthorization PROVE IInv'
  OBVIOUS
<1>1. PICK t \in KeyTypes : NewKeyAuthorization(MainnetId, t, 1)
  BY DEF StartAuthorization
<1>2. auth' \in Authorizations
  <2>1. MainnetId \in Nat
    BY WidthAssumption, WidthsArePositive DEF Below
  <2>. QED
    BY <1>1, <2>1 DEF NewKeyAuthorization, Authorizations
<1>3. AuthInv'
  BY <1>1, <1>2 DEF NewKeyAuthorization, IInv, AuthInv
<1>. QED
  BY <1>3, RestIsKept DEF StartAuthorization

LEMMA EditAuthorizationStep == IInv /\ EditAuthorization => IInv'
<1>. SUFFICES ASSUME IInv, EditAuthorization PROVE IInv'
  OBVIOUS
<1>1. ASSUME auth \in Authorizations PROVE auth' \in Authorizations
  <2>1. ASSUME NEW e \in Expiries, WithExpiry(e) PROVE auth' \in Authorizations
    BY <1>1, <2>1 DEF WithExpiry, Set, Authorizations
  <2>2. ASSUME NEW l \in LimitLists, WithLimits(l) PROVE auth' \in Authorizations
    BY <1>1, <2>2 DEF WithLimits, Set, Authorizations
  <2>3. ASSUME NEW s \in ScopeLists, WithAllowedCalls(s) PROVE auth' \in Authorizations
    BY <1>1, <2>3 DEF WithAllowedCalls, Set, Authorizations
  <2>4. ASSUME NEW h \in Witnesses, WithWitness(h) PROVE auth' \in Authorizations
    BY <1>1, <2>4 DEF WithWitness, Set, Authorizations
  <2>5. ASSUME NEW a \in Roots, WithAccount(a) PROVE auth' \in Authorizations
    BY <1>1, <2>5 DEF WithAccount, Set, Authorizations
  <2>6. ASSUME NEW a \in Roots, IntoAdmin(a) PROVE auth' \in Authorizations
    BY <1>1, <2>6 DEF IntoAdmin, Authorizations
  <2>. QED
    BY <2>1, <2>2, <2>3, <2>4, <2>5, <2>6 DEF EditAuthorization
<1>2. auth # NoAuth /\ UNCHANGED device
  BY DEF EditAuthorization, WithExpiry, WithLimits, WithAllowedCalls, WithWitness,
         WithAccount, IntoAdmin, Set
<1>3. AuthInv'
  BY <1>1, <1>2 DEF IInv, AuthInv
<1>. QED
  BY <1>3, RestIsKept DEF EditAuthorization

LEMMA AskDeviceStep == IInv /\ AskDevice => IInv'
<1>. SUFFICES ASSUME IInv, AskDevice PROVE IInv'
  OBVIOUS
<1>1. PICK root, type, marked : DeviceSigns(root, type, marked)
  BY DEF AskDevice
<1>2. auth \in Authorizations /\ Validate(auth)
  BY <1>1 DEF DeviceSigns, IInv, AuthInv
<1>3. AuthInv'
  BY <1>1, <1>2 DEF DeviceSigns, AuthInv
<1>. QED
  BY <1>3, RestIsKept DEF AskDevice

\* While a program still has the transaction.
LEMMA ProgramStep ==
    ASSUME IInv, tx # <<>>, Sound(tx'), tx' # <<>>, AuthInv', UNCHANGED wireVars
    PROVE  IInv'
  BY DEF IInv, TxInv, WireInv, BoundInv, OrderInv, HopInv, OwnInv, wireVars

\* A transaction with an authorization, or a signature, put on it.
LEMMA PutOn ==
    ASSUME NEW t, IsTx(t), Granted(t)
    PROVE  /\ \A k : k.kind = "list" /\ IsAsSigned(k) =>
                        Sound(<<[t EXCEPT !.keyAuth = <<k>>]>>)
           /\ \A e \in Signatures : Sound(<<[t EXCEPT !.sig = <<e>>]>>)
<1>1. PICK num, calls, accessList, feeToken, feePayerSig, awaiting, keyAuth, sig :
             /\ t = [num |-> num, calls |-> calls, accessList |-> accessList,
                     feeToken |-> feeToken, feePayerSig |-> feePayerSig,
                     awaiting |-> awaiting, keyAuth |-> keyAuth, sig |-> sig]
             /\ num \in [NumFields -> Int]
             /\ \A f \in WordFields : num[f] \in Below(WordLen)
             /\ calls \in Seq(Calls) /\ accessList \in AccessList
             /\ feeToken \in Below(AddressLen)
             /\ feePayerSig \in Pointers(FeePayerSignatures) /\ awaiting \in BOOLEAN
             /\ keyAuth = <<>> \/ \E x : keyAuth = <<x>> /\ x.kind = "list"
             /\ sig \in Pointers(Signatures)
  BY TxForm
<1>2. ASSUME NEW auths, auths = <<>> \/ (auths = <<auths[1]>> /\ auths[1].kind = "list"),
             NEW sigs \in Pointers(Signatures),
             NEW u, u = [num |-> num, calls |-> calls, accessList |-> accessList,
                         feeToken |-> feeToken, feePayerSig |-> feePayerSig,
                         awaiting |-> awaiting, keyAuth |-> auths, sig |-> sigs]
      PROVE  IsTx(u)
  <2>1. /\ u.num = num /\ u.calls = calls /\ u.accessList = accessList
        /\ u.feeToken = feeToken /\ u.feePayerSig = feePayerSig
        /\ u.awaiting = awaiting /\ u.keyAuth = auths /\ u.sig = sigs
    BY <1>2
  <2>. QED
    BY <1>1, <1>2, <2>1, Zenon DEF IsTx
<1>3. t.keyAuth = keyAuth /\ t.sig = sig
  BY <1>1
<1>4. ASSUME NEW k, k.kind = "list", IsAsSigned(k)
      PROVE  Sound(<<[t EXCEPT !.keyAuth = <<k>>]>>)
  <2>1. PICK u, auths : u = [t EXCEPT !.keyAuth = auths] /\ auths = <<k>>
    OBVIOUS
  <2>2. u = [num |-> num, calls |-> calls, accessList |-> accessList,
             feeToken |-> feeToken, feePayerSig |-> feePayerSig,
             awaiting |-> awaiting, keyAuth |-> auths, sig |-> sig]
    BY <1>1, <2>1
  <2>3. auths[1] = k
    BY <2>1
  <2>4. IsTx(u)
    BY <1>1, <1>2, <1>4, <2>1, <2>2, <2>3, Zenon
  <2>5. u.keyAuth = <<k>>
    BY <2>1, <2>2
  <2>6. Granted(u)
    BY <1>4, <2>5 DEF Granted, ToSet
  <2>. QED
    BY <2>1, <2>4, <2>6, SoundForm, Zenon
<1>5. ASSUME NEW e \in Signatures PROVE Sound(<<[t EXCEPT !.sig = <<e>>]>>)
  <2>1. PICK u, sigs : u = [t EXCEPT !.sig = sigs] /\ sigs = <<e>>
    OBVIOUS
  <2>2. u = [num |-> num, calls |-> calls, accessList |-> accessList,
             feeToken |-> feeToken, feePayerSig |-> feePayerSig,
             awaiting |-> awaiting, keyAuth |-> keyAuth, sig |-> sigs]
    BY <1>1, <2>1
  <2>3. sigs \in Pointers(Signatures)
    BY <2>1, PointersForm
  <2>4. keyAuth = <<>> \/ (keyAuth = <<keyAuth[1]>> /\ keyAuth[1].kind = "list")
    BY <1>3, Zenon DEF IsTx
  <2>5. IsTx(u)
    BY <1>1, <1>2, <2>2, <2>3, <2>4, Zenon
  <2>6. u.keyAuth = t.keyAuth
    BY <1>3, <2>2
  <2>7. Granted(u)
    BY <2>6 DEF Granted
  <2>. QED
    BY <2>1, <2>5, <2>7, SoundForm, Zenon
<1>. QED
  BY <1>4, <1>5, Zenon

LEMMA AttachStep ==
    ASSUME IInv, tx # <<>>, NEW k, k.kind = "list", IsAsSigned(k), Attach(k), UNCHANGED wireVars
    PROVE  IInv'
<1>1. IsTx(tx[1]) /\ Granted(tx[1])
  BY SoundForm DEF IInv, TxInv
<1>2. Sound(tx') /\ tx' # <<>>
  <2>1. PICK u : tx' = <<u>> /\ u = [tx[1] EXCEPT !.keyAuth = <<k>>]
    BY DEF Attach
  <2>. QED
    BY <1>1, <2>1, PutOn
<1>3. AuthInv'
  BY DEF Attach, AuthInv
<1>. QED
  BY <1>2, <1>3, ProgramStep

LEMMA SignAndAttachStep ==
    ASSUME IInv, NEW root \in Roots, SignAndAttach(root)
    PROVE  IInv'
<1>1. auth \in Authorizations /\ Validate(auth)
  BY DEF SignAndAttach, IInv, AuthInv
<1>2. PICK sig : sig = [type |-> "secp256k1", by |-> root, digest |-> encodeFields(auth),
                        says |-> auth]
  OBVIOUS
<1>3. sig.says = auth /\ sig.digest = encodeFields(auth)
  BY <1>2
<1>4. Sign(auth, root) = SignedWith(auth, sig)
  BY <1>2, Zenon DEF Sign
<1>5. Sign(auth, root).kind = "list" /\ IsAsSigned(Sign(auth, root))
  BY <1>1, <1>3, <1>4, GrantForm
<1>. QED
  BY <1>5, AttachStep DEF SignAndAttach

LEMMA BuildSignedStep == IInv /\ BuildSigned => IInv'
<1>. SUFFICES ASSUME IInv, BuildSigned PROVE IInv'
  OBVIOUS
<1>1. auth \in Authorizations /\ Validate(auth)
  BY DEF BuildSigned, IInv, AuthInv
<1>2. PICK says : /\ says \in Authorizations /\ Validate(says)
                  /\ device.says = says /\ device.digest = encodeFields(says)
  BY DEF BuildSigned, IInv, AuthInv
<1>3. SignedWith(auth, device).kind = "list" /\ IsAsSigned(SignedWith(auth, device))
  BY <1>1, <1>2, GrantForm
<1>. QED
  BY <1>3, AttachStep DEF BuildSigned

LEMMA SignTxStep ==
    ASSUME IInv, NEW e \in Envelopes, SignTx(e)
    PROVE  IInv'
<1>1. tx # <<>> /\ IsTx(tx[1]) /\ Granted(tx[1])
  BY SoundForm DEF SignTx, IInv, TxInv
<1>2. Sound(tx') /\ tx' # <<>>
  <2>1. PICK u : tx' = <<u>> /\ u = [tx[1] EXCEPT !.sig = <<e>>]
    BY DEF SignTx
  <2>. QED
    BY <1>1, <2>1, PutOn, OwnAssumption
<1>3. AuthInv'
  BY DEF SignTx, IInv, AuthInv, authVars
<1>. QED
  BY <1>1, <1>2, <1>3, ProgramStep DEF SignTx

LEMMA SendStep ==
    ASSUME IInv, NEW suffix \in BOOLEAN, Send(suffix)
    PROVE  IInv'
<1>1. tx # <<>> /\ tx = <<tx[1]>> /\ IsTx(tx[1]) /\ Granted(tx[1])
  BY SoundForm, Zenon DEF Send, IInv, TxInv
<1>2. PICK t : t = tx[1] /\ tx = <<t>> /\ IsTx(t) /\ Granted(t)
  BY <1>1
<1>3. /\ Writable(t) /\ wire' = Sent(t, suffix) /\ written' = <<t>> /\ tx' = <<>>
      /\ UNCHANGED <<authVars, edits, oddities, seen, first, hops>>
  BY <1>2 DEF Send, Sent
<1>4. seen = <<>> /\ first = <<>> /\ hops = 0
  BY <1>1 DEF IInv, OrderInv
<1>5. IsString(wire') /\ GrantedIn(wire')
  BY <1>2, <1>3, SentIsRead
<1>6. wire'.suffix = suffix
  <2>0. PICK plain : plain = Serialize(t)
    OBVIOUS
  <2>1. PICK p, c, a, x, y, z, tail, off :
          plain = [prefix |-> "76", suffix |-> off, num |-> p, calls |-> c,
                   accessList |-> a, feeToken |-> x, feePayer |-> y,
                   authList |-> z, tail |-> tail]
    BY <2>0, Zenon DEF Serialize
  <2>2. [plain EXCEPT !.suffix = suffix].suffix = suffix
    BY <2>1
  <2>. QED
    BY <1>3, <2>0, <2>2 DEF Sent
<1>7. Sound(<<>>) /\ Sound(<<t>>)
  BY <1>2, SoundForm
<1>8. TxInv'
  BY <1>3, <1>7 DEF IInv, TxInv
<1>9. OwnInv'
  <2>1. written'[1] = t /\ first' = <<>>
    BY <1>3, <1>4
  <2>. QED
    BY <1>3, <1>6, <2>1 DEF OwnInv
<1>. QED
  BY <1>3, <1>4, <1>5, <1>8, <1>9
     DEF IInv, AuthInv, WireInv, BoundInv, OrderInv, HopInv, authVars

LEMMA ForwardStep == IInv /\ Forward => IInv'
<1>. SUFFICES ASSUME IInv, Forward PROVE IInv'
  OBVIOUS
<1>1. /\ seen # <<>> /\ Writable(seen[1]) /\ hops < MaxHops /\ wire' = Serialize(seen[1])
      /\ seen' = <<>> /\ hops' = hops + 1
      /\ UNCHANGED <<authVars, tx, edits, written, oddities, first>>
  BY DEF Forward
<1>2. IsTx(seen[1]) /\ Granted(seen[1])
  BY <1>1, SoundForm DEF IInv, TxInv
<1>3. PICK t : t = seen[1] /\ wire' = Sent(t, FALSE)
  BY <1>1, SentIsPlain
<1>4. IsString(wire') /\ GrantedIn(wire')
  BY <1>1, <1>2, <1>3, SentIsRead
<1>5. hops \in Nat /\ hops' \in 0..MaxHops /\ hops' > 0
  BY <1>1, WireAssumption DEF IInv, BoundInv
<1>6. tx = <<>> /\ first # <<>> /\ (t = first[1] \/ t = ChainKnown(first[1]))
  BY <1>1, <1>3, <1>5 DEF IInv, OrderInv, HopInv
<1>7. TxInv'
  BY <1>1, SoundForm DEF IInv, TxInv
<1>8. WireInv' /\ BoundInv' /\ OrderInv' /\ OwnInv'
  BY <1>1, <1>4, <1>5, <1>6 DEF IInv, WireInv, BoundInv, OrderInv, OwnInv
<1>9. HopInv'
  BY <1>1, <1>3, <1>6 DEF IInv, HopInv
<1>. QED
  BY <1>1, <1>7, <1>8, <1>9 DEF IInv, AuthInv, authVars

LEMMA ReadStep == IInv /\ Read => IInv'
<1>. SUFFICES ASSUME IInv, Read PROVE IInv'
  OBVIOUS
<1>1. PICK t : t = Deserialize(wire)
  OBVIOUS
<1>2. /\ wire # NoWire /\ Readable(wire) /\ seen' = <<t>> /\ wire' = NoWire
      /\ first' = (IF hops = 0 THEN <<t>> ELSE first)
      /\ UNCHANGED <<authVars, tx, edits, written, oddities, hops>>
  BY <1>1 DEF Read
<1>3. IsTx(t) /\ Granted(t) /\ Settled(t)
  BY <1>1, <1>2, ReadIsSettled DEF IInv, WireInv
<1>4. /\ tx = <<>> /\ hops \in Nat /\ (hops = 0 => first = <<>>)
      /\ hops > 0 => first # <<>>
  BY <1>2, WireAssumption DEF IInv, OrderInv, BoundInv
<1>5. hops = 0 => first' = <<t>> /\ first'[1] = t
  BY <1>2
<1>6. TxInv'
  <2>1. Sound(<<t>>)
    BY <1>3, SoundForm
  <2>. QED
    BY <1>2, <2>1 DEF IInv, TxInv
<1>7. OrderInv'
  BY <1>2, <1>4 DEF OrderInv
<1>8. HopInv'
  <2>1. first' # <<>> => Settled(first'[1])
    BY <1>2, <1>3, <1>4, <1>5 DEF IInv, HopInv
  <2>2. hops > 0 => t = ChainKnown(first[1])
    <3>. SUFFICES ASSUME hops > 0 PROVE t = ChainKnown(first[1])
      OBVIOUS
    <3>1. PICK f, k : f = first[1] /\ k = ChainKnown(f)
      OBVIOUS
    <3>2. IsTx(f) /\ Granted(f) /\ Settled(f)
      BY <1>4, <3>1, SoundForm DEF IInv, TxInv, HopInv
    <3>3. /\ IsTx(k) /\ Granted(k) /\ Settled(k) /\ ChainKnown(k) = k
      BY <3>1, <3>2, KnownTx
    <3>4. CASE wire = Sent(f, FALSE)
      <4>1. t = Reread(f)
        BY <1>1, <3>2, <3>4, SentIsRead DEF Settled
      <4>. QED
        BY <3>1, <3>2, <4>1, SettledIsReread
    <3>5. CASE wire = Sent(k, FALSE)
      <4>1. t = Reread(k)
        BY <1>1, <3>3, <3>5, SentIsRead DEF Settled
      <4>2. Reread(k) = ChainKnown(k)
        BY <3>3, SettledIsReread
      <4>. QED
        BY <3>1, <3>3, <4>1, <4>2
    <3>. QED
      BY <1>2, <3>1, <3>4, <3>5 DEF IInv, HopInv
  <2>3. seen'[1] = t /\ hops' = hops /\ (hops > 0 => first' = first)
    BY <1>2, <1>4
  <2>. QED
    BY <1>2, <2>1, <2>2, <2>3 DEF HopInv
<1>9. OwnInv'
  <2>1. written # <<>> /\ hops = 0 => KnownSignatures(written[1]) /\ t = Reread(written[1])
    <3>. SUFFICES ASSUME written # <<>>, hops = 0
                  PROVE  KnownSignatures(written[1]) /\ t = Reread(written[1])
      OBVIOUS
    <3>1. PICK u, suffix : u = written[1] /\ suffix = wire.suffix
      OBVIOUS
    <3>2. IsTx(u) /\ Granted(u)
      BY <3>1, SoundForm DEF IInv, TxInv
    <3>3. Writable(u) /\ suffix \in BOOLEAN /\ wire = Sent(u, suffix)
      BY <1>2, <3>1 DEF IInv, OwnInv
    <3>4. ~EndsLikeMarker(wire)
      BY <1>2 DEF Readable
    <3>. QED
      BY <1>1, <1>2, <3>1, <3>2, <3>3, <3>4, SentIsRead
  <2>2. hops # 0 /\ first # <<>> /\ written # <<>> =>
            KnownSignatures(written[1]) /\ first[1] = Reread(written[1])
    BY DEF IInv, OwnInv
  <2>. QED
    BY <1>2, <1>4, <1>5, <2>1, <2>2 DEF OwnInv
<1>. QED
  BY <1>2, <1>6, <1>7, <1>8, <1>9 DEF IInv, AuthInv, WireInv, BoundInv, authVars

\* A string put together from fields.
LEMMA StringOf ==
    ASSUME NEW prefix, NEW suffix, NEW num, NEW calls, NEW accessList, NEW feeToken,
           NEW feePayer, NEW authList, NEW tail,
           num = [f \in NumFields |-> num[f]], \A f \in NumFields : IsItem(num[f]),
           IsNested(calls), IsDeep(accessList), IsItem(feeToken), IsFlat(feePayer),
           IsTail(tail), \A i \in DOMAIN tail : tail[i].kind = "list" => IsAsSigned(tail[i]),
           NEW w, w = [prefix |-> prefix, suffix |-> suffix, num |-> num, calls |-> calls,
                       accessList |-> accessList, feeToken |-> feeToken,
                       feePayer |-> feePayer, authList |-> authList, tail |-> tail]
    PROVE  IsString(w) /\ GrantedIn(w)
<1>1. /\ w.prefix = prefix /\ w.suffix = suffix /\ w.num = num /\ w.calls = calls
      /\ w.accessList = accessList /\ w.feeToken = feeToken /\ w.feePayer = feePayer
      /\ w.authList = authList /\ w.tail = tail
  OBVIOUS
<1>2. IsString(w)
  BY <1>1, Zenon DEF IsString
<1>. QED
  BY <1>1, <1>2, Zenon DEF GrantedIn

\* Whatever field another encoder writes in its own way, it is a string still.
LEMMA OddStrings ==
    ASSUME NEW w, IsString(w), GrantedIn(w)
    PROVE  /\ \A o \in Oddities : IsString([w EXCEPT ![o[1]] = o[2]])
                                  /\ GrantedIn([w EXCEPT ![o[1]] = o[2]])
           /\ \A o \in NumOddities : IsString([w EXCEPT !.num[o[1]] = o[2]])
                                     /\ GrantedIn([w EXCEPT !.num[o[1]] = o[2]])
<1>1. PICK prefix, suffix, num, calls, accessList, feeToken, feePayer, authList, tail :
        /\ prefix = w.prefix /\ suffix = w.suffix /\ num = w.num /\ calls = w.calls
        /\ accessList = w.accessList /\ feeToken = w.feeToken /\ feePayer = w.feePayer
        /\ authList = w.authList /\ tail = w.tail
  OBVIOUS
<1>2. w = [prefix |-> prefix, suffix |-> suffix, num |-> num, calls |-> calls,
           accessList |-> accessList, feeToken |-> feeToken,
           feePayer |-> feePayer, authList |-> authList, tail |-> tail]
  BY <1>1, Zenon DEF IsString
<1>3. /\ num = [f \in NumFields |-> num[f]] /\ \A f \in NumFields : IsItem(num[f])
      /\ IsNested(calls) /\ IsDeep(accessList) /\ IsItem(feeToken) /\ IsFlat(feePayer)
      /\ IsTail(tail) /\ \A i \in DOMAIN tail : tail[i].kind = "list" => IsAsSigned(tail[i])
  BY <1>1, Zenon DEF IsString, GrantedIn
<1>4. ASSUME NEW o \in Oddities, NEW v, v = [w EXCEPT ![o[1]] = o[2]]
      PROVE  IsString(v) /\ GrantedIn(v)
  <2>1. PICK field, item : field = o[1] /\ item = o[2]
    OBVIOUS
  <2>2. v = [w EXCEPT ![field] = item]
    BY <1>4, <2>1
  <2>3. \/ field \in {"prefix", "authList"}
        \/ field = "calls" /\ IsNested(item)
        \/ field = "accessList" /\ IsDeep(item)
        \/ field = "feeToken" /\ IsItem(item)
        \/ field = "feePayer" /\ IsFlat(item)
        \/ /\ field = "tail" /\ IsTail(item)
           /\ \A x \in ToSet(item) : x.kind = "list" => IsAsSigned(x)
    BY <1>4, <2>1, OtherAssumption
  <2>4. CASE field = "prefix"
    <3>1. v = [prefix |-> item, suffix |-> suffix, num |-> num, calls |-> calls,
               accessList |-> accessList, feeToken |-> feeToken,
               feePayer |-> feePayer, authList |-> authList, tail |-> tail]
      BY <1>2, <2>2, <2>4
    <3>. QED
      BY <1>3, <3>1, StringOf, Zenon
  <2>5. CASE field = "authList"
    <3>1. v = [prefix |-> prefix, suffix |-> suffix, num |-> num, calls |-> calls,
               accessList |-> accessList, feeToken |-> feeToken,
               feePayer |-> feePayer, authList |-> item, tail |-> tail]
      BY <1>2, <2>2, <2>5
    <3>. QED
      BY <1>3, <3>1, StringOf, Zenon
  <2>6. CASE field = "calls" /\ IsNested(item)
    <3>1. v = [prefix |-> prefix, suffix |-> suffix, num |-> num, calls |-> item,
               accessList |-> accessList, feeToken |-> feeToken,
               feePayer |-> feePayer, authList |-> authList, tail |-> tail]
      BY <1>2, <2>2, <2>6
    <3>. QED
      BY <1>3, <2>6, <3>1, StringOf, Zenon
  <2>7. CASE field = "accessList" /\ IsDeep(item)
    <3>1. v = [prefix |-> prefix, suffix |-> suffix, num |-> num, calls |-> calls,
               accessList |-> item, feeToken |-> feeToken,
               feePayer |-> feePayer, authList |-> authList, tail |-> tail]
      BY <1>2, <2>2, <2>7
    <3>. QED
      BY <1>3, <2>7, <3>1, StringOf, Zenon
  <2>8. CASE field = "feeToken" /\ IsItem(item)
    <3>1. v = [prefix |-> prefix, suffix |-> suffix, num |-> num, calls |-> calls,
               accessList |-> accessList, feeToken |-> item,
               feePayer |-> feePayer, authList |-> authList, tail |-> tail]
      BY <1>2, <2>2, <2>8
    <3>. QED
      BY <1>3, <2>8, <3>1, StringOf, Zenon
  <2>9. CASE field = "feePayer" /\ IsFlat(item)
    <3>1. v = [prefix |-> prefix, suffix |-> suffix, num |-> num, calls |-> calls,
               accessList |-> accessList, feeToken |-> feeToken,
               feePayer |-> item, authList |-> authList, tail |-> tail]
      BY <1>2, <2>2, <2>9
    <3>. QED
      BY <1>3, <2>9, <3>1, StringOf, Zenon
  <2>10. CASE /\ field = "tail" /\ IsTail(item)
              /\ \A x \in ToSet(item) : x.kind = "list" => IsAsSigned(x)
    <3>1. v = [prefix |-> prefix, suffix |-> suffix, num |-> num, calls |-> calls,
               accessList |-> accessList, feeToken |-> feeToken,
               feePayer |-> feePayer, authList |-> authList, tail |-> item]
      BY <1>2, <2>2, <2>10
    <3>2. \A i \in DOMAIN item : item[i].kind = "list" => IsAsSigned(item[i])
      BY <2>10, Zenon DEF ToSet
    <3>. QED
      BY <1>3, <2>10, <3>1, <3>2, StringOf, Zenon
  <2>. QED
    BY <2>3, <2>4, <2>5, <2>6, <2>7, <2>8, <2>9, <2>10
<1>5. ASSUME NEW o \in NumOddities, NEW v, v = [w EXCEPT !.num[o[1]] = o[2]]
      PROVE  IsString(v) /\ GrantedIn(v)
  <2>1. PICK field, item : field = o[1] /\ item = o[2]
    OBVIOUS
  <2>2. field \in NumFields /\ IsItem(item)
    BY <2>1, OtherAssumption
  <2>3. PICK n : n = [f \in NumFields |-> IF f = field THEN item ELSE num[f]]
    OBVIOUS
  <2>4. v = [prefix |-> prefix, suffix |-> suffix, num |-> n, calls |-> calls,
             accessList |-> accessList, feeToken |-> feeToken,
             feePayer |-> feePayer, authList |-> authList, tail |-> tail]
    <3>1. PICK m : m = [num EXCEPT ![field] = item]
      OBVIOUS
    <3>2. v = [w EXCEPT !.num = m]
      BY <1>2, <1>5, <2>1, <3>1
    <3>3. DOMAIN num = NumFields
      BY <1>3
    <3>4. m = n
      BY <2>2, <2>3, <3>1, <3>3
    <3>. QED
      BY <1>2, <3>2, <3>4
  <2>5. n = [f \in NumFields |-> n[f]] /\ \A f \in NumFields : IsItem(n[f])
    BY <1>3, <2>2, <2>3
  <2>. QED
    BY <1>3, <2>4, <2>5, StringOf, Zenon
<1>. QED
  BY <1>4, <1>5, Zenon

LEMMA WriteOddlyStep == IInv /\ WriteOddly => IInv'
<1>. SUFFICES ASSUME IInv, WriteOddly PROVE IInv'
  OBVIOUS
<1>1. /\ wire # NoWire /\ hops = 0 /\ oddities < MaxOddities /\ oddities' = oddities + 1
      /\ written' = <<>> /\ UNCHANGED <<authVars, tx, edits, seen, first, hops>>
  BY DEF WriteOddly
<1>2. IsString(wire) /\ GrantedIn(wire)
  BY <1>1 DEF IInv, WireInv
<1>3. IsString(wire') /\ GrantedIn(wire')
  <2>1. ASSUME NEW o \in Oddities, wire' = [wire EXCEPT ![o[1]] = o[2]]
        PROVE  IsString(wire') /\ GrantedIn(wire')
    BY <1>2, <2>1, OddStrings, Zenon
  <2>2. ASSUME NEW o \in NumOddities, wire' = [wire EXCEPT !.num[o[1]] = o[2]]
        PROVE  IsString(wire') /\ GrantedIn(wire')
    BY <1>2, <2>2, OddStrings, Zenon
  <2>. QED
    BY <2>1, <2>2 DEF WriteOddly
<1>4. tx = <<>> /\ seen = <<>> /\ first = <<>>
  BY <1>1 DEF IInv, OrderInv
<1>5. TxInv'
  BY <1>1, SoundForm DEF IInv, TxInv
<1>6. BoundInv'
  BY <1>1, WireAssumption DEF IInv, BoundInv
<1>. QED
  BY <1>1, <1>3, <1>4, <1>5, <1>6
     DEF IInv, AuthInv, WireInv, OrderInv, HopInv, OwnInv, authVars

LEMMA InvariantIsKept == IInv /\ [Next]_vars => IInv'
<1>. SUFFICES ASSUME IInv, [Next]_vars PROVE IInv'
  OBVIOUS
<1>1. CASE StartAuthorization
  BY <1>1, StartAuthorizationStep
<1>2. CASE EditAuthorization
  BY <1>2, EditAuthorizationStep
<1>3. CASE AskDevice
  BY <1>3, AskDeviceStep
<1>4. CASE BuildSigned
  BY <1>4, BuildSignedStep
<1>5. CASE WriteOddly
  BY <1>5, WriteOddlyStep
<1>6. CASE Read
  BY <1>6, ReadStep
<1>7. CASE Forward
  BY <1>7, ForwardStep
<1>8. ASSUME NEW root \in Roots, SignAndAttach(root) PROVE IInv'
  BY <1>8, SignAndAttachStep
<1>9. ASSUME NEW e \in Envelopes, SignTx(e) PROVE IInv'
  BY <1>9, SignTxStep
<1>10. ASSUME NEW suffix \in BOOLEAN, Send(suffix) PROVE IInv'
  BY <1>10, SendStep
<1>11. CASE UNCHANGED vars
  BY <1>11 DEF vars, authVars, wireVars, IInv, AuthInv, TxInv, WireInv, BoundInv, OrderInv,
               HopInv, OwnInv
<1>. QED
  BY <1>1, <1>2, <1>3, <1>4, <1>5, <1>6, <1>7, <1>8, <1>9, <1>10, <1>11 DEF Next

LEMMA InvariantHolds == Spec => []IInv
  BY Initially, InvariantIsKept, PTL DEF Spec

\* What a reader holds, be it the first or a later one.
LEMMA SeenForm ==
    ASSUME IInv, seen # <<>>
    PROVE  \E t : /\ seen = <<t>> /\ seen[1] = t /\ IsTx(t) /\ Granted(t) /\ Settled(t)
                  /\ first # <<>> /\ (hops > 0 => t = ChainKnown(first[1]))
<1>1. PICK t : seen = <<t>> /\ IsTx(t) /\ Granted(t)
  BY SoundForm DEF IInv, TxInv
<1>2. seen[1] = t /\ hops \in Nat
  BY <1>1, WireAssumption DEF IInv, BoundInv
<1>3. CASE hops = 0
  BY <1>1, <1>2, <1>3 DEF IInv, OrderInv, HopInv
<1>4. CASE hops > 0
  <2>1. PICK f : f = first[1]
    OBVIOUS
  <2>2. first # <<>> /\ IsTx(f) /\ Settled(f) /\ t = ChainKnown(f)
    BY <1>1, <1>2, <1>4, <2>1, SoundForm DEF IInv, TxInv, OrderInv, HopInv
  <2>3. Settled(t)
    BY <2>2, KnownTx
  <2>. QED
    BY <1>1, <1>2, <2>1, <2>2, <2>3
<1>. QED
  BY <1>2, <1>3, <1>4

\* A string that is written out again is one of what the first reader had.
LEMMA ForwardedForm ==
    ASSUME IInv, hops > 0, wire # NoWire
    PROVE  Readable(wire) \/ EndsLikeMarker(wire)
<1>1. PICK f, k : f = first[1] /\ k = ChainKnown(f)
  OBVIOUS
<1>2. IsTx(f) /\ Granted(f) /\ Settled(f)
  BY <1>1, SoundForm DEF IInv, TxInv, OrderInv, HopInv
<1>3. IsTx(k) /\ Granted(k) /\ Settled(k)
  BY <1>1, <1>2, KnownTx
<1>4. wire = Sent(f, FALSE) \/ wire = Sent(k, FALSE)
  BY <1>1 DEF IInv, HopInv
<1>. QED
  BY <1>2, <1>3, <1>4, SentIsRead DEF Settled

-----------------------------------------------------------------------------
(* The properties.                                                         *)

\* Whatever is written, in whatever form, what a reader holds fits the fields
\* of Tx: words of at most 64 bits, addresses and scalars of their lengths, a
\* parity of 0 or 1, and no fee payer's signature that is still awaited.
THEOREM TypeCorrect == Spec => []TypeOK
<1>1. IInv => TypeOK
  <2>. SUFFICES ASSUME IInv PROVE TypeOK
    OBVIOUS
  <2>1. \A txs \in {tx, written, seen, first} :
            txs = <<>> \/ (txs = <<txs[1]>> /\ IsTx(txs[1]))
    <3>1. \A txs \in {tx, written, seen, first} : Sound(txs)
      BY DEF IInv, TxInv
    <3>. QED
      BY <3>1, Zenon DEF Sound
  <2>2. ASSUME NEW i \in DOMAIN seen, seen[i].awaiting PROVE seen[i].feePayerSig = <<>>
    <3>1. seen # <<>>
      BY <2>2
    <3>2. PICK t : seen = <<t>> /\ seen[1] = t /\ Settled(t)
      BY <3>1, SeenForm
    <3>3. i = 1
      BY <3>2
    <3>. QED
      BY <2>2, <3>2, <3>3 DEF Settled
  <2>. QED
    BY <2>1, <2>2 DEF IInv, AuthInv, BoundInv, WireInv, TypeOK
<1>. QED
  BY <1>1, InvariantHolds, PTL

\* What one program has read from a string, in whatever form it was, every
\* further one reads from what is written out again; and it holds no number with
\* a sign and no signature that there is not.
THEOREM HopsAgreeHolds == Spec => []HopsAgree
<1>1. IInv => HopsAgree
  <2>. SUFFICES ASSUME IInv PROVE HopsAgree
    OBVIOUS
  <2>1. ASSUME seen # <<>>
        PROVE  /\ Writable(seen[1]) /\ KnownSignatures(seen[1])
               /\ Magnitudes(seen[1]) = seen[1]
               /\ hops > 0 => seen[1] = ChainKnown(first[1])
    BY <2>1, SeenForm DEF Settled
  <2>2. hops > 0 /\ wire # NoWire => Readable(wire) \/ EndsLikeMarker(wire)
    BY ForwardedForm
  <2>. QED
    BY <2>1, <2>2 DEF HopsAgree
<1>. QED
  BY <1>1, InvariantHolds, PTL

\* Deserialize takes what Serialize wrote, with the suffix or without, exactly
\* when its signatures are ones there are, and for the transaction that was
\* written but for the signs of its numbers.
THEOREM OwnStringsAreReadHolds == Spec => []OwnStringsAreRead
<1>1. IInv => OwnStringsAreRead
  <2>. SUFFICES ASSUME IInv, written # <<>> PROVE OwnStringsAreRead
    BY DEF OwnStringsAreRead
  <2>1. ASSUME wire # NoWire
        PROVE  (Readable(wire) <=> KnownSignatures(written[1])) \/ EndsLikeMarker(wire)
    <3>1. hops \in Nat
      BY WireAssumption DEF IInv, BoundInv
    <3>2. CASE hops > 0
      <4>1. KnownSignatures(written[1])
        BY <3>2 DEF IInv, OrderInv, OwnInv
      <4>. QED
        BY <2>1, <3>2, <4>1, ForwardedForm
    <3>3. CASE hops = 0
      <4>1. PICK t, suffix : t = written[1] /\ suffix = wire.suffix
        OBVIOUS
      <4>2. IsTx(t) /\ Granted(t)
        BY <4>1, SoundForm DEF IInv, TxInv
      <4>3. Writable(t) /\ suffix \in BOOLEAN /\ wire = Sent(t, suffix)
        BY <2>1, <3>3, <4>1 DEF IInv, OwnInv
      <4>. QED
        BY <4>1, <4>2, <4>3, SentIsRead
    <3>. QED
      BY <3>1, <3>2, <3>3
  <2>2. first # <<>> => first[1] = Reread(written[1])
    BY DEF IInv, OwnInv
  <2>. QED
    BY <2>1, <2>2 DEF OwnStringsAreRead, Reread
<1>. QED
  BY <1>1, InvariantHolds, PTL

\* A string in the documented form is read, and written again as the same one.
THEOREM CanonicalIsKeptHolds == Spec => []CanonicalIsKept
<1>1. IInv => CanonicalIsKept
  BY CanonicalIsRewritten DEF IInv, WireInv, CanonicalIsKept
<1>. QED
  BY <1>1, InvariantHolds, PTL

\* An authorization with a signature that fits is read by the node as what its
\* signer had before it.
THEOREM GrantIsAsSignedHolds == Spec => []GrantIsAsSigned
<1>1. IInv => GrantIsAsSigned
  <2>. SUFFICES ASSUME IInv, NEW i \in DOMAIN seen, NEW grant \in ToSet(seen[i].keyAuth)
                PROVE  IsAsSigned(grant)
    BY DEF GrantIsAsSigned
  <2>1. PICK t : seen = <<t>> /\ seen[1] = t /\ Granted(t)
    BY SeenForm
  <2>2. i = 1
    BY <2>1
  <2>. QED
    BY <2>1, <2>2 DEF Granted
<1>. QED
  BY <1>1, InvariantHolds, PTL
=============================================================================
