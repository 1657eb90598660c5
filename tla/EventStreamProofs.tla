--------------------------- MODULE EventStreamProofs ---------------------------
(***************************************************************************)
(* For any number of publishers, events and lost connections, and however  *)
(* little the channel holds: a page that has caught up shows the newest    *)
(* event, and as long as publications keep apart all the controller holds. *)
(***************************************************************************)
EXTENDS EventStream, FiniteSetTheorems, SequenceTheorems, WellFoundedInduction, TLAPS

---------------------------------------------------------------------------
(* Sequences of numbers.                                                   *)

\* s holds the numbers up to n, without a gap.
UpTo(s, n) == \A i \in 1..Len(s) : s[i] = n - Len(s) + i

(* Every set of numbers has a least one.                                   *)
LEMMA LeastNumber ==
    ASSUME NEW T, T \subseteq Nat, T # {}
    PROVE  \E n \in T : \A m \in T : n <= m
<1>1. PICK x \in T : \A y \in T : ~(<<y, x>> \in OpToRel(<, Nat))
  BY NatLessThanWellFounded, WFMin
<1>2. ASSUME NEW y \in T PROVE x <= y
  <2>1. <<y, x>> \in Nat \X Nat /\ <<y, x>>[1] = y /\ <<y, x>>[2] = x
    OBVIOUS
  <2>2. ~(y < x)
    BY <1>1, <2>1 DEF OpToRel
  <2> QED
    BY <2>2
<1> QED
  BY <1>2

LEMMA RangeIs ==
    ASSUME NEW s \in Seq(Nat)
    PROVE  /\ Len(s) \in Nat /\ DOMAIN s = 1..Len(s)
           /\ \A e : e \in Range(s) <=> \E i \in 1..Len(s) : s[i] = e
           /\ \A i \in 1..Len(s) : s[i] \in Nat /\ s[i] \in Range(s)
           /\ s = <<>> <=> Len(s) = 0
<1>1. Len(s) \in Nat /\ DOMAIN s = 1..Len(s) /\ \A i \in 1..Len(s) : s[i] \in Nat
  BY LenProperties, ElementOfSeq
<1>2. s = <<>> <=> Len(s) = 0
  BY EmptySeq
<1> QED
  BY <1>1, <1>2 DEF Range

(* What is kept of a sequence is its end.                                  *)
LEMMA NewestIs ==
    ASSUME NEW s \in Seq(Nat), NEW n \in Nat
    PROVE  /\ Newest(s, n) \in Seq(Nat)
           /\ Len(Newest(s, n)) = IF Len(s) <= n THEN Len(s) ELSE n
           /\ \A i \in 1..Len(Newest(s, n)) :
                 Newest(s, n)[i] = s[Len(s) - Len(Newest(s, n)) + i]
<1>1. Len(s) \in Nat
  BY LenProperties
<1>2. CASE Len(s) <= n
  BY <1>1, <1>2 DEF Newest
<1>3. CASE ~(Len(s) <= n)
  <2>1. Newest(s, n) = SubSeq(s, Len(s) - n + 1, Len(s))
    BY <1>3 DEF Newest
  <2>2. Len(s) - n + 1 \in 1..(Len(s) + 1) /\ Len(s) \in 1..Len(s)
    BY <1>1, <1>3
  <2>3. /\ SubSeq(s, Len(s) - n + 1, Len(s)) \in Seq(Nat)
        /\ Len(SubSeq(s, Len(s) - n + 1, Len(s))) = n
        /\ \A i \in 1..n : SubSeq(s, Len(s) - n + 1, Len(s))[i] = s[Len(s) - n + i]
    BY <1>1, <1>3, <2>2, SubSeqProperties
  <2> QED
    BY <1>3, <2>1, <2>3
<1> QED
  BY <1>2, <1>3

(* One more at the end, and the oldest gives way.                          *)
PushedIs(s, e, n, q) ==
    /\ q \in Seq(Nat) /\ Len(q) \in 1..n
    /\ Len(q) = IF Len(s) < n THEN Len(s) + 1 ELSE n
    /\ q[Len(q)] = e
    /\ \A i \in 1..(Len(q) - 1) : s[Len(s) - Len(q) + 1 + i] = q[i]
                                  /\ Len(s) - Len(q) + 1 + i \in 1..Len(s)

LEMMA PushedLast ==
    ASSUME NEW s \in Seq(Nat), NEW n \in Nat \ {0}, NEW e \in Nat, Len(s) <= n,
           NEW q, q = Newest(Append(s, e), n)
    PROVE  PushedIs(s, e, n, q)
<1> DEFINE a == Append(s, e)
<1>1. /\ a \in Seq(Nat) /\ Len(s) \in Nat /\ Len(a) = Len(s) + 1
      /\ a[Len(s) + 1] = e /\ \A i \in 1..Len(s) : a[i] = s[i]
  BY AppendProperties, LenProperties
<1> HIDE DEF a
<1>2. /\ q \in Seq(Nat) /\ Len(q) = IF Len(a) <= n THEN Len(a) ELSE n
      /\ \A i \in 1..Len(q) : q[i] = a[Len(a) - Len(q) + i]
  BY <1>1, NewestIs DEF a
<1>3. Len(q) \in 1..n /\ Len(q) = (IF Len(s) < n THEN Len(s) + 1 ELSE n)
  BY <1>1, <1>2
<1>4. q[Len(q)] = e
  <2>1. Len(q) \in 1..Len(q) /\ Len(a) - Len(q) + Len(q) = Len(s) + 1
    BY <1>1, <1>3
  <2> QED
    BY <1>1, <1>2, <2>1
<1>5. \A i \in 1..(Len(q) - 1) : s[Len(s) - Len(q) + 1 + i] = q[i]
                                 /\ Len(s) - Len(q) + 1 + i \in 1..Len(s)
  <2> SUFFICES ASSUME NEW i \in 1..(Len(q) - 1)
               PROVE  /\ s[Len(s) - Len(q) + 1 + i] = q[i]
                      /\ Len(s) - Len(q) + 1 + i \in 1..Len(s)
    OBVIOUS
  <2>1. /\ i \in 1..Len(q) /\ Len(a) - Len(q) + i = Len(s) - Len(q) + 1 + i
        /\ Len(s) - Len(q) + 1 + i \in 1..Len(s)
    BY <1>1, <1>3
  <2> DEFINE k == Len(s) - Len(q) + 1 + i
  <2>2. q[i] = a[k]
    BY <1>2, <2>1
  <2>3. k \in 1..Len(s)
    BY <2>1
  <2> HIDE DEF k
  <2>4. s[k] = q[i]
    BY <1>1, <2>2, <2>3
  <2> QED
    BY <2>3, <2>4 DEF k
<1> QED
  BY <1>2, <1>3, <1>4, <1>5 DEF PushedIs

(* and it is all that is new in it.                                        *)
LEMMA Pushed ==
    ASSUME NEW s \in Seq(Nat), NEW n \in Nat \ {0}, NEW e \in Nat, Len(s) <= n,
           NEW q, q = Newest(Append(s, e), n)
    PROVE  /\ q \in Seq(Nat) /\ Len(q) \in 1..n
           /\ Len(q) = IF Len(s) < n THEN Len(s) + 1 ELSE n
           /\ q[Len(q)] = e
           /\ \A i \in 1..(Len(q) - 1) : s[Len(s) - Len(q) + 1 + i] = q[i]
                                         /\ Len(s) - Len(q) + 1 + i \in 1..Len(s)
           /\ Range(q) \subseteq Range(s) \cup {e} /\ e \in Range(q)
           /\ \A x \in Range(s) : x \in Range(q) \/ Len(s) = n
           /\ \A m \in Int : UpTo(s, m) /\ e = m + 1 => UpTo(q, m + 1)
<1> DEFINE a == Append(s, e)
<1>1. /\ a \in Seq(Nat) /\ Len(s) \in Nat /\ Len(a) = Len(s) + 1
      /\ a[Len(s) + 1] = e /\ \A i \in 1..Len(s) : a[i] = s[i]
  BY AppendProperties, LenProperties
<1> HIDE DEF a
<1>2. /\ q \in Seq(Nat) /\ Len(q) = IF Len(a) <= n THEN Len(a) ELSE n
      /\ \A i \in 1..Len(q) : q[i] = a[Len(a) - Len(q) + i]
  BY <1>1, NewestIs DEF a
<1>3. Len(q) \in 1..n /\ Len(q) = (IF Len(s) < n THEN Len(s) + 1 ELSE n)
  BY <1>1, <1>2
<1>0. PushedIs(s, e, n, q)
  BY PushedLast
<1>4. q[Len(q)] = e
  BY <1>0 DEF PushedIs
<1>5. \A i \in 1..(Len(q) - 1) : s[Len(s) - Len(q) + 1 + i] = q[i]
                                 /\ Len(s) - Len(q) + 1 + i \in 1..Len(s)
  BY <1>0 DEF PushedIs
<1>6. Range(q) \subseteq Range(s) \cup {e} /\ e \in Range(q)
  <2>1. ASSUME NEW i \in 1..Len(q) PROVE q[i] \in Range(s) \cup {e}
    <3>1. CASE i = Len(q)
      BY <1>4, <3>1
    <3>2. CASE i # Len(q)
      <4>1. i \in 1..(Len(q) - 1)
        BY <1>3, <3>2
      <4> QED
        BY <1>5, <4>1, RangeIs
    <3> QED
      BY <3>1, <3>2
  <2>2. Len(q) \in 1..Len(q)
    BY <1>3
  <2> QED
    BY <1>2, <1>4, <2>1, <2>2, RangeIs
<1>7. ASSUME NEW x \in Range(s), Len(s) # n PROVE x \in Range(q)
  <2>1. PICK i \in 1..Len(s) : s[i] = x
    BY RangeIs
  <2>2. Len(q) = Len(s) + 1
    BY <1>1, <1>3, <1>7
  <2>3. i \in 1..(Len(q) - 1) /\ Len(s) - Len(q) + 1 + i = i
    BY <1>1, <2>1, <2>2
  <2>4. i \in 1..Len(q) /\ q[i] = x
    BY <1>1, <1>5, <2>1, <2>2, <2>3
  <2> QED
    BY <1>2, <2>4, RangeIs
<1>8. ASSUME NEW m \in Int, UpTo(s, m), e = m + 1 PROVE UpTo(q, m + 1)
  <2>1. ASSUME NEW i \in 1..Len(q) PROVE q[i] = (m + 1) - Len(q) + i
    <3>1. CASE i = Len(q)
      BY <1>3, <1>4, <1>8, <3>1
    <3>2. CASE i # Len(q)
      <4>1. i \in 1..(Len(q) - 1)
        BY <1>3, <3>2
      <4>2. s[Len(s) - Len(q) + 1 + i] = m - Len(s) + (Len(s) - Len(q) + 1 + i)
        BY <1>5, <1>8, <4>1 DEF UpTo
      <4>3. m - Len(s) + (Len(s) - Len(q) + 1 + i) = (m + 1) - Len(q) + i
        BY <1>1, <1>3
      <4> QED
        BY <1>5, <4>1, <4>2, <4>3
    <3> QED
      BY <3>1, <3>2
  <2> QED
    BY <2>1 DEF UpTo
<1> QED
  BY <1>2, <1>3, <1>4, <1>5, <1>6, <1>7, <1>8

(* The first is taken away.                                                *)
LEMMA Popped ==
    ASSUME NEW s \in Seq(Nat), s # <<>>
    PROVE  /\ Tail(s) \in Seq(Nat) /\ Len(Tail(s)) = Len(s) - 1 /\ Len(s) \in Nat \ {0}
           /\ Head(s) = s[1] /\ Head(s) \in Nat /\ Head(s) \in Range(s)
           /\ \A i \in 1..(Len(s) - 1) : Tail(s)[i] = s[i + 1]
           /\ Range(s) = Range(Tail(s)) \cup {Head(s)}
           /\ \A m \in Int : UpTo(s, m) => UpTo(Tail(s), m) /\ Head(s) = m - Len(s) + 1
<1>1. /\ Tail(s) \in Seq(Nat) /\ Len(Tail(s)) = Len(s) - 1 /\ Len(s) \in Nat \ {0}
      /\ Head(s) = s[1] /\ \A i \in 1..(Len(s) - 1) : Tail(s)[i] = s[i + 1]
  BY HeadTailProperties, LenProperties, EmptySeq
<1>2. Head(s) \in Nat /\ Head(s) \in Range(s)
  BY <1>1, RangeIs
<1>3. Range(s) = Range(Tail(s)) \cup {Head(s)}
  <2>1. ASSUME NEW e \in Range(s), e # Head(s) PROVE e \in Range(Tail(s))
    <3>1. PICK i \in 1..Len(s) : s[i] = e
      BY RangeIs
    <3>2. i - 1 \in 1..(Len(s) - 1) /\ Tail(s)[i - 1] = e
      BY <1>1, <2>1, <3>1
    <3> QED
      BY <1>1, <3>2, RangeIs
  <2>2. ASSUME NEW e \in Range(Tail(s)) PROVE e \in Range(s)
    <3>1. PICK i \in 1..Len(Tail(s)) : Tail(s)[i] = e
      BY <1>1, <2>2, RangeIs
    <3>2. i + 1 \in 1..Len(s) /\ s[i + 1] = e
      BY <1>1, <3>1
    <3> QED
      BY <3>2, RangeIs
  <2> QED
    BY <1>2, <2>1, <2>2
<1>4. ASSUME NEW m \in Int, UpTo(s, m) PROVE UpTo(Tail(s), m) /\ Head(s) = m - Len(s) + 1
  <2>1. \A i \in 1..Len(s) : s[i] = m - Len(s) + i
    BY <1>4 DEF UpTo
  <2>2. ASSUME NEW i \in 1..Len(Tail(s)) PROVE Tail(s)[i] = m - Len(Tail(s)) + i
    <3>1. i + 1 \in 1..Len(s) /\ Tail(s)[i] = s[i + 1]
      BY <1>1
    <3>2. s[i + 1] = m - Len(s) + (i + 1)
      BY <2>1, <3>1
    <3> QED
      BY <1>1, <3>1, <3>2
  <2> QED
    BY <1>1, <2>1, <2>2 DEF UpTo
<1> QED
  BY <1>1, <1>2, <1>3, <1>4

(* What Above keeps of the first i of a sequence, when f says what it keeps *)
(* of those before.                                                        *)
Keeps(f, s, n, i) ==
    IF i = 0 THEN <<>> ELSE IF s[i] > n THEN Append(f[i - 1], s[i]) ELSE f[i - 1]
Says(f, s, n, len) == f = [i \in 0..len |-> Keeps(f, s, n, i)]

(* By induction over the length there is a function that says so.          *)
LEMMA AboveKeeps ==
    ASSUME NEW s, NEW n, NEW len \in Nat, Len(s) = len
    PROVE  \E f : Says(f, s, n, len) /\ Above(s, n) = f[len]
<1> USE DEF Says
<1> DEFINE Has(k) == \E f : f = [i \in 0..k |-> Keeps(f, s, n, i)]
           T == {k \in 0..len : ~Has(k)}
<1>1. T = {}
  <2> SUFFICES ASSUME T # {} PROVE FALSE
    OBVIOUS
  <2>0. T \subseteq Nat
    OBVIOUS
  <2>1. PICK k \in T : \A m \in T : k <= m
    <3> HIDE DEF T
    <3> QED
      BY <2>0, LeastNumber
  <2>2. k # 0
    <3>1. [i \in 0..0 |-> <<>>] = [i \in 0..0 |-> Keeps([j \in 0..0 |-> <<>>], s, n, i)]
      BY DEF Keeps
    <3> QED
      BY <2>1, <3>1
  <2>3. k \in 0..len /\ k - 1 \in 0..len /\ k - 1 \notin T
    BY <2>1, <2>2
  <2>4. PICK f : f = [i \in 0..(k - 1) |-> Keeps(f, s, n, i)]
    BY <2>3
  <2> DEFINE g == [i \in 0..k |-> IF i = k THEN Keeps(f, s, n, k) ELSE f[i]]
  <2>5. ASSUME NEW i \in 0..k PROVE g[i] = Keeps(g, s, n, i)
    <3>1. i # 0 => i - 1 \in 0..k /\ i - 1 # k /\ g[i - 1] = f[i - 1]
      BY <2>3
    <3>2. Keeps(g, s, n, i) = Keeps(f, s, n, i)
      BY <3>1 DEF Keeps
    <3>3. CASE i = k
      BY <3>2, <3>3
    <3>4. CASE i # k
      <4>1. i \in 0..(k - 1)
        BY <2>3, <3>4
      <4>2. f[i] = Keeps(f, s, n, i)
        BY <2>4, <4>1
      <4> QED
        BY <3>2, <3>4, <4>2
    <3> QED
      BY <3>3, <3>4
  <2>6. g = [i \in 0..k |-> Keeps(g, s, n, i)]
    BY <2>5
  <2> QED
    BY <2>1, <2>6
<1>2. Has(len)
  BY <1>1
<1> DEFINE h == CHOOSE f : f = [i \in 0..len |-> Keeps(f, s, n, i)]
<1>3. h = [i \in 0..len |-> Keeps(h, s, n, i)]
  BY <1>2
<1>4. Above(s, n) = h[len]
  BY DEF Above, Keeps
<1> QED
  BY <1>3, <1>4

(* Above keeps what is above n and nothing else; of numbers without a gap  *)
(* it keeps the last.  By induction over the prefixes of the sequence.     *)
LEMMA AboveIs ==
    ASSUME NEW s \in Seq(Nat), NEW n \in Nat
    PROVE  /\ Above(s, n) \in Seq(Nat)
           /\ \A e : e \in Range(Above(s, n)) <=> e \in Range(s) /\ e > n
           /\ \A m \in Int : UpTo(s, m) => UpTo(Above(s, n), m)
<1>1. Len(s) \in Nat /\ \A i \in 1..Len(s) : s[i] \in Nat
  BY RangeIs
<1>2. PICK f : Says(f, s, n, Len(s)) /\ Above(s, n) = f[Len(s)]
  BY <1>1, AboveKeeps
<1>3. \A i \in 0..Len(s) : f[i] = Keeps(f, s, n, i)
  BY <1>2 DEF Says
<1> DEFINE Kept(i) ==
             /\ f[i] \in Seq(Nat)
             /\ \A e : e \in Range(f[i]) <=> \E j \in 1..i : s[j] = e /\ e > n
             /\ \A m \in Int : UpTo(s, m) => UpTo(f[i], m - Len(s) + i)
           T == {i \in 0..Len(s) : ~Kept(i)}
<1>4. Kept(0)
  <2>1. f[0] = <<>> /\ f[0] \in Seq(Nat) /\ Len(f[0]) = 0
    <3>1. f[0] = Keeps(f, s, n, 0)
      BY <1>1, <1>3
    <3>2. f[0] = <<>>
      BY <3>1 DEF Keeps
    <3> QED
      BY <3>2, EmptySeq
  <2>2. \A e : e \notin Range(f[0])
    <3>1. \A e : e \in Range(f[0]) <=> \E j \in 1..Len(f[0]) : f[0][j] = e
      BY <2>1, RangeIs
    <3> QED
      BY <2>1, <3>1
  <2> QED
    BY <2>1, <2>2 DEF UpTo
<1>5. ASSUME NEW i \in 1..Len(s), Kept(i - 1) PROVE Kept(i)
  <2>1. i \in Nat /\ s[i] \in Nat /\ i - 1 \in 0..Len(s) /\ 1..i = 1..(i - 1) \cup {i}
    BY <1>1
  <2> DEFINE q == f[i - 1]
  <2>2. /\ q \in Seq(Nat)
        /\ \A e : e \in Range(q) <=> \E j \in 1..(i - 1) : s[j] = e /\ e > n
        /\ \A m \in Int : UpTo(s, m) => UpTo(q, m - Len(s) + (i - 1))
    BY <1>5
  <2>3. f[i] = IF s[i] > n THEN Append(q, s[i]) ELSE q
    BY <1>1, <1>3 DEF Keeps
  <2> HIDE DEF q
  <2>4. CASE s[i] > n
    <3>1. /\ Append(q, s[i]) \in Seq(Nat) /\ Len(q) \in Nat
          /\ Len(Append(q, s[i])) = Len(q) + 1
          /\ \A j \in 1..Len(q) : Append(q, s[i])[j] = q[j]
          /\ Append(q, s[i])[Len(q) + 1] = s[i]
      BY <2>1, <2>2, AppendProperties, LenProperties
    <3>2. \A e : e \in Range(Append(q, s[i])) <=> e \in Range(q) \/ e = s[i]
      <4>1. \A e : e \in Range(q) <=> \E j \in 1..Len(q) : q[j] = e
        BY <2>2, RangeIs
      <4>2. \A e : e \in Range(Append(q, s[i])) <=>
                     \E j \in 1..(Len(q) + 1) : Append(q, s[i])[j] = e
        <5> DEFINE r == Append(q, s[i])
        <5>1. r \in Seq(Nat) /\ Len(r) = Len(q) + 1
          BY <3>1
        <5> HIDE DEF r
        <5>2. \A e : e \in Range(r) <=> \E j \in 1..(Len(q) + 1) : r[j] = e
          BY <5>1, RangeIs
        <5> QED
          BY <5>2 DEF r
      <4>3. 1..(Len(q) + 1) = 1..Len(q) \cup {Len(q) + 1}
        BY <3>1
      <4> QED
        BY <3>1, <4>1, <4>2, <4>3
    <3>3. \A e : e \in Range(f[i]) <=> \E j \in 1..i : s[j] = e /\ e > n
      BY <2>1, <2>2, <2>3, <2>4, <3>2
    <3>4. ASSUME NEW m \in Int, UpTo(s, m) PROVE UpTo(Append(q, s[i]), m - Len(s) + i)
      <4>1. UpTo(q, m - Len(s) + (i - 1)) /\ s[i] = m - Len(s) + i
        BY <2>2, <3>4 DEF UpTo
      <4>2. ASSUME NEW j \in 1..(Len(q) + 1)
            PROVE  Append(q, s[i])[j] = (m - Len(s) + i) - (Len(q) + 1) + j
        <5>1. CASE j = Len(q) + 1
          BY <1>1, <3>1, <4>1, <5>1
        <5>2. CASE j # Len(q) + 1
          <6>1. j \in 1..Len(q)
            BY <3>1, <5>2
          <6>2. q[j] = (m - Len(s) + (i - 1)) - Len(q) + j
            BY <4>1, <6>1 DEF UpTo
          <6> QED
            BY <1>1, <2>1, <3>1, <6>1, <6>2
        <5> QED
          BY <5>1, <5>2
      <4> QED
        BY <3>1, <4>2 DEF UpTo
    <3> QED
      BY <2>3, <2>4, <3>1, <3>3, <3>4
  <2>5. CASE ~(s[i] > n)
    <3>1. f[i] = q
      BY <2>3, <2>5
    <3>2. \A e : e \in Range(f[i]) <=> \E j \in 1..i : s[j] = e /\ e > n
      BY <2>1, <2>2, <2>5, <3>1
    <3>3. ASSUME NEW m \in Int, UpTo(s, m) PROVE UpTo(q, m - Len(s) + i)
      <4>1. \A j \in 1..(i - 1) : s[j] <= s[i]
        <5>1. \A j \in 1..Len(s) : s[j] = m - Len(s) + j
          BY <3>3 DEF UpTo
        <5>2. SUFFICES ASSUME NEW j \in 1..(i - 1) PROVE s[j] <= s[i]
          OBVIOUS
        <5>3. j \in 1..Len(s) /\ j \in Int /\ i \in Int /\ j <= i /\ i \in 1..Len(s)
          BY <1>1
        <5>4. s[j] = m - Len(s) + j /\ s[i] = m - Len(s) + i
          BY <5>1, <5>3
        <5> QED
          BY <1>1, <5>3, <5>4
      <4>2. \A e : e \notin Range(q)
        <5>1. SUFFICES ASSUME NEW e \in Range(q) PROVE FALSE
          OBVIOUS
        <5>2. PICK j \in 1..(i - 1) : s[j] = e /\ e > n
          BY <2>2, <5>1
        <5>3. s[j] <= s[i]
          BY <4>1
        <5>4. s[i] \in Nat /\ s[j] \in Nat /\ s[j] > n /\ ~(s[i] > n)
          <6>1. j \in 1..Len(s)
            BY <1>1
          <6> QED
            BY <1>1, <2>1, <2>5, <5>2, <6>1
        <5> QED
          BY <5>3, <5>4
      <4>3. Len(q) = 0
        <5>1. Len(q) \in Nat /\ \A j \in 1..Len(q) : q[j] \in Range(q)
          BY <2>2, RangeIs
        <5> QED
          BY <4>2, <5>1
      <4> QED
        BY <4>3 DEF UpTo
    <3> QED
      BY <2>2, <3>1, <3>2, <3>3
  <2> QED
    BY <2>4, <2>5
<1>6. T = {}
  <2> SUFFICES ASSUME T # {} PROVE FALSE
    OBVIOUS
  <2> HIDE DEF Kept
  <2>1. T \subseteq Nat
    BY <1>1
  <2>2. PICK i \in T : \A k \in T : i <= k
    <3> HIDE DEF T
    <3> QED
      BY <2>1, LeastNumber
  <2>3. i # 0
    BY <1>4, <2>2
  <2>4. i \in 1..Len(s) /\ i - 1 \in 0..Len(s) /\ i - 1 \notin T
    BY <1>1, <2>2, <2>3
  <2> QED
    BY <1>5, <2>2, <2>4
<1>7. Kept(Len(s))
  <2> HIDE DEF Kept
  <2> QED
    BY <1>1, <1>6
<1>8. \A e : e \in Range(s) <=> \E j \in 1..Len(s) : s[j] = e
  BY RangeIs
<1>9. \A m \in Int : UpTo(s, m) => UpTo(Above(s, n), m)
  BY <1>1, <1>2, <1>7
<1> QED
  BY <1>2, <1>7, <1>8, <1>9

---------------------------------------------------------------------------
(* The types.  What the socket has passed the page has passed too; batches *)
(* are only there while they are handed over; the socket publishes only    *)
(* its greeting.                                                           *)
LogTypes ==
    /\ sequence \in 0..Events
    /\ history \in Seq(Nat) /\ Range(history) \subseteq 1..sequence
    /\ Len(history) <= HistoryLimit
    /\ hand \in [Publisher -> 0..sequence] /\ \A p \in recorded : p \in Publisher /\ hand[p] # 0
ChannelTypes ==
    /\ rx \in Seq(Nat) /\ Range(rx) \subseteq 1..sequence /\ Len(rx) <= Capacity
    /\ lagged \in BOOLEAN
BatchTypes == batch \in Seq(Nat) /\ Range(batch) \subseteq 1..sequence
PageTypes ==
    /\ lastSeq \in 0..sequence /\ last \in 0..lastSeq
    /\ \A e \in shown : e \in 1..lastSeq
    /\ lastSeq # 0 => lastSeq \in shown
SocketTypes ==
    /\ pc \in {"closed", "subscribed", "replay", "greet", "catch-up", "loop"}
    /\ hand["socket"] # 0 => pc = "greet"
    /\ pc \in {"greet", "loop"} => batch = <<>>

Types == LogTypes /\ ChannelTypes /\ BatchTypes /\ PageTypes /\ SocketTypes

LEMMA Limits ==
    /\ Events \in Nat /\ Capacity \in Nat \ {0} /\ HistoryLimit \in Nat \ {0}
    /\ IsFiniteSet(Publisher) /\ Cardinality(Publisher) \in Nat \ {0}
    /\ Cardinality(Publisher) <= HistoryLimit /\ "socket" \in Publisher
<1>1. "socket" \in Publisher /\ IsFiniteSet(Publisher)
  BY StreamAssumption DEF Publisher
<1>2. Cardinality(Publisher) \in Nat /\ Cardinality(Publisher) # 0
  BY <1>1, FS_CardinalityType, FS_EmptySet
<1> QED
  BY <1>1, <1>2, StreamAssumption

LEMMA NoneIn == <<>> \in Seq(Nat) /\ Len(<<>>) = 0 /\ \A e : e \notin Range(<<>>)
<1>1. <<>> \in Seq(Nat) /\ Len(<<>>) = 0
  BY EmptySeq
<1>2. \A e : e \in Range(<<>>) <=> \E i \in 1..Len(<<>>) : <<>>[i] = e
  BY <1>1, RangeIs
<1> QED
  BY <1>1, <1>2

LEMMA OneIn == ASSUME NEW e \in Nat
               PROVE  <<e>> \in Seq(Nat) /\ Len(<<e>>) = 1 /\ <<e>>[1] = e /\ Range(<<e>>) = {e}
<1>1. <<e>> \in Seq(Nat) /\ Len(<<e>>) = 1 /\ <<e>>[1] = e
  OBVIOUS
<1>2. \A x : x \in Range(<<e>>) <=> \E i \in 1..Len(<<e>>) : <<e>>[i] = x
  BY <1>1, RangeIs
<1> QED
  BY <1>1, <1>2

(* The page has passed what it has taken.                                  *)
LEMMA Takes ==
    ASSUME NEW e \in 1..sequence, sequence \in Nat, PageTypes, Take(e)
    PROVE  /\ lastSeq' \in 0..sequence /\ lastSeq <= lastSeq' /\ e <= lastSeq'
           /\ \A x \in shown' : x \in 1..lastSeq'
           /\ lastSeq' \in shown'
           /\ (e <= lastSeq => lastSeq' = lastSeq /\ shown' = shown)
           /\ (e > lastSeq => lastSeq' = e /\ shown' = shown \cup {e})
<1>1. lastSeq \in 0..sequence /\ e \in 1..sequence /\ lastSeq \in Int /\ e \in Int
  BY DEF PageTypes
<1>2. CASE e <= lastSeq
  <2>1. lastSeq' = lastSeq /\ shown' = shown
    BY <1>2 DEF Take, page
  <2>2. ~(e > lastSeq) /\ lastSeq # 0
    BY <1>1, <1>2
  <2> QED
    BY <1>1, <1>2, <2>1, <2>2 DEF PageTypes
<1>3. CASE ~(e <= lastSeq)
  <2>1. lastSeq' = e /\ shown' = shown \cup {e}
    BY <1>3 DEF Take
  <2>2. \A x \in 1..lastSeq : x \in 1..e
    BY <1>1, <1>3
  <2> QED
    BY <1>1, <1>3, <2>1, <2>2 DEF PageTypes
<1> QED
  BY <1>2, <1>3

(* What is sent comes to the end of the channel, and pushes out the oldest *)
(* of a full one.                                                          *)
LEMMA Sends ==
    ASSUME ChannelTypes, NEW e \in 1..sequence, Sent(e)
    PROVE  \/ pc = "closed" /\ rx' = rx /\ lagged' = lagged
           \/ /\ pc # "closed" /\ rx' \in Seq(Nat) /\ Len(rx') \in 1..Capacity
              /\ Range(rx') \subseteq 1..sequence /\ e \in Range(rx')
              /\ lagged' \in BOOLEAN /\ (lagged => lagged')
              /\ (Len(rx) = Capacity => lagged')
              /\ (Len(rx) # Capacity => Len(rx') = Len(rx) + 1)
              /\ \A x \in Range(rx) : x \in Range(rx') \/ lagged'
              /\ \A m \in Int : UpTo(rx, m) /\ e = m + 1 => UpTo(rx', m + 1)
<1> SUFFICES ASSUME pc # "closed"
             PROVE  /\ pc # "closed" /\ rx' \in Seq(Nat) /\ Len(rx') \in 1..Capacity
                    /\ Range(rx') \subseteq 1..sequence /\ e \in Range(rx')
                    /\ lagged' \in BOOLEAN /\ (lagged => lagged')
                    /\ (Len(rx) = Capacity => lagged')
                    /\ (Len(rx) # Capacity => Len(rx') = Len(rx) + 1)
                    /\ \A x \in Range(rx) : x \in Range(rx') \/ lagged'
                    /\ \A m \in Int : UpTo(rx, m) /\ e = m + 1 => UpTo(rx', m + 1)
  BY DEF Sent, channel
<1>1. /\ rx' = Newest(Append(rx, e), Capacity) /\ rx \in Seq(Nat) /\ Len(rx) <= Capacity
      /\ e \in Nat /\ Capacity \in Nat \ {0} /\ Range(rx) \subseteq 1..sequence
  BY Limits DEF Sent, ChannelTypes
<1>2. /\ rx' \in Seq(Nat) /\ Len(rx') \in 1..Capacity
      /\ Len(rx') = (IF Len(rx) < Capacity THEN Len(rx) + 1 ELSE Capacity)
      /\ Range(rx') \subseteq Range(rx) \cup {e} /\ e \in Range(rx')
      /\ \A x \in Range(rx) : x \in Range(rx') \/ Len(rx) = Capacity
      /\ \A m \in Int : UpTo(rx, m) /\ e = m + 1 => UpTo(rx', m + 1)
  BY <1>1, Pushed
<1>3. lagged' = (lagged \/ Len(rx) = Capacity) /\ lagged \in BOOLEAN
  BY DEF Sent, ChannelTypes
<1>4. Len(rx) \in Nat
  BY <1>1, LenProperties
<1>5. Len(rx) # Capacity => Len(rx) < Capacity
  BY <1>1, <1>4
<1>6. lagged' \in BOOLEAN /\ (lagged => lagged') /\ (Len(rx) = Capacity => lagged')
  BY <1>3
<1> QED
  BY <1>1, <1>2, <1>5, <1>6

LEMMA TypesAlways == Spec => []Types
<1>1. Init => Types
  <2> SUFFICES ASSUME Init PROVE Types
    OBVIOUS
  <2>1. 0 \in 0..Events /\ 0 <= HistoryLimit /\ 0 <= Capacity /\ 0 \in 0..0
    BY Limits
  <2>2. lagged \in BOOLEAN
    BY DEF Init
  <2> QED
    BY <2>1, <2>2, NoneIn, Limits
       DEF Init, Types, LogTypes, ChannelTypes, BatchTypes, PageTypes, SocketTypes
<1>2. Types /\ [Next]_vars => Types'
  <2> SUFFICES ASSUME Types, [Next]_vars PROVE Types'
    OBVIOUS
  <2> USE DEF Types, log, channel, page
  <2>0. sequence \in Nat /\ sequence \in 0..Events /\ \A p \in Publisher : hand[p] \in 0..sequence
    BY Limits DEF LogTypes
  <2>a. UNCHANGED log => LogTypes'
    BY DEF LogTypes
  <2>b. UNCHANGED <<sequence, channel>> => ChannelTypes'
    BY DEF ChannelTypes
  <2>c. UNCHANGED <<sequence, batch>> => BatchTypes'
    BY DEF BatchTypes
  <2>d. UNCHANGED <<sequence, last, page>> => PageTypes'
    BY DEF PageTypes
  <2>1. ASSUME NEW p \in Publisher, Number(p) PROVE Types'
    <3>1. /\ sequence < Events /\ sequence' = sequence + 1
          /\ hand' = [hand EXCEPT ![p] = sequence + 1] /\ (p = "socket" => pc = "greet")
          /\ UNCHANGED <<history, recorded, rx, lagged, pc, last, batch, lastSeq, shown>>
      BY <2>1 DEF Number, MayPublish
    <3>2. sequence' \in 0..Events /\ sequence + 1 \in 0..sequence' /\ sequence + 1 # 0
          /\ 0..sequence \subseteq 0..sequence' /\ 1..sequence \subseteq 1..sequence'
      BY <2>0, <3>1, Limits
    <3>3. LogTypes'
      BY <3>1, <3>2 DEF LogTypes
    <3>4. ChannelTypes' /\ BatchTypes'
      BY <3>1, <3>2 DEF ChannelTypes, BatchTypes
    <3>5. PageTypes'
      BY <3>1, <3>2 DEF PageTypes
    <3>6. SocketTypes'
      BY <3>1, Limits DEF SocketTypes, LogTypes
    <3> QED
      BY <3>3, <3>4, <3>5, <3>6
  <2>2. ASSUME NEW p \in Publisher, Record(p) PROVE Types'
    <3>1. /\ hand[p] # 0 /\ history' = Newest(Append(history, hand[p]), HistoryLimit)
          /\ recorded' = recorded \cup {p}
          /\ UNCHANGED <<sequence, hand, rx, lagged, pc, last, batch, lastSeq, shown>>
      BY <2>2 DEF Record
    <3>2. hand[p] \in 1..sequence /\ hand[p] \in Nat
      BY <2>0, <3>1
    <3>3. /\ history' \in Seq(Nat) /\ Range(history') \subseteq Range(history) \cup {hand[p]}
          /\ Len(history') \in 1..HistoryLimit
      BY <3>1, <3>2, Pushed, Limits DEF LogTypes
    <3>4. Len(history') <= HistoryLimit
      BY <3>3, Limits
    <3>5. LogTypes'
      BY <3>1, <3>2, <3>3, <3>4 DEF LogTypes
    <3> QED
      BY <2>b, <2>c, <2>d, <3>1, <3>5 DEF SocketTypes
  <2>3. ASSUME NEW p \in Publisher, Broadcast(p) PROVE Types'
    <3>1. /\ hand[p] # 0 /\ Sent(hand[p])
          /\ hand' = [hand EXCEPT ![p] = 0] /\ recorded' = recorded \ {p}
          /\ UNCHANGED <<sequence, history, last, lastSeq, shown>>
          /\ IF p = "socket" THEN batch' = <<hand[p]>> /\ pc' = "catch-up"
             ELSE batch' = batch /\ pc' = pc
      BY <2>3 DEF Broadcast
    <3>0. hand[p] # 0
      BY <3>1
    <3>2. hand[p] \in 1..sequence /\ hand[p] \in Nat /\ 0 \in 0..sequence
      BY <2>0, <3>0
    <3>3. ChannelTypes'
      <4>1. \/ rx' = rx /\ lagged' = lagged
            \/ /\ rx' \in Seq(Nat) /\ Len(rx') \in 1..Capacity
               /\ Range(rx') \subseteq 1..sequence /\ lagged' \in BOOLEAN
        BY <3>1, <3>2, Sends
      <4>2. sequence' = sequence
        BY <3>1
      <4>3. \A n \in 1..Capacity : n <= Capacity
        BY Limits
      <4> QED
        BY <4>1, <4>2, <4>3 DEF ChannelTypes
    <3>4. BatchTypes'
      BY <3>1, <3>2, OneIn DEF BatchTypes
    <3>5. LogTypes'
      BY <3>1, <3>2 DEF LogTypes
    <3>6. SocketTypes'
      BY <3>1, Limits DEF SocketTypes, LogTypes
    <3> QED
      BY <2>d, <3>1, <3>3, <3>4, <3>5, <3>6
  <2>4. CASE Subscribe
    <3>1. ChannelTypes'
      <4>1. rx' = <<>> /\ sequence' = sequence /\ lagged' \in BOOLEAN
        BY <2>4 DEF Subscribe
      <4> QED
        BY <4>1, NoneIn, Limits DEF ChannelTypes
    <3> QED
      BY <2>4, <2>a, <2>c, <2>d, <3>1 DEF Subscribe, SocketTypes
  <2>5. CASE ReadHistory
    <3>1. PageTypes' /\ BatchTypes'
      BY <2>0, <2>5 DEF ReadHistory, PageTypes, BatchTypes, LogTypes
    <3> QED
      BY <2>5, <2>a, <2>b, <3>1 DEF ReadHistory, SocketTypes
  <2>6. ASSUME NEW e \in 1..sequence, Take(e), last' \in {e, Larger(last, e)},
               sequence' = sequence
        PROVE  PageTypes'
    <3>1. /\ lastSeq' \in 0..sequence /\ lastSeq <= lastSeq' /\ e <= lastSeq'
          /\ \A x \in shown' : x \in 1..lastSeq'
          /\ lastSeq' \in shown'
      BY <2>0, <2>6, Takes
    <3>2. last' \in 0..lastSeq'
      BY <2>0, <2>6, <3>1 DEF PageTypes, Larger
    <3> QED
      BY <2>6, <3>1, <3>2 DEF PageTypes
  <2>7. ASSUME pc \in {"replay", "catch-up"}, batch # <<>>, batch' = Tail(batch),
               Take(Head(batch)), last' \in {Head(batch), Larger(last, Head(batch))},
               UNCHANGED <<log, channel, pc>>
        PROVE  Types'
    <3>1. Head(batch) \in 1..sequence /\ batch' \in Seq(Nat) /\ Range(batch') \subseteq 1..sequence
      BY <2>7, Popped DEF BatchTypes
    <3>2. PageTypes' /\ BatchTypes'
      BY <2>6, <2>7, <3>1 DEF BatchTypes
    <3> QED
      BY <2>7, <2>a, <2>b, <3>2 DEF SocketTypes
  <2>8. ASSUME pc \in {"replay", "catch-up"}, batch = <<>>, pc' \in {"greet", "loop"},
               UNCHANGED <<log, channel, last, batch, page>>
        PROVE  Types'
    BY <2>8, <2>a, <2>b, <2>c, <2>d DEF SocketTypes
  <2>9. CASE Replay
    BY <2>7, <2>8, <2>9 DEF Replay
  <2>10. CASE CatchUp
    BY <2>7, <2>8, <2>10 DEF CatchUp
  <2>11. CASE Receive
    <3>1. /\ pc = "loop" /\ rx # <<>> /\ rx' = Tail(rx)
          /\ UNCHANGED <<log, pc, lagged, batch>>
          /\ IF Head(rx) > last THEN last' = Head(rx) /\ Take(Head(rx))
             ELSE UNCHANGED <<last, page>>
      BY <2>11 DEF Receive
    <3>2. /\ Head(rx) \in 1..sequence /\ rx' \in Seq(Nat) /\ Range(rx') \subseteq 1..sequence
          /\ Len(rx') = Len(rx) - 1 /\ Len(rx) \in Nat
      BY <3>1, Popped DEF ChannelTypes
    <3>3. Len(rx') <= Capacity
      BY <3>2, Limits DEF ChannelTypes
    <3>4. ChannelTypes'
      BY <3>1, <3>2, <3>3 DEF ChannelTypes
    <3>5. PageTypes'
      BY <2>6, <2>d, <3>1, <3>2
    <3> QED
      BY <2>a, <2>c, <3>1, <3>4, <3>5 DEF SocketTypes
  <2>12. CASE Lagged
    <3>1. /\ batch' = Above(history, last) /\ lagged' \in BOOLEAN /\ pc' = "catch-up"
          /\ pc = "loop" /\ UNCHANGED <<log, rx, last, page>>
      BY <2>12 DEF Lagged
    <3>2. last \in Nat
      BY <2>0 DEF PageTypes
    <3>3. BatchTypes'
      BY <3>1, <3>2, AboveIs DEF BatchTypes, LogTypes
    <3> QED
      BY <2>a, <2>d, <3>1, <3>3 DEF SocketTypes, ChannelTypes
  <2>13. CASE Disconnect
    <3>1. /\ pc' = "closed" /\ rx' = <<>> /\ lagged' \in BOOLEAN /\ last' = 0 /\ batch' = <<>>
          /\ UNCHANGED log /\ hand["socket"] = 0
          /\ UNCHANGED page \/ (lastSeq' = 0 /\ shown' = {})
      BY <2>13 DEF Disconnect
    <3>2. ChannelTypes' /\ BatchTypes'
      BY <3>1, NoneIn, Limits DEF ChannelTypes, BatchTypes
    <3>3. PageTypes'
      BY <2>0, <3>1 DEF PageTypes
    <3> QED
      BY <2>a, <3>1, <3>2, <3>3 DEF SocketTypes
  <2>14. CASE UNCHANGED vars
    BY <2>14, <2>a, <2>b, <2>c, <2>d DEF vars, SocketTypes
  <2> QED
    BY <2>1, <2>2, <2>3, <2>4, <2>5, <2>9, <2>10, <2>11, <2>12, <2>13, <2>14 DEF Next
<1> QED
  BY <1>1, <1>2, PTL DEF Spec

(* Theorem: the history and the channel stay within their limits, and the  *)
(* page has nothing that was not published.                                *)
THEOREM StreamTypes == Spec => []TypeOK
<1>1. Types => TypeOK
  BY DEF Types, LogTypes, ChannelTypes, PageTypes, TypeOK, Publishing
<1> QED
  BY <1>1, TypesAlways, PTL

---------------------------------------------------------------------------
(* The newest event.  Events are recorded in the order in which the        *)
(* publishers get the lock, so that older ones may follow the newest into  *)
(* the history; not so many, however, that it is pushed out.               *)
Unrecorded == Publishing \ recorded

NewestHeld ==
    sequence # 0 =>
        \/ \E p \in Publisher \ recorded : hand[p] = sequence
        \/ \E k \in 1..Len(history) :
              /\ history[k] = sequence
              /\ Len(history) - k + Cardinality(Unrecorded) < Cardinality(Publisher)

(* From the greeting on the newest event is on its way to the page.        *)
Handing == pc \in {"catch-up", "loop"} \/ hand["socket"] # 0
NewestComes ==
    Handing =>
        \/ lastSeq = sequence \/ lagged
        \/ \E p \in Publisher : hand[p] = sequence
        \/ sequence \in Range(rx) \cup Range(batch)

LEMMA UnrecordedFinite ==
    ASSUME NEW S, S \subseteq Publisher
    PROVE  /\ IsFiniteSet(S) /\ Cardinality(S) \in Nat
           /\ \A p \in S : Cardinality(S \ {p}) = Cardinality(S) - 1
           /\ \A p \in Publisher : p \notin S => Cardinality(S) < Cardinality(Publisher)
<1>1. IsFiniteSet(S) /\ Cardinality(S) \in Nat
  BY Limits, FS_Subset, FS_CardinalityType
<1>2. \A p \in S : Cardinality(S \ {p}) = Cardinality(S) - 1
  BY <1>1, FS_RemoveElement
<1>3. ASSUME NEW p \in Publisher, p \notin S PROVE Cardinality(S) < Cardinality(Publisher)
  <2>1. S \subseteq Publisher \ {p} /\ IsFiniteSet(Publisher \ {p})
    BY <1>3, Limits, FS_Subset
  <2>2. Cardinality(S) <= Cardinality(Publisher \ {p})
    BY <2>1, FS_Subset
  <2>3. Cardinality(Publisher \ {p}) = Cardinality(Publisher) - 1
    BY Limits, FS_RemoveElement
  <2> QED
    BY <1>1, <2>2, <2>3, Limits
<1> QED
  BY <1>1, <1>2, <1>3

(* Recording an event keeps the newest in the history.                     *)
LEMMA RecordKeepsNewest ==
    ASSUME Types, NewestHeld, NEW p \in Publisher, Record(p)
    PROVE  NewestHeld'
<1> DEFINE P == Cardinality(Publisher)
           U == Cardinality(Unrecorded)
           h == Len(history)
           h1 == Len(history')
<1>1. /\ hand[p] # 0 /\ p \notin recorded /\ recorded' = recorded \cup {p}
      /\ history' = Newest(Append(history, hand[p]), HistoryLimit)
      /\ UNCHANGED <<sequence, hand>>
  BY DEF Record
<1>2. /\ hand[p] \in Nat \ {0} /\ history \in Seq(Nat) /\ h \in Nat /\ h <= HistoryLimit
  BY <1>1, LenProperties DEF Types, LogTypes
<1>3. /\ h1 \in 1..HistoryLimit
      /\ h1 = (IF h < HistoryLimit THEN h + 1 ELSE HistoryLimit)
      /\ history'[h1] = hand[p]
      /\ \A i \in 1..(h1 - 1) : history[h - h1 + 1 + i] = history'[i]
  <2>1. HistoryLimit \in Nat \ {0} /\ hand[p] \in Nat
    BY <1>2, Limits
  <2> DEFINE s == history
             n == HistoryLimit
             e == hand[p]
             q == history'
  <2>2. s \in Seq(Nat) /\ n \in Nat \ {0} /\ e \in Nat /\ Len(s) <= n /\ q = Newest(Append(s, e), n)
    BY <1>1, <1>2, <2>1
  <2> HIDE DEF s, n, e, q
  <2>3. /\ Len(q) \in 1..n
        /\ Len(q) = IF Len(s) < n THEN Len(s) + 1 ELSE n
        /\ q[Len(q)] = e
        /\ \A i \in 1..(Len(q) - 1) : s[Len(s) - Len(q) + 1 + i] = q[i]
    <3>1. PushedIs(s, e, n, q)
      BY <2>2, PushedLast
    <3> QED
      BY <3>1 DEF PushedIs
  <2> QED
    BY <2>3 DEF s, n, e, q
<1>4. /\ Unrecorded \subseteq Publisher /\ p \in Unrecorded /\ Unrecorded' = Unrecorded \ {p}
  BY <1>1 DEF Unrecorded, Publishing
<1>5. U \in Nat /\ Cardinality(Unrecorded') = U - 1 /\ Cardinality(Unrecorded') < P
      /\ U - 1 \in Nat /\ P \in Nat /\ P <= HistoryLimit /\ HistoryLimit \in Nat
  <2>1. Unrecorded' \subseteq Publisher /\ p \notin Unrecorded'
    BY <1>4
  <2> QED
    BY <1>4, <2>1, UnrecordedFinite, Limits
<1> HIDE DEF P, U, h, h1
<1> SUFFICES ASSUME sequence # 0
             PROVE  \/ \E q \in Publisher \ recorded' : hand[q] = sequence
                    \/ \E k \in 1..h1 : history'[k] = sequence /\ h1 - k + (U - 1) < P
  BY <1>1, <1>5 DEF NewestHeld, h1, P
<1>6. CASE hand[p] = sequence
  <2>1. h1 \in 1..h1 /\ h1 - h1 + (U - 1) < P
    BY <1>3, <1>5
  <2> QED
    BY <1>3, <1>6, <2>1
<1>7. CASE \E q \in Publisher \ recorded : hand[q] = sequence /\ q # p
  BY <1>1, <1>7
<1>8. ASSUME NEW k \in 1..h, history[k] = sequence, h - k + U < P
      PROVE  \E i \in 1..h1 : history'[i] = sequence /\ h1 - i + (U - 1) < P
  <2> DEFINE i == k - (h - h1 + 1)
  <2>1. i \in 1..(h1 - 1) /\ h - h1 + 1 + i = k /\ h1 - i + (U - 1) = h - k + U
    BY <1>2, <1>3, <1>5, <1>8
  <2>2. history'[i] = history[k] /\ i \in 1..h1
    BY <1>3, <2>1
  <2> HIDE DEF i
  <2> QED
    BY <1>8, <2>1, <2>2
<1> QED
  BY <1>6, <1>7, <1>8 DEF NewestHeld, h, U, P

LEMMA NewestStep ==
    ASSUME Types, NewestHeld, NewestComes, [Next]_vars
    PROVE  NewestHeld' /\ NewestComes'
<1> USE DEF log, channel, page
<1>0. /\ sequence \in Nat /\ \A p \in Publisher : hand[p] \in Nat
      /\ lastSeq \in Nat /\ last \in Nat /\ last <= lastSeq /\ lastSeq <= sequence
      /\ hand \in [Publisher -> 0..sequence] /\ "socket" \in Publisher
  BY Limits DEF Types, LogTypes, PageTypes
<1>a. UNCHANGED log => NewestHeld'
  BY DEF NewestHeld, Unrecorded, Publishing
<1>1. ASSUME NEW p \in Publisher, Number(p) PROVE NewestHeld' /\ NewestComes'
  <2>1. /\ sequence' = sequence + 1 /\ hand[p] = 0 /\ recorded' = recorded
        /\ hand' = [hand EXCEPT ![p] = sequence + 1]
    BY <1>1 DEF Number, MayPublish
  <2>2. hand'[p] = sequence' /\ p \notin recorded
    BY <1>0, <2>1 DEF Types, LogTypes
  <2> QED
    BY <2>1, <2>2 DEF NewestHeld, NewestComes
<1>2. ASSUME NEW p \in Publisher, Record(p) PROVE NewestHeld' /\ NewestComes'
  BY <1>2, RecordKeepsNewest DEF Record, NewestComes, Handing
<1>3. ASSUME NEW p \in Publisher, Broadcast(p) PROVE NewestHeld' /\ NewestComes'
  <2>1. /\ hand[p] # 0 /\ p \in recorded /\ Sent(hand[p])
        /\ hand' = [hand EXCEPT ![p] = 0] /\ recorded' = recorded \ {p}
        /\ UNCHANGED <<sequence, history, lastSeq>>
        /\ IF p = "socket" THEN batch' = <<hand[p]>> /\ pc' = "catch-up"
           ELSE batch' = batch /\ pc' = pc
    BY <1>3 DEF Broadcast
  <2>0. hand[p] # 0
    BY <2>1
  <2>2. hand[p] \in 1..sequence /\ sequence # 0
    BY <1>0, <2>0
  <2>3. Unrecorded' = Unrecorded
    BY <1>0, <2>1 DEF Unrecorded, Publishing
  <2>4. NewestHeld'
    <3>1. \A q \in Publisher \ recorded : hand'[q] = hand[q] /\ q \in Publisher \ recorded'
      BY <1>0, <2>1
    <3> QED
      BY <2>1, <2>2, <2>3, <3>1 DEF NewestHeld
  <2>5. CASE p = "socket"
    <3>1. pc = "greet"
      BY <2>1, <2>5 DEF Types, SocketTypes
    <3>2. Handing /\ batch = <<>>
      BY <2>1, <2>5, <3>1 DEF Handing, Types, SocketTypes
    <3>3. CASE hand[p] = sequence
      <4>1. sequence' \in Range(batch')
        <5>1. batch' = <<sequence>> /\ sequence' = sequence
          BY <2>1, <2>5, <3>3
        <5> QED
          BY <1>0, <5>1, OneIn
      <4> QED
        BY <2>4, <4>1 DEF NewestComes
    <3>4. CASE \E q \in Publisher : q # p /\ hand[q] = sequence
      <4>1. \E q \in Publisher : hand'[q] = sequence'
        BY <1>0, <2>1, <3>4
      <4> QED
        BY <2>4, <4>1 DEF NewestComes
    <3>5. /\ lagged => lagged'
          /\ \A x \in Range(rx) : x \in Range(rx') \/ lagged'
      BY <2>1, <2>2, <3>1, Sends DEF Types
    <3>6. \A x : x \notin Range(batch)
      BY <3>2, NoneIn
    <3> QED
      BY <2>1, <2>4, <3>2, <3>3, <3>4, <3>5, <3>6 DEF NewestComes
  <2>6. CASE p # "socket"
    <3> SUFFICES ASSUME Handing' PROVE NewestComes'
      BY <2>4 DEF NewestComes
    <3>1. Handing /\ pc # "closed"
      BY <1>0, <2>1, <2>6 DEF Handing, Types, SocketTypes
    <3>2. /\ lagged => lagged'
          /\ \A x \in Range(rx) : x \in Range(rx') \/ lagged'
          /\ hand[p] \in Range(rx')
      BY <2>1, <2>2, <3>1, Sends DEF Types
    <3>3. CASE hand[p] = sequence
      BY <2>1, <3>2, <3>3 DEF NewestComes
    <3>4. CASE \E q \in Publisher : q # p /\ hand[q] = sequence
      <4>1. \E q \in Publisher : hand'[q] = sequence'
        BY <1>0, <2>1, <3>4
      <4> QED
        BY <4>1 DEF NewestComes
    <3> QED
      BY <2>1, <2>6, <3>1, <3>2, <3>3, <3>4 DEF NewestComes
  <2> QED
    BY <2>5, <2>6
\* What is handed over reaches the page, or has reached it.
<1>4. ASSUME NEW e \in 1..sequence, Take(e), sequence' = sequence,
             e = sequence
      PROVE  lastSeq' = sequence'
  <2>1. lastSeq' \in 0..sequence /\ e <= lastSeq'
    BY <1>0, <1>4, Takes DEF Types
  <2> QED
    BY <1>0, <1>4, <2>1
<1>5. ASSUME NEW e \in 1..sequence, Take(e), sequence' = sequence, lastSeq = sequence
      PROVE  lastSeq' = sequence'
  <2>1. lastSeq' \in 0..sequence /\ lastSeq <= lastSeq'
    BY <1>0, <1>5, Takes DEF Types
  <2> QED
    BY <1>0, <1>5, <2>1
<1>6. CASE Subscribe \/ ReadHistory \/ Replay \/ Disconnect
  <2>1. UNCHANGED log /\ (pc' \notin {"catch-up", "loop"} /\ hand["socket"] = 0)
    BY <1>6 DEF Subscribe, ReadHistory, Replay, Disconnect, Types, SocketTypes
  <2> QED
    BY <1>a, <2>1 DEF NewestComes, Handing
<1>7. CASE CatchUp
  <2>1. UNCHANGED log /\ UNCHANGED channel /\ Handing
    BY <1>7 DEF CatchUp, Handing
  <2>2. CASE batch = <<>>
    <3>1. UNCHANGED <<batch, page>>
      BY <1>7, <2>2 DEF CatchUp
    <3> QED
      BY <1>a, <2>1, <3>1 DEF NewestComes
  <2>3. CASE batch # <<>>
    <3>1. /\ batch' = Tail(batch) /\ Take(Head(batch))
      BY <1>7, <2>3 DEF CatchUp
    <3>2. Range(batch) = Range(Tail(batch)) \cup {Head(batch)} /\ Head(batch) \in 1..sequence
      BY <2>3, Popped DEF Types, BatchTypes
    <3>3. lastSeq = sequence \/ Head(batch) = sequence => lastSeq' = sequence'
      BY <1>4, <1>5, <2>1, <3>1, <3>2
    <3> QED
      BY <1>a, <2>1, <3>1, <3>2, <3>3 DEF NewestComes
  <2> QED
    BY <2>2, <2>3
<1>8. CASE Receive
  <2>1. /\ UNCHANGED log /\ Handing /\ rx # <<>> /\ rx' = Tail(rx) /\ batch' = batch
        /\ lagged' = lagged
        /\ IF Head(rx) > last THEN Take(Head(rx)) ELSE UNCHANGED page
    BY <1>8 DEF Receive, Handing
  <2>2. Range(rx) = Range(Tail(rx)) \cup {Head(rx)} /\ Head(rx) \in 1..sequence
    BY <2>1, Popped DEF Types, ChannelTypes
  <2>3. CASE Head(rx) > last
    <3>1. lastSeq = sequence \/ Head(rx) = sequence => lastSeq' = sequence'
      BY <1>4, <1>5, <2>1, <2>2, <2>3
    <3> QED
      BY <1>a, <2>1, <2>2, <3>1 DEF NewestComes
  <2>4. CASE ~(Head(rx) > last)
    <3>1. lastSeq' = lastSeq /\ (Head(rx) = sequence => lastSeq = sequence)
      BY <1>0, <2>1, <2>2, <2>4
    <3> QED
      BY <1>a, <2>1, <2>2, <3>1 DEF NewestComes
  <2> QED
    BY <2>3, <2>4
<1>9. CASE Lagged
  <2>1. /\ UNCHANGED <<log, rx, page>> /\ batch' = Above(history, last) /\ history \in Seq(Nat)
    BY <1>9 DEF Lagged, Types, LogTypes
  <2>2. CASE lastSeq = sequence \/ \E p \in Publisher : hand[p] = sequence
    BY <1>a, <2>1, <2>2 DEF NewestComes
  <2>3. CASE lastSeq # sequence /\ ~\E p \in Publisher : hand[p] = sequence
    <3>1. sequence > last /\ sequence # 0
      BY <1>0, <2>3
    <3>2. \E k \in 1..Len(history) : history[k] = sequence
      BY <2>3, <3>1 DEF NewestHeld
    <3>3. sequence \in Range(history)
      BY <2>1, <3>2, RangeIs
    <3>4. sequence \in Range(batch')
      BY <1>0, <2>1, <3>1, <3>3, AboveIs
    <3> QED
      BY <1>a, <2>1, <3>4 DEF NewestComes
  <2> QED
    BY <2>2, <2>3
<1>10. CASE UNCHANGED vars
  BY <1>10, <1>a DEF vars, NewestComes, Handing
<1> QED
  BY <1>1, <1>2, <1>3, <1>6, <1>7, <1>8, <1>9, <1>10 DEF Next

(* Theorem: a page that has caught up shows the newest event.              *)
THEOREM NewestIsShown == Spec => []NewestShown
<1>1. Init => NewestHeld /\ NewestComes
  BY Limits DEF Init, NewestHeld, NewestComes, Handing
<1>2. Types /\ NewestHeld /\ NewestComes => NewestShown
  <2> SUFFICES ASSUME Types, NewestHeld, NewestComes, Settled, sequence # 0
               PROVE  sequence \in shown
    BY DEF NewestShown
  <2>1. Handing /\ batch = <<>> /\ rx = <<>> /\ ~lagged
        /\ \A p \in Publisher : hand[p] # sequence
    BY DEF Settled, Handing, Types, SocketTypes, Publishing
  <2>2. lastSeq = sequence
    BY <2>1, NoneIn DEF NewestComes
  <2> QED
    BY <2>2 DEF Types, PageTypes
<1>3. Types /\ NewestHeld /\ NewestComes /\ [Next]_vars => NewestHeld' /\ NewestComes'
  BY NewestStep
<1> QED
  BY <1>1, <1>2, <1>3, TypesAlways, PTL DEF Spec

---------------------------------------------------------------------------
(* Publications that keep apart: of what was numbered at most the last is  *)
(* not recorded, or recorded and not sent.                                 *)
RecordedUpTo == IF Unrecorded = {} THEN sequence ELSE sequence - 1
SentUpTo == IF Publishing = {} THEN sequence ELSE sequence - 1

InTurn ==
    /\ \A p \in Publishing : hand[p] = sequence /\ Publishing = {p}
    /\ pc \in {"subscribed", "replay", "greet"} =>
          Publishing \subseteq {"socket"} /\ rx = <<>> /\ ~lagged
    /\ UpTo(history, RecordedUpTo) /\ (RecordedUpTo # 0 => history # <<>>)
    /\ pc # "closed" => UpTo(rx, SentUpTo)

(* The page has all that it has passed of the history.                     *)
Passed == lastSeq <= RecordedUpTo /\ \A e \in Range(history) : e <= lastSeq => e \in shown

\* The last event the socket has taken to hand over.
Handed == IF batch = <<>> THEN last ELSE batch[Len(batch)]

(* The history that is replayed ends with the last event, after which the  *)
(* socket greets the page.                                                 *)
Replaying ==
    pc = "replay" =>
        /\ UpTo(batch, sequence) /\ Handed = sequence
        /\ \A e \in Range(history) : e <= last \/ e \in Range(batch)
Greeting == pc = "greet" => last = SentUpTo /\ lastSeq = last

(* What the socket takes to hand over goes on from what it handed over, and *)
(* what follows is in the channel, or was lost there and is in the history. *)
Following ==
    pc \in {"catch-up", "loop"} =>
        /\ lastSeq = last
        /\ UpTo(batch, Handed) /\ Handed <= RecordedUpTo
        /\ batch # <<>> => batch[1] > last
        /\ \A e \in Range(history) : e <= last \/ e \in Range(batch) \/ e > Handed
        /\ ~lagged => SentUpTo - Len(rx) <= Handed

Gapless == InTurn /\ Passed /\ Replaying /\ Greeting /\ Following
Calm == ~crossed => Gapless

LEMMA UpToRange ==
    ASSUME NEW s \in Seq(Nat), NEW m \in Int, UpTo(s, m)
    PROVE  /\ \A e \in Range(s) : e \in Nat /\ m - Len(s) < e /\ e <= m
           /\ \A e \in Int : m - Len(s) < e /\ e <= m => e \in Range(s)
           /\ s # <<>> => s[Len(s)] = m /\ s[1] = m - Len(s) + 1 /\ m \in Range(s) /\ m \in Nat
<1>1. /\ Len(s) \in Nat /\ (s # <<>> => Len(s) > 0)
      /\ \A e : e \in Range(s) <=> \E i \in 1..Len(s) : s[i] = e
      /\ \A i \in 1..Len(s) : s[i] \in Nat /\ s[i] \in Range(s)
  BY RangeIs
<1>2. \A i \in 1..Len(s) : s[i] = m - Len(s) + i
  BY DEF UpTo
<1>3. \A e \in Range(s) : e \in Nat /\ m - Len(s) < e /\ e <= m
  BY <1>1, <1>2
<1>4. ASSUME NEW e \in Int, m - Len(s) < e, e <= m PROVE e \in Range(s)
  <2>1. e - (m - Len(s)) \in 1..Len(s) /\ m - Len(s) + (e - (m - Len(s))) = e
    BY <1>1, <1>4
  <2> QED
    BY <1>1, <1>2, <2>1
<1>5. ASSUME s # <<>>
      PROVE  s[Len(s)] = m /\ s[1] = m - Len(s) + 1 /\ m \in Range(s) /\ m \in Nat
  <2>1. Len(s) \in 1..Len(s) /\ 1 \in 1..Len(s) /\ m - Len(s) + Len(s) = m
    BY <1>1, <1>5
  <2> QED
    BY <1>1, <1>2, <2>1
<1> QED
  BY <1>3, <1>4, <1>5

(* The counts when nobody publishes, and when one does.                    *)
LEMMA Counts ==
    ASSUME Types, InTurn
    PROVE  /\ sequence \in Nat /\ RecordedUpTo \in Nat /\ SentUpTo \in Nat
           /\ SentUpTo <= RecordedUpTo /\ RecordedUpTo <= sequence
           /\ Publishing = {} => RecordedUpTo = sequence /\ SentUpTo = sequence
           /\ \A p \in Publisher : hand[p] # 0 => Publishing = {p} /\ hand[p] = sequence
                                                  /\ SentUpTo = sequence - 1
           /\ \A p \in Publisher : hand[p] # 0 /\ p \notin recorded =>
                 Unrecorded = {p} /\ RecordedUpTo = sequence - 1
           /\ \A p \in Publisher : hand[p] # 0 /\ p \in recorded =>
                 Unrecorded = {} /\ RecordedUpTo = sequence
<1>1. sequence \in Nat /\ \A p \in Publisher : hand[p] \in Nat
  BY Limits DEF Types, LogTypes
<1>2. CASE Publishing = {}
  <2>1. Unrecorded = {} /\ \A p \in Publisher : hand[p] = 0
    BY <1>2 DEF Unrecorded, Publishing
  <2> QED
    BY <1>1, <1>2, <2>1 DEF RecordedUpTo, SentUpTo
<1>3. CASE Publishing # {}
  <2>1. PICK p \in Publisher : hand[p] # 0 /\ Publishing = {p} /\ hand[p] = sequence
    BY <1>3 DEF InTurn, Publishing
  <2>2. sequence - 1 \in Nat /\ SentUpTo = sequence - 1
    BY <1>1, <1>3, <2>1 DEF SentUpTo
  <2>3. \A q \in Publisher : hand[q] # 0 => q = p
    BY <2>1 DEF Publishing
  <2>4. Unrecorded = (IF p \in recorded THEN {} ELSE {p})
    BY <2>1 DEF Unrecorded
  <2>5. RecordedUpTo = (IF p \in recorded THEN sequence ELSE sequence - 1)
    BY <2>4 DEF RecordedUpTo
  <2> QED
    BY <1>1, <1>3, <2>1, <2>2, <2>3, <2>4, <2>5
<1> QED
  BY <1>2, <1>3

LEMMA HandedIn == ASSUME Types PROVE Handed \in Nat
<1>1. batch \in Seq(Nat) /\ last \in Nat
  <2>1. lastSeq \in Nat /\ last \in 0..lastSeq
    BY Limits DEF Types, LogTypes, PageTypes
  <2> QED
    BY <2>1 DEF Types, BatchTypes
<1>2. CASE batch = <<>>
  BY <1>1, <1>2 DEF Handed
<1>3. CASE batch # <<>>
  <2>1. Len(batch) \in 1..Len(batch)
    BY <1>1, <1>3, RangeIs
  <2> QED
    BY <1>1, <1>3, <2>1, RangeIs DEF Handed
<1> QED
  BY <1>2, <1>3

(* An event is numbered: nothing is recorded or sent yet.                  *)
LEMMA GaplessNumber ==
    ASSUME Types, Gapless, NEW p \in Publisher, Number(p), ~crossed'
    PROVE  Gapless'
<1> USE DEF Gapless
<1>1. /\ sequence' = sequence + 1 /\ hand[p] = 0 /\ hand' = [hand EXCEPT ![p] = sequence + 1]
      /\ Publishing = {} /\ (p = "socket" => pc = "greet")
      /\ (p # "socket" => pc \notin {"subscribed", "replay", "greet"})
      /\ UNCHANGED <<history, recorded, rx, lagged, pc, last, batch, lastSeq, shown>>
  BY DEF Number, MayPublish, channel, page
<1>2. sequence \in Nat /\ RecordedUpTo = sequence /\ SentUpTo = sequence
  BY <1>1, Counts
<1>3. hand'[p] = sequence' /\ Publishing' = {p} /\ Unrecorded' = {p} /\ sequence' # 0
  BY <1>1, <1>2 DEF Types, LogTypes, Publishing, Unrecorded
<1>4. RecordedUpTo' = RecordedUpTo /\ SentUpTo' = SentUpTo
  BY <1>1, <1>2, <1>3 DEF RecordedUpTo, SentUpTo
<1>5. pc # "replay" /\ Handed' = Handed
  BY <1>1 DEF Handed
<1>6. InTurn'
  BY <1>1, <1>3, <1>4 DEF InTurn
<1> QED
  BY <1>1, <1>4, <1>5, <1>6 DEF Passed, Replaying, Greeting, Following

(* It is recorded: the history goes on without a gap.                      *)
LEMMA GaplessRecord ==
    ASSUME Types, Gapless, NEW p \in Publisher, Record(p)
    PROVE  Gapless'
<1> USE DEF Gapless
<1>1. /\ hand[p] # 0 /\ p \notin recorded /\ recorded' = recorded \cup {p}
      /\ history' = Newest(Append(history, hand[p]), HistoryLimit)
      /\ UNCHANGED <<sequence, hand, rx, lagged, pc, last, batch, lastSeq, shown>>
  BY DEF Record, channel, page
<1>2. /\ Publishing = {p} /\ hand[p] = sequence /\ Unrecorded = {p}
      /\ sequence \in Nat /\ RecordedUpTo = sequence - 1 /\ SentUpTo = sequence - 1
  BY <1>1, Counts
<1>3. /\ Publishing' = Publishing /\ Unrecorded' = {} /\ RecordedUpTo' = sequence
      /\ SentUpTo' = SentUpTo /\ Handed' = Handed
  BY <1>1, <1>2 DEF Publishing, Unrecorded, RecordedUpTo, SentUpTo, Handed
<1>4. /\ history' \in Seq(Nat) /\ history' # <<>> /\ UpTo(history', sequence)
      /\ Range(history') \subseteq Range(history) \cup {sequence}
  <2>1. /\ history \in Seq(Nat) /\ Len(history) <= HistoryLimit /\ UpTo(history, sequence - 1)
        /\ sequence - 1 \in Int /\ sequence = (sequence - 1) + 1
    BY <1>2 DEF Types, LogTypes, InTurn
  <2>2. /\ history' \in Seq(Nat) /\ Len(history') \in 1..HistoryLimit
        /\ UpTo(history', (sequence - 1) + 1)
        /\ Range(history') \subseteq Range(history) \cup {sequence}
    BY <1>1, <1>2, <2>1, Pushed, Limits
  <2>3. history' # <<>>
    BY <2>2, EmptySeq
  <2> QED
    BY <2>1, <2>2, <2>3
<1>5. pc # "replay"
  <2>1. p = "socket" => pc = "greet"
    BY <1>1 DEF Types, SocketTypes
  <2> QED
    BY <1>2, <2>1 DEF InTurn
<1>6. lastSeq <= sequence - 1 /\ lastSeq \in Nat /\ last \in Nat
  BY <1>2 DEF Passed, Types, PageTypes
<1>7. InTurn'
  BY <1>1, <1>2, <1>3, <1>4 DEF InTurn
<1>8. Passed'
  BY <1>1, <1>2, <1>3, <1>4, <1>6 DEF Passed
<1>9. Following'
  <2> SUFFICES ASSUME pc \in {"catch-up", "loop"} PROVE Following'
    BY <1>1 DEF Following
  <2>1. Handed \in Nat /\ Handed <= RecordedUpTo
    BY HandedIn DEF Following
  <2>2. sequence > Handed /\ Handed <= sequence
    <3>1. PICK h \in Nat : h = Handed
      BY <2>1
    <3>2. PICK n \in Nat : n = sequence
      BY <1>2
    <3>3. h <= n - 1
      BY <1>2, <2>1, <3>1, <3>2
    <3>4. n > h /\ h <= n
      BY <3>3
    <3> QED
      BY <3>1, <3>2, <3>4
  <2> QED
    BY <1>1, <1>2, <1>3, <1>4, <2>2 DEF Following
<1> QED
  BY <1>1, <1>3, <1>5, <1>7, <1>8, <1>9 DEF Replaying, Greeting

(* It is sent: the channel goes on without a gap, or has lost something.   *)
LEMMA GaplessBroadcast ==
    ASSUME Types, Gapless, NEW p \in Publisher, Broadcast(p)
    PROVE  Gapless'
<1> USE DEF Gapless
<1>1. /\ hand[p] # 0 /\ p \in recorded /\ Sent(hand[p])
      /\ hand' = [hand EXCEPT ![p] = 0] /\ recorded' = recorded \ {p}
      /\ UNCHANGED <<sequence, history, last, lastSeq, shown>>
      /\ IF p = "socket" THEN batch' = <<hand[p]>> /\ pc' = "catch-up"
         ELSE batch' = batch /\ pc' = pc
  BY DEF Broadcast, page
<1>2. /\ Publishing = {p} /\ hand[p] = sequence /\ Unrecorded = {}
      /\ sequence \in Nat /\ RecordedUpTo = sequence /\ SentUpTo = sequence - 1
  BY <1>1, Counts
<1>3. Publishing' = {} /\ Unrecorded' = {} /\ RecordedUpTo' = sequence /\ SentUpTo' = sequence
  <2>1. \A q \in Publisher : hand'[q] = 0
    BY <1>1, <1>2 DEF Types, LogTypes, Publishing
  <2>2. Publishing' = {}
    BY <2>1 DEF Publishing
  <2> QED
    BY <1>1, <2>2 DEF Unrecorded, RecordedUpTo, SentUpTo
<1>4. sequence \in 1..sequence /\ sequence - 1 \in Int /\ sequence = (sequence - 1) + 1
  <2>1. sequence \in Nat /\ sequence # 0
    BY <1>1, <1>2
  <2> QED
    BY <2>1
<1>5. \/ pc = "closed" /\ rx' = rx /\ lagged' = lagged
      \/ /\ rx' \in Seq(Nat) /\ UpTo(rx', sequence) /\ Len(rx') \in Nat
         /\ (lagged => lagged') /\ (~lagged' => Len(rx') = Len(rx) + 1)
  <2>1. ChannelTypes /\ (pc # "closed" => UpTo(rx, sequence - 1)) /\ Sent(sequence)
    BY <1>1, <1>2 DEF Types, InTurn
  <2>2. CASE pc = "closed"
    BY <1>4, <2>1, <2>2, Sends
  <2>3. CASE pc # "closed"
    <3>1. /\ rx' \in Seq(Nat) /\ Len(rx') \in 1..Capacity
          /\ (lagged => lagged') /\ (Len(rx) = Capacity => lagged')
          /\ (Len(rx) # Capacity => Len(rx') = Len(rx) + 1)
          /\ UpTo(rx', (sequence - 1) + 1)
      BY <1>4, <2>1, <2>3, Sends
    <3>2. Len(rx') \in Nat
      BY <3>1, Limits
    <3> QED
      BY <1>4, <3>1, <3>2
  <2> QED
    BY <2>2, <2>3
<1>6. Len(rx) \in Nat /\ (pc = "closed" => pc' = "closed")
  BY <1>1, LenProperties DEF Types, ChannelTypes, SocketTypes
<1>7. pc' \notin {"subscribed", "replay", "greet"}
  <2>1. p # "socket" => pc \notin {"subscribed", "replay", "greet"}
    BY <1>2 DEF InTurn
  <2> QED
    BY <1>1, <2>1
<1>8. pc' # "closed" => UpTo(rx', sequence)
  BY <1>5, <1>6
<1>9. InTurn'
  BY <1>1, <1>2, <1>3, <1>7, <1>8 DEF InTurn
<1>10. Passed'
  BY <1>1, <1>2, <1>3 DEF Passed
<1>11. CASE p # "socket"
  <2>1. Handed' = Handed
    BY <1>1, <1>11 DEF Handed
  <2>2. Following'
    <3> SUFFICES ASSUME pc \in {"catch-up", "loop"} PROVE Following'
      BY <1>1, <1>11 DEF Following
    <3>1. ~lagged' => SentUpTo' - Len(rx') <= Handed
      <4> SUFFICES ASSUME ~lagged' PROVE SentUpTo' - Len(rx') <= Handed
        OBVIOUS
      <4>1. ~lagged /\ Len(rx') = Len(rx) + 1
        BY <1>5
      <4>2. SentUpTo - Len(rx) <= Handed
        BY <4>1 DEF Following
      <4>3. SentUpTo' - Len(rx') = SentUpTo - Len(rx)
        <5>1. sequence \in Nat /\ Len(rx) \in Nat /\ Len(rx') = Len(rx) + 1
          BY <1>2, <1>6, <4>1
        <5>2. \A n, l \in Nat : n - (l + 1) = (n - 1) - l
          OBVIOUS
        <5>3. sequence - Len(rx') = (sequence - 1) - Len(rx)
          BY <5>1, <5>2
        <5> QED
          BY <1>2, <1>3, <5>3
      <4> QED
        BY <4>2, <4>3
    <3> QED
      BY <1>1, <1>2, <1>3, <1>11, <2>1, <3>1 DEF Following
  <2> QED
    BY <1>7, <1>9, <1>10, <2>2 DEF Replaying, Greeting
<1>12. CASE p = "socket"
  <2>1. pc = "greet"
    BY <1>1, <1>12 DEF Types, SocketTypes
  <2>2. last = sequence - 1 /\ lastSeq = last
    BY <1>2, <2>1 DEF Greeting
  <2>3. /\ batch' = <<sequence>> /\ batch' # <<>> /\ Len(batch') = 1 /\ batch'[1] = sequence
        /\ Range(batch') = {sequence} /\ Handed' = sequence
    <3>1. batch' = <<sequence>> /\ sequence \in Nat
      BY <1>1, <1>2, <1>12
    <3>2. <<sequence>> # <<>>
      OBVIOUS
    <3> QED
      BY <3>1, <3>2, OneIn DEF Handed
  <2>4. UpTo(batch', sequence)
    BY <1>2, <2>3 DEF UpTo
  <2>5. \A e \in Range(history) : e <= last \/ e = sequence
    <3>1. UpTo(history, sequence) /\ history \in Seq(Nat)
      BY <1>2 DEF InTurn, Types, LogTypes
    <3>2. \A e \in Range(history) : e \in Nat /\ e <= sequence
      BY <1>2, <3>1, UpToRange
    <3> QED
      BY <1>2, <2>2, <3>2
  <2>6. ~lagged' => sequence - Len(rx') <= sequence
    BY <1>2, <1>5, <2>1
  <2>7. sequence > last
    BY <1>2, <2>2
  <2>8. Following'
    <3>0. sequence <= sequence
      BY <1>4
    <3>1. /\ lastSeq' = last' /\ last' = last /\ history' = history /\ sequence <= sequence
          /\ RecordedUpTo' = sequence /\ SentUpTo' = sequence
      BY <1>1, <1>3, <2>2, <3>0
    <3> QED
      BY <2>3, <2>4, <2>5, <2>6, <2>7, <3>1 DEF Following
  <2> QED
    BY <1>7, <1>9, <1>10, <2>8 DEF Replaying, Greeting
<1> QED
  BY <1>11, <1>12

(* The page takes an event, and all that is below it in the history it has. *)
LEMMA GaplessTake ==
    ASSUME Types, Gapless, NEW e \in 1..sequence, Take(e), e <= RecordedUpTo,
           \A x \in Range(history) : x <= lastSeq \/ x >= e,
           UNCHANGED log
    PROVE  Passed'
<1>1. /\ (e <= lastSeq => lastSeq' = lastSeq /\ shown' = shown)
      /\ (e > lastSeq => lastSeq' = e /\ shown' = shown \cup {e})
      /\ sequence \in Nat
  BY Takes, Counts DEF Types, Gapless
<1>2. UNCHANGED <<sequence, history, hand, recorded>> /\ RecordedUpTo' = RecordedUpTo
  BY DEF log, RecordedUpTo, Unrecorded, Publishing
<1>3. lastSeq <= RecordedUpTo /\ lastSeq \in Nat /\ \A x \in Range(history) : x <= lastSeq => x \in shown
  BY <1>1 DEF Gapless, Passed, Types, PageTypes
<1>4. \A x \in Range(history) : x \in Nat
  BY DEF Types, LogTypes
<1>5. CASE e <= lastSeq
  BY <1>1, <1>2, <1>3, <1>5 DEF Passed
<1>6. CASE ~(e <= lastSeq)
  <2>1. lastSeq' = e /\ shown' = shown \cup {e}
    BY <1>1, <1>3, <1>6
  <2>2. \A x \in Range(history) : x <= e => x = e \/ x <= lastSeq
    BY <1>3, <1>4
  <2> QED
    BY <1>2, <1>3, <2>1, <2>2 DEF Passed
<1> QED
  BY <1>5, <1>6

(* The steps of the socket leave the history and what is published alone.  *)
LEMMA LogStays ==
    ASSUME UNCHANGED log
    PROVE  /\ UNCHANGED <<sequence, history, hand, recorded>>
           /\ Publishing' = Publishing /\ Unrecorded' = Unrecorded
           /\ RecordedUpTo' = RecordedUpTo /\ SentUpTo' = SentUpTo
  BY DEF log, Publishing, Unrecorded, RecordedUpTo, SentUpTo

(* One event of a batch is handed over.                                    *)
LEMMA HandsOver ==
    ASSUME Types, batch # <<>>, NEW m \in Nat, UpTo(batch, m)
    PROVE  /\ Head(batch) \in 1..sequence /\ Head(batch) = batch[1] /\ Head(batch) <= m
           /\ Tail(batch) \in Seq(Nat) /\ UpTo(Tail(batch), m) /\ Handed = m
           /\ Range(batch) = Range(Tail(batch)) \cup {Head(batch)}
           /\ \A x \in Range(batch) : x >= Head(batch)
           /\ IF Tail(batch) = <<>> THEN Head(batch) = m
              ELSE Tail(batch)[Len(Tail(batch))] = m /\ Tail(batch)[1] > Head(batch)
<1>1. batch \in Seq(Nat) /\ Range(batch) \subseteq 1..sequence
  BY DEF Types, BatchTypes
<1>2. /\ Tail(batch) \in Seq(Nat) /\ Len(Tail(batch)) = Len(batch) - 1 /\ Len(batch) \in Nat \ {0}
      /\ Head(batch) = batch[1] /\ Head(batch) \in Nat /\ Head(batch) \in Range(batch)
      /\ Range(batch) = Range(Tail(batch)) \cup {Head(batch)}
      /\ UpTo(Tail(batch), m) /\ Head(batch) = m - Len(batch) + 1
  BY <1>1, Popped
<1>3. /\ \A x \in Range(batch) : x \in Nat /\ m - Len(batch) < x /\ x <= m
      /\ batch[Len(batch)] = m
  BY <1>1, UpToRange
<1>4. \A x \in Range(batch) : x >= Head(batch)
  BY <1>2, <1>3
<1>5. Handed = m
  BY <1>3 DEF Handed
<1>6. CASE Tail(batch) = <<>>
  <2>1. PICK n \in Nat : n = Len(batch)
    BY <1>2
  <2>2. n - 1 = 0 /\ Head(batch) = m - n + 1
    BY <1>2, <1>6, <2>1, NoneIn
  <2>3. Head(batch) = m
    BY <1>2, <2>2
  <2> QED
    BY <1>1, <1>2, <1>3, <1>4, <1>5, <1>6, <2>3
<1>7. CASE Tail(batch) # <<>>
  <2>1. PICK t : t = Tail(batch)
    OBVIOUS
  <2>2. t \in Seq(Nat) /\ t # <<>> /\ UpTo(t, m) /\ Len(t) = Len(batch) - 1
    BY <1>2, <1>7, <2>1
  <2>3. t[Len(t)] = m /\ t[1] = m - Len(t) + 1
    BY <2>2, UpToRange
  <2>4. t[1] > Head(batch)
    <3>1. PICK n \in Nat : n = Len(batch)
      BY <1>2
    <3> QED
      BY <1>2, <2>2, <2>3, <3>1
  <2> QED
    BY <1>1, <1>2, <1>3, <1>4, <1>5, <1>7, <2>1, <2>3, <2>4
<1> QED
  BY <1>6, <1>7

LEMMA GaplessConnect ==
    ASSUME Types, Gapless, Subscribe \/ ReadHistory \/ Disconnect, ~crossed'
    PROVE  Gapless'
<1> USE DEF Gapless, page, channel
<1>1. UNCHANGED log
  BY DEF Subscribe, ReadHistory, Disconnect
<1>2. /\ sequence \in Nat /\ RecordedUpTo \in Nat /\ lastSeq \in Nat /\ last \in Nat
      /\ Publishing = {} => RecordedUpTo = sequence /\ SentUpTo = sequence
  BY Counts DEF Types, PageTypes
<1>3. CASE Subscribe
  <2>1. /\ Publishing = {} /\ pc' = "subscribed" /\ rx' = <<>> /\ ~lagged'
        /\ UNCHANGED <<last, batch, lastSeq, shown>>
    BY <1>3 DEF Subscribe
  <2>2. InTurn'
    BY <1>1, <2>1, LogStays, NoneIn DEF InTurn, UpTo
  <2>3. Passed'
    BY <1>1, <2>1, LogStays DEF Passed
  <2> QED
    BY <2>1, <2>2, <2>3 DEF Replaying, Greeting, Following
<1>4. CASE ReadHistory
  <2>1. /\ pc = "subscribed" /\ pc' = "replay" /\ batch' = history /\ last' = 0
        /\ UNCHANGED <<rx, lagged, lastSeq, shown>>
    BY <1>4 DEF ReadHistory
  <2>2. Publishing = {}
    BY <2>1 DEF InTurn, Types, SocketTypes, Publishing
  <2>3. history \in Seq(Nat) /\ UpTo(history, sequence) /\ (sequence # 0 => history # <<>>)
    BY <1>2, <2>2 DEF InTurn, Types, LogTypes
  <2>4. Handed' = sequence
    <3>1. CASE history = <<>>
      BY <2>1, <2>3, <3>1 DEF Handed
    <3>2. CASE history # <<>>
      BY <1>2, <2>1, <2>3, <3>2, UpToRange DEF Handed
    <3> QED
      BY <3>1, <3>2
  <2>5. InTurn' /\ Passed'
    BY <1>1, <2>1, <2>2, LogStays DEF InTurn, Passed
  <2>6. Replaying'
    BY <1>1, <2>1, <2>3, <2>4, LogStays DEF Replaying
  <2> QED
    BY <2>1, <2>5, <2>6 DEF Greeting, Following
<1>5. CASE Disconnect
  <2>1. /\ pc' = "closed" /\ rx' = <<>> /\ ~lagged'
        /\ (lastSeq' = lastSeq /\ shown' = shown) \/ (lastSeq' = 0 /\ shown' = {})
    BY <1>5 DEF Disconnect
  <2>2. InTurn'
    BY <1>1, <2>1, LogStays DEF InTurn
  <2>3. \A x \in Range(history) : ~(x <= 0)
    BY <1>2 DEF Types, LogTypes
  <2>4. Passed'
    BY <1>1, <1>2, <2>1, <2>3, LogStays DEF Passed
  <2> QED
    BY <2>1, <2>2, <2>4 DEF Replaying, Greeting, Following
<1> QED
  BY <1>3, <1>4, <1>5

LEMMA GaplessReplay ==
    ASSUME Types, Gapless, Replay
    PROVE  Gapless'
<1> USE DEF Gapless, page, channel
<1>1. UNCHANGED <<log, rx, lagged>> /\ pc = "replay"
  BY DEF Replay
<1>2. Publishing = {}
  BY <1>1 DEF InTurn, Types, SocketTypes, Publishing
<1>3. /\ sequence \in Nat /\ RecordedUpTo = sequence /\ SentUpTo = sequence
      /\ lastSeq \in Nat /\ last \in Nat /\ last <= lastSeq /\ lastSeq <= sequence
  BY <1>2, Counts DEF Types, PageTypes
<1>4. /\ UpTo(batch, sequence) /\ Handed = sequence
      /\ \A x \in Range(history) : x <= last \/ x \in Range(batch)
  BY <1>1 DEF Replaying
<1>5. CASE batch = <<>>
  <2>1. pc' = "greet" /\ UNCHANGED <<last, batch, lastSeq, shown>>
    BY <1>5 DEF Replay
  <2>2. last = sequence /\ lastSeq = last
    BY <1>3, <1>4, <1>5 DEF Handed
  <2>3. InTurn' /\ Passed'
    BY <1>1, <1>2, <2>1, LogStays DEF InTurn, Passed
  <2>4. Greeting'
    BY <1>1, <1>3, <2>1, <2>2, LogStays DEF Greeting
  <2> QED
    BY <2>1, <2>3, <2>4 DEF Replaying, Following
<1>6. CASE batch # <<>>
  <2> DEFINE e == Head(batch)
  <2>1. /\ pc' = "replay" /\ batch' = Tail(batch) /\ last' = Larger(last, e) /\ Take(e)
    BY <1>1, <1>6 DEF Replay
  <2>2. /\ e \in 1..sequence /\ e <= sequence
        /\ UpTo(Tail(batch), sequence)
        /\ Range(batch) = Range(Tail(batch)) \cup {e}
        /\ \A x \in Range(batch) : x >= e
        /\ IF Tail(batch) = <<>> THEN e = sequence
           ELSE Tail(batch)[Len(Tail(batch))] = sequence
    BY <1>3, <1>4, <1>6, HandsOver
  <2> HIDE DEF e
  <2>3. \A x \in Range(history) : x \in Nat /\ (x <= lastSeq \/ x >= e)
    BY <1>3, <1>4, <2>2 DEF Types, LogTypes
  <2>4. Passed'
    BY <1>1, <1>3, <2>1, <2>2, <2>3, GaplessTake
  <2>5. last' \in Nat /\ last <= last' /\ e <= last' /\ (e = sequence => last' = sequence)
    BY <1>3, <2>1, <2>2 DEF Larger
  <2>6. Handed' = sequence
    <3>1. CASE Tail(batch) = <<>>
      BY <2>1, <2>2, <2>5, <3>1 DEF Handed
    <3>2. CASE Tail(batch) # <<>>
      BY <2>1, <2>2, <3>2 DEF Handed
    <3> QED
      BY <3>1, <3>2
  <2>7. \A x \in Range(history) : x <= last' \/ x \in Range(Tail(batch))
    BY <1>3, <1>4, <2>2, <2>3, <2>5
  <2>8. Replaying'
    BY <1>1, <2>1, <2>2, <2>6, <2>7, LogStays DEF Replaying
  <2>9. InTurn'
    BY <1>1, <1>2, <2>1, LogStays DEF InTurn
  <2> QED
    BY <2>1, <2>4, <2>8, <2>9 DEF Greeting, Following
<1> QED
  BY <1>5, <1>6

LEMMA GaplessCatchUp ==
    ASSUME Types, Gapless, CatchUp
    PROVE  Gapless'
<1> USE DEF Gapless, page, channel
<1>1. UNCHANGED <<log, rx, lagged>> /\ pc = "catch-up" /\ pc' \in {"catch-up", "loop"}
  BY DEF CatchUp
<1>2. /\ sequence \in Nat /\ RecordedUpTo \in Nat /\ lastSeq \in Nat /\ last \in Nat
      /\ Handed \in Nat
  BY Counts, HandedIn DEF Types, PageTypes
<1>3. /\ lastSeq = last /\ UpTo(batch, Handed) /\ Handed <= RecordedUpTo
      /\ batch # <<>> => batch[1] > last
      /\ \A x \in Range(history) : x <= last \/ x \in Range(batch) \/ x > Handed
      /\ ~lagged => SentUpTo - Len(rx) <= Handed
  BY <1>1 DEF Following
<1>4. InTurn'
  BY <1>1, LogStays DEF InTurn
<1>5. CASE batch = <<>>
  <2>1. pc' = "loop" /\ UNCHANGED <<last, batch, lastSeq, shown>>
    BY <1>5 DEF CatchUp
  <2>2. Handed' = Handed
    BY <2>1 DEF Handed
  <2> QED
    BY <1>1, <1>3, <1>4, <2>1, <2>2, LogStays DEF Passed, Replaying, Greeting, Following
<1>6. CASE batch # <<>>
  <2> DEFINE e == Head(batch)
  <2>1. /\ batch' = Tail(batch) /\ last' = e /\ Take(e)
    BY <1>6 DEF CatchUp
  <2>2. /\ e \in 1..sequence /\ e <= Handed /\ e > last
        /\ UpTo(Tail(batch), Handed)
        /\ Range(batch) = Range(Tail(batch)) \cup {e}
        /\ \A x \in Range(batch) : x >= e
        /\ IF Tail(batch) = <<>> THEN e = Handed
           ELSE Tail(batch)[Len(Tail(batch))] = Handed /\ Tail(batch)[1] > e
    BY <1>2, <1>3, <1>6, HandsOver
  <2> HIDE DEF e
  <2>3. e <= RecordedUpTo /\ \A x \in Range(history) : x \in Nat /\ (x <= lastSeq \/ x >= e)
    BY <1>2, <1>3, <2>2 DEF Types, LogTypes
  <2>4. Passed'
    BY <1>1, <2>1, <2>2, <2>3, GaplessTake
  <2>5. lastSeq' = last'
    <3>1. e > lastSeq => lastSeq' = e
      BY <1>2, <2>1, <2>2, Takes DEF Types
    <3> QED
      BY <1>3, <2>1, <2>2, <3>1
  <2>6. Handed' = Handed
    <3>1. CASE Tail(batch) = <<>>
      BY <2>1, <2>2, <3>1 DEF Handed
    <3>2. CASE Tail(batch) # <<>>
      BY <2>1, <2>2, <3>2 DEF Handed
    <3> QED
      BY <3>1, <3>2
  <2>7. \A x \in Range(history) : x <= last' \/ x \in Range(Tail(batch)) \/ x > Handed
    <3>1. \A x \in Range(history) : x <= last => x <= e
      BY <1>2, <2>2, <2>3
    <3>2. e <= e
      BY <2>2
    <3> QED
      BY <1>3, <2>1, <2>2, <3>1, <3>2
  <2>8. batch' # <<>> => batch'[1] > last'
    BY <2>1, <2>2
  <2>9. Following'
    BY <1>1, <1>3, <2>1, <2>2, <2>5, <2>6, <2>7, <2>8, LogStays DEF Following
  <2> QED
    BY <1>1, <1>4, <2>4, <2>9 DEF Replaying, Greeting
<1> QED
  BY <1>5, <1>6

LEMMA GaplessReceive ==
    ASSUME Types, Gapless, Receive
    PROVE  Gapless'
<1> USE DEF Gapless, page, channel
<1> DEFINE e == Head(rx)
<1>1. /\ UNCHANGED <<log, pc, lagged, batch>> /\ pc = "loop" /\ ~lagged /\ rx # <<>>
      /\ rx' = Tail(rx) /\ batch = <<>>
      /\ IF e > last THEN last' = e /\ Take(e) ELSE UNCHANGED <<last, lastSeq, shown>>
  BY DEF Receive, Types, SocketTypes
<1>2. /\ sequence \in Nat /\ RecordedUpTo \in Nat /\ SentUpTo \in Nat /\ SentUpTo <= RecordedUpTo
      /\ lastSeq \in Nat /\ last \in Nat
  BY Counts DEF Types, PageTypes
<1>3. /\ lastSeq = last /\ Handed = last /\ last <= RecordedUpTo
      /\ \A x \in Range(history) : x <= last \/ x > last
      /\ SentUpTo - Len(rx) <= last
  <2>1. Handed = last
    BY <1>1 DEF Handed
  <2>2. \A x \in Range(history) : x \in Nat
    BY DEF Types, LogTypes
  <2>3. \A x \in Range(history) : x <= last \/ x > last
    BY <1>2, <2>2
  <2> QED
    BY <1>1, <2>1, <2>3 DEF Following
<1>4. /\ rx \in Seq(Nat) /\ Range(rx) \subseteq 1..sequence /\ UpTo(rx, SentUpTo)
  BY <1>1 DEF InTurn, Types, ChannelTypes
<1>5. /\ Len(Tail(rx)) = Len(rx) - 1 /\ Len(rx) \in Nat \ {0}
      /\ e \in Range(rx) /\ UpTo(Tail(rx), SentUpTo) /\ e = SentUpTo - Len(rx) + 1
      /\ e \in 1..sequence
  BY <1>1, <1>2, <1>4, Popped
<1>6. e <= last + 1 /\ e <= SentUpTo /\ SentUpTo - Len(Tail(rx)) = e
  BY <1>2, <1>3, <1>5
<1> HIDE DEF e
<1>7. InTurn'
  BY <1>1, <1>5, LogStays DEF InTurn
<1>8. Range(batch) = {} /\ batch' = <<>> /\ \A n : UpTo(<<>>, n)
  BY <1>1, NoneIn DEF UpTo
<1>9. CASE e > last
  <2>1. last' = e /\ Take(e) /\ e = last + 1 /\ Handed' = e
    BY <1>1, <1>2, <1>5, <1>6, <1>9 DEF Handed
  <2>2. \A x \in Range(history) : x \in Nat /\ (x <= lastSeq \/ x >= e) /\ (x <= e \/ x > e)
    BY <1>2, <1>3, <2>1 DEF Types, LogTypes
  <2>3. e <= RecordedUpTo
    BY <1>2, <1>5, <1>6
  <2>4. Passed'
    BY <1>1, <1>5, <2>1, <2>2, <2>3, GaplessTake
  <2>5. lastSeq' = last'
    <3>1. e > lastSeq => lastSeq' = e
      BY <1>2, <1>5, <2>1, Takes DEF Types
    <3> QED
      BY <1>3, <1>9, <2>1, <3>1
  <2>6. SentUpTo - Len(rx') <= e
    BY <1>1, <1>2, <1>5, <1>6
  <2>7. Following'
    BY <1>1, <1>8, <2>1, <2>2, <2>3, <2>5, <2>6, LogStays DEF Following
  <2> QED
    BY <1>1, <1>7, <2>4, <2>7 DEF Replaying, Greeting
<1>10. CASE ~(e > last)
  <2>1. UNCHANGED <<last, lastSeq, shown>> /\ Handed' = last
    BY <1>1, <1>10 DEF Handed
  <2>2. SentUpTo - Len(rx') <= last
    BY <1>1, <1>2, <1>5, <1>6, <1>10
  <2>3. Passed'
    BY <1>1, <2>1, LogStays DEF Passed
  <2>4. Following'
    BY <1>1, <1>3, <1>8, <2>1, <2>2, LogStays DEF Following
  <2> QED
    BY <1>1, <1>7, <2>3, <2>4 DEF Replaying, Greeting
<1> QED
  BY <1>9, <1>10

(* What was lost on the way is taken from the history.                     *)
LEMMA GaplessLagged ==
    ASSUME Types, Gapless, Lagged
    PROVE  Gapless'
<1> USE DEF Gapless, page, channel
<1>1. /\ UNCHANGED <<log, rx, last, lastSeq, shown>> /\ pc = "loop" /\ pc' = "catch-up"
      /\ ~lagged' /\ batch' = Above(history, last) /\ batch = <<>>
  BY DEF Lagged, Types, SocketTypes
<1>2. /\ sequence \in Nat /\ RecordedUpTo \in Nat /\ SentUpTo \in Nat /\ SentUpTo <= RecordedUpTo
      /\ lastSeq \in Nat /\ last \in Nat /\ Len(rx) \in Nat
  BY Counts, LenProperties DEF Types, PageTypes, ChannelTypes
<1>3. lastSeq = last /\ last <= RecordedUpTo
  BY <1>1 DEF Following, Handed
<1>4. /\ history \in Seq(Nat) /\ UpTo(history, RecordedUpTo)
      /\ (RecordedUpTo # 0 => history # <<>>)
  BY DEF InTurn, Types, LogTypes
<1> DEFINE b == Above(history, last)
<1>5. /\ b \in Seq(Nat) /\ UpTo(b, RecordedUpTo)
      /\ \A e : e \in Range(b) <=> e \in Range(history) /\ e > last
  <2>1. RecordedUpTo \in Int /\ history \in Seq(Nat) /\ last \in Nat
    BY <1>2, <1>4
  <2>2. /\ b \in Seq(Nat)
        /\ \A e : e \in Range(b) <=> e \in Range(history) /\ e > last
        /\ \A m \in Int : UpTo(history, m) => UpTo(b, m)
    BY <2>1, AboveIs
  <2> HIDE DEF b
  <2> QED
    BY <1>4, <2>1, <2>2
<1>6. \A e \in Range(history) : e \in Nat /\ (e <= last \/ e \in Range(b))
  BY <1>2, <1>5 DEF Types, LogTypes
<1> HIDE DEF b
<1>7. batch' = b
  BY <1>1 DEF b
<1>8. /\ UpTo(b, Handed') /\ Handed' \in Nat /\ Handed' <= RecordedUpTo /\ SentUpTo <= Handed'
      /\ (b # <<>> => b[1] > last)
  <2>1. CASE b = <<>>
    <3>1. Handed' = last /\ UpTo(b, last)
      BY <1>1, <1>7, <2>1, NoneIn DEF Handed, UpTo
    <3>2. RecordedUpTo <= last
      <4>1. CASE RecordedUpTo = 0
        BY <1>2, <4>1
      <4>2. CASE RecordedUpTo # 0
        <5>1. RecordedUpTo \in Range(history)
          BY <1>2, <1>4, <4>2, UpToRange
        <5>2. RecordedUpTo \notin Range(b)
          BY <2>1, NoneIn
        <5> QED
          BY <1>6, <5>1, <5>2
      <4> QED
        BY <4>1, <4>2
    <3> QED
      BY <1>2, <1>3, <2>1, <3>1, <3>2
  <2>2. CASE b # <<>>
    <3>1. b[Len(b)] = RecordedUpTo
      BY <1>2, <1>5, <2>2, UpToRange
    <3>2. b[1] > last
      <4>1. 1 \in 1..Len(b)
        BY <1>5, <2>2, RangeIs
      <4>2. b[1] \in Range(b)
        BY <1>5, <4>1, RangeIs
      <4> QED
        BY <1>5, <4>2
    <3>3. Handed' = RecordedUpTo
      BY <1>7, <2>2, <3>1 DEF Handed
    <3> QED
      BY <1>2, <1>5, <3>2, <3>3
  <2> QED
    BY <2>1, <2>2
<1>9. SentUpTo - Len(rx) <= Handed'
  BY <1>2, <1>8
<1>10. InTurn' /\ Passed'
  BY <1>1, LogStays DEF InTurn, Passed
<1>11. Following'
  BY <1>1, <1>3, <1>6, <1>7, <1>8, <1>9, LogStays DEF Following
<1> QED
  BY <1>1, <1>10, <1>11 DEF Replaying, Greeting

LEMMA CalmAlways == Spec => []Calm
<1>1. Init => Calm
  BY NoneIn DEF Init, Calm, Gapless, InTurn, Passed, Replaying, Greeting, Following, UpTo,
     Publishing, RecordedUpTo, Unrecorded
<1>2. Types /\ Calm /\ [Next]_vars => Calm'
  <2> SUFFICES ASSUME Types, Calm, [Next]_vars, ~crossed' PROVE Gapless'
    BY DEF Calm
  <2>1. Gapless
    BY DEF Calm, Next, Number, Record, Broadcast, Subscribe, ReadHistory, Replay, Receive,
       Lagged, CatchUp, Disconnect, vars
  <2>2. CASE UNCHANGED vars
    <3>1. UNCHANGED log /\ Handed' = Handed
      BY <2>2 DEF vars, Handed
    <3> QED
      BY <2>1, <2>2, <3>1, LogStays DEF vars, channel, page, Gapless, InTurn, Passed, Replaying,
         Greeting, Following
  <2> QED
    BY <2>1, <2>2, GaplessNumber, GaplessRecord, GaplessBroadcast, GaplessConnect,
       GaplessReplay, GaplessReceive, GaplessLagged, GaplessCatchUp DEF Next
<1> QED
  BY <1>1, <1>2, TypesAlways, PTL DEF Spec

(* Theorem: a page that has caught up shows all the controller holds, as   *)
(* long as publications keep apart, however often it lagged or was cut off. *)
THEOREM NothingIsMissing == Spec => []NothingMissing
<1>1. Types /\ Calm => NothingMissing
  <2> SUFFICES ASSUME Types, Gapless, Settled PROVE Range(history) \subseteq shown
    BY DEF NothingMissing, HistoryShown, Calm
  <2> USE DEF Gapless
  <2>1. pc = "loop" /\ Publishing = {} /\ rx = <<>> /\ ~lagged /\ batch = <<>>
    BY DEF Settled, Types, SocketTypes
  <2>2. /\ sequence \in Nat /\ RecordedUpTo = sequence /\ SentUpTo = sequence
        /\ last \in Nat /\ lastSeq = last /\ Handed = last /\ SentUpTo - 0 <= last
    BY <2>1, Counts, NoneIn DEF Following, Handed, Types, PageTypes
  <2>3. sequence <= lastSeq
    BY <2>2
  <2>4. \A e \in Range(history) : e \in Nat /\ e <= sequence
    BY <2>2 DEF Types, LogTypes
  <2>5. \A e \in Range(history) : e <= lastSeq
    BY <2>2, <2>3, <2>4
  <2> QED
    BY <2>5 DEF Passed
<1> QED
  BY <1>1, TypesAlways, CalmAlways, PTL

===============================================================================
