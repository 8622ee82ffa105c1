------------------------- MODULE ConfigStoreProofs -------------------------
(***************************************************************************)
(* The configuration store for every set of fields and values and every    *)
(* size of the TLV area: what the positions of the fields are, what a      *)
(* write does to them, and the invariants of the store.                    *)
(***************************************************************************)
EXTENDS ConfigStore, SequenceTheorems, WellFoundedInduction, TLAPS

-----------------------------------------------------------------------------
(***************************************************************************)
(* The chain of the fields.                                                *)
(***************************************************************************)
\* A set of naturals that is not empty has a least element.
LEMMA Least ==
  ASSUME NEW T \in SUBSET Nat, T # {}
  PROVE  \E x \in T : \A y \in T : x <= y
<1>1. PICK x \in T : \A y \in T : ~ (<<y, x>> \in OpToRel(<, Nat))
  BY NatLessThanWellFounded, WFMin
<1>2. ASSUME NEW y \in T PROVE x <= y
  <2>1. ~ (<<y, x>> \in OpToRel(<, Nat))
    BY <1>1
  <2>2. ~ (y < x)
    BY <2>1 DEF OpToRel
  <2> QED BY <2>2
<1> QED BY <1>2

Areas == Seq(Nat)
NextField(t, p) == p + 2 + t[p + 2]
Broken(t, p) == p + 1 = Len(t) \/ NextField(t, p) > Len(t)

\* S holds the positions of whole fields that lead from i to the end of t, and the end.
Chain(t, i, S) ==
  /\ S \subseteq i .. Len(t) /\ i \in S /\ Len(t) \in S
  /\ \A p \in S : p < Len(t) =>
       /\ p + 1 < Len(t) /\ NextField(t, p) \in S
       /\ \A q \in S : q <= p \/ NextField(t, p) <= q

LEMMA NextFieldType ==
  ASSUME NEW t \in Areas, NEW p \in Nat, p + 1 < Len(t)
  PROVE  NextField(t, p) \in Nat /\ p + 1 < NextField(t, p)
<1>1. t[p + 2] \in Nat
  BY DEF Areas
<1> QED BY <1>1 DEF NextField

\* The recursive function behind Starts exists: its value at i is made of the positions
\* that every set closed under "next field" has once it has i.
LEMMA ChainFunction ==
  ASSUME NEW t \in Areas
  PROVE  \E c : c = [i \in 0 .. Len(t) |-> FieldsFrom(t, i, c)]
<1> DEFINE N == Len(t)
           Closed(T) == \A q \in T : 0 <= q /\ q < N =>
                          IF Broken(t, q) THEN -1 \in T ELSE NextField(t, q) \in T
           Reach(i) == {p \in -1 .. N : \A T \in SUBSET (-1 .. N) : Closed(T) /\ i \in T => p \in T}
           Whole(p) == p = -1 \/ (p < N /\ ~Broken(t, p))
           c == [i \in 0 .. N |-> {p \in Reach(i) : Whole(p)}]
<1>0. N \in Nat
  BY DEF Areas
<1>1. ASSUME NEW i \in 0 .. N PROVE i \in Reach(i)
  BY <1>0
<1>2. ASSUME NEW i \in 0 .. N, NEW T \in SUBSET (-1 .. N), Closed(T), i \in T
      PROVE  Reach(i) \subseteq T
  BY <1>2
<1>3. ASSUME NEW i \in 0 .. N PROVE c[i] = FieldsFrom(t, i, c)
  <2>1. CASE i = N
    <3>1. Closed({N})
      BY <1>0
    <3>2. Reach(N) \subseteq {N}
      <4>1. {N} \in SUBSET (-1 .. N) /\ N \in 0 .. N
        BY <1>0
      <4> QED BY <1>2, <3>1, <4>1
    <3>3. ~Whole(N)
      BY <1>0
    <3>4. c[i] = {}
      BY <3>2, <3>3, <2>1
    <3> QED BY <2>1, <3>4 DEF FieldsFrom
  <2>2. CASE i < N /\ Broken(t, i)
    <3>1. Closed({i, -1})
      BY <2>2, <1>0
    <3>2. Reach(i) \subseteq {i, -1}
      <4>1. {i, -1} \in SUBSET (-1 .. N)
        BY <1>0
      <4> QED BY <1>2, <3>1, <4>1
    <3>3. -1 \in Reach(i)
      BY <2>2, <1>0
    <3>4. c[i] = {-1}
      BY <3>2, <3>3, <2>2
    <3> QED BY <2>2, <3>4, SMTT(20) DEF FieldsFrom, Broken, NextField
  <2>3. CASE i < N /\ ~Broken(t, i)
    <3> DEFINE n == NextField(t, i)
    <3>1. n \in Nat /\ i + 1 < n /\ n <= N
      BY <2>3, <1>0, NextFieldType DEF Broken
    <3>2. n \in 0 .. N
      BY <3>1, <1>0
    <3>3. Closed({i} \cup Reach(n))
      <4> SUFFICES ASSUME NEW q \in {i} \cup Reach(n), 0 <= q, q < N
                   PROVE  IF Broken(t, q) THEN -1 \in {i} \cup Reach(n)
                                          ELSE NextField(t, q) \in {i} \cup Reach(n)
        OBVIOUS
      <4>1. CASE q = i
        BY <4>1, <2>3, <1>1, <3>2
      <4>2. CASE q \in Reach(n)
        <5>1. CASE Broken(t, q)
          BY <5>1, <4>2, <1>0
        <5>2. CASE ~Broken(t, q)
          <6>1. NextField(t, q) \in -1 .. N
            BY <5>2, <1>0, <4>2, NextFieldType DEF Broken
          <6> QED BY <5>2, <6>1, <4>2
        <5> QED BY <5>1, <5>2
      <4> QED BY <4>1, <4>2
    <3>4. Reach(i) \subseteq {i} \cup Reach(n)
      <4>1. {i} \cup Reach(n) \in SUBSET (-1 .. N)
        BY <1>0
      <4> QED BY <1>2, <3>3, <4>1
    <3>5. Reach(n) \subseteq Reach(i)
      <4> SUFFICES ASSUME NEW p \in Reach(n), NEW T \in SUBSET (-1 .. N), Closed(T), i \in T
                   PROVE  p \in T
        OBVIOUS
      <4>1. n \in T
        BY <2>3, <1>0
      <4> QED BY <4>1
    <3>6. Whole(i)
      BY <2>3
    <3>7. c[i] = {i} \cup c[n]
      BY <3>2, <3>4, <3>5, <3>6, <1>1
    <3>8. i # N /\ ~(i + 1 = N \/ i + 2 + t[i + 2] > N)
      BY ONLY <2>3, <1>0, i \in 0 .. N DEF Broken, NextField
    <3> HIDE DEF c
    <3> QED BY ONLY <3>7, <3>8 DEF FieldsFrom, NextField
  <2> QED BY <2>1, <2>2, <2>3, <1>0
<1>4. c = [i \in 0 .. N |-> FieldsFrom(t, i, c)]
  <2> HIDE DEF c
  <2>1. c = [i \in 0 .. N |-> c[i]]
    BY DEF c
  <2> QED BY <2>1, <1>3
<1> QED BY <1>4

LEMMA StartsFunction ==
  ASSUME NEW t \in Areas
  PROVE  \E c : c = [i \in 0 .. Len(t) |-> FieldsFrom(t, i, c)] /\ Starts(t) = c[0]
<1>1. \E c : c = [i \in 0 .. Len(t) |-> FieldsFrom(t, i, c)]
  BY ChainFunction
<1> QED BY Zenon, <1>1 DEF Starts

\* A chain from the first byte holds the positions of the fields and the end.
LEMMA StartsOfChain ==
  ASSUME NEW t \in Areas, NEW S, Chain(t, 0, S)
  PROVE  Starts(t) = S \ {Len(t)}
<1> DEFINE N == Len(t)
           From(p) == {q \in S : p <= q /\ q < N}
<1>0. N \in Nat /\ S \subseteq 0 .. N
  BY DEF Areas, Chain
<1>1. PICK c : c = [i \in 0 .. N |-> FieldsFrom(t, i, c)] /\ Starts(t) = c[0]
  BY StartsFunction
<1>2. \A p \in S : c[p] = From(p)
  <2> DEFINE Bad == {n \in Nat : \E p \in S : n = N - p /\ c[p] # From(p)}
  <2>1. SUFFICES ASSUME Bad # {} PROVE FALSE
    <3>1. ASSUME NEW p \in S, c[p] # From(p) PROVE N - p \in Bad
      BY <3>1, <1>0
    <3> QED BY <3>1, <2>1
  <2>2. PICK n \in Bad : \A m \in Bad : n <= m
    BY <2>1, Least
  <2>3. PICK p \in S : n = N - p /\ c[p] # From(p)
    BY <2>2
  <2>4. c[p] = FieldsFrom(t, p, c)
    BY <1>0, <1>1
  <2>5. CASE p = N
    <3>1. c[p] = {}
      BY <2>4, <2>5 DEF FieldsFrom
    <3>2. From(p) = {}
      BY <2>5, <1>0
    <3> QED BY <2>3, <3>1, <3>2
  <2>6. CASE p < N
    <3> DEFINE k == NextField(t, p)
    <3>1. /\ p + 1 < N /\ k \in S
          /\ \A q \in S : q <= p \/ k <= q
      BY <2>6 DEF Chain
    <3>2. k \in Nat /\ p + 1 < k /\ k <= N /\ p \in Nat
      BY <3>1, <1>0, NextFieldType
    <3>3. c[p] = {p} \cup c[k]
      <4>1. p # N /\ ~(p + 1 = N \/ p + 2 + t[p + 2] > N)
        BY ONLY <3>1, <3>2, <1>0 DEF NextField
      <4> QED BY ONLY <2>4, <4>1 DEF FieldsFrom, NextField
    <3>4. c[k] = From(k)
      <4>1. N - k \in Nat /\ N - k < n
        BY <2>3, <3>2, <1>0
      <4>2. N - k \notin Bad
        BY <4>1, <2>2
      <4> QED BY <4>1, <4>2, <3>1
    <3>5. From(p) = {p} \cup From(k)
      <4>1. ASSUME NEW q \in S PROVE (p <= q /\ q < N) <=> (q = p \/ (k <= q /\ q < N))
        <5>1. q \in Nat /\ (q <= p \/ k <= q)
          BY <3>1, <1>0
        <5> HIDE DEF k
        <5> QED BY <5>1, <3>2, <1>0, <2>6
      <4> HIDE DEF k
      <4> QED BY <4>1
    <3> QED BY <2>3, <3>3, <3>4, <3>5
  <2> QED BY <1>0, <2>5, <2>6
<1>3. From(0) = S \ {N}
  <2>1. ASSUME NEW q \in S PROVE (0 <= q /\ q < N) <=> q # N
    BY <1>0
  <2> QED BY <2>1
<1> QED BY <1>1, <1>2, <1>3 DEF Chain

\* Conversely, fields without a broken one are a chain.
LEMMA ChainOfStarts ==
  ASSUME NEW t \in Areas, -1 \notin Starts(t)
  PROVE  Chain(t, 0, Starts(t) \cup {Len(t)})
<1> DEFINE N == Len(t)
<1>0. N \in Nat
  BY DEF Areas
<1>1. PICK c : c = [i \in 0 .. N |-> FieldsFrom(t, i, c)] /\ Starts(t) = c[0]
  BY StartsFunction
<1> DEFINE Good(i) == -1 \notin c[i] => Chain(t, i, c[i] \cup {N})
<1>2. \A i \in 0 .. N : Good(i)
  <2> DEFINE Bad == {n \in Nat : \E i \in 0 .. N : n = N - i /\ ~Good(i)}
  <2>1. SUFFICES ASSUME Bad # {} PROVE FALSE
    <3> HIDE DEF Good
    <3>1. ASSUME NEW i \in 0 .. N, ~Good(i) PROVE N - i \in Bad
      BY <3>1, <1>0
    <3> QED BY <3>1, <2>1
  <2>2. PICK n \in Bad : \A m \in Bad : n <= m
    BY <2>1, Least
  <2>3. PICK i \in 0 .. N : n = N - i /\ ~Good(i)
    BY <2>2
  <2>4. c[i] = FieldsFrom(t, i, c)
    BY <1>0, <1>1
  <2>5. CASE i = N
    <3>1. c[i] = {}
      BY <2>4, <2>5 DEF FieldsFrom
    <3>2. Chain(t, N, {N})
      BY <1>0 DEF Chain
    <3> QED BY <2>3, <2>5, <3>1, <3>2
  <2>6. CASE i < N /\ Broken(t, i)
    <3>1. i # N /\ (i + 1 = N \/ i + 2 + t[i + 2] > N)
      BY ONLY <2>6, <1>0, i \in 0 .. N DEF Broken, NextField
    <3>2. c[i] = {-1}
      BY ONLY <2>4, <3>1 DEF FieldsFrom
    <3> QED BY <2>3, <3>2
  <2>7. CASE i < N /\ ~Broken(t, i)
    <3> DEFINE k == NextField(t, i)
    <3>1. i + 1 < N /\ k \in Nat /\ i + 1 < k /\ k <= N
      BY <2>7, <1>0, NextFieldType DEF Broken
    <3>2. c[i] = {i} \cup c[k]
      <4>1. i # N /\ ~(i + 1 = N \/ i + 2 + t[i + 2] > N)
        BY ONLY <2>7, <1>0, i \in 0 .. N DEF Broken, NextField
      <4> QED BY ONLY <2>4, <4>1 DEF FieldsFrom, NextField
    <3>3. Good(k)
      <4> HIDE DEF Good, k
      <4>1. N - k \in Nat /\ N - k < n
        BY <2>3, <3>1, <1>0
      <4>2. N - k \notin Bad
        BY <4>1, <2>2
      <4> QED BY <4>1, <4>2, <3>1, <1>0
    <3>4. ASSUME Chain(t, k, c[k] \cup {N})
          PROVE  Chain(t, i, {i} \cup c[k] \cup {N})
      <4>1. k \in c[k] \cup {N} /\ c[k] \subseteq k .. N
        BY <3>4 DEF Chain
      <4>2. ASSUME NEW p \in {i} \cup c[k] \cup {N}, p < N
            PROVE  /\ p + 1 < N /\ NextField(t, p) \in {i} \cup c[k] \cup {N}
                   /\ \A q \in {i} \cup c[k] \cup {N} : q <= p \/ NextField(t, p) <= q
        <5>1. CASE p = i
          BY <5>1, <4>1, <3>1, <1>0
        <5>2. CASE p \in c[k]
          <6>1. /\ p + 1 < N /\ NextField(t, p) \in c[k] \cup {N}
                /\ \A q \in c[k] \cup {N} : q <= p \/ NextField(t, p) <= q
            BY <5>2, <4>2, <3>4 DEF Chain
          <6>2. i <= p
            BY <5>2, <4>1, <3>1, <1>0
          <6> QED BY <6>1, <6>2
        <5> QED BY <4>2, <5>1, <5>2, <1>0
      <4>3. {i} \cup c[k] \cup {N} \subseteq i .. N
        BY <4>1, <3>1, <1>0
      <4> HIDE DEF k
      <4> QED BY <4>2, <4>3 DEF Chain
    <3> QED BY <2>3, <3>2, <3>3, <3>4
  <2> QED BY <1>0, <2>5, <2>6, <2>7
<1> QED BY <1>0, <1>1, <1>2

-----------------------------------------------------------------------------
(***************************************************************************)
(* A write.  insert_value and append_value put the new field in the place  *)
(* of the bytes from p to e: those of the old field, or none at the end.   *)
(***************************************************************************)
Spliced(t, p, e, f, v) == SubSeq(t, 1, p) \o Bytes(f, v) \o SubSeq(t, e + 1, Len(t))

LEMMA BytesProperties ==
  ASSUME NEW f \in Nat, NEW v \in Seq(Nat)
  PROVE  /\ Bytes(f, v) \in Areas /\ Len(Bytes(f, v)) = 2 + Len(v)
         /\ Bytes(f, v)[1] = f /\ Bytes(f, v)[2] = Len(v)
         /\ \A i \in 1 .. Len(v) : Bytes(f, v)[2 + i] = v[i]
<1>1. Len(v) \in Nat
  OBVIOUS
<1>2. <<f, Len(v)>> \in Seq(Nat) /\ Len(<<f, Len(v)>>) = 2
  BY <1>1
<1>3. /\ Bytes(f, v) \in Seq(Nat)
      /\ Len(Bytes(f, v)) = 2 + Len(v)
      /\ \A i \in 1 .. 2 + Len(v) :
           Bytes(f, v)[i] = IF i <= 2 THEN <<f, Len(v)>>[i] ELSE v[i - 2]
  BY <1>2, ConcatProperties DEF Bytes
<1>4. ASSUME NEW i \in 1 .. Len(v) PROVE Bytes(f, v)[2 + i] = v[i]
  <2>1. 2 + i \in 1 .. 2 + Len(v) /\ ~(2 + i <= 2) /\ (2 + i) - 2 = i
    BY <1>1
  <2> QED BY <1>3, <2>1
<1>5. Bytes(f, v)[1] = f /\ Bytes(f, v)[2] = Len(v)
  BY <1>1, <1>3
<1> QED BY <1>3, <1>4, <1>5 DEF Areas

\* u is t with the new field in the place of the bytes from p to e.
Splice(t, p, e, f, v, u) ==
  /\ u \in Areas /\ Len(u) = p + 2 + Len(v) + Len(t) - e
  /\ \A i \in 1 .. p : u[i] = t[i]
  /\ u[p + 1] = f /\ u[p + 2] = Len(v)
  /\ \A i \in 1 .. Len(v) : u[p + 2 + i] = v[i]
  /\ \A i \in 1 .. Len(t) - e : u[p + 2 + Len(v) + i] = t[e + i]

LEMMA SplicedBytes ==
  ASSUME NEW t \in Areas, NEW p \in 0 .. Len(t), NEW e \in p .. Len(t),
         NEW f \in Nat, NEW v \in Seq(Nat)
  PROVE  Splice(t, p, e, f, v, Spliced(t, p, e, f, v))
<1> DEFINE u == Spliced(t, p, e, f, v)
           a == SubSeq(t, 1, p)
           b == Bytes(f, v)
           c == SubSeq(t, e + 1, Len(t))
<1>0. Len(t) \in Nat /\ Len(v) \in Nat /\ p \in Nat /\ e \in Nat /\ p <= e /\ e <= Len(t)
  BY DEF Areas
<1>1. a \in Seq(Nat) /\ Len(a) = p /\ \A i \in 1 .. p : a[i] = t[i]
  <2>1. \A i \in 1 .. p : t[i] \in Nat
    BY <1>0, ElementOfSeq DEF Areas
  <2>2. /\ a \in Seq(Nat) /\ Len(a) = IF 1 <= p THEN p - 1 + 1 ELSE 0
        /\ \A i \in 1 .. p - 1 + 1 : a[i] = t[1 + i - 1]
    BY <2>1, <1>0, SubSeqProperties
  <2> QED BY <2>2, <1>0
<1>2. /\ b \in Seq(Nat) /\ Len(b) = 2 + Len(v)
      /\ b[1] = f /\ b[2] = Len(v) /\ \A i \in 1 .. Len(v) : b[2 + i] = v[i]
  BY BytesProperties DEF Areas
<1>3. c \in Seq(Nat) /\ Len(c) = Len(t) - e /\ \A i \in 1 .. Len(t) - e : c[i] = t[e + i]
  <2>1. \A i \in e + 1 .. Len(t) : t[i] \in Nat
    BY <1>0, ElementOfSeq DEF Areas
  <2>2. /\ c \in Seq(Nat) /\ Len(c) = IF e + 1 <= Len(t) THEN Len(t) - (e + 1) + 1 ELSE 0
        /\ \A i \in 1 .. Len(t) - (e + 1) + 1 : c[i] = t[(e + 1) + i - 1]
    BY <2>1, <1>0, SubSeqProperties
  <2>3. ASSUME NEW i \in 1 .. Len(t) - e PROVE c[i] = t[e + i]
    <3>1. i \in 1 .. Len(t) - (e + 1) + 1 /\ (e + 1) + i - 1 = e + i
      BY <1>0
    <3> QED BY <2>2, <3>1
  <2> QED BY <2>2, <2>3, <1>0
<1> HIDE DEF u, a, b, c
<1>4. /\ a \o b \in Seq(Nat) /\ Len(a \o b) = p + (2 + Len(v))
      /\ \A i \in 1 .. p + (2 + Len(v)) : (a \o b)[i] = IF i <= p THEN a[i] ELSE b[i - p]
  <2>1. /\ a \o b \in Seq(Nat) /\ Len(a \o b) = Len(a) + Len(b)
        /\ \A i \in 1 .. Len(a) + Len(b) : (a \o b)[i] = IF i <= Len(a) THEN a[i] ELSE b[i - Len(a)]
    <3>1. a \in Seq(Nat) /\ b \in Seq(Nat)
      BY <1>1, <1>2
    <3> QED BY ONLY <3>1, ConcatProperties
  <2>2. Len(a) = p /\ Len(b) = 2 + Len(v)
    BY <1>1, <1>2
  <2> QED BY ONLY <2>1, <2>2
<1>5. /\ u \in Seq(Nat) /\ Len(u) = p + (2 + Len(v)) + (Len(t) - e)
      /\ \A i \in 1 .. p + (2 + Len(v)) + (Len(t) - e) :
           u[i] = IF i <= p + (2 + Len(v)) THEN (a \o b)[i] ELSE c[i - (p + (2 + Len(v)))]
  <2>1. u = (a \o b) \o c
    BY DEF Spliced, u, a, b, c
  <2> DEFINE ab == a \o b
  <2>2. /\ ab \o c \in Seq(Nat) /\ Len(ab \o c) = Len(ab) + Len(c)
        /\ \A i \in 1 .. Len(ab) + Len(c) : (ab \o c)[i] = IF i <= Len(ab) THEN ab[i] ELSE c[i - Len(ab)]
    <3>1. ab \in Seq(Nat) /\ c \in Seq(Nat)
      BY <1>3, <1>4
    <3> HIDE DEF ab
    <3> QED BY ONLY <3>1, ConcatProperties
  <2>3. Len(ab) = p + (2 + Len(v)) /\ Len(c) = Len(t) - e
    BY <1>3, <1>4
  <2> QED BY ONLY <2>1, <2>2, <2>3
<1>6. ASSUME NEW i \in 1 .. p PROVE u[i] = t[i]
  <2>1. /\ i \in 1 .. p + (2 + Len(v)) /\ i \in 1 .. p + (2 + Len(v)) + (Len(t) - e)
        /\ i <= p /\ i <= p + (2 + Len(v))
    BY <1>0
  <2>2. u[i] = (a \o b)[i]
    BY ONLY <2>1, <1>5
  <2>3. (a \o b)[i] = a[i]
    BY <2>1, <1>4
  <2> QED BY <2>2, <2>3, <1>1
<1>7. ASSUME NEW i \in 1 .. 2 + Len(v) PROVE u[p + i] = b[i]
  <2>1. /\ p + i \in 1 .. p + (2 + Len(v))
        /\ p + i \in 1 .. p + (2 + Len(v)) + (Len(t) - e)
        /\ ~(p + i <= p) /\ (p + i) - p = i /\ p + i <= p + (2 + Len(v))
    BY <1>0
  <2> QED BY <2>1, <1>4, <1>5
<1>8. ASSUME NEW i \in 1 .. Len(v) PROVE u[p + 2 + i] = v[i]
  <2>1. 2 + i \in 1 .. 2 + Len(v) /\ p + (2 + i) = p + 2 + i
    BY <1>0
  <2> QED BY <2>1, <1>7, <1>2
<1>9. ASSUME NEW i \in 1 .. Len(t) - e PROVE u[p + 2 + Len(v) + i] = t[e + i]
  <2>1. /\ p + 2 + Len(v) + i \in 1 .. p + (2 + Len(v)) + (Len(t) - e)
        /\ ~(p + 2 + Len(v) + i <= p + (2 + Len(v)))
        /\ (p + 2 + Len(v) + i) - (p + (2 + Len(v))) = i
    BY <1>0
  <2> QED BY <2>1, <1>3, <1>5
<1>10. u[p + 1] = f /\ u[p + 2] = Len(v)
  BY <1>7, <1>2, <1>0
<1>11. Len(u) = p + 2 + Len(v) + Len(t) - e
  BY <1>5, <1>0
<1> QED BY <1>5, <1>6, <1>8, <1>9, <1>10, <1>11 DEF Areas, Splice, u

\* The bytes from m to n of t are in u, k places on.
Same(t, u, m, n, k) ==
  \A i \in m .. n : i \in 1 .. Len(t) /\ i + k \in 1 .. Len(u) /\ u[i + k] = t[i]

LEMMA SameBytes ==
  ASSUME NEW t \in Areas, NEW u \in Areas, NEW m \in Int, NEW n \in Int, NEW k \in Int,
         Same(t, u, m, n, k)
  PROVE  SubSeq(u, m + k, n + k) = SubSeq(t, m, n)
<1> DEFINE a == SubSeq(u, m + k, n + k)
           b == SubSeq(t, m, n)
<1> USE DEF Same
<1>1. /\ b \in Seq(Nat) /\ Len(b) = IF m <= n THEN n - m + 1 ELSE 0
      /\ \A i \in 1 .. n - m + 1 : b[i] = t[m + i - 1]
  <2>1. \A i \in m .. n : t[i] \in Nat
    BY ElementOfSeq DEF Areas
  <2> QED BY <2>1, SubSeqProperties
<1>2. /\ a \in Seq(Nat) /\ Len(a) = IF m + k <= n + k THEN (n + k) - (m + k) + 1 ELSE 0
      /\ \A i \in 1 .. (n + k) - (m + k) + 1 : a[i] = u[(m + k) + i - 1]
  <2>1. ASSUME NEW i \in m + k .. n + k PROVE u[i] \in Nat
    <3>1. i - k \in m .. n /\ (i - k) + k = i
      OBVIOUS
    <3>2. i \in 1 .. Len(u)
      BY <3>1
    <3> QED BY <3>2, ElementOfSeq DEF Areas
  <2>2. m + k \in Int /\ n + k \in Int
    OBVIOUS
  <2> QED BY ONLY <2>1, <2>2, SubSeqProperties
<1> HIDE DEF a, b
<1>3. Len(a) = Len(b)
  BY <1>1, <1>2
<1>4. ASSUME NEW i \in 1 .. Len(b) PROVE a[i] = b[i]
  <2>1. /\ i \in 1 .. n - m + 1 /\ i \in 1 .. (n + k) - (m + k) + 1
        /\ m + i - 1 \in m .. n /\ (m + i - 1) + k = (m + k) + i - 1
    BY <1>1
  <2>2. u[(m + i - 1) + k] = t[m + i - 1]
    BY <2>1
  <2> QED BY <1>1, <1>2, <2>1, <2>2
<1>5. a = b
  BY <1>1, <1>2, <1>3, <1>4, SeqEqual
<1> QED BY <1>5 DEF a, b

\* The bytes from p to e are one whole field, or none at the end.
Place(t, p, e) ==
  /\ p \in Starts(t) \cup {Len(t)}
  /\ e = IF p < Len(t) THEN NextField(t, p) ELSE p

\* Where the field at q is after the write.
Moved(p, e, n, q) == IF q < p THEN q ELSE q + (p + 2 + n - e)

\* u has the fields of t, with the same values, but for the new one at p.
Written(t, p, e, f, v, u) ==
  /\ u \in Areas /\ Len(u) = Len(t) + (p + 2 + Len(v) - e) /\ -1 \notin Starts(u)
  /\ p \in Nat /\ e \in Nat /\ p <= e /\ e <= Len(t)
  /\ Starts(u) = {p} \cup {Moved(p, e, Len(v), q) : q \in Starts(t) \ {p}}
  /\ u[p + 1] = f /\ ValueAt(u, p) = v
  /\ \A q \in Starts(t) \ {p} :
       /\ u[Moved(p, e, Len(v), q) + 1] = t[q + 1]
       /\ ValueAt(u, Moved(p, e, Len(v), q)) = ValueAt(t, q)

LEMMA SplicedChain ==
  ASSUME NEW t \in Areas, -1 \notin Starts(t), NEW p, NEW e, Place(t, p, e),
         NEW f \in Nat, NEW v \in Seq(Nat)
  PROVE  Written(t, p, e, f, v, Spliced(t, p, e, f, v))
<1> DEFINE u == Spliced(t, p, e, f, v)
           N == Len(t)
           L == Len(v)
           S == Starts(t) \cup {N}
           d == p + 2 + L - e
           M(q) == Moved(p, e, L, q)
           R == {q \in S : q < p} \cup {p} \cup {q + d : q \in {x \in S : e <= x}}
<1>0. N \in Nat /\ L \in Nat
  BY DEF Areas
<1>1. Chain(t, 0, S)
  BY ChainOfStarts
<1>2. S \subseteq 0 .. N /\ 0 \in S /\ N \in S
  BY <1>1 DEF Chain
<1>3. Starts(t) = S \ {N}
  BY <1>1, StartsOfChain
<1>4. p \in S /\ p \in 0 .. N
  BY <1>2 DEF Place
<1>5. /\ e \in S /\ e \in p .. N /\ (p < N => p + 1 < e)
      /\ \A q \in S : q <= p \/ e <= q
  <2>1. CASE p < N
    <3>1. e = NextField(t, p)
      BY <2>1 DEF Place
    <3>2. p + 1 < N /\ e \in S /\ \A q \in S : q <= p \/ e <= q
      BY <1>1, <1>4, <2>1, <3>1 DEF Chain
    <3>3. p + 1 < e
      BY <3>1, <3>2, <1>4, NextFieldType
    <3> QED BY <3>2, <3>3, <1>2, <1>4, <1>0
  <2>2. CASE p = N
    <3>1. e = N
      BY <2>2, <1>0 DEF Place
    <3> QED BY <2>2, <3>1, <1>2, <1>0
  <2> QED BY <2>1, <2>2, <1>4, <1>0
<1>6. /\ u \in Areas /\ Len(u) = p + 2 + L + N - e
      /\ \A i \in 1 .. p : u[i] = t[i]
      /\ u[p + 1] = f /\ u[p + 2] = L
      /\ \A i \in 1 .. L : u[p + 2 + i] = v[i]
      /\ \A i \in 1 .. N - e : u[p + 2 + L + i] = t[e + i]
  <2>1. p \in 0 .. Len(t) /\ e \in p .. Len(t)
    BY <1>4, <1>5
  <2>2. Splice(t, p, e, f, v, u)
    BY <2>1, SplicedBytes
  <2> QED BY <2>2 DEF Splice
<1> HIDE DEF u
<1>7. Len(u) = N + d /\ d \in Int /\ p + 2 + L = e + d /\ e + d \in Nat
  BY <1>6, <1>0, <1>4, <1>5
\* Behind the new field the bytes have moved by d.
<1>8. ASSUME NEW i \in e + 1 .. N PROVE u[i + d] = t[i]
  <2>1. i - e \in 1 .. N - e /\ p + 2 + L + (i - e) = i + d /\ e + (i - e) = i
    BY <1>0, <1>4, <1>5
  <2> QED BY <2>1, <1>6
<1>9. ASSUME NEW q \in S, q < p
      PROVE  /\ q + 1 < N /\ NextField(t, q) \in S /\ NextField(t, q) <= p /\ q + 2 <= p
             /\ NextField(u, q) = NextField(t, q)
             /\ \A x \in S : x <= q \/ NextField(t, q) <= x
  <2>1. q < N /\ q \in Nat
    BY <1>9, <1>2, <1>4, <1>0
  <2>2. /\ q + 1 < N /\ NextField(t, q) \in S
        /\ \A x \in S : x <= q \/ NextField(t, q) <= x
    BY <1>1, <2>1 DEF Chain
  <2>3. NextField(t, q) <= p
    BY <2>2, <1>4, <1>9, <2>1
  <2>4. q + 2 <= p
    BY <2>1, <2>2, <2>3, <1>4, NextFieldType
  <2>5. u[q + 2] = t[q + 2]
    BY <2>4, <2>1, <1>4, <1>6
  <2> QED BY <2>2, <2>3, <2>4, <2>5 DEF NextField
<1>10. ASSUME NEW q \in S, e <= q, q < N
       PROVE  /\ q + 1 < N /\ NextField(t, q) \in S /\ q < NextField(t, q)
              /\ NextField(u, q + d) = NextField(t, q) + d
              /\ \A x \in S : x <= q \/ NextField(t, q) <= x
              /\ q \in Nat /\ t[q + 2] \in Nat /\ u[q + d + 2] = t[q + 2]
  <2>1. q \in Nat
    BY <1>2
  <2>2. /\ q + 1 < N /\ NextField(t, q) \in S
        /\ \A x \in S : x <= q \/ NextField(t, q) <= x
    BY <1>1, <1>10 DEF Chain
  <2>3. q < NextField(t, q) /\ NextField(t, q) \in Nat
    BY <2>1, <2>2, NextFieldType
  <2>4. q + 2 \in e + 1 .. N /\ q + 2 \in 1 .. N
    BY <2>1, <2>2, <1>10, <1>0, <1>5, <1>4
  <2>5. u[(q + 2) + d] = t[q + 2] /\ (q + 2) + d = (q + d) + 2
    BY <2>1, <2>4, <1>7, <1>8
  <2>6. t[q + 2] \in Nat
    BY <2>4, ElementOfSeq DEF Areas
  <2>7. u[q + d + 2] = t[q + 2]
    BY <2>5
  <2>8. NextField(u, q + d) = NextField(t, q) + d
    <3>1. d \in Int
      BY <1>7
    <3>2. PICK n \in Nat : n = t[q + 2]
      BY <2>6
    <3> HIDE DEF d
    <3>3. NextField(u, q + d) = (q + d) + 2 + n
      BY ONLY <2>7, <3>2 DEF NextField
    <3>4. NextField(t, q) = q + 2 + n
      BY ONLY <3>2 DEF NextField
    <3> QED BY ONLY <3>1, <3>3, <3>4, <2>1
  <2> QED BY <2>1, <2>2, <2>3, <2>6, <2>7, <2>8
<1>11. Chain(u, 0, R)
  <2>1. R \subseteq 0 .. N + d /\ 0 \in R /\ N + d \in R
    <3>1. ASSUME NEW q \in S, e <= q PROVE q + d \in 0 .. N + d
      BY <3>1, <1>0, <1>2, <1>4, <1>5, <1>7
    <3>2. ASSUME NEW q \in S, q <= p PROVE q \in 0 .. N + d
      BY <3>2, <1>0, <1>2, <1>4, <1>5, <1>7
    <3>3. 0 \in R
      BY <1>2, <1>4
    <3>4. N + d \in R
      BY <1>2, <1>4, <1>5
    <3>5. R \subseteq 0 .. N + d
      <4>1. \A r \in R : (r \in S /\ r <= p) \/ \E q \in S : e <= q /\ r = q + d
        BY <1>4
      <4> HIDE DEF S, R, d
      <4> QED BY <4>1, <3>1, <3>2
    <3> QED BY <3>3, <3>4, <3>5
  <2>2. ASSUME NEW r \in R, r < N + d
        PROVE  /\ r + 1 < N + d /\ NextField(u, r) \in R
               /\ \A x \in R : x <= r \/ NextField(u, r) <= x
    <3>1. CASE r \in S /\ r < p
      <4> DEFINE k == NextField(t, r)
      <4>1. /\ k \in S /\ k <= p /\ r + 2 <= p /\ NextField(u, r) = k
            /\ \A x \in S : x <= r \/ k <= x
        BY <3>1, <1>9
      <4>2. k \in R
        BY <4>1, <1>2, <1>4
      <4>3. r + 1 < N + d
        BY <4>1, <1>0, <1>2, <1>4, <1>5, <1>7, <3>1
      <4>4. ASSUME NEW x \in R PROVE x <= r \/ k <= x
        <5>1. CASE x \in S
          BY <5>1, <4>1
        <5>2. ASSUME NEW q \in S, e <= q, x = q + d PROVE k <= x
          BY <5>2, <4>1, <1>0, <1>2, <1>4, <1>5, <1>7, SMTT(20)
        <5> QED BY <5>1, <5>2, <1>4
      <4> QED BY <4>1, <4>2, <4>3, <4>4
    <3>2. CASE r = p
      <4>1. NextField(u, p) = e + d
        BY <1>6, <1>7 DEF NextField
      <4>2. e + d \in R
        BY <1>5, <1>4
      <4>3. p + 1 < N + d
        BY <1>0, <1>4, <1>5, <1>7
      <4>4. ASSUME NEW x \in R PROVE x <= p \/ e + d <= x
        <5>1. ASSUME NEW q \in S, e <= q, x = q + d PROVE e + d <= x
          BY <5>1, <1>2, <1>4, <1>5, <1>7
        <5> QED BY <5>1, <1>2, <1>4
      <4> QED BY <3>2, <4>1, <4>2, <4>3, <4>4
    <3>3. ASSUME NEW q \in S, e <= q, r = q + d
          PROVE  /\ r + 1 < N + d /\ NextField(u, r) \in R
                 /\ \A x \in R : x <= r \/ NextField(u, r) <= x
      <4> DEFINE k == NextField(t, q)
      <4>0. q < N
        BY <2>2, <3>3, <1>0, <1>2, <1>7
      <4>1. /\ q + 1 < N /\ k \in S /\ q < k /\ NextField(u, r) = k + d
            /\ \A x \in S : x <= q \/ k <= x
        BY <3>3, <4>0, <1>10
      <4>2. k \in Nat /\ q \in Nat /\ e <= k
        BY <4>1, <3>3, <1>2, <1>4, <1>5, SMTT(20)
      <4>3. k + d \in R
        BY <4>1, <4>2
      <4>4. r + 1 < N + d
        BY <4>1, <4>2, <3>3, <1>0, <1>7
      <4>5. ASSUME NEW x \in R PROVE x <= r \/ k + d <= x
        <5>1. CASE x \in S /\ x <= p
          <6>1. x \in Nat /\ p \in Nat /\ e \in Nat /\ p < e + d
            BY <5>1, <1>0, <1>2, <1>4, <1>5, <1>7
          <6>2. d \in Int /\ x <= p /\ e <= q /\ r = q + d /\ q \in Nat
            BY <5>1, <3>3, <4>2, <1>7
          <6> HIDE DEF d
          <6> QED BY ONLY <6>1, <6>2
        <5>2. ASSUME NEW y \in S, e <= y, x = y + d PROVE x <= r \/ k + d <= x
          <6>1. y \in Nat /\ (y <= q \/ k <= y)
            BY <4>1, <1>2
          <6> QED BY <6>1, <5>2, <3>3, <4>2, <1>7, SMTT(20)
        <5> QED BY <5>1, <5>2, <1>4, <1>2
      <4> QED BY <4>1, <4>3, <4>4, <4>5
    <3> QED BY <3>1, <3>2, <3>3
  <2> QED BY <2>1, <2>2, <1>7 DEF Chain
<1>12. Starts(u) = R \ {N + d} /\ -1 \notin Starts(u)
  <2>1. Starts(u) = R \ {N + d}
    BY <1>6, <1>7, <1>11, StartsOfChain
  <2>2. R \subseteq 0 .. N + d
    BY <1>11, <1>7 DEF Chain
  <2> QED BY <2>1, <2>2
<1>13. Starts(u) = {p} \cup {M(q) : q \in Starts(t) \ {p}}
  <2>1. ASSUME NEW r \in R, r # N + d
        PROVE  r = p \/ \E q \in Starts(t) \ {p} : r = M(q)
    <3>1. CASE r \in S /\ r < p
      <4>1. r \in Starts(t) \ {p} /\ r = M(r)
        BY <3>1, <1>2, <1>3, <1>4, <1>0 DEF Moved
      <4> QED BY <4>1
    <3>2. ASSUME NEW q \in S, e <= q, r = q + d PROVE r = p \/ \E x \in Starts(t) \ {p} : r = M(x)
      <4>1. q # N /\ q \in Nat
        BY <3>2, <2>1, <1>2
      <4>2. q # p
        BY <3>2, <4>1, <1>2, <1>4, <1>5, <1>0
      <4>3. ~(q < p)
        BY <3>2, <4>1, <1>4, <1>5
      <4>4. M(q) = q + d
        BY <4>3 DEF Moved
      <4> QED BY <3>2, <4>1, <4>2, <4>4, <1>3
    <3> QED BY <3>1, <3>2
  <2>2. p \in R /\ p # N + d
    BY <1>0, <1>4, <1>5, <1>7
  <2>3. ASSUME NEW q \in Starts(t) \ {p} PROVE M(q) \in R /\ M(q) # N + d
    <3>1. q \in S /\ q # N /\ q # p /\ q \in Nat
      BY <1>2, <1>3
    <3>2. CASE q < p
      <4>1. M(q) = q
        BY <3>2 DEF Moved
      <4> QED BY <3>1, <3>2, <4>1, <1>0, <1>4, <1>5, <1>7
    <3>3. CASE ~(q < p)
      <4>1. M(q) = q + d
        BY <3>3 DEF Moved
      <4>2. e <= q
        BY <3>1, <3>3, <1>4, <1>5
      <4> QED BY <3>1, <4>1, <4>2, <1>0, <1>7
    <3> QED BY <3>2, <3>3
  <2> HIDE DEF R, M
  <2> QED BY <2>1, <2>2, <2>3, <1>12
<1>14. ValueAt(u, p) = v
  <2> DEFINE w == ValueAt(u, p)
  <2>1. w = SubSeq(u, p + 3, p + 2 + L)
    BY <1>6 DEF ValueAt
  <2>2. ASSUME NEW i \in p + 3 .. p + 2 + L PROVE u[i] \in Nat
    <3>1. i \in 1 .. Len(u)
      BY <1>0, <1>4, <1>5, <1>7
    <3> QED BY <3>1, <1>6, ElementOfSeq DEF Areas
  <2>3. /\ w \in Seq(Nat) /\ Len(w) = IF p + 3 <= p + 2 + L THEN (p + 2 + L) - (p + 3) + 1 ELSE 0
        /\ \A i \in 1 .. (p + 2 + L) - (p + 3) + 1 : w[i] = u[p + 3 + i - 1]
    <3>1. p + 3 \in Int /\ p + 2 + L \in Int
      BY <1>0, <1>4
    <3> HIDE DEF w, L
    <3> QED BY ONLY <2>1, <2>2, <3>1, SubSeqProperties
  <2> HIDE DEF w
  <2>4. Len(w) = L
    BY <2>3, <1>0, <1>4
  <2>5. ASSUME NEW i \in 1 .. L PROVE w[i] = v[i]
    <3>1. i \in 1 .. (p + 2 + L) - (p + 3) + 1 /\ p + 3 + i - 1 = p + 2 + i
      BY <1>0, <1>4
    <3> QED BY <3>1, <2>3, <1>6
  <2>6. w = v
    BY <2>3, <2>4, <2>5, SeqEqual
  <2> QED BY <2>6 DEF w
<1>15. ASSUME NEW q \in Starts(t) \ {p}
       PROVE  u[M(q) + 1] = t[q + 1] /\ ValueAt(u, M(q)) = ValueAt(t, q)
  <2>0. q \in S /\ q # N /\ q # p /\ q \in Nat /\ q < N
    BY <1>0, <1>2, <1>3
  <2>1. CASE q < p
    <3>1. M(q) = q
      BY <2>1 DEF Moved
    <3>2. /\ q + 1 < N /\ NextField(t, q) <= p /\ q + 2 <= p /\ NextField(u, q) = NextField(t, q)
      BY <2>0, <2>1, <1>9
    <3>3. NextField(t, q) \in Nat
      BY <2>0, <3>2, NextFieldType
    <3>4. Same(t, u, q + 3, NextField(t, q), 0)
      <4> SUFFICES ASSUME NEW i \in q + 3 .. NextField(t, q)
                   PROVE  i \in 1 .. Len(t) /\ i + 0 \in 1 .. Len(u) /\ u[i + 0] = t[i]
        BY DEF Same
      <4>1. i \in 1 .. p /\ i + 0 = i
        BY <2>0, <3>2, <3>3, <1>4
      <4>2. i \in 1 .. Len(t) /\ i \in 1 .. Len(u)
        BY <4>1, <1>0, <1>4, <1>5, <1>7
      <4> QED BY <4>1, <4>2, <1>6
    <3>5. SubSeq(u, (q + 3) + 0, NextField(t, q) + 0) = SubSeq(t, q + 3, NextField(t, q))
      <4>1. q + 3 \in Int /\ NextField(t, q) \in Int /\ 0 \in Int
        BY <2>0, <3>3
      <4>2. t \in Areas /\ u \in Areas
        BY <1>6
      <4> QED BY ONLY <4>1, <4>2, <3>4, SameBytes, SMTT(20)
    <3>6. ValueAt(u, q) = ValueAt(t, q)
      <4>1. (q + 3) + 0 = q + 3 /\ NextField(t, q) + 0 = NextField(t, q)
        BY <2>0, <3>3
      <4> QED BY <3>2, <3>5, <4>1 DEF ValueAt, NextField
    <3>7. u[q + 1] = t[q + 1]
      BY <2>0, <3>2, <1>4, <1>6
    <3> QED BY <3>1, <3>6, <3>7
  <2>2. CASE ~(q < p)
    <3>1. M(q) = q + d
      BY <2>2 DEF Moved
    <3>0. e <= q
      BY <2>0, <2>2, <1>4, <1>5
    <3>2. /\ q + 1 < N /\ NextField(t, q) \in S /\ NextField(u, q + d) = NextField(t, q) + d
      BY <2>0, <3>0, <1>10
    <3>3. NextField(t, q) \in Nat /\ NextField(t, q) <= N
      BY <3>2, <1>2, <1>0
    <3>4. Same(t, u, q + 3, NextField(t, q), d)
      <4> SUFFICES ASSUME NEW i \in q + 3 .. NextField(t, q)
                   PROVE  i \in 1 .. Len(t) /\ i + d \in 1 .. Len(u) /\ u[i + d] = t[i]
        BY DEF Same
      <4>1. i \in e + 1 .. N /\ i \in 1 .. N
        BY <2>0, <3>0, <3>3, <1>4, <1>5, <1>0
      <4>2. i + d \in 1 .. Len(u)
        BY <4>1, <1>0, <1>4, <1>5, <1>7
      <4> QED BY <4>1, <4>2, <1>8
    <3>5. SubSeq(u, (q + 3) + d, NextField(t, q) + d) = SubSeq(t, q + 3, NextField(t, q))
      <4>1. q + 3 \in Int /\ NextField(t, q) \in Int /\ d \in Int
        BY <2>0, <3>3, <1>7
      <4>2. t \in Areas /\ u \in Areas
        BY <1>6
      <4>3. PICK k \in Int : k = d
        BY <4>1
      <4>4. PICK m \in Int : m = q + 3
        BY <4>1
      <4>5. PICK n \in Int : n = NextField(t, q)
        BY <4>1
      <4>6. Same(t, u, m, n, k)
        BY <3>4, <4>3, <4>4, <4>5
      <4>7. SubSeq(u, m + k, n + k) = SubSeq(t, m, n)
        BY ONLY <4>2, <4>6, SameBytes, k \in Int, m \in Int, n \in Int
      <4> QED BY <4>3, <4>4, <4>5, <4>7
    <3>6. ValueAt(u, q + d) = ValueAt(t, q)
      <4>1. (q + 3) + d = (q + d) + 3
        BY <2>0, <1>7
      <4>2. ValueAt(u, q + d) = SubSeq(u, (q + d) + 3, NextField(u, q + d))
        BY DEF ValueAt, NextField
      <4>3. ValueAt(t, q) = SubSeq(t, q + 3, NextField(t, q))
        BY DEF ValueAt, NextField
      <4> HIDE DEF d
      <4> QED BY <3>2, <3>5, <4>1, <4>2, <4>3
    <3>7. u[(q + d) + 1] = t[q + 1]
      <4>1. q + 1 \in e + 1 .. N /\ (q + 1) + d = (q + d) + 1
        BY <2>0, <3>0, <3>2, <1>4, <1>5, <1>7, <1>0
      <4> QED BY <4>1, <1>8
    <3> QED BY <3>1, <3>6, <3>7
  <2> QED BY <2>1, <2>2
<1>16. Len(u) = N + d
  BY <1>7
<1>17. p \in Nat /\ e \in Nat /\ p <= e /\ e <= Len(t)
  BY <1>0, <1>4, <1>5
<1> QED BY ONLY <1>6, <1>12, <1>13, <1>14, <1>15, <1>16, <1>17 DEF Written, u

-----------------------------------------------------------------------------
(***************************************************************************)
(* The map that a sound TLV area encodes.                                  *)
(***************************************************************************)
\* A chain of whole fields, none twice, with values that a write may have put there.
Sound(t) ==
  /\ t \in Areas /\ WellFormed(t)
  /\ \A p \in Starts(t) : ValueAt(t, p) \in Values

\* What find_field relies on when it goes from field to field.
LEMMA StartsProperties ==
  ASSUME NEW t \in Areas, -1 \notin Starts(t)
  PROVE  /\ 0 \in Starts(t) \cup {Len(t)} /\ Len(t) \in Nat /\ Len(t) \notin Starts(t)
         /\ \A p \in Starts(t) :
              /\ p \in Nat /\ p + 1 < Len(t) /\ t[p + 1] \in Nat /\ t[p + 2] \in Nat
              /\ p + 1 < NextField(t, p) /\ NextField(t, p) <= Len(t)
              /\ NextField(t, p) \in Starts(t) \cup {Len(t)}
              /\ \A q \in Starts(t) \cup {Len(t)} : q <= p \/ NextField(t, p) <= q
<1> DEFINE S == Starts(t) \cup {Len(t)}
<1>0. Len(t) \in Nat
  BY DEF Areas
<1>1. Chain(t, 0, S)
  BY ChainOfStarts
<1>2. Starts(t) = S \ {Len(t)} /\ S \subseteq 0 .. Len(t) /\ 0 \in S
  BY <1>1, StartsOfChain DEF Chain
<1>3. ASSUME NEW p \in Starts(t)
      PROVE  /\ p \in Nat /\ p + 1 < Len(t) /\ t[p + 1] \in Nat /\ t[p + 2] \in Nat
             /\ p + 1 < NextField(t, p) /\ NextField(t, p) <= Len(t)
             /\ NextField(t, p) \in S
             /\ \A q \in S : q <= p \/ NextField(t, p) <= q
  <2>1. p \in Nat /\ p < Len(t)
    BY <1>0, <1>2
  <2>2. p + 1 < Len(t) /\ NextField(t, p) \in S /\ \A q \in S : q <= p \/ NextField(t, p) <= q
    BY <1>1, <1>2, <2>1 DEF Chain
  <2>3. t[p + 1] \in Nat /\ t[p + 2] \in Nat
    BY <1>0, <2>1, <2>2, ElementOfSeq DEF Areas
  <2>4. p + 1 < NextField(t, p) /\ NextField(t, p) <= Len(t)
    BY <1>0, <1>2, <2>1, <2>2, NextFieldType
  <2> QED BY <2>1, <2>2, <2>3, <2>4
<1> QED BY <1>0, <1>2, <1>3

\* The map has the value of every field there is ...
LEMMA FieldMapHit ==
  ASSUME NEW t, WellFormed(t), NEW p \in Starts(t), t[p + 1] \in Fields
  PROVE  FieldMap(t)[t[p + 1]] = ValueAt(t, p)
<1> DEFINE f == t[p + 1]
           c == CHOOSE q \in Starts(t) : t[q + 1] = f
<1>1. c \in Starts(t) /\ t[c + 1] = f
  OBVIOUS
<1>2. c = p
  BY <1>1 DEF WellFormed
<1>3. FieldMap(t)[f] = ValueAt(t, c)
  BY DEF FieldMap
<1> QED BY <1>2, <1>3

\* ... and is unset elsewhere.
LEMMA FieldMapMiss ==
  ASSUME NEW t, NEW f \in Fields, \A p \in Starts(t) : t[p + 1] # f
  PROVE  FieldMap(t)[f] = <<>>
  BY DEF FieldMap

LEMMA FieldMapType ==
  ASSUME NEW t, Sound(t)
  PROVE  FieldMap(t) \in [Fields -> Values \cup {<<>>}]
<1>1. ASSUME NEW f \in Fields PROVE FieldMap(t)[f] \in Values \cup {<<>>}
  <2>1. CASE \E p \in Starts(t) : t[p + 1] = f
    BY <2>1, FieldMapHit DEF Sound
  <2>2. CASE \A p \in Starts(t) : t[p + 1] # f
    BY <2>2, FieldMapMiss
  <2> QED BY <2>1, <2>2
<1>2. FieldMap(t) = [f \in Fields |-> FieldMap(t)[f]]
  BY DEF FieldMap
<1> QED BY <1>1, <1>2

\* The place of field f: where it is, or the end when it is nowhere.
PlaceOf(t, p, f) ==
  \/ p \in Starts(t) /\ t[p + 1] = f
  \/ p = Len(t) /\ \A q \in Starts(t) : t[q + 1] # f

\* A write changes the map at one field and keeps the area sound.
LEMMA WriteField ==
  ASSUME NEW t, Sound(t), NEW f \in Fields, NEW v \in Values, NEW p, PlaceOf(t, p, f),
         2 + Len(v) <= SIZE_TLV_MAX - Len(t),
         NEW e, e = IF p < Len(t) THEN NextField(t, p) ELSE p
  PROVE  /\ Sound(Spliced(t, p, e, f, v))
         /\ FieldMap(Spliced(t, p, e, f, v)) = [FieldMap(t) EXCEPT ![f] = v]
<1> DEFINE u == Spliced(t, p, e, f, v)
           M(q) == Moved(p, e, Len(v), q)
           Others == Starts(t) \ {p}
<1>1. /\ t \in Areas /\ -1 \notin Starts(t) /\ WellFormed(t)
      /\ f \in Nat /\ v \in Seq(Nat) /\ Len(v) \in Nat
  BY FieldsAssumption, ValuesAssumption DEF Sound, WellFormed
<1>2. Place(t, p, e)
  BY DEF Place, PlaceOf
<1>3. /\ u \in Areas /\ Len(u) = Len(t) + (p + 2 + Len(v) - e) /\ -1 \notin Starts(u)
      /\ p \in Nat /\ e \in Nat /\ p <= e /\ e <= Len(t)
      /\ Starts(u) = {p} \cup {M(q) : q \in Others}
      /\ u[p + 1] = f /\ ValueAt(u, p) = v
      /\ \A q \in Others :
           u[M(q) + 1] = t[q + 1] /\ ValueAt(u, M(q)) = ValueAt(t, q)
  <2>1. Written(t, p, e, f, v, u)
    BY <1>1, <1>2, SplicedChain
  <2> QED BY <2>1 DEF Written
<1> HIDE DEF u, M
<1>4. ASSUME NEW q \in Others PROVE t[q + 1] # f
  BY <1>1 DEF PlaceOf, WellFormed
<1>5. Len(u) <= SIZE_TLV_MAX
  <2>1. Len(t) \in Nat
    BY <1>1 DEF Areas
  <2> QED BY <1>1, <1>3, <2>1, SizeAssumption, SMTT(20)
<1>6. ASSUME NEW r \in Starts(u), NEW s \in Starts(u), u[r + 1] = u[s + 1] PROVE r = s
  <2>1. CASE r = p
    <3>1. ASSUME NEW q \in Others, s = M(q) PROVE FALSE
      BY <3>1, <2>1, <1>6, <1>3, <1>4
    <3> QED BY <2>1, <3>1, <1>3
  <2>2. CASE s = p
    <3>1. ASSUME NEW q \in Others, r = M(q) PROVE FALSE
      BY <3>1, <2>2, <1>6, <1>3, <1>4
    <3> QED BY <2>2, <3>1, <1>3
  <2>3. ASSUME NEW q \in Others, NEW x \in Others, r = M(q), s = M(x) PROVE r = s
    <3>1. t[q + 1] = t[x + 1]
      BY <2>3, <1>6, <1>3
    <3>2. q = x
      BY <3>1, <1>1 DEF WellFormed
    <3> QED BY <3>2, <2>3
  <2> QED BY <2>1, <2>2, <2>3, <1>3
<1>7. WellFormed(u)
  BY <1>3, <1>5, <1>6 DEF WellFormed
<1>8. Sound(u)
  <2>1. ASSUME NEW r \in Starts(u) PROVE ValueAt(u, r) \in Values
    <3>1. ASSUME NEW q \in Others, r = M(q) PROVE ValueAt(u, r) \in Values
      BY <3>1, <1>3 DEF Sound
    <3> QED BY <3>1, <1>3
  <2> QED BY <2>1, <1>3, <1>7 DEF Sound
<1>9. ASSUME NEW g \in Fields PROVE FieldMap(u)[g] = [FieldMap(t) EXCEPT ![f] = v][g]
  <2>1. [FieldMap(t) EXCEPT ![f] = v][g] = IF g = f THEN v ELSE FieldMap(t)[g]
    BY DEF FieldMap
  <2>2. CASE g = f
    BY <2>1, <2>2, <1>3, <1>7, FieldMapHit
  <2>3. CASE g # f /\ \E q \in Starts(t) : t[q + 1] = g
    <3>1. PICK q \in Starts(t) : t[q + 1] = g
      BY <2>3
    <3>2. q \in Others
      BY <3>1, <2>3, <1>3, StartsProperties, <1>1 DEF PlaceOf
    <3>3. M(q) \in Starts(u) /\ u[M(q) + 1] = g /\ ValueAt(u, M(q)) = ValueAt(t, q)
      BY <3>1, <3>2, <1>3
    <3>4. FieldMap(u)[g] = ValueAt(u, M(q))
      BY <3>3, <1>7, FieldMapHit
    <3>5. FieldMap(t)[g] = ValueAt(t, q)
      BY <3>1, <1>1, FieldMapHit
    <3> QED BY <2>1, <2>3, <3>3, <3>4, <3>5
  <2>4. CASE g # f /\ \A q \in Starts(t) : t[q + 1] # g
    <3>1. ASSUME NEW r \in Starts(u) PROVE u[r + 1] # g
      BY <2>4, <1>3
    <3> QED BY <2>1, <2>4, <3>1, FieldMapMiss
  <2> QED BY <2>2, <2>3, <2>4
<1>10. FieldMap(u) = [FieldMap(t) EXCEPT ![f] = v]
  <2>1. FieldMap(u) = [g \in Fields |-> FieldMap(u)[g]]
    BY DEF FieldMap
  <2>2. [FieldMap(t) EXCEPT ![f] = v] = [g \in Fields |-> [FieldMap(t) EXCEPT ![f] = v][g]]
    BY DEF FieldMap
  <2> QED BY <2>1, <2>2, <1>9
<1> QED BY <1>8, <1>10 DEF u

-----------------------------------------------------------------------------
(***************************************************************************)
(* The invariants of the store.                                            *)
(***************************************************************************)
Crcs    == Seq(Nat) \cup {NoCrc}
Buffers == [magic : BOOLEAN, tlv : Areas, crc : Crcs]
Items   == [kind : {"absent", "short", "full"}, magic : BOOLEAN, tlv : Areas, crc : Crcs]

TypeInv == TypeOK /\ buffer \in Buffers /\ flash \in Items

\* The working copy and the item are sound at every step.
SoundInv == Sound(buffer.tlv) /\ Sound(flash.tlv)

\* find_field is at the start of a field, and none before it is the one it looks for.
SearchInv ==
  /\ pc = "find" =>
       /\ pos \in Starts(tlv) \cup {tlv_length}
       /\ \A q \in Starts(tlv) : q < pos => tlv[q + 1] # call.field
  /\ pc \in {"read_value", "insert"} => pos \in Starts(tlv) /\ tlv[pos + 1] = call.field
  /\ pc = "append" => \A q \in Starts(tlv) : tlv[q + 1] # call.field
  /\ pc = "read_value" => call.op = "read"
  /\ pc \in {"insert", "append"} => call.op = "write"
  /\ pc \in {"find", "insert", "append"} /\ call.op = "write" => Fits(call.value)

\* The item is the buffer, but where a change is still to be stored or could not be.
StoredInv ==
  /\ flash.kind # "full" => flash.tlv = <<>>
  /\ flash.kind = "full" /\ flash \notin DamagedItems => flash.crc = flash.tlv
  /\ pc = "nvs_write" => buffer.crc = buffer.tlv
  /\ pc \in {"boot_reread", "reread"} => flash.kind = "full"
  /\ /\ pc \in {"ready", "find", "read_value", "insert", "append", "boot_check"}
     /\ flash.kind = "full" /\ tlvSet /\ ~failed
     => Item(buffer) = flash

Inv == TypeInv /\ SoundInv /\ SearchInv /\ StoredInv

LEMMA EmptyIsSound == Sound(<<>>) /\ Starts(<<>>) = {}
<1>1. <<>> \in Areas /\ Len(<<>>) = 0
  BY DEF Areas
<1>2. Chain(<<>>, 0, {0})
  BY <1>1 DEF Chain
<1>3. Starts(<<>>) = {}
  BY <1>1, <1>2, StartsOfChain
<1> QED BY <1>1, <1>3, SizeAssumption DEF Sound, WellFormed

LEMMA DamagedIsSound ==
  ASSUME NEW item \in DamagedItems
  PROVE  item \in Items /\ item.kind = "full" /\ Sound(item.tlv)
  BY DamageAssumption DEF Items, Crcs, Areas, Sound

\* read_buffer copies a whole item and takes no more than the magic from a short one.
LEMMA Reading ==
  ASSUME buffer \in Buffers, flash \in Items, ReadBuffer
  PROVE  /\ buffer' \in Buffers
         /\ flash.kind = "full" => Item(buffer') = flash /\ buffer'.tlv = flash.tlv
         /\ flash.kind # "full" => buffer'.tlv = buffer.tlv
<1>1. CASE flash.kind = "short"
  BY <1>1 DEF ReadBuffer, Buffers, Items
<1>2. CASE flash.kind # "short"
  <2>1. flash.kind = "full"
    BY <1>2 DEF ReadBuffer, Items
  <2>2. buffer' = [magic |-> flash.magic, tlv |-> flash.tlv, crc |-> flash.crc]
    BY <1>2 DEF ReadBuffer
  <2>3. flash = [kind |-> "full", magic |-> flash.magic, tlv |-> flash.tlv, crc |-> flash.crc]
    BY <2>1 DEF Items
  <2> QED BY <2>1, <2>2, <2>3 DEF Item, Buffers, Items
<1> QED BY <1>1, <1>2

\* insert_value and append_value are writes in the place of the field.
LEMMA InsertSplices ==
  ASSUME Inv, pc = "insert"
  PROVE  /\ Sound(Replaced)
         /\ FieldMap(Replaced) = [FieldMap(tlv) EXCEPT ![call.field] = call.value]
<1> DEFINE t == tlv
           f == call.field
           v == call.value
           e == NextField(t, pos)
<1>1. Sound(t) /\ f \in Fields /\ v \in Values
  BY DEF Inv, SoundInv, TypeInv, TypeOK, tlv
<1>2. PlaceOf(t, pos, f) /\ 2 + Len(v) <= SIZE_TLV_MAX - Len(t)
  BY DEF Inv, SearchInv, TypeInv, TypeOK, PlaceOf, Fits, tlv_length
<1>3. pos \in Nat /\ pos < Len(t) /\ t[pos + 2] \in Nat
  BY <1>1, StartsProperties DEF Inv, SearchInv, Sound, WellFormed
<1>4. Replaced = Spliced(t, pos, e, f, v)
  <2>1. Data(pos + 1) = t[pos + 2] /\ pos + 2 + Data(pos + 1) + 1 = e + 1
    BY <1>3 DEF Data, NextField
  <2> QED BY <2>1 DEF Replaced, Spliced, tlv_length
<1> HIDE DEF e, t
<1>5. e = IF pos < Len(t) THEN NextField(t, pos) ELSE pos
  BY <1>3 DEF e
<1>6. /\ Sound(Spliced(t, pos, e, f, v))
      /\ FieldMap(Spliced(t, pos, e, f, v)) = [FieldMap(t) EXCEPT ![f] = v]
  BY ONLY <1>1, <1>2, <1>5, WriteField
<1> QED BY <1>4, <1>6 DEF t

LEMMA AppendSplices ==
  ASSUME Inv, pc = "append"
  PROVE  /\ Sound(tlv \o Bytes(call.field, call.value))
         /\ FieldMap(tlv \o Bytes(call.field, call.value))
              = [FieldMap(tlv) EXCEPT ![call.field] = call.value]
<1> DEFINE t == tlv
           f == call.field
           v == call.value
           n == Len(t)
<1>1. Sound(t) /\ f \in Fields /\ v \in Values
  BY DEF Inv, SoundInv, TypeInv, TypeOK, tlv
<1>2. PlaceOf(t, n, f) /\ 2 + Len(v) <= SIZE_TLV_MAX - Len(t)
  BY DEF Inv, SearchInv, TypeInv, TypeOK, PlaceOf, Fits, tlv_length
<1>3. t \in Seq(Nat) /\ n \in Nat /\ Bytes(f, v) \in Seq(Nat)
  <2>1. f \in Nat /\ v \in Seq(Nat) /\ t \in Seq(Nat)
    BY <1>1, FieldsAssumption, ValuesAssumption DEF Sound, Areas
  <2>2. Bytes(f, v) \in Areas
    BY <2>1, BytesProperties
  <2> QED BY <2>1, <2>2 DEF Areas
<1>4. t \o Bytes(f, v) = Spliced(t, n, n, f, v)
  <2> HIDE DEF t
  <2>1. SubSeq(t, 1, n) = t
    BY <1>3, SubSeqFull
  <2>2. SubSeq(t, n + 1, n) = <<>>
    BY <1>3, SubSeqEmpty
  <2>3. t \o Bytes(f, v) \in Seq(Nat)
    BY <1>3, ConcatProperties
  <2>4. (t \o Bytes(f, v)) \o <<>> = t \o Bytes(f, v)
    BY <2>3, ConcatEmptySeq
  <2> QED BY <2>1, <2>2, <2>4 DEF Spliced
<1> HIDE DEF t
<1>5. n = IF n < Len(t) THEN NextField(t, n) ELSE n
  BY <1>3
<1>6. /\ Sound(Spliced(t, n, n, f, v))
      /\ FieldMap(Spliced(t, n, n, f, v)) = [FieldMap(t) EXCEPT ![f] = v]
  BY ONLY <1>1, <1>2, <1>5, WriteField
<1> QED BY <1>4, <1>6 DEF t


-----------------------------------------------------------------------------
\* The positions stay in the TLV area and every variable in its type.
LEMMA TypeStep == Inv /\ [Next]_vars => TypeInv'
<1> SUFFICES ASSUME Inv, [Next]_vars PROVE TypeInv'
  OBVIOUS
<1> DEFINE Typed ==
      /\ buffer \in Buffers /\ flash \in Items /\ tlvSet \in BOOLEAN /\ pc \in Pcs
      /\ call \in [op : {"read", "write"}, field : Fields, value : Values]
      /\ pos \in 0 .. SIZE_TLV_MAX /\ result \in Results /\ failed \in BOOLEAN
<1>a. TypeInv <=> Typed
  BY DEF TypeInv, TypeOK, Buffers, Items, Areas
<1>b. Typed' => TypeInv'
  BY DEF TypeInv, TypeOK, Buffers, Items, Areas
<1> SUFFICES Typed'
  BY <1>b
<1>0. /\ Typed /\ Sound(tlv) /\ tlv = buffer.tlv /\ Len(tlv) \in Nat /\ Len(tlv) <= SIZE_TLV_MAX
      /\ 0 \in 0 .. SIZE_TLV_MAX
  BY <1>a, SizeAssumption DEF Inv, SoundInv, Sound, WellFormed, Areas, tlv
<1>1. buffer \in Buffers /\ flash \in Items
  BY <1>0
<1>2. ASSUME NEW b \in Buffers PROVE Item(b) \in Items
  BY <1>2 DEF Item, Items, Buffers
<1>3. ASSUME NEW b \in Buffers, NEW t \in Areas PROVE WithCrc([b EXCEPT !.tlv = t]) \in Buffers
  BY <1>3 DEF WithCrc, Buffers, Crcs, Areas
<1>4. CASE Boot
  <2>1. CASE FlashInit
    <3>1. ASSUME NEW m \in BOOLEAN PROVE ShortItem(m) \in Items
      BY DEF ShortItem, Items, Areas, Crcs
    <3> QED BY <2>1, <3>1, <1>0, <1>1 DEF FlashInit, Pcs, Items
  <2>2. CASE BootRead
    BY <2>2, <1>0, <1>1, Reading DEF BootRead, Pcs, Buffers
  <2>3. CASE BootCheck
    BY <2>3, <1>0, <1>1 DEF BootCheck, Pcs
  <2>4. CASE WriteDefaults
    <3>1. buffer' \in Buffers
      BY <2>4, <1>0, <1>1 DEF WriteDefaults, WithCrc, Buffers, Crcs, Areas
    <3> QED BY <2>4, <3>1, <1>0, <1>1, <1>2 DEF WriteDefaults, Pcs, Items, Buffers
  <2>5. CASE BootReread
    BY <2>5, <1>0, <1>1, Reading DEF BootReread, Pcs, Buffers
  <2> QED BY <1>4, <2>1, <2>2, <2>3, <2>4, <2>5 DEF Boot
<1>5. CASE Restart
  <2>1. Zeroed \in Buffers
    BY DEF Zeroed, Buffers, Areas, Crcs
  <2> QED BY <1>5, <2>1, <1>0 DEF Restart, Pcs, Buffers, Results
<1>6. CASE Find
  <2>1. CASE FindNext
    <3>1. pos \in Starts(tlv)
      BY <2>1, <1>0 DEF FindNext, Inv, SearchInv, tlv_length
    <3>2. pos' = NextField(tlv, pos) /\ NextField(tlv, pos) \in 0 .. SIZE_TLV_MAX
      <4>1. pos \in Nat /\ pos + 1 < NextField(tlv, pos) /\ NextField(tlv, pos) <= Len(tlv)
        /\ tlv[pos + 2] \in Nat
        BY <3>1, <1>0, StartsProperties DEF Sound, WellFormed
      <4>2. pos' = NextField(tlv, pos)
        BY <2>1, <4>1 DEF FindNext, Data, NextField
      <4>3. NextField(tlv, pos) \in Nat
        BY <4>1 DEF NextField
      <4> QED BY <4>1, <4>2, <4>3, <1>0, SizeAssumption
    <3> QED BY <2>1, <3>2, <1>0, <1>1 DEF FindNext
  <2>2. CASE FindHit
    BY <2>2, <1>0, <1>1 DEF FindHit, Pcs
  <2>3. CASE FindMiss
    BY <2>3, <1>0, <1>1 DEF FindMiss, Return, Pcs, Results
  <2> QED BY <1>6, <2>1, <2>2, <2>3 DEF Find
<1>7. CASE Write
  <2>1. CASE WriteRefused \/ CallWrite
    BY <2>1, <1>0, <1>1 DEF WriteRefused, CallWrite, Return, Pcs, Results
  <2>2. CASE InsertValue
    <3>1. Replaced \in Areas
      BY <2>2, InsertSplices DEF InsertValue, Sound
    <3>2. buffer' \in Buffers
      BY <2>2, <3>1, <1>0, <1>1, <1>3 DEF InsertValue
    <3> QED BY <2>2, <3>2, <1>0, <1>1 DEF InsertValue, Pcs, Buffers
  <2>3. CASE AppendValue
    <3>1. tlv \o Bytes(call.field, call.value) \in Areas
      BY <2>3, AppendSplices DEF AppendValue, Sound
    <3>2. buffer' \in Buffers
      BY <2>3, <3>1, <1>0, <1>1, <1>3 DEF AppendValue
    <3> QED BY <2>3, <3>2, <1>0, <1>1 DEF AppendValue, Pcs, Buffers
  <2>4. CASE NvsWrite
    BY <2>4, <1>0, <1>1, <1>2 DEF NvsWrite, Pcs, Items
  <2>5. CASE NvsWriteFails
    BY <2>5, <1>0, <1>1 DEF NvsWriteFails, Return, Pcs, Results
  <2>6. CASE Reread
    BY <2>6, <1>0, <1>1, Reading DEF Reread, Return, Pcs, Results, Buffers
  <2> QED BY <1>7, <2>1, <2>2, <2>3, <2>4, <2>5, <2>6 DEF Write
<1>8. CASE Read
  BY <1>8, <1>0, <1>1 DEF Read, CallRead, ReadValue, Return, Pcs, Results
<1>9. CASE ConfigErase \/ ConfigRefresh
  <2>1. CASE ConfigErase
    <3>1. Absent \in Items
      BY DEF Absent, Items, Areas, Crcs
    <3> QED BY <2>1, <3>1, <1>0, <1>1 DEF ConfigErase, Results, Items
  <2>2. CASE ConfigRefresh
    BY <2>2, <1>0, <1>1, Reading DEF ConfigRefresh, Results, Buffers
  <2> QED BY <1>9, <2>1, <2>2
<1>10. CASE UNCHANGED vars
  BY <1>0, <1>10 DEF vars
<1> QED BY <1>4, <1>5, <1>6, <1>7, <1>8, <1>9, <1>10 DEF Next


\* Every value that reaches the buffer or the item has a sound chain.
LEMMA SoundStep == Inv /\ [Next]_vars => SoundInv'
<1> SUFFICES ASSUME Inv, [Next]_vars PROVE SoundInv'
  OBVIOUS
<1>1. /\ buffer \in Buffers /\ flash \in Items
      /\ Sound(buffer.tlv) /\ Sound(flash.tlv) /\ Sound(<<>>)
  BY EmptyIsSound DEF Inv, TypeInv, SoundInv
<1>2. SoundInv' <=> Sound(buffer'.tlv) /\ Sound(flash'.tlv)
  BY DEF SoundInv
<1>3. ReadBuffer => Sound(buffer'.tlv)
  BY <1>1, Reading
<1>4. ASSUME NEW b \in Buffers PROVE Item(b).tlv = b.tlv
  BY <1>4 DEF Item
<1>5. ASSUME NEW b \in Buffers, NEW t PROVE WithCrc([b EXCEPT !.tlv = t]).tlv = t
  BY <1>5 DEF WithCrc, Buffers
<1>6. CASE Boot
  <2>1. CASE FlashInit
    BY <2>1, <1>1, <1>2 DEF FlashInit, ShortItem
  <2>2. CASE BootRead \/ BootReread
    BY <2>2, <1>1, <1>2, <1>3 DEF BootRead, BootReread
  <2>3. CASE BootCheck
    BY <2>3, <1>1, <1>2 DEF BootCheck
  <2>4. CASE WriteDefaults
    <3>1. buffer'.tlv = buffer.tlv
      BY <2>4, <1>1 DEF WriteDefaults, WithCrc, Buffers
    <3>2. flash'.tlv = flash.tlv \/ flash'.tlv = buffer'.tlv
      BY <2>4 DEF WriteDefaults, Item
    <3> QED BY <3>1, <3>2, <1>1, <1>2
  <2> QED BY <1>6, <2>1, <2>2, <2>3, <2>4 DEF Boot
<1>7. CASE Restart
  BY <1>7, <1>1, <1>2 DEF Restart, Zeroed
<1>8. CASE Find \/ Read
  BY <1>8, <1>1, <1>2 DEF Find, FindNext, FindHit, FindMiss, Read, CallRead, ReadValue
<1>9. CASE Write
  <2>1. CASE WriteRefused \/ CallWrite \/ NvsWriteFails
    BY <2>1, <1>1, <1>2 DEF WriteRefused, CallWrite, NvsWriteFails
  <2>2. CASE InsertValue
    <3>1. buffer'.tlv = Replaced
      BY <2>2, <1>1, <1>5 DEF InsertValue
    <3> QED BY <2>2, <3>1, <1>1, <1>2, InsertSplices DEF InsertValue
  <2>3. CASE AppendValue
    <3>1. UNCHANGED buffer \/ buffer'.tlv = tlv \o Bytes(call.field, call.value)
      BY <2>3, <1>1, <1>5 DEF AppendValue
    <3> QED BY <2>3, <3>1, <1>1, <1>2, AppendSplices DEF AppendValue
  <2>4. CASE NvsWrite
    BY <2>4, <1>1, <1>2, <1>4 DEF NvsWrite
  <2>5. CASE Reread
    BY <2>5, <1>1, <1>2, <1>3 DEF Reread
  <2> QED BY <1>9, <2>1, <2>2, <2>3, <2>4, <2>5 DEF Write
<1>10. CASE ConfigErase
  BY <1>10, <1>1, <1>2 DEF ConfigErase, Absent
<1>11. CASE ConfigRefresh
  BY <1>11, <1>1, <1>2, <1>3 DEF ConfigRefresh
<1>12. CASE UNCHANGED vars
  BY <1>1, <1>2, <1>12 DEF vars
<1> QED BY <1>6, <1>7, <1>8, <1>9, <1>10, <1>11, <1>12 DEF Next

\* find_field steps over whole fields and never over the one it looks for.
LEMMA SearchStep == Inv /\ [Next]_vars => SearchInv'
<1> SUFFICES ASSUME Inv, [Next]_vars PROVE SearchInv'
  OBVIOUS
<1> USE DEF SearchInv
<1>1. /\ SearchInv /\ tlv \in Areas /\ -1 \notin Starts(tlv)
  BY DEF Inv, SoundInv, Sound, WellFormed, tlv
<1>2. 0 \in Starts(tlv) \cup {tlv_length} /\ \A q \in Starts(tlv) : ~(q < 0)
  BY <1>1, StartsProperties DEF tlv_length
<1>3. CASE Boot
  BY <1>3 DEF Boot, FlashInit, BootRead, BootCheck, WriteDefaults, BootReread
<1>4. CASE Restart
  BY <1>4 DEF Restart
<1>5. CASE Find
  <2>0. UNCHANGED <<buffer, call>>
    BY <1>5 DEF Find, FindNext, FindHit, FindMiss
  <2>1. CASE FindNext
    <3>1. pos \in Starts(tlv)
      BY <2>1, <1>1 DEF FindNext, tlv_length
    <3>2. /\ pos \in Nat /\ tlv[pos + 2] \in Nat
          /\ NextField(tlv, pos) \in Starts(tlv) \cup {Len(tlv)}
          /\ \A q \in Starts(tlv) \cup {Len(tlv)} : q <= pos \/ NextField(tlv, pos) <= q
          /\ \A q \in Starts(tlv) : q \in Nat
      BY <3>1, <1>1, StartsProperties
    <3>3. pos' = NextField(tlv, pos)
      BY <2>1, <3>2 DEF FindNext, Data, NextField
    <3>4. NextField(tlv, pos) \in Nat
      BY <3>2 DEF NextField
    <3>5. ASSUME NEW q \in Starts(tlv), q < NextField(tlv, pos) PROVE tlv[q + 1] # call.field
      <4>1. q <= pos
        BY <3>2, <3>4, <3>5
      <4>2. CASE q = pos
        BY <2>1, <4>2 DEF FindNext, Data
      <4>3. CASE q < pos
        BY <2>1, <4>3, <1>1 DEF FindNext
      <4> QED BY <3>2, <4>1, <4>2, <4>3
    <3> QED BY <2>0, <2>1, <3>2, <3>3, <3>5, <1>1 DEF FindNext, tlv, tlv_length, Fits
  <2>2. CASE FindHit
    <3>1. pos \in Starts(tlv)
      BY <2>2, <1>1 DEF FindHit, tlv_length
    <3>2. call.op = "read" \/ call.op = "write"
      BY DEF Inv, TypeInv, TypeOK
    <3> QED BY <2>0, <2>2, <3>1, <3>2, <1>1 DEF FindHit, Data, tlv, tlv_length, Fits
  <2>3. CASE FindMiss
    <3>1. ASSUME NEW q \in Starts(tlv) PROVE tlv[q + 1] # call.field
      <4>1. q \in Nat /\ q + 1 < Len(tlv) /\ Len(tlv) \in Nat
        BY <1>1, StartsProperties
      <4>2. pos \in Nat /\ pos >= Len(tlv)
        BY <2>3 DEF FindMiss, tlv_length, Inv, TypeInv, TypeOK
      <4> QED BY <2>3, <4>1, <4>2, <1>1 DEF FindMiss
    <3>2. call.op = "read" \/ call.op = "write"
      BY DEF Inv, TypeInv, TypeOK
    <3> QED BY <2>0, <2>3, <3>1, <3>2, <1>1 DEF FindMiss, Return, tlv, tlv_length, Fits
  <2> QED BY <1>5, <2>1, <2>2, <2>3 DEF Find
<1>6. CASE Write
  <2>1. CASE CallWrite
    <3>1. /\ UNCHANGED buffer /\ pos' = 0 /\ pc' = "find"
          /\ call'.op = "write" /\ Fits(call'.value)
      BY <2>1 DEF CallWrite
    <3> QED BY <3>1, <1>2 DEF tlv, tlv_length, Fits
  <2>2. CASE WriteRefused \/ NvsWriteFails \/ Reread
    BY <2>2 DEF WriteRefused, NvsWriteFails, Reread, Return
  <2>3. CASE InsertValue \/ AppendValue \/ NvsWrite
    BY <2>3 DEF InsertValue, AppendValue, NvsWrite
  <2> QED BY <1>6, <2>1, <2>2, <2>3 DEF Write
<1>7. CASE Read
  <2>1. CASE CallRead
    <3>1. UNCHANGED buffer /\ pos' = 0 /\ pc' = "find" /\ call'.op = "read"
      BY <2>1 DEF CallRead
    <3> QED BY <3>1, <1>2 DEF tlv, tlv_length, Fits
  <2>2. CASE ReadValue
    BY <2>2 DEF ReadValue, Return
  <2> QED BY <1>7, <2>1, <2>2 DEF Read
<1>8. CASE ConfigErase \/ ConfigRefresh
  BY <1>8 DEF ConfigErase, ConfigRefresh
<1>9. CASE UNCHANGED vars
  BY <1>9, <1>1 DEF vars, tlv, tlv_length, Fits
<1> QED BY <1>3, <1>4, <1>5, <1>6, <1>7, <1>8, <1>9 DEF Next

\* The item is written with the CRC of its own contents, and read back.
LEMMA StoredStep == Inv /\ [Next]_vars => StoredInv'
<1> SUFFICES ASSUME Inv, [Next]_vars PROVE StoredInv'
  OBVIOUS
<1> USE DEF StoredInv
<1>1. StoredInv /\ buffer \in Buffers /\ flash \in Items
  BY DEF Inv, TypeInv
<1>2. ReadBuffer => (flash.kind = "full" => Item(buffer') = flash)
  BY <1>1, Reading
<1>3. ASSUME NEW b PROVE Item(b).kind = "full" /\ Item(b).crc = b.crc /\ Item(b).tlv = b.tlv
  BY DEF Item
<1>4. CASE Boot
  <2>1. CASE FlashInit
    BY <2>1, <1>1 DEF FlashInit, ShortItem
  <2>2. CASE BootRead \/ BootReread
    BY <2>2, <1>1, <1>2 DEF BootRead, BootReread
  <2>3. CASE BootCheck
    BY <2>3, <1>1 DEF BootCheck
  <2>4. CASE WriteDefaults
    <3>1. buffer'.crc = buffer'.tlv
      BY <2>4, <1>1 DEF WriteDefaults, WithCrc, Buffers
    <3> QED BY <2>4, <3>1, <1>1, <1>3 DEF WriteDefaults
  <2> QED BY <1>4, <2>1, <2>2, <2>3, <2>4 DEF Boot
<1>5. CASE Restart
  BY <1>5, <1>1 DEF Restart
<1>6. CASE Find \/ Read
  BY <1>6, <1>1 DEF Find, FindNext, FindHit, FindMiss, Read, CallRead, ReadValue, Return
<1>7. CASE Write
  <2>1. CASE WriteRefused \/ CallWrite \/ NvsWriteFails
    BY <2>1, <1>1 DEF WriteRefused, CallWrite, NvsWriteFails, Return
  <2>2. CASE InsertValue \/ AppendValue
    <3>1. pc' = "nvs_write" => buffer'.crc = buffer'.tlv
      BY <2>2, <1>1 DEF InsertValue, AppendValue, WithCrc, Buffers
    <3> QED BY <2>2, <3>1, <1>1 DEF InsertValue, AppendValue
  <2>3. CASE NvsWrite
    BY <2>3, <1>1, <1>3 DEF NvsWrite
  <2>4. CASE Reread
    BY <2>4, <1>1, <1>2 DEF Reread, Return
  <2> QED BY <1>7, <2>1, <2>2, <2>3, <2>4 DEF Write
<1>8. CASE ConfigErase
  BY <1>8, <1>1 DEF ConfigErase, Absent
<1>9. CASE ConfigRefresh
  BY <1>9, <1>1, <1>2 DEF ConfigRefresh
<1>10. CASE UNCHANGED vars
  BY <1>10, <1>1 DEF vars
<1> QED BY <1>4, <1>5, <1>6, <1>7, <1>8, <1>9, <1>10 DEF Next

LEMMA Initially == Init => Inv
<1> SUFFICES ASSUME Init PROVE Inv
  OBVIOUS
<1>1. Zeroed \in Buffers /\ Zeroed.tlv = <<>> /\ Absent \in Items /\ Absent.tlv = <<>>
  BY DEF Zeroed, Absent, Buffers, Items, Areas, Crcs
<1>2. flash \in Items /\ Sound(flash.tlv)
  BY <1>1, EmptyIsSound, DamagedIsSound DEF Init
<1>3. TypeInv
  <2>1. buffer \in Buffers /\ flash \in Items
    BY <1>1, <1>2 DEF Init
  <2>2. call \in [op : {"read", "write"}, field : Fields, value : Values]
    BY DEF Init
  <2>3. pos \in 0 .. SIZE_TLV_MAX
    BY SizeAssumption DEF Init
  <2>4. pc \in Pcs /\ result \in Results /\ tlvSet \in BOOLEAN /\ failed \in BOOLEAN
    BY DEF Init, Pcs, Results
  <2> QED BY <2>1, <2>2, <2>3, <2>4 DEF TypeInv, TypeOK, Buffers, Items, Areas
<1>4. SoundInv
  BY <1>1, <1>2, EmptyIsSound DEF Init, SoundInv
<1>5. StoredInv
  BY <1>1, DamagedIsSound DEF Init, StoredInv, Absent
<1>6. SearchInv
  BY DEF Init, SearchInv
<1> QED BY <1>3, <1>4, <1>5, <1>6 DEF Inv

LEMMA Invariant == Spec => []Inv
<1>1. Inv /\ [Next]_vars => Inv'
  BY TypeStep, SoundStep, SearchStep, StoredStep DEF Inv
<1> QED BY <1>1, Initially, PTL DEF Spec

-----------------------------------------------------------------------------
\* Type correctness of the store.
THEOREM TypeCorrect == Spec => []TypeOK
<1>1. Inv => TypeOK
  BY DEF Inv, TypeInv
<1> QED BY <1>1, Invariant, PTL

\* However fields of different sizes replace each other, the TLV areas of the buffer and of
\* the item stay chains of whole fields, none of them twice.
THEOREM ChainsStayWellFormed == Spec => []ChainWellFormed
<1>1. Inv => ChainWellFormed
  BY DEF Inv, SoundInv, Sound, ChainWellFormed
<1> QED BY <1>1, Invariant, PTL

\* The item passes check_crc whatever a restart or a failing write has cut short, and
\* between calls it is the buffer unless a write has failed.
THEOREM FlashStaysConsistent == Spec => []FlashConsistent
<1>1. Inv => FlashConsistent
  BY DEF Inv, StoredInv, FlashConsistent
<1> QED BY <1>1, Invariant, PTL


\* A read finds the field exactly when it is there, and returns its own bytes.
THEOREM ReadsReturnTheField == Spec => ReadReturnsField
<1>1. ASSUME Inv, [Next]_vars, pc' = "ready", pc \in {"find", "read_value"}
      PROVE  LET value == FieldMap(tlv)[call.field]
             IN  /\ (result' = "not_found") <=> (value = <<>>)
                 /\ result' = "ok" => SubSeq(tlv, pos + 3, pos + 2 + Size) = value
  <2> DEFINE value == FieldMap(tlv)[call.field]
  <2>0. /\ tlv \in Areas /\ WellFormed(tlv) /\ -1 \notin Starts(tlv)
        /\ call.field \in Fields /\ <<>> \notin Values
        /\ \A p \in Starts(tlv) : ValueAt(tlv, p) \in Values
    BY <1>1, ValuesAssumption DEF Inv, SoundInv, Sound, WellFormed, TypeInv, TypeOK, tlv
  <2>1. FindMiss \/ ReadValue
    BY <1>1 DEF Next, Boot, FlashInit, BootRead, BootCheck, WriteDefaults, BootReread, Restart,
       Find, FindNext, FindHit, Write, WriteRefused, CallWrite, InsertValue, AppendValue, NvsWrite,
       NvsWriteFails, Reread, Read, CallRead, ConfigErase, ConfigRefresh, vars
  <2>2. CASE FindMiss
    <3>1. result' = "not_found"
      BY <2>2, <1>1 DEF FindMiss, Return
    <3>2. ASSUME NEW q \in Starts(tlv) PROVE tlv[q + 1] # call.field
      <4>1. q \in Nat /\ q + 1 < Len(tlv) /\ Len(tlv) \in Nat
        BY <2>0, StartsProperties
      <4>2. pos \in Nat /\ pos >= Len(tlv) /\ pc = "find"
        BY <2>2, <1>1 DEF FindMiss, tlv_length, Inv, TypeInv, TypeOK
      <4> QED BY <4>1, <4>2, <1>1 DEF Inv, SearchInv
    <3>3. value = <<>>
      BY <2>0, <3>2, FieldMapMiss
    <3> QED BY <3>1, <3>3
  <2>3. CASE ReadValue
    <3>1. pos \in Starts(tlv) /\ tlv[pos + 1] = call.field
      BY <2>3, <1>1 DEF ReadValue, Inv, SearchInv
    <3>2. value = ValueAt(tlv, pos)
      BY <2>0, <3>1, FieldMapHit
    <3>3. value # <<>>
      BY <2>0, <3>1, <3>2
    <3>4. pos \in Nat /\ tlv[pos + 2] \in Nat
      BY <2>0, <3>1, StartsProperties
    <3>5. result' \in {"too_long", "size_mismatch", "ok"} /\ (result' = "ok" => Size = tlv[pos + 2])
      BY <2>3, <3>4 DEF ReadValue, Return, Data
    <3>6. result' = "ok" => SubSeq(tlv, pos + 3, pos + 2 + Size) = value
      BY <3>2, <3>5 DEF ValueAt
    <3> QED BY <3>3, <3>5, <3>6
  <2> QED BY <2>1, <2>2, <2>3
<1>2. Inv /\ [Next]_vars =>
        [pc' = "ready" /\ pc \in {"find", "read_value"} =>
           LET value == FieldMap(tlv)[call.field]
           IN  /\ (result' = "not_found") <=> (value = <<>>)
               /\ result' = "ok" => SubSeq(tlv, pos + 3, pos + 2 + Size) = value]_vars
  BY <1>1
<1> QED BY <1>2, Invariant, PTL DEF ReadReturnsField, Spec

-----------------------------------------------------------------------------
(***************************************************************************)
(* The store implements the map.                                           *)
(***************************************************************************)
LEMMA EmptyMap == FieldMap(<<>>) = Map!Empty
  BY EmptyIsSound DEF FieldMap, Map!Empty

LEMMA MapInit == Init => Map!Init
<1> SUFFICES ASSUME Init PROVE Map!Init
  OBVIOUS
<1>1. FieldMap(buffer.tlv) = Map!Empty
  BY EmptyMap DEF Init, Zeroed
<1>2. FieldMap(flash.tlv) \in Map!Maps
  BY Initially, FieldMapType DEF Inv, SoundInv, Map!Maps
<1>3. ~(pc \in {"nvs_write", "boot_defaults"})
  BY DEF Init
<1> QED BY <1>1, <1>2, <1>3 DEF Map!Init

\* Each step of the store is a step of the map or leaves the map alone.
LEMMA MapStep == Inv /\ [Next]_vars => [Map!Next]_Map!vars
<1> SUFFICES ASSUME Inv, [Next]_vars PROVE [Map!Next]_Map!vars
  OBVIOUS
<1> DEFINE ram == FieldMap(buffer.tlv)
           nvs == [present |-> flash.kind = "full", map |-> FieldMap(flash.tlv)]
           pending == pc \in {"nvs_write", "boot_defaults"}
<1>1. /\ buffer \in Buffers /\ flash \in Items /\ StoredInv
      /\ call \in [op : {"read", "write"}, field : Fields, value : Values]
  BY DEF Inv, TypeInv, TypeOK
<1>2. ASSUME UNCHANGED <<buffer, flash>>, pending' = pending PROVE UNCHANGED Map!vars
  BY <1>2 DEF Map!vars
<1>3. ASSUME ReadBuffer, UNCHANGED flash, ~pending, ~pending' PROVE [Map!Next]_Map!vars
  <2>1. CASE flash.kind = "full"
    <3>1. buffer'.tlv = flash.tlv
      BY <1>1, <1>3, <2>1, Reading
    <3>2. nvs.present /\ nvs.map = FieldMap(flash.tlv)
      BY <2>1
    <3>3. ram' = nvs.map /\ UNCHANGED <<nvs, pending>>
      BY <1>3, <3>1, <3>2
    <3>4. Map!Load
      BY <1>3, <3>2, <3>3 DEF Map!Load
    <3> QED BY <3>4 DEF Map!Next
  <2>2. CASE flash.kind # "full"
    <3>1. buffer'.tlv = buffer.tlv
      BY <1>1, <1>3, <2>2, Reading
    <3> QED BY <1>3, <3>1 DEF Map!vars
  <2> QED BY <2>1, <2>2
<1>4. CASE Boot
  <2>1. CASE FlashInit
    <3>1. UNCHANGED buffer /\ ~pending /\ ~pending' /\ flash'.tlv = flash.tlv
      BY <2>1, <1>1 DEF FlashInit, ShortItem, StoredInv
    <3>2. (flash'.kind = "full") = (flash.kind = "full")
      BY <2>1 DEF FlashInit, ShortItem
    <3> QED BY <3>1, <3>2 DEF Map!vars
  <2>2. CASE BootRead \/ BootReread
    BY <2>2, <1>3 DEF BootRead, BootReread
  <2>3. CASE BootCheck
    <3>1. CASE pc' = "ready"
      BY <2>3, <3>1, <1>2 DEF BootCheck
    <3>2. CASE pc' = "boot_defaults"
      <4>1. Map!Defaults
        BY <2>3, <3>2 DEF BootCheck, Map!Defaults
      <4> QED BY <4>1 DEF Map!Next
    <3> QED BY <2>3, <3>1, <3>2 DEF BootCheck
  <2>4. CASE WriteDefaults
    <3>1. buffer'.tlv = buffer.tlv
      BY <2>4, <1>1 DEF WriteDefaults, WithCrc, Buffers
    <3>2. CASE flash' = Item(buffer') /\ pc' = "boot_reread"
      <4>1. nvs' = [present |-> TRUE, map |-> ram]
        <5>1. (flash'.kind = "full") = TRUE /\ flash'.tlv = buffer.tlv
          BY <3>1, <3>2 DEF Item
        <5> QED BY <5>1
      <4>2. Map!Store
        BY <2>4, <3>1, <3>2, <4>1 DEF WriteDefaults, Map!Store
      <4> QED BY <4>2 DEF Map!Next
    <3>3. CASE UNCHANGED flash /\ pc' = "ready"
      <4>1. Map!StoreFails
        BY <2>4, <3>1, <3>3 DEF WriteDefaults, Map!StoreFails
      <4> QED BY <4>1 DEF Map!Next
    <3> QED BY <2>4, <3>2, <3>3 DEF WriteDefaults
  <2> QED BY <1>4, <2>1, <2>2, <2>3, <2>4 DEF Boot
<1>5. CASE Restart
  <2>1. Map!Restart
    BY <1>5, EmptyMap DEF Restart, Zeroed, Map!Restart
  <2> QED BY <2>1 DEF Map!Next
<1>6. CASE Find \/ Read
  BY <1>2, <1>6 DEF Find, FindNext, FindHit, FindMiss, Read, CallRead, ReadValue, Return
<1>7. CASE Write
  <2>1. CASE WriteRefused \/ CallWrite
    BY <2>1, <1>2 DEF WriteRefused, CallWrite, Return
  <2>2. CASE InsertValue
    <3>1. buffer'.tlv = Replaced
      BY <2>2, <1>1 DEF InsertValue, WithCrc, Buffers
    <3>2. ram' = [ram EXCEPT ![call.field] = call.value]
      BY <2>2, <3>1, InsertSplices DEF InsertValue, tlv
    <3>3. Map!Put
      BY <2>2, <3>2, <1>1 DEF InsertValue, Map!Put
    <3> QED BY <3>3 DEF Map!Next
  <2>3. CASE AppendValue /\ pc' = "nvs_write"
    <3>1. buffer'.tlv = tlv \o Bytes(call.field, call.value)
      BY <2>3, <1>1 DEF AppendValue, WithCrc, Buffers
    <3>2. ram' = [ram EXCEPT ![call.field] = call.value]
      BY <2>3, <3>1, AppendSplices DEF AppendValue, tlv
    <3>3. Map!Put
      BY <2>3, <3>2, <1>1 DEF AppendValue, Map!Put
    <3> QED BY <3>3 DEF Map!Next
  <2>4. CASE AppendValue /\ pc' = "fault"
    BY <2>4, <1>2 DEF AppendValue
  <2>5. CASE NvsWrite
    <3>1. nvs' = [present |-> TRUE, map |-> ram]
      <4>1. (flash'.kind = "full") = TRUE /\ flash'.tlv = buffer.tlv
        BY <2>5 DEF NvsWrite, Item
      <4> QED BY <4>1
    <3>2. Map!Store
      BY <2>5, <3>1 DEF NvsWrite, Map!Store
    <3> QED BY <3>2 DEF Map!Next
  <2>6. CASE NvsWriteFails
    <3>1. Map!StoreFails
      BY <2>6 DEF NvsWriteFails, Return, Map!StoreFails
    <3> QED BY <3>1 DEF Map!Next
  <2>7. CASE Reread
    BY <2>7, <1>3 DEF Reread, Return
  <2> QED BY <1>7, <2>1, <2>2, <2>3, <2>4, <2>5, <2>6, <2>7 DEF Write, AppendValue
<1>8. CASE ConfigErase
  <2>1. CASE flash' = Absent
    <3>1. Map!Erase
      BY <1>8, <2>1, EmptyMap DEF ConfigErase, Absent, Map!Erase, Map!NoCopy
    <3> QED BY <3>1 DEF Map!Next
  <2>2. CASE UNCHANGED flash
    BY <1>8, <2>2, <1>2 DEF ConfigErase
  <2> QED BY <1>8, <2>1, <2>2 DEF ConfigErase
<1>9. CASE ConfigRefresh
  <2>1. CASE ReadBuffer
    BY <1>9, <2>1, <1>3 DEF ConfigRefresh
  <2>2. CASE UNCHANGED buffer
    BY <1>9, <2>2, <1>2 DEF ConfigRefresh
  <2> QED BY <1>9, <2>1, <2>2 DEF ConfigRefresh
<1>10. CASE UNCHANGED vars
  BY <1>10, <1>2 DEF vars
<1> QED BY <1>4, <1>5, <1>6, <1>7, <1>8, <1>9, <1>10 DEF Next

\* The TLV buffer, its CRC and the NVS item implement a map with a working copy and a stored
\* one: a write changes one field, and what is stored or read back is a whole copy.
THEOREM StoreImplementsMap == Spec => ImplementsMap
  BY MapInit, MapStep, Invariant, PTL DEF Spec, ImplementsMap, Map!Spec
=============================================================================
