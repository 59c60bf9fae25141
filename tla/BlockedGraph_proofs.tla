------------------------- MODULE BlockedGraph_proofs -------------------------
(***************************************************************************)
(* Proofs about BlockedGraph and its BlockArrayGroups, for any number of   *)
(* vertices, lists in a bag and edges: the programs with bags implement    *)
(* the naive program, and so find what it finds.                           *)
(***************************************************************************)
EXTENDS BlockedGraph, SetInduction, TLAPS

-----------------------------------------------------------------------------
(* Sequences of words.                                                     *)

(* new is bv with data behind its first pos words.                         *)
Inserted(new, bv, pos, data) ==
  /\ Len(new) = Len(bv) + Len(data)
  /\ \A i \in 1 .. pos : new[i] = bv[i]
  /\ \A i \in 1 .. Len(data) : new[pos + i] = data[i]
  /\ \A i \in pos + 1 .. Len(bv) : new[i + Len(data)] = bv[i]

LEMMA InsertAtIs ==
  ASSUME NEW S, NEW bv \in Seq(S), NEW data \in Seq(S), NEW pos \in 0 .. Len(bv)
  PROVE  /\ InsertAt(bv, pos, data) \in Seq(S)
         /\ Inserted(InsertAt(bv, pos, data), bv, pos, data)
<1> DEFINE a == SubSeq(bv, 1, pos)
           b == SubSeq(bv, pos + 1, Len(bv))
<1>1. pos \in Nat /\ Len(bv) \in Nat /\ Len(data) \in Nat /\ pos <= Len(bv)
  OBVIOUS
<1>2. a \in Seq(S) /\ Len(a) = pos /\ \A i \in 1 .. pos : a[i] = bv[i]
  BY <1>1
<1>3. b \in Seq(S) /\ Len(b) = Len(bv) - pos /\ \A i \in 1 .. Len(bv) - pos : b[i] = bv[pos + i]
  BY <1>1
<1> DEFINE c == a \o data
<1> HIDE DEF a, b
<1>4. /\ c \in Seq(S) /\ Len(c) = pos + Len(data)
      /\ \A i \in 1 .. pos : c[i] = bv[i]
      /\ \A i \in 1 .. Len(data) : c[pos + i] = data[i]
  BY <1>1, <1>2
<1>5. InsertAt(bv, pos, data) = c \o b
  BY DEF InsertAt, a, b
<1> HIDE DEF c
<1>6. /\ c \o b \in Seq(S) /\ Len(c \o b) = Len(bv) + Len(data)
      /\ \A i \in 1 .. pos + Len(data) : (c \o b)[i] = c[i]
      /\ \A i \in 1 .. Len(bv) - pos : (c \o b)[pos + Len(data) + i] = b[i]
  <2>1. Len(c) + Len(b) = Len(bv) + Len(data)
    BY <1>1, <1>3, <1>4
  <2>2. c \in Seq(S) /\ b \in Seq(S)
    BY <1>3, <1>4
  <2>3. c \o b \in Seq(S) /\ Len(c \o b) = Len(c) + Len(b)
    BY <2>2
  <2>4. \A i \in 1 .. Len(c) : (c \o b)[i] = c[i]
    BY <2>2
  <2>5. \A i \in 1 .. Len(b) : (c \o b)[Len(c) + i] = b[i]
    BY <2>2
  <2> QED
    BY <1>3, <1>4, <2>1, <2>3, <2>4, <2>5
<1>7. \A i \in pos + 1 .. Len(bv) : (c \o b)[i + Len(data)] = bv[i]
  <2> TAKE i \in pos + 1 .. Len(bv)
  <2>1. i - pos \in 1 .. Len(bv) - pos /\ pos + Len(data) + (i - pos) = i + Len(data)
        /\ pos + (i - pos) = i
    BY <1>1
  <2> QED
    BY <1>3, <1>6, <2>1
<1>8. /\ \A i \in 1 .. pos : i \in 1 .. pos + Len(data)
      /\ \A i \in 1 .. Len(data) : pos + i \in 1 .. pos + Len(data)
  BY <1>1
<1>9. c \o b \in Seq(S) /\ Inserted(c \o b, bv, pos, data)
  BY <1>4, <1>6, <1>7, <1>8 DEF Inserted
<1> QED
  BY <1>5, <1>9

InsertedWord(new, bv, pos, x) ==
  /\ Len(new) = Len(bv) + 1 /\ new[pos + 1] = x
  /\ \A i \in 1 .. pos : new[i] = bv[i]
  /\ \A i \in pos + 1 .. Len(bv) : new[i + 1] = bv[i]

InsertedThree(new, bv, pos, x, y, z) ==
  /\ Len(new) = Len(bv) + 3
  /\ new[pos + 1] = x /\ new[pos + 2] = y /\ new[pos + 3] = z
  /\ \A i \in 1 .. pos : new[i] = bv[i]
  /\ \A i \in pos + 1 .. Len(bv) : new[i + 3] = bv[i]

LEMMA InsertWord ==
  ASSUME NEW bv \in Seq(Nat), NEW x \in Nat, NEW pos \in 0 .. Len(bv)
  PROVE  /\ InsertAt(bv, pos, <<x>>) \in Seq(Nat)
         /\ InsertedWord(InsertAt(bv, pos, <<x>>), bv, pos, x)
<1>1. <<x>> \in Seq(Nat) /\ Len(<<x>>) = 1 /\ <<x>>[1] = x /\ 1 \in 1 .. 1
  OBVIOUS
<1>2. InsertAt(bv, pos, <<x>>) \in Seq(Nat) /\ Inserted(InsertAt(bv, pos, <<x>>), bv, pos, <<x>>)
  BY <1>1, InsertAtIs
<1> QED
  BY <1>1, <1>2 DEF Inserted, InsertedWord

LEMMA InsertThree ==
  ASSUME NEW bv \in Seq(Nat), NEW x \in Nat, NEW y \in Nat, NEW z \in Nat, NEW pos \in 0 .. Len(bv)
  PROVE  /\ InsertAt(bv, pos, <<x, y, z>>) \in Seq(Nat)
         /\ InsertedThree(InsertAt(bv, pos, <<x, y, z>>), bv, pos, x, y, z)
<1>1. /\ <<x, y, z>> \in Seq(Nat) /\ Len(<<x, y, z>>) = 3
      /\ <<x, y, z>>[1] = x /\ <<x, y, z>>[2] = y /\ <<x, y, z>>[3] = z
      /\ 1 \in 1 .. 3 /\ 2 \in 1 .. 3 /\ 3 \in 1 .. 3
  OBVIOUS
<1>2. /\ InsertAt(bv, pos, <<x, y, z>>) \in Seq(Nat)
      /\ Inserted(InsertAt(bv, pos, <<x, y, z>>), bv, pos, <<x, y, z>>)
  BY <1>1, InsertAtIs
<1> QED
  BY <1>1, <1>2 DEF Inserted, InsertedThree

LEMMA SameSequence ==
  ASSUME NEW S, NEW s \in Seq(S), NEW t \in Seq(S), Len(s) = Len(t),
         \A i \in 1 .. Len(s) : s[i] = t[i]
  PROVE  s = t
  OBVIOUS

(* An edge inserted word by word from the last word on.                    *)
LEMMA InsertOneByOne ==
  ASSUME NEW bv \in Seq(Nat), NEW x \in Nat, NEW y \in Nat, NEW z \in Nat,
         NEW pos \in 0 .. Len(bv)
  PROVE  InsertAt(InsertAt(InsertAt(bv, pos, <<z>>), pos, <<y>>), pos, <<x>>)
           = InsertAt(bv, pos, <<x, y, z>>)
<1> DEFINE b1 == InsertAt(bv, pos, <<z>>)
           b2 == InsertAt(b1, pos, <<y>>)
           b3 == InsertAt(b2, pos, <<x>>)
           b  == InsertAt(bv, pos, <<x, y, z>>)
<1>0. pos \in Nat /\ Len(bv) \in Nat /\ pos <= Len(bv)
  OBVIOUS
<1>b. b1 \in Seq(Nat) /\ InsertedWord(b1, bv, pos, z)
  BY InsertWord
<1>c. b \in Seq(Nat) /\ InsertedThree(b, bv, pos, x, y, z)
  BY InsertThree
<1> HIDE DEF b1, b
<1>1. /\ Len(b1) = Len(bv) + 1 /\ b1[pos + 1] = z
      /\ \A i \in 1 .. pos : b1[i] = bv[i]
      /\ \A i \in pos + 1 .. Len(bv) : b1[i + 1] = bv[i]
  BY <1>b DEF InsertedWord
<1>d. pos \in 0 .. Len(b1)
  BY <1>0, <1>1
<1>e. b2 \in Seq(Nat) /\ InsertedWord(b2, b1, pos, y)
  BY <1>b, <1>d, InsertWord
<1> HIDE DEF b2
<1>2. /\ Len(b2) = Len(b1) + 1 /\ b2[pos + 1] = y
      /\ \A i \in 1 .. pos : b2[i] = b1[i]
      /\ \A i \in pos + 1 .. Len(b1) : b2[i + 1] = b1[i]
  BY <1>e DEF InsertedWord
<1>f. pos \in 0 .. Len(b2)
  BY <1>0, <1>1, <1>2
<1>g. b3 \in Seq(Nat) /\ InsertedWord(b3, b2, pos, x)
  BY <1>e, <1>f, InsertWord
<1> HIDE DEF b3
<1>3. /\ Len(b3) = Len(b2) + 1 /\ b3[pos + 1] = x
      /\ \A i \in 1 .. pos : b3[i] = b2[i]
      /\ \A i \in pos + 1 .. Len(b2) : b3[i + 1] = b2[i]
  BY <1>g DEF InsertedWord
<1>4. /\ Len(b) = Len(bv) + 3
      /\ b[pos + 1] = x /\ b[pos + 2] = y /\ b[pos + 3] = z
      /\ \A i \in 1 .. pos : b[i] = bv[i]
      /\ \A i \in pos + 1 .. Len(bv) : b[i + 3] = bv[i]
  BY <1>c DEF InsertedThree
<1>5. Len(b3) = Len(b) /\ Len(b) \in Nat
  BY <1>0, <1>1, <1>2, <1>3, <1>4
<1>6. ASSUME NEW i \in 1 .. Len(b) PROVE b3[i] = b[i]
  <2>1. CASE i <= pos
    BY <1>0, <1>1, <1>2, <1>3, <1>4, <2>1
  <2>2. CASE i = pos + 1
    BY <1>3, <1>4, <2>2
  <2>3. CASE i = pos + 2
    <3>1. pos + 1 \in pos + 1 .. Len(b2) /\ (pos + 1) + 1 = pos + 2
      BY <1>0, <1>1, <1>2
    <3> QED
      BY <1>2, <1>3, <1>4, <2>3, <3>1
  <2>4. CASE i = pos + 3
    <3>1. /\ pos + 1 \in pos + 1 .. Len(b1) /\ (pos + 1) + 1 = pos + 2
          /\ pos + 2 \in pos + 1 .. Len(b2) /\ (pos + 2) + 1 = pos + 3
      BY <1>0, <1>1, <1>2
    <3>2. b2[pos + 2] = b1[pos + 1] /\ b3[pos + 3] = b2[pos + 2]
      BY <1>2, <1>3, <3>1
    <3> QED
      BY <1>1, <1>4, <2>4, <3>2
  <2>5. CASE i > pos + 3
    <3> DEFINE k == i - 3
    <3>1. /\ k \in pos + 1 .. Len(bv) /\ k + 1 \in pos + 1 .. Len(b1)
          /\ k + 2 \in pos + 1 .. Len(b2) /\ (k + 1) + 1 = k + 2 /\ (k + 2) + 1 = i /\ k + 3 = i
      BY <1>0, <1>1, <1>2, <1>4, <2>5
    <3> HIDE DEF k
    <3>2. b[i] = bv[k] /\ b1[k + 1] = bv[k]
      BY <1>1, <1>4, <3>1
    <3>3. b2[k + 2] = b1[k + 1] /\ b3[i] = b2[k + 2]
      BY <1>2, <1>3, <3>1
    <3> QED
      BY <3>2, <3>3
  <2> QED
    BY <1>0, <2>1, <2>2, <2>3, <2>4, <2>5
<1>7. b3 = b
  BY <1>c, <1>g, <1>5, <1>6, SameSequence
<1> QED
  BY <1>7 DEF b1, b2, b3, b

(* ... and from the first on, each behind the one before.                  *)
LEMMA InsertForward ==
  ASSUME NEW bv \in Seq(Nat), NEW x \in Nat, NEW y \in Nat, NEW z \in Nat,
         NEW pos \in 0 .. Len(bv)
  PROVE  InsertAt(InsertAt(InsertAt(bv, pos, <<x>>), pos + 1, <<y>>), pos + 2, <<z>>)
           = InsertAt(bv, pos, <<x, y, z>>)
<1> DEFINE b1 == InsertAt(bv, pos, <<x>>)
           b2 == InsertAt(b1, pos + 1, <<y>>)
           b3 == InsertAt(b2, pos + 2, <<z>>)
           b  == InsertAt(bv, pos, <<x, y, z>>)
<1>0. pos \in Nat /\ Len(bv) \in Nat /\ pos <= Len(bv)
  OBVIOUS
<1>b. b1 \in Seq(Nat) /\ InsertedWord(b1, bv, pos, x)
  BY InsertWord
<1>c. b \in Seq(Nat) /\ InsertedThree(b, bv, pos, x, y, z)
  BY InsertThree
<1> HIDE DEF b1, b
<1>1. /\ Len(b1) = Len(bv) + 1 /\ b1[pos + 1] = x
      /\ \A i \in 1 .. pos : b1[i] = bv[i]
      /\ \A i \in pos + 1 .. Len(bv) : b1[i + 1] = bv[i]
  BY <1>b DEF InsertedWord
<1>d. pos + 1 \in 0 .. Len(b1)
  BY <1>0, <1>1
<1>e. b2 \in Seq(Nat) /\ InsertedWord(b2, b1, pos + 1, y)
  BY <1>b, <1>d, InsertWord
<1> HIDE DEF b2
<1>2. /\ Len(b2) = Len(b1) + 1 /\ b2[pos + 1 + 1] = y
      /\ \A i \in 1 .. pos + 1 : b2[i] = b1[i]
      /\ \A i \in pos + 1 + 1 .. Len(b1) : b2[i + 1] = b1[i]
  BY <1>e DEF InsertedWord
<1>f. pos + 2 \in 0 .. Len(b2)
  BY <1>0, <1>1, <1>2
<1>g. b3 \in Seq(Nat) /\ InsertedWord(b3, b2, pos + 2, z)
  BY <1>e, <1>f, InsertWord
<1> HIDE DEF b3
<1>3. /\ Len(b3) = Len(b2) + 1 /\ b3[pos + 2 + 1] = z
      /\ \A i \in 1 .. pos + 2 : b3[i] = b2[i]
      /\ \A i \in pos + 2 + 1 .. Len(b2) : b3[i + 1] = b2[i]
  BY <1>g DEF InsertedWord
<1>4. /\ Len(b) = Len(bv) + 3
      /\ b[pos + 1] = x /\ b[pos + 2] = y /\ b[pos + 3] = z
      /\ \A i \in 1 .. pos : b[i] = bv[i]
      /\ \A i \in pos + 1 .. Len(bv) : b[i + 3] = bv[i]
  BY <1>c DEF InsertedThree
<1>5. Len(b3) = Len(b) /\ Len(b) \in Nat
  BY <1>0, <1>1, <1>2, <1>3, <1>4
<1>6. ASSUME NEW i \in 1 .. Len(b) PROVE b3[i] = b[i]
  <2>1. CASE i <= pos
    BY <1>0, <1>1, <1>2, <1>3, <1>4, <2>1
  <2>2. CASE i = pos + 1
    BY <1>0, <1>1, <1>2, <1>3, <1>4, <2>2
  <2>3. CASE i = pos + 2
    BY <1>0, <1>2, <1>3, <1>4, <2>3
  <2>4. CASE i = pos + 3
    BY <1>0, <1>3, <1>4, <2>4
  <2>5. CASE i > pos + 3
    <3> DEFINE k == i - 3
    <3>1. /\ k \in pos + 1 .. Len(bv) /\ k + 1 \in pos + 1 + 1 .. Len(b1)
          /\ k + 2 \in pos + 2 + 1 .. Len(b2) /\ (k + 1) + 1 = k + 2 /\ (k + 2) + 1 = i /\ k + 3 = i
      BY <1>0, <1>1, <1>2, <1>4, <2>5
    <3> HIDE DEF k
    <3>2. b[i] = bv[k] /\ b1[k + 1] = bv[k]
      BY <1>1, <1>4, <3>1
    <3>3. b2[k + 2] = b1[k + 1] /\ b3[i] = b2[k + 2]
      BY <1>2, <1>3, <3>1
    <3> QED
      BY <3>2, <3>3
  <2> QED
    BY <1>0, <2>1, <2>2, <2>3, <2>4, <2>5
<1>7. b3 = b
  BY <1>c, <1>g, <1>5, <1>6, SameSequence
<1> QED
  BY <1>7 DEF b1, b2, b3, b
-----------------------------------------------------------------------------
(* Groups: f[k] words lie before list k, f[numArrays] words are all.       *)
Lists == 0 .. numArrays - 1

Lefts(bv, f) ==
  /\ f \in [0 .. numArrays -> Nat] /\ f[0] = numArrays
  /\ \A k \in Lists : f[k + 1] = f[k] + 3 * bv[k + 1]

Group(bv, f) == bv \in Seq(Nat) /\ numArrays <= Len(bv) /\ Lefts(bv, f)

LEMMA LeftsMonotonic ==
  ASSUME NEW bv, NEW f, Group(bv, f)
  PROVE  \A j \in 0 .. numArrays : \A i \in 0 .. j : f[i] <= f[j]
<1> DEFINE S == {j \in 0 .. numArrays : \A i \in 0 .. j : f[i] <= f[j]}
<1>0. numArrays \in Nat /\ f \in [0 .. numArrays -> Nat]
  BY NumArraysAssumption DEF Group, Lefts
<1>1. 0 \in S
  BY <1>0
<1>2. ASSUME NEW k \in 0 .. numArrays - 1, k \in S PROVE k + 1 \in S
  <2>1. k \in Lists /\ k + 1 \in 0 .. numArrays /\ k + 1 \in 1 .. Len(bv)
    BY <1>0 DEF Lists, Group
  <2>2. f[k] \in Nat /\ bv[k + 1] \in Nat /\ f[k + 1] = f[k] + 3 * bv[k + 1]
    BY <1>0, <2>1 DEF Group, Lefts
  <2>3. f[k] <= f[k + 1]
    BY <2>2
  <2>4. ASSUME NEW i \in 0 .. k + 1 PROVE f[i] <= f[k + 1]
    <3>1. CASE i = k + 1
      BY <1>0, <2>1, <3>1
    <3>2. CASE i \in 0 .. k
      <4>1. f[i] <= f[k]
        BY <1>2, <3>2
      <4>2. f[i] \in Nat /\ f[k + 1] \in Nat
        BY <1>0, <2>1, <3>2
      <4> QED
        BY <2>2, <2>3, <4>1, <4>2
    <3> QED
      BY <3>1, <3>2
  <2> QED
    BY <2>1, <2>4
<1> HIDE DEF S
<1>3. \A k \in 0 .. numArrays : k \in S
  BY <1>0, <1>1, <1>2, UpTo
<1> QED
  BY <1>3 DEF S

(* get_array_range computes them.                                          *)
LEMMA RangeIs ==
  ASSUME NEW bv, NEW f, Group(bv, f), NEW arr \in Lists
  PROVE  /\ GetArrayRange(bv, arr).left = f[arr]
         /\ GetArrayRange(bv, arr).right = f[arr + 1]
<1> DEFINE T(h) == [k \in 0 .. arr |-> IF k = 0 THEN numArrays ELSE h[k - 1] + serialized_length * bv[k]]
           left == CHOOSE h : h = T(h)
           g    == [k \in 0 .. arr |-> f[k]]
           S    == {k \in 0 .. arr : left[k] = f[k]}
<1>0. /\ numArrays \in Nat /\ arr \in Nat /\ arr < numArrays
      /\ f \in [0 .. numArrays -> Nat] /\ f[0] = numArrays
  BY NumArraysAssumption DEF Group, Lefts, Lists
<1>1. ASSUME NEW k \in 1 .. arr PROVE f[k] = f[k - 1] + serialized_length * bv[k]
  <2>1. k - 1 \in Lists /\ (k - 1) + 1 = k
    BY <1>0 DEF Lists
  <2> QED
    BY <2>1 DEF Group, Lefts, serialized_length
<1>2. g = T(g)
  <2>1. ASSUME NEW k \in 0 .. arr PROVE g[k] = T(g)[k]
    <3>1. CASE k = 0
      BY <1>0, <3>1
    <3>2. CASE k # 0
      <4>1. k \in 1 .. arr /\ k - 1 \in 0 .. arr
        BY <1>0, <3>2
      <4>2. g[k] = f[k] /\ g[k - 1] = f[k - 1]
        BY <4>1
      <4> QED
        BY <1>1, <3>2, <4>1, <4>2
    <3> QED
      BY <3>1, <3>2
  <2> QED
    BY <2>1
<1> HIDE DEF g
<1>3. left = T(left)
  BY <1>2
<1>4. GetArrayRange(bv, arr) = [left |-> left[arr], right |-> left[arr] + serialized_length * bv[arr + 1]]
  BY DEF GetArrayRange
<1> HIDE DEF left
<1>5. /\ left[0] = numArrays
      /\ \A k \in 1 .. arr : left[k] = left[k - 1] + serialized_length * bv[k]
  BY <1>0, <1>3
<1>6. 0 \in S
  BY <1>0, <1>5
<1>7. ASSUME NEW k \in 0 .. arr - 1, k \in S PROVE k + 1 \in S
  <2>1. k + 1 \in 1 .. arr /\ (k + 1) - 1 = k
    BY <1>0
  <2> QED
    BY <1>1, <1>5, <1>7, <2>1
<1> HIDE DEF S
<1>8. \A k \in 0 .. arr : k \in S
  BY <1>0, <1>6, <1>7, UpTo
<1>9. left[arr] = f[arr]
  BY <1>0, <1>8 DEF S
<1>10. f[arr + 1] = f[arr] + serialized_length * bv[arr + 1]
  BY DEF Group, Lefts, serialized_length
<1> QED
  BY <1>4, <1>9, <1>10

WordEdges == [target : Nat, type : Nat, timestamp : Nat]

LEMMA SizeIs ==
  ASSUME NEW bv, NEW f, Group(bv, f), NEW arr \in Lists
  PROVE  GetSize(bv, arr) = bv[arr + 1] /\ bv[arr + 1] \in Nat
<1>1. f[arr] \in Nat /\ bv[arr + 1] \in Nat /\ f[arr + 1] = f[arr] + 3 * bv[arr + 1]
  <2>1. arr \in 0 .. numArrays /\ arr + 1 \in 1 .. Len(bv)
    BY NumArraysAssumption DEF Lists, Group
  <2> QED
    BY <2>1 DEF Group, Lefts
<1>2. (f[arr + 1] - f[arr]) \div 3 = bv[arr + 1]
  <2>1. f[arr + 1] - f[arr] = 3 * bv[arr + 1]
    BY <1>1
  <2>2. \A c \in Nat : (3 * c) \div 3 = c
    OBVIOUS
  <2> QED
    BY <1>1, <2>1, <2>2
<1> QED
  BY <1>1, <1>2, RangeIs DEF GetSize, serialized_length

(* Edge k of list arr.                                                     *)
EdgeAt(bv, f, arr, k) ==
  Edge(bv[f[arr] + 3 * (k - 1) + 1], bv[f[arr] + 3 * (k - 1) + 2], bv[f[arr] + 3 * (k - 1) + 3])

LEMMA BagIs ==
  ASSUME NEW bv, NEW f, Group(bv, f), NEW arr \in Lists
  PROVE  /\ Bag(bv, arr) = [k \in 1 .. bv[arr + 1] |-> EdgeAt(bv, f, arr, k)]
         /\ f[numArrays] = Len(bv) => Bag(bv, arr) \in Seq(WordEdges)
<1>1. GetSize(bv, arr) = bv[arr + 1] /\ bv[arr + 1] \in Nat /\ GetArrayRange(bv, arr).left = f[arr]
  BY SizeIs, RangeIs
<1>2. ASSUME NEW k \in 1 .. bv[arr + 1]
      PROVE  AccessBag(bv, arr, k - 1) = EdgeAt(bv, f, arr, k)
  <2>1. GetDataOffset(bv, arr, k - 1) = f[arr] + (k - 1) * 3
    BY <1>1 DEF GetDataOffset, serialized_length
  <2>2. (k - 1) * 3 = 3 * (k - 1)
    BY <1>1
  <2> QED
    BY <2>1, <2>2 DEF AccessBag, EdgeAt
<1>3. Bag(bv, arr) = [k \in 1 .. bv[arr + 1] |-> EdgeAt(bv, f, arr, k)]
  BY <1>1, <1>2 DEF Bag
<1>4. ASSUME f[numArrays] = Len(bv), NEW k \in 1 .. bv[arr + 1]
      PROVE  EdgeAt(bv, f, arr, k) \in WordEdges
  <2>1. /\ f[arr] \in Nat /\ f[arr + 1] \in Nat /\ f[arr + 1] = f[arr] + 3 * bv[arr + 1]
        /\ arr + 1 \in 0 .. numArrays /\ numArrays \in 0 .. numArrays
    BY NumArraysAssumption DEF Lists, Group, Lefts
  <2>2. f[arr + 1] <= Len(bv)
    BY <1>4, <2>1, LeftsMonotonic
  <2>3. Len(bv) \in Nat /\ bv \in Seq(Nat)
    BY DEF Group
  <2>4. /\ f[arr] + 3 * (k - 1) + 1 \in 1 .. Len(bv) /\ f[arr] + 3 * (k - 1) + 2 \in 1 .. Len(bv)
        /\ f[arr] + 3 * (k - 1) + 3 \in 1 .. Len(bv)
    <3>1. \A l, c, m \in Nat : \A j \in 1 .. c : l + 3 * c <= m =>
            /\ l + 3 * (j - 1) + 1 \in 1 .. m /\ l + 3 * (j - 1) + 2 \in 1 .. m
            /\ l + 3 * (j - 1) + 3 \in 1 .. m
      OBVIOUS
    <3>2. f[arr] + 3 * bv[arr + 1] <= Len(bv)
      BY <2>1, <2>2
    <3> QED
      BY <1>1, <2>1, <2>3, <3>1, <3>2
  <2> QED
    BY <2>3, <2>4 DEF EdgeAt, Edge, WordEdges
<1>5. f[numArrays] = Len(bv) => Bag(bv, arr) \in Seq(WordEdges)
  BY <1>1, <1>3, <1>4
<1> QED
  BY <1>3, <1>5

(* A new group: numArrays lists without an edge.                           *)
LEMMA NewGroupIs ==
  /\ Group(NewGroup, [k \in 0 .. numArrays |-> numArrays]) /\ Len(NewGroup) = numArrays
  /\ \A arr \in Lists : Bag(NewGroup, arr) = <<>> /\ NewGroup[arr + 1] = 0
<1> DEFINE f == [k \in 0 .. numArrays |-> numArrays]
<1>0. numArrays \in Nat
  BY NumArraysAssumption
<1>1. /\ NewGroup \in Seq(Nat) /\ Len(NewGroup) = numArrays
      /\ \A k \in 1 .. numArrays : NewGroup[k] = 0
  BY <1>0 DEF NewGroup
<1>2. \A arr \in Lists : arr + 1 \in 1 .. numArrays /\ arr \in 0 .. numArrays /\ arr + 1 \in 0 .. numArrays
  BY <1>0 DEF Lists
<1>3. Lefts(NewGroup, f)
  BY <1>0, <1>1, <1>2 DEF Lefts
<1>4. Group(NewGroup, f)
  BY <1>0, <1>1, <1>3 DEF Group
<1> HIDE DEF f
<1>5. ASSUME NEW arr \in Lists PROVE Bag(NewGroup, arr) = <<>> /\ NewGroup[arr + 1] = 0
  <2>1. GetSize(NewGroup, arr) = 0 /\ NewGroup[arr + 1] = 0
    BY <1>1, <1>2, <1>4, SizeIs
  <2> QED
    BY <2>1 DEF Bag
<1> QED
  BY <1>1, <1>4, <1>5 DEF f

(* The three ways to insert the words of an edge come to the same.         *)
LEMMA StlInsertIs ==
  ASSUME NEW bv \in Seq(Nat), NEW pos \in 0 .. Len(bv), NEW x \in Nat, NEW y \in Nat, NEW z \in Nat
  PROVE  StlInsertBlock(bv, pos, <<x, y, z>>) = InsertAt(bv, pos, <<x, y, z>>)
<1> DEFINE data  == <<x, y, z>>
           T(h)  == [k \in 0 .. Len(data) |->
                       IF k = 0 THEN bv ELSE InsertAt(h[k - 1], pos, <<data[Len(data) + 1 - k]>>)]
           words == CHOOSE h : h = T(h)
           b1 == InsertAt(bv, pos, <<z>>)
           b2 == InsertAt(b1, pos, <<y>>)
           b3 == InsertAt(b2, pos, <<x>>)
           g  == [k \in 0 .. 3 |-> IF k = 0 THEN bv ELSE IF k = 1 THEN b1 ELSE IF k = 2 THEN b2 ELSE b3]
<1>1. Len(data) = 3 /\ data[1] = x /\ data[2] = y /\ data[3] = z
  OBVIOUS
<1>2. StlInsertBlock(bv, pos, data) = words[Len(data)]
  BY DEF StlInsertBlock
<1>3. b3 = InsertAt(bv, pos, data)
  BY InsertOneByOne
<1> HIDE DEF data
<1>4. /\ <<data[Len(data) + 1 - 1]>> = <<z>> /\ <<data[Len(data) + 1 - 2]>> = <<y>>
      /\ <<data[Len(data) + 1 - 3]>> = <<x>>
  BY <1>1
<1>5. g[0] = bv /\ g[1] = b1 /\ g[2] = b2 /\ g[3] = b3
  OBVIOUS
<1>6. \A k \in 0 .. 3 : k = 0 \/ k = 1 \/ k = 2 \/ k = 3
  OBVIOUS
<1>7. g = T(g)
  <2>1. \A k \in 0 .. 3 : g[k] = T(g)[k]
    <3> HIDE DEF g
    <3>1. g[0] = T(g)[0] /\ g[1] = T(g)[1] /\ g[2] = T(g)[2] /\ g[3] = T(g)[3]
      BY <1>1, <1>4, <1>5
    <3> QED
      BY <1>6, <3>1
  <2> QED
    BY <1>1, <2>1
<1> HIDE DEF g
<1>8. words = T(words)
  BY <1>7
<1> HIDE DEF words
<1>9. /\ words[0] = bv /\ words[1] = InsertAt(words[0], pos, <<z>>)
      /\ words[2] = InsertAt(words[1], pos, <<y>>) /\ words[3] = InsertAt(words[2], pos, <<x>>)
  BY <1>1, <1>4, <1>8
<1>10. words[3] = b3
  BY <1>9
<1> QED
  BY <1>1, <1>2, <1>3, <1>10 DEF data

LEMMA InsertWordsIs ==
  ASSUME NEW bv, NEW f, Group(bv, f), f[numArrays] = Len(bv), NEW arr \in Lists,
         NEW x \in Nat, NEW y \in Nat, NEW z \in Nat
  PROVE  InsertWords(bv, arr, bv[arr + 1], <<x, y, z>>) = InsertAt(bv, f[arr + 1], <<x, y, z>>)
<1> DEFINE data  == <<x, y, z>>
           pos   == bv[arr + 1]
           off   == f[arr + 1]
           T(h)  == [i \in 0 .. Len(data) |-> IF i = 0 THEN bv
                       ELSE InsertAt(h[i - 1], GetDataOffset(h[i - 1], arr, pos) + i - 1, <<data[i]>>)]
           words == CHOOSE h : h = T(h)
           b1 == InsertAt(bv, off, <<x>>)
           b2 == InsertAt(b1, off + 1, <<y>>)
           b3 == InsertAt(b2, off + 2, <<z>>)
           g  == [k \in 0 .. 3 |-> IF k = 0 THEN bv ELSE IF k = 1 THEN b1 ELSE IF k = 2 THEN b2 ELSE b3]
<1>0. /\ numArrays \in Nat /\ arr + 1 \in 0 .. numArrays /\ numArrays \in 0 .. numArrays
      /\ f \in [0 .. numArrays -> Nat] /\ off \in Nat
      /\ bv \in Seq(Nat) /\ numArrays <= Len(bv) /\ Len(bv) \in Nat /\ pos \in Nat
  BY NumArraysAssumption, SizeIs DEF Group, Lefts, Lists
<1>1. numArrays <= off /\ off <= Len(bv) /\ off \in 0 .. Len(bv)
  <2>1. 0 \in 0 .. arr + 1 /\ arr + 1 \in 0 .. numArrays
    BY <1>0 DEF Lists
  <2>2. f[0] <= f[arr + 1] /\ f[arr + 1] <= f[numArrays]
    BY <1>0, <2>1, LeftsMonotonic
  <2> QED
    BY <1>0, <2>2 DEF Group, Lefts
(* The lengths do not move, so the offset stays where it is.               *)
<1>2. ASSUME NEW w, Group(w, f), w[arr + 1] = pos
      PROVE  GetDataOffset(w, arr, pos) = off
  <2>1. GetArrayRange(w, arr).left = f[arr]
    BY <1>2, RangeIs
  <2>2. f[arr + 1] = f[arr] + 3 * pos /\ f[arr] \in Nat
    BY <1>0 DEF Group, Lefts, Lists
  <2>3. GetDataOffset(w, arr, pos) = f[arr] + pos * 3
    BY <2>1 DEF GetDataOffset, serialized_length
  <2> HIDE DEF pos
  <2> QED
    BY <1>0, <2>2, <2>3
<1>3. ASSUME NEW w, Group(w, f), w[arr + 1] = pos, NEW at \in off .. Len(w), NEW e \in Nat
      PROVE  /\ Group(InsertAt(w, at, <<e>>), f) /\ InsertAt(w, at, <<e>>)[arr + 1] = pos
             /\ Len(InsertAt(w, at, <<e>>)) = Len(w) + 1
  <2> DEFINE new == InsertAt(w, at, <<e>>)
  <2>1. w \in Seq(Nat) /\ at \in 0 .. Len(w) /\ numArrays <= at /\ Len(w) \in Nat
    <3> HIDE DEF off
    <3> QED
      BY <1>0, <1>1, <1>3 DEF Group
  <2>2. new \in Seq(Nat) /\ InsertedWord(new, w, at, e)
    BY <2>1, InsertWord
  <2> HIDE DEF new, off, pos
  <2>3. Len(new) = Len(w) + 1 /\ \A i \in 1 .. at : new[i] = w[i]
    BY <2>2 DEF InsertedWord
  <2>4. \A k \in Lists : k + 1 \in 1 .. at
    BY <1>0, <2>1 DEF Lists
  <2>5. \A k \in Lists : new[k + 1] = w[k + 1]
    BY <2>3, <2>4
  <2>6. Lefts(new, f)
    BY <1>3, <2>5 DEF Group, Lefts
  <2>7. Group(new, f)
    BY <1>0, <1>3, <2>1, <2>2, <2>3, <2>6 DEF Group
  <2> QED
    BY <1>3, <2>3, <2>5, <2>7 DEF new
<1>4. Group(b1, f) /\ b1[arr + 1] = pos /\ Len(b1) = Len(bv) + 1
  <2>1. bv[arr + 1] = pos /\ off \in off .. Len(bv)
    BY <1>0, <1>1
  <2> HIDE DEF off, pos
  <2> QED
    BY <1>3, <2>1
<1>5. Group(b2, f) /\ b2[arr + 1] = pos /\ Len(b2) = Len(b1) + 1
  <2> HIDE DEF b1, off, pos
  <2>1. off + 1 \in off .. Len(b1)
    BY <1>0, <1>1, <1>4
  <2> QED
    BY <1>3, <1>4, <2>1
<1>6. /\ GetDataOffset(bv, arr, pos) + 1 - 1 = off /\ GetDataOffset(b1, arr, pos) + 2 - 1 = off + 1
      /\ GetDataOffset(b2, arr, pos) + 3 - 1 = off + 2
  <2> HIDE DEF b1, b2, off
  <2>1. GetDataOffset(bv, arr, pos) = off
    BY <1>2
  <2>2. GetDataOffset(b1, arr, pos) = off /\ GetDataOffset(b2, arr, pos) = off
    BY <1>2, <1>4, <1>5
  <2> QED
    BY <1>0, <2>1, <2>2
<1>7. InsertWords(bv, arr, pos, data) = words[Len(data)]
  BY DEF InsertWords
<1>8. b3 = InsertAt(bv, off, data)
  BY <1>0, <1>1, InsertForward
<1>9. Len(data) = 3 /\ data[1] = x /\ data[2] = y /\ data[3] = z
  OBVIOUS
<1>10. g[0] = bv /\ g[1] = b1 /\ g[2] = b2 /\ g[3] = b3
  OBVIOUS
<1>11. \A k \in 0 .. 3 : k = 0 \/ k = 1 \/ k = 2 \/ k = 3
  OBVIOUS
<1> HIDE DEF data, off, pos
<1>12. g = T(g)
  <2>1. \A k \in 0 .. 3 : g[k] = T(g)[k]
    <3> HIDE DEF g
    <3>1. g[0] = T(g)[0]
      BY <1>9, <1>10
    <3>2. g[1] = T(g)[1]
      BY <1>6, <1>9, <1>10
    <3>3. g[2] = T(g)[2]
      <4> HIDE DEF b1
      <4> QED BY <1>6, <1>9, <1>10
    <3>4. g[3] = T(g)[3]
      <4> HIDE DEF b1, b2
      <4> QED BY <1>6, <1>9, <1>10
    <3> QED
      BY <1>11, <3>1, <3>2, <3>3, <3>4
  <2> QED
    BY <1>9, <2>1
<1> HIDE DEF g
<1>13. words = T(words)
  BY <1>12
<1> HIDE DEF words
<1>14. words[0] = bv
  BY <1>9, <1>13
<1>15. words[1] = b1
  BY <1>6, <1>9, <1>13, <1>14
<1>16. words[2] = b2
  <2> HIDE DEF b1
  <2> QED BY <1>6, <1>9, <1>13, <1>15
<1>17. words[3] = b3
  <2> HIDE DEF b1, b2
  <2> QED BY <1>6, <1>9, <1>13, <1>16
<1> QED
  BY <1>7, <1>8, <1>9, <1>17 DEF data, off, pos

Complete(bv, f) == Group(bv, f) /\ f[numArrays] = Len(bv)
GroupOK(bv) == \E f : Complete(bv, f)

Vectors == {"flex", "stl", "words"}

LEMMA PushBackIs ==
  ASSUME NEW bv, NEW f, Complete(bv, f), NEW arr \in Lists, NEW vector \in Vectors, NEW edge \in WordEdges
  PROVE  PushBackBag(vector, bv, arr, edge) =
           [InsertAt(bv, f[arr + 1], <<edge.target, edge.type, edge.timestamp>>) EXCEPT ![arr + 1] = @ + 1]
<1> DEFINE x == edge.target
           y == edge.type
           z == edge.timestamp
           pos == GetSize(bv, arr)
<1>1. x \in Nat /\ y \in Nat /\ z \in Nat /\ Serialize(edge) = <<x, y, z>>
  BY DEF WordEdges, Serialize
<1>2. /\ pos = bv[arr + 1] /\ pos \in Nat /\ GetArrayRange(bv, arr).left = f[arr]
      /\ Group(bv, f) /\ bv \in Seq(Nat) /\ f[numArrays] = Len(bv)
  BY SizeIs, RangeIs DEF Complete, Group
<1>3. f[arr + 1] = f[arr] + 3 * pos /\ f[arr] \in Nat /\ f[arr + 1] \in 0 .. Len(bv)
  <2>1. /\ arr \in 0 .. numArrays /\ arr + 1 \in 0 .. numArrays /\ numArrays \in 0 .. numArrays
        /\ f \in [0 .. numArrays -> Nat]
    BY <1>2, NumArraysAssumption DEF Lists, Group, Lefts
  <2>2. f[arr + 1] <= Len(bv)
    BY <1>2, <2>1, LeftsMonotonic
  <2>3. f[arr + 1] = f[arr] + 3 * bv[arr + 1]
    BY <1>2 DEF Group, Lefts
  <2> HIDE DEF pos
  <2>4. Len(bv) \in Nat /\ f[arr] \in Nat /\ f[arr + 1] \in Nat
    BY <1>2, <2>1
  <2>5. f[arr + 1] \in 0 .. Len(bv)
    BY <2>2, <2>4
  <2> QED
    BY <1>2, <2>3, <2>4, <2>5
<1>4. GetDataOffset(bv, arr, pos) = f[arr + 1]
  <2>1. GetDataOffset(bv, arr, pos) = f[arr] + pos * 3
    BY <1>2 DEF GetDataOffset, serialized_length
  <2> HIDE DEF pos
  <2> QED
    BY <1>2, <1>3, <2>1
<1> HIDE DEF x, y, z, pos
<1>5. InsertIntoBag(vector, bv, arr, pos, edge)
        = [InsertAt(bv, f[arr + 1], <<x, y, z>>) EXCEPT ![arr + 1] = @ + 1]
  <2>1. CASE vector = "flex"
    BY <1>1, <1>4, <2>1 DEF InsertIntoBag, FlexInsertBlock
  <2>2. CASE vector = "stl"
    <3>1. StlInsertBlock(bv, f[arr + 1], <<x, y, z>>) = InsertAt(bv, f[arr + 1], <<x, y, z>>)
      BY <1>1, <1>2, <1>3, StlInsertIs
    <3> QED
      BY <1>1, <1>4, <2>2, <3>1 DEF InsertIntoBag
  <2>3. CASE vector = "words"
    <3>1. InsertWords(bv, arr, pos, <<x, y, z>>) = InsertAt(bv, f[arr + 1], <<x, y, z>>)
      BY <1>1, <1>2, InsertWordsIs
    <3> QED
      BY <1>1, <1>4, <2>3, <3>1 DEF InsertIntoBag
  <2> QED
    BY <2>1, <2>2, <2>3 DEF Vectors
<1> QED
  BY <1>5 DEF PushBackBag, x, y, z, pos

(* push_back_bag: the edge is the last of its list, the other lists stay   *)
(* as they are, although those behind have moved.                          *)
Pushed(new, bv, arr, edge) ==
  /\ GroupOK(new)
  /\ Bag(new, arr) = Append(Bag(bv, arr), edge)
  /\ \A a \in Lists : a # arr => Bag(new, a) = Bag(bv, a) /\ new[a + 1] = bv[a + 1]

LEMMA PushBackPushes ==
  ASSUME NEW bv, GroupOK(bv), NEW arr \in Lists, NEW vector \in Vectors, NEW edge \in WordEdges
  PROVE  Pushed(PushBackBag(vector, bv, arr, edge), bv, arr, edge)
<1>1. PICK f : Complete(bv, f)
  BY DEF GroupOK
<1> DEFINE x == edge.target
           y == edge.type
           z == edge.timestamp
           at == f[arr + 1]
           ins == InsertAt(bv, at, <<x, y, z>>)
           new == [ins EXCEPT ![arr + 1] = @ + 1]
           g == [k \in 0 .. numArrays |-> IF k <= arr THEN f[k] ELSE f[k] + 3]
<1>2. x \in Nat /\ y \in Nat /\ z \in Nat /\ edge = Edge(x, y, z)
  BY DEF WordEdges, Edge
<1>3. /\ Group(bv, f) /\ bv \in Seq(Nat) /\ f[numArrays] = Len(bv) /\ Len(bv) \in Nat
      /\ numArrays <= Len(bv) /\ Lefts(bv, f) /\ f \in [0 .. numArrays -> Nat] /\ f[0] = numArrays
  BY <1>1 DEF Complete, Group, Lefts
<1>4. /\ numArrays \in Nat /\ arr \in 0 .. numArrays - 1 /\ arr + 1 \in 0 .. numArrays
      /\ Lists = 0 .. numArrays - 1
  BY NumArraysAssumption DEF Lists
<1>5. \A a \in 0 .. numArrays : f[a] \in Nat /\ numArrays <= f[a] /\ f[a] <= Len(bv)
  <2> TAKE a \in 0 .. numArrays
  <2>1. f[0] <= f[a] /\ f[a] <= f[numArrays]
    <3>1. 0 \in 0 .. a /\ a \in 0 .. numArrays /\ numArrays \in 0 .. numArrays
      BY <1>4
    <3> QED
      BY <1>3, <3>1, LeftsMonotonic
  <2> QED
    BY <1>3, <2>1
<1>6. at \in Nat /\ numArrays <= at /\ at \in 0 .. Len(bv)
  BY <1>3, <1>4, <1>5
<1>7. ins \in Seq(Nat) /\ InsertedThree(ins, bv, at, x, y, z)
  BY <1>2, <1>3, <1>6, InsertThree
<1>8. PushBackBag(vector, bv, arr, edge) = new
  BY <1>1, PushBackIs
<1> HIDE DEF at, ins, x, y, z
<1>9. /\ Len(ins) = Len(bv) + 3 /\ ins[at + 1] = x /\ ins[at + 2] = y /\ ins[at + 3] = z
      /\ \A i \in 1 .. at : ins[i] = bv[i]
      /\ \A i \in at + 1 .. Len(bv) : ins[i + 3] = bv[i]
  BY <1>7 DEF InsertedThree
<1>10. /\ new \in Seq(Nat) /\ Len(new) = Len(bv) + 3
       /\ new[arr + 1] = bv[arr + 1] + 1 /\ bv[arr + 1] \in Nat
       /\ \A i \in 1 .. Len(bv) + 3 : i # arr + 1 => new[i] = ins[i]
  <2>1. arr + 1 \in 1 .. at /\ arr + 1 \in 1 .. Len(bv) /\ arr + 1 \in 1 .. Len(bv) + 3
    BY <1>3, <1>4, <1>6
  <2>2. ins[arr + 1] = bv[arr + 1] /\ bv[arr + 1] \in Nat
    BY <1>3, <1>9, <2>1
  <2> QED
    BY <1>7, <1>9, <2>1, <2>2
<1> HIDE DEF new
(* What the words behind the lengths are now.                              *)
<1>11. /\ new[at + 1] = x /\ new[at + 2] = y /\ new[at + 3] = z
       /\ \A i \in numArrays + 1 .. at : new[i] = bv[i]
       /\ \A i \in at + 1 .. Len(bv) : new[i + 3] = bv[i]
  <2>1. /\ at + 1 \in 1 .. Len(bv) + 3 /\ at + 2 \in 1 .. Len(bv) + 3 /\ at + 3 \in 1 .. Len(bv) + 3
        /\ at + 1 # arr + 1 /\ at + 2 # arr + 1 /\ at + 3 # arr + 1
    BY <1>3, <1>4, <1>6
  <2>2. \A i \in numArrays + 1 .. at : i \in 1 .. at /\ i \in 1 .. Len(bv) + 3 /\ i # arr + 1
    BY <1>3, <1>4, <1>6
  <2>3. \A i \in at + 1 .. Len(bv) : i + 3 \in 1 .. Len(bv) + 3 /\ i + 3 # arr + 1
    BY <1>3, <1>4, <1>6
  <2> QED
    BY <1>9, <1>10, <2>1, <2>2, <2>3
<1>12. \A a \in Lists : a # arr => new[a + 1] = bv[a + 1]
  <2>1. \A a \in Lists : /\ a + 1 \in 1 .. at /\ a + 1 \in 1 .. Len(bv) + 3
                         /\ a # arr => a + 1 # arr + 1
    BY <1>3, <1>4, <1>6
  <2> QED
    BY <1>9, <1>10, <2>1
<1>13. Complete(new, g)
  <2>1. g \in [0 .. numArrays -> Nat] /\ g[0] = numArrays
    BY <1>3, <1>4
  <2>2. ASSUME NEW k \in Lists PROVE g[k + 1] = g[k] + 3 * new[k + 1]
    <3>1. /\ k \in 0 .. numArrays /\ k + 1 \in 0 .. numArrays /\ f[k] \in Nat
          /\ f[k + 1] = f[k] + 3 * bv[k + 1] /\ k + 1 \in 1 .. Len(bv) /\ bv[k + 1] \in Nat
      BY <1>3, <1>4 DEF Lefts
    <3>2. CASE k = arr
      <4>1. g[k + 1] = f[k + 1] + 3 /\ g[k] = f[k]
        BY <1>4, <3>1, <3>2
      <4>2. new[k + 1] = bv[k + 1] + 1
        BY <1>10, <3>2
      <4> HIDE DEF g
      <4> QED
        BY <3>1, <4>1, <4>2
    <3>3. CASE k # arr
      <4>1. \/ g[k + 1] = f[k + 1] + 3 /\ g[k] = f[k] + 3
            \/ g[k + 1] = f[k + 1] /\ g[k] = f[k]
        BY <1>4, <3>1, <3>3
      <4>2. new[k + 1] = bv[k + 1]
        BY <1>12, <3>3
      <4> HIDE DEF g
      <4> QED
        BY <3>1, <4>1, <4>2
    <3> QED
      BY <3>2, <3>3
  <2>3. g[numArrays] = Len(new)
    <3>1. numArrays \in 0 .. numArrays /\ ~(numArrays <= arr)
      BY <1>4
    <3>2. g[numArrays] = f[numArrays] + 3
      BY <3>1
    <3> QED
      BY <1>3, <1>10, <3>2
  <2> HIDE DEF g
  <2>4. Lefts(new, g)
    BY <2>1, <2>2 DEF Lefts
  <2>5. numArrays <= Len(new)
    BY <1>3, <1>4, <1>10
  <2> QED
    BY <1>10, <2>3, <2>4, <2>5 DEF Complete, Group
<1>14. /\ g[arr] = f[arr]
       /\ \A a \in Lists : (a < arr => g[a] = f[a]) /\ (a > arr => g[a] = f[a] + 3)
  BY <1>4
<1> HIDE DEF g
<1>15. ASSUME NEW a \in Lists, a # arr PROVE Bag(new, a) = Bag(bv, a)
  <2>1. /\ a \in 0 .. numArrays /\ a + 1 \in 0 .. numArrays /\ f[a] \in Nat /\ f[a + 1] \in Nat
        /\ f[a + 1] = f[a] + 3 * bv[a + 1] /\ bv[a + 1] \in Nat
    BY <1>3, <1>4, SizeIs DEF Lefts
  <2>2. ASSUME NEW k \in 1 .. bv[a + 1], NEW j \in {1, 2, 3}
        PROVE  new[g[a] + 3 * (k - 1) + j] = bv[f[a] + 3 * (k - 1) + j]
    <3> DEFINE i == f[a] + 3 * (k - 1) + j
    <3>1. i \in f[a] + 1 .. f[a + 1] /\ i \in Nat
      <4>1. \A l, c \in Nat : \A q \in 1 .. c : l + 3 * (q - 1) + j \in l + 1 .. l + 3 * c
        OBVIOUS
      <4> QED
        BY <2>1, <4>1
    <3>2. CASE a < arr
      <4>1. f[a + 1] <= at
        <5>1. a + 1 \in 0 .. arr + 1
          BY <1>4, <3>2
        <5> QED
          BY <1>3, <1>4, <5>1, LeftsMonotonic DEF at
      <4>2. i \in numArrays + 1 .. at
        <5>1. numArrays <= f[a]
          BY <1>5, <2>1
        <5>2. \A l, r \in Nat : numArrays <= l /\ r <= at => l + 1 .. r \subseteq numArrays + 1 .. at
          BY <1>4, <1>6
        <5>3. f[a] + 1 .. f[a + 1] \subseteq numArrays + 1 .. at
          BY <2>1, <4>1, <5>1, <5>2
        <5> HIDE DEF i
        <5> QED
          BY <3>1, <5>3
      <4>3. new[i] = bv[i] /\ g[a] = f[a]
        BY <1>11, <1>14, <3>2, <4>2
      <4> QED
        BY <4>3
    <3>3. CASE a > arr
      <4>1. at <= f[a]
        <5>1. arr + 1 \in 0 .. a
          BY <1>4, <3>3
        <5> QED
          BY <1>3, <2>1, <5>1, LeftsMonotonic DEF at
      <4>2. i \in at + 1 .. Len(bv)
        <5>1. f[a + 1] <= Len(bv)
          BY <1>5, <2>1
        <5>2. \A l, r, m \in Nat : at <= l /\ r <= m => l + 1 .. r \subseteq at + 1 .. m
          BY <1>6
        <5>3. f[a] + 1 .. f[a + 1] \subseteq at + 1 .. Len(bv)
          <6>1. f[a] \in Nat /\ f[a + 1] \in Nat /\ Len(bv) \in Nat
            BY <1>3, <2>1
          <6> PICK l \in Nat, r \in Nat : l = f[a] /\ r = f[a + 1]
            BY <6>1
          <6>2. at <= l /\ r <= Len(bv)
            BY <4>1, <5>1
          <6> QED
            BY <5>2, <6>1, <6>2
        <5> HIDE DEF i
        <5> QED
          BY <3>1, <5>3
      <4>3. new[i + 3] = bv[i] /\ g[a] = f[a] + 3
        BY <1>11, <1>14, <3>3, <4>2
      <4>4. g[a] + 3 * (k - 1) + j = i + 3
        BY <2>1, <4>3
      <4> QED
        BY <4>3, <4>4
    <3> QED
      BY <1>4, <1>15, <3>2, <3>3
  <2>3. /\ Bag(new, a) = [k \in 1 .. new[a + 1] |-> EdgeAt(new, g, a, k)]
        /\ Bag(bv, a) = [k \in 1 .. bv[a + 1] |-> EdgeAt(bv, f, a, k)]
    BY <1>3, <1>13, BagIs DEF Complete
  <2>4. new[a + 1] = bv[a + 1]
    BY <1>12, <1>15
  <2>5. \A k \in 1 .. bv[a + 1] : EdgeAt(new, g, a, k) = EdgeAt(bv, f, a, k)
    BY <2>2 DEF EdgeAt
  <2> QED
    BY <2>3, <2>4, <2>5
<1>16. Bag(new, arr) = Append(Bag(bv, arr), edge)
  <2> DEFINE c == bv[arr + 1]
             E(k) == EdgeAt(bv, f, arr, k)
             D(k) == EdgeAt(new, g, arr, k)
  <2>1. /\ f[arr] \in Nat /\ at = f[arr] + 3 * c /\ c \in Nat /\ g[arr] = f[arr]
    BY <1>3, <1>4, <1>10, <1>14 DEF Lefts, at
  <2>2. ASSUME NEW k \in 1 .. c, NEW j \in {1, 2, 3}
        PROVE  new[g[arr] + 3 * (k - 1) + j] = bv[f[arr] + 3 * (k - 1) + j]
    <3> DEFINE i == f[arr] + 3 * (k - 1) + j
    <3>1. i \in f[arr] + 1 .. at
      <4>1. \A l, d \in Nat : \A q \in 1 .. d : l + 3 * (q - 1) + j \in l + 1 .. l + 3 * d
        OBVIOUS
      <4> QED
        BY <2>1, <4>1
    <3>2. arr \in 0 .. numArrays /\ numArrays <= f[arr]
      BY <1>4, <1>5
    <3> HIDE DEF c
    <3>3. i \in numArrays + 1 .. at
      BY <1>4, <2>1, <3>1, <3>2
    <3> QED
      BY <1>11, <2>1, <3>3
  <2>3. /\ Bag(new, arr) = [k \in 1 .. new[arr + 1] |-> D(k)]
        /\ Bag(bv, arr) = [k \in 1 .. c |-> E(k)]
    BY <1>3, <1>13, BagIs DEF Complete
  <2>4. new[arr + 1] = c + 1
    BY <1>10
  <2>5. \A k \in 1 .. c : D(k) = E(k)
    BY <2>2 DEF EdgeAt
  <2>6. D(c + 1) = edge
    <3> HIDE DEF c
    <3>1. f[arr] + 3 * (c + 1 - 1) = at
      BY <2>1
    <3> QED
      BY <1>2, <1>11, <2>1, <3>1 DEF EdgeAt
  <2>7. Bag(bv, arr) \in Seq(WordEdges)
    BY <1>3, BagIs
  <2> HIDE DEF c, D, E
  <2>8. [k \in 1 .. c + 1 |-> D(k)] = Append([k \in 1 .. c |-> E(k)], edge)
    <3> DEFINE s == [k \in 1 .. c |-> E(k)]
    <3>1. s \in Seq(WordEdges) /\ Len(s) = c /\ \A k \in 1 .. c : s[k] = E(k)
      BY <2>1, <2>3, <2>7
    <3> HIDE DEF s
    <3> DEFINE t == [k \in 1 .. c + 1 |-> D(k)]
    <3>2. \A k \in 1 .. c + 1 : k \in 1 .. c \/ k = c + 1
      BY <2>1
    <3>3. \A k \in 1 .. c : E(k) \in WordEdges
      BY <3>1
    <3>4. t \in Seq(WordEdges) /\ Len(t) = c + 1
      BY <2>1, <2>5, <2>6, <3>2, <3>3
    <3>5. /\ Append(s, edge) \in Seq(WordEdges) /\ Len(Append(s, edge)) = c + 1
          /\ \A k \in 1 .. c : Append(s, edge)[k] = s[k]
          /\ Append(s, edge)[c + 1] = edge
      BY <3>1
    <3>6. \A k \in 1 .. c + 1 : t[k] = Append(s, edge)[k]
      BY <2>5, <2>6, <3>1, <3>2, <3>5
    <3> HIDE DEF t
    <3>7. t = Append(s, edge)
      BY <3>4, <3>5, <3>6, SameSequence
    <3> QED
      BY <3>7 DEF s, t
  <2> QED
    BY <2>3, <2>4, <2>8
<1>17. GroupOK(new)
  BY <1>13 DEF GroupOK
<1> QED
  BY <1>8, <1>12, <1>15, <1>16, <1>17 DEF Pushed
-----------------------------------------------------------------------------
(* The bags of a graph.                                                    *)
BagsOK(bags, m) ==
  /\ bags \in Seq(Seq(Nat))
  /\ \A b \in 1 .. Len(bags) : GroupOK(bags[b])
  /\ m <= numArrays * Len(bags)
  (* Nothing is in the list of a vertex that there is not yet.             *)
  /\ \A b \in 1 .. Len(bags), arr \in Lists :
       numArrays * (b - 1) + arr >= m => Bag(bags[b], arr) = <<>>

ListOf(bags, v) == Bag(bags[BagId(v) + 1], BagIndex(v))

LEMMA BagPlace ==
  ASSUME NEW u \in Nat
  PROVE  /\ BagId(u) \in Nat /\ BagIndex(u) \in Lists
         /\ u = numArrays * BagId(u) + BagIndex(u)
<1>1. numArrays \in Nat \ {0}
  BY NumArraysAssumption
<1>2. \A m \in Nat \ {0} : u \div m \in Nat /\ u % m \in 0 .. m - 1 /\ u = m * (u \div m) + (u % m)
  OBVIOUS
<1> QED
  BY <1>1, <1>2 DEF BagId, BagIndex, Lists

LEMMA PlaceLess ==
  ASSUME NEW u \in Nat, NEW c \in Nat
  PROVE  u < numArrays * c <=> BagId(u) < c
<1>1. /\ numArrays \in Nat \ {0} /\ BagId(u) \in Nat /\ BagIndex(u) \in 0 .. numArrays - 1
      /\ u = numArrays * BagId(u) + BagIndex(u)
  BY NumArraysAssumption, BagPlace DEF Lists
<1>2. \A m \in Nat \ {0}, q, d \in Nat : q < d => m * q + m <= m * d
  <2> SUFFICES ASSUME NEW m \in Nat \ {0}, NEW q \in Nat, NEW d \in Nat, q < d
               PROVE  m * q + m <= m * d
    OBVIOUS
  <2>1. PICK e \in Nat : d = q + 1 + e
    <3>1. d - q - 1 \in Nat /\ d = q + 1 + (d - q - 1)
      OBVIOUS
    <3> QED BY <3>1
  <2>2. m * d = m * q + m + m * e /\ m * e \in Nat /\ m * q \in Nat
    BY <2>1
  <2> QED
    BY <2>2
<1>3. \A m \in Nat \ {0}, q, d \in Nat : q >= d => m * q >= m * d
  <2> SUFFICES ASSUME NEW m \in Nat \ {0}, NEW q \in Nat, NEW d \in Nat, q >= d
               PROVE  m * q >= m * d
    OBVIOUS
  <2>1. PICK e \in Nat : q = d + e
    <3>1. q - d \in Nat /\ q = d + (q - d)
      OBVIOUS
    <3> QED BY <3>1
  <2>2. m * q = m * d + m * e /\ m * e \in Nat /\ m * d \in Nat
    BY <2>1
  <2> QED
    BY <2>2
<1>4. numArrays * BagId(u) \in Nat /\ numArrays * c \in Nat
  BY <1>1
<1>5. CASE BagId(u) < c
  BY <1>1, <1>2, <1>4, <1>5
<1>6. CASE BagId(u) >= c
  BY <1>1, <1>3, <1>4, <1>6
<1> QED
  BY <1>1, <1>5, <1>6

(* insert_vertex.                                                          *)
LEMMA GrowBags ==
  ASSUME NEW bags, NEW m \in Nat, BagsOK(bags, m), NEW new,
         new = IF m \div numArrays >= Len(bags) THEN Append(bags, NewGroup) ELSE bags
  PROVE  /\ BagsOK(new, m + 1)
         /\ \A u \in 0 .. m : ListOf(new, u) = IF u < m THEN ListOf(bags, u) ELSE <<>>
<1> DEFINE c == Len(bags)
<1>1. /\ c \in Nat /\ numArrays \in Nat \ {0} /\ bags \in Seq(Seq(Nat)) /\ m <= numArrays * c
      /\ numArrays * c \in Nat /\ numArrays * (c + 1) = numArrays * c + numArrays
  BY NumArraysAssumption DEF BagsOK
<1>2. NewGroup \in Seq(Nat) /\ GroupOK(NewGroup) /\ \A arr \in Lists : Bag(NewGroup, arr) = <<>>
  <2> DEFINE f == [k \in 0 .. numArrays |-> numArrays]
  <2>1. /\ Group(NewGroup, f) /\ Len(NewGroup) = numArrays
        /\ \A arr \in Lists : Bag(NewGroup, arr) = <<>>
    BY NewGroupIs
  <2>2. f[numArrays] = numArrays
    BY <1>1
  <2> HIDE DEF f
  <2> QED
    BY <2>1, <2>2 DEF GroupOK, Complete, Group
<1>3. m < numArrays * c <=> BagId(m) < c
  BY <1>1, PlaceLess
<1>4. BagId(m) \in Nat /\ BagIndex(m) \in Lists /\ m = numArrays * BagId(m) + BagIndex(m)
  BY BagPlace
<1>5. ASSUME NEW u \in 0 .. m - 1
      PROVE  BagId(u) + 1 \in 1 .. c /\ BagIndex(u) \in Lists
  <2>1. u \in Nat /\ u < numArrays * c
    BY <1>1
  <2>2. BagId(u) < c /\ BagId(u) \in Nat /\ BagIndex(u) \in Lists
    BY <1>1, <2>1, PlaceLess, BagPlace
  <2> HIDE DEF c
  <2> QED
    BY <1>1, <2>2
<1>6. \A u \in 0 .. m : u = m \/ (u \in 0 .. m - 1 /\ u < m)
  OBVIOUS
<1>7. CASE BagId(m) < c
  <2>1. new = bags
    BY <1>1, <1>4, <1>7 DEF BagId
  <2>2. m + 1 <= numArrays * c
    BY <1>1, <1>3, <1>7
  <2>3. BagsOK(new, m + 1)
    <3>1. ASSUME NEW b \in 1 .. c, NEW arr \in Lists, numArrays * (b - 1) + arr >= m + 1
          PROVE  Bag(bags[b], arr) = <<>>
      <4>1. numArrays * (b - 1) \in Nat /\ arr \in Nat
        BY <1>1 DEF Lists
      <4>2. numArrays * (b - 1) + arr >= m
        BY <3>1, <4>1
      <4> QED
        BY <4>2 DEF BagsOK
    <3> QED
      BY <2>1, <2>2, <3>1 DEF BagsOK
  <2>4. ListOf(bags, m) = <<>>
    <3> DEFINE b == BagId(m) + 1
    <3>1. b \in 1 .. c /\ b - 1 = BagId(m)
      BY <1>1, <1>4, <1>7
    <3>2. numArrays * (b - 1) + BagIndex(m) >= m
      <4>1. numArrays * (b - 1) + BagIndex(m) = m
        BY <1>4, <3>1
      <4> QED
        BY <4>1
    <3> HIDE DEF b
    <3>3. Bag(bags[b], BagIndex(m)) = <<>>
      BY <1>4, <3>1, <3>2 DEF BagsOK
    <3> QED
      BY <3>3 DEF ListOf, b
  <2> QED
    BY <1>6, <2>1, <2>3, <2>4
<1>8. CASE BagId(m) >= c
  <2>1. new = Append(bags, NewGroup)
    BY <1>8 DEF BagId
  <2>2. m = numArrays * c
    <3> HIDE DEF c
    <3>1. ~(m < numArrays * c)
      BY <1>1, <1>3, <1>4, <1>8
    <3> QED
      BY <1>1, <3>1
  <2>3. BagId(m) = c
    <3> HIDE DEF c
    <3>1. m < numArrays * (c + 1) <=> BagId(m) < c + 1
      <4>1. PICK d \in Nat : d = c + 1
        BY <1>1
      <4> QED
        BY <4>1, PlaceLess
    <3> QED
      BY <1>1, <1>4, <1>8, <2>2, <3>1
  <2>4. /\ new \in Seq(Seq(Nat)) /\ Len(new) = c + 1 /\ new[c + 1] = NewGroup
        /\ \A b \in 1 .. c : new[b] = bags[b]
    BY <1>1, <1>2, <2>1
  <2> HIDE DEF c
  <2>5. \A b \in 1 .. c + 1 : b \in 1 .. c \/ b = c + 1
    BY <1>1
  <2>6. BagsOK(new, m + 1)
    <3>1. \A b \in 1 .. Len(new) : GroupOK(new[b])
      BY <1>2, <2>4, <2>5 DEF BagsOK, c
    <3>2. m + 1 <= numArrays * Len(new)
      <4>1. m + 1 <= numArrays * c + numArrays
        BY <1>1, <2>2
      <4>2. numArrays * Len(new) = numArrays * (c + 1)
        BY <2>4
      <4> QED
        BY <1>1, <4>1, <4>2
    <3>3. ASSUME NEW b \in 1 .. Len(new), NEW arr \in Lists, numArrays * (b - 1) + arr >= m + 1
          PROVE  Bag(new[b], arr) = <<>>
      <4>1. numArrays * (b - 1) \in Nat /\ arr \in Nat
        BY <1>1, <2>4 DEF Lists
      <4>2. numArrays * (b - 1) + arr >= m
        BY <3>3, <4>1
      <4>3. CASE b \in 1 .. c
        BY <2>4, <4>2, <4>3 DEF BagsOK, c
      <4>4. CASE b = c + 1
        BY <1>2, <2>4, <4>4
      <4> QED
        BY <2>4, <2>5, <4>3, <4>4
    <3> QED
      BY <2>4, <3>1, <3>2, <3>3 DEF BagsOK
  <2>7. ListOf(new, m) = <<>>
    BY <1>2, <1>4, <2>3, <2>4 DEF ListOf
  <2>8. \A u \in 0 .. m - 1 : ListOf(new, u) = ListOf(bags, u)
    BY <1>5, <2>4 DEF ListOf
  <2> QED
    BY <1>6, <2>6, <2>7, <2>8
<1> QED
  BY <1>1, <1>4, <1>7, <1>8

(* insert_edge, in one direction.                                          *)
PushedInto(new, bags, m, v, edge) ==
  /\ BagsOK(new, m) /\ Len(new) = Len(bags)
  /\ \A u \in 0 .. m - 1 :
       ListOf(new, u) = IF u = v THEN Append(ListOf(bags, u), edge) ELSE ListOf(bags, u)

LEMMA PushBackBags ==
  ASSUME NEW bags, NEW m \in Nat, BagsOK(bags, m), NEW v \in 0 .. m - 1, NEW vector \in Vectors,
         NEW edge \in WordEdges, NEW new,
         new = [bags EXCEPT ![BagId(v) + 1] = PushBackBag(vector, @, BagIndex(v), edge)]
  PROVE  PushedInto(new, bags, m, v, edge)
<1> DEFINE c == Len(bags)
           b0 == BagId(v) + 1
           pushed == PushBackBag(vector, bags[b0], BagIndex(v), edge)
<1>1. /\ c \in Nat /\ numArrays \in Nat \ {0} /\ bags \in Seq(Seq(Nat)) /\ m <= numArrays * c
      /\ numArrays * c \in Nat
  BY NumArraysAssumption DEF BagsOK
<1>2. ASSUME NEW u \in 0 .. m - 1
      PROVE  /\ BagId(u) + 1 \in 1 .. c /\ BagIndex(u) \in Lists /\ BagId(u) \in Nat /\ u \in Nat
             /\ u = numArrays * BagId(u) + BagIndex(u)
  <2>1. u \in Nat /\ u < numArrays * c
    BY <1>1
  <2>2. /\ BagId(u) < c /\ BagId(u) \in Nat /\ BagIndex(u) \in Lists
        /\ u = numArrays * BagId(u) + BagIndex(u)
    BY <1>1, <2>1, PlaceLess, BagPlace
  <2> HIDE DEF c
  <2> QED
    BY <1>1, <2>1, <2>2
<1>3. b0 \in 1 .. c /\ BagIndex(v) \in Lists
  BY <1>2
<1>4. Pushed(pushed, bags[b0], BagIndex(v), edge)
  <2> HIDE DEF b0
  <2>1. GroupOK(bags[b0])
    BY <1>3 DEF BagsOK
  <2> QED
    BY <1>3, <2>1, PushBackPushes
<1>5. pushed \in Seq(Nat) /\ GroupOK(pushed)
  BY <1>4 DEF Pushed, GroupOK, Complete, Group
<1> HIDE DEF pushed
<1>6. /\ new \in Seq(Seq(Nat)) /\ Len(new) = c /\ new[b0] = pushed
      /\ \A b \in 1 .. c : b # b0 => new[b] = bags[b]
  <2>1. new = [bags EXCEPT ![b0] = pushed]
    BY DEF pushed
  <2> HIDE DEF b0
  <2>2. PICK W : W = Seq(Nat)
    OBVIOUS
  <2>3. bags \in Seq(W) /\ pushed \in W /\ b0 \in 1 .. Len(bags)
    BY <1>1, <1>3, <1>5, <2>2
  <2>4. /\ [bags EXCEPT ![b0] = pushed] \in Seq(W) /\ Len([bags EXCEPT ![b0] = pushed]) = Len(bags)
        /\ [bags EXCEPT ![b0] = pushed][b0] = pushed
        /\ \A i \in 1 .. Len(bags) : i # b0 => [bags EXCEPT ![b0] = pushed][i] = bags[i]
    BY <2>3
  <2> QED
    BY <2>1, <2>2, <2>4
<1>7. BagsOK(new, m)
  <2>1. \A b \in 1 .. c : GroupOK(new[b])
    <3> HIDE DEF b0
    <3> QED
      BY <1>5, <1>6 DEF BagsOK
  <2>2. ASSUME NEW b \in 1 .. c, NEW arr \in Lists, numArrays * (b - 1) + arr >= m
        PROVE  Bag(new[b], arr) = <<>>
    <3>1. Bag(bags[b], arr) = <<>>
      BY <2>2 DEF BagsOK
    <3>2. CASE b = b0 /\ arr = BagIndex(v)
      <4>1. b - 1 = BagId(v)
        BY <1>2, <3>2
      <4>2. v = numArrays * (b - 1) + arr /\ v < m /\ v \in Nat
        BY <1>2, <3>2, <4>1
      <4> QED
        BY <2>2, <4>2
    <3>3. CASE b = b0 /\ arr # BagIndex(v)
      BY <1>4, <1>6, <3>1, <3>3 DEF Pushed
    <3>4. CASE b # b0
      BY <1>6, <3>1, <3>4
    <3> QED
      BY <3>2, <3>3, <3>4
  <2> QED
    BY <1>1, <1>6, <2>1, <2>2 DEF BagsOK
<1>8. ASSUME NEW u \in 0 .. m - 1
      PROVE  ListOf(new, u) = IF u = v THEN Append(ListOf(bags, u), edge) ELSE ListOf(bags, u)
  <2>1. CASE u = v
    BY <1>4, <1>6, <2>1 DEF Pushed, ListOf
  <2>2. CASE BagId(u) + 1 # b0
    BY <1>2, <1>6, <2>2 DEF ListOf
  <2>3. CASE u # v /\ BagId(u) + 1 = b0
    <3>1. BagId(u) = BagId(v)
      BY <1>2, <2>3
    <3>2. BagIndex(u) # BagIndex(v)
      BY <1>2, <2>3, <3>1
    <3> QED
      BY <1>2, <1>4, <1>6, <2>3, <3>2 DEF Pushed, ListOf
  <2> QED
    BY <2>1, <2>2, <2>3
<1> QED
  BY <1>6, <1>7, <1>8 DEF PushedInto
-----------------------------------------------------------------------------
(* The naive program and the proofs about it, on the graph in the bags.    *)
P == INSTANCE NaiveGraph_proofs WITH node_list  <- Nodes,
                                     follows_in <- program.follows_in,
                                     pc         <- IF pc = "abort" THEN "load" ELSE pc

BagsInv ==
  /\ BagsOK(in_bags, number_of_vertices) /\ BagsOK(out_bags, number_of_vertices)
  /\ Len(in_bags) = Len(out_bags)
  /\ node_types \in Seq(Nat) /\ node_ts \in Seq(Timestamp) /\ Len(node_ts) = Len(node_types)
  /\ program \in Programs
  /\ pc \in {"load", "roots", "while", "edges", "done", "exit", "abort"}
  /\ pc \in {"load", "exit", "abort"} => visited = <<>>

LEMMA NodesAre ==
  ASSUME BagsInv
  PROVE  /\ number_of_vertices \in Nat /\ Len(Nodes) = number_of_vertices
         /\ \A v \in Vertices :
              /\ v \in Nat /\ v < number_of_vertices /\ v + 1 \in 1 .. number_of_vertices
              /\ Nodes[v + 1].in = ListOf(in_bags, v) /\ Nodes[v + 1].out = ListOf(out_bags, v)
         /\ P!n = number_of_vertices /\ P!Vertices = Vertices
         /\ \A v \in Vertices : P!In(v) = In(v) /\ P!Out(v) = Out(v)
<1>1. number_of_vertices \in Nat
  BY DEF BagsInv, number_of_vertices
<1>2. Len(Nodes) = number_of_vertices
  BY <1>1 DEF Nodes
<1>3. ASSUME NEW v \in Vertices
      PROVE  /\ v \in Nat /\ v < number_of_vertices /\ v + 1 \in 1 .. number_of_vertices
             /\ Nodes[v + 1].in = In(v) /\ Nodes[v + 1].out = Out(v)
  <2>1. v \in Nat /\ v < number_of_vertices /\ v + 1 \in 1 .. number_of_vertices /\ (v + 1) - 1 = v
    BY <1>1 DEF Vertices
  <2> QED
    BY <2>1 DEF Nodes
<1> QED
  BY <1>1, <1>2, <1>3 DEF P!n, P!Vertices, Vertices, P!In, P!Out, In, Out, ListOf

LEMMA VertexEffect ==
  ASSUME BagsInv, NEW v, NEW type \in Nat, NEW ts \in Timestamp, InsertVertex(v, type, ts)
  PROVE  /\ BagsInv' /\ v = number_of_vertices /\ number_of_vertices' = number_of_vertices + 1
         /\ \A u \in 0 .. number_of_vertices :
              /\ In(u)'  = IF u < number_of_vertices THEN In(u) ELSE <<>>
              /\ Out(u)' = IF u < number_of_vertices THEN Out(u) ELSE <<>>
         /\ pc = "load"
<1> DEFINE m == number_of_vertices
<1>1. /\ m \in Nat /\ BagsOK(in_bags, m) /\ BagsOK(out_bags, m) /\ Len(in_bags) = Len(out_bags)
      /\ node_types \in Seq(Nat) /\ node_ts \in Seq(Timestamp)
  BY DEF BagsInv, number_of_vertices
<1>2. /\ pc = "load" /\ v = m /\ node_types' = Append(node_types, type)
      /\ node_ts' = Append(node_ts, ts) /\ pc' = pc /\ visited' = visited /\ program' = program
      /\ in_bags'  = IF m \div numArrays >= Len(in_bags) THEN Append(in_bags, NewGroup) ELSE in_bags
      /\ out_bags' = IF m \div numArrays >= Len(out_bags) THEN Append(out_bags, NewGroup) ELSE out_bags
  BY <1>1 DEF InsertVertex, NeedsBag, searchVars
<1>3. /\ m' = m + 1 /\ node_types' \in Seq(Nat) /\ node_ts' \in Seq(Timestamp)
      /\ Len(node_ts') = Len(node_types')
  BY <1>1, <1>2 DEF number_of_vertices, BagsInv
<1> HIDE DEF m
<1>4. /\ BagsOK(in_bags', m + 1)
      /\ \A u \in 0 .. m : ListOf(in_bags', u) = IF u < m THEN ListOf(in_bags, u) ELSE <<>>
  BY <1>1, <1>2, GrowBags
<1>5. /\ BagsOK(out_bags', m + 1)
      /\ \A u \in 0 .. m : ListOf(out_bags', u) = IF u < m THEN ListOf(out_bags, u) ELSE <<>>
  BY <1>1, <1>2, GrowBags
<1>6. Len(in_bags') = Len(out_bags')
  <2>1. in_bags \in Seq(Seq(Nat)) /\ out_bags \in Seq(Seq(Nat)) /\ NewGroup \in Seq(Nat)
    BY <1>1, NewGroupIs DEF BagsOK, Group
  <2> QED
    BY <1>1, <1>2, <2>1
<1>7. BagsInv'
  BY <1>2, <1>3, <1>4, <1>5, <1>6 DEF BagsInv, m
<1> QED
  BY <1>2, <1>3, <1>4, <1>5, <1>7 DEF In, Out, ListOf, m

LEMMA EdgeEffect ==
  ASSUME BagsInv, NEW v1 \in Vertices, NEW v2 \in Vertices, NEW type \in Nat, NEW ts \in Timestamp,
         InsertEdge(v1, v2, type, ts)
  PROVE  /\ BagsInv' /\ number_of_vertices' = number_of_vertices
         /\ \A u \in Vertices :
              /\ In(u)'  = IF u = v2 THEN Append(In(u), Edge(v1, type, ts)) ELSE In(u)
              /\ Out(u)' = IF u = v1 THEN Append(Out(u), Edge(v2, type, ts)) ELSE Out(u)
         /\ pc = "load"
<1> DEFINE m == number_of_vertices
           e1 == Edge(v1, type, ts)
           e2 == Edge(v2, type, ts)
           vector == program.vector
<1>1. /\ m \in Nat /\ BagsOK(in_bags, m) /\ BagsOK(out_bags, m) /\ Len(in_bags) = Len(out_bags)
  BY DEF BagsInv, number_of_vertices
<1>2. v1 \in 0 .. m - 1 /\ v2 \in 0 .. m - 1 /\ v1 \in Nat /\ v2 \in Nat
  BY <1>1 DEF Vertices
<1>3. e1 \in WordEdges /\ e2 \in WordEdges
  BY <1>2, TimestampAssumption DEF Edge, WordEdges
<1>4. vector \in Vectors
  <2>1. program \in [vector : {"flex", "stl", "words"}, follows_in : BOOLEAN]
    BY ProgramsAssumption DEF BagsInv
  <2> QED
    BY <2>1 DEF Vectors
<1>5. /\ pc = "load" /\ node_types' = node_types /\ node_ts' = node_ts /\ m' = m
      /\ pc' = pc /\ visited' = visited /\ program' = program
      /\ in_bags'  = [in_bags EXCEPT ![BagId(v2) + 1] = PushBackBag(vector, @, BagIndex(v2), e1)]
      /\ out_bags' = [out_bags EXCEPT ![BagId(v1) + 1] = PushBackBag(vector, @, BagIndex(v1), e2)]
  BY DEF InsertEdge, searchVars, PushBack, number_of_vertices
<1> HIDE DEF m, e1, e2, vector
<1>6. PushedInto(in_bags', in_bags, m, v2, e1)
  BY <1>1, <1>2, <1>3, <1>4, <1>5, PushBackBags
<1>7. PushedInto(out_bags', out_bags, m, v1, e2)
  BY <1>1, <1>2, <1>3, <1>4, <1>5, PushBackBags
<1>8. BagsInv'
  BY <1>1, <1>5, <1>6, <1>7 DEF BagsInv, PushedInto, m
<1> QED
  BY <1>5, <1>6, <1>7, <1>8 DEF Vertices, PushedInto, In, Out, ListOf, m, e1, e2
-----------------------------------------------------------------------------
(* Every step is one of the naive program, or none.                        *)
LEMMA NaiveVertex ==
  ASSUME BagsInv, Nodes \in Seq(P!NodeSet), NEW v, NEW type \in Nat, NEW ts \in Timestamp,
         InsertVertex(v, type, ts)
  PROVE  Nodes' = Append(Nodes, P!Node(type, ts, <<>>, <<>>))
<1> DEFINE m == number_of_vertices
           new == P!Node(type, ts, <<>>, <<>>)
<1>1. /\ m \in Nat /\ Len(Nodes) = m /\ v = m /\ m' = m + 1
      /\ node_types \in Seq(Nat) /\ node_ts \in Seq(Timestamp)
      /\ Len(node_types) = m /\ Len(node_ts) = m
      /\ node_types' = Append(node_types, type) /\ node_ts' = Append(node_ts, ts)
  BY NodesAre, VertexEffect DEF BagsInv, InsertVertex, number_of_vertices
<1>2. \A u \in 0 .. m :
         /\ In(u)'  = IF u < m THEN In(u) ELSE <<>>
         /\ Out(u)' = IF u < m THEN Out(u) ELSE <<>>
  BY VertexEffect
<1>3. new \in P!NodeSet /\ new = [type |-> type, timestamp |-> ts, in |-> <<>>, out |-> <<>>]
  BY DEF P!Node, P!NodeSet
<1>4. /\ Len(Nodes') = m + 1 /\ DOMAIN Nodes' = 1 .. m + 1
      /\ \A k \in 1 .. m + 1 :
           Nodes'[k] = [type |-> node_types'[k], timestamp |-> node_ts'[k],
                        in |-> In(k - 1)', out |-> Out(k - 1)']
  BY <1>1 DEF Nodes
<1>5. \A k \in 1 .. m : Nodes[k] = [type |-> node_types[k], timestamp |-> node_ts[k],
                                    in |-> In(k - 1), out |-> Out(k - 1)]
  BY DEF Nodes
<1> HIDE DEF m, new
<1>6. ASSUME NEW k \in 1 .. m PROVE Nodes'[k] = Nodes[k]
  <2>1. k \in 1 .. m + 1 /\ k - 1 \in 0 .. m /\ k - 1 < m
    BY <1>1
  <2>2. In(k - 1)' = In(k - 1) /\ Out(k - 1)' = Out(k - 1)
    BY <1>2, <2>1
  <2>3. node_types'[k] = node_types[k] /\ node_ts'[k] = node_ts[k]
    BY <1>1
  <2> QED
    BY <1>4, <1>5, <2>1, <2>2, <2>3
<1>7. ASSUME NEW k \in Nat, k = m + 1 PROVE Nodes'[k] = new
  <2>1. k \in 1 .. m + 1 /\ k - 1 = m /\ k - 1 \in 0 .. m /\ ~(k - 1 < m)
    BY <1>1, <1>7
  <2>2. In(k - 1)' = <<>> /\ Out(k - 1)' = <<>>
    BY <1>2, <2>1
  <2>3. node_types'[k] = type /\ node_ts'[k] = ts
    BY <1>1, <1>7
  <2> QED
    BY <1>3, <1>4, <2>1, <2>2, <2>3
<1>8. /\ Append(Nodes, new) \in Seq(P!NodeSet) /\ Len(Append(Nodes, new)) = m + 1
      /\ \A k \in 1 .. m : Append(Nodes, new)[k] = Nodes[k]
      /\ Append(Nodes, new)[m + 1] = new
  BY <1>1, <1>3
<1>9. \A k \in 1 .. m + 1 : k \in 1 .. m \/ k = m + 1
  BY <1>1
<1>10. \A k \in 1 .. m + 1 : Nodes'[k] = Append(Nodes, new)[k]
  BY <1>1, <1>6, <1>7, <1>8, <1>9
<1>11. Nodes' = [k \in 1 .. m + 1 |-> Append(Nodes, new)[k]]
  <2>1. Nodes' = [k \in 1 .. m + 1 |-> Nodes'[k]]
    BY <1>1 DEF Nodes, m
  <2> QED
    BY <1>10, <2>1
<1>12. Nodes' = Append(Nodes, new)
  <2>1. PICK s : s = Append(Nodes, new)
    OBVIOUS
  <2>2. s \in Seq(P!NodeSet) /\ Len(s) = m + 1
    BY <1>8, <2>1
  <2>3. s = [k \in 1 .. m + 1 |-> s[k]]
    BY <2>2
  <2> QED
    BY <1>11, <2>1, <2>3
<1> QED
  BY <1>12 DEF new

LEMMA NaiveEdge ==
  ASSUME BagsInv, P!GraphOK, NEW v1 \in Vertices, NEW v2 \in Vertices, NEW type \in Nat,
         NEW ts \in Timestamp, InsertEdge(v1, v2, type, ts)
  PROVE  Nodes' = P!WithEdge(v1, v2, type, ts)
<1> DEFINE m == number_of_vertices
           e1 == Edge(v1, type, ts)
           e2 == Edge(v2, type, ts)
           first == P!AddOutNeighbour(Nodes[v1 + 1], e2)
           mid == [Nodes EXCEPT ![v1 + 1] = first]
           second == P!AddInNeighbour(mid[v2 + 1], e1)
           with == [mid EXCEPT ![v2 + 1] = second]
<1>1. /\ m \in Nat /\ Len(Nodes) = m /\ m' = m /\ Nodes \in Seq(P!NodeSet)
      /\ node_types' = node_types /\ node_ts' = node_ts
      /\ v1 \in Nat /\ v2 \in Nat /\ v1 + 1 \in 1 .. m /\ v2 + 1 \in 1 .. m
      /\ DOMAIN Nodes = 1 .. m
  <2>1. Nodes \in Seq(P!NodeSet)
    BY DEF P!GraphOK
  <2>2. DOMAIN Nodes = 1 .. m
    BY DEF Nodes
  <2> QED
    BY <2>1, <2>2, NodesAre, EdgeEffect DEF InsertEdge
<1>2. \A u \in Vertices :
         /\ In(u)'  = IF u = v2 THEN Append(In(u), e1) ELSE In(u)
         /\ Out(u)' = IF u = v1 THEN Append(Out(u), e2) ELSE Out(u)
  BY EdgeEffect
<1>3. P!WithEdge(v1, v2, type, ts) = with
  BY DEF P!WithEdge, P!Edge, Edge
<1>4. Nodes' = [k \in 1 .. m |-> [type |-> node_types[k], timestamp |-> node_ts[k],
                                  in |-> In(k - 1)', out |-> Out(k - 1)']]
  BY <1>1 DEF Nodes
<1>5. \A k \in 1 .. m : Nodes[k] = [type |-> node_types[k], timestamp |-> node_ts[k],
                                    in |-> In(k - 1), out |-> Out(k - 1)]
  BY DEF Nodes
<1>6. /\ first = [type |-> node_types[v1 + 1], timestamp |-> node_ts[v1 + 1],
                  in |-> In(v1), out |-> Append(Out(v1), e2)]
      /\ mid = [k \in 1 .. m |-> IF k = v1 + 1 THEN first ELSE Nodes[k]]
  <2>1. (v1 + 1) - 1 = v1
    BY <1>1
  <2>2. Nodes[v1 + 1] = [type |-> node_types[v1 + 1], timestamp |-> node_ts[v1 + 1],
                         in |-> In(v1), out |-> Out(v1)]
    BY <1>1, <1>5, <2>1
  <2>3. first = [type |-> node_types[v1 + 1], timestamp |-> node_ts[v1 + 1],
                 in |-> In(v1), out |-> Append(Out(v1), e2)]
    BY <2>2 DEF P!AddOutNeighbour, P!Node
  <2> HIDE DEF first
  <2> QED
    BY <1>1, <2>3
<1> HIDE DEF first
<1>7. with = [k \in 1 .. m |-> IF k = v2 + 1 THEN second ELSE mid[k]]
  <2> HIDE DEF second
  <2>1. DOMAIN mid = 1 .. m
    BY <1>6
  <2> HIDE DEF mid
  <2> QED
    BY <2>1
<1> HIDE DEF mid
<1>8. ASSUME NEW k \in 1 .. m
      PROVE  with[k] = [type |-> node_types[k], timestamp |-> node_ts[k],
                        in |-> In(k - 1)', out |-> Out(k - 1)']
  <2>1. /\ k - 1 \in Vertices /\ (k - 1 = v1 <=> k = v1 + 1) /\ (k - 1 = v2 <=> k = v2 + 1)
    BY <1>1 DEF Vertices
  <2>2. mid[k] = [type |-> node_types[k], timestamp |-> node_ts[k],
                  in |-> In(k - 1), out |-> Out(k - 1)']
    <3>1. CASE k = v1 + 1
      <4>1. Out(k - 1)' = Append(Out(v1), e2) /\ In(k - 1) = In(v1)
        BY <1>2, <2>1, <3>1
      <4>2. mid[k] = first
        BY <1>6, <3>1
      <4> QED
        BY <1>6, <3>1, <4>1, <4>2
    <3>2. CASE k # v1 + 1
      BY <1>2, <1>5, <1>6, <2>1, <3>2
    <3> QED BY <3>1, <3>2
  <2>3. CASE k = v2 + 1
    <3>1. second = [type |-> node_types[k], timestamp |-> node_ts[k],
                    in |-> Append(In(k - 1), e1), out |-> Out(k - 1)']
      <4>1. /\ mid[v2 + 1].type = node_types[k] /\ mid[v2 + 1].timestamp = node_ts[k]
            /\ mid[v2 + 1].in = In(k - 1) /\ mid[v2 + 1].out = Out(k - 1)'
        BY <2>2, <2>3
      <4> QED
        BY <4>1 DEF P!AddInNeighbour, P!Node
    <3> HIDE DEF second
    <3> QED
      BY <1>2, <1>7, <2>1, <2>3, <3>1
  <2>4. CASE k # v2 + 1
    <3> HIDE DEF second
    <3> QED
      BY <1>2, <1>7, <2>1, <2>2, <2>4
  <2> QED
    BY <2>3, <2>4
<1>9. with = [k \in 1 .. m |-> with[k]]
  <2> HIDE DEF second
  <2> QED
    BY <1>7
<1> HIDE DEF with
<1> QED
  BY <1>3, <1>4, <1>8, <1>9

LEMMA GraphUnchanged ==
  ASSUME UNCHANGED <<graph, program>>
  PROVE  /\ Nodes' = Nodes /\ number_of_vertices' = number_of_vertices /\ program' = program
         /\ BagsOK(in_bags, number_of_vertices)' = BagsOK(in_bags, number_of_vertices)
         /\ BagsOK(out_bags, number_of_vertices)' = BagsOK(out_bags, number_of_vertices)
BY DEF graph, Nodes, number_of_vertices, In, Out, BagsOK

LEMMA ProgramType ==
  ASSUME BagsInv PROVE program.follows_in \in BOOLEAN
<1>1. program \in [vector : {"flex", "stl", "words"}, follows_in : BOOLEAN]
  BY ProgramsAssumption DEF BagsInv
<1> QED
  BY <1>1

LEMMA LoadRefines ==
  ASSUME BagsInv, P!GraphOK, LoadGraph
  PROVE  BagsInv' /\ (P!LoadGraph \/ UNCHANGED P!vars)
<1>1. /\ P!n = number_of_vertices /\ P!Vertices = Vertices /\ number_of_vertices \in Nat
      /\ Nodes \in Seq(P!NodeSet)
  BY NodesAre DEF P!GraphOK
<1>2. /\ \A text \in DOMAIN VertexStrToEnum :
           VertexStrToEnum[text] \in Nat /\ P!VertexStrToEnum[text] = VertexStrToEnum[text]
      /\ \A text \in DOMAIN EdgeStrToEnum :
           EdgeStrToEnum[text] \in Nat /\ P!EdgeStrToEnum[text] = EdgeStrToEnum[text]
      /\ DOMAIN P!VertexStrToEnum = DOMAIN VertexStrToEnum /\ DOMAIN P!EdgeStrToEnum = DOMAIN EdgeStrToEnum
  BY DEF VertexStrToEnum, EdgeStrToEnum, P!VertexStrToEnum, P!EdgeStrToEnum
<1>3. PICK ts \in Timestamp :
        \/ \E v \in 0 .. MaxVertices, text \in VertexText :
             /\ text \in DOMAIN VertexStrToEnum
             /\ InsertVertex(v, VertexStrToEnum[text], ts) \/ WrongVertex(v)
        \/ \E v1, v2 \in Vertices, text \in EdgeText :
             /\ text \in DOMAIN EdgeStrToEnum
             /\ InsertEdge(v1, v2, EdgeStrToEnum[text], ts)
        \/ MalformedLine
  BY DEF LoadGraph
<1>4. ASSUME NEW v \in 0 .. MaxVertices, NEW text \in VertexText, text \in DOMAIN VertexStrToEnum,
             InsertVertex(v, VertexStrToEnum[text], ts)
      PROVE  BagsInv' /\ P!LoadGraph
  <2> DEFINE type == VertexStrToEnum[text]
  <2>1. type \in Nat /\ type = P!VertexStrToEnum[text] /\ text \in DOMAIN P!VertexStrToEnum
    BY <1>2, <1>4
  <2>2. InsertVertex(v, type, ts)
    BY <1>4
  <2> HIDE DEF type
  <2>3. BagsInv' /\ v = number_of_vertices /\ pc = "load" /\ Nodes' = Append(Nodes, P!Node(type, ts, <<>>, <<>>))
    BY <1>1, <2>1, <2>2, VertexEffect, NaiveVertex
  <2>4. P!InsertVertex(v, type, ts)
    BY <1>1, <2>2, <2>3 DEF P!InsertVertex, InsertVertex, searchVars, P!searchVars
  <2>5. v \in 0 .. P!n
    BY <1>1, <2>3
  <2> QED
    BY <2>1, <2>3, <2>4, <2>5 DEF P!LoadGraph
<1>5. ASSUME NEW v \in 0 .. MaxVertices, WrongVertex(v)
      PROVE  BagsInv' /\ UNCHANGED P!vars
  <2>1. /\ UNCHANGED <<graph, program>> /\ pc = "load" /\ pc' = "abort" /\ UNCHANGED searchButPc
    BY <1>5 DEF WrongVertex
  <2>2. BagsInv'
    BY <2>1, GraphUnchanged DEF BagsInv, searchButPc, graph
  <2> QED
    BY <2>1, <2>2, GraphUnchanged DEF P!vars, P!searchVars, searchButPc
<1>6. ASSUME NEW v1 \in Vertices, NEW v2 \in Vertices, NEW text \in EdgeText, text \in DOMAIN EdgeStrToEnum,
             InsertEdge(v1, v2, EdgeStrToEnum[text], ts)
      PROVE  BagsInv' /\ P!LoadGraph
  <2> DEFINE type == EdgeStrToEnum[text]
  <2>1. type \in Nat /\ type = P!EdgeStrToEnum[text] /\ text \in DOMAIN P!EdgeStrToEnum
    BY <1>2, <1>6
  <2>2. InsertEdge(v1, v2, type, ts)
    BY <1>6
  <2> HIDE DEF type
  <2>3. BagsInv' /\ pc = "load" /\ Nodes' = P!WithEdge(v1, v2, type, ts)
    BY <2>1, <2>2, EdgeEffect, NaiveEdge
  <2>4. v1 \in 0 .. P!n /\ v2 \in 0 .. P!n /\ P!n > v1 /\ P!n > v2
    BY <1>1 DEF Vertices
  <2>5. P!InsertEdge(v1, v2, type, ts)
    BY <2>2, <2>3, <2>4 DEF P!InsertEdge, InsertEdge, searchVars, P!searchVars
  <2> QED
    BY <2>1, <2>3, <2>4, <2>5 DEF P!LoadGraph
<1>7. ASSUME MalformedLine
      PROVE  BagsInv' /\ P!LoadGraph
  <2>1. UNCHANGED <<graph, program>> /\ pc = "load" /\ pc' = "exit" /\ UNCHANGED searchButPc
    BY <1>7 DEF MalformedLine, Exit
  <2>2. BagsInv'
    BY <2>1, GraphUnchanged DEF BagsInv, searchButPc, graph
  <2>3. P!MalformedLine
    BY <2>1, GraphUnchanged DEF P!MalformedLine, P!Exit, P!searchButPc, searchButPc
  <2> QED
    BY <2>2, <2>3 DEF P!LoadGraph
<1> QED
  BY <1>3, <1>4, <1>5, <1>6, <1>7

(* The search reads the same edges.                                        *)
LEMMA SameFollowed ==
  ASSUME BagsInv, NEW v \in Vertices
  PROVE  P!Followed(v) = Followed(v)
<1>1. P!In(v) = In(v) /\ P!Out(v) = Out(v)
  BY NodesAre
<1> QED
  BY <1>1 DEF P!Followed, Followed, P!Targets, Targets

LEMMA SearchRefines ==
  ASSUME BagsInv, P!Inv, ExtractConnectedComponents
  PROVE  BagsInv' /\ P!ExtractConnectedComponents
<1> DEFINE mapped == IF pc = "abort" THEN "load" ELSE pc
           targets == IF pc = "edges" THEN Followed(current) ELSE <<>>
           m == number_of_vertices
<1>1. UNCHANGED <<graph, program>> /\ Search(m, targets)
  BY DEF ExtractConnectedComponents
<1>2. pc # "abort" /\ pc' # "abort" /\ pc \in {"load", "roots", "while", "edges", "done", "exit"}
  BY <1>1 DEF Search, StartSearch, SkipRoot, EnterRoot, TakeFront, FollowEdge, EdgesFollowed,
              CloseComponent, Finish, BagsInv
<1>3. mapped = pc /\ mapped' = pc'
  BY <1>2
<1>4. P!n = m /\ P!Vertices = Vertices
  BY NodesAre
<1>5. targets = IF mapped = "edges" THEN P!Followed(current) ELSE <<>>
  <2>1. CASE pc = "edges"
    <3>1. P!GraphOK /\ P!SearchOK(P!n)
      BY DEF P!Inv, P!GraphInv, P!SearchInv
    <3>2. current \in P!Elements(component) /\ component \in Seq(0 .. m - 1)
      BY <1>2, <1>4, <2>1, <3>1 DEF P!SearchOK
    <3>3. current \in Vertices
      <4>1. \A k \in 1 .. Len(component) : component[k] \in 0 .. m - 1
        <5>1. PICK W : W = 0 .. m - 1
          OBVIOUS
        <5>2. component \in Seq(W)
          BY <3>2, <5>1
        <5>3. \A k \in 1 .. Len(component) : component[k] \in W
          BY <5>2
        <5> QED
          BY <5>1, <5>3
      <4> QED
        BY <3>2, <4>1 DEF P!Elements, Vertices, m
    <3> QED
      BY <1>3, <2>1, <3>3, SameFollowed
  <2>2. CASE pc # "edges"
    BY <1>3, <2>2
  <2> QED
    BY <2>1, <2>2
<1> HIDE DEF targets
<1>6. P!Search(m, targets)
  <2> HIDE DEF m
  <2> QED
    BY <1>1, <1>2 DEF Search, StartSearch, SkipRoot, EnterRoot, TakeFront, FollowEdge, EdgesFollowed,
              CloseComponent, Finish, P!Search, P!StartSearch, P!SkipRoot, P!EnterRoot, P!TakeFront,
              P!FollowEdge, P!EdgesFollowed, P!CloseComponent, P!Finish, searchButPc, P!searchButPc
<1>7. P!ExtractConnectedComponents
  BY <1>1, <1>4, <1>5, <1>6, GraphUnchanged DEF P!ExtractConnectedComponents
<1>8. /\ pc' \in {"load", "roots", "while", "edges", "done", "exit", "abort"}
      /\ pc' \in {"load", "exit", "abort"} => visited' = <<>>
  BY <1>1, <1>2 DEF Search, StartSearch, SkipRoot, EnterRoot, TakeFront, FollowEdge, EdgesFollowed,
              CloseComponent, Finish, BagsInv, searchButPc
<1>9. BagsInv'
  BY <1>1, <1>8, GraphUnchanged DEF BagsInv, graph
<1> QED
  BY <1>7, <1>9
-----------------------------------------------------------------------------
(* The inductive invariant: that of the naive program, on the graph in the *)
(* bags, and what the bags look like.                                      *)
Inv == BagsInv /\ P!Inv

LEMMA InitRefines ==
  ASSUME Init PROVE BagsInv /\ P!Init
<1>1. /\ in_bags = <<>> /\ out_bags = <<>> /\ node_types = <<>> /\ node_ts = <<>>
      /\ program \in Programs /\ pc = "load" /\ visited = <<>> /\ number_of_vertices = 0
  BY DEF Init, InitSearch, number_of_vertices
<1>2. BagsOK(<<>>, 0)
  <2>1. <<>> \in Seq(Seq(Nat)) /\ Len(<<>>) = 0
    OBVIOUS
  <2>2. 0 <= numArrays * 0
    BY NumArraysAssumption
  <2> QED
    BY <2>1, <2>2 DEF BagsOK
<1>3. BagsInv
  BY <1>1, <1>2 DEF BagsInv
<1>4. Nodes = <<>>
  BY <1>1 DEF Nodes
<1>5. P!Init
  BY <1>1, <1>3, <1>4, ProgramType DEF Init, InitSearch, P!Init, P!InitSearch
<1> QED
  BY <1>3, <1>5

LEMMA NextRefines ==
  ASSUME Inv, [Next]_vars
  PROVE  BagsInv' /\ [P!Next]_P!vars
<1>1. BagsInv /\ P!Inv /\ P!GraphOK
  BY DEF Inv, P!Inv, P!GraphInv
<1>2. CASE LoadGraph
  BY <1>1, <1>2, LoadRefines DEF P!Next
<1>3. CASE ExtractConnectedComponents
  BY <1>1, <1>3, SearchRefines DEF P!Next
<1>4. CASE UNCHANGED vars
  <2>1. UNCHANGED <<graph, program>> /\ UNCHANGED searchVars
    BY <1>4 DEF vars
  <2> QED
    BY <1>1, <2>1, GraphUnchanged DEF BagsInv, graph, searchVars, P!vars, P!searchVars
<1> QED
  BY <1>2, <1>3, <1>4 DEF Next

LEMMA InvInductive == Spec => []Inv
<1>1. Init => Inv
  BY InitRefines, P!Initial DEF Inv
<1>2. Inv /\ [Next]_vars => Inv'
  <2> SUFFICES ASSUME Inv, [Next]_vars PROVE Inv'
    OBVIOUS
  <2>1. BagsInv' /\ [P!Next]_P!vars
    BY NextRefines
  <2>2. P!Inv
    BY DEF Inv
  <2>3. P!Inv'
    BY <2>1, <2>2, P!Inductive
  <2> QED
    BY <2>1, <2>3 DEF Inv
<1> QED
  BY <1>1, <1>2, PTL DEF Spec

LEMMA NaiveSteps == Spec => P!Spec
<1>1. Init => P!Init
  BY InitRefines
<1>2. Inv /\ [Next]_vars => [P!Next]_P!vars
  BY NextRefines
<1> QED
  BY <1>1, <1>2, InvInductive, PTL DEF Spec, P!Spec

(* The programs with bags implement the naive one, for any number of lists *)
(* in a bag and any of the three vectors: an edge put behind those of its  *)
(* vertex, in front of those of others, comes back as if each vertex had   *)
(* lists of its own.                                                       *)
THEOREM Refinement == Spec => ImplementsGraph
<1>4. P!Init => Naive!Init
  BY DEF P!Init, Naive!Init, P!InitSearch, Naive!InitSearch
<1>5. UNCHANGED P!vars => UNCHANGED Naive!vars
  BY DEF P!vars, Naive!vars, P!searchVars, Naive!searchVars
<1>6. P!LoadGraph => Naive!LoadGraph
  BY DEF P!LoadGraph, Naive!LoadGraph, P!InsertVertex, Naive!InsertVertex, P!InsertEdge, Naive!InsertEdge,
         P!UnableToInsert, Naive!UnableToInsert, P!MalformedLine, Naive!MalformedLine, P!Exit, Naive!Exit,
         P!WithEdge, Naive!WithEdge, P!AddInNeighbour, Naive!AddInNeighbour,
         P!AddOutNeighbour, Naive!AddOutNeighbour, P!Node, Naive!Node, P!Edge, Naive!Edge,
         P!VertexStrToEnum, Naive!VertexStrToEnum, P!EdgeStrToEnum, Naive!EdgeStrToEnum, P!n, Naive!n,
         P!searchVars, Naive!searchVars, P!searchButPc, Naive!searchButPc
<1>7. P!ExtractConnectedComponents => Naive!ExtractConnectedComponents
  BY DEF P!ExtractConnectedComponents, Naive!ExtractConnectedComponents, P!Search, Naive!Search,
         P!StartSearch, Naive!StartSearch, P!SkipRoot, Naive!SkipRoot, P!EnterRoot, Naive!EnterRoot,
         P!TakeFront, Naive!TakeFront, P!FollowEdge, Naive!FollowEdge, P!EdgesFollowed, Naive!EdgesFollowed,
         P!CloseComponent, Naive!CloseComponent, P!Finish, Naive!Finish, P!n, Naive!n,
         P!searchButPc, Naive!searchButPc, P!Followed, Naive!Followed, P!Targets, Naive!Targets,
         P!In, Naive!In, P!Out, Naive!Out
<1>8. [P!Next]_P!vars => [Naive!Next]_Naive!vars
  BY <1>5, <1>6, <1>7 DEF P!Next, Naive!Next
<1> QED
  BY <1>4, <1>8, NaiveSteps, PTL DEF ImplementsGraph, Naive!Spec, P!Spec

LEMMA GroupComplete ==
  ASSUME NEW bv, GroupOK(bv)
  PROVE  bv \in Seq(Nat) /\ GetArrayRange(bv, numArrays - 1).right = Len(bv)
<1>1. PICK f : Group(bv, f) /\ f[numArrays] = Len(bv)
  BY DEF GroupOK, Complete
<1>2. numArrays - 1 \in Lists /\ (numArrays - 1) + 1 = numArrays
  BY NumArraysAssumption DEF Lists
<1>3. PICK arr \in Lists : arr = numArrays - 1 /\ arr + 1 = numArrays
  BY <1>2
<1>4. GetArrayRange(bv, arr).right = f[arr + 1]
  BY <1>1, RangeIs
<1>5. bv \in Seq(Nat)
  BY <1>1 DEF Group
<1> QED
  BY <1>1, <1>3, <1>4, <1>5

LEMMA SearchTypesHere ==
  ASSUME Inv
  PROVE  /\ DOMAIN visited \subseteq Vertices
         /\ Elements(queue) \cup Elements(component) \subseteq Vertices
<1> DEFINE m == number_of_vertices
<1>1. P!SearchOK(m) /\ m \in Nat
  BY NodesAre DEF Inv, P!Inv, P!SearchInv
<1>2. Vertices = 0 .. m - 1
  BY DEF Vertices
<1> HIDE DEF m
<1>3. queue \in Seq(0 .. m - 1) /\ component \in Seq(0 .. m - 1)
  BY <1>1 DEF P!SearchOK
<1>4. DOMAIN visited \subseteq Vertices
  <2>1. CASE pc \in {"load", "exit", "abort"}
    <3>1. visited = <<>>
      BY <2>1 DEF Inv, BagsInv
    <3> QED
      BY <3>1
  <2>2. CASE pc \notin {"load", "exit", "abort"}
    <3>1. P!Searching
      BY <2>2 DEF P!Searching
    <3> QED
      BY <1>1, <1>2, <3>1 DEF P!SearchOK
  <2> QED
    BY <2>1, <2>2
<1> HIDE DEF Vertices
<1>5. PICK W : W = 0 .. m - 1
  OBVIOUS
<1>6. queue \in Seq(W) /\ component \in Seq(W)
  BY <1>3, <1>5
<1>7. Elements(queue) \subseteq W /\ Elements(component) \subseteq W
  BY <1>6 DEF Elements
<1> QED
  BY <1>2, <1>4, <1>5, <1>7

(* However the lines that insert vertices and edges are mixed, the lengths *)
(* at the start of every group account for all its words, and there are    *)
(* bags for all the vertices.                                              *)
THEOREM BagsCompleteCorrect == Spec => []BagsComplete
<1>1. ASSUME Inv PROVE BagsComplete
  <2>1. BagsInv
    BY <1>1 DEF Inv
  <2>2. \A b \in 1 .. Len(in_bags) :
          /\ GroupOK(in_bags[b]) /\ GroupOK(out_bags[b])
    BY <2>1 DEF BagsInv, BagsOK
  <2>3. \A b \in 1 .. Len(in_bags) :
          /\ in_bags[b] \in Seq(Nat) /\ out_bags[b] \in Seq(Nat)
          /\ GetArrayRange(in_bags[b], numArrays - 1).right = Len(in_bags[b])
          /\ GetArrayRange(out_bags[b], numArrays - 1).right = Len(out_bags[b])
    BY <2>2, GroupComplete
  <2>4. TypeOK
    BY <1>1, <2>1, <2>3, SearchTypesHere DEF BagsInv, TypeOK
  <2>5. number_of_vertices <= numArrays * Len(in_bags)
    BY <2>1 DEF BagsInv, BagsOK
  <2> QED
    BY <2>3, <2>4, <2>5 DEF BagsComplete
<1> QED
  BY <1>1, InvInductive, PTL

(* In the bags, too, the two lists of an edge tell of each other, and what *)
(* the search puts together can be reached from its root.                  *)
THEOREM SearchesGraphCorrect == Spec => []SearchesGraph
<1>2. P!Spec => []P!Mirrored
  BY P!MirroredCorrect
<1>3. P!Spec => []P!OnlyReachable
  BY P!OnlyReachableCorrect
<1>4. P!Mirrored /\ P!OnlyReachable => SearchesGraph
  BY DEF SearchesGraph, P!Mirrored, Naive!Mirrored, P!OnlyReachable, Naive!OnlyReachable, P!Closed, Naive!Closed,
         P!Followed, Naive!Followed, P!Targets, Naive!Targets, P!In, Naive!In, P!Out, Naive!Out,
         P!Vertices, Naive!Vertices, P!n, Naive!n, P!Elements, Naive!Elements
<1> QED
  BY <1>2, <1>3, <1>4, NaiveSteps, PTL

(* The programs that follow the edges both ways find the connected         *)
(* components of every graph.                                              *)
THEOREM FindsComponentsCorrect == Spec => []FindsComponents
<1>2. P!Spec => []P!FindsComponents
  BY P!FindsComponentsCorrect
<1>3. P!FindsComponents => FindsComponents
  BY DEF FindsComponents, P!FindsComponents, Naive!FindsComponents, P!Closed, Naive!Closed,
         P!Followed, Naive!Followed, P!Targets, Naive!Targets, P!In, Naive!In, P!Out, Naive!Out,
         P!Vertices, Naive!Vertices, P!n, Naive!n, P!Elements, Naive!Elements
<1> QED
  BY <1>2, <1>3, NaiveSteps, PTL

(* No vertex is put into two components or twice into one.                 *)
THEOREM EachOnceCorrect == Spec => []EachOnce
<1>1. ASSUME Inv PROVE EachOnce
  <2>1. P!EachOnce /\ BagsInv
    BY <1>1 DEF Inv, P!Inv, P!SearchInv
  <2>2. CASE pc = "abort"
    <3>1. DOMAIN visited = {}
      BY <2>1, <2>2 DEF BagsInv
    <3> QED
      BY <2>1, <3>1 DEF EachOnce, P!EachOnce, Once, P!Once, Apart, P!Apart, Elements, P!Elements
  <2>3. CASE pc # "abort"
    BY <2>1, <2>3 DEF EachOnce, P!EachOnce, Once, P!Once, Apart, P!Apart, Elements, P!Elements
  <2> QED
    BY <2>2, <2>3
<1> QED
  BY <1>1, InvInductive, PTL
=============================================================================
