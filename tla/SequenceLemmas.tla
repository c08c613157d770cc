--------------------------- MODULE SequenceLemmas ---------------------------
(***************************************************************************)
(* Facts about the two data structures the kernel's queues are built from, *)
(* for every module that has one: a wait queue, as a sequence no task is   *)
(* in twice, and a ring of N slots, read from its head. And what a finite  *)
(* set of tasks has more or less than another.                             *)
(***************************************************************************)
EXTENDS Integers, Sequences, SequencesExt, SequenceTheorems, FiniteSetTheorems, TLAPS

-----------------------------------------------------------------------------
(* Sequences without one of their elements.                                *)

LEMMA RemoveAtIndexed ==
    ASSUME NEW S, NEW q \in Seq(S), NEW i \in 1 .. Len(q)
    PROVE  /\ RemoveAt(q, i) \in Seq(S)
           /\ Len(RemoveAt(q, i)) = Len(q) - 1
           /\ \A j \in 1 .. Len(q) - 1 :
                RemoveAt(q, i)[j] = IF j < i THEN q[j] ELSE q[j + 1]
<1> DEFINE a == SubSeq(q, 1, i - 1)
           b == SubSeq(q, i + 1, Len(q))
<1>1. Len(q) \in Nat /\ i \in Nat
  OBVIOUS
<1>2. a \in Seq(S) /\ Len(a) = i - 1 /\ \A j \in 1 .. i - 1 : a[j] = q[j]
  BY <1>1
<1>3. /\ b \in Seq(S) /\ Len(b) = Len(q) - i
      /\ \A j \in 1 .. Len(q) - i : b[j] = q[j + i]
  BY <1>1
<1>4. RemoveAt(q, i) = a \o b
  BY DEF RemoveAt
<1> HIDE DEF a, b
<1>5. /\ a \o b \in Seq(S) /\ Len(a \o b) = Len(a) + Len(b)
      /\ \A j \in 1 .. Len(a) + Len(b) :
            (a \o b)[j] = IF j <= Len(a) THEN a[j] ELSE b[j - Len(a)]
  BY <1>2, <1>3, ConcatProperties
<1>6. ASSUME NEW j \in 1 .. Len(q) - 1
      PROVE  (a \o b)[j] = IF j < i THEN q[j] ELSE q[j + 1]
  <2>1. j \in 1 .. Len(a) + Len(b) /\ j \in Nat
    BY <1>1, <1>2, <1>3
  <2>2. CASE j < i
    BY <2>1, <2>2, <1>1, <1>2, <1>5
  <2>3. CASE ~(j < i)
    <3> DEFINE k == j - Len(a)
    <3>1. k \in 1 .. Len(q) - i /\ k + i = j + 1 /\ ~(j <= Len(a))
      BY <2>1, <2>3, <1>1, <1>2
    <3>2. (a \o b)[j] = b[k]
      BY <2>1, <3>1, <1>5
    <3> HIDE DEF k
    <3>3. b[k] = q[j + 1]
      BY <3>1, <1>3
    <3> QED BY <2>3, <3>2, <3>3
  <2> QED BY <2>2, <2>3
<1> QED
  BY <1>1, <1>2, <1>3, <1>4, <1>5, <1>6

(* Taking a waiter out of a queue takes out that one and no other.         *)
LEMMA RemoveAtContains ==
    ASSUME NEW S, NEW q \in Seq(S), NEW i \in 1 .. Len(q), IsInjective(q)
    PROVE  /\ IsInjective(RemoveAt(q, i))
           /\ \A t : Contains(RemoveAt(q, i), t) <=> Contains(q, t) /\ t # q[i]
<1> DEFINE r == RemoveAt(q, i)
<1>1. /\ r \in Seq(S) /\ Len(r) = Len(q) - 1 /\ Len(q) \in Nat
      /\ \A j \in 1 .. Len(q) - 1 : r[j] = IF j < i THEN q[j] ELSE q[j + 1]
  BY RemoveAtIndexed
<1>2. DOMAIN r = 1 .. Len(q) - 1 /\ DOMAIN q = 1 .. Len(q)
  BY <1>1
<1> HIDE DEF r
<1>3. \A j, k \in 1 .. Len(q) : q[j] = q[k] => j = k
  BY <1>2 DEF IsInjective
<1>4. IsInjective(r)
  BY <1>1, <1>2, <1>3 DEF IsInjective
<1>5. ASSUME NEW t
      PROVE  Contains(r, t) <=> Contains(q, t) /\ t # q[i]
  <2>1. ASSUME Contains(r, t)  PROVE Contains(q, t) /\ t # q[i]
    <3>1. PICK j \in 1 .. Len(q) - 1 : r[j] = t
      BY <2>1, <1>1 DEF Contains
    <3>2. PICK k \in 1 .. Len(q) : k # i /\ q[k] = t
      BY <3>1, <1>1
    <3> QED BY <3>2, <1>3 DEF Contains
  <2>2. ASSUME Contains(q, t), t # q[i]  PROVE Contains(r, t)
    <3>1. PICK k \in 1 .. Len(q) : k # i /\ q[k] = t
      BY <2>2 DEF Contains
    <3> DEFINE j == IF k < i THEN k ELSE k - 1
    <3>2. j \in 1 .. Len(q) - 1 /\ r[j] = t
      BY <3>1, <1>1
    <3> QED BY <3>2, <1>1 DEF Contains
  <2> QED BY <2>1, <2>2
<1> QED BY <1>4, <1>5 DEF r

(* Appending a waiter that is not in the queue.                            *)
LEMMA AppendContains ==
    ASSUME NEW S, NEW q \in Seq(S), NEW t \in S
    PROVE  /\ Append(q, t) \in Seq(S)
           /\ Len(Append(q, t)) = Len(q) + 1
           /\ \A u : Contains(Append(q, t), u) <=> Contains(q, u) \/ u = t
           /\ IsInjective(q) /\ ~Contains(q, t) => IsInjective(Append(q, t))
<1>1. /\ Append(q, t) \in Seq(S) /\ Len(Append(q, t)) = Len(q) + 1
      /\ Len(q) \in Nat /\ DOMAIN Append(q, t) = 1 .. Len(q) + 1
      /\ DOMAIN q = 1 .. Len(q)
  OBVIOUS
<1>2. /\ \A j \in 1 .. Len(q) : Append(q, t)[j] = q[j]
      /\ Append(q, t)[Len(q) + 1] = t
  OBVIOUS
<1>3. \A u : Contains(Append(q, t), u) <=> Contains(q, u) \/ u = t
  BY <1>1, <1>2 DEF Contains
<1>4. ASSUME IsInjective(q), ~Contains(q, t)
      PROVE  IsInjective(Append(q, t))
  BY <1>1, <1>2, <1>4 DEF IsInjective, Contains
<1> QED BY <1>1, <1>3, <1>4

(* Taking the first waiter out of a queue.                                 *)
LEMMA TailContains ==
    ASSUME NEW S, NEW q \in Seq(S), q # << >>
    PROVE  /\ Head(q) \in S /\ Tail(q) \in Seq(S) /\ Contains(q, Head(q))
           /\ \A t : Contains(Tail(q), t) => Contains(q, t)
           /\ \A t : Contains(q, t) /\ t # Head(q) => Contains(Tail(q), t)
           /\ IsInjective(q) => IsInjective(Tail(q)) /\ ~Contains(Tail(q), Head(q))
<1>1. /\ Len(q) \in Nat \ {0} /\ q[1] = Head(q) /\ DOMAIN q = 1 .. Len(q)
      /\ Tail(q) \in Seq(S) /\ Head(q) \in S
      /\ DOMAIN Tail(q) = 1 .. Len(q) - 1
      /\ \A i \in 1 .. Len(q) - 1 : Tail(q)[i] = q[i + 1]
  BY HeadTailProperties
<1>2. Contains(q, Head(q))
  BY <1>1 DEF Contains
<1>3. ASSUME NEW t, Contains(Tail(q), t)
      PROVE  \E i \in 2 .. Len(q) : q[i] = t
  <2>1. PICK i \in 1 .. Len(q) - 1 : Tail(q)[i] = t
    BY <1>1, <1>3 DEF Contains
  <2> QED BY <1>1, <2>1
<1>4. \A t : Contains(Tail(q), t) => Contains(q, t)
  BY <1>1, <1>3 DEF Contains
<1>5. ASSUME NEW t, Contains(q, t), t # Head(q)
      PROVE  Contains(Tail(q), t)
  <2>1. PICK i \in 1 .. Len(q) : q[i] = t
    BY <1>1, <1>5 DEF Contains
  <2>2. i - 1 \in 1 .. Len(q) - 1 /\ Tail(q)[i - 1] = t
    BY <1>1, <1>5, <2>1
  <2> QED BY <1>1, <2>2 DEF Contains
<1>6. ASSUME IsInjective(q)
      PROVE  IsInjective(Tail(q)) /\ ~Contains(Tail(q), Head(q))
  <2>1. IsInjective(Tail(q))
    BY <1>1, <1>6 DEF IsInjective
  <2>2. ~Contains(Tail(q), Head(q))
    BY <1>1, <1>3, <1>6 DEF IsInjective
  <2> QED BY <2>1, <2>2
<1> QED BY <1>1, <1>2, <1>4, <1>5, <1>6

-----------------------------------------------------------------------------
(* Rings of N slots.                                                       *)

(* The slot k places behind slot h.                                        *)
Slot(h, k, N) == (h + k) % N

LEMMA SlotValue ==
    ASSUME NEW N \in Nat \ {0}, NEW h \in 0 .. N - 1, NEW k \in 0 .. N
    PROVE  /\ Slot(h, k, N) = IF h + k < N THEN h + k ELSE h + k - N
           /\ Slot(h, k, N) \in 0 .. N - 1
<1>1. (h + k) % N = IF h + k < N THEN h + k ELSE h + k - N
  <2>1. CASE h + k < N
    BY <2>1
  <2>2. CASE ~(h + k < N)
    BY <2>2
  <2> QED BY <2>1, <2>2
<1>2. Slot(h, k, N) = IF h + k < N THEN h + k ELSE h + k - N
  BY <1>1 DEF Slot
<1> QED BY <1>2

(* Going on from the slot behind h, or one slot on from the k-th.          *)
LEMMA SlotNext ==
    ASSUME NEW N \in Nat \ {0}, NEW h \in 0 .. N - 1, NEW k \in 0 .. N - 1
    PROVE  /\ Slot(Slot(h, 1, N), k, N) = Slot(h, k + 1, N)
           /\ Slot(Slot(h, k, N), 1, N) = Slot(h, k + 1, N)
<1> DEFINE g == Slot(h, 1, N)
           f == Slot(h, k, N)
<1>1. 1 \in 0 .. N /\ k \in 0 .. N /\ k + 1 \in 0 .. N
  OBVIOUS
<1>2. /\ g = (IF h + 1 < N THEN h + 1 ELSE h + 1 - N) /\ g \in 0 .. N - 1
      /\ f = (IF h + k < N THEN h + k ELSE h + k - N) /\ f \in 0 .. N - 1
      /\ Slot(h, k + 1, N) = (IF h + (k + 1) < N THEN h + (k + 1)
                              ELSE h + (k + 1) - N)
  BY <1>1, SlotValue
<1> HIDE DEF f, g
<1>3. Slot(g, k, N) = (IF g + k < N THEN g + k ELSE g + k - N)
  BY <1>1, <1>2, SlotValue
<1>4. Slot(f, 1, N) = (IF f + 1 < N THEN f + 1 ELSE f + 1 - N)
  BY <1>1, <1>2, SlotValue
<1>5. Slot(g, k, N) = Slot(h, k + 1, N) /\ Slot(f, 1, N) = Slot(h, k + 1, N)
  BY <1>2, <1>3, <1>4
<1> QED BY <1>5 DEF f, g

(* The n elements, the oldest, in slot h, first.                           *)
RingContents(r, h, n, N) == [i \in 1 .. n |-> r[Slot(h, i - 1, N)]]

LEMMA RingContentsAt ==
    ASSUME NEW N \in Nat \ {0}, NEW r, NEW h \in 0 .. N - 1, NEW n \in 0 .. N
    PROVE  /\ Len(RingContents(r, h, n, N)) = n
           /\ \A i \in 1 .. n :
                RingContents(r, h, n, N)[i] = r[Slot(h, i - 1, N)]
BY DEF RingContents

LEMMA RingContentsType ==
    ASSUME NEW S, NEW N \in Nat \ {0}, NEW r \in [0 .. N - 1 -> S],
           NEW h \in 0 .. N - 1, NEW n \in 0 .. N
    PROVE  RingContents(r, h, n, N) \in Seq(S)
<1>1. ASSUME NEW i \in 1 .. n
      PROVE  r[Slot(h, i - 1, N)] \in S
  <2>1. i - 1 \in 0 .. N
    OBVIOUS
  <2>2. Slot(h, i - 1, N) \in 0 .. N - 1
    BY <2>1, SlotValue
  <2> QED BY <2>2
<1> QED BY <1>1 DEF RingContents

(* What is put into the slot behind the last element becomes the last.     *)
LEMMA RingContentsAppend ==
    ASSUME NEW N \in Nat \ {0}, NEW r, r = [i \in 0 .. N - 1 |-> r[i]],
           NEW h \in 0 .. N - 1, NEW n \in 0 .. N - 1, NEW v
    PROVE  RingContents([r EXCEPT ![Slot(h, n, N)] = v], h, n + 1, N)
               = Append(RingContents(r, h, n, N), v)
<1> DEFINE S == {r[i] : i \in 0 .. N - 1} \cup {v}
           k == Slot(h, n, N)
           rr == [r EXCEPT ![k] = v]
           s == RingContents(r, h, n, N)
           ss == RingContents(rr, h, n + 1, N)
<1>0. n \in 0 .. N /\ n + 1 \in 0 .. N
  OBVIOUS
<1>0a. r \in [0 .. N - 1 -> S] /\ v \in S
  OBVIOUS
<1> HIDE DEF S
<1>1. k \in 0 .. N - 1 /\ k = IF h + n < N THEN h + n ELSE h + n - N
  BY <1>0, SlotValue
<1>2. /\ rr \in [0 .. N - 1 -> S] /\ rr[k] = v
      /\ \A i \in 0 .. N - 1 : i # k => rr[i] = r[i]
  BY <1>0a, <1>1
<1>3. /\ s \in Seq(S) /\ Len(s) = n
      /\ \A i \in 1 .. n : s[i] = r[Slot(h, i - 1, N)]
  BY <1>0, <1>0a, RingContentsType, RingContentsAt
<1> HIDE DEF rr, s
<1>4. /\ ss \in Seq(S) /\ Len(ss) = n + 1
      /\ \A i \in 1 .. n + 1 : ss[i] = rr[Slot(h, i - 1, N)]
  BY <1>0, <1>2, RingContentsType, RingContentsAt
<1> HIDE DEF ss
<1>5. /\ Append(s, v) \in Seq(S) /\ Len(Append(s, v)) = n + 1
      /\ Append(s, v)[n + 1] = v
      /\ \A i \in 1 .. n : Append(s, v)[i] = s[i]
  BY <1>0a, <1>3
<1>6. ASSUME NEW i \in 1 .. n + 1
      PROVE  ss[i] = Append(s, v)[i]
  <2>1. CASE i = n + 1
    <3>1. i - 1 = n
      BY <2>1
    <3> QED BY <2>1, <3>1, <1>2, <1>4, <1>5
  <2>2. CASE i # n + 1
    <3>1. i \in 1 .. n /\ i - 1 \in 0 .. N
      BY <2>2
    <3>2. /\ Slot(h, i - 1, N) \in 0 .. N - 1
          /\ Slot(h, i - 1, N)
                = IF h + (i - 1) < N THEN h + (i - 1) ELSE h + (i - 1) - N
      BY <3>1, SlotValue
    <3>3. Slot(h, i - 1, N) # k
      BY <3>1, <3>2, <1>1
    <3>4. ss[i] = r[Slot(h, i - 1, N)]
      BY <1>2, <1>4, <3>1, <3>2, <3>3
    <3> QED BY <3>1, <3>4, <1>3, <1>5
  <2> QED BY <2>1, <2>2
<1>7. ss = Append(s, v)
  BY <1>4, <1>5, <1>6, SeqEqual
<1> QED BY <1>7 DEF ss, rr, s

(* Moving the head on takes the oldest element out.                        *)
LEMMA RingContentsTail ==
    ASSUME NEW N \in Nat \ {0}, NEW r, r = [i \in 0 .. N - 1 |-> r[i]],
           NEW h \in 0 .. N - 1, NEW n \in 1 .. N
    PROVE  /\ RingContents(r, h, n, N) # << >>
           /\ Head(RingContents(r, h, n, N)) = r[h]
           /\ RingContents(r, Slot(h, 1, N), n - 1, N)
                 = Tail(RingContents(r, h, n, N))
<1> DEFINE S == {r[i] : i \in 0 .. N - 1}
           g == Slot(h, 1, N)
           s == RingContents(r, h, n, N)
           ss == RingContents(r, g, n - 1, N)
<1>0. 0 \in 0 .. N /\ 1 \in 0 .. N /\ n \in 0 .. N /\ n - 1 \in 0 .. N
  OBVIOUS
<1>0a. r \in [0 .. N - 1 -> S]
  OBVIOUS
<1> HIDE DEF S
<1>1. g \in 0 .. N - 1 /\ g = IF h + 1 < N THEN h + 1 ELSE h + 1 - N
  BY <1>0, SlotValue
<1>2. /\ s \in Seq(S) /\ Len(s) = n
      /\ \A i \in 1 .. n : s[i] = r[Slot(h, i - 1, N)]
  BY <1>0, <1>0a, RingContentsType, RingContentsAt
<1> HIDE DEF g, s
<1>3. /\ ss \in Seq(S) /\ Len(ss) = n - 1
      /\ \A i \in 1 .. n - 1 : ss[i] = r[Slot(g, i - 1, N)]
  <2>1. ss \in Seq(S)
    BY <1>0, <1>0a, <1>1, RingContentsType
  <2>2. n - 1 \in 0 .. N /\ g \in 0 .. N - 1
    BY <1>0, <1>1
  <2>3. /\ Len(ss) = n - 1
        /\ \A i \in 1 .. n - 1 : ss[i] = r[Slot(g, i - 1, N)]
    BY <2>2, RingContentsAt, Zenon
  <2> QED BY <2>1, <2>3
<1> HIDE DEF ss
<1>4. s # << >>
  BY <1>2
<1>5. Head(s) = r[h]
  <2>1. Slot(h, 0, N) = h
    <3>1. Slot(h, 0, N) = IF h + 0 < N THEN h + 0 ELSE h + 0 - N
      BY <1>0, SlotValue, Zenon
    <3> QED BY <3>1
  <2>2. s[1] = r[h]
    BY <1>2, <2>1
  <2> QED BY <1>2, <1>4, <2>2
<1>6. /\ Tail(s) \in Seq(S) /\ Len(Tail(s)) = n - 1
      /\ \A i \in 1 .. n - 1 : Tail(s)[i] = s[i + 1]
  BY <1>2, <1>4, HeadTailProperties
<1>7. ASSUME NEW i \in 1 .. n - 1
      PROVE  ss[i] = Tail(s)[i]
  <2>1. i \in 0 .. N /\ i - 1 \in 0 .. N /\ i + 1 \in 1 .. n /\ i + 1 - 1 = i
    OBVIOUS
  <2>2. Slot(g, i - 1, N) = Slot(h, i, N)
    <3>1. i - 1 \in 0 .. N - 1 /\ (i - 1) + 1 = i
      OBVIOUS
    <3> QED BY <3>1, SlotNext DEF g
  <2>3. ss[i] = r[Slot(g, i - 1, N)] /\ Tail(s)[i] = s[i + 1]
    BY <1>3, <1>6
  <2>4. s[i + 1] = r[Slot(h, i, N)]
    BY <1>2, <2>1
  <2> QED BY <2>2, <2>3, <2>4
<1>8. ss = Tail(s)
  BY <1>3, <1>6, <1>7, SeqEqual
<1> QED BY <1>4, <1>5, <1>8 DEF ss, s, g

-----------------------------------------------------------------------------
(* Counting.                                                               *)

LEMMA CountKeeps ==
    ASSUME NEW A, NEW B, IsFiniteSet(B), A \subseteq B
    PROVE  Cardinality(A) \in Nat /\ Cardinality(A) <= Cardinality(B)
BY FS_Subset, FS_CardinalityType

LEMMA CountGains ==
    ASSUME NEW A, NEW B, IsFiniteSet(B), NEW w, A \subseteq B, w \in B \ A
    PROVE  Cardinality(A) + 1 <= Cardinality(B)
<1>1. IsFiniteSet(A)
  BY FS_Subset
<1>2. IsFiniteSet(A \cup {w}) /\ Cardinality(A \cup {w}) = Cardinality(A) + 1
  BY <1>1, FS_AddElement
<1>3. Cardinality(A \cup {w}) <= Cardinality(B)
  BY FS_Subset
<1> QED BY <1>2, <1>3

LEMMA CountLoses ==
    ASSUME NEW A, NEW B, IsFiniteSet(A), IsFiniteSet(B), NEW w, A \ {w} \subseteq B
    PROVE  Cardinality(A) - 1 <= Cardinality(B)
<1>1. /\ Cardinality(A) \in Nat /\ IsFiniteSet(A \ {w})
      /\ Cardinality(A \ {w})
            = IF w \in A THEN Cardinality(A) - 1 ELSE Cardinality(A)
  BY FS_RemoveElement, FS_CardinalityType
<1>2. Cardinality(A \ {w}) <= Cardinality(B) /\ Cardinality(B) \in Nat
  BY FS_Subset, FS_CardinalityType
<1> QED BY <1>1, <1>2

LEMMA CountSwaps ==
    ASSUME NEW A, NEW B, IsFiniteSet(A), IsFiniteSet(B), NEW w, A \ {w} \subseteq B,
           NEW v, v \in B \ A
    PROVE  Cardinality(A) <= Cardinality(B)
<1>0. IsFiniteSet(A \ {w})
  BY FS_RemoveElement
<1>1. /\ Cardinality(A) \in Nat /\ Cardinality(A \ {w}) \in Nat
      /\ Cardinality(A) - 1 <= Cardinality(A \ {w})
  <2>1. Cardinality(A) \in Nat /\ Cardinality(A \ {w}) \in Nat
    BY <1>0, FS_CardinalityType
  <2>2. Cardinality(A \ {w}) = IF w \in A THEN Cardinality(A) - 1 ELSE Cardinality(A)
    BY FS_RemoveElement
  <2> QED BY <2>1, <2>2
<1>2. Cardinality(A \ {w}) + 1 <= Cardinality(B) /\ Cardinality(B) \in Nat
  <2>1. A \ {w} \subseteq B /\ v \in B \ (A \ {w})
    OBVIOUS
  <2> QED BY <2>1, CountGains, FS_CardinalityType
<1> QED BY <1>1, <1>2

(* Two sets that differ at w only.                                         *)
LEMMA CountChange ==
    ASSUME NEW A, NEW B, IsFiniteSet(A), NEW w, A \ {w} = B \ {w}
    PROVE  /\ Cardinality(A) \in Nat /\ Cardinality(B) \in Nat
           /\ Cardinality(B) = Cardinality(A) + (IF w \in B THEN 1 ELSE 0)
                                              - (IF w \in A THEN 1 ELSE 0)
<1> DEFINE C == A \ {w}
<1>1. IsFiniteSet(C) /\ Cardinality(C) \in Nat
  BY FS_RemoveElement, FS_CardinalityType
<1>2. ASSUME NEW D, D \ {w} = C
      PROVE  Cardinality(D) = Cardinality(C) + (IF w \in D THEN 1 ELSE 0)
  <2>1. CASE w \in D
    <3>1. D = C \cup {w} /\ w \notin C
      BY <1>2, <2>1
    <3> HIDE DEF C
    <3> QED BY <1>1, <2>1, <3>1, FS_AddElement
  <2>2. CASE w \notin D
    <3>1. D = C
      BY <1>2, <2>2
    <3> QED BY <1>1, <2>2, <3>1
  <2> QED BY <2>1, <2>2
<1>3. Cardinality(A) = Cardinality(C) + (IF w \in A THEN 1 ELSE 0)
  BY <1>2
<1>4. Cardinality(B) = Cardinality(C) + (IF w \in B THEN 1 ELSE 0)
  BY <1>2
<1> QED BY <1>1, <1>3, <1>4

-----------------------------------------------------------------------------
(* Numbers.                                                                *)

(* A set of numbers that is not empty has a least one: what a scan of a    *)
(* table from its start, or the smallest of some numbers, finds.           *)
LEMMA LeastOfNaturals ==
    ASSUME NEW S \in SUBSET Nat, S # {}
    PROVE  \E i \in S : \A j \in S : i <= j
<1> DEFINE R == OpToRel(<, Nat)
<1>1. IsWellFoundedOn(R, Nat)
  BY NatLessThanWellFounded
<1>2. PICK i \in S : \A j \in S : <<j, i>> \notin R
  BY <1>1, WFMin
<1>3. \A j \in S : ~ (j < i)
  BY <1>2 DEF OpToRel
<1> QED BY <1>3

(* Induction up to a number, over a set.                                   *)
LEMMA InductionUpTo ==
    ASSUME NEW n \in Nat, NEW S, 0 \in S, \A k \in 1 .. n : k - 1 \in S => k \in S
    PROVE  0 .. n \subseteq S
<1> DEFINE M == (0 .. n) \ S
<1>1. SUFFICES ASSUME M # {} PROVE FALSE
  OBVIOUS
<1>2. PICK m \in M : \A j \in M : m <= j
  <2>1. M \in SUBSET Nat
    OBVIOUS
  <2> HIDE DEF M
  <2> QED BY <1>1, <2>1, LeastOfNaturals
<1>3. m \in 1 .. n /\ m - 1 \in 0 .. n /\ ~ (m <= m - 1)
  OBVIOUS
<1>4. m - 1 \in S
  BY <1>2, <1>3
<1> QED BY <1>3, <1>4

=============================================================================
