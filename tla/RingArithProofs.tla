--------------------------- MODULE RingArithProofs ---------------------------
(***************************************************************************)
(* Facts about the circular arrays, for every capacity n: index            *)
(* arithmetic, which is linear once Succ, Dist and Ahead are expanded, and *)
(* the sequence of the k elements that begin at slot f.                    *)
(***************************************************************************)
EXTENDS RingArith, Sequences, SequenceTheorems, TLAPS

LEMMA SuccType == ASSUME NEW n \in Nat \ {0}, NEW i \in 0 .. n - 1
                  PROVE  Succ(i, n) \in 0 .. n - 1
BY DEF Succ

LEMMA DistRange == ASSUME NEW n \in Nat \ {0},
                          NEW f \in 0 .. n - 1, NEW i \in 0 .. n - 1
                   PROVE  Dist(f, i, n) \in 0 .. n - 1
BY DEF Dist

(* Advancing the front brings every other slot one step nearer. *)
LEMMA DistSucc == ASSUME NEW n \in Nat \ {0},
                         NEW f \in 0 .. n - 1, NEW i \in 0 .. n - 1, i # f
                  PROVE  Dist(Succ(f, n), i, n) = Dist(f, i, n) - 1
BY DEF Dist, Succ

(* The slot just left is the farthest. *)
LEMMA DistLeft == ASSUME NEW n \in Nat \ {0}, NEW f \in 0 .. n - 1
                  PROVE  Dist(Succ(f, n), f, n) = n - 1
BY DEF Dist, Succ

LEMMA DistSelf == ASSUME NEW n \in Nat \ {0}, NEW f \in 0 .. n - 1
                  PROVE  Dist(f, f, n) = 0
BY DEF Dist

(* The slot k steps ahead is at distance k, and is the only one. *)
LEMMA DistAhead == ASSUME NEW n \in Nat \ {0}, NEW f \in 0 .. n - 1,
                          NEW k \in 0 .. n - 1, NEW i \in 0 .. n - 1
                   PROVE  Dist(f, i, n) = k <=> i = Ahead(f, k, n)
BY DEF Dist, Ahead

LEMMA AheadSucc == ASSUME NEW n \in Nat \ {0}, NEW f \in 0 .. n - 1,
                          NEW k \in 0 .. n - 1
                   PROVE  /\ Ahead(f, k + 1, n) = Succ(Ahead(f, k, n), n)
                          /\ Ahead(Succ(f, n), k, n) = Ahead(f, k + 1, n)
BY DEF Succ, Ahead
-----------------------------------------------------------------------------
(* The k elements of array c that begin at slot f. *)
Segment(c, f, k, n) == [j \in 1 .. k |-> c[Ahead(f, j - 1, n)]]

LEMMA SegmentType ==
    ASSUME NEW n \in Nat \ {0}, NEW f \in 0 .. n - 1, NEW k \in 0 .. n, NEW c, NEW V,
           \A i \in 0 .. n - 1 : Dist(f, i, n) < k => c[i] \in V
    PROVE  /\ Segment(c, f, k, n) \in Seq(V)
           /\ Len(Segment(c, f, k, n)) = k
           /\ \A j \in 1 .. k : Segment(c, f, k, n)[j] = c[Ahead(f, j - 1, n)]
<1>1. ASSUME NEW j \in 1 .. k PROVE c[Ahead(f, j - 1, n)] \in V
  <2>1. j - 1 \in 0 .. n - 1 /\ j - 1 < k
    OBVIOUS
  <2>2. Ahead(f, j - 1, n) \in 0 .. n - 1
    BY <2>1 DEF Ahead
  <2>3. Dist(f, Ahead(f, j - 1, n), n) = j - 1
    BY <2>1, <2>2, DistAhead
  <2> QED BY <2>1, <2>2, <2>3
<1>2. Segment(c, f, k, n) \in [1 .. k -> V]
  BY <1>1 DEF Segment
<1> QED BY <1>2 DEF Segment

(* Only the elements between f and k steps further matter. *)
LEMMA SegmentEqual ==
    ASSUME NEW n \in Nat \ {0}, NEW f \in 0 .. n - 1, NEW k \in 0 .. n, NEW c, NEW d,
           \A i \in 0 .. n - 1 : Dist(f, i, n) < k => c[i] = d[i]
    PROVE  Segment(c, f, k, n) = Segment(d, f, k, n)
<1>1. ASSUME NEW j \in 1 .. k PROVE c[Ahead(f, j - 1, n)] = d[Ahead(f, j - 1, n)]
  <2>1. j - 1 \in 0 .. n - 1 /\ j - 1 < k
    OBVIOUS
  <2>2. Ahead(f, j - 1, n) \in 0 .. n - 1
    BY <2>1 DEF Ahead
  <2>3. Dist(f, Ahead(f, j - 1, n), n) = j - 1
    BY <2>1, <2>2, DistAhead
  <2> QED BY <2>1, <2>2, <2>3
<1> QED BY <1>1 DEF Segment

(* Advancing the front removes the head. *)
LEMMA SegmentTail ==
    ASSUME NEW n \in Nat \ {0}, NEW f \in 0 .. n - 1, NEW k \in 1 .. n, NEW c, NEW V,
           \A i \in 0 .. n - 1 : Dist(f, i, n) < k => c[i] \in V
    PROVE  /\ Segment(c, f, k, n) # <<>>
           /\ Head(Segment(c, f, k, n)) = c[f]
           /\ Segment(c, Succ(f, n), k - 1, n) = Tail(Segment(c, f, k, n))
<1> DEFINE s == Segment(c, f, k, n)
           t == Segment(c, Succ(f, n), k - 1, n)
<1>1. s \in Seq(V) /\ Len(s) = k /\ \A j \in 1 .. k : s[j] = c[Ahead(f, j - 1, n)]
  <2>1. k \in 0 .. n
    OBVIOUS
  <2> QED BY <2>1, SegmentType
<1>2. /\ Succ(f, n) \in 0 .. n - 1
      /\ \A i \in 0 .. n - 1 : Dist(Succ(f, n), i, n) < k - 1 => Dist(f, i, n) < k
  BY DEF Succ, Dist
<1>3. t \in Seq(V) /\ Len(t) = k - 1 /\ \A j \in 1 .. k - 1 : t[j] = c[Ahead(Succ(f, n), j - 1, n)]
  <2>1. k - 1 \in 0 .. n
    OBVIOUS
  <2> QED BY <1>2, <2>1, SegmentType
<1> HIDE DEF s, t
<1>4. s # <<>> /\ Head(s) = c[f]
  <2>1. Ahead(f, 1 - 1, n) = f
    BY DEF Ahead
  <2> QED BY <1>1, <2>1
<1>5. /\ Tail(s) \in Seq(V) /\ Len(Tail(s)) = k - 1
      /\ \A j \in 1 .. k - 1 : Tail(s)[j] = s[j + 1]
  BY <1>1, <1>4, HeadTailProperties
<1>6. ASSUME NEW j \in 1 .. k - 1 PROVE t[j] = Tail(s)[j]
  <2>1. j \in Int /\ j + 1 \in 1 .. k /\ j - 1 \in 0 .. n - 1 /\ (j - 1) + 1 = j /\ (j + 1) - 1 = j
    OBVIOUS
  <2>2. Ahead(Succ(f, n), j - 1, n) = Ahead(f, j, n)
    BY <2>1, AheadSucc
  <2> QED BY <1>1, <1>3, <1>5, <2>1, <2>2
<1>7. t = Tail(s)
  BY <1>3, <1>5, <1>6, SeqEqual
<1> QED BY <1>4, <1>7 DEF s, t

(* The next element is appended. *)
LEMMA SegmentAppend ==
    ASSUME NEW n \in Nat \ {0}, NEW f \in 0 .. n - 1, NEW k \in 0 .. n - 1, NEW c, NEW V,
           \A i \in 0 .. n - 1 : Dist(f, i, n) < k + 1 => c[i] \in V
    PROVE  Segment(c, f, k + 1, n) = Append(Segment(c, f, k, n), c[Ahead(f, k, n)])
<1> DEFINE s == Segment(c, f, k, n)
           t == Segment(c, f, k + 1, n)
           e == c[Ahead(f, k, n)]
<1>1. s \in Seq(V) /\ Len(s) = k /\ \A j \in 1 .. k : s[j] = c[Ahead(f, j - 1, n)]
  <2>1. \A i \in 0 .. n - 1 : Dist(f, i, n) < k => Dist(f, i, n) < k + 1
    BY DistRange
  <2>2. k \in 0 .. n /\ \A i \in 0 .. n - 1 : Dist(f, i, n) < k => c[i] \in V
    BY <2>1
  <2> QED BY <2>2, SegmentType
<1>2. t \in Seq(V) /\ Len(t) = k + 1 /\ \A j \in 1 .. k + 1 : t[j] = c[Ahead(f, j - 1, n)]
  <2>1. k + 1 \in 0 .. n
    OBVIOUS
  <2> QED BY <2>1, SegmentType
<1> HIDE DEF s, t
<1>3. t[k + 1] = e
  <2>1. k + 1 \in 1 .. k + 1 /\ (k + 1) - 1 = k
    OBVIOUS
  <2> QED BY <1>2, <2>1
<1>4. \A j \in 1 .. k : t[j] = s[j]
  BY <1>1, <1>2
<1>5. e \in V
  BY <1>2, <1>3
<1>6. /\ Append(s, e) \in Seq(V) /\ Len(Append(s, e)) = k + 1
      /\ \A j \in 1 .. k : Append(s, e)[j] = s[j]
      /\ Append(s, e)[k + 1] = e
  BY <1>1, <1>5
<1>7. \A j \in 1 .. k + 1 : t[j] = Append(s, e)[j]
  BY <1>3, <1>4, <1>6
<1>8. t = Append(s, e)
  BY <1>2, <1>6, <1>7, SeqEqual
<1> QED BY <1>8 DEF s, t

(* get: slot f is left, whatever it holds then. *)
LEMMA SegmentPop ==
    ASSUME NEW n \in Nat \ {0}, NEW f \in 0 .. n - 1, NEW k \in 1 .. n, NEW c, NEW d, NEW V,
           \A i \in 0 .. n - 1 : Dist(f, i, n) < k => c[i] \in V,
           \A i \in 0 .. n - 1 : i # f /\ Dist(f, i, n) < k => d[i] = c[i]
    PROVE  /\ Segment(c, f, k, n) # <<>>
           /\ Head(Segment(c, f, k, n)) = c[f]
           /\ Segment(d, Succ(f, n), k - 1, n) = Tail(Segment(c, f, k, n))
<1>1. Succ(f, n) \in 0 .. n - 1 /\ k - 1 \in 0 .. n
  BY DEF Succ
<1>2. \A i \in 0 .. n - 1 : Dist(Succ(f, n), i, n) < k - 1 => i # f /\ Dist(f, i, n) < k
  BY DEF Succ, Dist
<1>3. \A i \in 0 .. n - 1 : Dist(Succ(f, n), i, n) < k - 1 => d[i] = c[i]
  BY <1>2
<1>4. Segment(d, Succ(f, n), k - 1, n) = Segment(c, Succ(f, n), k - 1, n)
  BY <1>1, <1>3, SegmentEqual
<1> QED BY <1>4, SegmentTail

(* put: the slot k steps ahead receives an element. *)
LEMMA SegmentPush ==
    ASSUME NEW n \in Nat \ {0}, NEW f \in 0 .. n - 1, NEW k \in 0 .. n - 1, NEW c, NEW d, NEW V,
           \A i \in 0 .. n - 1 : Dist(f, i, n) < k => c[i] \in V /\ d[i] = c[i],
           d[Ahead(f, k, n)] \in V
    PROVE  Segment(d, f, k + 1, n) = Append(Segment(c, f, k, n), d[Ahead(f, k, n)])
<1>1. \A i \in 0 .. n - 1 : Dist(f, i, n) < k + 1 => d[i] \in V
  <2> SUFFICES ASSUME NEW i \in 0 .. n - 1, Dist(f, i, n) < k + 1 PROVE d[i] \in V
    OBVIOUS
  <2>1. Dist(f, i, n) \in Int
    BY DistRange
  <2>2. Dist(f, i, n) < k \/ i = Ahead(f, k, n)
    BY <2>1, DistAhead
  <2> QED BY <2>2
<1>2. Segment(d, f, k, n) = Segment(c, f, k, n)
  <2>1. k \in 0 .. n /\ \A i \in 0 .. n - 1 : Dist(f, i, n) < k => d[i] = c[i]
    OBVIOUS
  <2> QED BY <2>1, SegmentEqual
<1> QED BY <1>1, <1>2, SegmentAppend
=============================================================================
