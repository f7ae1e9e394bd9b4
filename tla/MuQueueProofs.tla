--------------------------- MODULE MuQueueProofs ---------------------------
(***************************************************************************)
(* Lemmas about the waiter queue of an nsync_mu: what its operations do to *)
(* the set of waiters in a queue, and that they keep every waiter in a     *)
(* block of the queue that is its same_condition ring.                     *)
(***************************************************************************)
EXTENDS MuQueue, TLAPS

-----------------------------------------------------------------------------
(* Which waiters a queue holds.                                            *)

\* Facts about sequences.
LEMMA QueueFacts ==
  ASSUME NEW S, NEW q \in Seq(S)
  PROVE  /\ Len(q) \in Nat /\ DOMAIN q = 1..Len(q)
         /\ q # <<>> => Len(q) \in Nat \ {0}
  OBVIOUS

\* Facts about Head and Tail.
LEMMA TailFacts ==
  ASSUME NEW S, NEW q \in Seq(S), q # <<>>
  PROVE  /\ Head(q) \in S /\ Tail(q) \in Seq(S) /\ Len(Tail(q)) = Len(q) - 1
         /\ \A j \in 1..Len(Tail(q)) : Tail(q)[j] = q[j + 1]
  OBVIOUS

\* Appending is concatenating.
LEMMA AppendFacts ==
  ASSUME NEW S, NEW q \in Seq(S), NEW x \in S
  PROVE  Append(q, x) = q \o <<x>>
  OBVIOUS

\* A waiter is in a queue when it is at some position.
LEMMA InRange ==
  ASSUME NEW S, NEW q \in Seq(S)
  PROVE  /\ \A x : x \in Range(q) <=> \E j \in 1..Len(q) : q[j] = x
         /\ \A j \in 1..Len(q) : q[j] \in Range(q) /\ q[j] \in S
         /\ Range(q) \subseteq S
BY DEF Range

\* Each waiter is at one position.
LEMMA Injective ==
  ASSUME NEW S, NEW q \in Seq(S)
  PROVE  IsInjective(q) <=> \A j, k \in 1..Len(q) : q[j] = q[k] => j = k
BY DEF IsInjective

\* An empty queue holds no waiter.
LEMMA EmptyQueue ==
  /\ Range(<<>>) = {} /\ IsInjective(<<>>)
  /\ \A ring, cond : RingsAreBlocks(ring, cond, <<>>)
BY DEF Range, IsInjective, RingsAreBlocks

\* A queue of one waiter.
LEMMA SingleQueue ==
  ASSUME NEW S, NEW t \in S
  PROVE  /\ <<t>> \in Seq(S) /\ Len(<<t>>) = 1 /\ <<t>>[1] = t
         /\ Range(<<t>>) = {t} /\ IsInjective(<<t>>)
BY DEF Range, IsInjective

\* The positions of a concatenation.
LEMMA ConcatFacts ==
  ASSUME NEW S, NEW p \in Seq(S), NEW q \in Seq(S)
  PROVE  /\ p \o q \in Seq(S) /\ Len(p \o q) = Len(p) + Len(q)
         /\ \A j \in 1..Len(p) : (p \o q)[j] = p[j]
         /\ \A j \in 1..Len(q) : (p \o q)[Len(p) + j] = q[j]
OBVIOUS

\* A concatenation holds the waiters of both queues.
LEMMA ConcatRange ==
  ASSUME NEW S, NEW p \in Seq(S), NEW q \in Seq(S)
  PROVE  /\ Range(p \o q) = Range(p) \cup Range(q)
         /\ IsInjective(p) /\ IsInjective(q) /\ Range(p) \cap Range(q) = {}
              => IsInjective(p \o q)
<1>1. p \o q \in Seq(S) /\ Len(p \o q) = Len(p) + Len(q)
  BY Zenon, ConcatFacts
<1>2. \A j \in 1..(Len(p) + Len(q)) :
        \/ j \in 1..Len(p) /\ (p \o q)[j] = p[j]
        \/ j - Len(p) \in 1..Len(q) /\ (p \o q)[j] = q[j - Len(p)]
  OBVIOUS
<1>3. Range(p \o q) = Range(p) \cup Range(q)
  <2>1. \A s \in Seq(S) : \A x : x \in Range(s) <=> \E j \in 1..Len(s) : s[j] = x
    BY Zenon, InRange
  <2>2. \A x : x \in Range(p \o q) <=> \E j \in 1..(Len(p) + Len(q)) : (p \o q)[j] = x
    BY Zenon, <1>1, <2>1
  <2>3. \A j \in 1..Len(p) : j \in 1..(Len(p) + Len(q)) /\ (p \o q)[j] = p[j]
    BY ConcatFacts
  <2>4. \A j \in 1..Len(q) :
          Len(p) + j \in 1..(Len(p) + Len(q)) /\ (p \o q)[Len(p) + j] = q[j]
    BY ConcatFacts
  <2>5. \A x : x \in Range(p) <=> \E j \in 1..Len(p) : p[j] = x
    BY Zenon, <2>1
  <2>6. \A x : x \in Range(q) <=> \E j \in 1..Len(q) : q[j] = x
    BY Zenon, <2>1
  <2> QED
    BY <1>2, <2>2, <2>3, <2>4, <2>5, <2>6
<1>4. ASSUME IsInjective(p), IsInjective(q), Range(p) \cap Range(q) = {},
             NEW j \in 1..(Len(p) + Len(q)), NEW k \in 1..(Len(p) + Len(q)),
             (p \o q)[j] = (p \o q)[k]
      PROVE  j = k
  <2>1. \A m \in 1..Len(p) : p[m] \in Range(p)
    BY Zenon, InRange
  <2>2. \A m \in 1..Len(q) : q[m] \in Range(q)
    BY Zenon, InRange
  <2>3. \A m, n \in 1..Len(p) : p[m] = p[n] => m = n
    BY Zenon, <1>4, Injective
  <2>4. \A m, n \in 1..Len(q) : q[m] = q[n] => m = n
    BY Zenon, <1>4, Injective
  <2>5. CASE j \in 1..Len(p) /\ (p \o q)[j] = p[j]
    BY Zenon, <1>2, <1>4, <2>1, <2>2, <2>3, <2>5
  <2>6. CASE j - Len(p) \in 1..Len(q) /\ (p \o q)[j] = q[j - Len(p)]
    <3>1. (p \o q)[k] \notin Range(p)
      BY Zenon, <1>4, <2>2, <2>6
    <3>2. k - Len(p) \in 1..Len(q) /\ (p \o q)[k] = q[k - Len(p)]
      BY Zenon, <1>2, <2>1, <3>1
    <3>3. j - Len(p) = k - Len(p)
      BY Zenon, <1>4, <2>4, <2>6, <3>2
    <3> QED
      BY <3>3
  <2> QED
    BY Zenon, <1>2, <2>5, <2>6
<1> QED
  BY Zenon, <1>1, <1>3, <1>4, Injective

\* Queueing a waiter adds it, at either end.
LEMMA EnqueueRange ==
  ASSUME NEW S, NEW q \in Seq(S), NEW t \in S, NEW first \in BOOLEAN
  PROVE  /\ Enqueue(q, t, first) \in Seq(S)
         /\ Enqueue(q, t, first) = IF first THEN q \o <<t>> ELSE <<t>> \o q
         /\ Range(Enqueue(q, t, first)) = Range(q) \cup {t}
         /\ IsInjective(q) /\ t \notin Range(q) => IsInjective(Enqueue(q, t, first))
<1>1. Enqueue(q, t, first) = IF first THEN q \o <<t>> ELSE <<t>> \o q
  BY Zenon, AppendFacts DEF Enqueue
<1>2. PICK e \in Seq(S) : e = <<t>> /\ Range(e) = {t} /\ IsInjective(e)
  BY Zenon, SingleQueue
<1>3. Enqueue(q, t, first) = IF first THEN q \o e ELSE e \o q
  BY Zenon, <1>1, <1>2
<1>4. q \o e \in Seq(S) /\ e \o q \in Seq(S)
  BY Zenon, ConcatFacts
<1>5. /\ Range(q \o e) = Range(q) \cup Range(e)
      /\ IsInjective(q) /\ IsInjective(e) /\ Range(q) \cap Range(e) = {}
           => IsInjective(q \o e)
  <2>1. \A p \in Seq(S) :
          /\ Range(q \o p) = Range(q) \cup Range(p)
          /\ IsInjective(q) /\ IsInjective(p) /\ Range(q) \cap Range(p) = {}
               => IsInjective(q \o p)
    BY ConcatRange
  <2> QED
    BY Zenon, <2>1
<1>6. /\ Range(e \o q) = Range(e) \cup Range(q)
      /\ IsInjective(e) /\ IsInjective(q) /\ Range(e) \cap Range(q) = {}
           => IsInjective(e \o q)
  <2>1. \A p \in Seq(S) :
          /\ Range(p \o q) = Range(p) \cup Range(q)
          /\ IsInjective(p) /\ IsInjective(q) /\ Range(p) \cap Range(q) = {}
               => IsInjective(p \o q)
    BY ConcatRange
  <2> QED
    BY Zenon, <2>1
<1>7. t \notin Range(q) => Range(q) \cap Range(e) = {} /\ Range(e) \cap Range(q) = {}
  BY Zenon, <1>2
<1>8. CASE first
  <2>1. Range(q) \cup Range(e) = Range(q) \cup {t}
    BY Zenon, <1>2
  <2> QED
    BY Zenon, <1>1, <1>2, <1>3, <1>4, <1>5, <1>7, <1>8, <2>1
<1>9. CASE ~first
  <2>1. Range(e) \cup Range(q) = Range(q) \cup {t}
    BY Zenon, <1>2
  <2> QED
    BY Zenon, <1>1, <1>2, <1>3, <1>4, <1>6, <1>7, <1>9, <2>1
<1> QED
  BY Zenon, <1>8, <1>9

\* The positions of a queue from which one waiter was taken.
LEMMA WithoutFacts ==
  ASSUME NEW S, NEW q \in Seq(S), NEW i \in 1..Len(q)
  PROVE  /\ Without(q, i) \in Seq(S) /\ Len(Without(q, i)) = Len(q) - 1
         /\ \A j \in 1..(Len(q) - 1) :
              Without(q, i)[j] = IF j < i THEN q[j] ELSE q[j + 1]
<1> DEFINE a == SubSeq(q, 1, i - 1)
<1> DEFINE b == SubSeq(q, i + 1, Len(q))
<1>1. a \in Seq(S) /\ Len(a) = i - 1 /\ \A j \in 1..(i - 1) : a[j] = q[j]
  OBVIOUS
<1>2. b \in Seq(S) /\ Len(b) = Len(q) - i /\ \A j \in 1..(Len(q) - i) : b[j] = q[i + j]
  OBVIOUS
<1>3. Without(q, i) = a \o b
  BY Zenon DEF Without
<1> HIDE DEF a, b
<1>4. a \o b \in Seq(S) /\ Len(a \o b) = Len(q) - 1
  <2>1. a \o b \in Seq(S) /\ Len(a \o b) = Len(a) + Len(b)
    BY Zenon, <1>1, <1>2, ConcatFacts
  <2>2. Len(q) \in Nat /\ (i - 1) + (Len(q) - i) = Len(q) - 1
    BY QueueFacts
  <2> QED
    BY Zenon, <1>1, <1>2, <2>1, <2>2
<1>5. ASSUME NEW j \in 1..(Len(q) - 1)
      PROVE  (a \o b)[j] = IF j < i THEN q[j] ELSE q[j + 1]
  <2>1. CASE j < i
    BY <1>1, <1>2, <2>1, ConcatFacts
  <2>2. CASE ~(j < i)
    <3>1. j - (i - 1) \in 1..Len(b) /\ j = Len(a) + (j - (i - 1))
      BY <1>1, <1>2, <2>2
    <3>2. (a \o b)[Len(a) + (j - (i - 1))] = b[j - (i - 1)]
      BY <1>1, <1>2, <3>1, ConcatFacts
    <3>3. b[j - (i - 1)] = q[i + (j - (i - 1))]
      BY Zenon, <1>2, <3>1
    <3>4. i + (j - (i - 1)) = j + 1
      OBVIOUS
    <3> QED
      BY Zenon, <2>2, <3>1, <3>2, <3>3, <3>4
  <2> QED
    BY Zenon, <2>1, <2>2
<1> QED
  BY Zenon, <1>3, <1>4, <1>5

\* Taking a waiter from a queue removes it and no other.
LEMMA WithoutRange ==
  ASSUME NEW S, NEW q \in Seq(S), NEW i \in 1..Len(q), IsInjective(q)
  PROVE  /\ Range(Without(q, i)) = Range(q) \ {q[i]}
         /\ IsInjective(Without(q, i))
<1> DEFINE r == Without(q, i)
<1>1. r \in Seq(S) /\ Len(r) = Len(q) - 1
  BY Zenon, WithoutFacts
<1>2. \A j \in 1..(Len(q) - 1) : r[j] = IF j < i THEN q[j] ELSE q[j + 1]
  BY Zenon, WithoutFacts
<1>3. \A j, k \in 1..Len(q) : q[j] = q[k] => j = k
  BY Zenon, Injective
<1> HIDE DEF r
<1>4. \A j \in 1..Len(r) : r[j] \in Range(q) /\ r[j] # q[i]
  <2> SUFFICES ASSUME NEW j \in 1..Len(r) PROVE r[j] \in Range(q) /\ r[j] # q[i]
    BY Zenon
  <2>1. CASE j < i
    <3>1. j \in 1..Len(q) /\ r[j] = q[j] /\ j # i
      BY <1>1, <1>2, <2>1
    <3> QED
      BY Zenon, <1>3, <3>1, InRange
  <2>2. CASE ~(j < i)
    <3>1. j + 1 \in 1..Len(q) /\ r[j] = q[j + 1] /\ j + 1 # i
      BY <1>1, <1>2, <2>2
    <3> QED
      BY Zenon, <1>3, <3>1, InRange
  <2> QED
    BY Zenon, <2>1, <2>2
<1>5. \A x \in Range(q) : x # q[i] => x \in Range(r)
  <2> SUFFICES ASSUME NEW x \in Range(q), x # q[i] PROVE x \in Range(r)
    BY Zenon
  <2>1. PICK j \in 1..Len(q) : q[j] = x
    BY Zenon, InRange
  <2>2. CASE j < i
    <3>1. j \in 1..Len(r) /\ r[j] = x
      BY <1>1, <1>2, <2>1, <2>2
    <3> QED
      BY Zenon, <1>1, <3>1, InRange
  <2>3. CASE j > i
    <3>1. j - 1 \in 1..Len(r) /\ r[j - 1] = x
      BY <1>1, <1>2, <2>1, <2>3
    <3> QED
      BY Zenon, <1>1, <3>1, InRange
  <2> QED
    BY <2>1, <2>2, <2>3
<1>6. Range(r) = Range(q) \ {q[i]}
  <2>1. \A x \in Range(r) : x \in Range(q) /\ x # q[i]
    BY <1>1, <1>4, InRange
  <2> QED
    BY Zenon, <1>5, <2>1
<1>7. \A j, k \in 1..Len(r) : r[j] = r[k] => j = k
  BY SMTT(20), <1>1, <1>2, <1>3
<1>8. IsInjective(r)
  BY Zenon, <1>1, <1>7, Injective
<1> QED
  BY Zenon, <1>6, <1>8 DEF r

\* Taking the first waiter from a list.
LEMMA TailRange ==
  ASSUME NEW S, NEW q \in Seq(S), q # <<>>, IsInjective(q)
  PROVE  /\ Head(q) \in Range(q) /\ Head(q) \in S /\ Tail(q) \in Seq(S)
         /\ Range(Tail(q)) = Range(q) \ {Head(q)}
         /\ IsInjective(Tail(q))
<1> DEFINE r == Tail(q)
<1>1. r \in Seq(S) /\ Len(r) = Len(q) - 1 /\ \A j \in 1..Len(r) : r[j] = q[j + 1]
  BY Zenon, TailFacts
<1>2. Head(q) = q[1] /\ 1 \in 1..Len(q)
  BY QueueFacts
<1>3. \A j, k \in 1..Len(q) : q[j] = q[k] => j = k
  BY Zenon, Injective
<1> HIDE DEF r
<1>4. \A x : x \in Range(r) <=> x \in Range(q) /\ x # q[1]
  <2> SUFFICES ASSUME NEW x PROVE x \in Range(r) <=> x \in Range(q) /\ x # q[1]
    BY Zenon
  <2>1. ASSUME x \in Range(r) PROVE x \in Range(q) /\ x # q[1]
    <3>1. PICK j \in 1..Len(r) : r[j] = x
      BY Zenon, <1>1, <2>1, InRange
    <3>2. j + 1 \in 1..Len(q) /\ q[j + 1] = x /\ j + 1 # 1
      BY <1>1, <3>1
    <3> QED
      BY Zenon, <1>2, <1>3, <3>2, InRange
  <2>2. ASSUME x \in Range(q), x # q[1] PROVE x \in Range(r)
    <3>1. PICK j \in 1..Len(q) : q[j] = x
      BY Zenon, <2>2, InRange
    <3>2. j - 1 \in 1..Len(r) /\ r[j - 1] = x
      BY <1>1, <2>2, <3>1
    <3> QED
      BY Zenon, <1>1, <3>2, InRange
  <2> QED
    BY Zenon, <2>1, <2>2
<1>5. \A j, k \in 1..Len(r) : r[j] = r[k] => j = k
  BY <1>1, <1>3
<1>6. IsInjective(r)
  BY Zenon, <1>1, <1>5, Injective
<1>7. Head(q) \in Range(q) /\ Head(q) \in S
  BY Zenon, <1>2, InRange
<1> QED
  BY Zenon, <1>1, <1>2, <1>4, <1>6, <1>7 DEF r
-----------------------------------------------------------------------------
(* Rings.                                                                  *)

\* A block stays a block at other positions of another queue.
LEMMA ShiftedBlock ==
  ASSUME NEW ring, NEW c, NEW q, NEW s,
         NEW k \in Int, NEW l \in Int, NEW a \in Int, NEW b \in Int,
         k <= l, b - l = a - k, RingBlock(ring, c, q, k, l),
         \A m \in k..l : s[m + (a - k)] = q[m]
  PROVE  RingBlock(ring, c, s, a, b)
<1> DEFINE d == a - k
<1>0. d \in Int /\ a = k + d /\ b = l + d /\ \A m \in k..l : s[m + d] = q[m]
  OBVIOUS
<1> HIDE DEF d
<1>1. /\ ring[q[l]] = q[k]
      /\ \A m \in k..(l - 1) : ring[q[m]] = q[m + 1]
      /\ \A m \in k..l : c[q[m]] = c[q[k]]
      /\ k < l => c[q[k]] # NoCond
  BY Zenon DEF RingBlock
<1>2. s[a] = q[k] /\ s[b] = q[l]
  BY <1>0
<1>3. ASSUME NEW m \in a..(b - 1) PROVE ring[s[m]] = s[m + 1]
  <2> DEFINE n == m - d
  <2>1. n \in k..l /\ n + 1 \in k..l /\ n \in k..(l - 1) /\ n + d = m /\ (n + 1) + d = m + 1
    BY <1>0
  <2> HIDE DEF n
  <2>2. s[m] = q[n] /\ s[m + 1] = q[n + 1]
    BY Zenon, <1>0, <2>1
  <2> QED
    BY Zenon, <1>1, <2>1, <2>2
<1>4. ASSUME NEW m \in a..b PROVE c[s[m]] = c[s[a]]
  <2> DEFINE n == m - d
  <2>1. n \in k..l /\ n + d = m
    BY <1>0
  <2> HIDE DEF n
  <2>2. s[m] = q[n]
    BY Zenon, <1>0, <2>1
  <2> QED
    BY Zenon, <1>1, <1>2, <2>1, <2>2
<1> QED
  BY <1>0, <1>1, <1>2, <1>3, <1>4 DEF RingBlock

\* It stays a block where its waiters keep their links and conditions.
LEMMA KeptBlock ==
  ASSUME NEW ring, NEW ring2, NEW c, NEW c2, NEW q, NEW s,
         NEW k \in Int, NEW l \in Int, k <= l, RingBlock(ring, c, q, k, l),
         \A m \in k..l : /\ s[m] = q[m]
                         /\ ring2[q[m]] = ring[q[m]] /\ c2[q[m]] = c[q[m]]
  PROVE  RingBlock(ring2, c2, s, k, l)
BY DEF RingBlock

\* It is a block of any queue that holds its waiters at its positions.
LEMMA PlacedBlock ==
  ASSUME NEW ring, NEW c, NEW q, NEW s, NEW k \in Int, NEW l \in Int, k <= l,
         RingBlock(ring, c, q, k, l), \A m \in k..l : s[m] = q[m]
  PROVE  RingBlock(ring, c, s, k, l)
BY DEF RingBlock

\* The rings of a queue depend on the links and conditions of its waiters only.
LEMMA SameBlocks ==
  ASSUME NEW q \in Seq(Threads), NEW ring, NEW ring2, NEW c, NEW c2,
         RingsAreBlocks(ring, c, q),
         \A x \in Range(q) : ring2[x] = ring[x] /\ c2[x] = c[x]
  PROVE  RingsAreBlocks(ring2, c2, q)
<1> SUFFICES ASSUME NEW j \in 1..Len(q)
             PROVE  \E k \in 1..j, l \in j..Len(q) : RingBlock(ring2, c2, q, k, l)
  BY Zenon DEF RingsAreBlocks
<1>1. PICK k \in 1..j, l \in j..Len(q) : RingBlock(ring, c, q, k, l)
  BY Zenon DEF RingsAreBlocks
<1>2. \A m \in k..l : q[m] = q[m] /\ ring2[q[m]] = ring[q[m]] /\ c2[q[m]] = c[q[m]]
  BY InRange
<1>3. RingBlock(ring2, c2, q, k, l)
  BY <1>1, <1>2 DEF RingBlock
<1> QED
  BY Zenon, <1>3

\* A link leads to a waiter of the same queue.
LEMMA RingsStay ==
  ASSUME NEW q \in Seq(Threads), NEW ring, NEW c, RingsAreBlocks(ring, c, q)
  PROVE  \A x \in Range(q) : ring[x] \in Range(q)
<1> SUFFICES ASSUME NEW j \in 1..Len(q) PROVE ring[q[j]] \in Range(q)
  BY Zenon, InRange
<1>1. PICK k \in 1..j, l \in j..Len(q) : RingBlock(ring, c, q, k, l)
  BY Zenon DEF RingsAreBlocks
<1>2. CASE j = l
  BY <1>1, <1>2, InRange DEF RingBlock
<1>3. CASE j # l
  <2>1. j \in k..(l - 1) /\ j + 1 \in 1..Len(q)
    BY <1>3
  <2>2. ring[q[j]] = q[j + 1]
    BY Zenon, <1>1, <2>1 DEF RingBlock
  <2> QED
    BY Zenon, <2>1, <2>2, InRange
<1> QED
  BY Zenon, <1>2, <1>3

\* Blocks do not overlap.
LEMMA BlockUnique ==
  ASSUME NEW q \in Seq(Threads), IsInjective(q), NEW ring, NEW c, NEW j \in 1..Len(q),
         NEW k \in 1..j, NEW l \in j..Len(q), RingBlock(ring, c, q, k, l),
         NEW m \in 1..j, NEW n \in j..Len(q), RingBlock(ring, c, q, m, n)
  PROVE  k = m /\ l = n
<1>1. \A a, b \in 1..Len(q) : q[a] = q[b] => a = b
  BY Zenon, Injective
<1>2. ring[q[l]] = q[k] /\ ring[q[n]] = q[m]
  BY Zenon DEF RingBlock
<1>3. ~(l < n)
  <2> SUFFICES ASSUME l < n PROVE FALSE
    BY Zenon
  <2>1. l \in m..(n - 1) /\ l + 1 \in 1..Len(q) /\ k \in 1..Len(q) /\ l + 1 # k
    OBVIOUS
  <2>2. ring[q[l]] = q[l + 1]
    BY Zenon, <2>1 DEF RingBlock
  <2> QED
    BY Zenon, <1>1, <1>2, <2>1, <2>2
<1>4. ~(n < l)
  <2> SUFFICES ASSUME n < l PROVE FALSE
    BY Zenon
  <2>1. n \in k..(l - 1) /\ n + 1 \in 1..Len(q) /\ m \in 1..Len(q) /\ n + 1 # m
    OBVIOUS
  <2>2. ring[q[n]] = q[n + 1]
    BY Zenon, <2>1 DEF RingBlock
  <2> QED
    BY Zenon, <1>1, <1>2, <2>1, <2>2
<1>5. l = n
  BY <1>3, <1>4
<1>6. k \in 1..Len(q) /\ m \in 1..Len(q) /\ q[k] = q[m]
  BY <1>2, <1>5
<1> QED
  BY Zenon, <1>1, <1>5, <1>6

\* No link leads into the queue from outside.
Closed(ring, q) == \A x \in Threads \ Range(q) : ring[x] \notin Range(q)

\* The waiter before another one in its ring: the one before it in the queue,
\* or, for the first of a block, the last.
LEMMA BlockPrev ==
  ASSUME NEW q \in Seq(Threads), IsInjective(q), NEW ring, NEW c,
         RingsAreBlocks(ring, c, q), Closed(ring, q), NEW j \in 1..Len(q),
         NEW k \in 1..j, NEW l \in j..Len(q), RingBlock(ring, c, q, k, l)
  PROVE  SamePrev(ring, q[j]) = IF j = k THEN q[l] ELSE q[j - 1]
<1> DEFINE y == IF j = k THEN q[l] ELSE q[j - 1]
<1>1. y \in Threads /\ ring[y] = q[j]
  <2>1. CASE j = k
    BY <2>1, InRange DEF RingBlock
  <2>2. CASE j # k
    <3>1. j - 1 \in k..(l - 1) /\ j - 1 \in 1..Len(q) /\ (j - 1) + 1 = j
      BY <2>2
    <3>2. ring[q[j - 1]] = q[(j - 1) + 1]
      BY Zenon, <3>1 DEF RingBlock
    <3> QED
      BY Zenon, <2>2, <3>1, <3>2, InRange
  <2> QED
    BY Zenon, <2>1, <2>2
<1>2. ASSUME NEW x \in Threads, ring[x] = q[j] PROVE x = y
  <2>1. x \in Range(q)
    BY Zenon, <1>2, InRange DEF Closed
  <2>2. PICK i \in 1..Len(q) : q[i] = x
    BY Zenon, <2>1, InRange
  <2>3. PICK m \in 1..i, n \in i..Len(q) : RingBlock(ring, c, q, m, n)
    BY Zenon DEF RingsAreBlocks
  <2>4. \A a, b \in 1..Len(q) : q[a] = q[b] => a = b
    BY Zenon, Injective
  <2>5. CASE i = n
    <3>1. ring[q[i]] = q[m]
      BY Zenon, <2>3, <2>5 DEF RingBlock
    <3>2. m = j
      <4>1. m \in 1..Len(q) /\ q[m] = q[j]
        BY <1>2, <2>2, <3>1
      <4> QED
        BY Zenon, <2>4, <4>1
    <3>3. k = m /\ l = n
      BY <2>3, <2>5, <3>2, BlockUnique
    <3> QED
      BY Zenon, <2>2, <2>5, <3>2, <3>3
  <2>6. CASE i # n
    <3>1. i \in m..(n - 1) /\ i + 1 \in 1..Len(q)
      BY <2>6
    <3>2. ring[q[i]] = q[i + 1]
      BY Zenon, <2>3, <3>1 DEF RingBlock
    <3>3. i + 1 = j
      BY Zenon, <1>2, <2>2, <2>4, <3>1, <3>2
    <3>4. m \in 1..j /\ n \in j..Len(q)
      BY <3>1, <3>3
    <3>5. k = m /\ l = n
      BY <2>3, <3>4, BlockUnique
    <3>6. j # k /\ j - 1 = i
      BY <3>3, <3>5
    <3> QED
      BY Zenon, <2>2, <3>6
  <2> QED
    BY Zenon, <2>5, <2>6
<1> HIDE DEF y
<1>3. SamePrev(ring, q[j]) = y
  BY Zenon, <1>1, <1>2 DEF SamePrev
<1> QED
  BY Zenon, <1>3 DEF y

\* Joining two queues without linking their rings.
LEMMA ConcatBlocks ==
  ASSUME NEW p \in Seq(Threads), NEW q \in Seq(Threads), NEW ring, NEW c,
         RingsAreBlocks(ring, c, p), RingsAreBlocks(ring, c, q)
  PROVE  RingsAreBlocks(ring, c, p \o q)
<1> DEFINE s == p \o q
<1>1. /\ s \in Seq(Threads) /\ Len(s) = Len(p) + Len(q)
      /\ \A m \in 1..Len(p) : s[m] = p[m]
      /\ \A m \in 1..Len(q) : s[Len(p) + m] = q[m]
  BY ConcatFacts
<1>2. Len(p) \in Nat /\ Len(q) \in Nat
  OBVIOUS
<1> HIDE DEF s
<1> SUFFICES ASSUME NEW j \in 1..Len(s)
             PROVE  \E k \in 1..j, l \in j..Len(s) : RingBlock(ring, c, s, k, l)
  BY Zenon DEF RingsAreBlocks, s
<1>3. CASE j <= Len(p)
  <2>1. PICK k \in 1..j, l \in j..Len(p) : RingBlock(ring, c, p, k, l)
    BY <1>3 DEF RingsAreBlocks
  <2>2. \A m \in k..l : s[m + (k - k)] = p[m]
    BY <1>1
  <2>3. k \in Int /\ l \in Int /\ l - l = k - k /\ k <= l
    OBVIOUS
  <2>4. l \in j..Len(s)
    BY <1>1, <1>2
  <2>5. RingBlock(ring, c, s, k, l)
    BY Zenon, <2>1, <2>2, <2>3, ShiftedBlock
  <2> QED
    BY Zenon, <2>4, <2>5
<1>4. CASE j > Len(p)
  <2>1. j - Len(p) \in 1..Len(q)
    BY <1>1, <1>2, <1>4
  <2>2. PICK k \in 1..(j - Len(p)), l \in (j - Len(p))..Len(q) : RingBlock(ring, c, q, k, l)
    BY Zenon, <2>1 DEF RingsAreBlocks
  <2> DEFINE a == k + Len(p)
  <2> DEFINE b == l + Len(p)
  <2>3. /\ a \in 1..j /\ b \in j..Len(s) /\ b - l = a - k /\ a - k = Len(p) /\ k <= l
        /\ a \in Int /\ b \in Int /\ k \in Int /\ l \in Int
    BY <1>1, <1>2, <2>1
  <2>4. \A m \in k..l : s[m + (a - k)] = q[m]
    BY <1>1, <1>2
  <2> HIDE DEF a, b
  <2>5. RingBlock(ring, c, s, a, b)
    BY Zenon, <2>2, <2>3, <2>4, ShiftedBlock
  <2> QED
    BY Zenon, <2>3, <2>5
<1> QED
  BY <1>3, <1>4, <1>2
\* The block of the last waiter ends the queue, that of the first one begins it.
LEMMA EndBlocks ==
  ASSUME NEW q \in Seq(Threads), q # <<>>, NEW ring, NEW c, RingsAreBlocks(ring, c, q)
  PROVE  /\ Len(q) \in 1..Len(q) /\ 1 \in 1..Len(q)
         /\ \E k \in 1..Len(q) : RingBlock(ring, c, q, k, Len(q))
         /\ \E l \in 1..Len(q) : RingBlock(ring, c, q, 1, l)
<1>1. Len(q) \in 1..Len(q) /\ 1 \in 1..Len(q)
  BY QueueFacts
<1>2. PICK k \in 1..Len(q), l \in Len(q)..Len(q) : RingBlock(ring, c, q, k, l)
  BY Zenon, <1>1 DEF RingsAreBlocks
<1>3. PICK m \in 1..1, n \in 1..Len(q) : RingBlock(ring, c, q, m, n)
  BY Zenon, <1>1 DEF RingsAreBlocks
<1>4. l = Len(q) /\ m = 1
  BY <1>1
<1> QED
  BY Zenon, <1>1, <1>2, <1>3, <1>4

\* nsync_maybe_merge_conditions_ joins the last ring of a queue and the first
\* ring of the queue put after it, or leaves them apart.
LEMMA MergeBlocks ==
  ASSUME NEW p \in Seq(Threads), NEW q \in Seq(Threads), p # <<>>, q # <<>>,
         IsInjective(p), IsInjective(q), Range(p) \cap Range(q) = {},
         NEW ring \in [Threads -> Threads], NEW c,
         RingsAreBlocks(ring, c, p), RingsAreBlocks(ring, c, q), Closed(ring, q),
         NEW r, r = MergeConditions(ring, c, LastOf(p), Head(q))
  PROVE  /\ r \in [Threads -> Threads]
         /\ RingsAreBlocks(r, c, p \o q)
         /\ \A x \in Threads \ (Range(p) \cup Range(q)) : r[x] = ring[x]
<1> DEFINE L == Len(p)
<1> DEFINE s == p \o q
<1>1. /\ L \in Nat /\ L \in 1..L /\ Len(q) \in Nat /\ 1 \in 1..Len(q)
      /\ LastOf(p) = p[L] /\ Head(q) = q[1]
  BY EndBlocks DEF LastOf
<1>2. /\ s \in Seq(Threads) /\ Len(s) = L + Len(q)
      /\ \A m \in 1..L : s[m] = p[m]
      /\ \A m \in 1..Len(q) : s[L + m] = q[m]
  BY ConcatFacts
<1>3. CASE ~ConditionEq(c[p[L]], c[q[1]])
  <2>1. r = ring
    BY Zenon, <1>1, <1>3 DEF MergeConditions
  <2> QED
    BY Zenon, <2>1, ConcatBlocks
<1>4. CASE ConditionEq(c[p[L]], c[q[1]])
  <2>1. PICK k \in 1..L : RingBlock(ring, c, p, k, L)
    BY Zenon, EndBlocks
  <2>2. PICK l \in 1..Len(q) : RingBlock(ring, c, q, 1, l)
    BY Zenon, EndBlocks
  <2>3. SamePrev(ring, q[1]) = q[l]
    <3>1. 1 \in 1..1 /\ l \in 1..Len(q) /\ 1 \in 1..Len(q)
      BY <1>1
    <3> QED
      BY <2>2, <3>1, BlockPrev
  <2>4. ring[p[L]] = p[k]
    BY Zenon, <2>1 DEF RingBlock
  <2>5. r = [ring EXCEPT ![p[L]] = q[1], ![q[l]] = p[k]]
    BY Zenon, <1>1, <1>4, <2>3, <2>4 DEF MergeConditions
  <2>6. /\ p[L] \in Range(p) /\ q[l] \in Range(q)
        /\ p[L] \in Threads /\ q[l] \in Threads /\ p[k] \in Threads /\ q[1] \in Threads
    BY Zenon, <1>1, InRange
  <2>7. /\ r \in [Threads -> Threads] /\ r[p[L]] = q[1] /\ r[q[l]] = p[k]
        /\ \A x \in Threads : x # p[L] /\ x # q[l] => r[x] = ring[x]
    BY <2>5, <2>6
  <2>8. \A m \in 1..L : p[m] \in Threads /\ p[m] \notin Range(q) /\ (m # L => p[m] # p[L])
    BY Zenon, <1>1, InRange, Injective
  <2>9. \A m \in 1..Len(q) : q[m] \in Threads /\ q[m] \notin Range(p) /\ (m # l => q[m] # q[l])
    BY Zenon, InRange, Injective
  <2>10. \A m \in 1..L : m # L => r[p[m]] = ring[p[m]]
    BY Zenon, <2>6, <2>7, <2>8
  <2>11. \A m \in 1..Len(q) : m # l => r[q[m]] = ring[q[m]]
    BY Zenon, <2>6, <2>7, <2>9
  <2>12. RingBlock(r, c, s, k, L + l)
    <3>1. s[k] = p[k] /\ s[L + l] = q[l] /\ r[q[l]] = p[k]
      BY Zenon, <1>2, <2>7
    <3>2. ASSUME NEW m \in k..(L + l - 1) PROVE r[s[m]] = s[m + 1]
      <4>1. CASE m < L
        <5>1. m \in 1..L /\ m + 1 \in 1..L /\ m # L /\ m \in k..(L - 1)
          BY <4>1
        <5>2. ring[p[m]] = p[m + 1]
          BY Zenon, <2>1, <5>1 DEF RingBlock
        <5> QED
          BY Zenon, <1>2, <2>10, <5>1, <5>2
      <4>2. CASE m = L
        <5>1. s[L] = p[L] /\ s[L + 1] = q[1]
          BY Zenon, <1>1, <1>2
        <5> QED
          BY Zenon, <2>7, <4>2, <5>1
      <4>3. CASE m > L
        <5> DEFINE n == m - L
        <5>1. n \in 1..Len(q) /\ n + 1 \in 1..Len(q) /\ n # l /\ n \in 1..(l - 1)
              /\ m = L + n /\ m + 1 = L + (n + 1)
          BY <1>1, <4>3
        <5> HIDE DEF n
        <5>2. ring[q[n]] = q[n + 1]
          BY Zenon, <2>2, <5>1 DEF RingBlock
        <5>3. s[m] = q[n] /\ s[m + 1] = q[n + 1]
          BY Zenon, <1>2, <5>1
        <5> QED
          BY Zenon, <2>11, <5>1, <5>2, <5>3
      <4> QED
        BY <1>1, <4>1, <4>2, <4>3
    <3>3. ASSUME NEW m \in k..(L + l) PROVE c[s[m]] = c[p[k]]
      <4>1. \A n \in k..L : c[p[n]] = c[p[k]]
        BY Zenon, <2>1 DEF RingBlock
      <4>2. \A n \in 1..l : c[q[n]] = c[q[1]]
        BY Zenon, <2>2 DEF RingBlock
      <4>3. c[q[1]] = c[p[k]]
        BY <1>1, <1>4, <4>1 DEF ConditionEq
      <4>4. CASE m <= L
        BY <1>2, <4>1, <4>4
      <4>5. CASE m > L
        <5> DEFINE n == m - L
        <5>1. n \in 1..Len(q) /\ n \in 1..l /\ m = L + n
          BY <1>1, <4>5
        <5> HIDE DEF n
        <5> QED
          BY <1>2, <4>2, <4>3, <5>1
      <4> QED
        BY <1>1, <4>4, <4>5
    <3>4. c[p[k]] # NoCond
      BY <1>1, <1>4, <2>1 DEF ConditionEq, RingBlock
    <3> QED
      BY <3>1, <3>2, <3>3, <3>4 DEF RingBlock
  <2> HIDE DEF s
  <2>13. ASSUME NEW j \in 1..Len(s)
         PROVE  \E a \in 1..j, b \in j..Len(s) : RingBlock(r, c, s, a, b)
    <3>1. CASE j < k
      <4>1. PICK a \in 1..j, b \in j..L : RingBlock(ring, c, p, a, b)
        <5>1. j \in 1..L
          BY <1>1, <3>1
        <5> QED
          BY Zenon, <5>1 DEF RingsAreBlocks
      <4>2. b < k
        <5> SUFFICES ASSUME ~(b < k) PROVE FALSE
          BY Zenon
        <5>1. a \in 1..k /\ b \in k..L /\ k \in 1..k /\ L \in k..L /\ k \in 1..L
          BY <1>1, <3>1
        <5>2. a = k
          BY Zenon, <2>1, <4>1, <5>1, BlockUnique
        <5> QED
          BY <3>1, <5>2
      <4>3. \A m \in a..b : s[m] = p[m] /\ r[p[m]] = ring[p[m]] /\ c[p[m]] = c[p[m]]
        BY <1>2, <2>10, <4>2
      <4>4. RingBlock(r, c, s, a, b)
        BY <4>1, <4>3, KeptBlock
      <4> QED
        BY <1>1, <1>2, <4>4
    <3>2. CASE k <= j /\ j <= L + l
      <4>1. k \in 1..j /\ L + l \in j..Len(s)
        BY <1>1, <1>2, <3>2
      <4> QED
        BY Zenon, <2>12, <4>1
    <3>3. CASE j > L + l
      <4>1. j - L \in 1..Len(q)
        BY <1>1, <1>2, <3>3
      <4>2. PICK a \in 1..(j - L), b \in (j - L)..Len(q) : RingBlock(ring, c, q, a, b)
        BY Zenon, <4>1 DEF RingsAreBlocks
      <4>3. a > l
        <5> SUFFICES ASSUME ~(a > l) PROVE FALSE
          BY Zenon
        <5>1. a \in 1..l /\ b \in l..Len(q) /\ 1 \in 1..l /\ l \in l..Len(q)
          BY <1>1, <3>3, <4>1
        <5>2. b = l
          BY Zenon, <2>2, <4>2, <5>1, BlockUnique
        <5> QED
          BY <1>1, <3>3, <5>2
      <4> DEFINE aa == L + a
      <4> DEFINE bb == L + b
      <4>4. /\ aa \in 1..j /\ bb \in j..Len(s) /\ bb - b = aa - a /\ aa - a = L /\ a <= b
            /\ aa \in Int /\ bb \in Int /\ a \in Int /\ b \in Int
        BY <1>1, <1>2, <4>1
      <4>5. /\ \A m \in a..b : s[m + (aa - a)] = q[m]
            /\ \A m \in a..b : r[q[m]] = ring[q[m]]
        <5>1. \A m \in a..b : m \in 1..Len(q) /\ m # l /\ m + (aa - a) = L + m
          BY <1>1, <4>3
        <5> QED
          BY Zenon, <1>2, <2>11, <5>1
      <4> HIDE DEF aa, bb
      <4>6. RingBlock(r, c, s, aa, bb)
        <5>1. RingBlock(ring, c, s, aa, bb)
          BY Zenon, <4>2, <4>4, <4>5, ShiftedBlock
        <5>2. ASSUME NEW n \in aa..bb PROVE r[s[n]] = ring[s[n]]
          <6>1. n - (aa - a) \in a..b /\ (n - (aa - a)) + (aa - a) = n
            BY <4>4
          <6> QED
            BY <4>5, <6>1
        <5>3. \A n \in aa..bb : s[n] = s[n] /\ r[s[n]] = ring[s[n]] /\ c[s[n]] = c[s[n]]
          BY Zenon, <5>2
        <5>4. aa \in Int /\ bb \in Int /\ aa <= bb
          BY <4>4
        <5> QED
          BY Zenon, <5>1, <5>3, <5>4, KeptBlock
      <4> QED
        BY Zenon, <4>4, <4>6
    <3> QED
      BY <1>1, <1>2, <3>1, <3>2, <3>3
  <2>14. \A x \in Threads \ (Range(p) \cup Range(q)) : r[x] = ring[x]
    BY Zenon, <2>6, <2>7
  <2> QED
    BY Zenon, <2>7, <2>13, <2>14 DEF RingsAreBlocks, s
<1> QED
  BY Zenon, <1>3, <1>4
\* A waiter that is not linked to another one is a block of its own.
LEMMA SingleBlock ==
  ASSUME NEW q \in Seq(Threads), IsInjective(q), NEW ring, NEW c, NEW i \in 1..Len(q),
         NEW k \in 1..i, NEW l \in i..Len(q), RingBlock(ring, c, q, k, l)
  PROVE  /\ ring[q[i]] = IF i = l THEN q[k] ELSE q[i + 1]
         /\ ring[q[i]] = q[i] <=> k = i /\ l = i
<1>1. \A a, b \in 1..Len(q) : q[a] = q[b] => a = b
  BY Zenon, Injective
<1>2. CASE i = l
  <2>1. ring[q[i]] = q[k] /\ k \in 1..Len(q)
    BY <1>2 DEF RingBlock
  <2> QED
    BY Zenon, <1>1, <1>2, <2>1
<1>3. CASE i # l
  <2>1. i \in k..(l - 1) /\ i + 1 \in 1..Len(q) /\ i + 1 # i
    BY <1>3
  <2>2. ring[q[i]] = q[i + 1]
    BY Zenon, <2>1 DEF RingBlock
  <2> QED
    BY Zenon, <1>1, <1>3, <2>1, <2>2
<1> QED
  BY Zenon, <1>2, <1>3

\* A waiter that is linked to itself is a block of its own.
LEMMA OwnBlock ==
  ASSUME NEW q \in Seq(Threads), IsInjective(q), NEW ring, NEW c, NEW i \in 1..Len(q),
         NEW k \in 1..i, NEW l \in i..Len(q), RingBlock(ring, c, q, k, l),
         ring[q[i]] = q[i]
  PROVE  k = i /\ l = i
BY SingleBlock

\* A waiter before a block is in a block that ends before it.
LEMMA BlocksBefore ==
  ASSUME NEW q \in Seq(Threads), IsInjective(q), NEW ring, NEW c,
         RingsAreBlocks(ring, c, q), NEW i \in 1..Len(q),
         NEW k \in 1..i, NEW l \in i..Len(q), RingBlock(ring, c, q, k, l),
         NEW j \in 1..(k - 1)
  PROVE  \E a \in 1..j, b \in j..(k - 1) : RingBlock(ring, c, q, a, b)
<1>1. j \in 1..Len(q)
  OBVIOUS
<1>2. PICK a \in 1..j, b \in j..Len(q) : RingBlock(ring, c, q, a, b)
  BY Zenon, <1>1 DEF RingsAreBlocks
<1>3. b < k
  <2> SUFFICES ASSUME ~(b < k) PROVE FALSE
    BY Zenon
  <2>1. k \in 1..Len(q) /\ a \in 1..k /\ b \in k..Len(q) /\ k \in 1..k /\ l \in k..Len(q)
    OBVIOUS
  <2>2. a = k
    BY Zenon, <1>2, <2>1, BlockUnique
  <2> QED
    BY <2>2
<1>4. b \in j..(k - 1)
  BY <1>3
<1> QED
  BY Zenon, <1>2, <1>4

\* A waiter after a block is in a block that begins after it.
LEMMA BlocksAfter ==
  ASSUME NEW q \in Seq(Threads), IsInjective(q), NEW ring, NEW c,
         RingsAreBlocks(ring, c, q), NEW i \in 1..Len(q),
         NEW k \in 1..i, NEW l \in i..Len(q), RingBlock(ring, c, q, k, l),
         NEW j \in (l + 1)..Len(q)
  PROVE  \E a \in (l + 1)..j, b \in j..Len(q) : RingBlock(ring, c, q, a, b)
<1>1. j \in 1..Len(q)
  OBVIOUS
<1>2. PICK a \in 1..j, b \in j..Len(q) : RingBlock(ring, c, q, a, b)
  BY Zenon, <1>1 DEF RingsAreBlocks
<1>3. a > l
  <2> SUFFICES ASSUME ~(a > l) PROVE FALSE
    BY Zenon
  <2>1. l \in 1..Len(q) /\ a \in 1..l /\ b \in l..Len(q) /\ k \in 1..l /\ l \in l..Len(q)
    OBVIOUS
  <2>2. b = l
    BY Zenon, <1>2, <2>1, BlockUnique
  <2> QED
    BY <2>2
<1>4. a \in (l + 1)..j
  BY <1>3
<1> QED
  BY Zenon, <1>2, <1>4

\* The ring of a waiter that leaves it.
Unlinked(ring, e) == [ring EXCEPT ![SamePrev(ring, e)] = ring[e], ![e] = e]

\* nsync_remove_from_mu_queue_ unlinks a waiter from its ring.
LEMMA UnlinkBlocks ==
  ASSUME NEW q \in Seq(Threads), IsInjective(q), NEW ring \in [Threads -> Threads], NEW c,
         RingsAreBlocks(ring, c, q), Closed(ring, q), NEW i \in 1..Len(q),
         ring[q[i]] # q[i],
         NEW r, r = Unlinked(ring, q[i])
  PROVE  /\ r \in [Threads -> Threads] /\ r[q[i]] = q[i]
         /\ RingsAreBlocks(r, c, Without(q, i))
         /\ \A x \in Threads \ Range(q) : r[x] = ring[x]
<1> DEFINE s == Without(q, i)
<1>1. /\ s \in Seq(Threads) /\ Len(s) = Len(q) - 1 /\ Len(q) \in Nat
      /\ \A j \in 1..(i - 1) : s[j] = q[j]
      /\ \A j \in i..(Len(q) - 1) : s[j] = q[j + 1]
  <2>1. /\ s \in Seq(Threads) /\ Len(s) = Len(q) - 1 /\ Len(q) \in Nat
        /\ \A j \in 1..(Len(q) - 1) : s[j] = IF j < i THEN q[j] ELSE q[j + 1]
    <3>1. s \in Seq(Threads) /\ Len(s) = Len(q) - 1
      BY Zenon, WithoutFacts
    <3>2. \A j \in 1..(Len(q) - 1) : s[j] = IF j < i THEN q[j] ELSE q[j + 1]
      BY Zenon, WithoutFacts
    <3>3. Len(q) \in Nat
      BY Zenon, QueueFacts
    <3> QED
      BY Zenon, <3>1, <3>2, <3>3
  <2> HIDE DEF s
  <2>2. \A j \in 1..(i - 1) : s[j] = q[j]
    BY <2>1
  <2>3. \A j \in i..(Len(q) - 1) : s[j] = q[j + 1]
    BY <2>1
  <2> QED
    BY Zenon, <2>1, <2>2, <2>3
<1> HIDE DEF s
<1>2. PICK k \in 1..i, l \in i..Len(q) : RingBlock(ring, c, q, k, l)
  BY Zenon DEF RingsAreBlocks
<1> DEFINE h == IF i = k THEN l ELSE i - 1
<1>3. /\ k < l /\ h \in k..l /\ h # i /\ h \in 1..Len(q)
      /\ i = k => h = l
      /\ i # k => h = i - 1
  BY <1>2, SingleBlock
<1>4. SamePrev(ring, q[i]) = q[h]
  BY <1>2, BlockPrev
<1> HIDE DEF h
<1>5. \A a \in 1..Len(q) : q[a] \in Threads /\ q[a] \in Range(q)
  BY Zenon, InRange
<1>6. \A a, b \in 1..Len(q) : q[a] = q[b] => a = b
  BY Zenon, Injective
<1>7. ring[q[i]] = IF i = l THEN q[k] ELSE q[i + 1]
  BY <1>2, SingleBlock
<1>8. /\ ring[q[l]] = q[k]
      /\ \A m \in k..(l - 1) : ring[q[m]] = q[m + 1]
      /\ \A m \in k..l : c[q[m]] = c[q[k]]
      /\ c[q[k]] # NoCond
  BY Zenon, <1>2, <1>3 DEF RingBlock
<1>9. /\ r \in [Threads -> Threads] /\ r[q[i]] = q[i] /\ r[q[h]] = ring[q[i]]
      /\ \A x \in Threads : x # q[i] /\ x # q[h] => r[x] = ring[x]
  <2>1. q[i] \in Threads /\ q[h] \in Threads /\ q[h] # q[i] /\ ring[q[i]] \in Threads
    BY Zenon, <1>3, <1>5, <1>6
  <2>2. r = [ring EXCEPT ![q[h]] = ring[q[i]], ![q[i]] = q[i]]
    BY Zenon, <1>4 DEF Unlinked
  <2> QED
    BY Zenon, <2>1, <2>2
<1>10. \A a \in 1..Len(q) : a # i /\ a # h => r[q[a]] = ring[q[a]]
  BY Zenon, <1>3, <1>5, <1>6, <1>9
<1>11. RingBlock(r, c, s, k, l - 1)
  <2>1. r[s[l - 1]] = s[k]
    <3>1. CASE i = l
      <4>1. s[l - 1] = q[l - 1] /\ s[k] = q[k] /\ h = l - 1
        BY <1>1, <1>3, <3>1
      <4> QED
        BY Zenon, <1>7, <1>9, <3>1, <4>1
    <3>2. CASE i # l /\ i = k
      <4>1. s[l - 1] = q[l] /\ s[k] = q[k + 1] /\ h = l
        BY <1>1, <1>3, <3>2
      <4> QED
        BY Zenon, <1>7, <1>9, <3>2, <4>1
    <3>3. CASE i # l /\ i # k
      <4>1. h = i - 1 /\ l # i /\ l # h
        BY <1>3, <3>3
      <4>2. l - 1 \in i..(Len(q) - 1) /\ l - 1 + 1 = l /\ k \in 1..(i - 1)
        BY <3>3
      <4>3. s[l - 1] = q[l] /\ s[k] = q[k]
        BY Zenon, <1>1, <4>2
      <4> QED
        <5>1. l \in 1..Len(q) /\ r[q[l]] = ring[q[l]]
          BY <1>10, <4>1
        <5> QED
          BY Zenon, <1>8, <4>3, <5>1
    <3> QED
      BY Zenon, <3>1, <3>2, <3>3
  <2>2. ASSUME NEW m \in k..(l - 1 - 1) PROVE r[s[m]] = s[m + 1]
    <3>1. CASE m < i - 1
      <4>1. m \in 1..(i - 1) /\ m + 1 \in 1..(i - 1) /\ m \in 1..Len(q) /\ m \in k..(l - 1)
        BY <3>1
      <4>2. m # i /\ m # h
        BY <1>3, <3>1
      <4>3. ring[q[m]] = q[m + 1] /\ r[q[m]] = ring[q[m]]
        BY Zenon, <1>8, <1>10, <4>1, <4>2
      <4> QED
        BY Zenon, <1>1, <4>1, <4>3
    <3>2. CASE m = i - 1
      <4>1. s[m] = q[h] /\ s[m + 1] = q[i + 1] /\ i # l
        BY <1>1, <1>3, <3>2
      <4> QED
        BY Zenon, <1>7, <1>9, <4>1
    <3>3. CASE m > i - 1
      <4> DEFINE n == m + 1
      <4>1. /\ m \in i..(Len(q) - 1) /\ n \in i..(Len(q) - 1) /\ n \in k..(l - 1)
            /\ n \in 1..Len(q)
        BY <1>1, <3>3
      <4>2. n # i /\ n # h
        BY <1>3, <3>3
      <4>3. s[m] = q[n] /\ s[n] = q[n + 1]
        BY Zenon, <1>1, <4>1
      <4> HIDE DEF n
      <4>4. ring[q[n]] = q[n + 1] /\ r[q[n]] = ring[q[n]]
        BY Zenon, <1>8, <1>10, <4>1, <4>2
      <4> QED
        BY Zenon, <4>3, <4>4 DEF n
    <3> QED
      BY <3>1, <3>2, <3>3
  <2>3. ASSUME NEW m \in k..(l - 1) PROVE c[s[m]] = c[q[k]]
    <3>1. CASE m < i
      <4>1. m \in 1..(i - 1) /\ m \in k..l
        BY <3>1
      <4>2. s[m] = q[m]
        BY Zenon, <1>1, <4>1
      <4> QED
        BY Zenon, <1>8, <4>1, <4>2
    <3>2. CASE ~(m < i)
      <4>1. m \in i..(Len(q) - 1) /\ m + 1 \in k..l
        BY <1>1, <3>2
      <4>2. s[m] = q[m + 1]
        BY Zenon, <1>1, <4>1
      <4> QED
        BY Zenon, <1>8, <4>1, <4>2
    <3> QED
      BY Zenon, <3>1, <3>2
  <2>4. k \in k..(l - 1)
    BY <1>3
  <2> QED
    BY Zenon, <1>8, <2>1, <2>2, <2>3, <2>4 DEF RingBlock
<1>12. ASSUME NEW j \in 1..Len(s)
       PROVE  \E a \in 1..j, b \in j..Len(s) : RingBlock(r, c, s, a, b)
  <2>1. CASE j < k
    <3>1. j \in 1..(k - 1)
      BY <1>1, <2>1
    <3>2. PICK a \in 1..j, b \in j..(k - 1) : RingBlock(ring, c, q, a, b)
      BY Zenon, <1>2, <3>1, BlocksBefore
    <3>3. \A m \in a..b : m \in 1..(i - 1) /\ m \in 1..Len(q) /\ m # i /\ m # h
      BY <1>1, <1>3
    <3>4. \A m \in a..b : s[m] = q[m] /\ r[q[m]] = ring[q[m]] /\ c[q[m]] = c[q[m]]
      BY Zenon, <1>1, <1>10, <3>3
    <3>5. a \in Int /\ b \in Int /\ a <= b /\ b \in j..Len(s)
      BY <1>1, <1>3
    <3>6. RingBlock(r, c, s, a, b)
      <4>1. RingBlock(ring, c, s, a, b)
        <5>1. \A m \in a..b : s[m] = q[m]
          BY Zenon, <3>4
        <5> QED
          BY Zenon, <3>2, <3>5, <5>1, PlacedBlock
      <4>2. \A m \in a..b : s[m] = s[m] /\ r[s[m]] = ring[s[m]] /\ c[s[m]] = c[s[m]]
        BY Zenon, <3>4
      <4> QED
        BY Zenon, <3>5, <4>1, <4>2, KeptBlock
    <3> QED
      BY Zenon, <3>5, <3>6
  <2>2. CASE k <= j /\ j < l
    <3>1. k \in 1..j /\ l - 1 \in j..Len(s)
      BY <1>1, <2>2
    <3> QED
      BY Zenon, <1>11, <3>1
  <2>3. CASE l <= j
    <3>1. j + 1 \in (l + 1)..Len(q)
      BY <1>1, <2>3
    <3>2. PICK a \in (l + 1)..(j + 1), b \in (j + 1)..Len(q) : RingBlock(ring, c, q, a, b)
      BY Zenon, <1>2, <3>1, BlocksAfter
    <3> DEFINE aa == a - 1
    <3> DEFINE bb == b - 1
    <3>3. /\ aa \in 1..j /\ bb \in j..Len(s) /\ bb - b = aa - a /\ a <= b /\ aa <= bb
          /\ aa \in Int /\ bb \in Int /\ a \in Int /\ b \in Int /\ aa - a = -1
      BY <1>1, <1>3
    <3>4. \A m \in a..b : s[m + (aa - a)] = q[m]
      <4> SUFFICES ASSUME NEW m \in a..b PROVE s[m + (aa - a)] = q[m]
        BY Zenon
      <4>1. m + (aa - a) = m - 1 /\ m - 1 \in i..(Len(q) - 1) /\ m - 1 + 1 = m
        OBVIOUS
      <4> QED
        BY Zenon, <1>1, <4>1
    <3>5. \A m \in aa..bb : s[m] = q[m + 1] /\ m + 1 \in 1..Len(q) /\ m + 1 # i /\ m + 1 # h
      BY SMTT(20), <1>1, <1>3
    <3> HIDE DEF aa, bb
    <3>6. RingBlock(ring, c, s, aa, bb)
      BY Zenon, <3>2, <3>3, <3>4, ShiftedBlock
    <3>7. \A m \in aa..bb : s[m] = s[m] /\ r[s[m]] = ring[s[m]] /\ c[s[m]] = c[s[m]]
      BY Zenon, <1>10, <3>5
    <3>8. RingBlock(r, c, s, aa, bb)
      BY Zenon, <3>3, <3>6, <3>7, KeptBlock
    <3> QED
      BY Zenon, <3>3, <3>8
  <2>4. j < k \/ (k <= j /\ j < l) \/ l <= j
    BY <1>1
  <2> QED
    BY Zenon, <2>1, <2>2, <2>3, <2>4
<1>13. \A x \in Threads \ Range(q) : r[x] = ring[x]
  BY Zenon, <1>3, <1>5, <1>9
<1> QED
  BY Zenon, <1>9, <1>12, <1>13 DEF RingsAreBlocks, s
\* The two parts of a queue beside a waiter that is a block of its own.
LEMMA PartsOfQueue ==
  ASSUME NEW q \in Seq(Threads), IsInjective(q), NEW ring \in [Threads -> Threads], NEW c,
         RingsAreBlocks(ring, c, q), Closed(ring, q), NEW i \in 1..Len(q),
         RingBlock(ring, c, q, i, i),
         NEW p \in Seq(Threads), Len(p) = i - 1, \A j \in 1..(i - 1) : p[j] = q[j],
         NEW n \in Seq(Threads), Len(n) = Len(q) - i,
         \A j \in 1..(Len(q) - i) : n[j] = q[i + j], Without(q, i) = p \o n
  PROVE  /\ IsInjective(p) /\ IsInjective(n) /\ Range(p) \cap Range(n) = {}
         /\ Range(p) \cup Range(n) = Range(q) \ {q[i]}
         /\ RingsAreBlocks(ring, c, p) /\ RingsAreBlocks(ring, c, n)
         /\ Closed(ring, n)
<1>1. p \in Seq(Threads) /\ Len(p) = i - 1 /\ \A j \in 1..(i - 1) : p[j] = q[j]
  BY Zenon
<1>2. /\ n \in Seq(Threads) /\ Len(n) = Len(q) - i
      /\ \A j \in 1..(Len(q) - i) : n[j] = q[i + j]
  BY Zenon
<1>3. \A a, b \in 1..Len(q) : q[a] = q[b] => a = b
  BY Zenon, Injective
<1>4. IsInjective(p) /\ IsInjective(n)
  <2>1. \A a, b \in 1..Len(p) : p[a] = p[b] => a = b
    <3> SUFFICES ASSUME NEW a \in 1..Len(p), NEW b \in 1..Len(p), p[a] = p[b] PROVE a = b
      BY Zenon
    <3>1. a \in 1..Len(q) /\ b \in 1..Len(q) /\ q[a] = q[b]
      BY <1>1
    <3> QED
      BY Zenon, <1>3, <3>1
  <2>2. \A a, b \in 1..Len(n) : n[a] = n[b] => a = b
    <3> SUFFICES ASSUME NEW a \in 1..Len(n), NEW b \in 1..Len(n), n[a] = n[b] PROVE a = b
      BY Zenon
    <3>1. i + a \in 1..Len(q) /\ i + b \in 1..Len(q) /\ q[i + a] = q[i + b]
      BY <1>2
    <3>2. i + a = i + b
      BY Zenon, <1>3, <3>1
    <3> QED
      BY <1>2, <3>2
  <2> QED
    BY Zenon, <1>1, <1>2, <2>1, <2>2, Injective
<1>5. Range(p) \cap Range(n) = {}
  <2> SUFFICES ASSUME NEW x \in Range(p), x \in Range(n) PROVE FALSE
    BY Zenon
  <2>1. PICK a \in 1..Len(p) : p[a] = x
    BY <1>1, InRange
  <2>2. PICK b \in 1..Len(n) : n[b] = x
    BY <1>2, InRange
  <2>3. a \in 1..Len(q) /\ i + b \in 1..Len(q) /\ q[a] = q[i + b] /\ a # i + b
    BY <1>1, <1>2, <2>1, <2>2
  <2> QED
    BY Zenon, <1>3, <2>3
<1>6. Range(p) \cup Range(n) = Range(q) \ {q[i]}
  <2>1. Range(Without(q, i)) = Range(q) \ {q[i]}
    BY Zenon, WithoutRange
  <2>3. p \in Seq(Threads) /\ n \in Seq(Threads)
    BY Zenon, <1>1, <1>2
  <2>4. Range(p \o n) = Range(p) \cup Range(n)
    BY Zenon, <2>3, ConcatRange
  <2> QED
    BY Zenon, <2>1, <2>4
<1>7. i \in 1..i /\ i \in i..Len(q)
  OBVIOUS
<1>8. RingsAreBlocks(ring, c, p)
  <2> SUFFICES ASSUME NEW j \in 1..Len(p)
               PROVE  \E a \in 1..j, b \in j..Len(p) : RingBlock(ring, c, p, a, b)
    BY Zenon DEF RingsAreBlocks
  <2>1. j \in 1..(i - 1)
    BY Zenon, <1>1
  <2>2. PICK a \in 1..j, b \in j..(i - 1) : RingBlock(ring, c, q, a, b)
    BY Zenon, <1>7, <2>1, BlocksBefore
  <2>3. /\ \A m \in a..b : p[m] = q[m]
        /\ a \in Int /\ b \in Int /\ a <= b /\ b \in j..Len(p)
    BY <1>1
  <2>4. RingBlock(ring, c, p, a, b)
    BY Zenon, <2>2, <2>3, PlacedBlock
  <2> QED
    BY Zenon, <2>3, <2>4
<1>9. RingsAreBlocks(ring, c, n)
  <2> SUFFICES ASSUME NEW j \in 1..Len(n)
               PROVE  \E a \in 1..j, b \in j..Len(n) : RingBlock(ring, c, n, a, b)
    BY Zenon DEF RingsAreBlocks
  <2>1. j + i \in (i + 1)..Len(q)
    BY <1>2
  <2>2. PICK a \in (i + 1)..(j + i), b \in (j + i)..Len(q) : RingBlock(ring, c, q, a, b)
    BY Zenon, <1>7, <2>1, BlocksAfter
  <2> DEFINE aa == a - i
  <2> DEFINE bb == b - i
  <2>3. /\ aa \in 1..j /\ bb \in j..Len(n) /\ bb - b = aa - a /\ a <= b
        /\ aa \in Int /\ bb \in Int /\ a \in Int /\ b \in Int
    BY <1>2
  <2>4. \A m \in a..b : n[m + (aa - a)] = q[m]
    <3> SUFFICES ASSUME NEW m \in a..b PROVE n[m + (aa - a)] = q[m]
      BY Zenon
    <3>1. m + (aa - a) = m - i /\ m - i \in 1..(Len(q) - i) /\ i + (m - i) = m
      BY SMTT(20), <1>2
    <3> QED
      BY Zenon, <1>2, <3>1
  <2> HIDE DEF aa, bb
  <2>5. RingBlock(ring, c, n, aa, bb)
    BY Zenon, <2>2, <2>3, <2>4, ShiftedBlock
  <2> QED
    BY Zenon, <2>3, <2>5
<1>10. Closed(ring, n)
  <2> SUFFICES ASSUME NEW x \in Threads, x \notin Range(n), ring[x] \in Range(n) PROVE FALSE
    BY Zenon DEF Closed
  <2>1. x \in Range(q)
    BY Zenon, <1>6 DEF Closed
  <2>2. CASE x = q[i]
    <3>1. ring[x] = q[i]
      BY Zenon, <2>2 DEF RingBlock
    <3> QED
      BY Zenon, <1>6, <3>1
  <2>3. CASE x # q[i]
    <3>1. x \in Range(p)
      BY Zenon, <1>6, <2>1, <2>3
    <3>2. ring[x] \in Range(p)
      BY Zenon, <1>1, <1>8, <3>1, RingsStay
    <3> QED
      BY Zenon, <1>5, <3>2
  <2> QED
    BY Zenon, <2>2, <2>3
<1> QED
  BY Zenon, <1>4, <1>5, <1>6, <1>8, <1>9, <1>10

\* What a queue's rings are after its i-th waiter has left.
Removes(r, ring, c, q, i) ==
  /\ r \in [Threads -> Threads] /\ r[q[i]] = q[i]
  /\ RingsAreBlocks(r, c, Without(q, i))
  /\ \A x \in Threads \ Range(q) : r[x] = ring[x]

\* What the rings of two queues are after they were joined.
Joins(r, ring, c, p, q) ==
  /\ r \in [Threads -> Threads]
  /\ RingsAreBlocks(r, c, p \o q)
  /\ \A x \in Threads \ (Range(p) \cup Range(q)) : r[x] = ring[x]

\* The result of leaving a ring of more than one waiter.
LEMMA UnlinkRemoves ==
  ASSUME NEW q \in Seq(Threads), IsInjective(q), NEW ring \in [Threads -> Threads], NEW c,
         RingsAreBlocks(ring, c, q), Closed(ring, q), NEW i \in 1..Len(q),
         ring[q[i]] # q[i]
  PROVE  Removes(Unlinked(ring, q[i]), ring, c, q, i)
<1> DEFINE r == Unlinked(ring, q[i])
<1>1. r = Unlinked(ring, q[i])
  BY Zenon
<1> HIDE DEF r
<1>2. Removes(r, ring, c, q, i)
  BY <1>1, UnlinkBlocks DEF Removes
<1> QED
  BY Zenon, <1>1, <1>2

\* nsync_maybe_merge_conditions_ joins the rings of two queues, where one of
\* them may be empty.
LEMMA MergeJoins ==
  ASSUME NEW p \in Seq(Threads), NEW q \in Seq(Threads),
         IsInjective(p), IsInjective(q), Range(p) \cap Range(q) = {},
         NEW ring \in [Threads -> Threads], NEW c,
         RingsAreBlocks(ring, c, p), RingsAreBlocks(ring, c, q), Closed(ring, q)
  PROVE  /\ Joins(ring, ring, c, p, q)
         /\ Joins(MergeQueues(ring, c, p, q), ring, c, p, q)
<1> DEFINE r == MergeConditions(ring, c, LastOf(p), Head(q))
<1>1. r = MergeConditions(ring, c, LastOf(p), Head(q))
  BY Zenon
<1> HIDE DEF r
<1>2. Joins(ring, ring, c, p, q)
  BY Zenon, ConcatBlocks DEF Joins
<1>3. CASE p # <<>> /\ q # <<>>
  <2>1. Joins(r, ring, c, p, q)
    BY <1>1, <1>3, MergeBlocks DEF Joins
  <2>2. MergeQueues(ring, c, p, q) = r
    BY Zenon, <1>1, <1>3 DEF MergeQueues
  <2> QED
    BY Zenon, <1>2, <2>1, <2>2
<1>4. CASE p = <<>> \/ q = <<>>
  <2>1. MergeQueues(ring, c, p, q) = ring
    BY Zenon, <1>4 DEF MergeQueues
  <2> QED
    BY Zenon, <1>2, <2>1
<1> QED
  BY Zenon, <1>3, <1>4

\* The positions of the two parts of a queue beside its i-th waiter.
LEMMA PartsFacts ==
  ASSUME NEW q \in Seq(Threads), NEW i \in 1..Len(q)
  PROVE  \E p, n \in Seq(Threads) :
           /\ Len(p) = i - 1 /\ \A j \in 1..(i - 1) : p[j] = q[j]
           /\ Len(n) = Len(q) - i /\ \A j \in 1..(Len(q) - i) : n[j] = q[i + j]
           /\ Without(q, i) = p \o n
<1>1. /\ SubSeq(q, 1, i - 1) \in Seq(Threads) /\ Len(SubSeq(q, 1, i - 1)) = i - 1
      /\ \A j \in 1..(i - 1) : SubSeq(q, 1, i - 1)[j] = q[j]
  OBVIOUS
<1>2. /\ SubSeq(q, i + 1, Len(q)) \in Seq(Threads)
      /\ Len(SubSeq(q, i + 1, Len(q))) = Len(q) - i
      /\ \A j \in 1..(Len(q) - i) : SubSeq(q, i + 1, Len(q))[j] = q[i + j]
  OBVIOUS
<1> QED
  BY Zenon, <1>1, <1>2 DEF Without

\* After nsync_remove_from_mu_queue_ the waiter is in no ring, and the rings of
\* the others are blocks of what is left of the queue.
LEMMA RemoveBlocks ==
  ASSUME NEW q \in Seq(Threads), IsInjective(q), NEW ring \in [Threads -> Threads], NEW c,
         RingsAreBlocks(ring, c, q), Closed(ring, q), NEW i \in 1..Len(q)
  PROVE  Removes(RingAfterRemove(ring, c, q, i), ring, c, q, i)
<1>1. CASE ring[q[i]] # q[i]
  <2>1. Removes(Unlinked(ring, q[i]), ring, c, q, i)
    BY Zenon, <1>1, UnlinkRemoves
  <2>2. Without(q, i) # <<>>
    <3>1. PICK k \in 1..i, l \in i..Len(q) : RingBlock(ring, c, q, k, l)
      BY Zenon DEF RingsAreBlocks
    <3>2. k < l
      BY <1>1, <3>1 DEF RingBlock
    <3>3. Len(Without(q, i)) = Len(q) - 1
      BY Zenon, WithoutFacts
    <3> QED
      BY <3>2, <3>3
  <2>3. RingAfterRemove(ring, c, q, i) = Unlinked(ring, q[i])
    BY Zenon, <1>1, <2>2 DEF RingAfterRemove, Unlinked
  <2> QED
    BY Zenon, <2>1, <2>3
<1>2. CASE ring[q[i]] = q[i]
  <2>1. RingBlock(ring, c, q, i, i)
    <3>1. PICK k \in 1..i, l \in i..Len(q) : RingBlock(ring, c, q, k, l)
      BY Zenon DEF RingsAreBlocks
    <3>2. k = i /\ l = i
      BY Zenon, <1>2, <3>1, OwnBlock
    <3> QED
      BY Zenon, <3>1, <3>2
  <2>2. PICK p \in Seq(Threads), n \in Seq(Threads) :
           /\ Len(p) = i - 1 /\ \A j \in 1..(i - 1) : p[j] = q[j]
           /\ Len(n) = Len(q) - i /\ \A j \in 1..(Len(q) - i) : n[j] = q[i + j]
           /\ Without(q, i) = p \o n
    BY Zenon, PartsFacts
  <2>3. /\ IsInjective(p) /\ IsInjective(n) /\ Range(p) \cap Range(n) = {}
        /\ Range(p) \cup Range(n) = Range(q) \ {q[i]}
        /\ RingsAreBlocks(ring, c, p) /\ RingsAreBlocks(ring, c, n)
        /\ Closed(ring, n)
    BY Zenon, <2>1, <2>2, PartsOfQueue
  <2>4. Joins(ring, ring, c, p, n) /\ Joins(MergeQueues(ring, c, p, n), ring, c, p, n)
    BY Zenon, <2>3, MergeJoins
  <2>5. \/ RingAfterRemove(ring, c, q, i) = ring
        \/ RingAfterRemove(ring, c, q, i) = MergeQueues(ring, c, p, n)
    <3> DEFINE rest == Without(q, i)
    <3>1. CASE rest = <<>>
      BY Zenon, <3>1 DEF RingAfterRemove
    <3>2. CASE rest # <<>> /\ (i = 1 \/ i = Len(q))
      <4>1. /\ Len(rest) = Len(q) - 1 /\ Len(q) - 1 \in 1..(Len(q) - 1)
            /\ \A j \in 1..(Len(q) - 1) : rest[j] = IF j < i THEN q[j] ELSE q[j + 1]
        BY <3>2, WithoutFacts, QueueFacts
      <4>2. LastOf(rest) = q[CircularPrev(q, i)]
        BY <3>2, <4>1 DEF LastOf, CircularPrev
      <4> HIDE DEF rest
      <4> QED
        BY Zenon, <1>2, <3>2, <4>2 DEF RingAfterRemove, rest
    <3>3. CASE rest # <<>> /\ i # 1 /\ i # Len(q)
      <4>1. p # <<>> /\ n # <<>> /\ LastOf(p) = q[i - 1] /\ Head(n) = q[i + 1]
        <5>1. Len(p) \in 1..(i - 1) /\ 1 \in 1..(Len(q) - i)
          BY <2>2, <3>3
        <5> QED
          BY <2>2, <5>1 DEF LastOf
      <4>2. CircularPrev(q, i) = i - 1 /\ CircularNext(q, i) = i + 1
        BY Zenon, <3>3 DEF CircularPrev, CircularNext
      <4>3. MergeQueues(ring, c, p, n) = MergeConditions(ring, c, q[i - 1], q[i + 1])
        BY Zenon, <4>1 DEF MergeQueues
      <4> HIDE DEF rest
      <4> QED
        BY Zenon, <1>2, <3>3, <4>2, <4>3 DEF RingAfterRemove, rest
    <3> QED
      BY Zenon, <3>1, <3>2, <3>3
  <2>6. ASSUME NEW r, Joins(r, ring, c, p, n) PROVE Removes(r, ring, c, q, i)
    <3>1. q[i] \in Threads /\ q[i] \notin Range(p) \cup Range(n) /\ Range(p) \cup Range(n) \subseteq Range(q)
      BY Zenon, <2>3, InRange
    <3>2. Without(q, i) = p \o n
      BY Zenon, <2>2
    <3> QED
      BY Zenon, <1>2, <2>6, <3>1, <3>2 DEF Joins, Removes
  <2> QED
    BY Zenon, <2>4, <2>5, <2>6
<1> QED
  BY Zenon, <1>1, <1>2

\* The rings when a waiter of nsync_mu_wait_with_deadline is queued.
LEMMA EnqueueBlocks ==
  ASSUME NEW q \in Seq(Threads), IsInjective(q), NEW ring \in [Threads -> Threads], NEW c,
         RingsAreBlocks(ring, c, q), Closed(ring, q), NEW t \in Threads, t \notin Range(q),
         ring[t] = t, NEW first \in BOOLEAN,
         \A x \in Threads : ring[x] = t => x = t,
         NEW r, r = RingAfterEnqueue(ring, c, q, t, first)
  PROVE  /\ r \in [Threads -> Threads]
         /\ RingsAreBlocks(r, c, Enqueue(q, t, first))
         /\ \A x \in Threads \ (Range(q) \cup {t}) : r[x] = ring[x]
<1> DEFINE s == <<t>>
<1>1. s \in Seq(Threads) /\ Range(s) = {t} /\ IsInjective(s) /\ Len(s) = 1 /\ s[1] = t
  BY Zenon, SingleQueue
<1>2. Enqueue(q, t, first) = IF first THEN q \o s ELSE s \o q
  BY EnqueueRange
<1>3. r = IF first THEN MergeQueues(ring, c, q, s) ELSE MergeQueues(ring, c, s, q)
  BY Zenon DEF RingAfterEnqueue
<1> HIDE DEF s
<1>4. RingsAreBlocks(ring, c, s)
  BY <1>1 DEF RingsAreBlocks, RingBlock
<1>5. Closed(ring, s)
  BY Zenon, <1>1 DEF Closed
<1>6. Range(q) \cap Range(s) = {} /\ Range(s) \cap Range(q) = {}
  BY Zenon, <1>1
<1>7. Joins(MergeQueues(ring, c, q, s), ring, c, q, s)
  BY Zenon, <1>1, <1>4, <1>5, <1>6, MergeJoins
<1>8. Joins(MergeQueues(ring, c, s, q), ring, c, s, q)
  BY Zenon, <1>1, <1>4, <1>5, <1>6, MergeJoins
<1>9. CASE first
  BY Zenon, <1>1, <1>2, <1>3, <1>7, <1>9 DEF Joins
<1>10. CASE ~first
  BY Zenon, <1>1, <1>2, <1>3, <1>8, <1>10 DEF Joins
<1> QED
  BY Zenon, <1>9, <1>10

\* skip_past_same_condition moves on, and only past waiters whose condition is
\* that of the one it starts from.
LEMMA SkipFacts ==
  ASSUME NEW q \in Seq(Threads), IsInjective(q), NEW ring, NEW c,
         RingsAreBlocks(ring, c, q), Closed(ring, q), NEW i \in 1..Len(q),
         NEW n, n = SkipPastSameCondition(ring, q, i)
  PROVE  /\ n \in (i + 1)..(Len(q) + 1)
         /\ \A m \in i..(n - 1) : c[q[m]] = c[q[i]]
<1>1. PICK k \in 1..i, l \in i..Len(q) : RingBlock(ring, c, q, k, l)
  BY Zenon DEF RingsAreBlocks
<1>2. SamePrev(ring, q[i]) = IF i = k THEN q[l] ELSE q[i - 1]
  BY <1>1, BlockPrev
<1>3. CASE n = i + 1
  BY <1>3
<1>4. CASE n # i + 1
  <2>1. /\ SamePrev(ring, q[i]) # q[i] /\ SamePrev(ring, q[i]) # q[CircularPrev(q, i)]
        /\ n = IndexOf(q, SamePrev(ring, q[i])) + 1
    BY Zenon, <1>4 DEF SkipPastSameCondition
  <2>2. i = k
    BY <1>2, <2>1 DEF CircularPrev
  <2>3. n = IndexOf(q, q[l]) + 1
    BY Zenon, <1>2, <2>1, <2>2
  <2>4. \A a, b \in 1..Len(q) : q[a] = q[b] => a = b
    BY Zenon, Injective
  <2>5. IndexOf(q, q[l]) = l
    <3>1. DOMAIN q = 1..Len(q) /\ l \in 1..Len(q)
      OBVIOUS
    <3> QED
      BY Zenon, <2>4, <3>1 DEF IndexOf
  <2>6. n - 1 = l /\ n \in (i + 1)..(Len(q) + 1)
    BY <2>3, <2>5
  <2>7. \A m \in i..l : c[q[m]] = c[q[i]]
    BY Zenon, <1>1, <2>2 DEF RingBlock
  <2> QED
    BY Zenon, <2>6, <2>7
<1> QED
  BY Zenon, <1>3, <1>4

\* Blocks are rings of neighbours in queue order.
LEMMA BlocksFollowQueue ==
  ASSUME NEW q \in Seq(Threads), NEW ring, NEW c, RingsAreBlocks(ring, c, q)
  PROVE  RingsFollowQueue(ring, c, q)
<1> SUFFICES ASSUME NEW j \in 1..Len(q), ring[q[j]] # q[j]
             PROVE  /\ ConditionEq(c[ring[q[j]]], c[q[j]])
                    /\ \/ j < Len(q) /\ ring[q[j]] = q[j + 1]
                       \/ \E k \in 1..(j - 1) :
                            /\ ring[q[j]] = q[k]
                            /\ \A m \in k..(j - 1) : ring[q[m]] = q[m + 1]
  BY Zenon, QueueFacts DEF RingsFollowQueue
<1>1. PICK k \in 1..j, l \in j..Len(q) : RingBlock(ring, c, q, k, l)
  BY Zenon DEF RingsAreBlocks
<1>2. CASE j = l
  <2>1. ring[q[j]] = q[k] /\ \A m \in k..(j - 1) : ring[q[m]] = q[m + 1]
    BY Zenon, <1>1, <1>2 DEF RingBlock
  <2>2. k # j /\ k \in 1..(j - 1)
    BY <2>1
  <2>3. c[q[j]] = c[q[k]] /\ c[q[k]] # NoCond
    BY <1>1, <1>2, <2>2 DEF RingBlock
  <2> QED
    BY Zenon, <2>1, <2>2, <2>3 DEF ConditionEq
<1>3. CASE j # l
  <2>1. j \in k..(l - 1) /\ j \in k..l /\ j + 1 \in k..l /\ k < l /\ j < Len(q)
    BY <1>3
  <2>2. ring[q[j]] = q[j + 1]
    BY Zenon, <1>1, <2>1 DEF RingBlock
  <2>3. c[q[j]] = c[q[k]] /\ c[q[j + 1]] = c[q[k]] /\ c[q[k]] # NoCond
    BY Zenon, <1>1, <2>1 DEF RingBlock
  <2> QED
    BY Zenon, <2>1, <2>2, <2>3 DEF ConditionEq
<1> QED
  BY Zenon, <1>2, <1>3
=============================================================================
