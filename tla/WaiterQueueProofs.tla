-------------------------- MODULE WaiterQueueProofs --------------------------
(***************************************************************************)
(* Through any history of the queue of an nsync_mu, for any number of      *)
(* waiters and conditions, the same_condition rings are exactly the runs of*)
(* neighbours with equal conditions.                                       *)
(*                                                                         *)
(* MuQueueProofs shows that the operations keep rings blocks of a queue;   *)
(* here they are shown to keep the blocks as long as possible.             *)
(***************************************************************************)
EXTENDS WaiterQueue, MuQueueProofs

\* Neighbours of s with equal conditions are linked.
Linked(r, c, s) ==
  \A j \in 1..(Len(s) - 1) : ConditionEq(c[s[j]], c[s[j + 1]]) => r[s[j]] = s[j + 1]

\* The last waiter of a block has another condition than the waiter after it.
LEMMA BlockEnds ==
  ASSUME NEW s \in Seq(Threads), IsInjective(s), NEW r, NEW c, Linked(r, c, s),
         NEW k \in 1..Len(s), NEW l \in k..(Len(s) - 1), RingBlock(r, c, s, k, l)
  PROVE  ~ConditionEq(c[s[l]], c[s[l + 1]])
<1>1. r[s[l]] = s[k] /\ l \in 1..(Len(s) - 1) /\ l + 1 \in 1..Len(s) /\ k # l + 1
  BY DEF RingBlock
<1>2. s[k] # s[l + 1]
  BY <1>1, Injective
<1> QED
  BY <1>1, <1>2 DEF Linked

\* nsync_maybe_merge_conditions_ links the last waiter of a queue with the first of
\* the queue put after it if their conditions are equal.
LEMMA MergeLinks ==
  ASSUME NEW p \in Seq(Threads), NEW s \in Seq(Threads),
         IsInjective(p), IsInjective(s), Range(p) \cap Range(s) = {},
         NEW r \in [Threads -> Threads], NEW c,
         RingsAreBlocks(r, c, p), RingsAreBlocks(r, c, s), Closed(r, s),
         Linked(r, c, p), Linked(r, c, s)
  PROVE  Linked(MergeQueues(r, c, p, s), c, p \o s)
<1> DEFINE L == Len(p)
<1> DEFINE a == p \o s
<1> DEFINE m == MergeQueues(r, c, p, s)
<1>1. /\ a \in Seq(Threads) /\ Len(a) = L + Len(s) /\ L \in Nat /\ Len(s) \in Nat
      /\ \A j \in 1..L : a[j] = p[j]
      /\ \A j \in 1..Len(s) : a[L + j] = s[j]
  BY ConcatFacts, QueueFacts
<1>2. CASE p = <<>> \/ s = <<>>
  <2>1. m = r
    BY <1>2 DEF MergeQueues
  <2>2. a = p \/ a = s
    BY <1>2
  <2> QED
    BY Zenon, <2>1, <2>2
<1>3. CASE p # <<>> /\ s # <<>>
  <2>1. /\ L \in 1..L /\ 1 \in 1..Len(s) /\ LastOf(p) = p[L] /\ Head(s) = s[1]
        /\ m = MergeConditions(r, c, p[L], s[1])
    BY <1>3, EndBlocks DEF LastOf, MergeQueues
  <2>2. PICK l \in 1..Len(s) : RingBlock(r, c, s, 1, l)
    BY <1>3, EndBlocks
  <2>3. SamePrev(r, s[1]) = s[l]
    BY <2>1, <2>2, BlockPrev
  <2>4. /\ p[L] \in Threads /\ s[1] \in Threads /\ s[l] \in Threads
        /\ \A j \in 1..L : p[j] \in Threads /\ \A h \in 1..Len(s) : p[j] # s[h]
    BY <2>1, <2>2, InRange
  <2>5. /\ ~ConditionEq(c[p[L]], c[s[1]]) => m = r
        /\ ConditionEq(c[p[L]], c[s[1]]) => m = [r EXCEPT ![p[L]] = s[1], ![s[l]] = r[p[L]]]
    BY <2>1, <2>3 DEF MergeConditions
  <2>6. ConditionEq(c[p[L]], c[s[1]]) => m[p[L]] = s[1]
    BY Zenon, <2>1, <2>4, <2>5
  <2>7. \A x \in Threads : x # p[L] /\ x # s[l] => m[x] = r[x]
    BY <2>4, <2>5
  <2> HIDE DEF m
  <2> HIDE DEF a
  <2> SUFFICES ASSUME NEW j \in 1..(Len(a) - 1), ConditionEq(c[a[j]], c[a[j + 1]])
               PROVE  m[a[j]] = a[j + 1]
    BY SMTT(30) DEF Linked, m, a
  <2>8. CASE j < L
    <3>1. /\ j \in 1..(L - 1) /\ j \in 1..L /\ j + 1 \in 1..L
          /\ a[j] = p[j] /\ a[j + 1] = p[j + 1]
      BY <1>1, <2>8
    <3>2. p[j] # p[L]
      BY <2>1, <2>8, <3>1, Injective
    <3>3. r[p[j]] = p[j + 1]
      BY <3>1 DEF Linked
    <3> QED
      BY <2>2, <2>4, <2>7, <3>1, <3>2, <3>3
  <2>9. CASE j = L
    BY <1>1, <2>1, <2>6, <2>9
  <2>10. CASE j > L
    <3>0. j - L \in 1..(Len(s) - 1) /\ j = L + (j - L)
      BY <1>1, <2>10
    <3>1. PICK h \in 1..(Len(s) - 1) : j = L + h
      BY SMTT(30), <3>0
    <3>2. /\ h \in 1..Len(s) /\ h + 1 \in 1..Len(s) /\ a[j] = s[h] /\ a[j + 1] = s[h + 1]
      BY <1>1, <3>1
    <3>3. h # l
      <4> SUFFICES ASSUME h = l PROVE FALSE
        OBVIOUS
      <4>1. ~ConditionEq(c[s[h]], c[s[h + 1]])
        BY <2>1, <2>2, BlockEnds
      <4> QED
        BY <3>2, <4>1
    <3>4. s[h] # s[l] /\ s[h] # p[L] /\ s[h] \in Threads
      BY <2>1, <2>4, <3>2, <3>3, Injective, InRange
    <3>5. r[s[h]] = s[h + 1]
      BY SMTT(30), <3>2 DEF Linked
    <3> QED
      BY <2>7, <3>2, <3>4, <3>5
  <2> QED
    BY <1>1, <2>8, <2>9, <2>10
<1> QED
  BY <1>2, <1>3

\* Leaving a ring of more than one waiter keeps the others linked.
LEMMA UnlinkLinks ==
  ASSUME NEW s \in Seq(Threads), IsInjective(s), NEW r \in [Threads -> Threads], NEW c,
         RingsAreBlocks(r, c, s), Closed(r, s), Linked(r, c, s), NEW i \in 1..Len(s),
         r[s[i]] # s[i]
  PROVE  Linked(Unlinked(r, s[i]), c, Without(s, i))
<1> DEFINE w == Without(s, i)
<1> DEFINE u == Unlinked(r, s[i])
<1>1. /\ Len(w) = Len(s) - 1 /\ Len(s) \in Nat
      /\ \A j \in 1..(Len(s) - 1) : w[j] = IF j < i THEN s[j] ELSE s[j + 1]
  BY WithoutFacts, QueueFacts
<1>2. PICK k \in 1..i, l \in i..Len(s) : RingBlock(r, c, s, k, l)
  BY DEF RingsAreBlocks
<1>3. PICK h \in 1..Len(s) : h = (IF i = k THEN l ELSE i - 1) /\ SamePrev(r, s[i]) = s[h]
  BY <1>2, BlockPrev
<1>4. k < l
  BY <1>2 DEF RingBlock
<1>5. \A x, y \in 1..Len(s) : s[x] = s[y] => x = y
  BY Injective
<1>6. /\ \A x \in 1..Len(s) : s[x] \in Threads
      /\ s[h] # s[i] /\ u[s[h]] = r[s[i]]
      /\ \A x \in 1..Len(s) : x # h /\ x # i => u[s[x]] = r[s[x]]
  <2>1. \A x \in 1..Len(s) : s[x] \in Threads
    BY InRange
  <2>2. h # i
    BY <1>3, <1>4
  <2>3. \A x \in 1..Len(s) : x # h => s[x] # s[h]
    BY <1>5
  <2>4. \A x \in 1..Len(s) : x # i => s[x] # s[i]
    BY <1>5
  <2>5. u = [r EXCEPT ![s[h]] = r[s[i]], ![s[i]] = s[i]]
    BY <1>3 DEF Unlinked
  <2> QED
    BY <2>1, <2>2, <2>3, <2>4, <2>5
<1> HIDE DEF u
<1> HIDE DEF w
<1> SUFFICES ASSUME NEW j \in 1..(Len(w) - 1), ConditionEq(c[w[j]], c[w[j + 1]])
             PROVE  u[w[j]] = w[j + 1]
  BY DEF Linked, u, w
<1>7. CASE j < i - 1
  <2>1. /\ j \in 1..(Len(s) - 1) /\ j + 1 \in 1..(Len(s) - 1)
        /\ w[j] = s[j] /\ w[j + 1] = s[j + 1] /\ j # h /\ j # i
    BY <1>1, <1>3, <1>7
  <2>2. r[s[j]] = s[j + 1]
    BY <2>1 DEF Linked
  <2>3. u[s[j]] = r[s[j]]
    BY <1>6, <2>1
  <2> QED
    BY <2>1, <2>2, <2>3
<1>8. CASE j = i - 1
  <2>1. /\ j \in 1..(Len(s) - 1) /\ i \in 1..(Len(s) - 1) /\ i + 1 \in 1..Len(s)
        /\ w[j] = s[j] /\ w[j + 1] = s[i + 1]
    BY <1>1, <1>8
  <2>2. CASE i # k /\ i # l
    <3>1. r[s[i]] = s[i + 1] /\ h = j
      BY <1>2, <1>3, <1>8, <2>2 DEF RingBlock
    <3> QED
      BY <1>6, <2>1, <3>1
  <2>3. CASE i # k /\ i = l
    <3>1. c[s[j]] = c[s[i]]
      BY <1>2, <1>8, <2>3 DEF RingBlock
    <3>2. ~ConditionEq(c[s[i]], c[s[i + 1]])
      BY <1>2, <2>1, <2>3, BlockEnds
    <3> QED
      BY <2>1, <3>1, <3>2
  <2>4. CASE i = k
    <3>1. c[s[i + 1]] = c[s[i]]
      BY <1>2, <1>4, <2>4 DEF RingBlock
    <3>2. PICK a \in 1..j, b \in j..(k - 1) : RingBlock(r, c, s, a, b)
      <4>1. j \in 1..(k - 1)
        BY <1>8, <2>1, <2>4
      <4> QED
        BY <1>2, <4>1, BlocksBefore, Zenon
    <3>3. b = j /\ a \in 1..Len(s) /\ b \in a..(Len(s) - 1)
      BY <1>8, <2>1, <2>4, <3>2
    <3>4. ~ConditionEq(c[s[b]], c[s[b + 1]])
      BY <3>2, <3>3, BlockEnds
    <3>5. s[b] = s[j] /\ s[b + 1] = s[i]
      BY <1>8, <3>3
    <3> QED
      BY <2>1, <3>1, <3>4, <3>5
  <2> QED
    BY <2>2, <2>3, <2>4
<1>9. CASE j > i - 1
  <2>1. PICK g \in 1..(Len(s) - 1) : g = j + 1
    BY <1>1
  <2>2. g > i /\ g + 1 \in 1..Len(s) /\ w[j] = s[g] /\ w[j + 1] = s[g + 1] /\ g # i
    BY <1>1, <1>9, <2>1
  <2>3. g # h
    <3> SUFFICES ASSUME g = h PROVE FALSE
      OBVIOUS
    <3>1. h = l /\ l \in k..(Len(s) - 1) /\ k \in 1..Len(s)
      BY <1>3, <2>2
    <3>2. ~ConditionEq(c[s[l]], c[s[l + 1]])
      BY <1>2, <3>1, BlockEnds
    <3> QED
      BY <2>2, <3>1, <3>2
  <2>4. r[s[g]] = s[g + 1]
    BY Zenon, <2>1, <2>2 DEF Linked
  <2>5. u[s[g]] = r[s[g]]
    BY <1>6, <2>1, <2>2, <2>3
  <2> QED
    BY <2>2, <2>4, <2>5
<1> QED
  BY <1>7, <1>8, <1>9

\* nsync_remove_from_mu_queue_ keeps the waiters that are left linked: if the
\* waiter leaving was alone in its ring, it joins the rings of its neighbours.
LEMMA RemoveLinks ==
  ASSUME NEW s \in Seq(Threads), IsInjective(s), NEW r \in [Threads -> Threads], NEW c,
         RingsAreBlocks(r, c, s), Closed(r, s), Linked(r, c, s), NEW i \in 1..Len(s)
  PROVE  Linked(RingAfterRemove(r, c, s, i), c, Without(s, i))
<1>1. CASE r[s[i]] # s[i]
  <2>1. Linked(Unlinked(r, s[i]), c, Without(s, i))
    BY <1>1, UnlinkLinks, Zenon
  <2>2. CASE Without(s, i) = <<>>
    BY <2>2 DEF Linked
  <2>3. CASE Without(s, i) # <<>>
    <3>1. RingAfterRemove(r, c, s, i) = Unlinked(r, s[i])
      BY <1>1, <2>3 DEF RingAfterRemove, Unlinked
    <3> QED
      BY <2>1, <3>1, Zenon
  <2> QED
    BY <2>2, <2>3
<1>2. CASE r[s[i]] = s[i]
  <2>1. RingBlock(r, c, s, i, i)
    <3>1. PICK k \in 1..i, l \in i..Len(s) : RingBlock(r, c, s, k, l)
      BY DEF RingsAreBlocks
    <3>2. k = i /\ l = i
      BY <1>2, <3>1, OwnBlock
    <3> QED
      BY <3>1, <3>2
  <2>2. PICK p \in Seq(Threads), n \in Seq(Threads) :
           /\ Len(p) = i - 1 /\ \A j \in 1..(i - 1) : p[j] = s[j]
           /\ Len(n) = Len(s) - i /\ \A j \in 1..(Len(s) - i) : n[j] = s[i + j]
           /\ Without(s, i) = p \o n
    BY Zenon, PartsFacts
  <2>3. /\ IsInjective(p) /\ IsInjective(n) /\ Range(p) \cap Range(n) = {}
        /\ Range(p) \cup Range(n) = Range(s) \ {s[i]}
        /\ RingsAreBlocks(r, c, p) /\ RingsAreBlocks(r, c, n)
        /\ Closed(r, n)
    BY Zenon, <2>1, <2>2, PartsOfQueue
  <2>4. Len(s) \in Nat
    BY QueueFacts
  <2>5. Linked(r, c, p)
    <3> SUFFICES ASSUME NEW j \in 1..(Len(p) - 1), ConditionEq(c[p[j]], c[p[j + 1]])
                 PROVE  r[p[j]] = p[j + 1]
      BY Zenon DEF Linked
    <3>1. /\ j \in 1..(i - 1) /\ j + 1 \in 1..(i - 1) /\ j \in 1..(Len(s) - 1)
      BY <2>2, <2>4
    <3>2. p[j] = s[j] /\ p[j + 1] = s[j + 1]
      BY <2>2, <3>1
    <3> QED
      BY <3>1, <3>2 DEF Linked
  <2>6. Linked(r, c, n)
    <3> SUFFICES ASSUME NEW j \in 1..(Len(n) - 1), ConditionEq(c[n[j]], c[n[j + 1]])
                 PROVE  r[n[j]] = n[j + 1]
      BY DEF Linked
    <3>1. /\ j \in 1..(Len(s) - i) /\ j + 1 \in 1..(Len(s) - i) /\ i + j \in 1..(Len(s) - 1)
          /\ i + (j + 1) = (i + j) + 1
      BY <2>2, <2>4
    <3>2. n[j] = s[i + j] /\ n[j + 1] = s[(i + j) + 1]
      BY <2>2, <3>1
    <3> QED
      BY SMTT(30), <3>1, <3>2 DEF Linked
  <2>7. Linked(MergeQueues(r, c, p, n), c, p \o n)
    BY Zenon, <2>3, <2>5, <2>6, MergeLinks
  <2>8. RingAfterRemove(r, c, s, i) = MergeQueues(r, c, p, n)
    <3> DEFINE rest == Without(s, i)
    <3>1. /\ Len(rest) = Len(s) - 1 /\ Len(s) \in Nat /\ rest \in Seq(Threads)
          /\ \A j \in 1..(Len(s) - 1) : rest[j] = IF j < i THEN s[j] ELSE s[j + 1]
      BY Zenon, WithoutFacts, QueueFacts
    <3>2. CASE rest = <<>>
      <4>1. p = <<>>
        BY <2>2, <3>1, <3>2
      <4> QED
        BY <3>2, <4>1 DEF RingAfterRemove, MergeQueues
    <3>3. CASE rest # <<>> /\ (i = 1 \/ i = Len(s))
      <4>1. Len(s) - 1 \in 1..(Len(s) - 1)
        BY <3>1, <3>3, QueueFacts
      <4>2. LastOf(rest) = s[CircularPrev(s, i)]
        <5>1. rest[Len(s) - 1] = IF Len(s) - 1 < i THEN s[Len(s) - 1] ELSE s[(Len(s) - 1) + 1]
          BY <3>1, <4>1
        <5> QED
          BY <3>1, <3>3, <4>1, <5>1 DEF LastOf, CircularPrev
      <4>3. p = <<>> \/ n = <<>>
        BY <2>2, <3>1, <3>3
      <4> HIDE DEF rest
      <4> QED
        BY <1>2, <3>3, <4>2, <4>3 DEF RingAfterRemove, MergeQueues, rest
    <3>4. CASE rest # <<>> /\ i # 1 /\ i # Len(s)
      <4>1. p # <<>> /\ n # <<>> /\ LastOf(p) = s[i - 1] /\ Head(n) = s[i + 1]
        <5>1. Len(p) \in 1..(i - 1) /\ 1 \in 1..(Len(s) - i)
          BY <2>2, <3>1, <3>4
        <5> QED
          BY <2>2, <5>1 DEF LastOf
      <4>2. CircularPrev(s, i) = i - 1 /\ CircularNext(s, i) = i + 1
        BY <3>4 DEF CircularPrev, CircularNext
      <4>3. LastOf(rest) = s[Len(s)] /\ s[Len(s)] # s[i - 1]
        <5>1. /\ Len(s) - 1 \in 1..(Len(s) - 1) /\ Len(s) - 1 >= i /\ Len(s) # i - 1
              /\ Len(s) \in 1..Len(s) /\ i - 1 \in 1..Len(s) /\ (Len(s) - 1) + 1 = Len(s)
          BY <3>1, <3>4
        <5>2. s[Len(s)] # s[i - 1]
          BY Zenon, <5>1, Injective
        <5>3. rest[Len(s) - 1] = s[(Len(s) - 1) + 1]
          BY <3>1, <5>1
        <5>4. LastOf(rest) = rest[Len(s) - 1]
          BY <3>1 DEF LastOf
        <5> QED
          BY <5>1, <5>2, <5>3, <5>4
      <4>4. MergeQueues(r, c, p, n) = MergeConditions(r, c, s[i - 1], s[i + 1])
        BY <4>1 DEF MergeQueues
      <4> HIDE DEF rest
      <4> QED
        BY <1>2, <3>4, <4>2, <4>3, <4>4 DEF RingAfterRemove, rest
    <3> QED
      BY <3>2, <3>3, <3>4
  <2> QED
    BY <2>2, <2>7, <2>8, Zenon
<1> QED
  BY <1>1, <1>2

\* Whether the waiters of a queue are linked depends on their links and conditions
\* only.
LEMMA SameLinks ==
  ASSUME NEW s \in Seq(Threads), NEW r, NEW r2, NEW c, NEW c2, Linked(r, c, s),
         \A x \in Range(s) : r2[x] = r[x] /\ c2[x] = c[x]
  PROVE  Linked(r2, c2, s)
<1> SUFFICES ASSUME NEW j \in 1..(Len(s) - 1), ConditionEq(c2[s[j]], c2[s[j + 1]])
             PROVE  r2[s[j]] = s[j + 1]
  BY DEF Linked
<1>1. j \in 1..Len(s) /\ j + 1 \in 1..Len(s)
  BY QueueFacts
<1>2. s[j] \in Range(s) /\ s[j + 1] \in Range(s)
  BY <1>1, InRange
<1> QED
  BY <1>2 DEF Linked

\* nsync_mu_wait_with_deadline links the waiter it queues with its neighbour if
\* their conditions are equal.
LEMMA EnqueueLinks ==
  ASSUME NEW s \in Seq(Threads), IsInjective(s), NEW r \in [Threads -> Threads], NEW c,
         RingsAreBlocks(r, c, s), Closed(r, s), Linked(r, c, s),
         NEW t \in Threads, t \notin Range(s), r[t] = t, NEW first \in BOOLEAN,
         \A x \in Threads : r[x] = t => x = t
  PROVE  Linked(RingAfterEnqueue(r, c, s, t, first), c, Enqueue(s, t, first))
<1> DEFINE e == <<t>>
<1>1. e \in Seq(Threads) /\ Range(e) = {t} /\ IsInjective(e) /\ Len(e) = 1 /\ e[1] = t
  BY SingleQueue
<1>2. Enqueue(s, t, first) = IF first THEN s \o e ELSE e \o s
  BY EnqueueRange
<1>3. RingAfterEnqueue(r, c, s, t, first) =
        IF first THEN MergeQueues(r, c, s, e) ELSE MergeQueues(r, c, e, s)
  BY DEF RingAfterEnqueue
<1> HIDE DEF e
<1>4. RingsAreBlocks(r, c, e)
  BY <1>1 DEF RingsAreBlocks, RingBlock
<1>5. Closed(r, e) /\ Linked(r, c, e)
  BY <1>1 DEF Closed, Linked
<1>6. Range(s) \cap Range(e) = {} /\ Range(e) \cap Range(s) = {}
  BY <1>1
<1>7. Linked(MergeQueues(r, c, s, e), c, s \o e)
  BY <1>1, <1>4, <1>5, <1>6, MergeLinks, Zenon
<1>8. Linked(MergeQueues(r, c, e, s), c, e \o s)
  BY <1>1, <1>4, <1>5, <1>6, MergeLinks, Zenon
<1> QED
  BY <1>2, <1>3, <1>7, <1>8, Zenon

---------------------------------------------------------------------------

\* A queue of distinct waiters whose rings are the runs of equal conditions.
InOrder(r, c, s) ==
  /\ s \in Seq(Threads) /\ IsInjective(s)
  /\ RingsAreBlocks(r, c, s) /\ Linked(r, c, s)

\* The inductive invariant: no waiter is twice in the queues, a waiter in none of
\* them is alone in its ring, and only a thread in nsync_mu_unlock_slow_ has new
\* waiters.
QueueInv ==
  /\ ring \in [Threads -> Threads] /\ DOMAIN cond = Threads
  /\ InOrder(ring, cond, q) /\ InOrder(ring, cond, new) /\ InOrder(ring, cond, seen)
  /\ Range(q) \cap Range(new) = {} /\ Range(q) \cap Range(seen) = {}
  /\ Range(new) \cap Range(seen) = {}
  /\ \A t \in Threads : ~IsQueued(t) => ring[t] = t
  /\ phase = "open" => new = <<>>

\* No ring leads from one queue into another.
LEMMA RingsApart ==
  ASSUME QueueInv
  PROVE  Closed(ring, q) /\ Closed(ring, new) /\ Closed(ring, seen)
<1>1. /\ \A x \in Range(q) : ring[x] \in Range(q)
      /\ \A x \in Range(new) : ring[x] \in Range(new)
      /\ \A x \in Range(seen) : ring[x] \in Range(seen)
  BY RingsStay DEF QueueInv, InOrder
<1>2. \A x \in Threads : x \notin Range(q) \cup Range(new) \cup Range(seen) => ring[x] = x
  BY DEF QueueInv, IsQueued
<1>3. /\ Range(q) \cap Range(new) = {} /\ Range(q) \cap Range(seen) = {}
      /\ Range(new) \cap Range(seen) = {}
  BY DEF QueueInv
<1> QED
  BY <1>1, <1>2, <1>3 DEF Closed

\* A queue stays in order if the links and conditions of its waiters do.
LEMMA StaysInOrder ==
  ASSUME NEW s, NEW r, NEW c, NEW r2, NEW c2, InOrder(r, c, s),
         \A x \in Range(s) : r2[x] = r[x] /\ c2[x] = c[x]
  PROVE  InOrder(r2, c2, s)
<1>1. RingsAreBlocks(r2, c2, s)
  BY SameBlocks DEF InOrder
<1>2. Linked(r2, c2, s)
  BY SameLinks DEF InOrder
<1> QED
  BY <1>1, <1>2 DEF InOrder

\* An empty queue is in order.
LEMMA EmptyInOrder ==
  ASSUME NEW r, NEW c
  PROVE  InOrder(r, c, <<>>) /\ Range(<<>>) = {}
<1>1. Linked(r, c, <<>>) /\ <<>> \in Seq(Threads)
  BY DEF Linked
<1> QED
  BY <1>1, EmptyQueue DEF InOrder

\* What a queue and its rings are after t was added to it.
Adds(r2, r, c, w, s, t) ==
  /\ r2 \in [Threads -> Threads] /\ InOrder(r2, c, w) /\ Range(w) = Range(s) \cup {t}
  /\ \A x \in Threads \ (Range(s) \cup {t}) : r2[x] = r[x]

\* Queueing a waiter keeps the queue in order.
LEMMA EnqueueInOrder ==
  ASSUME NEW s, NEW r \in [Threads -> Threads], NEW c, InOrder(r, c, s), Closed(r, s),
         NEW t \in Threads, t \notin Range(s), r[t] = t, NEW first \in BOOLEAN,
         \A x \in Threads : r[x] = t => x = t
  PROVE  Adds(RingAfterEnqueue(r, c, s, t, first), r, c, Enqueue(s, t, first), s, t)
<1>0. PICK r2 : r2 = RingAfterEnqueue(r, c, s, t, first)
  OBVIOUS
<1>1. s \in Seq(Threads) /\ IsInjective(s) /\ RingsAreBlocks(r, c, s) /\ Linked(r, c, s)
  BY DEF InOrder
<1>2. /\ r2 \in [Threads -> Threads] /\ RingsAreBlocks(r2, c, Enqueue(s, t, first))
      /\ \A x \in Threads \ (Range(s) \cup {t}) : r2[x] = r[x]
  BY <1>0, <1>1, EnqueueBlocks
<1>3. Linked(r2, c, Enqueue(s, t, first))
  BY <1>0, <1>1, EnqueueLinks, Zenon
<1>4. /\ Enqueue(s, t, first) \in Seq(Threads)
      /\ IsInjective(Enqueue(s, t, first))
      /\ Range(Enqueue(s, t, first)) = Range(s) \cup {t}
  <2>1. Enqueue(s, t, first) \in Seq(Threads)
    BY Zenon, <1>1, EnqueueRange
  <2>2. Range(Enqueue(s, t, first)) = Range(s) \cup {t}
    <3>1. PICK e \in Seq(Threads) : e = <<t>> /\ Range(e) = {t}
      BY Zenon, SingleQueue
    <3>2. Range(s \o e) = Range(s) \cup Range(e) /\ Range(e \o s) = Range(e) \cup Range(s)
      <4>1. Range(s \o e) = Range(s) \cup Range(e)
        BY <1>1, ConcatRange
      <4>2. Range(e \o s) = Range(e) \cup Range(s)
        BY <1>1, ConcatRange
      <4> QED
        BY <4>1, <4>2
    <3>3. Enqueue(s, t, first) = IF first THEN s \o e ELSE e \o s
      BY <1>1, <3>1, EnqueueRange
    <3> QED
      BY <3>1, <3>2, <3>3
  <2>3. IsInjective(Enqueue(s, t, first))
    BY Zenon, <1>1, EnqueueRange
  <2> QED
    BY <2>1, <2>2, <2>3
<1> QED
  BY <1>0, <1>2, <1>3, <1>4 DEF InOrder, Adds

\* Removing a waiter keeps the queue in order.
LEMMA RemoveInOrder ==
  ASSUME NEW s, NEW r \in [Threads -> Threads], NEW c, InOrder(r, c, s), Closed(r, s),
         NEW i \in 1..Len(s), NEW r2, r2 = RingAfterRemove(r, c, s, i)
  PROVE  /\ r2 \in [Threads -> Threads] /\ s[i] \in Range(s) /\ r2[s[i]] = s[i]
         /\ InOrder(r2, c, Without(s, i))
         /\ Range(Without(s, i)) = Range(s) \ {s[i]}
         /\ \A x \in Threads \ Range(s) : r2[x] = r[x]
<1>1. s \in Seq(Threads) /\ IsInjective(s) /\ RingsAreBlocks(r, c, s) /\ Linked(r, c, s)
  BY DEF InOrder
<1>2. Removes(r2, r, c, s, i)
  BY <1>1, RemoveBlocks, Zenon
<1>3. Linked(r2, c, Without(s, i))
  BY <1>1, RemoveLinks, Zenon
<1>4. /\ Without(s, i) \in Seq(Threads) /\ IsInjective(Without(s, i))
      /\ Range(Without(s, i)) = Range(s) \ {s[i]}
  BY <1>1, WithoutFacts, WithoutRange, Zenon
<1>5. s[i] \in Range(s)
  BY <1>1, InRange
<1> QED
  BY <1>2, <1>3, <1>4, <1>5 DEF InOrder, Removes

\* Joining two queues keeps them in order.
LEMMA MergeInOrder ==
  ASSUME NEW p, NEW s, NEW r \in [Threads -> Threads], NEW c,
         InOrder(r, c, p), InOrder(r, c, s), Closed(r, s), Range(p) \cap Range(s) = {},
         NEW r2, r2 = MergeQueues(r, c, p, s)
  PROVE  /\ r2 \in [Threads -> Threads] /\ InOrder(r2, c, p \o s)
         /\ Range(p \o s) = Range(p) \cup Range(s)
         /\ \A x \in Threads \ (Range(p) \cup Range(s)) : r2[x] = r[x]
<1>1. /\ p \in Seq(Threads) /\ IsInjective(p) /\ RingsAreBlocks(r, c, p) /\ Linked(r, c, p)
      /\ s \in Seq(Threads) /\ IsInjective(s) /\ RingsAreBlocks(r, c, s) /\ Linked(r, c, s)
  BY DEF InOrder
<1>2. Joins(r2, r, c, p, s)
  BY <1>1, MergeJoins, Zenon
<1>3. Linked(r2, c, p \o s)
  BY <1>1, MergeLinks, Zenon
<1>4. p \o s \in Seq(Threads) /\ IsInjective(p \o s) /\ Range(p \o s) = Range(p) \cup Range(s)
  BY <1>1, ConcatFacts, ConcatRange
<1> QED
  BY <1>2, <1>3, <1>4 DEF InOrder, Joins

---------------------------------------------------------------------------

\* A thread is queued by nsync_mu_lock_slow_ or nsync_mu_wait_with_deadline.
LEMMA QueueKeeps ==
  ASSUME QueueInv, NEW t \in Threads, ~IsQueued(t), NEW first \in BOOLEAN, NEW c,
         cond' = [cond EXCEPT ![t] = c], q' = Enqueue(q, t, first),
         ring' = RingAfterEnqueue(ring, cond', q, t, first),
         UNCHANGED <<new, seen, phase>>
  PROVE  QueueInv'
<1>1. Closed(ring, q)
  BY RingsApart
<1>2. /\ ring \in [Threads -> Threads] /\ DOMAIN cond = Threads /\ DOMAIN cond' = Threads
      /\ t \notin Range(q) /\ t \notin Range(new) /\ t \notin Range(seen) /\ ring[t] = t
  BY DEF QueueInv, IsQueued
<1>3. /\ \A x \in Range(q) : ring[x] \in Range(q)
      /\ \A x \in Range(new) : ring[x] \in Range(new)
      /\ \A x \in Range(seen) : ring[x] \in Range(seen)
  BY RingsStay DEF QueueInv, InOrder
<1>4. \A x \in Threads : ring[x] = t => x = t
  <2>1. \A x \in Threads : x \notin Range(q) \cup Range(new) \cup Range(seen) => ring[x] = x
    BY DEF QueueInv, IsQueued
  <2> QED
    BY <1>2, <1>3, <2>1
<1>5. Range(q) \subseteq Threads /\ Range(new) \subseteq Threads /\ Range(seen) \subseteq Threads
  BY InRange DEF QueueInv, InOrder
<1>6. PICK d : d = cond'
  OBVIOUS
<1>7. PICK r : r = ring'
  OBVIOUS
<1>8. PICK w : w = q'
  OBVIOUS
<1>9. /\ w = Enqueue(q, t, first) /\ r = RingAfterEnqueue(ring, d, q, t, first)
      /\ \A x \in Threads : x # t => d[x] = cond[x]
  BY <1>2, <1>6, <1>7, <1>8
<1>10. InOrder(ring, d, q)
  <2>1. \A x \in Range(q) : ring[x] = ring[x] /\ d[x] = cond[x]
    BY <1>2, <1>5, <1>9
  <2>2. InOrder(ring, cond, q)
    BY DEF QueueInv
  <2> QED
    BY <2>1, <2>2, StaysInOrder, Zenon
<1>11. /\ r \in [Threads -> Threads] /\ InOrder(r, d, w) /\ Range(w) = Range(q) \cup {t}
       /\ \A x \in Threads \ (Range(q) \cup {t}) : r[x] = ring[x]
  <2>1. ring[t] = t /\ t \notin Range(q) /\ ring \in [Threads -> Threads]
    BY <1>2
  <2>2. w = Enqueue(q, t, first) /\ r = RingAfterEnqueue(ring, d, q, t, first)
    BY <1>9
  <2>3. Adds(RingAfterEnqueue(ring, d, q, t, first), ring, d, Enqueue(q, t, first), q, t)
    BY <1>1, <1>4, <1>10, <2>1, EnqueueInOrder, Zenon
  <2> QED
    BY <2>2, <2>3 DEF Adds
<1>12. /\ \A x \in Range(new) : r[x] = ring[x] /\ d[x] = cond[x]
       /\ \A x \in Range(seen) : r[x] = ring[x] /\ d[x] = cond[x]
  BY <1>2, <1>5, <1>9, <1>11 DEF QueueInv
<1>13. InOrder(r, d, new) /\ InOrder(r, d, seen)
  <2>1. InOrder(ring, cond, new) /\ InOrder(ring, cond, seen)
    BY DEF QueueInv
  <2> QED
    BY <1>12, <2>1, StaysInOrder, Zenon
<1>14. \A x \in Threads : x \notin Range(w) \cup Range(new) \cup Range(seen) => r[x] = x
  BY <1>11 DEF QueueInv, IsQueued
<1>15. /\ Range(w) \cap Range(new) = {} /\ Range(w) \cap Range(seen) = {}
       /\ Range(new) \cap Range(seen) = {} /\ phase = "open" => new = <<>>
  BY <1>2, <1>11 DEF QueueInv
<1> QED
  BY Zenon, <1>2, <1>6, <1>7, <1>8, <1>11, <1>13, <1>14, <1>15 DEF QueueInv, IsQueued

\* mu_try_acquire_after_timeout_or_cancel removes a waiter from the queue.
LEMMA ExpireKeeps ==
  ASSUME QueueInv, NEW i, Expire(i)
  PROVE  QueueInv'
<1>1. Closed(ring, q) /\ i \in 1..Len(q)
  BY RingsApart DEF Expire, QueueInv, InOrder
<1>2. /\ ring' \in [Threads -> Threads] /\ q[i] \in Range(q) /\ ring'[q[i]] = q[i]
      /\ InOrder(ring', cond, q') /\ Range(q') = Range(q) \ {q[i]}
      /\ \A x \in Threads \ Range(q) : ring'[x] = ring[x]
  BY <1>1, RemoveInOrder DEF Expire, QueueInv
<1>3. Range(new) \subseteq Threads /\ Range(seen) \subseteq Threads
  BY InRange DEF QueueInv, InOrder
<1>4. /\ \A x \in Range(new) : ring'[x] = ring[x] /\ cond[x] = cond[x]
      /\ \A x \in Range(seen) : ring'[x] = ring[x] /\ cond[x] = cond[x]
  BY <1>2, <1>3 DEF QueueInv
<1>5. InOrder(ring', cond, new) /\ InOrder(ring', cond, seen)
  BY <1>4, StaysInOrder DEF QueueInv
<1>6. UNCHANGED <<new, seen, phase, cond>>
  BY DEF Expire
<1>7. \A x \in Threads : ~IsQueued(x)' => ring'[x] = x
  BY <1>2, <1>6 DEF QueueInv, IsQueued
<1> QED
  BY <1>2, <1>5, <1>6, <1>7 DEF QueueInv

\* nsync_mu_unlock_slow_ removes a waiter from its list, to wake it.
LEMMA WakeKeeps ==
  ASSUME QueueInv, NEW i, RemoveToWake(i)
  PROVE  QueueInv'
<1>1. Closed(ring, new) /\ i \in 1..Len(new)
  BY RingsApart DEF RemoveToWake, QueueInv, InOrder
<1>2. /\ ring' \in [Threads -> Threads] /\ new[i] \in Range(new) /\ ring'[new[i]] = new[i]
      /\ InOrder(ring', cond, new') /\ Range(new') = Range(new) \ {new[i]}
      /\ \A x \in Threads \ Range(new) : ring'[x] = ring[x]
  BY <1>1, RemoveInOrder DEF RemoveToWake, QueueInv
<1>3. Range(q) \subseteq Threads /\ Range(seen) \subseteq Threads
  BY InRange DEF QueueInv, InOrder
<1>4. /\ \A x \in Range(q) : ring'[x] = ring[x] /\ cond[x] = cond[x]
      /\ \A x \in Range(seen) : ring'[x] = ring[x] /\ cond[x] = cond[x]
  BY <1>2, <1>3 DEF QueueInv
<1>5. InOrder(ring', cond, q) /\ InOrder(ring', cond, seen)
  BY <1>4, StaysInOrder DEF QueueInv
<1>6. UNCHANGED <<q, seen, phase, cond>>
  BY DEF RemoveToWake
<1>7. \A x \in Threads : ~IsQueued(x)' => ring'[x] = x
  BY <1>2, <1>6 DEF QueueInv, IsQueued
<1>8. phase # "open"
  <2> SUFFICES ASSUME new = <<>> PROVE FALSE
    BY DEF QueueInv
  <2> QED
    BY <1>1
<1> QED
  BY <1>2, <1>5, <1>6, <1>7, <1>8 DEF QueueInv

\* It joins the list with the waiters already seen.
LEMMA CollectKeeps ==
  ASSUME QueueInv, CollectNew
  PROVE  QueueInv'
<1>1. /\ Closed(ring, new) /\ ring \in [Threads -> Threads]
      /\ InOrder(ring, cond, seen) /\ InOrder(ring, cond, new)
      /\ Range(seen) \cap Range(new) = {}
  BY RingsApart DEF QueueInv
<1>2. ring' = MergeQueues(ring, cond, seen, new) /\ cond' = cond
  BY DEF CollectNew
<1>3. /\ ring' \in [Threads -> Threads] /\ InOrder(ring', cond, seen \o new)
      /\ Range(seen \o new) = Range(seen) \cup Range(new)
      /\ \A x \in Threads \ (Range(seen) \cup Range(new)) : ring'[x] = ring[x]
  BY <1>1, <1>2, MergeInOrder
<1>4. \A x \in Range(q) : ring'[x] = ring[x] /\ cond[x] = cond[x]
  <2>1. Range(q) \subseteq Threads
    BY InRange DEF QueueInv, InOrder
  <2> QED
    BY <1>3, <2>1 DEF QueueInv
<1>5. InOrder(ring', cond, q)
  BY <1>4, StaysInOrder DEF QueueInv
<1>6. InOrder(ring', cond, <<>>) /\ Range(<<>>) = {}
  BY EmptyInOrder
<1>7. CASE q = <<>>
  <2>1. q' = seen \o new /\ new' = <<>> /\ seen' = <<>>
    BY <1>7 DEF CollectNew
  <2>2. \A x \in Threads : ~IsQueued(x)' => ring'[x] = x
    BY <1>3, <1>6, <1>7, <2>1 DEF QueueInv, IsQueued
  <2> QED
    BY <1>2, <1>3, <1>6, <2>1, <2>2 DEF QueueInv
<1>8. CASE q # <<>>
  <2>1. q' = <<>> /\ new' = q /\ seen' = seen \o new /\ phase' = "scanning"
    BY <1>8 DEF CollectNew
  <2>2. \A x \in Threads : ~IsQueued(x)' => ring'[x] = x
    BY <1>3, <1>6, <2>1 DEF QueueInv, IsQueued
  <2>3. Range(q) \cap Range(seen \o new) = {}
    BY <1>3 DEF QueueInv
  <2> QED
    BY <1>2, <1>3, <1>5, <1>6, <2>1, <2>2, <2>3 DEF QueueInv
<1> QED
  BY <1>7, <1>8

\* Every operation on the queue keeps the invariant.
THEOREM QueueInvariance == QueueSpec => []QueueInv
<1>1. QueueInit => QueueInv
  <2> SUFFICES ASSUME QueueInit PROVE QueueInv
    OBVIOUS
  <2>1. InOrder(ring, cond, <<>>) /\ Range(<<>>) = {}
    BY EmptyInOrder
  <2> QED
    BY <2>1 DEF QueueInit, QueueInv
<1>2. QueueInv /\ [QueueNext]_queueVars => QueueInv'
  <2> SUFFICES ASSUME QueueInv, [QueueNext]_queueVars PROVE QueueInv'
    BY SMTT(30)
  <2>1. ASSUME NEW t \in Threads, NEW first \in BOOLEAN, QueueLocker(t, first)
        PROVE  QueueInv'
    <3>1. /\ ~IsQueued(t) /\ cond' = [cond EXCEPT ![t] = NoCond]
          /\ q' = Enqueue(q, t, first) /\ UNCHANGED <<new, seen, phase>> /\ ring' = ring
      BY <2>1 DEF QueueLocker
    <3>2. RingAfterEnqueue(ring, cond', q, t, first) = ring
      <4>1. cond'[t] = NoCond
        BY <3>1 DEF QueueInv
      <4> QED
        BY <4>1 DEF RingAfterEnqueue, MergeQueues, MergeConditions, ConditionEq, LastOf
    <3>3. ring' = RingAfterEnqueue(ring, cond', q, t, first)
      BY <3>1, <3>2
    <3> QED
      BY Zenon, <3>1, <3>3, QueueKeeps
  <2>2. ASSUME NEW t \in Threads, NEW first \in BOOLEAN, NEW c \in Conds,
               QueueConditional(t, c, first)
        PROVE  QueueInv'
    BY Zenon, <2>2, QueueKeeps DEF QueueConditional
  <2>3. ASSUME NEW i \in 1..Len(q), Expire(i) PROVE QueueInv'
    BY <2>3, ExpireKeeps
  <2>4. CASE TakeQueue
    <3>1. new = <<>> /\ new' = q /\ q' = <<>> /\ phase' = "scanning"
          /\ UNCHANGED <<seen, ring, cond>>
      BY <2>4 DEF TakeQueue, QueueInv
    <3>2. InOrder(ring, cond, <<>>) /\ Range(<<>>) = {}
      BY EmptyInOrder
    <3> QED
      BY <3>1, <3>2 DEF QueueInv, IsQueued
  <2>5. ASSUME NEW i \in 1..Len(new), RemoveToWake(i) PROVE QueueInv'
    BY <2>5, WakeKeeps
  <2>6. CASE CollectNew
    BY <2>6, CollectKeeps
  <2>7. CASE UNCHANGED queueVars
    BY <2>7 DEF QueueInv, queueVars, IsQueued
  <2> QED
    BY <2>1, <2>2, <2>3, <2>4, <2>5, <2>6, <2>7 DEF QueueNext
<1> QED
  BY <1>1, <1>2, PTL DEF QueueSpec

\* The same_condition rings are exactly the runs of neighbours with equal conditions,
\* through any history of nsync_mu_lock_slow_, nsync_mu_wait_with_deadline,
\* nsync_mu_unlock_slow_ and expired waits, so that skip_past_same_condition skips
\* the waiters for the condition just found false, and no other.
THEOREM RingsStayRuns == QueueSpec => []RingsAreRuns
<1>1. QueueInv => RingsAreRuns
  <2> SUFFICES ASSUME QueueInv PROVE RingsAreRuns
    OBVIOUS
  <2>1. \A s \in Queues : InOrder(ring, cond, s) /\ Closed(ring, s)
    BY RingsApart DEF Queues, QueueInv
  <2>2. RingsAreContiguous
    <3>1. \A s \in Queues : RingsFollowQueue(ring, cond, s)
      BY <2>1, BlocksFollowQueue DEF InOrder
    <3> QED
      BY <3>1 DEF RingsAreContiguous, QueueInv
  <2>3. RingsAreMaximal
    BY <2>1 DEF RingsAreMaximal, InOrder, Linked
  <2>4. SkipPassesOnlyEqualConditions
    <3> SUFFICES ASSUME NEW s \in Queues, NEW i \in DOMAIN s
                 PROVE  /\ SkipPastSameCondition(ring, s, i) \in (i + 1)..(Len(s) + 1)
                        /\ \A j \in i..(SkipPastSameCondition(ring, s, i) - 1) :
                             cond[s[j]] = cond[s[i]]
      BY DEF SkipPassesOnlyEqualConditions
    <3>1. s \in Seq(Threads) /\ IsInjective(s) /\ RingsAreBlocks(ring, cond, s) /\ Closed(ring, s)
      BY <2>1 DEF InOrder
    <3>2. i \in 1..Len(s)
      BY <3>1
    <3> QED
      BY <3>1, <3>2, SkipFacts
  <2> QED
    BY <2>2, <2>3, <2>4 DEF RingsAreRuns
<1> QED
  BY <1>1, QueueInvariance, PTL
=============================================================================
