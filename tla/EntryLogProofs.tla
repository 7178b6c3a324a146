--------------------------- MODULE EntryLogProofs ---------------------------
(***************************************************************************)
(* Proofs about EntryLog: the file that init reads back, the configuration *)
(* in effect, and the refinement of AbstractLog.                           *)
(***************************************************************************)
EXTENDS EntryLog, MaxProofs, FiniteSetTheorems, SequenceTheorems, TLAPS

-----------------------------------------------------------------------------
(***************************************************************************)
(* Recursive functions.  A recursive definition is a CHOOSE; to unfold it  *)
(* one has to show that a function satisfies it.                           *)
(***************************************************************************)
\* A chain from p: next until Stop.
IsChain(Stop, next, p, o) ==
  /\ o \in Seq(Nat) /\ o # <<>> /\ o[1] = p
  /\ \A k \in 1..Len(o) - 1 : o[k] \notin Stop /\ o[k + 1] = next[o[k]]
  /\ o[Len(o)] \in Stop

\* next goes up within D, and D ends in Stop.
Climbs(D, Stop, next, n) ==
  /\ D \subseteq Nat /\ n \in Nat
  /\ \A p \in D : p >= n => p \in Stop
  /\ \A p \in D \ Stop : next[p] \in D /\ next[p] > p

ChainEq(D, Stop, next, h) ==
  h = [p \in D |-> IF p \in Stop THEN <<p>> ELSE Cons(p, h[next[p]])]

\* A chain that stops at once.
LEMMA ShortChain ==
  ASSUME NEW Stop, NEW next, NEW p \in Nat, p \in Stop
  PROVE  /\ IsChain(Stop, next, p, <<p>>)
         /\ \A o : IsChain(Stop, next, p, o) => o = <<p>>
<1>1. IsChain(Stop, next, p, <<p>>)
  BY DEF IsChain
<1>2. ASSUME NEW o, IsChain(Stop, next, p, o)
      PROVE  o = <<p>>
  <2>1. o \in Seq(Nat) /\ o[1] = p
    BY <1>2 DEF IsChain
  <2>2. Len(o) \in Nat /\ Len(o) # 0
    BY <1>2 DEF IsChain
  <2>3. ~(Len(o) > 1)
    BY <1>2, <2>2 DEF IsChain
  <2>4. Len(o) = 1
    BY SMTT(30), <2>2, <2>3
  <2> QED
    BY <2>1, <2>4
<1> QED
  BY <1>1, <1>2

\* A chain that goes on is one step and the chain from there.
LEMMA LongChain ==
  ASSUME NEW Stop, NEW next, NEW p \in Nat, p \notin Stop, next[p] \in Nat, NEW o
  PROVE  IsChain(Stop, next, p, o) <=> \E t : IsChain(Stop, next, next[p], t) /\ o = Cons(p, t)
<1>2. ASSUME NEW t, IsChain(Stop, next, next[p], t), o = Cons(p, t)
      PROVE  IsChain(Stop, next, p, o)
  <2>1. t \in Seq(Nat) /\ Len(t) \in Nat /\ Len(t) # 0 /\ t[1] = next[p]
    BY <1>2 DEF IsChain
  <2>2. o \in Seq(Nat) /\ Len(o) = Len(t) + 1 /\ o[1] = p
    BY <1>2, <2>1 DEF Cons
  <2>3. \A k \in 1..Len(t) : o[k + 1] = t[k]
    BY <1>2, <2>1 DEF Cons
  <2>4. ASSUME NEW k \in 1..Len(o) - 1
        PROVE  o[k] \notin Stop /\ o[k + 1] = next[o[k]]
    <3>1. CASE k = 1
      BY <2>1, <2>2, <2>3, <3>1
    <3>2. CASE k # 1
      <4>1. k - 1 \in 1..Len(t) - 1 /\ k \in 1..Len(t)
        BY <2>1, <2>2, <3>2
      <4>2. o[k] = t[k - 1] /\ o[k + 1] = t[(k - 1) + 1]
        BY <2>3, <4>1
      <4> QED
        BY <1>2, <4>1, <4>2 DEF IsChain
    <3> QED
      BY <3>1, <3>2
  <2>5. o[Len(o)] = t[Len(t)]
    BY <2>1, <2>2, <2>3
  <2> QED
    BY <1>2, <2>1, <2>2, <2>4, <2>5 DEF IsChain
<1>3. ASSUME IsChain(Stop, next, p, o)
      PROVE  \E t : IsChain(Stop, next, next[p], t) /\ o = Cons(p, t)
  <2>1. o \in Seq(Nat) /\ Len(o) \in Nat /\ Len(o) # 0 /\ o[1] = p
    BY <1>3 DEF IsChain
  <2>2. Len(o) > 1
    BY <1>3, <2>1 DEF IsChain
  <2> DEFINE t == Tail(o)
  <2>3. t \in Seq(Nat) /\ Len(t) = Len(o) - 1 /\ \A k \in 1..Len(t) : t[k] = o[k + 1]
    BY <2>1, <2>2
  <2>4. o = Cons(p, t)
    BY <2>1, <2>2, <2>3 DEF Cons
  <2> HIDE DEF t
  <2>5. t[1] = next[p]
    BY SMTT(30), <1>3, <2>1, <2>2, <2>3 DEF IsChain
  <2>6. ASSUME NEW k \in 1..Len(t) - 1
        PROVE  t[k] \notin Stop /\ t[k + 1] = next[t[k]]
    <3>0. Len(t) = Len(o) - 1 /\ Len(o) \in Nat
      BY <2>1, <2>3
    <3>1. k + 1 \in 1..Len(o) - 1 /\ k \in 1..Len(t) /\ k + 1 \in 1..Len(t)
      BY <3>0
    <3>2. t[k] = o[k + 1] /\ t[k + 1] = o[(k + 1) + 1]
      BY <2>3, <3>1
    <3> QED
      BY <1>3, <3>1, <3>2 DEF IsChain
  <2>7. t[Len(t)] = o[Len(o)]
    BY <2>1, <2>2, <2>3
  <2>8. Len(t) # 0
    <3>1. Len(t) = Len(o) - 1 /\ Len(o) \in Nat
      BY <2>1, <2>3
    <3> QED
      BY <2>2, <3>1
  <2>9. t # <<>>
    BY <2>8
  <2>10. t[Len(t)] \in Stop
    BY <1>3, <2>7 DEF IsChain
  <2>11. IsChain(Stop, next, next[p], t)
    BY <2>3, <2>5, <2>6, <2>9, <2>10 DEF IsChain
  <2> QED
    BY <2>4, <2>11
<1> QED
  BY <1>2, <1>3

\* From everywhere in D there is exactly one chain.
LEMMA ChainUnique ==
  ASSUME NEW D, NEW Stop, NEW next, NEW n, Climbs(D, Stop, next, n)
  PROVE  \A p \in D : \E o : /\ IsChain(Stop, next, p, o)
                             /\ \A u : IsChain(Stop, next, p, u) => u = o
<1> DEFINE Good(p) == \E o : IsChain(Stop, next, p, o) /\ \A u : IsChain(Stop, next, p, u) => u = o
           Bad == {p \in 0..n : p \in D /\ ~Good(p)}
<1>1. \A p \in D : p \in Stop => Good(p)
  BY ShortChain DEF Climbs
<1>2. \A p \in D : p >= n => Good(p)
  BY <1>1 DEF Climbs
<1>3. ASSUME Bad # {}
      PROVE  FALSE
  <2> HIDE DEF Good
  <2>1. Bad \in SUBSET (0..n) /\ n \in Nat
    BY DEF Climbs
  <2>2. PICK p \in Bad : \A y \in Bad : p >= y
    BY <1>3, <2>1, GreatestExists
  <2>3. p \in D /\ p \in Nat /\ ~Good(p) /\ p \notin Stop
    BY <1>1, <2>2
  <2>4. next[p] \in D /\ next[p] \in Nat /\ next[p] > p
    BY <2>3 DEF Climbs
  <2>5. Good(next[p])
    BY <1>2, <2>1, <2>2, <2>3, <2>4
  <2>6. PICK t : IsChain(Stop, next, next[p], t) /\ \A u : IsChain(Stop, next, next[p], u) => u = t
    BY <2>5 DEF Good
  <2>7. IsChain(Stop, next, p, Cons(p, t))
    BY <2>3, <2>4, <2>6, LongChain
  <2>8. ASSUME NEW u, IsChain(Stop, next, p, u)
        PROVE  u = Cons(p, t)
    <3>1. PICK v : IsChain(Stop, next, next[p], v) /\ u = Cons(p, v)
      <4> HIDE DEF Bad
      <4>1. p \in Nat /\ p \notin Stop /\ next[p] \in Nat
        BY <2>3, <2>4
      <4> QED
        BY <2>8, <4>1, LongChain
    <3> QED
      BY <2>6, <3>1
  <2>9. Good(p)
    BY <2>7, <2>8 DEF Good
  <2> QED
    BY <2>3, <2>9
<1>4. \A p \in D : Good(p)
  <2> HIDE DEF Good
  <2> QED
    BY <1>2, <1>3 DEF Climbs
<1> QED
  BY <1>4

\* The recursive equation of a chain has a solution.
LEMMA ChainSolution ==
  ASSUME NEW D, NEW Stop, NEW next, NEW n, Climbs(D, Stop, next, n)
  PROVE  \E h : ChainEq(D, Stop, next, h)
<1> DEFINE g == [p \in D |-> CHOOSE o : IsChain(Stop, next, p, o)]
<1>1. ASSUME NEW p \in D
      PROVE  IsChain(Stop, next, p, g[p]) /\ \A u : IsChain(Stop, next, p, u) => u = g[p]
  BY ChainUnique
<1>2. g = [p \in D |-> g[p]]
  OBVIOUS
<1> HIDE DEF g
<1>3. ASSUME NEW p \in D
      PROVE  g[p] = IF p \in Stop THEN <<p>> ELSE Cons(p, g[next[p]])
  <2>1. CASE p \in Stop
    BY <1>1, <2>1, ShortChain DEF Climbs
  <2>2. CASE p \notin Stop
    <3>1. p \in Nat /\ next[p] \in D /\ next[p] \in Nat
      BY <2>2 DEF Climbs
    <3>2. IsChain(Stop, next, next[p], g[next[p]])
      BY <1>1, <3>1
    <3>3. IsChain(Stop, next, p, Cons(p, g[next[p]]))
      BY <2>2, <3>1, <3>2, LongChain
    <3> QED
      BY <1>1, <2>2, <3>3
  <2> QED
    BY <2>1, <2>2
<1>4. ChainEq(D, Stop, next, g)
  BY <1>2, <1>3 DEF ChainEq
<1> QED
  BY <1>4

\* The solution is the chain.
LEMMA ChainValue ==
  ASSUME NEW D, NEW Stop, NEW next, NEW n, Climbs(D, Stop, next, n),
         NEW h, ChainEq(D, Stop, next, h)
  PROVE  \A p \in D : IsChain(Stop, next, p, h[p]) /\ \A u : IsChain(Stop, next, p, u) => u = h[p]
<1> DEFINE Good(p) == IsChain(Stop, next, p, h[p])
           Bad == {p \in 0..n : p \in D /\ ~Good(p)}
<1>1. \A p \in D : h[p] = IF p \in Stop THEN <<p>> ELSE Cons(p, h[next[p]])
  BY DEF ChainEq
<1>2. \A p \in D : p \in Stop => Good(p)
  BY <1>1, ShortChain DEF Climbs
<1>3. \A p \in D : p >= n => Good(p)
  BY <1>2 DEF Climbs
<1>4. ASSUME Bad # {}
      PROVE  FALSE
  <2> HIDE DEF Good
  <2>1. Bad \in SUBSET (0..n) /\ n \in Nat
    BY DEF Climbs
  <2>2. PICK p \in Bad : \A y \in Bad : p >= y
    BY <1>4, <2>1, GreatestExists
  <2>3. p \in D /\ p \in Nat /\ ~Good(p) /\ p \notin Stop
    BY <1>2, <2>2
  <2>4. next[p] \in D /\ next[p] \in Nat /\ next[p] > p
    BY <2>3 DEF Climbs
  <2>5. Good(next[p])
    BY <1>3, <2>1, <2>2, <2>3, <2>4
  <2>6. h[p] = Cons(p, h[next[p]])
    BY <1>1, <2>3
  <2>7. Good(p)
    BY <2>3, <2>4, <2>5, <2>6, LongChain DEF Good
  <2> QED
    BY <2>3, <2>7
<1>5. \A p \in D : Good(p)
  <2> HIDE DEF Good
  <2> QED
    BY <1>3, <1>4 DEF Climbs
<1> QED
  BY <1>5, ChainUnique

-----------------------------------------------------------------------------
(***************************************************************************)
(* The walk of the iterator.                                               *)
(***************************************************************************)
Stops(f, p) == p \notin DOMAIN f \/ f[p].size = 0

\* The walk from p in f, without recursion.
IsWalk(f, p, o) ==
  /\ o \in Seq(Nat) /\ o # <<>> /\ o[1] = p
  /\ \A k \in 1..Len(o) - 1 : ~Stops(f, o[k]) /\ o[k + 1] = o[k] + f[o[k]].size
  /\ Stops(f, o[Len(o)])

\* A file: n words.
IsFile(f, n) == n \in Nat /\ DOMAIN f = 0..n - 1 /\ \A p \in DOMAIN f : f[p] \in Word

\* What init visits: the one walk from the sentry.
LEMMA OffsetsIs ==
  ASSUME NEW f, NEW n, IsFile(f, n)
  PROVE  IsWalk(f, 0, Offsets(f)) /\ \A o : IsWalk(f, 0, o) => Offsets(f) = o
<1> DEFINE Stop == {p \in Nat : Stops(f, p)}
           next == [p \in Nat |-> p + f[p].size]
           Eq(h) == h = [p \in Nat |-> IF p \notin DOMAIN f \/ f[p].size = 0 THEN <<p>>
                                       ELSE <<p>> \o h[p + f[p].size]]
<1>1. \A p \in DOMAIN f : f[p].size \in Nat
  BY DEF IsFile, Word
<1>2. Climbs(Nat, Stop, next, n)
  BY <1>1 DEF Climbs, Stops, IsFile
<1>3. \A h : ChainEq(Nat, Stop, next, h) <=> Eq(h)
  <2>1. ASSUME NEW h
        PROVE  [p \in Nat |-> IF p \in Stop THEN <<p>> ELSE Cons(p, h[next[p]])]
                 = [p \in Nat |-> IF p \notin DOMAIN f \/ f[p].size = 0 THEN <<p>>
                                  ELSE <<p>> \o h[p + f[p].size]]
    BY DEF Stops, Cons
  <2> QED
    BY <2>1 DEF ChainEq
<1>4. WalkFrom(f) = CHOOSE h : Eq(h)
  BY DEF WalkFrom
<1>5. \A o : IsChain(Stop, next, 0, o) <=> IsWalk(f, 0, o)
  <2>1. ASSUME NEW o \in Seq(Nat), o # <<>>
        PROVE  IsChain(Stop, next, 0, o) <=> IsWalk(f, 0, o)
    <3>1. Len(o) \in Nat /\ Len(o) # 0
      BY <2>1
    <3>2. \A k \in 1..Len(o) : o[k] \in Nat
      BY <3>1
    <3>3. \A k \in 1..Len(o) - 1 : k \in 1..Len(o)
      BY <3>1
    <3>4. Len(o) \in 1..Len(o)
      BY <3>1
    <3> QED
      BY <3>2, <3>3, <3>4 DEF IsChain, IsWalk
  <2> QED
    BY <2>1 DEF IsChain, IsWalk
<1> HIDE DEF Eq, Stop, next
<1>6. PICK h : Eq(h)
  BY <1>2, <1>3, ChainSolution
<1>7. Eq(WalkFrom(f))
  BY <1>4, <1>6
<1>8. ChainEq(Nat, Stop, next, WalkFrom(f))
  BY <1>3, <1>7
<1>9. /\ IsChain(Stop, next, 0, WalkFrom(f)[0])
      /\ \A u : IsChain(Stop, next, 0, u) => u = WalkFrom(f)[0]
  BY <1>2, <1>8, ChainValue
<1> QED
  BY <1>5, <1>9 DEF Offsets

-----------------------------------------------------------------------------
(***************************************************************************)
(* The words of a batch.                                                   *)
(***************************************************************************)
LEMMA WordFields ==
  ASSUME NEW w \in Word
  PROVE  /\ w.size \in Nat /\ w.index \in Nat /\ w.term \in Nat /\ w.cfg \in BOOLEAN
         /\ w.prev \in Nat /\ w.data \in Content \cup {NoConfig}
BY DEF Word

LEMMA ConstantWords ==
  /\ Zero \in Word /\ Sentry \in Word /\ Body \in Word
  /\ Zero.size = 0
  /\ Sentry.size = 1 /\ Sentry.index = 0 /\ Sentry.cfg = FALSE /\ Sentry.prev = 0 /\ Sentry.data = NoConfig
BY DEF Zero, Sentry, Body, Blank, Word, Wild

\* Entries that append may be given.
IsBatch(es) ==
  /\ es \in Seq(Word)
  /\ \A k \in 1..Len(es) : es[k].size > 0

SumEq(es, n, h) == h = [k \in 0..n |-> IF k = 0 THEN 0 ELSE h[k - 1] + es[k].size]

\* SizeUpTo satisfies its recursive definition.
LEMMA SizeUpToDef ==
  ASSUME NEW es, Len(es) \in Nat
  PROVE  SumEq(es, Len(es), SizeUpTo(es))
<1> DEFINE N == Len(es)
           S == {k \in 0..N : \E h : SumEq(es, k, h)}
           Eq(h) == h = [k \in 0..N |-> IF k = 0 THEN 0 ELSE h[k - 1] + es[k].size]
<1>1. 0 \in S
  <2> DEFINE h == [k \in 0..0 |-> 0]
  <2>1. SumEq(es, 0, h)
    BY DEF SumEq
  <2> QED
    BY <2>1
<1>2. ASSUME NEW k \in 0..N, k \in S, k < N
      PROVE  k + 1 \in S
  <2>1. PICK h : SumEq(es, k, h)
    BY <1>2
  <2> DEFINE g == [j \in 0..k + 1 |-> IF j <= k THEN h[j] ELSE h[k] + es[k + 1].size]
  <2>2. ASSUME NEW j \in 0..k + 1
        PROVE  g[j] = IF j = 0 THEN 0 ELSE g[j - 1] + es[j].size
    <3>1. CASE j <= k
      <4>1. h[j] = IF j = 0 THEN 0 ELSE h[j - 1] + es[j].size
        BY SMTT(30), <2>1, <3>1 DEF SumEq
      <4>2. g[j] = h[j] /\ (j # 0 => g[j - 1] = h[j - 1])
        BY <3>1
      <4> HIDE DEF g
      <4> QED
        BY <4>1, <4>2
    <3>2. CASE j = k + 1
      BY <3>2
    <3> QED
      BY <3>1, <3>2
  <2>3. g = [j \in 0..k + 1 |-> g[j]]
    OBVIOUS
  <2> HIDE DEF g
  <2>4. SumEq(es, k + 1, g)
    BY <2>2, <2>3 DEF SumEq
  <2> QED
    BY <1>2, <2>4
<1>3. N \in S
  <2>1. \A k \in 0..N : k \in S /\ k < N => k + 1 \in S
    BY <1>2
  <2>2. N \in Nat /\ N \in 0..N
    OBVIOUS
  <2> HIDE DEF S, N
  <2>3. \A k \in 0..N : k \in S
    BY <1>1, <2>1, <2>2, UpTo
  <2> QED
    BY <2>2, <2>3
<1>4. \E h : Eq(h)
  BY <1>3 DEF SumEq
<1>5. SizeUpTo(es) = CHOOSE h : Eq(h)
  BY DEF SizeUpTo
<1> HIDE DEF Eq
<1>6. Eq(SizeUpTo(es))
  BY <1>4, <1>5
<1> QED
  BY <1>6 DEF Eq, SumEq

\* The sizes of the first entries grow with their number.
LEMMA SizeUpToIs ==
  ASSUME NEW es, IsBatch(es)
  PROVE  /\ SizeUpTo(es)[0] = 0
         /\ \A k \in 1..Len(es) : SizeUpTo(es)[k] = SizeUpTo(es)[k - 1] + es[k].size
         /\ \A k \in 0..Len(es) : SizeUpTo(es)[k] \in Nat
         /\ \A j, k \in 0..Len(es) : j < k => SizeUpTo(es)[j] < SizeUpTo(es)[k]
<1> DEFINE N == Len(es)
           s == SizeUpTo(es)
<1>1. N \in Nat /\ \A k \in 1..N : es[k].size \in Nat /\ es[k].size > 0
  BY WordFields DEF IsBatch
<1>2. \A k \in 0..N : s[k] = IF k = 0 THEN 0 ELSE s[k - 1] + es[k].size
  BY <1>1, SizeUpToDef DEF SumEq
<1> HIDE DEF s, N
<1> DEFINE S == {k \in 0..N : s[k] \in Nat /\ \A j \in 0..N : j < k => s[j] \in Nat /\ s[j] < s[k]}
<1>3. 0 \in S
  BY <1>1, <1>2
<1>4. ASSUME NEW k \in 0..N, k \in S, k < N
      PROVE  k + 1 \in S
  <2>1. k + 1 \in 1..N /\ k + 1 \in 0..N /\ s[k] \in Nat
    BY <1>1, <1>4
  <2>2. s[k + 1] = s[k] + es[k + 1].size
    BY <1>2, <2>1
  <2>3. es[k + 1].size \in Nat /\ es[k + 1].size > 0
    BY <1>1, <2>1
  <2>4. ASSUME NEW j \in 0..N, j < k + 1
        PROVE  s[j] \in Nat /\ s[j] < s[k + 1]
    BY <1>4, <2>1, <2>2, <2>3, <2>4
  <2> QED
    BY <2>1, <2>2, <2>3, <2>4
<1>5. \A k \in 0..N : k \in S
  <2>1. \A k \in 0..N : k \in S /\ k < N => k + 1 \in S
    BY <1>4
  <2> HIDE DEF S
  <2> QED
    BY <1>1, <1>3, <2>1, UpTo
<1>6. s[0] = 0 /\ \A k \in 1..N : s[k] = s[k - 1] + es[k].size
  BY <1>1, <1>2
<1>7. \A j, k \in 0..N : j < k => s[j] < s[k]
  BY <1>5
<1>8. \A k \in 0..N : s[k] \in Nat
  BY <1>5
<1> QED
  BY <1>6, <1>7, <1>8 DEF s, N

\* The words of a batch: as many as its size, with each entry's header where the entries
\* before it end.
LEMMA AllWordsIs ==
  ASSUME NEW es, IsBatch(es)
  PROVE  /\ size_bytes(es) \in Nat
         /\ DOMAIN AllWords(es) = 1..size_bytes(es)
         /\ \A p \in 1..size_bytes(es) : AllWords(es)[p] \in Word
         /\ \A k \in 1..Len(es) : /\ SizeUpTo(es)[k - 1] + 1 \in 1..size_bytes(es)
                                  /\ AllWords(es)[SizeUpTo(es)[k - 1] + 1] = es[k]
<1> DEFINE N == Len(es)
           s == SizeUpTo(es)
           H(p) == {k \in DOMAIN es : s[k - 1] + 1 = p}
<1>1. es \in Seq(Word) /\ N \in Nat /\ DOMAIN es = 1..N
  BY DEF IsBatch
<1>2. \A k \in 1..N : es[k] \in Word
  BY <1>1
<1>3. Body \in Word
  BY ConstantWords
<1>4. size_bytes(es) = s[N]
  BY DEF size_bytes
<1>5. AllWords(es) = [p \in 1..s[N] |-> IF H(p) = {} THEN Body ELSE es[CHOOSE k \in H(p) : TRUE]]
  BY <1>4 DEF AllWords
<1>6. /\ \A k \in 0..N : s[k] \in Nat
      /\ \A j, k \in 0..N : j < k => s[j] < s[k]
  BY SizeUpToIs
<1> HIDE DEF s, N
<1>7. ASSUME NEW p \in 1..s[N]
      PROVE  AllWords(es)[p] \in Word
  <2>1. CASE H(p) = {}
    BY <1>3, <1>5, <2>1
  <2>2. CASE H(p) # {}
    <3>1. (CHOOSE k \in H(p) : TRUE) \in H(p)
      BY <2>2
    <3>2. (CHOOSE k \in H(p) : TRUE) \in 1..N
      BY <1>1, <3>1
    <3> QED
      BY <1>2, <1>5, <2>2, <3>2
  <2> QED
    BY <2>1, <2>2
<1>8. ASSUME NEW k \in 1..N
      PROVE  s[k - 1] + 1 \in 1..s[N] /\ AllWords(es)[s[k - 1] + 1] = es[k]
  <2>1. k - 1 \in 0..N /\ N \in 0..N /\ k - 1 < N
    BY <1>1
  <2>2. s[k - 1] + 1 \in 1..s[N]
    BY <1>6, <2>1
  <2>3. ASSUME NEW j \in H(s[k - 1] + 1)
        PROVE  j = k
    <3>1. j \in 1..N /\ s[j - 1] + 1 = s[k - 1] + 1
      BY <1>1
    <3>2. j - 1 \in 0..N /\ s[j - 1] \in Nat /\ s[k - 1] \in Nat
      BY <1>1, <1>6, <2>1, <3>1
    <3>3. ~(j - 1 < k - 1) /\ ~(k - 1 < j - 1)
      BY <1>6, <2>1, <3>1, <3>2
    <3> QED
      BY <3>1, <3>3
  <2>4. H(s[k - 1] + 1) = {k}
    BY <1>1, <2>3
  <2> HIDE DEF H
  <2>5. AllWords(es)[s[k - 1] + 1] = es[CHOOSE j \in {k} : TRUE]
    BY <1>5, <2>2, <2>4
  <2> QED
    BY <2>2, <2>5
<1>9. DOMAIN AllWords(es) = 1..s[N]
  BY <1>5
<1>10. s[N] \in Nat
  BY <1>1, <1>6
<1> QED
  BY <1>4, <1>7, <1>8, <1>9, <1>10 DEF s, N

-----------------------------------------------------------------------------
(***************************************************************************)
(* Growth of the file.                                                     *)
(***************************************************************************)
LEMMA PageUpIs ==
  ASSUME NEW n \in Nat
  PROVE  PageUp(n) \in Nat /\ PageUp(n) >= n /\ (n > 0 => PageUp(n) >= PageSize)
<1> DEFINE P == PageSize
           q == (n + P - 1) \div P
<1>1. P \in Nat /\ P >= 4
  BY SizeAssumption
<1> HIDE DEF P
<1>2. n + P - 1 \in Nat
  BY <1>1
<1>3. q \in Nat /\ n + P - 1 < P * q + P
  BY <1>1, <1>2
<1>4. n > 0 => q >= 1
  BY <1>1, <1>2, <1>3
<1>5. PageUp(n) = q * P
  BY DEF PageUp, P
<1> HIDE DEF q
<1>6. q * P \in Nat /\ q * P = P * q
  BY <1>1, <1>3
<1>7. n <= P * q
  BY <1>1, <1>3, <1>6
<1>8. n > 0 => P * q >= P
  BY <1>1, <1>3, <1>4
<1> QED
  BY <1>5, <1>6, <1>7, <1>8 DEF P

LEMMA NextSizeIs ==
  ASSUME NEW n \in Nat, n >= 4
  PROVE  NextSize(n) \in Nat /\ NextSize(n) > n
<1>1. (n * 5) \div 4 \in Nat /\ (n * 5) \div 4 > n
  OBVIOUS
<1> QED
  BY <1>1, PageUpIs DEF NextSize

\* What append maps to make room, without recursion.
IsGrowth(g, bytes) ==
  /\ g \in Seq(Nat) /\ g # <<>> /\ g[1] = ldbs_size
  /\ \A k \in 1..Len(g) - 1 : ~Fits(g[k], bytes) /\ g[k + 1] = NextSize(g[k])
  /\ Fits(g[Len(g)], bytes)
  /\ \A k \in 1..Len(g) : g[k] >= ldbs_size

LEMMA GrowthIs ==
  ASSUME ldbs_size \in Nat, ldbs_size >= PageSize, payload_size \in Nat, NEW bytes \in Nat
  PROVE  IsGrowth(Growth(bytes), bytes)
<1> DEFINE D == {m \in Nat : m >= ldbs_size}
           Stop == {m \in D : Fits(m, bytes)}
           next == [m \in D |-> NextSize(m)]
           n == ldbs_size + payload_size + bytes + 2
           Eq(h) == h = [m \in D |-> IF Fits(m, bytes) THEN <<m>> ELSE <<m>> \o h[NextSize(m)]]
           From == CHOOSE h : Eq(h)
<1>1. ldbs_size >= 4
  BY SizeAssumption
<1>2. \A m \in D : NextSize(m) \in D /\ NextSize(m) > m
  BY <1>1, NextSizeIs
<1>3. \A m \in D : m >= n => m \in Stop
  BY DEF Fits, log_end_marker_size
<1>4. Climbs(D, Stop, next, n)
  <2>1. D \subseteq Nat /\ n \in Nat
    OBVIOUS
  <2>2. \A m \in D \ Stop : next[m] \in D /\ next[m] > m
    BY <1>2
  <2> HIDE DEF D, Stop, next, n
  <2> QED
    BY <1>3, <2>1, <2>2 DEF Climbs
<1>5. \A h : ChainEq(D, Stop, next, h) <=> Eq(h)
  <2>1. ASSUME NEW h
        PROVE  [m \in D |-> IF m \in Stop THEN <<m>> ELSE Cons(m, h[next[m]])]
                 = [m \in D |-> IF Fits(m, bytes) THEN <<m>> ELSE <<m>> \o h[NextSize(m)]]
    BY DEF Cons
  <2> QED
    BY <2>1 DEF ChainEq
<1>6. Growth(bytes) = From[ldbs_size]
  BY DEF Growth
<1>7. ldbs_size \in D
  OBVIOUS
<1> HIDE DEF Eq, n
<1>8. \E h : Eq(h)
  <2> HIDE DEF D, Stop, next
  <2> QED
    BY <1>4, <1>5, ChainSolution
<1>9. Eq(From)
  BY <1>8
<1> HIDE DEF From
<1>10. IsChain(Stop, next, ldbs_size, Growth(bytes))
  <2> HIDE DEF D, Stop, next
  <2> QED
    BY <1>4, <1>5, <1>6, <1>7, <1>9, ChainValue
<1> DEFINE g == Growth(bytes)
<1> HIDE DEF g
<1>11. g \in Seq(Nat) /\ g # <<>> /\ g[1] = ldbs_size
  BY <1>10 DEF IsChain, g
<1>12. \A k \in 1..Len(g) - 1 : g[k] \notin Stop /\ g[k + 1] = next[g[k]]
  BY <1>10 DEF IsChain, g
<1>13. g[Len(g)] \in Stop
  BY <1>10 DEF IsChain, g
<1>14. Len(g) \in Nat /\ Len(g) > 0
  BY <1>11
<1> DEFINE S == {k \in Nat : k + 1 \in 1..Len(g) => g[k + 1] \in D}
<1>15. 0 \in S
  BY <1>7, <1>11
<1>16. ASSUME NEW k \in 0..Len(g), k \in S
       PROVE  k + 1 \in S
  <2>1. SUFFICES ASSUME k + 2 \in 1..Len(g)
                 PROVE  g[k + 2] \in D
    OBVIOUS
  <2>2. k + 1 \in 1..Len(g) - 1 /\ k + 1 \in 1..Len(g)
    BY <1>14, <2>1
  <2>3. g[k + 1] \in D
    BY <1>16, <2>2
  <2>4. g[(k + 1) + 1] = next[g[k + 1]]
    BY <1>12, <2>2
  <2>5. next[g[k + 1]] \in D
    BY <1>2, <2>3
  <2> QED
    BY <2>4, <2>5
<1>17. \A k \in 0..Len(g) : k \in S
  <2>1. Len(g) \in Nat /\ \A k \in 0..Len(g) : k \in S /\ k < Len(g) => k + 1 \in S
    BY <1>14, <1>16
  <2> HIDE DEF S
  <2> QED
    BY <1>15, <2>1, UpTo
<1>18. ASSUME NEW k \in 1..Len(g)
       PROVE  g[k] \in D
  <2>1. k - 1 \in 0..Len(g) /\ (k - 1) + 1 \in 1..Len(g)
    BY <1>14
  <2>2. g[(k - 1) + 1] \in D
    BY <1>17, <2>1
  <2> QED
    BY <2>2
<1>19. \A k \in 1..Len(g) - 1 : k \in 1..Len(g)
  BY <1>14
<1>20. ASSUME NEW k \in 1..Len(g) - 1
       PROVE  ~Fits(g[k], bytes) /\ g[k + 1] = NextSize(g[k])
  BY <1>12, <1>18, <1>19
<1>21. Fits(g[Len(g)], bytes)
  BY <1>13
<1>22. \A k \in 1..Len(g) : g[k] >= ldbs_size
  BY <1>18
<1>23. IsGrowth(g, bytes)
  BY <1>11, <1>20, <1>21, <1>22 DEF IsGrowth
<1> QED
  BY <1>23 DEF g

-----------------------------------------------------------------------------
(***************************************************************************)
(* The chain of configurations.                                            *)
(***************************************************************************)
DescentEq(n, limit, next, h) == h = [j \in 0..n |-> IF j > limit THEN h[next[j]] ELSE j]

\* A recursion that goes down has a solution.
LEMMA DescentSolution ==
  ASSUME NEW n \in Nat, NEW limit \in Nat, NEW next,
         \A j \in 0..n : j > limit => next[j] \in Nat /\ next[j] < j
  PROVE  \E h : DescentEq(n, limit, next, h)
<1> DEFINE S == {k \in 0..n : \E h : DescentEq(k, limit, next, h)}
<1>1. 0 \in S
  <2> DEFINE h == [j \in 0..0 |-> 0]
  <2>1. DescentEq(0, limit, next, h)
    BY DEF DescentEq
  <2> QED
    BY <2>1
<1>2. ASSUME NEW k \in 0..n, k \in S, k < n
      PROVE  k + 1 \in S
  <2>1. PICK h : DescentEq(k, limit, next, h)
    BY <1>2
  <2> DEFINE g == [j \in 0..k + 1 |-> IF j <= k THEN h[j] ELSE IF j > limit THEN h[next[j]] ELSE j]
  <2>2. ASSUME NEW j \in 0..k + 1
        PROVE  g[j] = IF j > limit THEN g[next[j]] ELSE j
    <3>1. j \in 0..n
      BY <1>2
    <3>2. j > limit => next[j] \in 0..k /\ g[next[j]] = h[next[j]]
      BY <1>2, <3>1
    <3>3. CASE j <= k
      <4>1. h[j] = IF j > limit THEN h[next[j]] ELSE j
        BY <2>1, <3>3 DEF DescentEq
      <4>2. g[j] = h[j]
        BY <3>3
      <4> HIDE DEF g
      <4> QED
        BY <3>2, <4>1, <4>2
    <3>4. CASE j = k + 1
      <4>1. g[j] = IF j > limit THEN h[next[j]] ELSE j
        BY <3>4
      <4> HIDE DEF g
      <4> QED
        BY <3>2, <4>1
    <3> QED
      BY <3>3, <3>4
  <2>3. g = [j \in 0..k + 1 |-> g[j]]
    OBVIOUS
  <2> HIDE DEF g
  <2>4. DescentEq(k + 1, limit, next, g)
    BY <2>2, <2>3 DEF DescentEq
  <2> QED
    BY <1>2, <2>4
<1>3. \A k \in 0..n : k \in S
  <2>1. \A k \in 0..n : k \in S /\ k < n => k + 1 \in S
    BY <1>2
  <2> HIDE DEF S
  <2> QED
    BY <1>1, <2>1, UpTo
<1> QED
  BY <1>3

\* Where the solution ends: below the limit, and in every set that next does not leave.
LEMMA DescentValue ==
  ASSUME NEW n \in Nat, NEW limit \in Nat, NEW next, NEW h, DescentEq(n, limit, next, h),
         NEW S, n \in S,
         \A j \in 0..n : j > limit /\ j \in S => next[j] \in Nat /\ next[j] < j /\ next[j] \in S
  PROVE  h[n] \in 0..n /\ h[n] <= limit /\ h[n] \in S
<1> DEFINE Good(j) == j \in S => h[j] \in 0..n /\ h[j] <= limit /\ h[j] \in S
           T == {k \in 0..n : \A j \in 0..k : Good(j)}
<1>1. \A j \in 0..n : h[j] = IF j > limit THEN h[next[j]] ELSE j
  BY DEF DescentEq
<1>2. 0 \in T
  BY <1>1
<1>3. ASSUME NEW k \in 0..n, k \in T, k < n
      PROVE  k + 1 \in T
  <2>1. \A j \in 0..k : Good(j)
    BY <1>3
  <2>2. k + 1 \in 0..n
    BY <1>3
  <2>3. Good(k + 1)
    <3>1. CASE k + 1 > limit
      <4>1. SUFFICES ASSUME k + 1 \in S
                     PROVE  h[k + 1] \in 0..n /\ h[k + 1] <= limit /\ h[k + 1] \in S
        OBVIOUS
      <4>2. next[k + 1] \in 0..k /\ next[k + 1] \in S
        BY <2>2, <3>1, <4>1
      <4>3. h[k + 1] = h[next[k + 1]]
        BY <1>1, <2>2, <3>1
      <4> QED
        BY <2>1, <4>2, <4>3
    <3>2. CASE ~(k + 1 > limit)
      <4>1. h[k + 1] = k + 1
        BY <1>1, <2>2, <3>2
      <4> QED
        BY <2>2, <3>2, <4>1
    <3> QED
      BY <3>1, <3>2
  <2> HIDE DEF Good
  <2>4. \A j \in 0..k + 1 : Good(j)
    BY <2>1, <2>3
  <2> QED
    BY <2>2, <2>4
<1>4. \A k \in 0..n : k \in T
  <2>1. \A k \in 0..n : k \in T /\ k < n => k + 1 \in T
    BY <1>3
  <2> HIDE DEF T
  <2> QED
    BY <1>2, <2>1, UpTo
<1>5. n \in T /\ n \in 0..n
  BY <1>4
<1>6. Good(n)
  BY <1>5
<1> QED
  BY <1>6

\* Where the loops of chop and drop over prev_cfg end.
LEMMA CfgBeforeIs ==
  ASSUME NEW i \in Nat, NEW limit \in Nat,
         \A j \in 0..i : j > limit => EntryAt(j).prev \in Nat /\ EntryAt(j).prev < j,
         NEW S, i \in S, \A j \in 0..i : j > limit /\ j \in S => EntryAt(j).prev \in S
  PROVE  CfgBefore(i, limit) \in 0..i /\ CfgBefore(i, limit) <= limit /\ CfgBefore(i, limit) \in S
<1> DEFINE next == [j \in 0..i |-> EntryAt(j).prev]
           Eq(h) == h = [j \in 0..i |-> IF j > limit THEN h[EntryAt(j).prev] ELSE j]
           From == CHOOSE h : Eq(h)
<1>1. CfgBefore(i, limit) = From[i]
  BY DEF CfgBefore
<1>2. \A h : DescentEq(i, limit, next, h) <=> Eq(h)
  <2>1. ASSUME NEW h
        PROVE  [j \in 0..i |-> IF j > limit THEN h[next[j]] ELSE j]
                 = [j \in 0..i |-> IF j > limit THEN h[EntryAt(j).prev] ELSE j]
    OBVIOUS
  <2> QED
    BY <2>1 DEF DescentEq
<1>3. \A j \in 0..i : next[j] = EntryAt(j).prev
  OBVIOUS
<1> HIDE DEF Eq, next
<1>4. \A j \in 0..i : j > limit => next[j] \in Nat /\ next[j] < j
  BY <1>3
<1>5. \E h : Eq(h)
  BY <1>2, <1>4, DescentSolution
<1>6. Eq(From)
  BY <1>5
<1> HIDE DEF From
<1>7. DescentEq(i, limit, next, From)
  BY <1>2, <1>6
<1>8. \A j \in 0..i : j > limit /\ j \in S => next[j] \in Nat /\ next[j] < j /\ next[j] \in S
  BY <1>3, <1>4
<1>9. From[i] \in 0..i /\ From[i] <= limit /\ From[i] \in S
  BY <1>7, <1>8, DescentValue
<1> QED
  BY <1>1, <1>9

-----------------------------------------------------------------------------
(***************************************************************************)
(* Layout of a file: inf says where each entry starts, end where the last  *)
(* one ends.                                                               *)
(***************************************************************************)
Info == [index : Nat, amount : Nat]

Layout(f, inf, end) ==
  /\ inf \in Seq(Info) /\ Len(inf) > 0 /\ end \in Nat
  /\ inf[1] = [index |-> 0, amount |-> 0]
  /\ \A k \in 1..Len(inf) :
       /\ inf[k].amount \in DOMAIN f
       /\ f[inf[k].amount].size > 0 /\ f[inf[k].amount].index = inf[k].index
       /\ inf[k].amount + f[inf[k].amount].size = IF k = Len(inf) THEN end ELSE inf[k + 1].amount
  /\ end \in DOMAIN f => f[end].size = 0

\* A sequence that is s and then t, by its elements.
Joined(u, s, t) ==
  /\ Len(u) = Len(s) + Len(t)
  /\ \A k \in 1..Len(s) : u[k] = s[k]
  /\ \A k \in 1..Len(t) : u[Len(s) + k] = t[k]

LEMMA JoinedParts ==
  ASSUME NEW u, NEW s, NEW t, Len(s) \in Nat, Len(t) \in Nat, Len(u) = Len(s) + Len(t),
         \A i \in 1..Len(s) + Len(t) : u[i] = IF i <= Len(s) THEN s[i] ELSE t[i - Len(s)]
  PROVE  Joined(u, s, t)
<1> DEFINE M == Len(s)
           N == Len(t)
<1>1. M \in Nat /\ N \in Nat /\ \A i \in 1..M + N : u[i] = IF i <= M THEN s[i] ELSE t[i - M]
  OBVIOUS
<1> HIDE DEF M, N
<1>4. \A k \in 1..M : u[k] = s[k]
  BY <1>1
<1>5. ASSUME NEW k \in 1..N
      PROVE  u[M + k] = t[k]
  <2>1. M + k \in 1..M + N /\ ~(M + k <= M) /\ (M + k) - M = k
    BY <1>1
  <2> QED
    BY <1>1, <2>1
<1> QED
  BY <1>4, <1>5 DEF Joined, M, N

\* The parts of a concatenation.
LEMMA ConcatIs ==
  ASSUME NEW S, NEW s \in Seq(S), NEW t \in Seq(S)
  PROVE  s \o t \in Seq(S) /\ Joined(s \o t, s, t)
<1>1. Len(s) \in Nat /\ Len(t) \in Nat
  OBVIOUS
<1>2. /\ s \o t \in Seq(S) /\ Len(s \o t) = Len(s) + Len(t)
      /\ \A i \in 1..Len(s) + Len(t) : (s \o t)[i] = IF i <= Len(s) THEN s[i] ELSE t[i - Len(s)]
  BY ConcatProperties
<1> QED
  BY <1>1, <1>2, JoinedParts

LEMMA LayoutTypes ==
  ASSUME NEW f, NEW n, IsFile(f, n), NEW inf, NEW end, Layout(f, inf, end)
  PROVE  /\ Len(inf) \in Nat /\ DOMAIN inf = 1..Len(inf)
         /\ \A k \in 1..Len(inf) :
              /\ inf[k] \in Info /\ inf[k].index \in Nat /\ inf[k].amount \in Nat
              /\ inf[k].amount \in DOMAIN f /\ f[inf[k].amount] \in Word
              /\ f[inf[k].amount].size \in Nat
<1>1. inf \in Seq(Info)
  BY DEF Layout
<1>2. Len(inf) \in Nat /\ DOMAIN inf = 1..Len(inf)
  BY <1>1
<1>3. ASSUME NEW k \in 1..Len(inf)
      PROVE  inf[k] \in Info /\ inf[k].index \in Nat /\ inf[k].amount \in Nat
  <2>1. inf[k] \in Info
    BY <1>1, <1>2
  <2> QED
    BY <2>1 DEF Info
<1>4. ASSUME NEW k \in 1..Len(inf)
      PROVE  inf[k].amount \in DOMAIN f /\ f[inf[k].amount] \in Word /\ f[inf[k].amount].size \in Nat
  <2>1. inf[k].amount \in DOMAIN f
    BY DEF Layout
  <2>2. f[inf[k].amount] \in Word
    BY <2>1 DEF IsFile
  <2> QED
    BY <2>1, <2>2, WordFields
<1> QED
  BY <1>2, <1>3, <1>4

\* Entries lie one behind the other.
LEMMA LayoutOrder ==
  ASSUME NEW f, NEW n, IsFile(f, n), NEW inf, NEW end, Layout(f, inf, end)
  PROVE  /\ \A j, k \in 1..Len(inf) : j < k =>
              inf[j].amount + f[inf[j].amount].size <= inf[k].amount
         /\ \A k \in 1..Len(inf) : inf[k].amount + f[inf[k].amount].size <= end
         /\ \A k \in 1..Len(inf) : inf[k].amount < end
<1> DEFINE N == Len(inf)
           a(k) == IF k = N + 1 THEN end ELSE inf[k].amount
           z(k) == f[inf[k].amount].size
<1>1. N \in Nat /\ N > 0
  BY LayoutTypes DEF Layout
<1>2. \A k \in 1..N : a(k) \in Nat /\ z(k) \in Nat
  BY <1>1, LayoutTypes
<1>3. \A k \in 1..N : z(k) > 0 /\ a(k) + z(k) = a(k + 1)
  BY <1>1 DEF Layout
<1>4. a(N + 1) \in Nat
  BY DEF Layout
<1> HIDE DEF N, z
<1> DEFINE S == {k \in 0..N : \A j \in 1..k : a(j) + z(j) <= a(k + 1)}
<1>5. 0 \in S
  BY <1>1
<1>6. ASSUME NEW k \in 0..N, k \in S, k < N
      PROVE  k + 1 \in S
  <2>1. k + 1 \in 1..N
    BY <1>1, <1>6
  <2>2. a(k + 1) \in Nat /\ z(k + 1) \in Nat /\ a(k + 1) + z(k + 1) = a((k + 1) + 1)
    BY <1>2, <1>3, <2>1
  <2>3. ASSUME NEW j \in 1..k
        PROVE  a(j) + z(j) <= a((k + 1) + 1)
    <3>1. a(j) + z(j) <= a(k + 1)
      BY <1>6
    <3>2. a(j) \in Nat /\ z(j) \in Nat
      BY <1>1, <1>2
    <3> HIDE DEF a
    <3> QED
      BY <2>2, <3>1, <3>2
  <2> HIDE DEF a
  <2>4. \A j \in 1..k + 1 : a(j) + z(j) <= a((k + 1) + 1)
    BY <2>2, <2>3
  <2> QED
    BY <2>1, <2>4
<1>7. \A k \in 0..N : k \in S
  <2>1. \A k \in 0..N : k \in S /\ k < N => k + 1 \in S
    BY <1>6
  <2> HIDE DEF S
  <2> QED
    BY <1>1, <1>5, <2>1, UpTo
<1>8. ASSUME NEW j \in 1..N, NEW k \in 1..N, j < k
      PROVE  a(j) + z(j) <= a(k)
  <2>1. k - 1 \in 0..N /\ j \in 1..k - 1
    BY <1>1, <1>8
  <2>2. a(j) + z(j) <= a((k - 1) + 1)
    BY <1>7, <2>1
  <2> QED
    BY <2>2
<1>9. ASSUME NEW k \in 1..N
      PROVE  a(k) + z(k) <= end /\ a(k) < end
  <2>1. N \in 0..N /\ k \in 1..N
    BY <1>1
  <2>2. a(k) + z(k) <= a(N + 1)
    BY <1>7, <2>1
  <2>3. a(k) \in Nat /\ z(k) \in Nat /\ z(k) > 0 /\ a(N + 1) = end /\ end \in Nat
    BY <1>2, <1>3, <1>4
  <2> HIDE DEF a
  <2> QED
    BY <2>2, <2>3
<1>10. \A k \in 1..N : a(k) = inf[k].amount
  BY <1>1
<1> HIDE DEF a
<1> QED
  BY <1>8, <1>9, <1>10 DEF N, z

\* init reads a layout back.
LEMMA LayoutReadBack ==
  ASSUME NEW f, NEW n, IsFile(f, n), NEW inf, NEW end, Layout(f, inf, end)
  PROVE  /\ InfosOf(f) = inf /\ Last(Offsets(f)) = end
         /\ Len(Offsets(f)) = Len(inf) + 1
         /\ \A k \in 1..Len(inf) : Offsets(f)[k] = inf[k].amount
<1> DEFINE N == Len(inf)
           o == [k \in 1..N + 1 |-> IF k = N + 1 THEN end ELSE inf[k].amount]
<1>1. N \in Nat /\ N > 0 /\ end \in Nat
  BY LayoutTypes DEF Layout
<1>2. \A k \in 1..N : inf[k].amount \in Nat
  BY LayoutTypes
<1>3. o \in Seq(Nat) /\ Len(o) = N + 1 /\ o # <<>>
  BY <1>1, <1>2
<1>4. o[N + 1] = end /\ \A k \in 1..N : o[k] = inf[k].amount
  BY <1>1
<1> HIDE DEF o
<1>5. o[1] = 0
  BY <1>1, <1>4 DEF Layout
<1>6. ASSUME NEW k \in 1..Len(o) - 1
      PROVE  ~Stops(f, o[k]) /\ o[k + 1] = o[k] + f[o[k]].size
  <2>1. k \in 1..N /\ (k # N => k + 1 \in 1..N)
    BY <1>1, <1>3
  <2>2. o[k + 1] = IF k = N THEN end ELSE inf[k + 1].amount
    BY <1>4, <2>1
  <2>3. inf[k].amount \in DOMAIN f /\ f[inf[k].amount].size > 0
    BY <2>1 DEF Layout
  <2>4. f[inf[k].amount].size \in Nat
    BY <2>1, LayoutTypes
  <2>5. inf[k].amount + f[inf[k].amount].size = o[k + 1]
    BY <2>1, <2>2 DEF Layout
  <2> QED
    BY <1>4, <2>1, <2>3, <2>4, <2>5 DEF Stops
<1>7. Stops(f, o[Len(o)])
  BY <1>3, <1>4 DEF Stops, Layout
<1>8. IsWalk(f, 0, o)
  BY <1>3, <1>5, <1>6, <1>7 DEF IsWalk
<1>9. Offsets(f) = o
  BY <1>8, OffsetsIs
<1>10. Last(Offsets(f)) = end
  BY <1>3, <1>4, <1>9 DEF Last
<1>11. InfosOf(f) = [k \in 1..N |-> [index |-> f[o[k]].index, amount |-> o[k]]]
  BY <1>1, <1>3, <1>9 DEF InfosOf
<1>12. ASSUME NEW k \in 1..N
       PROVE  inf[k] = [index |-> f[o[k]].index, amount |-> o[k]]
  <2>1. inf[k] \in Info
    BY LayoutTypes
  <2>2. inf[k].index = f[o[k]].index /\ inf[k].amount = o[k]
    BY <1>4 DEF Layout
  <2> QED
    BY <2>1, <2>2 DEF Info
<1>13. inf = [k \in 1..N |-> inf[k]]
  BY DEF Layout
<1>14. InfosOf(f) = inf
  BY <1>11, <1>12, <1>13
<1> QED
  BY <1>3, <1>4, <1>9, <1>10, <1>14

\* Whatever is in a file behind a sentry, init makes a layout of it.
LEMMA LoadedLayout ==
  ASSUME NEW f, NEW n, IsFile(f, n), n > 0, f[0] = Sentry
  PROVE  /\ Layout(f, InfosOf(f), Last(Offsets(f)))
         /\ Len(Offsets(f)) = Len(InfosOf(f)) + 1
         /\ \A k \in 1..Len(InfosOf(f)) : Offsets(f)[k] = InfosOf(f)[k].amount
<1> DEFINE o == Offsets(f)
           N == Len(o) - 1
           inf == InfosOf(f)
<1>1. IsWalk(f, 0, o)
  BY OffsetsIs
<1> HIDE DEF o
<1>2. o \in Seq(Nat) /\ o # <<>> /\ o[1] = 0
  BY <1>1 DEF IsWalk
<1>3. Len(o) \in Nat /\ Len(o) > 0 /\ \A k \in 1..Len(o) : o[k] \in Nat
  BY <1>2
<1>4. ~Stops(f, 0)
  BY ConstantWords DEF Stops, IsFile
<1>5. Len(o) \in Nat /\ Len(o) > 1
  <2>1. Stops(f, o[Len(o)]) /\ o[1] = 0
    BY <1>1 DEF IsWalk
  <2>2. Len(o) \in Nat /\ Len(o) > 0
    BY <1>3
  <2> QED
    BY <1>4, <2>1, <2>2
<1>6. N \in Nat /\ N > 0 /\ Len(o) = N + 1
  BY <1>5
<1>7. inf = [k \in 1..N |-> [index |-> f[o[k]].index, amount |-> o[k]]]
  BY DEF InfosOf, o
<1>8. \A k \in 1..N : o[k] \in Nat /\ o[k] \in DOMAIN f /\ f[o[k]].size # 0 /\ o[k + 1] = o[k] + f[o[k]].size
  <2>1. \A k \in 1..N : ~Stops(f, o[k]) /\ o[k + 1] = o[k] + f[o[k]].size
    BY <1>1 DEF IsWalk
  <2>2. \A k \in 1..N : o[k] \in Nat
    BY <1>3, <1>6
  <2> QED
    BY <2>1, <2>2 DEF Stops
<1>9. \A k \in 1..N : f[o[k]].index \in Nat /\ f[o[k]].size \in Nat
  BY <1>8, WordFields DEF IsFile
<1> HIDE DEF N, inf
<1>10. inf \in Seq(Info) /\ Len(inf) = N
  <2>1. \A k \in 1..N : [index |-> f[o[k]].index, amount |-> o[k]] \in Info
    BY <1>8, <1>9 DEF Info
  <2> QED
    BY <1>6, <1>7, <2>1
<1>11. \A k \in 1..N : inf[k].amount = o[k] /\ inf[k].index = f[o[k]].index
  BY <1>7
<1>12. inf[1] = [index |-> 0, amount |-> 0]
  <2>1. inf[1] = [index |-> f[o[1]].index, amount |-> o[1]]
    BY <1>6, <1>7
  <2> QED
    BY <1>2, <2>1, ConstantWords
<1>13. Last(o) = o[N + 1] /\ o[N + 1] \in Nat /\ Stops(f, o[N + 1])
  BY <1>1, <1>3, <1>6 DEF Last, IsWalk
<1>14. ASSUME NEW k \in 1..N
       PROVE  /\ inf[k].amount \in DOMAIN f
              /\ f[inf[k].amount].size > 0 /\ f[inf[k].amount].index = inf[k].index
              /\ inf[k].amount + f[inf[k].amount].size = IF k = N THEN o[N + 1] ELSE inf[k + 1].amount
  <2>1. k # N => k + 1 \in 1..N
    BY <1>6
  <2>2. o[k + 1] = IF k = N THEN o[N + 1] ELSE inf[k + 1].amount
    BY <1>11, <2>1
  <2> QED
    BY <1>8, <1>9, <1>11, <2>2
<1>15. Layout(f, inf, Last(o))
  BY <1>6, <1>10, <1>12, <1>13, <1>14 DEF Layout, Stops
<1> QED
  BY <1>6, <1>10, <1>11, <1>15 DEF o, inf

-----------------------------------------------------------------------------
(***************************************************************************)
(* What the operations do to a layout.                                     *)
(***************************************************************************)
LEMMA MarkIs ==
  ASSUME NEW f, NEW n, IsFile(f, n), NEW pos \in DOMAIN f
  PROVE  /\ IsFile(Mark(f, pos), n) /\ Mark(f, pos)[pos].size = 0
         /\ \A p \in DOMAIN f : p # pos => Mark(f, pos)[p] = f[p]
<1>1. DOMAIN Mark(f, pos) = DOMAIN f /\ Mark(f, pos)[pos] = Zero
  BY DEF Mark
<1>2. \A p \in DOMAIN f : p # pos => Mark(f, pos)[p] = f[p]
  BY DEF Mark
<1>3. \A p \in DOMAIN f : Mark(f, pos)[p] \in Word
  BY <1>1, <1>2, ConstantWords DEF IsFile
<1> QED
  BY <1>1, <1>2, <1>3, ConstantWords DEF IsFile

LEMMA PutIs ==
  ASSUME NEW f, NEW n, IsFile(f, n), NEW pos \in Nat, NEW len \in Nat, NEW ws,
         DOMAIN ws = 1..len, \A k \in 1..len : ws[k] \in Word
  PROVE  /\ IsFile(Put(f, pos, ws), n)
         /\ \A p \in DOMAIN f : p < pos \/ p >= pos + len => Put(f, pos, ws)[p] = f[p]
         /\ \A k \in 1..len : pos + k - 1 \in DOMAIN f => Put(f, pos, ws)[pos + k - 1] = ws[k]
<1>1. DOMAIN f = 0..n - 1 /\ n \in Nat /\ \A p \in DOMAIN f : f[p] \in Word
  BY DEF IsFile
<1>2. DOMAIN Put(f, pos, ws) = DOMAIN f
  BY DEF Put
<1>3. \A p \in DOMAIN f : Put(f, pos, ws)[p] = IF p - pos + 1 \in 1..len THEN ws[p - pos + 1] ELSE f[p]
  BY DEF Put
<1>4. \A p \in DOMAIN f : Put(f, pos, ws)[p] \in Word
  BY <1>1, <1>3
<1>5. \A p \in DOMAIN f : p < pos \/ p >= pos + len => Put(f, pos, ws)[p] = f[p]
  BY <1>1, <1>3
<1>6. ASSUME NEW k \in 1..len, pos + k - 1 \in DOMAIN f
      PROVE  Put(f, pos, ws)[pos + k - 1] = ws[k]
  <2>1. (pos + k - 1) - pos + 1 = k
    OBVIOUS
  <2> QED
    BY <1>3, <1>6, <2>1
<1> QED
  BY <1>1, <1>2, <1>4, <1>5, <1>6 DEF IsFile

LEMMA TruncateIs ==
  ASSUME NEW f, NEW n, IsFile(f, n), NEW m \in Nat
  PROVE  /\ IsFile(Truncate(f, m), m)
         /\ \A p \in DOMAIN f : p < m => Truncate(f, m)[p] = f[p]
<1>1. DOMAIN f = 0..n - 1 /\ n \in Nat /\ \A p \in DOMAIN f : f[p] \in Word
  BY DEF IsFile
<1>2. DOMAIN Truncate(f, m) = 0..m - 1
  BY DEF Truncate
<1>3. \A p \in 0..m - 1 : Truncate(f, m)[p] = IF p \in DOMAIN f THEN f[p] ELSE Zero
  BY DEF Truncate
<1>4. \A p \in 0..m - 1 : Truncate(f, m)[p] \in Word
  BY <1>1, <1>3, ConstantWords
<1>5. \A p \in DOMAIN f : p < m => p \in 0..m - 1
  BY <1>1
<1> QED
  BY <1>2, <1>3, <1>4, <1>5 DEF IsFile

\* New entries behind the last one; es may be empty.
LEMMA LayoutExtend ==
  ASSUME NEW f, NEW n, IsFile(f, n), NEW inf, NEW end, Layout(f, inf, end),
         NEW g, NEW m, IsFile(g, m), NEW es, IsBatch(es),
         \A p \in DOMAIN f : p < end => p \in DOMAIN g /\ g[p] = f[p],
         \A k \in 1..Len(es) : /\ end + SizeUpTo(es)[k - 1] \in DOMAIN g
                               /\ g[end + SizeUpTo(es)[k - 1]] = es[k],
         end + size_bytes(es) \in DOMAIN g => g[end + size_bytes(es)].size = 0
  PROVE  Layout(g, inf \o [k \in DOMAIN es |-> [index |-> es[k].index, amount |-> end + SizeUpTo(es)[k - 1]]],
                end + size_bytes(es))
<1> DEFINE N == Len(inf)
           M == Len(es)
           s == SizeUpTo(es)
           new == [k \in DOMAIN es |-> [index |-> es[k].index, amount |-> end + SizeUpTo(es)[k - 1]]]
           all == inf \o new
<1>1. N \in Nat /\ N > 0 /\ inf \in Seq(Info) /\ end \in Nat /\ inf[1] = [index |-> 0, amount |-> 0]
  BY LayoutTypes DEF Layout
<1>2. M \in Nat /\ DOMAIN es = 1..M /\ \A k \in 1..M : es[k] \in Word
  BY DEF IsBatch
<1>3. /\ s[0] = 0 /\ \A k \in 1..M : s[k] = s[k - 1] + es[k].size
      /\ \A k \in 0..M : s[k] \in Nat
  BY SizeUpToIs
<1>4. size_bytes(es) = s[M]
  BY DEF size_bytes
<1>5. \A k \in 1..M : es[k].index \in Nat /\ es[k].size \in Nat /\ es[k].size > 0
  BY <1>2, WordFields DEF IsBatch
<1>6. new = [k \in 1..M |-> [index |-> es[k].index, amount |-> end + s[k - 1]]]
  BY <1>2
<1>7. \A k \in 1..M : k - 1 \in 0..M
  BY <1>2
<1> HIDE DEF N, M, s, new
<1>8. \A k \in 1..M : [index |-> es[k].index, amount |-> end + s[k - 1]] \in Info
  BY <1>1, <1>3, <1>5, <1>7 DEF Info
<1>9. new \in Seq(Info) /\ Len(new) = M
  BY <1>2, <1>6, <1>8
<1>10. \A k \in 1..M : new[k].index = es[k].index /\ new[k].amount = end + s[k - 1]
  BY <1>6
<1>11. /\ all \in Seq(Info) /\ Len(all) = N + M
       /\ \A k \in 1..N : all[k] = inf[k]
       /\ \A k \in 1..M : all[N + k] = new[k]
  <2>1. inf \in Seq(Info) /\ new \in Seq(Info) /\ Len(inf) = N /\ Len(new) = M
    BY <1>1, <1>9 DEF N
  <2>2. all \in Seq(Info) /\ Joined(all, inf, new)
    BY <2>1, ConcatIs
  <2> HIDE DEF all
  <2> QED
    BY <2>1, <2>2 DEF Joined
<1> HIDE DEF all
<1>12. \A k \in 1..N : /\ inf[k].amount \in DOMAIN g /\ g[inf[k].amount] = f[inf[k].amount]
                       /\ inf[k].amount \in DOMAIN f
  BY LayoutOrder, LayoutTypes DEF N
<1>13. \A k \in 1..N :
         /\ f[inf[k].amount].size > 0 /\ f[inf[k].amount].index = inf[k].index
         /\ inf[k].amount + f[inf[k].amount].size = IF k = N THEN end ELSE inf[k + 1].amount
  BY DEF Layout, N
<1>14. ASSUME NEW k \in 1..N
       PROVE  /\ all[k].amount \in DOMAIN g
              /\ g[all[k].amount].size > 0 /\ g[all[k].amount].index = all[k].index
              /\ all[k].amount + g[all[k].amount].size
                   = IF k = N + M THEN end + s[M] ELSE all[k + 1].amount
  <2>1. all[k] = inf[k]
    BY <1>11
  <2>2. CASE k # N
    <3>1. k + 1 \in 1..N /\ k # N + M
      BY <1>1, <1>2, <2>2
    <3>2. all[k + 1] = inf[k + 1]
      BY <1>11, <3>1
    <3> QED
      BY <1>12, <1>13, <2>1, <2>2, <3>1, <3>2
  <2>3. CASE k = N /\ M = 0
    BY <1>1, <1>3, <1>12, <1>13, <2>1, <2>3
  <2>4. CASE k = N /\ M # 0
    <3>1. 1 \in 1..M /\ k # N + M
      BY <1>1, <1>2, <2>4
    <3>2. all[N + 1] = new[1] /\ new[1].amount = end + s[0]
      BY <1>10, <1>11, <3>1
    <3> QED
      BY <1>1, <1>3, <1>12, <1>13, <2>1, <2>4, <3>1, <3>2
  <2> QED
    BY <2>2, <2>3, <2>4
<1>15. ASSUME NEW k \in 1..M
       PROVE  /\ all[N + k].amount \in DOMAIN g
              /\ g[all[N + k].amount].size > 0 /\ g[all[N + k].amount].index = all[N + k].index
              /\ all[N + k].amount + g[all[N + k].amount].size
                   = IF N + k = N + M THEN end + s[M] ELSE all[(N + k) + 1].amount
  <2>1. all[N + k].amount = end + s[k - 1] /\ all[N + k].index = es[k].index
    BY <1>10, <1>11
  <2>2. end + s[k - 1] \in DOMAIN g /\ g[end + s[k - 1]] = es[k]
    BY DEF s, M
  <2>3. s[k] = s[k - 1] + es[k].size /\ s[k] \in Nat /\ s[k - 1] \in Nat
    BY <1>2, <1>3, <1>7
  <2>4. k # M => k + 1 \in 1..M
    BY <1>2
  <2>5. k # M => all[N + (k + 1)].amount = end + s[(k + 1) - 1]
    BY <1>10, <1>11, <2>4
  <2>6. k # M => all[(N + k) + 1].amount = end + s[k]
    BY <1>1, <2>5
  <2>7. (N + k = N + M) <=> k = M
    BY <1>1, <1>2
  <2>8. end + s[k - 1] + es[k].size = end + s[k]
    BY <1>1, <1>5, <2>3
  <2> QED
    BY <1>5, <2>1, <2>2, <2>6, <2>7, <2>8
<1>16. \A k \in 1..N + M : k \in 1..N \/ (k - N \in 1..M /\ k = N + (k - N))
  BY <1>1, <1>2
<1>17. \A k \in 1..N + M :
         /\ all[k].amount \in DOMAIN g
         /\ g[all[k].amount].size > 0 /\ g[all[k].amount].index = all[k].index
         /\ all[k].amount + g[all[k].amount].size
              = IF k = N + M THEN end + s[M] ELSE all[k + 1].amount
  BY <1>14, <1>15, <1>16
<1>18. all[1] = [index |-> 0, amount |-> 0] /\ N + M > 0 /\ end + s[M] \in Nat
  BY <1>1, <1>2, <1>3, <1>11
<1>19. Layout(g, all, end + s[M])
  BY <1>4, <1>11, <1>17, <1>18 DEF Layout
<1> QED
  BY <1>4, <1>19 DEF all, new

\* A layout does not depend on what is behind its end.
LEMMA LayoutKept ==
  ASSUME NEW f, NEW n, IsFile(f, n), NEW inf, NEW end, Layout(f, inf, end),
         NEW g, NEW m, IsFile(g, m),
         \A p \in DOMAIN f : p < end => p \in DOMAIN g /\ g[p] = f[p],
         end \in DOMAIN g => g[end].size = 0
  PROVE  Layout(g, inf, end)
<1>1. \A k \in 1..Len(inf) : /\ inf[k].amount \in DOMAIN g /\ g[inf[k].amount] = f[inf[k].amount]
                             /\ inf[k].amount \in DOMAIN f
  BY LayoutOrder, LayoutTypes
<1> QED
  BY <1>1 DEF Layout

\* chop: the end marker in place of the m-th entry.
LEMMA LayoutChop ==
  ASSUME NEW f, NEW n, IsFile(f, n), NEW inf, NEW end, Layout(f, inf, end), NEW m \in 2..Len(inf)
  PROVE  /\ Layout(Mark(f, inf[m].amount), SubSeq(inf, 1, m - 1), inf[m].amount)
         /\ \A k \in 1..m - 1 : Mark(f, inf[m].amount)[inf[k].amount] = f[inf[k].amount]
<1> DEFINE pos == inf[m].amount
           g == Mark(f, pos)
           kept == SubSeq(inf, 1, m - 1)
<1>1. /\ Len(inf) \in Nat /\ inf \in Seq(Info) /\ m \in 1..Len(inf) /\ m - 1 \in 1..Len(inf) /\ m - 1 > 0
      /\ m - 1 < Len(inf)
  BY LayoutTypes DEF Layout
<1>2. pos \in DOMAIN f /\ pos \in Nat
  BY <1>1, LayoutTypes
<1>3. IsFile(g, n) /\ g[pos].size = 0 /\ \A p \in DOMAIN f : p # pos => g[p] = f[p]
  BY <1>2, MarkIs
<1>4. kept \in Seq(Info) /\ Len(kept) = m - 1 /\ \A k \in 1..m - 1 : kept[k] = inf[k]
  BY <1>1
<1>5. ASSUME NEW k \in 1..m - 1
      PROVE  k \in 1..Len(inf) /\ inf[k].amount \in DOMAIN f /\ inf[k].amount # pos
  <2>1. k \in 1..Len(inf) /\ k < m
    BY <1>1
  <2>2. inf[k].amount + f[inf[k].amount].size <= pos
    BY <1>1, <2>1, LayoutOrder
  <2>3. f[inf[k].amount].size > 0 /\ f[inf[k].amount].size \in Nat /\ inf[k].amount \in Nat /\ inf[k].amount \in DOMAIN f
    BY SMTT(30), <2>1, LayoutTypes DEF Layout
  <2> QED
    BY <1>2, <2>1, <2>2, <2>3
<1> HIDE DEF g, kept
<1>6. \A k \in 1..m - 1 : g[inf[k].amount] = f[inf[k].amount]
  BY <1>3, <1>5
<1>7. DOMAIN g = DOMAIN f
  BY <1>3 DEF IsFile
<1>8. ASSUME NEW k \in 1..m - 1
      PROVE  /\ kept[k].amount \in DOMAIN g
             /\ g[kept[k].amount].size > 0 /\ g[kept[k].amount].index = kept[k].index
             /\ kept[k].amount + g[kept[k].amount].size = IF k = m - 1 THEN pos ELSE kept[k + 1].amount
  <2>1. k # Len(inf) /\ (k # m - 1 => k + 1 \in 1..m - 1) /\ (k = m - 1 => k + 1 = m)
    BY <1>1
  <2>2. kept[k] = inf[k] /\ (k # m - 1 => kept[k + 1] = inf[k + 1])
    BY <1>4, <2>1
  <2>3. /\ f[inf[k].amount].size > 0 /\ f[inf[k].amount].index = inf[k].index
        /\ inf[k].amount + f[inf[k].amount].size = inf[k + 1].amount
    BY <1>5, <2>1 DEF Layout
  <2> QED
    BY <1>5, <1>6, <1>7, <2>1, <2>2, <2>3
<1>9. kept[1] = [index |-> 0, amount |-> 0]
  BY <1>1, <1>4 DEF Layout
<1>10. Layout(g, kept, pos)
  BY <1>1, <1>2, <1>3, <1>4, <1>8, <1>9 DEF Layout
<1> QED
  BY <1>6, <1>10 DEF g, kept

LEMMA MoveIs ==
  ASSUME NEW f, NEW n, IsFile(f, n), NEW first \in Nat, NEW begin \in Nat, NEW end \in Nat,
         begin <= end, end <= n
  PROVE  /\ IsFile(Move(f, first, begin, end - begin), n)
         /\ \A p \in DOMAIN f : p < first => Move(f, first, begin, end - begin)[p] = f[p]
         /\ \A p \in begin..end - 1 : p - begin + first \in DOMAIN f =>
              Move(f, first, begin, end - begin)[p - begin + first] = f[p]
<1> DEFINE g == Move(f, first, begin, end - begin)
<1>1. n \in Nat /\ DOMAIN f = 0..n - 1 /\ \A p \in DOMAIN f : f[p] \in Word
  BY DEF IsFile
<1>2. DOMAIN g = DOMAIN f
  BY DEF Move
<1>3. \A p \in DOMAIN f : g[p] = IF p \in first..first + (end - begin) - 1 THEN f[p - first + begin] ELSE f[p]
  BY DEF Move
<1> HIDE DEF g
<1>4. \A p \in DOMAIN f : p \in first..first + (end - begin) - 1 => p - first + begin \in DOMAIN f
  BY <1>1
<1>5. \A p \in DOMAIN f : g[p] \in Word
  BY <1>1, <1>3, <1>4
<1>6. \A p \in DOMAIN f : p < first => g[p] = f[p]
  BY <1>1, <1>3
<1>7. ASSUME NEW p \in begin..end - 1, p - begin + first \in DOMAIN f
      PROVE  g[p - begin + first] = f[p]
  <2>1. p - begin + first \in first..first + (end - begin) - 1 /\ (p - begin + first) - first + begin = p
    OBVIOUS
  <2> QED
    BY <1>3, <1>7, <2>1
<1>8. IsFile(g, n)
  BY <1>1, <1>2, <1>5 DEF IsFile
<1> QED
  BY <1>6, <1>7, <1>8 DEF g

\* The table after drop.
MovesTo(inf, m, dropped, moved) ==
  /\ moved \in Seq(Info) /\ Len(moved) = Len(inf) - m + 1 /\ moved[1] = inf[1]
  /\ \A k \in 2..Len(moved) : /\ moved[k].index = inf[k + m - 1].index
                              /\ moved[k].amount = inf[k + m - 1].amount - dropped

\* drop: the entries from the m + 1st on move to where the second was, which makes g of
\* the file; moved is the table of where they are then.
DropsTo(f, inf, end, m, dropped, g, moved) ==
  /\ end \in DOMAIN f /\ m \in 2..Len(inf) - 1
  /\ dropped = inf[m + 1].amount - inf[2].amount
  /\ g = Mark(Move(f, inf[2].amount, inf[m + 1].amount, end - inf[m + 1].amount), end - dropped)
  /\ MovesTo(inf, m, dropped, moved)

LEMMA LayoutDrop ==
  ASSUME NEW f, NEW n, IsFile(f, n), NEW inf, NEW end, Layout(f, inf, end),
         NEW m, NEW dropped, NEW g, NEW moved, DropsTo(f, inf, end, m, dropped, g, moved)
  PROVE  /\ IsFile(g, n) /\ Layout(g, moved, end - dropped) /\ end - dropped <= end
         /\ g[0] = f[0]
         /\ \A k \in 2..Len(moved) : g[moved[k].amount] = f[inf[k + m - 1].amount]
<1> DEFINE N == Len(inf)
           M == Len(moved)
           first == inf[2].amount
           begin == inf[m + 1].amount
           h == Move(f, first, begin, end - begin)
           pos == end - dropped
<1>1. N \in Nat /\ m \in 2..N - 1 /\ M = N - m + 1 /\ M \in Nat /\ M >= 2 /\ n \in Nat /\ DOMAIN f = 0..n - 1
  <2>1. N \in Nat
    BY LayoutTypes
  <2>2. m \in 2..N - 1 /\ M = N - m + 1
    BY DEF DropsTo, MovesTo
  <2> HIDE DEF N, M
  <2> QED
    BY <2>1, <2>2 DEF IsFile
<1>2. /\ end \in Nat /\ end < n
      /\ \A k \in 1..N : /\ inf[k].amount \in Nat /\ inf[k].amount \in DOMAIN f
                         /\ f[inf[k].amount].size \in Nat /\ f[inf[k].amount].size > 0
                         /\ f[inf[k].amount].index = inf[k].index
                         /\ inf[k].amount + f[inf[k].amount].size = IF k = N THEN end ELSE inf[k + 1].amount
                         /\ inf[k].amount < end
  <2>1. end \in Nat /\ end < n
    <3>1. end \in Nat /\ end \in DOMAIN f
      BY DEF Layout, DropsTo, MovesTo
    <3> HIDE DEF N, M
    <3> QED
      BY <1>1, <3>1
  <2>2. \A k \in 1..N : inf[k].amount \in Nat /\ inf[k].amount \in DOMAIN f /\ f[inf[k].amount].size \in Nat
    BY LayoutTypes
  <2>3. \A k \in 1..N : inf[k].amount < end
    BY LayoutOrder
  <2> QED
    BY <2>1, <2>2, <2>3 DEF Layout
<1>3. inf[1].amount = 0
  BY DEF Layout
<1>4. \A j, k \in 1..N : j < k => inf[j].amount < inf[k].amount
  <2>1. \A j, k \in 1..N : j < k => inf[j].amount + f[inf[j].amount].size <= inf[k].amount
    BY LayoutOrder
  <2>2. ASSUME NEW j \in 1..N, NEW k \in 1..N, j < k
        PROVE  inf[j].amount < inf[k].amount
    <3>1. inf[j].amount + f[inf[j].amount].size <= inf[k].amount
      BY <2>1, <2>2
    <3>2. /\ inf[j].amount \in Nat /\ inf[k].amount \in Nat
          /\ f[inf[j].amount].size \in Nat /\ f[inf[j].amount].size > 0
      BY <1>2
    <3> QED
      BY <3>1, <3>2
  <2> QED
    BY <2>2
<1>5. /\ first \in Nat /\ begin \in Nat /\ first < begin /\ begin < end
      /\ f[0].size \in Nat /\ f[0].size > 0 /\ f[0].size = first
  <2>1. 1 \in 1..N /\ 2 \in 1..N /\ m + 1 \in 1..N /\ 2 < m + 1 /\ 1 # N /\ 1 + 1 = 2
    <3> HIDE DEF N, M
    <3> QED
      BY <1>1
  <2>2. f[0].size \in Nat /\ f[0].size > 0 /\ 0 + f[0].size = first
    BY <1>2, <1>3, <2>1
  <2> QED
    BY <1>2, <1>4, <2>1, <2>2
<1>6. dropped = begin - first /\ dropped \in Nat /\ pos = first + (end - begin)
  <2>1. dropped = begin - first
    BY DEF DropsTo, MovesTo
  <2> HIDE DEF begin, first
  <2> QED
    BY <1>2, <1>5, <2>1
<1>7. pos \in DOMAIN f /\ pos <= end /\ first <= pos /\ pos \in Nat
  <2> HIDE DEF begin, first, pos
  <2> QED
    BY <1>1, <1>2, <1>5, <1>6
<1>8. g = Mark(h, pos)
  BY DEF DropsTo, MovesTo
<1> HIDE DEF N, M, first, begin, h, pos
<1>9. /\ IsFile(h, n)
      /\ \A p \in DOMAIN f : p < first => h[p] = f[p]
      /\ \A p \in begin..end - 1 : p - begin + first \in DOMAIN f => h[p - begin + first] = f[p]
  <2>1. begin <= end /\ end <= n /\ first \in Nat /\ begin \in Nat /\ end \in Nat
    BY <1>1, <1>2, <1>5
  <2> QED
    BY <2>1, MoveIs DEF h
<1>10. DOMAIN h = DOMAIN f
  BY <1>1, <1>9 DEF IsFile
<1>11. IsFile(g, n) /\ g[pos].size = 0 /\ \A p \in DOMAIN f : p # pos => g[p] = h[p]
  BY <1>7, <1>8, <1>9, <1>10, MarkIs
<1>12. DOMAIN g = DOMAIN f
  BY <1>1, <1>11 DEF IsFile
<1>13. g[0] = f[0] /\ 0 \in DOMAIN f
  <2>1. 0 \in DOMAIN f /\ 0 < first /\ 0 # pos
    BY <1>1, <1>2, <1>5, <1>7
  <2> QED
    BY <1>9, <1>11, <2>1
<1>14. ASSUME NEW k \in 2..M
       PROVE  /\ k + m - 1 \in 1..N /\ (k = M <=> k + m - 1 = N)
              /\ (k # M => k + 1 \in 2..M /\ (k + 1) + m - 1 = (k + m - 1) + 1)
              /\ moved[k].amount \in DOMAIN f
              /\ g[moved[k].amount] = f[inf[k + m - 1].amount]
              /\ moved[k].amount = inf[k + m - 1].amount - dropped
              /\ moved[k].index = inf[k + m - 1].index
  <2> DEFINE j == k + m - 1
             a == inf[j].amount
  <2>1. j \in 1..N /\ (k = M <=> j = N) /\ (k # M => k + 1 \in 2..M /\ (k + 1) + m - 1 = j + 1) /\ (j = m + 1 \/ m + 1 < j)
    BY <1>1
  <2>2. moved[k].amount = a - dropped /\ moved[k].index = inf[j].index
    BY DEF M, DropsTo, MovesTo
  <2>3. m + 1 \in 1..N
    BY <1>1
  <2> HIDE DEF j
  <2>4. a \in Nat /\ a < end /\ begin <= a
    BY <1>2, <1>4, <2>1, <2>3 DEF begin
  <2> HIDE DEF a
  <2>5. a \in begin..end - 1 /\ a - dropped = a - begin + first /\ a - dropped \in DOMAIN f /\ a - dropped # pos
    BY <1>1, <1>2, <1>5, <1>6, <2>4 DEF pos
  <2>6. g[a - dropped] = f[a]
    BY <1>9, <1>11, <2>5
  <2> QED
    BY <2>1, <2>2, <2>5, <2>6 DEF j, a
<1>15. moved[1].amount = 0 /\ moved[1].index = inf[1].index /\ moved[1] = [index |-> 0, amount |-> 0]
  BY <1>3 DEF Layout, DropsTo, MovesTo
<1>16. ASSUME NEW k \in 1..M
       PROVE  /\ moved[k].amount \in DOMAIN g
              /\ g[moved[k].amount].size > 0 /\ g[moved[k].amount].index = moved[k].index
              /\ moved[k].amount + g[moved[k].amount].size = IF k = M THEN pos ELSE moved[k + 1].amount
  <2>1. CASE k = 1
    <3>1. k # M /\ k + 1 = 2 /\ 2 \in 2..M
      BY <1>1, <2>1
    <3>2. moved[2].amount = inf[2 + m - 1].amount - dropped /\ 2 + m - 1 = m + 1
      BY <1>1, <1>14, <3>1
    <3>3. moved[2].amount = first
      BY <1>5, <1>6, <3>2 DEF begin
    <3>4. 1 \in 1..N
      BY <1>1
    <3>5. f[0].index = inf[1].index
      BY <1>2, <1>3, <3>4
    <3> QED
      BY <1>5, <1>12, <1>13, <1>15, <2>1, <3>1, <3>3, <3>5
  <2>2. CASE k # 1
    <3>1. k \in 2..M
      BY <1>1, <2>2
    <3> DEFINE j == k + m - 1
    <3>2. /\ j \in 1..N /\ (k = M <=> j = N)
          /\ (k # M => k + 1 \in 2..M /\ (k + 1) + m - 1 = j + 1)
          /\ moved[k].amount \in DOMAIN f
          /\ g[moved[k].amount] = f[inf[j].amount]
          /\ moved[k].amount = inf[j].amount - dropped
          /\ moved[k].index = inf[j].index
      BY <1>14, <3>1
    <3>3. k # M => moved[k + 1].amount = inf[(k + 1) + m - 1].amount - dropped
      BY <1>14, <3>2
    <3> HIDE DEF j
    <3>4. k # M => moved[k + 1].amount = inf[j + 1].amount - dropped
      BY <3>2, <3>3
    <3>5. k # M => inf[j + 1].amount \in Nat
      BY <1>2, <3>2
    <3>6. /\ f[inf[j].amount].size \in Nat /\ f[inf[j].amount].size > 0 /\ inf[j].amount \in Nat
          /\ f[inf[j].amount].index = inf[j].index
          /\ inf[j].amount + f[inf[j].amount].size = IF j = N THEN end ELSE inf[j + 1].amount
      BY <1>2, <3>2
    <3> QED
      BY <1>2, <1>6, <1>12, <3>2, <3>4, <3>5, <3>6 DEF pos
  <2> QED
    BY <2>1, <2>2
<1>17. Layout(g, moved, pos)
  <2>1. moved \in Seq(Info) /\ Len(moved) = M
    BY DEF DropsTo, MovesTo, M
  <2>2. M > 0
    BY <1>1
  <2> QED
    BY <1>7, <1>11, <1>15, <1>16, <2>1, <2>2 DEF Layout
<1> QED
  BY <1>7, <1>11, <1>13, <1>14, <1>17 DEF pos, M


-----------------------------------------------------------------------------
(***************************************************************************)
(* The entries of the log, wherever they are in the file: their indices    *)
(* and their configurations.                                               *)
(***************************************************************************)
\* The first words of the entries, the sentry's included.
Heads(f, inf) == [k \in 1..Len(inf) |-> f[inf[k].amount]]

\* IsCfgWithin, of heads.
CfgWithin(hd, last, i, n) == i <= last \/ (i - last + 1 \in 2..n /\ hd[i - last + 1].cfg)

\* n heads behind last are numbered, and those of configurations are linked from cfg on.
Numbered(hd, n, last, cfg) ==
  /\ \A k \in 2..n :
       /\ hd[k].index = last + k - 1 /\ hd[k].prev < hd[k].index
       /\ hd[k].cfg => hd[k].data \in Config /\ CfgWithin(hd, last, hd[k].prev, k - 1)
  /\ CfgWithin(hd, last, cfg, n)

LEMMA HeadsAre ==
  ASSUME NEW f, NEW n, IsFile(f, n), NEW inf, NEW end, Layout(f, inf, end)
  PROVE  /\ Len(inf) \in Nat /\ Len(inf) > 0
         /\ \A k \in 1..Len(inf) :
              /\ Heads(f, inf)[k] = f[inf[k].amount]
              /\ Heads(f, inf)[k] \in Word
              /\ Heads(f, inf)[k].index = inf[k].index
              /\ Heads(f, inf)[k].index \in Nat /\ Heads(f, inf)[k].prev \in Nat
<1>1. Len(inf) \in Nat /\ Len(inf) > 0
  BY LayoutTypes DEF Layout
<1>2. ASSUME NEW k \in 1..Len(inf)
      PROVE  /\ Heads(f, inf)[k] = f[inf[k].amount]
             /\ Heads(f, inf)[k] \in Word
             /\ Heads(f, inf)[k].index = inf[k].index
             /\ Heads(f, inf)[k].index \in Nat /\ Heads(f, inf)[k].prev \in Nat
  <2>1. Heads(f, inf)[k] = f[inf[k].amount]
    BY DEF Heads
  <2>2. Heads(f, inf)[k] \in Word
    BY <2>1, LayoutTypes
  <2>3. Heads(f, inf)[k].index = inf[k].index
    BY <2>1 DEF Layout
  <2> QED
    BY <2>1, <2>2, <2>3, WordFields
<1> QED
  BY <1>1, <1>2

\* append, of m entries es that continue the numbers and link their configurations to cfg.
Continues(hd, n, last, cfg, es, m, new, c) ==
  /\ \A k \in 1..n : new[k] = hd[k]
  /\ \A k \in 1..m : /\ new[n + k] = es[k]
                     /\ es[k].index = last + n - 1 + k /\ es[k].prev < es[k].index
                     /\ es[k].cfg => es[k].data \in Config /\ es[k].prev = cfg
  /\ c = cfg \/ \E k \in 1..m : es[k].cfg /\ c = es[k].index

LEMMA NumberedExtend ==
  ASSUME NEW hd, NEW n \in Nat, n > 0, NEW last \in Nat, NEW cfg \in Nat, Numbered(hd, n, last, cfg),
         NEW es, NEW m \in Nat, NEW new, NEW c \in Nat, Continues(hd, n, last, cfg, es, m, new, c)
  PROVE  Numbered(new, n + m, last, c)
<1>10. \A k \in 1..n : new[k] = hd[k]
  BY DEF Continues
<1>11. \A k \in 1..m : /\ new[n + k] = es[k]
                       /\ es[k].index = last + n - 1 + k /\ es[k].prev < es[k].index
                       /\ es[k].cfg => es[k].data \in Config /\ es[k].prev = cfg
  BY DEF Continues
<1>12. c = cfg \/ \E k \in 1..m : es[k].cfg /\ c = es[k].index
  BY DEF Continues
<1>1. \A k \in 2..n : /\ new[k] = hd[k]
                      /\ hd[k].index = last + k - 1 /\ hd[k].prev < hd[k].index
                      /\ hd[k].cfg => hd[k].data \in Config /\ CfgWithin(hd, last, hd[k].prev, k - 1)
  BY <1>10 DEF Numbered
<1>2. CfgWithin(hd, last, cfg, n)
  BY DEF Numbered
<1>3. ASSUME NEW i, NEW k \in 1..n, CfgWithin(hd, last, i, k)
      PROVE  CfgWithin(new, last, i, k)
  BY <1>10, <1>1, <1>3 DEF CfgWithin
<1>4. ASSUME NEW k \in n..n + m
      PROVE  CfgWithin(new, last, cfg, k)
  <2>1. CfgWithin(new, last, cfg, n)
    BY <1>2, <1>3
  <2>2. CASE cfg <= last
    BY <2>2 DEF CfgWithin
  <2>3. CASE ~(cfg <= last)
    <3>1. cfg - last + 1 \in 2..n /\ new[cfg - last + 1].cfg
      BY <2>1, <2>3 DEF CfgWithin
    <3>2. cfg - last + 1 \in 2..k
      BY <3>1
    <3> QED
      BY <3>1, <3>2 DEF CfgWithin
  <2> QED
    BY <2>2, <2>3
<1>5. ASSUME NEW k \in 2..n
      PROVE  /\ new[k].index = last + k - 1 /\ new[k].prev < new[k].index
             /\ new[k].cfg => new[k].data \in Config /\ CfgWithin(new, last, new[k].prev, k - 1)
  <2>1. k - 1 \in 1..n
    OBVIOUS
  <2> QED
    BY <1>1, <1>3, <2>1
<1>6. ASSUME NEW j \in 1..m
      PROVE  /\ new[n + j].index = last + (n + j) - 1 /\ new[n + j].prev < new[n + j].index
             /\ new[n + j].cfg => new[n + j].data \in Config /\ CfgWithin(new, last, new[n + j].prev, (n + j) - 1)
  <2>1. (n + j) - 1 \in n..n + m
    OBVIOUS
  <2>2. CfgWithin(new, last, cfg, (n + j) - 1)
    BY <1>4, <2>1
  <2>3. new[n + j] = es[j] /\ es[j].index = last + (n + j) - 1
    BY <1>11
  <2> QED
    BY <1>11, <2>2, <2>3
<1>7. \A k \in 2..n + m : k \in 2..n \/ (k - n \in 1..m /\ k = n + (k - n))
  OBVIOUS
<1>8. CfgWithin(new, last, c, n + m)
  <2>1. CASE c = cfg
    BY <1>4, <2>1
  <2>2. CASE c # cfg
    <3>1. PICK k \in 1..m : es[k].cfg /\ c = es[k].index
      BY <1>12, <2>2
    <3>2. c - last + 1 = n + k /\ n + k \in 2..n + m /\ new[n + k].cfg
      BY <1>11, <3>1
    <3> QED
      BY <3>2 DEF CfgWithin
  <2> QED
    BY <2>1, <2>2
<1>9. \A k \in 2..n + m :
        /\ new[k].index = last + k - 1 /\ new[k].prev < new[k].index
        /\ new[k].cfg => new[k].data \in Config /\ CfgWithin(new, last, new[k].prev, k - 1)
  BY <1>5, <1>6, <1>7
<1> QED
  BY <1>8, <1>9 DEF Numbered

\* chop, and the configuration c that it finds.
LEMMA NumberedChop ==
  ASSUME NEW hd, NEW n \in Nat, NEW last \in Nat, NEW cfg \in Nat, Numbered(hd, n, last, cfg),
         NEW m \in 1..n, NEW new, \A k \in 1..m : new[k] = hd[k],
         NEW c \in Nat, CfgWithin(hd, last, c, m)
  PROVE  Numbered(new, m, last, c)
<1>1. ASSUME NEW i, NEW k \in 1..m, CfgWithin(hd, last, i, k)
      PROVE  CfgWithin(new, last, i, k)
  BY <1>1 DEF CfgWithin
<1>2. ASSUME NEW k \in 2..m
      PROVE  /\ new[k].index = last + k - 1 /\ new[k].prev < new[k].index
             /\ new[k].cfg => new[k].data \in Config /\ CfgWithin(new, last, new[k].prev, k - 1)
  <2>1. k \in 2..n /\ k - 1 \in 1..m /\ new[k] = hd[k]
    OBVIOUS
  <2>2. /\ hd[k].index = last + k - 1 /\ hd[k].prev < hd[k].index
        /\ hd[k].cfg => hd[k].data \in Config /\ CfgWithin(hd, last, hd[k].prev, k - 1)
    BY <2>1 DEF Numbered
  <2> QED
    BY <1>1, <2>1, <2>2
<1>3. CfgWithin(new, last, c, m)
  BY <1>1
<1> QED
  BY <1>2, <1>3 DEF Numbered

\* drop, of the heads up to the m-th.
LEMMA NumberedDrop ==
  ASSUME NEW hd, NEW n \in Nat, NEW last \in Nat, NEW cfg \in Nat, Numbered(hd, n, last, cfg),
         \A k \in 1..n : hd[k].prev \in Nat,
         NEW m \in 1..n, NEW new, \A k \in 2..n - m + 1 : new[k] = hd[k + m - 1],
         NEW c, c = IF last + m - 1 >= cfg THEN 0 ELSE cfg
  PROVE  Numbered(new, n - m + 1, last + m - 1, c)
<1> DEFINE low == last + m - 1
<1>1. ASSUME NEW i \in Nat, NEW k \in 1..n - m + 1, CfgWithin(hd, last, i, k + m - 1)
      PROVE  CfgWithin(new, low, i, k)
  <2>1. CASE i <= low
    BY <2>1 DEF CfgWithin
  <2>2. CASE ~(i <= low)
    <3>1. i - last + 1 \in 2..k + m - 1 /\ hd[i - last + 1].cfg
      BY <1>1, <2>2 DEF CfgWithin
    <3>2. i - low + 1 \in 2..k /\ i - low + 1 \in 2..n - m + 1 /\ (i - low + 1) + m - 1 = i - last + 1
      BY <2>2, <3>1
    <3>3. new[i - low + 1] = hd[i - last + 1]
      BY <3>2
    <3> QED
      BY <3>1, <3>2, <3>3 DEF CfgWithin
  <2> QED
    BY <2>1, <2>2
<1>2. ASSUME NEW k \in 2..n - m + 1
      PROVE  /\ new[k].index = low + k - 1 /\ new[k].prev < new[k].index
             /\ new[k].cfg => new[k].data \in Config /\ CfgWithin(new, low, new[k].prev, k - 1)
  <2>1. k + m - 1 \in 2..n /\ k + m - 1 \in 1..n /\ k - 1 \in 1..n - m + 1 /\ new[k] = hd[k + m - 1]
        /\ (k - 1) + m - 1 = (k + m - 1) - 1 /\ last + (k + m - 1) - 1 = low + k - 1
    OBVIOUS
  <2>2. /\ hd[k + m - 1].index = last + (k + m - 1) - 1 /\ hd[k + m - 1].prev < hd[k + m - 1].index
        /\ hd[k + m - 1].cfg => /\ hd[k + m - 1].data \in Config
                                /\ CfgWithin(hd, last, hd[k + m - 1].prev, (k + m - 1) - 1)
    BY <2>1 DEF Numbered
  <2>3. hd[k + m - 1].prev \in Nat
    BY <2>1
  <2>4. hd[k + m - 1].cfg => CfgWithin(new, low, hd[k + m - 1].prev, k - 1)
    <3>1. CfgWithin(hd, last, hd[k + m - 1].prev, (k + m - 1) - 1)
             <=> CfgWithin(hd, last, hd[k + m - 1].prev, (k - 1) + m - 1)
      BY <2>1
    <3> HIDE DEF low
    <3> QED
      BY <1>1, <2>1, <2>2, <2>3, <3>1
  <2> QED
    BY <2>1, <2>2, <2>4
<1>3. CfgWithin(new, low, c, n - m + 1)
  <2>1. CASE low >= cfg
    BY <2>1 DEF CfgWithin
  <2>2. CASE ~(low >= cfg)
    <3>1. CfgWithin(hd, last, cfg, n) /\ n - m + 1 \in 1..n - m + 1 /\ (n - m + 1) + m - 1 = n /\ c = cfg
      BY <2>2 DEF Numbered
    <3> HIDE DEF low
    <3> QED
      BY <1>1, <3>1
  <2> QED
    BY <2>1, <2>2
<1> QED
  BY <1>2, <1>3 DEF Numbered


-----------------------------------------------------------------------------
(***************************************************************************)
(* FileInv with TypeOK, in the terms of the lemmas above.                  *)
(***************************************************************************)
heads == Heads(file, infos)

IndInv ==
  /\ \E n : IsFile(file, n) /\ ldbs_size <= n
  /\ ldbs_size \in Nat /\ PageSize <= ldbs_size
  /\ Layout(file, infos, payload_size) /\ file[0] = Sentry
  /\ last_index \in Nat /\ last_term \in Nat /\ last_config \in Config \cup {NoConfig}
  /\ cfg_entry_index \in Nat
  /\ mapped \in BOOLEAN /\ rc \in {"GOOD", "ERROR"} /\ torn \in BOOLEAN
  /\ ~torn => payload_size < ldbs_size /\ Numbered(heads, Len(infos), last_index, cfg_entry_index)

LEMMA FileSize ==
  ASSUME NEW f, NEW n, IsFile(f, n)
  PROVE  IsFiniteSet(DOMAIN f) /\ Cardinality(DOMAIN f) = n
<1>1. n \in Nat /\ DOMAIN f = 0..n - 1
  BY DEF IsFile
<1>2. IsFiniteSet(0..n - 1) /\ Cardinality(0..n - 1) = IF 0 > n - 1 THEN 0 ELSE (n - 1) - 0 + 1
  BY <1>1, FS_Interval
<1> QED
  BY <1>1, <1>2

\* The two forms of the invariant are the same.
LEMMA IndInvIs == (TypeOK /\ FileInv) <=> (IndInv /\ asked \in Request)
<1>1. ASSUME TypeOK, FileInv
      PROVE  IndInv /\ asked \in Request
  <2> DEFINE N == Cardinality(DOMAIN file)
  <2>1. N \in Nat
    BY <1>1, FS_CardinalityType DEF TypeOK
  <2>2. IsFile(file, N) /\ ldbs_size <= N
    BY <1>1, <2>1 DEF IsFile, TypeOK, FileInv
  <2> HIDE DEF N
  <2>3. infos \in Seq(Info) /\ Len(infos) \in Nat /\ DOMAIN infos = 1..Len(infos)
    BY <1>1 DEF TypeOK, Info
  <2>4. Len(infos) > 0
    BY <1>1, <2>3 DEF TypeOK
  <2>5. Layout(file, infos, payload_size)
    BY <1>1, <2>3, <2>4 DEF Layout, TypeOK, FileInv, HeadOf
  <2>6. \A k \in 1..Len(infos) : heads[k] = HeadOf(k) /\ heads[k].index = infos[k].index /\ heads[k].prev \in Nat
    BY <2>2, <2>5, HeadsAre DEF heads, HeadOf
  <2> HIDE DEF heads
  <2>7. last_index \in Nat
    BY <1>1 DEF TypeOK
  <2>8. ASSUME NEW i, NEW n \in 0..Len(infos), IsCfgWithin(i, n)
        PROVE  CfgWithin(heads, last_index, i, n)
    <3>1. CASE i <= last_index
      BY <3>1 DEF CfgWithin
    <3>2. CASE ~(i <= last_index)
      <4>1. i - last_index + 1 \in 2..n /\ HeadOf(i - last_index + 1).cfg
        BY <2>8, <3>2 DEF IsCfgWithin
      <4>2. i - last_index + 1 \in 1..Len(infos)
        BY <2>3, <4>1
      <4>3. heads[i - last_index + 1].cfg
        BY <2>6, <4>1, <4>2
      <4> QED
        BY <4>1, <4>3 DEF CfgWithin
    <3> QED
      BY <3>1, <3>2
  <2>9. ASSUME ~torn
        PROVE  Numbered(heads, Len(infos), last_index, cfg_entry_index)
    <3>1. ASSUME NEW k \in 2..Len(infos)
          PROVE  /\ heads[k].index = last_index + k - 1 /\ heads[k].prev < heads[k].index
                 /\ heads[k].cfg => heads[k].data \in Config /\ CfgWithin(heads, last_index, heads[k].prev, k - 1)
      <4>1. k \in 1..Len(infos) /\ k - 1 \in 0..Len(infos)
        BY <2>3
      <4>2. heads[k] = HeadOf(k) /\ heads[k].index = infos[k].index
        BY <2>6, <4>1
      <4>3. /\ infos[k].index = last_index + k - 1 /\ HeadOf(k).prev < infos[k].index
            /\ HeadOf(k).cfg => HeadOf(k).data \in Config /\ IsCfgWithin(HeadOf(k).prev, k - 1)
        BY <1>1, <2>9 DEF FileInv
      <4> QED
        BY <2>8, <4>1, <4>2, <4>3
    <3>2. CfgWithin(heads, last_index, cfg_entry_index, Len(infos))
      <4>1. IsCfgWithin(cfg_entry_index, Len(infos)) /\ Len(infos) \in 0..Len(infos)
        BY <1>1, <2>3, <2>9 DEF FileInv
      <4> QED
        BY <2>8, <4>1
    <3> QED
      BY <3>1, <3>2 DEF Numbered
  <2> QED
    BY <1>1, <2>2, <2>5, <2>9 DEF IndInv, TypeOK, FileInv
<1>2. ASSUME IndInv, asked \in Request
      PROVE  TypeOK /\ FileInv
  <2>1. PICK N : IsFile(file, N) /\ ldbs_size <= N
    BY <1>2 DEF IndInv
  <2>2. IsFiniteSet(DOMAIN file) /\ Cardinality(DOMAIN file) = N
    BY <2>1, FileSize
  <2>3. Layout(file, infos, payload_size)
    BY <1>2 DEF IndInv
  <2>4. /\ Len(infos) \in Nat /\ Len(infos) > 0 /\ DOMAIN infos = 1..Len(infos)
    BY <2>1, <2>3, LayoutTypes DEF Layout
  <2>5. \A k \in 1..Len(infos) : heads[k] = HeadOf(k) /\ heads[k].index = infos[k].index /\ heads[k].prev \in Nat
    BY <2>1, <2>3, HeadsAre DEF heads, HeadOf
  <2>6. TypeOK
    <3>1. infos # <<>>
      BY <2>4
    <3> QED
      BY <1>2, <2>1, <2>2, <2>3, <3>1 DEF IndInv, TypeOK, IsFile, Layout, Info
  <2> HIDE DEF heads
  <2>7. ASSUME NEW i, NEW n \in 0..Len(infos), CfgWithin(heads, last_index, i, n)
        PROVE  IsCfgWithin(i, n)
    <3>1. CASE i <= last_index
      BY <3>1 DEF IsCfgWithin
    <3>2. CASE ~(i <= last_index)
      <4>1. i - last_index + 1 \in 2..n /\ heads[i - last_index + 1].cfg
        BY <2>7, <3>2 DEF CfgWithin
      <4>2. i - last_index + 1 \in 1..Len(infos)
        BY <2>4, <4>1
      <4>3. HeadOf(i - last_index + 1).cfg
        BY <2>5, <4>1, <4>2
      <4> QED
        BY <4>1, <4>3 DEF IsCfgWithin
    <3> QED
      BY <3>1, <3>2
  <2>8. ASSUME ~torn
        PROVE  /\ payload_size < ldbs_size
               /\ IsCfgWithin(cfg_entry_index, Len(infos))
               /\ \A k \in 2..Len(infos) :
                    /\ infos[k].index = last_index + k - 1 /\ HeadOf(k).prev < infos[k].index
                    /\ HeadOf(k).cfg => HeadOf(k).data \in Config /\ IsCfgWithin(HeadOf(k).prev, k - 1)
    <3>1. payload_size < ldbs_size /\ Numbered(heads, Len(infos), last_index, cfg_entry_index)
      BY <1>2, <2>8 DEF IndInv
    <3>2. IsCfgWithin(cfg_entry_index, Len(infos))
      <4>1. CfgWithin(heads, last_index, cfg_entry_index, Len(infos)) /\ Len(infos) \in 0..Len(infos)
        BY <2>4, <3>1 DEF Numbered
      <4> QED
        BY <2>7, <4>1
    <3>3. ASSUME NEW k \in 2..Len(infos)
          PROVE  /\ infos[k].index = last_index + k - 1 /\ HeadOf(k).prev < infos[k].index
                 /\ HeadOf(k).cfg => HeadOf(k).data \in Config /\ IsCfgWithin(HeadOf(k).prev, k - 1)
      <4>1. k \in 1..Len(infos) /\ k - 1 \in 0..Len(infos)
        BY <2>4
      <4>2. heads[k] = HeadOf(k) /\ heads[k].index = infos[k].index
        BY <2>5, <4>1
      <4>3. /\ heads[k].index = last_index + k - 1 /\ heads[k].prev < heads[k].index
            /\ heads[k].cfg => heads[k].data \in Config /\ CfgWithin(heads, last_index, heads[k].prev, k - 1)
        BY <3>1 DEF Numbered
      <4> QED
        BY <2>7, <4>1, <4>2, <4>3
    <3> QED
      BY <3>1, <3>2, <3>3
  <2>9. FileInv
    <3>1. DOMAIN file = 0..N - 1
      BY <2>1 DEF IsFile
    <3>2. \A k \in DOMAIN infos :
            /\ infos[k].amount \in DOMAIN file
            /\ HeadOf(k).size > 0 /\ HeadOf(k).index = infos[k].index
            /\ infos[k].amount + HeadOf(k).size = IF k = Len(infos) THEN payload_size ELSE infos[k + 1].amount
      BY <2>3, <2>4 DEF Layout, HeadOf
    <3>3. infos[1] = [index |-> 0, amount |-> 0] /\ (payload_size \in DOMAIN file => file[payload_size].size = 0)
      BY <2>3 DEF Layout
    <3>4. PageSize <= ldbs_size /\ file[0] = Sentry
      BY <1>2 DEF IndInv
    <3> QED
      BY <2>1, <2>2, <2>8, <3>1, <3>2, <3>3, <3>4 DEF FileInv
  <2> QED
    BY <2>6, <2>9
<1> QED
  BY <1>1, <1>2

\* Where the entries are.
LEMMA Positions ==
  ASSUME IndInv
  PROVE  /\ Len(infos) \in Nat /\ Len(infos) > 0 /\ payload_size \in Nat /\ payload_size > 0
         /\ infos[1].index = 0
         /\ \A k \in 1..Len(infos) :
              /\ infos[k].amount \in Nat /\ heads[k] = file[infos[k].amount] /\ heads[k] \in Word
              /\ heads[k].index = infos[k].index /\ heads[k].index \in Nat /\ heads[k].prev \in Nat
         /\ Last(infos) = infos[Len(infos)]
         /\ EndOffset = payload_size
<1>1. PICK N : IsFile(file, N) /\ ldbs_size <= N
  BY DEF IndInv
<1>2. Layout(file, infos, payload_size)
  BY DEF IndInv
<1>3. Len(infos) \in Nat /\ Len(infos) > 0 /\ payload_size \in Nat /\ infos[1].index = 0 /\ infos[1].amount = 0
  BY <1>1, <1>2, HeadsAre DEF Layout
<1>4. \A k \in 1..Len(infos) :
         /\ infos[k].amount \in Nat /\ heads[k] = file[infos[k].amount] /\ heads[k] \in Word
         /\ heads[k].index = infos[k].index /\ heads[k].index \in Nat /\ heads[k].prev \in Nat
  BY <1>1, <1>2, HeadsAre, LayoutTypes DEF heads
<1>5. Last(infos) = infos[Len(infos)]
  BY DEF Last
<1>6. payload_size > 0
  <2>1. \A k \in 1..Len(infos) : infos[k].amount < payload_size
    BY <1>1, <1>2, LayoutOrder
  <2> QED
    BY <1>3, <2>1
<1>7. EndOffset = payload_size
  <2>1. Len(infos) \in 1..Len(infos)
    BY <1>3
  <2>2. infos[Len(infos)].amount + file[infos[Len(infos)].amount].size = payload_size
    BY <1>2, <2>1 DEF Layout
  <2> QED
    BY <1>5, <2>2 DEF EndOffset, last_entry
<1> QED
  BY <1>3, <1>4, <1>5, <1>6, <1>7

\* Which index is where.
LEMMA Indices ==
  ASSUME IndInv, ~torn
  PROVE  /\ last_index \in Nat /\ cfg_entry_index \in Nat
         /\ last_entry_index = last_index + Len(infos) - 1
         /\ Last(infos).index = IF Len(infos) = 1 THEN 0 ELSE last_index + Len(infos) - 1
         /\ cfg_entry_index <= last_index + Len(infos) - 1
         /\ \A i \in Nat : (i > 0 /\ InRange(i)) <=> i - last_index + 1 \in 2..Len(infos)
         /\ \A i \in Nat : i - last_index + 1 \in 2..Len(infos) =>
              /\ InfoAt(i) = infos[i - last_index + 1]
              /\ EntryAt(i) = heads[i - last_index + 1]
              /\ EntryAt(i).index = i /\ EntryAt(i).prev \in Nat /\ EntryAt(i).prev < i
<1> DEFINE L == Len(infos)
<1>1. /\ L \in Nat /\ L > 0 /\ infos[1].index = 0
      /\ \A k \in 1..L : /\ heads[k] = file[infos[k].amount] /\ heads[k] \in Word
                         /\ heads[k].index = infos[k].index /\ heads[k].index \in Nat /\ heads[k].prev \in Nat
      /\ Last(infos) = infos[L]
  BY Positions
<1>2. last_index \in Nat /\ cfg_entry_index \in Nat /\ Numbered(heads, L, last_index, cfg_entry_index)
  BY DEF IndInv
<1>3. \A k \in 2..L : heads[k].index = last_index + k - 1 /\ heads[k].prev < heads[k].index
  BY <1>2 DEF Numbered
<1> HIDE DEF L, heads
<1>4. \A k \in 2..L : infos[k].index = last_index + k - 1
  BY <1>1, <1>3
<1>5. Last(infos).index = IF L = 1 THEN 0 ELSE last_index + L - 1
  BY <1>1, <1>4
<1>6. last_entry_index = last_index + L - 1
  <2>1. last_entry = heads[L]
    BY <1>1 DEF last_entry
  <2>2. L # 1 => heads[L].index = last_index + L - 1
    BY <1>1, <1>3
  <2>3. last_entry_index = IF L = 1 THEN last_index ELSE last_entry.index
    BY DEF last_entry_index, L
  <2> QED
    BY <1>1, <1>2, <2>1, <2>2, <2>3
<1>7. cfg_entry_index <= last_index + L - 1
  <2>1. CfgWithin(heads, last_index, cfg_entry_index, L)
    BY <1>2 DEF Numbered
  <2> QED
    BY <1>1, <1>2, <2>1 DEF CfgWithin
<1>8. ASSUME NEW i \in Nat
      PROVE  (i > 0 /\ InRange(i)) <=> i - last_index + 1 \in 2..L
  <2>1. InRange(i) <=> /\ i >= infos[1].index /\ i <= Last(infos).index
                       /\ ~(i > 0 /\ L > 1 /\ i < infos[2].index)
    BY DEF InRange, L
  <2>2. CASE L = 1
    BY <1>1, <1>2, <1>5, <2>1, <2>2
  <2>3. CASE L # 1
    <3>1. infos[2].index = last_index + 1
      BY <1>1, <1>2, <1>4, <2>3
    <3> QED
      BY <1>1, <1>2, <1>5, <2>1, <2>3, <3>1
  <2> QED
    BY <2>2, <2>3
<1>9. ASSUME NEW i \in Nat, i - last_index + 1 \in 2..L
      PROVE  /\ InfoAt(i) = infos[i - last_index + 1]
             /\ EntryAt(i) = heads[i - last_index + 1]
             /\ EntryAt(i).index = i /\ EntryAt(i).prev \in Nat /\ EntryAt(i).prev < i
  <2> DEFINE k == i - last_index + 1
  <2>1. i # 0 /\ i - last_index - 0 + 1 = k /\ k \in 1..L /\ last_index + k - 1 = i
    BY <1>1, <1>2, <1>9
  <2>2. InfoAt(i) = infos[k]
    BY <1>1, <2>1 DEF InfoAt
  <2> HIDE DEF k
  <2>3. EntryAt(i) = heads[k]
    BY <1>1, <2>1, <2>2 DEF EntryAt
  <2>4. heads[k].index = i /\ heads[k].prev \in Nat /\ heads[k].prev < i
    BY <1>1, <1>3, <1>9, <2>1 DEF k
  <2> QED
    BY <2>2, <2>3, <2>4 DEF k
<1> QED
  BY <1>2, <1>5, <1>6, <1>7, <1>8, <1>9 DEF L


\* Where the loops of chop and drop over prev_cfg end: at a configuration that is not
\* behind limit.
LEMMA CfgFound ==
  ASSUME IndInv, ~torn, NEW limit \in Nat, limit >= last_index
  PROVE  /\ CfgBefore(cfg_entry_index, limit) \in Nat
         /\ CfgBefore(cfg_entry_index, limit) <= limit
         /\ CfgWithin(heads, last_index, CfgBefore(cfg_entry_index, limit), Len(infos))
<1> DEFINE L == Len(infos)
           S == {j \in Nat : CfgWithin(heads, last_index, j, L)}
           cfg == cfg_entry_index
<1>1. L \in Nat /\ L > 0
  BY Positions
<1>2. last_index \in Nat /\ cfg \in Nat /\ cfg <= last_index + L - 1
  BY Indices
<1>3. \A i \in Nat : i - last_index + 1 \in 2..L =>
        EntryAt(i) = heads[i - last_index + 1] /\ EntryAt(i).prev \in Nat /\ EntryAt(i).prev < i
  BY Indices
<1>4. Numbered(heads, L, last_index, cfg)
  BY DEF IndInv
<1> HIDE DEF L, heads, cfg
<1>5. \A j \in 0..cfg : j > limit => j \in Nat /\ j - last_index + 1 \in 2..L
  BY <1>1, <1>2
<1>6. \A j \in 0..cfg : j > limit => EntryAt(j).prev \in Nat /\ EntryAt(j).prev < j
  BY <1>3, <1>5
<1>7. cfg \in S
  BY <1>2, <1>4 DEF Numbered
<1>8. ASSUME NEW j \in 0..cfg, j > limit, j \in S
      PROVE  EntryAt(j).prev \in S
  <2> DEFINE k == j - last_index + 1
             p == EntryAt(j).prev
  <2>1. k \in 2..L /\ EntryAt(j) = heads[k] /\ p \in Nat
    BY <1>3, <1>5, <1>8
  <2>2. heads[k].cfg
    BY <1>2, <1>8 DEF CfgWithin
  <2>3. CfgWithin(heads, last_index, p, k - 1)
    BY <1>4, <2>1, <2>2 DEF Numbered
  <2> HIDE DEF k, p
  <2>4. CfgWithin(heads, last_index, p, L)
    BY <1>1, <2>1, <2>3 DEF CfgWithin
  <2> QED
    BY <2>1, <2>4 DEF p
<1>9. CfgBefore(cfg, limit) \in 0..cfg /\ CfgBefore(cfg, limit) <= limit /\ CfgBefore(cfg, limit) \in S
  <2> HIDE DEF S
  <2> QED
    BY <1>2, <1>6, <1>7, <1>8, CfgBeforeIs
<1> QED
  BY <1>2, <1>9 DEF L, cfg

\* The last of a set of positions.
LEMMA LastOf ==
  ASSUME NEW n \in Nat, NEW C \in SUBSET (0..n), C # {}
  PROVE  /\ (CHOOSE k \in C : \A j \in C : j <= k) \in C
         /\ \A j \in C : j <= (CHOOSE k \in C : \A l \in C : l <= k)
<1>1. PICK x \in C : \A y \in C : x >= y
  BY GreatestExists
<1>2. \A y \in C : y <= x
  BY <1>1
<1>3. \E k \in C : \A j \in C : j <= k
  BY <1>2
<1> QED
  BY <1>3

\* i is the index of the last configuration of hd, or 0 if it has none.
LastCfg(hd, n, i) ==
  \/ i = 0 /\ \A k \in 1..n : ~hd[k].cfg
  \/ \E k \in 1..n : hd[k].cfg /\ i = hd[k].index /\ \A j \in 1..n : hd[j].cfg => j <= k

\* What the scan of init finds.
LEMMA CfgIndexOfIs ==
  ASSUME NEW f, NEW n, IsFile(f, n), NEW inf, NEW end, Layout(f, inf, end)
  PROVE  CfgIndexOf(f) \in Nat /\ LastCfg(Heads(f, inf), Len(inf), CfgIndexOf(f))
<1> DEFINE o == Offsets(f)
           N == Len(inf)
           hd == Heads(f, inf)
           C == {k \in 1..N : hd[k].cfg}
           D == {k \in 1..Len(o) - 1 : f[o[k]].cfg}
           last == CHOOSE k \in C : \A j \in C : j <= k
<1>1. Len(o) = N + 1 /\ \A k \in 1..N : o[k] = inf[k].amount
  BY LayoutReadBack
<1>2. N \in Nat /\ \A k \in 1..N : hd[k] = f[inf[k].amount] /\ hd[k].index \in Nat
  BY HeadsAre
<1>3. CfgIndexOf(f) = IF D = {} THEN 0 ELSE f[o[CHOOSE k \in D : \A j \in D : j <= k]].index
  BY DEF CfgIndexOf
<1> HIDE DEF hd, o, N
<1>4. Len(o) - 1 = N
  BY <1>1, <1>2
<1>5. C = D
  BY <1>1, <1>2, <1>4
<1> HIDE DEF D
<1>6. CfgIndexOf(f) = IF C = {} THEN 0 ELSE f[o[last]].index
  BY <1>3, <1>5
<1>7. CASE C = {}
  BY <1>6, <1>7 DEF LastCfg, hd, N
<1>8. CASE C # {}
  <2>1. C \in SUBSET (0..N)
    OBVIOUS
  <2>2. last \in C /\ \A j \in C : j <= last
    BY <1>2, <1>8, <2>1, LastOf
  <2> HIDE DEF last
  <2>3. last \in 1..N /\ hd[last].cfg /\ \A j \in 1..N : hd[j].cfg => j <= last
    BY <2>2
  <2> HIDE DEF C
  <2>4. CfgIndexOf(f) = hd[last].index /\ hd[last].index \in Nat
    BY <1>1, <1>2, <1>6, <1>8, <2>3
  <2>5. LastCfg(hd, N, CfgIndexOf(f))
    BY <2>3, <2>4 DEF LastCfg
  <2> QED
    BY <2>4, <2>5 DEF hd, N
<1> QED
  BY <1>7, <1>8

\* The configuration after a batch.
LEMMA CfgIndexAfterIs ==
  ASSUME NEW es, IsBatch(es), cfg_entry_index \in Nat
  PROVE  /\ CfgIndexAfter(es) \in Nat
         /\ \/ CfgIndexAfter(es) = cfg_entry_index /\ \A k \in 1..Len(es) : ~es[k].cfg
            \/ \E k \in 1..Len(es) : /\ es[k].cfg /\ CfgIndexAfter(es) = es[k].index
                                     /\ \A j \in 1..Len(es) : es[j].cfg => j <= k
<1> DEFINE N == Len(es)
           C == {k \in 1..N : es[k].cfg}
           last == CHOOSE k \in C : \A j \in C : j <= k
<1>1. N \in Nat /\ DOMAIN es = 1..N /\ \A k \in 1..N : es[k] \in Word
  BY DEF IsBatch
<1>2. \A k \in 1..N : es[k].index \in Nat
  BY <1>1, WordFields
<1>3. CfgIndexAfter(es) = IF C = {} THEN cfg_entry_index ELSE es[last].index
  BY <1>1 DEF CfgIndexAfter
<1>4. CASE C = {}
  BY <1>3, <1>4
<1>5. CASE C # {}
  <2>1. C \in SUBSET (0..N)
    OBVIOUS
  <2>2. last \in C /\ \A j \in C : j <= last
    BY <1>1, <1>5, <2>1, LastOf
  <2> HIDE DEF last
  <2>3. last \in 1..N /\ es[last].cfg /\ \A j \in 1..N : es[j].cfg => j <= last
    BY <2>2
  <2> HIDE DEF C, N
  <2>4. CfgIndexAfter(es) = es[last].index /\ es[last].index \in Nat
    BY <1>2, <1>3, <1>5, <2>3
  <2> QED
    BY <2>3, <2>4 DEF N
<1> QED
  BY <1>4, <1>5

\* What append is called with.
LEMMA Made ==
  ASSUME IndInv, ~torn, NEW t \in Nat, NEW ds \in Batches
  PROVE  /\ IsBatch(make_entries(t, ds))
         /\ Len(make_entries(t, ds)) = Len(ds) /\ Len(ds) \in Nat /\ DOMAIN ds = 1..Len(ds)
         /\ Len(make_entries(t, ds)) > 0
         /\ \A k \in 1..Len(make_entries(t, ds)) :
              /\ ds[k] \in Content
              /\ make_entries(t, ds)[k] = make_entry(last_index + Len(infos) - 1 + k, t, ds[k])
              /\ make_entries(t, ds)[k].index = last_index + Len(infos) - 1 + k
              /\ make_entries(t, ds)[k].term = t
              /\ make_entries(t, ds)[k].data = ds[k]
              /\ make_entries(t, ds)[k].prev < make_entries(t, ds)[k].index
              /\ make_entries(t, ds)[k].cfg = (ds[k] \in Config)
              /\ make_entries(t, ds)[k].cfg =>
                   make_entries(t, ds)[k].data \in Config /\ make_entries(t, ds)[k].prev = cfg_entry_index
<1> DEFINE es == make_entries(t, ds)
           L == Len(infos)
<1>1. PICK n \in 1..MaxBatch : ds \in [1..n -> Content]
  BY DEF Batches
<1>2. n \in Nat /\ n > 0
  BY <1>1, LogBoundsAssumption
<1>3. DOMAIN ds = 1..n /\ Len(ds) = n /\ \A k \in 1..n : ds[k] \in Content
  BY <1>1, <1>2
<1>4. L \in Nat /\ L > 0
  BY Positions
<1>5. last_index \in Nat /\ cfg_entry_index \in Nat /\ last_entry_index = last_index + L - 1 /\ cfg_entry_index <= last_index + L - 1
  BY Indices
<1> HIDE DEF L
<1>6. es = [k \in 1..n |-> make_entry(last_entry_index + k, t, ds[k])]
  BY <1>3 DEF make_entries
<1> HIDE DEF es
<1>7. ASSUME NEW k \in 1..n
      PROVE  /\ es[k] = make_entry(last_index + L - 1 + k, t, ds[k])
             /\ es[k] \in Word /\ es[k].size > 0
             /\ es[k].index = last_index + L - 1 + k /\ es[k].term = t /\ es[k].data = ds[k]
             /\ es[k].prev < es[k].index
             /\ es[k].cfg = (ds[k] \in Config)
             /\ es[k].cfg => es[k].data \in Config /\ es[k].prev = cfg_entry_index
  <2> DEFINE i == last_index + L - 1 + k
             d == ds[k]
  <2>1. es[k] = make_entry(i, t, d)
    BY <1>5, <1>6
  <2>2. d \in Content /\ SizeOf[d] \in Nat \ {0} /\ i \in Nat /\ i > 0 /\ cfg_entry_index < i
    BY <1>3, <1>4, <1>5, SizeAssumption
  <2> HIDE DEF i, d
  <2> DEFINE q == IF d \in Config THEN cfg_entry_index ELSE 0
             b == d \in Config
  <2>3. q \in Nat /\ q < i /\ (b => q = cfg_entry_index) /\ b \in BOOLEAN
    BY <1>5, <2>2
  <2>4. es[k] = [size |-> SizeOf[d], index |-> i, term |-> t, cfg |-> b, prev |-> q, data |-> d]
    BY <2>1 DEF make_entry
  <2> HIDE DEF q, b
  <2>5. /\ es[k].size = SizeOf[d] /\ es[k].index = i /\ es[k].term = t /\ es[k].cfg = b
        /\ es[k].prev = q /\ es[k].data = d
    BY <2>4
  <2>6. es[k] \in Word
    BY <2>2, <2>3, <2>4 DEF Word
  <2>7. es[k].cfg => d \in Config
    BY <2>5 DEF b
  <2>8. es[k].size > 0
    BY <2>2, <2>5
  <2>9. es[k].cfg = (d \in Config)
    BY <2>5 DEF b
  <2>10. es[k].prev < es[k].index /\ (es[k].cfg => es[k].prev = cfg_entry_index)
    BY <2>3, <2>5
  <2> QED
    BY <2>1, <2>5, <2>6, <2>7, <2>8, <2>9, <2>10 DEF i, d
<1>8. es \in Seq(Word) /\ Len(es) = n
  <2>1. \A k \in 1..n : make_entry(last_entry_index + k, t, ds[k]) \in Word
    BY <1>6, <1>7
  <2> QED
    BY <1>2, <1>6, <2>1
<1>9. IsBatch(es)
  BY <1>7, <1>8 DEF IsBatch
<1> QED
  BY <1>2, <1>3, <1>7, <1>8, <1>9 DEF es, L


-----------------------------------------------------------------------------
(***************************************************************************)
(* The file as append leaves it.                                           *)
(***************************************************************************)
LEMMA GrownIs ==
  ASSUME IndInv, ~torn, NEW bytes \in Nat, NEW g, g = Growth(bytes)
  PROVE  /\ Len(g) \in Nat /\ Len(g) > 0
         /\ \A k \in 1..Len(g) : g[k] \in Nat /\ g[k] >= ldbs_size
         /\ \A k \in 1..Len(g) - 1 : g[k] < g[k + 1]
         /\ Last(g) \in Nat /\ Last(g) >= ldbs_size /\ payload_size + bytes + 1 < Last(g)
         /\ \E n : IsFile(Grown(g), n) /\ Last(g) <= n
         /\ \A p \in DOMAIN file : p < ldbs_size => p \in DOMAIN Grown(g) /\ Grown(g)[p] = file[p]
<1> DEFINE L == Len(g)
<1>1. ldbs_size \in Nat /\ ldbs_size >= PageSize /\ PageSize >= 4 /\ PageSize \in Nat
  BY SizeAssumption DEF IndInv
<1>2. payload_size \in Nat
  BY Positions
<1>3. IsGrowth(g, bytes)
  BY <1>1, <1>2, GrowthIs
<1>4. g \in Seq(Nat) /\ g # <<>>
  BY <1>3 DEF IsGrowth
<1>5. L \in Nat /\ L > 0 /\ Last(g) = g[L] /\ \A k \in 1..L : g[k] \in Nat
  BY <1>4 DEF Last
<1>6. \A k \in 1..L : g[k] >= ldbs_size
  BY <1>3 DEF IsGrowth
<1>7. g[1] = ldbs_size /\ Fits(g[L], bytes)
  BY <1>3 DEF IsGrowth
<1>8. \A k \in 1..L - 1 : g[k + 1] = NextSize(g[k])
  BY <1>3 DEF IsGrowth
<1> HIDE DEF L
<1>9. Last(g) \in Nat /\ Last(g) >= ldbs_size /\ payload_size + bytes + 1 < Last(g)
  BY <1>2, <1>5, <1>6, <1>7 DEF Fits, log_end_marker_size
<1>10. ASSUME NEW k \in 1..L - 1
       PROVE  g[k] < g[k + 1]
  <2>1. k \in 1..L
    BY <1>5
  <2>2. g[k] \in Nat /\ g[k] >= 4
    BY <1>1, <1>5, <1>6, <2>1
  <2> QED
    BY <1>8, <2>2, NextSizeIs
<1>11. PICK N : IsFile(file, N) /\ ldbs_size <= N
  BY DEF IndInv
<1>12. N \in Nat /\ DOMAIN file = 0..N - 1
  BY <1>11 DEF IsFile
<1>13. CASE L = 1
  <2>1. Grown(g) = file /\ Last(g) = ldbs_size
    BY <1>5, <1>7, <1>13 DEF Grown, L
  <2> QED
    BY <1>5, <1>6, <1>9, <1>10, <1>11, <2>1 DEF L
<1>14. CASE L # 1
  <2>1. Grown(g) = Truncate(file, Last(g))
    BY <1>14 DEF Grown, L
  <2>2. /\ IsFile(Truncate(file, Last(g)), Last(g))
        /\ \A p \in DOMAIN file : p < Last(g) => Truncate(file, Last(g))[p] = file[p]
    BY <1>9, <1>11, TruncateIs
  <2>3. DOMAIN Truncate(file, Last(g)) = 0..Last(g) - 1
    BY <2>2 DEF IsFile
  <2>4. ASSUME NEW p \in DOMAIN file, p < ldbs_size
        PROVE  p \in DOMAIN Grown(g) /\ Grown(g)[p] = file[p]
    <3>1. p < Last(g) /\ p \in 0..Last(g) - 1
      BY <1>1, <1>9, <1>12, <2>4
    <3> QED
      BY <2>1, <2>2, <2>3, <3>1
  <2>5. Last(g) <= Last(g)
    BY <1>9
  <2> QED
    BY <1>5, <1>6, <1>9, <1>10, <2>1, <2>2, <2>4, <2>5 DEF L
<1> QED
  BY <1>13, <1>14

\* The entries are behind the old ones, and the marker behind them.
LEMMA WrittenIs ==
  ASSUME IndInv, ~torn, NEW es, IsBatch(es), NEW f, NEW n, IsFile(f, n),
         payload_size + size_bytes(es) < n,
         \A p \in DOMAIN file : p < ldbs_size => p \in DOMAIN f /\ f[p] = file[p]
  PROVE  /\ IsFile(Written(f, es), n) /\ Written(f, es)[0] = file[0]
         /\ Layout(Written(f, es), InfosAfter(es), payload_size + size_bytes(es))
         /\ Joined(Heads(Written(f, es), InfosAfter(es)), heads, es)
         /\ Len(InfosAfter(es)) = Len(infos) + Len(es)
<1> DEFINE end == payload_size
           bytes == size_bytes(es)
           ws == AllWords(es)
           f1 == Put(f, end, ws)
           f2 == Mark(f1, end + bytes)
           s == SizeUpTo(es)
           new == [k \in DOMAIN es |-> [index |-> es[k].index, amount |-> end + s[k - 1]]]
           all == infos \o new
<1>1. PICK N : IsFile(file, N) /\ ldbs_size <= N
  BY DEF IndInv
<1>2. Layout(file, infos, end) /\ ldbs_size \in Nat /\ end < ldbs_size
  BY DEF IndInv
<1>3. end \in Nat /\ end > 0 /\ EndOffset = end
  BY Positions
<1>4. /\ bytes \in Nat /\ DOMAIN ws = 1..bytes /\ \A p \in 1..bytes : ws[p] \in Word
      /\ \A k \in 1..Len(es) : s[k - 1] + 1 \in 1..bytes /\ ws[s[k - 1] + 1] = es[k]
  BY AllWordsIs
<1>5. /\ Len(es) \in Nat /\ DOMAIN es = 1..Len(es) /\ \A k \in 1..Len(es) : es[k] \in Word
  BY DEF IsBatch
<1>6. /\ \A k \in 0..Len(es) : s[k] \in Nat
      /\ \A k \in 1..Len(es) : k - 1 \in 0..Len(es)
  BY <1>5, SizeUpToIs
<1>7. Written(f, es) = f2
  BY <1>3 DEF Written
<1>8. InfosAfter(es) = all
  BY <1>3 DEF InfosAfter
<1> HIDE DEF bytes, ws, s
<1>9. n \in Nat /\ DOMAIN f = 0..n - 1 /\ end + bytes < n
  BY DEF IsFile, bytes
<1>10. /\ IsFile(f1, n)
       /\ \A p \in DOMAIN f : p < end \/ p >= end + bytes => f1[p] = f[p]
       /\ \A k \in 1..bytes : end + k - 1 \in DOMAIN f => f1[end + k - 1] = ws[k]
  BY <1>3, <1>4, PutIs
<1>11. DOMAIN f1 = DOMAIN f /\ end + bytes \in DOMAIN f1
  BY <1>3, <1>4, <1>9, <1>10 DEF IsFile
<1> HIDE DEF f1
<1>12. /\ IsFile(f2, n) /\ f2[end + bytes].size = 0
       /\ \A p \in DOMAIN f1 : p # end + bytes => f2[p] = f1[p]
  BY <1>10, <1>11, MarkIs
<1>13. DOMAIN f2 = DOMAIN f
  BY <1>9, <1>12 DEF IsFile
<1> HIDE DEF f2
<1>14. ASSUME NEW p \in DOMAIN file, p < end
       PROVE  p \in DOMAIN f2 /\ f2[p] = file[p]
  <2>1. p \in Nat /\ p < ldbs_size
    BY <1>1, <1>2, <1>3, <1>14 DEF IsFile
  <2>2. p \in DOMAIN f /\ f[p] = file[p]
    BY <2>1
  <2>3. p # end + bytes
    BY <1>3, <1>4, <1>14, <2>1
  <2> QED
    BY <1>10, <1>11, <1>12, <1>13, <1>14, <2>2, <2>3
<1>15. ASSUME NEW k \in 1..Len(es)
       PROVE  end + s[k - 1] \in DOMAIN f2 /\ f2[end + s[k - 1]] = es[k]
  <2> DEFINE q == s[k - 1]
  <2>1. q \in Nat /\ q + 1 \in 1..bytes /\ ws[q + 1] = es[k]
    BY <1>4, <1>6
  <2> HIDE DEF q
  <2>2. end + q = end + (q + 1) - 1 /\ end + q \in DOMAIN f /\ end + q # end + bytes
    BY <1>3, <1>4, <1>9, <2>1
  <2>3. f1[end + (q + 1) - 1] = ws[q + 1]
    BY <1>10, <2>1, <2>2
  <2>4. f1[end + q] = es[k]
    BY <2>1, <2>2, <2>3
  <2> QED
    BY <1>11, <1>12, <1>13, <2>2, <2>4 DEF q
<1>16. Layout(f2, all, end + bytes)
  <2>1. \A k \in 1..Len(es) : end + SizeUpTo(es)[k - 1] \in DOMAIN f2 /\ f2[end + SizeUpTo(es)[k - 1]] = es[k]
    BY <1>15 DEF s
  <2>2. end + size_bytes(es) \in DOMAIN f2 => f2[end + size_bytes(es)].size = 0
    BY <1>12 DEF bytes
  <2>3. \A p \in DOMAIN file : p < end => p \in DOMAIN f2 /\ f2[p] = file[p]
    BY <1>14
  <2> HIDE DEF end
  <2> QED
    BY <1>1, <1>2, <1>12, <2>1, <2>2, <2>3, LayoutExtend DEF s, bytes
<1>17. f2[0] = file[0]
  <2>1. 0 \in DOMAIN file
    BY <1>1, <1>2, <1>3 DEF IsFile
  <2> QED
    BY <1>3, <1>14, <2>1
<1>18. infos \in Seq(Info) /\ Len(infos) \in Nat
  BY <1>1, <1>2, LayoutTypes DEF Layout
<1>19. new \in Seq(Info) /\ Len(new) = Len(es) /\ \A k \in 1..Len(es) : new[k].amount = end + s[k - 1]
  <2>1. \A k \in 1..Len(es) : es[k].index \in Nat
    BY <1>5, WordFields
  <2>2. \A k \in 1..Len(es) : [index |-> es[k].index, amount |-> end + s[k - 1]] \in Info
    BY <1>3, <1>6, <2>1 DEF Info
  <2>3. new = [k \in 1..Len(es) |-> [index |-> es[k].index, amount |-> end + s[k - 1]]]
    BY <1>5
  <2> HIDE DEF new
  <2>4. \A k \in 1..Len(es) : new[k] = [index |-> es[k].index, amount |-> end + s[k - 1]]
    BY <2>3
  <2> HIDE DEF end
  <2> QED
    BY <1>5, <2>2, <2>3, <2>4
<1> HIDE DEF new, end
<1>20. Joined(all, infos, new)
  BY <1>18, <1>19, ConcatIs
<1>21. Len(all) = Len(infos) + Len(es)
  BY <1>19, <1>20 DEF Joined
<1> HIDE DEF all
<1>22. \A k \in 1..Len(infos) : all[k] = infos[k]
  BY <1>20 DEF Joined
<1>23. \A k \in 1..Len(es) : all[Len(infos) + k] = new[k]
  BY <1>19, <1>20 DEF Joined
<1>24. /\ \A k \in 1..Len(infos) + Len(es) : Heads(f2, all)[k] = f2[all[k].amount]
       /\ Len(Heads(f2, all)) = Len(infos) + Len(es)
  BY <1>5, <1>18, <1>21 DEF Heads
<1>25. /\ \A k \in 1..Len(infos) : heads[k] = file[infos[k].amount]
       /\ Len(heads) = Len(infos)
  BY <1>18 DEF heads, Heads
<1>26. ASSUME NEW k \in 1..Len(infos)
       PROVE  Heads(f2, all)[k] = heads[k]
  <2>1. infos[k].amount \in DOMAIN file /\ infos[k].amount < end
    BY <1>1, <1>2, LayoutTypes, LayoutOrder
  <2>2. k \in 1..Len(infos) + Len(es)
    BY <1>5, <1>18
  <2> QED
    BY <1>14, <1>22, <1>24, <1>25, <2>1, <2>2
<1>27. ASSUME NEW k \in 1..Len(es)
       PROVE  Heads(f2, all)[Len(infos) + k] = es[k]
  <2>1. Len(infos) + k \in 1..Len(infos) + Len(es)
    BY <1>5, <1>18
  <2>2. all[Len(infos) + k].amount = end + s[k - 1]
    BY <1>19, <1>23
  <2>3. Heads(f2, all)[Len(infos) + k] = f2[all[Len(infos) + k].amount]
    BY <1>24, <2>1
  <2>4. f2[end + s[k - 1]] = es[k]
    BY <1>15
  <2> QED
    BY <2>2, <2>3, <2>4, Zenon
<1>28. Joined(Heads(f2, all), heads, es)
  <2>1. Len(Heads(f2, all)) = Len(heads) + Len(es)
    BY <1>24, <1>25
  <2>2. \A k \in 1..Len(heads) : Heads(f2, all)[k] = heads[k]
    BY <1>25, <1>26
  <2>3. \A k \in 1..Len(es) : Heads(f2, all)[Len(heads) + k] = es[k]
    BY <1>25, <1>27
  <2> QED
    BY <2>1, <2>2, <2>3 DEF Joined
<1> QED
  BY <1>7, <1>8, <1>12, <1>16, <1>17, <1>21, <1>28 DEF end, bytes


-----------------------------------------------------------------------------
(***************************************************************************)
(* The invariant holds initially.                                          *)
(***************************************************************************)
LEMMA InitIsFile ==
  ASSUME Init
  PROVE  /\ IsFile(file, ldbs_size) /\ ldbs_size \in Nat /\ PageSize <= ldbs_size /\ 2 <= ldbs_size
         /\ file[0] = Sentry /\ file[1] = Zero
<1> DEFINE P == PageUp(2)
<1>1. P \in Nat /\ P >= 2 /\ P >= PageSize
  BY PageUpIs
<1>2. file = [p \in 0..P - 1 |-> IF p = 0 THEN Sentry ELSE Zero] /\ ldbs_size = P
  BY DEF Init
<1> HIDE DEF P
<1>3. DOMAIN file = 0..P - 1 /\ \A p \in 0..P - 1 : file[p] = IF p = 0 THEN Sentry ELSE Zero
  BY <1>2
<1>4. \A p \in DOMAIN file : file[p] \in Word
  BY <1>3, ConstantWords
<1>5. 0 \in 0..P - 1 /\ 1 \in 0..P - 1
  BY <1>1
<1>6. file[0] = Sentry /\ file[1] = Zero
  BY <1>3, <1>5
<1>7. IsFile(file, P)
  BY <1>1, <1>3, <1>4 DEF IsFile
<1> QED
  BY <1>1, <1>2, <1>6, <1>7, SizeAssumption

LEMMA InitInd ==
  ASSUME Init
  PROVE  IndInv
<1>1. /\ IsFile(file, ldbs_size) /\ ldbs_size \in Nat /\ PageSize <= ldbs_size /\ 2 <= ldbs_size
      /\ file[0] = Sentry /\ file[1] = Zero
  BY InitIsFile
<1>2. infos = <<[index |-> 0, amount |-> 0]>> /\ payload_size = 1
  BY DEF Init
<1>3. /\ infos \in Seq(Info) /\ Len(infos) = 1 /\ infos[1] = [index |-> 0, amount |-> 0]
      /\ infos[1].amount = 0 /\ infos[1].index = 0
  BY <1>2 DEF Info
<1>4. 0 \in DOMAIN file
  BY <1>1 DEF IsFile
<1>5. Layout(file, infos, 1)
  <2>1. ASSUME NEW k \in 1..Len(infos)
        PROVE  /\ infos[k].amount \in DOMAIN file
               /\ file[infos[k].amount].size > 0 /\ file[infos[k].amount].index = infos[k].index
               /\ infos[k].amount + file[infos[k].amount].size = IF k = Len(infos) THEN 1 ELSE infos[k + 1].amount
    <3>1. k = 1 /\ k = Len(infos)
      BY <1>3
    <3> QED
      BY <1>1, <1>3, <1>4, <3>1, ConstantWords
  <2>2. 1 \in DOMAIN file => file[1].size = 0
    BY <1>1, ConstantWords
  <2>3. infos \in Seq(Info) /\ Len(infos) > 0 /\ infos[1] = [index |-> 0, amount |-> 0]
    BY <1>3
  <2> QED
    BY <2>1, <2>2, <2>3 DEF Layout
<1>6. Numbered(heads, Len(infos), last_index, cfg_entry_index)
  <2>1. Len(infos) = 1
    BY <1>3
  <2>2. last_index = 0 /\ cfg_entry_index = 0
    BY DEF Init
  <2> QED
    BY <2>1, <2>2 DEF Numbered, CfgWithin
<1>7. ldbs_size <= ldbs_size /\ payload_size < ldbs_size
  BY <1>1, <1>2
<1> QED
  BY <1>1, <1>2, <1>5, <1>6, <1>7 DEF IndInv, Init

-----------------------------------------------------------------------------
(***************************************************************************)
(* What each operation does to the heads, and that it keeps the invariant. *)
(***************************************************************************)
\* The parts of the invariant about the file, after a step.
Laid ==
  /\ \E n : IsFile(file, n) /\ ldbs_size <= n
  /\ ldbs_size \in Nat /\ PageSize <= ldbs_size
  /\ Layout(file, infos, payload_size) /\ file[0] = Sentry

LEMMA AppendEffect ==
  ASSUME IndInv, ~torn, NEW es, IsBatch(es), AppendEntries(es)
  PROVE  /\ Laid' /\ payload_size' < ldbs_size'
         /\ Len(infos') = Len(infos) + Len(es) /\ Joined(heads', heads, es)
<1> DEFINE bytes == size_bytes(es)
           g == Growth(bytes)
<1>1. /\ file' = Written(Grown(g), es) /\ ldbs_size' = Last(g)
      /\ infos' = InfosAfter(es) /\ payload_size' = payload_size + bytes
  BY DEF AppendEntries
<1>2. bytes \in Nat
  BY AllWordsIs
<1>3. payload_size \in Nat
  BY Positions
<1>4. ldbs_size \in Nat /\ PageSize <= ldbs_size /\ PageSize \in Nat /\ file[0] = Sentry
  BY SizeAssumption DEF IndInv
<1> HIDE DEF bytes
<1>5. /\ Last(g) \in Nat /\ Last(g) >= ldbs_size /\ payload_size + bytes + 1 < Last(g)
      /\ \E n : IsFile(Grown(g), n) /\ Last(g) <= n
      /\ \A p \in DOMAIN file : p < ldbs_size => p \in DOMAIN Grown(g) /\ Grown(g)[p] = file[p]
  <2>1. g = Growth(bytes)
    OBVIOUS
  <2> HIDE DEF g
  <2> QED
    BY <1>2, <2>1, GrownIs
<1> HIDE DEF g
<1>6. PICK n : IsFile(Grown(g), n) /\ Last(g) <= n
  BY <1>5
<1>7. n \in Nat
  BY <1>6 DEF IsFile
<1>8. payload_size + bytes < n /\ payload_size + bytes < Last(g)
  BY <1>2, <1>3, <1>5, <1>6, <1>7
<1>9. /\ IsFile(Written(Grown(g), es), n) /\ Written(Grown(g), es)[0] = file[0]
      /\ Layout(Written(Grown(g), es), InfosAfter(es), payload_size + bytes)
      /\ Joined(Heads(Written(Grown(g), es), InfosAfter(es)), heads, es)
      /\ Len(InfosAfter(es)) = Len(infos) + Len(es)
  BY <1>5, <1>6, <1>8, WrittenIs DEF bytes
<1>10. Joined(heads', heads, es)
  BY <1>1, <1>9 DEF heads
<1>11. Laid'
  BY <1>1, <1>4, <1>5, <1>6, <1>9 DEF Laid
<1> QED
  BY <1>1, <1>8, <1>9, <1>10, <1>11

LEMMA AppendInd ==
  ASSUME IndInv, ~torn, NEW t \in Nat, NEW ds \in Batches, AppendEntries(make_entries(t, ds))
  PROVE  IndInv'
<1> DEFINE es == make_entries(t, ds)
           L == Len(infos)
           M == Len(es)
<1>1. /\ IsBatch(es) /\ M \in Nat
      /\ \A k \in 1..M :
           /\ es[k].index = last_index + L - 1 + k
           /\ es[k].prev < es[k].index
           /\ es[k].cfg => es[k].data \in Config /\ es[k].prev = cfg_entry_index
  <2>1. IsBatch(es)
    BY Made
  <2>3. M \in Nat
    BY <2>1 DEF IsBatch
  <2>2. \A k \in 1..M :
           /\ es[k].index = last_index + L - 1 + k
           /\ es[k].prev < es[k].index
           /\ es[k].cfg => es[k].data \in Config /\ es[k].prev = cfg_entry_index
    BY Made
  <2> QED
    BY <2>1, <2>2, <2>3
<1> HIDE DEF es
<1>2. AppendEntries(es)
  BY DEF es
<1>3. Laid' /\ payload_size' < ldbs_size' /\ Len(infos') = L + M /\ Joined(heads', heads, es)
  BY <1>1, <1>2, AppendEffect
<1>4. L \in Nat /\ L > 0 /\ Len(heads) = L
  <2>1. L \in Nat /\ L > 0
    BY Positions
  <2> QED
    BY <2>1 DEF heads, Heads
<1>5. /\ last_index \in Nat /\ last_term \in Nat /\ last_config \in Config \cup {NoConfig}
      /\ cfg_entry_index \in Nat /\ mapped \in BOOLEAN /\ torn \in BOOLEAN
      /\ Numbered(heads, L, last_index, cfg_entry_index)
  BY DEF IndInv
<1>6. /\ CfgIndexAfter(es) \in Nat
      /\ \/ CfgIndexAfter(es) = cfg_entry_index
         \/ \E k \in 1..M : es[k].cfg /\ CfgIndexAfter(es) = es[k].index
  BY <1>1, <1>5, CfgIndexAfterIs
<1>7. /\ cfg_entry_index' = CfgIndexAfter(es)
      /\ last_index' = last_index /\ last_term' = last_term /\ last_config' = last_config
      /\ mapped' = mapped /\ torn' = torn /\ rc' \in {"GOOD", "ERROR"}
  BY <1>2 DEF AppendEntries, statVars
<1>8. Numbered(heads', L + M, last_index, CfgIndexAfter(es))
  <2>1. /\ \A k \in 1..L : heads'[k] = heads[k]
        /\ \A k \in 1..M : heads'[L + k] = es[k]
    BY <1>3, <1>4 DEF Joined
  <2> DEFINE new == heads'
             c == CfgIndexAfter(es)
  <2>2. \A k \in 1..M : /\ new[L + k] = es[k]
                        /\ es[k].index = last_index + L - 1 + k /\ es[k].prev < es[k].index
                        /\ es[k].cfg => es[k].data \in Config /\ es[k].prev = cfg_entry_index
    BY <1>1, <2>1
  <2>3. \A k \in 1..L : new[k] = heads[k]
    BY <2>1
  <2> HIDE DEF heads, L, M, new
  <2>4. Continues(heads, L, last_index, cfg_entry_index, es, M, new, c)
    BY <1>6, <2>2, <2>3 DEF Continues
  <2> HIDE DEF c
  <2>5. Numbered(new, L + M, last_index, c)
    BY <1>1, <1>4, <1>5, <1>6, <2>4, NumberedExtend DEF c
  <2> QED
    BY <2>5 DEF new, c
<1>9. Numbered(heads', Len(infos'), last_index', cfg_entry_index')
  BY <1>3, <1>7, <1>8
<1> QED
  BY <1>3, <1>5, <1>6, <1>7, <1>9 DEF IndInv, Laid

LEMMA AppendFailsInd ==
  ASSUME IndInv, ~torn, NEW es, IsBatch(es), AppendFails(es)
  PROVE  /\ IndInv' /\ UNCHANGED <<statVars, memVars, torn>> /\ heads' = heads
<1> DEFINE bytes == size_bytes(es)
           g == Growth(bytes)
<1>1. UNCHANGED <<statVars, memVars, torn>> /\ mapped' = FALSE /\ rc' = "ERROR"
  BY DEF AppendFails
<1>2. bytes \in Nat
  BY AllWordsIs
<1> HIDE DEF bytes
<1>3. g = Growth(bytes)
  OBVIOUS
<1>4. \/ \E k \in 2..Len(g), truncated \in BOOLEAN :
             /\ ldbs_size' = g[k - 1]
             /\ file' = Truncate(file, IF truncated THEN g[k] ELSE g[k - 1])
      \/ UNCHANGED <<file, ldbs_size>>
  BY DEF AppendFails, bytes
<1> HIDE DEF g
<1>5. /\ Len(g) \in Nat
      /\ \A k \in 1..Len(g) : g[k] \in Nat /\ g[k] >= ldbs_size
      /\ \A k \in 1..Len(g) - 1 : g[k] < g[k + 1]
  BY <1>2, <1>3, GrownIs
<1>6. PICK N : IsFile(file, N) /\ ldbs_size <= N
  BY DEF IndInv
<1>7. N \in Nat /\ DOMAIN file = 0..N - 1
  BY <1>6 DEF IsFile
<1>8. ldbs_size \in Nat /\ PageSize <= ldbs_size /\ payload_size < ldbs_size /\ PageSize \in Nat
  BY SizeAssumption DEF IndInv
<1>9. payload_size \in Nat /\ payload_size > 0
  BY Positions
<1>10. Layout(file, infos, payload_size)
  BY DEF IndInv
<1>11. /\ \E n : IsFile(file', n) /\ ldbs_size' <= n
       /\ ldbs_size' \in Nat /\ ldbs_size <= ldbs_size'
       /\ \A p \in DOMAIN file : p < ldbs_size => p \in DOMAIN file' /\ file'[p] = file[p]
  <2>1. CASE UNCHANGED <<file, ldbs_size>>
    BY <1>6, <1>8, <2>1
  <2>2. CASE \E k \in 2..Len(g), truncated \in BOOLEAN :
               /\ ldbs_size' = g[k - 1]
               /\ file' = Truncate(file, IF truncated THEN g[k] ELSE g[k - 1])
    <3>1. PICK k \in 2..Len(g) : /\ ldbs_size' = g[k - 1]
                                 /\ \E x \in {g[k - 1], g[k]} : file' = Truncate(file, x)
      BY <2>2
    <3>0. PICK x \in {g[k - 1], g[k]} : file' = Truncate(file, x)
      BY <3>1
    <3>2. k \in 1..Len(g) /\ k - 1 \in 1..Len(g) /\ k - 1 \in 1..Len(g) - 1 /\ (k - 1) + 1 = k
      BY <1>5, <3>1
    <3>3. g[k - 1] \in Nat /\ g[k] \in Nat /\ g[k - 1] < g[k] /\ g[k - 1] >= ldbs_size
      <4>1. g[k - 1] < g[(k - 1) + 1]
        BY <1>5, <3>2
      <4> QED
        BY <1>5, <3>2, <4>1
    <3>4. x \in Nat /\ ldbs_size' <= x /\ ldbs_size <= ldbs_size'
      BY <1>8, <3>0, <3>1, <3>3
    <3>5. IsFile(file', x) /\ \A p \in DOMAIN file : p < x => file'[p] = file[p]
      BY <1>6, <3>0, <3>4, TruncateIs
    <3>6. DOMAIN file' = 0..x - 1
      BY <3>5 DEF IsFile
    <3>7. ldbs_size' \in Nat
      BY <3>1, <3>3
    <3>8. ASSUME NEW p \in DOMAIN file, p < ldbs_size
          PROVE  p \in DOMAIN file' /\ file'[p] = file[p]
      <4>1. p \in 0..x - 1 /\ p < x
        BY <1>7, <1>8, <3>4, <3>7, <3>8
      <4> QED
        BY <3>5, <3>6, <4>1
    <3> QED
      BY <3>4, <3>5, <3>7, <3>8
  <2> QED
    BY <1>4, <2>1, <2>2
<1>12. PICK n : IsFile(file', n) /\ ldbs_size' <= n
  BY <1>11
<1>13. payload_size \in DOMAIN file /\ 0 \in DOMAIN file
  BY <1>6, <1>7, <1>8, <1>9
<1>14. file[payload_size].size = 0
  BY <1>10, <1>13 DEF Layout
<1>15. payload_size \in DOMAIN file' /\ file'[payload_size] = file[payload_size] /\ file'[0] = file[0]
  BY <1>8, <1>9, <1>11, <1>13
<1>16. \A p \in DOMAIN file : p < payload_size => p \in DOMAIN file' /\ file'[p] = file[p]
  BY <1>7, <1>8, <1>9, <1>11
<1>17. Layout(file', infos, payload_size)
  BY <1>6, <1>10, <1>12, <1>14, <1>15, <1>16, LayoutKept
<1>18. infos' = infos /\ payload_size' = payload_size
  BY <1>1 DEF memVars
<1>19. heads' = heads
  <2>1. \A k \in 1..Len(infos) : infos[k].amount \in DOMAIN file /\ infos[k].amount < payload_size
    BY <1>6, <1>10, LayoutTypes, LayoutOrder
  <2>2. \A k \in 1..Len(infos) : file'[infos[k].amount] = file[infos[k].amount]
    BY <1>16, <2>1
  <2> QED
    BY <1>18, <2>2 DEF heads, Heads
<1>20. PageSize <= ldbs_size' /\ payload_size < ldbs_size'
  BY <1>8, <1>9, <1>11
<1>21. file'[0] = Sentry /\ torn' = torn
  BY <1>1, <1>15 DEF IndInv
<1>22. Numbered(heads', Len(infos'), last_index', cfg_entry_index')
  BY <1>1, <1>18, <1>19 DEF IndInv, memVars, statVars
<1>23. /\ last_index' \in Nat /\ last_term' \in Nat /\ last_config' \in Config \cup {NoConfig}
       /\ cfg_entry_index' \in Nat /\ mapped' \in BOOLEAN /\ rc' \in {"GOOD", "ERROR"} /\ torn' \in BOOLEAN
  BY <1>1 DEF IndInv, memVars, statVars
<1>24. IndInv'
  BY <1>11, <1>12, <1>17, <1>18, <1>20, <1>21, <1>22, <1>23 DEF IndInv
<1> QED
  BY <1>1, <1>19, <1>24


\* Loading a file that begins with a sentry.
LEMMA LoadInd ==
  ASSUME IndInv, NEW f, NEW n, IsFile(f, n), PageSize <= n, f[0] = Sentry, Load(f), torn' = TRUE
  PROVE  IndInv'
<1>1. Cardinality(DOMAIN f) = n
  BY FileSize
<1>2. /\ file' = f /\ ldbs_size' = n /\ mapped' = TRUE /\ infos' = InfosOf(f)
      /\ payload_size' = Last(Offsets(f)) /\ cfg_entry_index' = CfgIndexOf(f) /\ rc' = "GOOD"
      /\ last_index' = last_index /\ last_term' = last_term /\ last_config' = last_config
  BY <1>1 DEF Load, statVars
<1>3. n \in Nat /\ n > 0 /\ n <= n
  BY SizeAssumption DEF IsFile
<1>4. Layout(f, InfosOf(f), Last(Offsets(f)))
  BY <1>3, LoadedLayout
<1>5. CfgIndexOf(f) \in Nat
  BY <1>4, CfgIndexOfIs
<1>6. last_index \in Nat /\ last_term \in Nat /\ last_config \in Config \cup {NoConfig}
  BY DEF IndInv
<1> QED
  BY <1>2, <1>3, <1>4, <1>5, <1>6 DEF IndInv

\* The file a torn append leaves has what was there before it.
LEMMA TornFile ==
  ASSUME IndInv, ~torn, NEW es, IsBatch(es), AppendTorn(es)
  PROVE  \E f, n : /\ IsFile(f, n) /\ PageSize <= n /\ f[0] = Sentry /\ Load(f)
                   /\ \A p \in DOMAIN file : p < payload_size => p \in DOMAIN f /\ f[p] = file[p]
<1> DEFINE bytes == size_bytes(es)
           g == Growth(bytes)
           ws(x) == SubSeq(AllWords(es), 1, x)
<1>1. bytes \in Nat /\ DOMAIN AllWords(es) = 1..bytes /\ \A p \in 1..bytes : AllWords(es)[p] \in Word
  BY AllWordsIs
<1>3. PICK x \in 1..bytes : Load(Put(Grown(g), EndOffset, ws(x)))
  BY DEF AppendTorn
<1>4. EndOffset = payload_size /\ payload_size \in Nat /\ payload_size > 0
  BY Positions
<1>5. ldbs_size \in Nat /\ PageSize <= ldbs_size /\ PageSize \in Nat /\ PageSize >= 4 /\ file[0] = Sentry
  BY SizeAssumption DEF IndInv
<1> HIDE DEF bytes
<1>6. g = Growth(bytes)
  OBVIOUS
<1> HIDE DEF g
<1>7. /\ Last(g) \in Nat /\ Last(g) >= ldbs_size
      /\ \E n : IsFile(Grown(g), n) /\ Last(g) <= n
      /\ \A p \in DOMAIN file : p < ldbs_size => p \in DOMAIN Grown(g) /\ Grown(g)[p] = file[p]
  BY <1>1, <1>6, GrownIs
<1>8. PICK n : IsFile(Grown(g), n) /\ Last(g) <= n
  BY <1>7
<1>9. n \in Nat /\ PageSize <= n
  BY <1>5, <1>7, <1>8 DEF IsFile
<1>10. x \in Nat /\ DOMAIN ws(x) = 1..x /\ \A k \in 1..x : ws(x)[k] \in Word
  <2>1. x \in Int /\ x >= 1 /\ \A k \in 1..x : k \in 1..bytes
    BY <1>1, <1>3
  <2>2. \A k \in 1..x : AllWords(es)[k] \in Word
    BY <1>1, <2>1
  <2>3. /\ ws(x) \in Seq(Word) /\ Len(ws(x)) = IF 1 <= x THEN x - 1 + 1 ELSE 0
    BY <2>1, <2>2, SubSeqProperties
  <2>4. Len(ws(x)) = x
    BY <2>1, <2>3
  <2> HIDE DEF ws
  <2> QED
    BY <2>1, <2>3, <2>4
<1> HIDE DEF ws
<1> DEFINE f == Put(Grown(g), payload_size, ws(x))
<1>11. /\ IsFile(f, n)
       /\ \A p \in DOMAIN Grown(g) : p < payload_size \/ p >= payload_size + x => f[p] = Grown(g)[p]
  BY <1>4, <1>8, <1>10, PutIs
<1>12. Load(f)
  BY <1>3, <1>4
<1> HIDE DEF f
<1>13. f[0] = Sentry
  <2>1. 0 \in DOMAIN file /\ 0 < ldbs_size
    <3>1. PICK N : IsFile(file, N) /\ ldbs_size <= N
      BY DEF IndInv
    <3> QED
      BY <1>5, <3>1 DEF IsFile
  <2>2. 0 \in DOMAIN Grown(g) /\ Grown(g)[0] = file[0]
    BY <1>7, <2>1
  <2> QED
    BY <1>4, <1>5, <1>11, <2>2
<1>14. ASSUME NEW p \in DOMAIN file, p < payload_size
       PROVE  p \in DOMAIN f /\ f[p] = file[p]
  <2>1. PICK N : IsFile(file, N) /\ ldbs_size <= N
    BY DEF IndInv
  <2>2. p \in Nat /\ N \in Nat
    BY <2>1 DEF IsFile
  <2>3. payload_size < ldbs_size
    BY DEF IndInv
  <2>4. p < ldbs_size
    BY <1>4, <1>5, <1>14, <2>2, <2>3
  <2>5. p \in DOMAIN Grown(g) /\ Grown(g)[p] = file[p]
    BY <1>7, <2>4
  <2>6. DOMAIN f = DOMAIN Grown(g)
    BY <1>8, <1>11 DEF IsFile
  <2> QED
    BY <1>11, <1>14, <2>5, <2>6
<1> QED
  BY <1>9, <1>11, <1>12, <1>13, <1>14

LEMMA AppendTornInd ==
  ASSUME IndInv, ~torn, NEW es, IsBatch(es), AppendTorn(es)
  PROVE  /\ IndInv' /\ torn' = TRUE /\ UNCHANGED statVars
<1>1. torn' = TRUE
  BY DEF AppendTorn
<1>2. PICK f, n : IsFile(f, n) /\ PageSize <= n /\ f[0] = Sentry /\ Load(f)
  BY TornFile
<1>3. IndInv'
  BY <1>1, <1>2, LoadInd
<1> QED
  BY <1>1, <1>2, <1>3 DEF Load

\* The next process reads back what the last one knew.
LEMMA RestartInd ==
  ASSUME IndInv, Restart
  PROVE  /\ IndInv' /\ UNCHANGED <<file, infos, payload_size, statVars, torn>> /\ ldbs_size <= ldbs_size'
         /\ cfg_entry_index' = CfgIndexOf(file)
         /\ LastCfg(heads, Len(infos), cfg_entry_index')
<1>1. PICK n : IsFile(file, n) /\ ldbs_size <= n
  BY DEF IndInv
<1>2. Cardinality(DOMAIN file) = n
  BY <1>1, FileSize
<1>3. /\ file' = file /\ ldbs_size' = n /\ mapped' = TRUE /\ infos' = InfosOf(file)
      /\ payload_size' = Last(Offsets(file)) /\ cfg_entry_index' = CfgIndexOf(file) /\ rc' = "GOOD"
      /\ last_index' = last_index /\ last_term' = last_term /\ last_config' = last_config
      /\ torn' = torn
  BY <1>2 DEF Restart, Load, statVars
<1>4. Layout(file, infos, payload_size)
  BY DEF IndInv
<1>5. infos' = infos /\ payload_size' = payload_size
  BY <1>1, <1>3, <1>4, LayoutReadBack
<1>6. CfgIndexOf(file) \in Nat /\ LastCfg(heads, Len(infos), CfgIndexOf(file))
  BY <1>1, <1>4, CfgIndexOfIs DEF heads
<1>7. heads' = heads
  BY <1>3, <1>5 DEF heads
<1>8. Len(infos) \in Nat /\ payload_size \in Nat /\ heads[1] = Sentry /\ Len(infos) > 0
  <2>1. /\ Len(infos) \in Nat /\ Len(infos) > 0 /\ payload_size \in Nat
        /\ \A k \in 1..Len(infos) : heads[k] = file[infos[k].amount]
    BY Positions
  <2>2. infos[1].amount = 0 /\ file[0] = Sentry /\ 1 \in 1..Len(infos)
    BY <1>4, <2>1 DEF Layout, IndInv
  <2> QED
    BY <2>1, <2>2
<1>9. ASSUME ~torn
      PROVE  Numbered(heads, Len(infos), last_index, CfgIndexOf(file))
  <2>1. Numbered(heads, Len(infos), last_index, cfg_entry_index) /\ last_index \in Nat
    BY <1>9 DEF IndInv
  <2>2. CfgWithin(heads, last_index, CfgIndexOf(file), Len(infos))
    <3>1. CASE CfgIndexOf(file) = 0
      BY <2>1, <3>1 DEF CfgWithin
    <3>2. CASE CfgIndexOf(file) # 0
      <4>1. PICK k \in 1..Len(infos) : heads[k].cfg /\ CfgIndexOf(file) = heads[k].index
        BY <1>6, <3>2 DEF LastCfg
      <4>2. k # 1
        BY <1>8, <4>1, ConstantWords
      <4>3. k \in 2..Len(infos)
        BY <1>8, <4>1, <4>2
      <4>4. heads[k].index = last_index + k - 1
        BY <2>1, <4>3 DEF Numbered
      <4>5. CfgIndexOf(file) - last_index + 1 = k
        BY <1>8, <2>1, <4>1, <4>3, <4>4
      <4> QED
        BY <4>1, <4>3, <4>5 DEF CfgWithin
    <3> QED
      BY <3>1, <3>2
  <2> QED
    BY <2>1, <2>2 DEF Numbered
<1>10. ASSUME ~torn'
       PROVE  payload_size' < ldbs_size' /\ Numbered(heads', Len(infos'), last_index', cfg_entry_index')
  <2>1. payload_size < ldbs_size /\ ldbs_size \in Nat /\ n \in Nat
    BY <1>1, <1>3, <1>10 DEF IndInv, IsFile
  <2> QED
    BY <1>1, <1>3, <1>5, <1>7, <1>8, <1>9, <1>10, <2>1
<1>11. ldbs_size' \in Nat /\ PageSize <= ldbs_size' /\ ldbs_size' <= n
  BY <1>1, <1>3, SizeAssumption DEF IndInv, IsFile
<1>12. IndInv'
  BY <1>1, <1>3, <1>4, <1>5, <1>6, <1>10, <1>11 DEF IndInv
<1> QED
  BY <1>1, <1>3, <1>5, <1>6, <1>12 DEF statVars


LEMMA ChopEffect ==
  ASSUME IndInv, ~torn, NEW i \in Nat, i - last_index + 1 \in 2..Len(infos),
         chop_to(i), ldbs_size' = ldbs_size
  PROVE  /\ Laid' /\ payload_size' < ldbs_size'
         /\ Len(infos') = i - last_index
         /\ \A k \in 1..i - last_index : heads'[k] = heads[k]
<1> DEFINE m == i - last_index + 1
           pos == infos[m].amount
           kept == SubSeq(infos, 1, m - 1)
           g == Mark(file, pos)
<1>1. PICK n : IsFile(file, n) /\ ldbs_size <= n
  BY DEF IndInv
<1>2. Layout(file, infos, payload_size) /\ payload_size < ldbs_size /\ last_index \in Nat
  BY DEF IndInv
<1>3. Len(infos) \in Nat /\ payload_size \in Nat
  BY Positions
<1>4. InfoAt(i) = infos[m]
  BY Indices
<1>5. m - 1 = i - last_index /\ m \in 2..Len(infos) /\ m \in 1..Len(infos) /\ m - 1 \in Nat /\ m - 1 > 0
  BY <1>2, <1>3
<1>6. file' = g /\ payload_size' = pos /\ infos' = kept
  BY <1>4, <1>5 DEF chop_to, KeptInfos
<1> HIDE DEF m
<1>7. Layout(g, kept, pos) /\ \A k \in 1..m - 1 : g[infos[k].amount] = file[infos[k].amount]
  BY <1>1, <1>2, <1>5, LayoutChop
<1>8. pos \in DOMAIN file /\ pos < payload_size /\ pos \in Nat
  BY <1>1, <1>2, <1>5, LayoutTypes, LayoutOrder
<1>9. IsFile(g, n) /\ \A p \in DOMAIN file : p # pos => g[p] = file[p]
  BY <1>1, <1>8, MarkIs
<1>10. infos \in Seq(Info) /\ 1 \in 1..Len(infos) /\ 1 < m /\ infos[1].amount = 0
  BY <1>2, <1>3, <1>5 DEF Layout
<1>11. Len(kept) = m - 1 /\ \A k \in 1..m - 1 : kept[k] = infos[k]
  BY <1>3, <1>5, <1>10
<1> HIDE DEF g, kept, pos
<1>12. g[0] = file[0]
  <2>1. 1 \in 1..m - 1
    BY <1>5
  <2> QED
    BY <1>7, <1>10, <2>1
<1>13. pos < ldbs_size
  <2>1. ldbs_size \in Nat
    BY DEF IndInv
  <2> QED
    BY <1>2, <1>3, <1>8, <2>1
<1>14. ASSUME NEW k \in 1..m - 1
       PROVE  heads'[k] = heads[k]
  <2>1. k \in 1..Len(infos) /\ k \in 1..Len(kept)
    BY <1>3, <1>5, <1>11
  <2>2. heads[k] = file[infos[k].amount]
    BY <2>1 DEF heads, Heads
  <2>3. heads'[k] = g[kept[k].amount]
    BY <1>6, <2>1 DEF heads, Heads
  <2> QED
    BY <1>7, <1>11, <2>2, <2>3
<1>15. Laid'
  BY <1>1, <1>6, <1>7, <1>9, <1>12 DEF Laid, IndInv
<1> QED
  BY <1>5, <1>6, <1>11, <1>13, <1>14, <1>15

LEMMA ChopInd ==
  ASSUME IndInv, ~torn, NEW i \in Nat, Chop(i)
  PROVE  IndInv'
<1> DEFINE n == Len(infos)
           m == i - last_index
           c == CfgBefore(cfg_entry_index, i - 1)
<1>1. i > 0 /\ InRange(i)
  BY DEF Chop
<1>2. i - last_index + 1 \in 2..n
  BY <1>1, Indices
<1>3. n \in Nat
  BY Positions
<1>4. /\ last_index \in Nat /\ cfg_entry_index \in Nat /\ Numbered(heads, n, last_index, cfg_entry_index)
      /\ last_term \in Nat /\ last_config \in Config \cup {NoConfig} /\ mapped \in BOOLEAN
  BY DEF IndInv
<1>5. /\ chop_to(i) /\ ldbs_size' = ldbs_size /\ mapped' = mapped /\ torn' = torn
      /\ last_index' = last_index /\ last_term' = last_term /\ last_config' = last_config
      /\ cfg_entry_index' = c /\ rc' \in {"GOOD", "ERROR"}
  BY DEF Chop, CfgAfterChop, statVars
<1>6. Laid' /\ payload_size' < ldbs_size' /\ Len(infos') = m /\ \A k \in 1..m : heads'[k] = heads[k]
  BY <1>2, <1>5, ChopEffect
<1>7. i - 1 \in Nat /\ i - 1 >= last_index /\ m \in 1..n
  BY <1>2, <1>3, <1>4
<1>8. c \in Nat /\ c <= i - 1 /\ CfgWithin(heads, last_index, c, n)
  BY <1>7, CfgFound
<1> HIDE DEF c, n
<1>9. CfgWithin(heads, last_index, c, m)
  BY <1>2, <1>3, <1>4, <1>7, <1>8 DEF CfgWithin
<1> DEFINE new == heads'
<1>10. \A k \in 1..m : new[k] = heads[k]
  BY <1>6
<1> HIDE DEF new, m, heads
<1>11. Numbered(new, m, last_index, c)
  BY <1>3, <1>4, <1>7, <1>8, <1>9, <1>10, NumberedChop
<1>12. Numbered(heads', Len(infos'), last_index', cfg_entry_index')
  BY <1>5, <1>6, <1>11 DEF new
<1> QED
  BY <1>4, <1>5, <1>6, <1>8, <1>12 DEF IndInv, Laid

\* The configuration drop finds is one.
LEMMA ConfigUpToType ==
  ASSUME IndInv, ~torn, NEW i \in Nat, i >= last_index
  PROVE  ConfigUpTo(i) \in Config \cup {NoConfig}
<1> DEFINE c == CfgBefore(cfg_entry_index, i)
           k == c - last_index + 1
<1>1. c \in Nat /\ CfgWithin(heads, last_index, c, Len(infos))
  BY CfgFound
<1>2. ConfigUpTo(i) = IF c > 0 /\ InRange(c) THEN EntryAt(c).data ELSE NoConfig
  BY DEF ConfigUpTo
<1> HIDE DEF c
<1>3. ASSUME c > 0, InRange(c)
      PROVE  EntryAt(c).data \in Config
  <2>1. k \in 2..Len(infos) /\ EntryAt(c) = heads[k]
    BY <1>1, <1>3, Indices
  <2>2. last_index \in Nat /\ Numbered(heads, Len(infos), last_index, cfg_entry_index)
    BY DEF IndInv
  <2>3. ~(c <= last_index)
    BY <1>1, <2>1, <2>2
  <2>4. heads[k].cfg
    BY <1>1, <2>3 DEF CfgWithin
  <2> QED
    BY <2>1, <2>2, <2>4 DEF Numbered
<1> QED
  BY <1>2, <1>3

LEMMA DropAllInd ==
  ASSUME IndInv, ~torn, NEW i \in Nat, DropAll(i)
  PROVE  IndInv' /\ Len(infos') = 1 /\ Len(infos) > 1 /\ i = last_index + Len(infos) - 1
<1> DEFINE n == Len(infos)
<1>1. i > 0 /\ InRange(i) /\ i = Last(infos).index /\ chop_to(last_index + 1)
  BY DEF DropAll
<1>2. i - last_index + 1 \in 2..n
  BY <1>1, Indices
<1>3. n \in Nat
  BY Positions
<1>4. /\ last_index \in Nat /\ last_term \in Nat /\ last_config \in Config \cup {NoConfig} /\ mapped \in BOOLEAN
  BY DEF IndInv
<1>5. n > 1 /\ i = last_index + n - 1 /\ i >= last_index
  <2>1. Last(infos).index = IF n = 1 THEN 0 ELSE last_index + n - 1
    BY Indices
  <2> HIDE DEF n
  <2> QED
    BY <1>1, <1>2, <1>3, <1>4, <2>1
<1>6. last_index + 1 \in Nat /\ (last_index + 1) - last_index + 1 \in 2..n /\ (last_index + 1) - last_index = 1
  BY <1>3, <1>4, <1>5
<1>7. ldbs_size' = ldbs_size /\ mapped' = mapped /\ torn' = torn /\ cfg_entry_index' = 0 /\ rc' \in {"GOOD", "ERROR"}
  BY DEF DropAll
<1>8. Laid' /\ payload_size' < ldbs_size' /\ Len(infos') = 1
  <2>1. Len(infos') = (last_index + 1) - last_index /\ Laid' /\ payload_size' < ldbs_size'
    BY <1>1, <1>6, <1>7, ChopEffect
  <2> QED
    BY <1>6, <2>1
<1>9. last_index' \in Nat /\ last_term' \in Nat /\ last_config' \in Config \cup {NoConfig}
  <2>1. CASE mapped /\ copy_states(ConfigUpTo(i), i, EntryAt(i).term)
    <3>1. ConfigUpTo(i) \in Config \cup {NoConfig}
      BY <1>5, ConfigUpToType
    <3>2. i - last_index + 1 \in 1..n
      BY <1>2
    <3>3. EntryAt(i) \in Word
      BY <1>2, <3>2, Indices, Positions
    <3>4. EntryAt(i).term \in Nat
      BY <3>3, WordFields
    <3> QED
      BY <1>4, <2>1, <3>1, <3>4 DEF copy_states
  <2>2. CASE ~mapped /\ UNCHANGED statVars
    BY <1>4, <2>2 DEF statVars
  <2> QED
    BY <2>1, <2>2 DEF DropAll
<1>10. Numbered(heads', Len(infos'), last_index', cfg_entry_index')
  BY <1>7, <1>8, <1>9 DEF Numbered, CfgWithin
<1> QED
  BY <1>4, <1>5, <1>7, <1>8, <1>9, <1>10 DEF IndInv, Laid

LEMMA TransferInd ==
  ASSUME IndInv, ~torn, NEW i \in Nat, NEW t \in Nat, NEW c \in Config \cup {NoConfig}, Transfer(i, t, c)
  PROVE  IndInv' /\ Len(infos') = 1
<1>1. i >= last_index /\ ldbs_size' = ldbs_size /\ mapped' = mapped /\ torn' = torn /\ rc' = rc
  BY DEF Transfer
<1>2. /\ last_index \in Nat /\ last_term \in Nat /\ last_config \in Config \cup {NoConfig} /\ mapped \in BOOLEAN
      /\ cfg_entry_index \in Nat /\ rc \in {"GOOD", "ERROR"}
  BY DEF IndInv
<1>3. last_index' = i /\ last_term' = t /\ last_config' \in Config \cup {NoConfig}
  BY <1>2 DEF Transfer, copy_states
<1>4. Len(infos) \in Nat /\ Len(infos) > 0
  BY Positions
<1>5. Laid' /\ payload_size' < ldbs_size' /\ Len(infos') = 1 /\ cfg_entry_index' \in Nat /\ cfg_entry_index' <= last_index
  <2>1. CASE Len(infos) = 1 /\ UNCHANGED <<file, payload_size, infos, cfg_entry_index>>
    <3>1. cfg_entry_index <= last_index + Len(infos) - 1
      BY Indices
    <3>2. cfg_entry_index <= last_index
      BY <1>2, <2>1, <3>1
    <3> QED
      BY <1>1, <1>2, <2>1, <3>2 DEF Laid, IndInv
  <2>2. CASE Len(infos) > 1 /\ cfg_entry_index' = CfgAfterChop(last_index + 1) /\ chop_to(last_index + 1)
    <3>1. last_index + 1 \in Nat /\ (last_index + 1) - last_index + 1 \in 2..Len(infos) /\ (last_index + 1) - last_index = 1
          /\ (last_index + 1) - 1 = last_index
      BY <1>2, <1>4, <2>2
    <3>2. Laid' /\ payload_size' < ldbs_size' /\ Len(infos') = (last_index + 1) - last_index
      BY <1>1, <2>2, <3>1, ChopEffect
    <3>3. CfgBefore(cfg_entry_index, last_index) \in Nat /\ CfgBefore(cfg_entry_index, last_index) <= last_index
      <4>1. last_index >= last_index
        BY <1>2
      <4> QED
        BY <1>2, <4>1, CfgFound
    <3>4. cfg_entry_index' = CfgBefore(cfg_entry_index, last_index)
      BY <2>2, <3>1 DEF CfgAfterChop
    <3> QED
      BY <3>1, <3>2, <3>3, <3>4
  <2> QED
    BY <2>1, <2>2 DEF Transfer
<1>6. cfg_entry_index' <= last_index'
  BY <1>1, <1>2, <1>3, <1>5
<1>7. Numbered(heads', Len(infos'), last_index', cfg_entry_index')
  BY <1>5, <1>6 DEF Numbered, CfgWithin
<1> QED
  BY <1>1, <1>2, <1>3, <1>5, <1>7 DEF IndInv, Laid


\* An entry of the table after the move.
LEMMA MovedInfo ==
  ASSUME NEW r \in Info, NEW d \in Nat, d <= r.amount
  PROVE  /\ [r EXCEPT !.amount = @ - d] \in Info
         /\ [r EXCEPT !.amount = @ - d].index = r.index
         /\ [r EXCEPT !.amount = @ - d].amount = r.amount - d
<1>1. r.amount - d \in Nat
  BY DEF Info
<1> QED
  BY <1>1 DEF Info

LEMMA MovedInfosIs ==
  ASSUME IndInv, ~torn, NEW i \in Nat, NEW m, m = i - last_index + 1, m \in 2..Len(infos) - 1,
         NEW d, d = infos[m + 1].amount - infos[2].amount
  PROVE  MovesTo(infos, m, d, MovedInfos(i, d)) /\ d \in Nat
<1> DEFINE L == Len(infos)
           rest == [k \in 1..L - (i - last_index) - 1 |-> [infos[k + i - last_index + 1] EXCEPT !.amount = @ - d]]
           one == <<infos[1]>>
           moved == MovedInfos(i, d)
<1>1. PICK n : IsFile(file, n) /\ ldbs_size <= n
  BY DEF IndInv
<1>2. Layout(file, infos, payload_size) /\ last_index \in Nat
  BY DEF IndInv
<1>3. L \in Nat /\ \A k \in 1..L : infos[k] \in Info /\ infos[k].amount \in Nat /\ file[infos[k].amount].size \in Nat
  BY <1>1, <1>2, LayoutTypes
<1>4. \A j, k \in 1..L : j < k => infos[j].amount + file[infos[j].amount].size <= infos[k].amount
  BY <1>1, <1>2, LayoutOrder
<1>5. moved = one \o rest
  BY DEF MovedInfos
<1> HIDE DEF L
<1>6. m \in Nat /\ m \in 2..L - 1
  BY <1>3 DEF L
<1>7. \A j, k \in 1..L : j <= k => infos[j].amount <= infos[k].amount
  <2>1. ASSUME NEW j \in 1..L, NEW k \in 1..L, j <= k
        PROVE  infos[j].amount <= infos[k].amount
    <3>1. CASE j = k
      BY <1>3, <3>1
    <3>2. CASE j < k
      <4>1. infos[j].amount + file[infos[j].amount].size <= infos[k].amount
        BY <1>4, <3>2
      <4>2. infos[j].amount \in Nat /\ infos[k].amount \in Nat /\ file[infos[j].amount].size \in Nat
        BY <1>3
      <4> QED
        BY SMTT(30), <4>1, <4>2
    <3> QED
      BY <1>3, <2>1, <3>1, <3>2
  <2> QED
    BY <2>1
<1>8. 2 \in 1..L /\ m + 1 \in 1..L /\ 2 <= m + 1 /\ 1 \in 1..L
  BY <1>3, <1>6
<1>9. d \in Nat /\ d <= infos[m + 1].amount
  BY SMTT(30), <1>3, <1>7, <1>8
<1>10. ASSUME NEW k \in 1..L - m
       PROVE  /\ k + m \in 1..L /\ k + i - last_index + 1 = k + m
              /\ [infos[k + m] EXCEPT !.amount = @ - d] \in Info
              /\ [infos[k + m] EXCEPT !.amount = @ - d].index = infos[k + m].index
              /\ [infos[k + m] EXCEPT !.amount = @ - d].amount = infos[k + m].amount - d
  <2>1. k + m \in 1..L /\ k + i - last_index + 1 = k + m /\ m + 1 <= k + m
    BY <1>2, <1>3, <1>6
  <2>2. infos[k + m] \in Info /\ d <= infos[k + m].amount
    <3>1. infos[m + 1].amount <= infos[k + m].amount
      BY <1>7, <1>8, <2>1
    <3>2. infos[k + m] \in Info /\ infos[k + m].amount \in Nat /\ infos[m + 1].amount \in Nat
      BY <1>3, <1>8, <2>1
    <3> QED
      BY <1>9, <3>1, <3>2
  <2> QED
    BY <1>9, <2>1, <2>2, MovedInfo
<1>11. rest = [k \in 1..L - m |-> [infos[k + m] EXCEPT !.amount = @ - d]]
  <2>1. L - (i - last_index) - 1 = L - m
    BY <1>2, <1>3
  <2>2. rest = [k \in 1..L - m |-> [infos[k + i - last_index + 1] EXCEPT !.amount = @ - d]]
    BY <2>1
  <2> HIDE DEF rest
  <2> QED
    BY <1>10, <2>2
<1> HIDE DEF rest
<1>12. L - m \in Nat
  BY <1>3, <1>6
<1>13. rest \in Seq(Info) /\ Len(rest) = L - m
  BY <1>10, <1>11, <1>12
<1>14. \A k \in 1..L - m : rest[k].index = infos[k + m].index /\ rest[k].amount = infos[k + m].amount - d
  BY <1>10, <1>11
<1>15. one \in Seq(Info) /\ Len(one) = 1 /\ one[1] = infos[1]
  BY <1>3, <1>8
<1> HIDE DEF one, moved
<1>16. moved \in Seq(Info) /\ Joined(moved, one, rest)
  BY <1>5, <1>13, <1>15, ConcatIs
<1>17. Len(moved) = L - m + 1
  BY <1>12, <1>13, <1>15, <1>16 DEF Joined
<1>18. moved[1] = infos[1]
  BY <1>15, <1>16 DEF Joined
<1>19. ASSUME NEW k \in 2..Len(moved)
       PROVE  moved[k].index = infos[k + m - 1].index /\ moved[k].amount = infos[k + m - 1].amount - d
  <2>1. k - 1 \in 1..L - m /\ 1 + (k - 1) = k /\ (k - 1) + m = k + m - 1
    BY <1>6, <1>12, <1>17
  <2>2. moved[1 + (k - 1)] = rest[k - 1]
    BY <1>13, <1>15, <1>16, <2>1 DEF Joined
  <2>3. rest[k - 1].index = infos[(k - 1) + m].index /\ rest[k - 1].amount = infos[(k - 1) + m].amount - d
    BY <1>14, <2>1
  <2> QED
    BY <2>1, <2>2, <2>3
<1> QED
  BY <1>9, <1>16, <1>17, <1>18, <1>19 DEF moved, L, MovesTo

LEMMA DropEffect ==
  ASSUME IndInv, ~torn, NEW i \in Nat, DropFront(i), NEW m, m = i - last_index + 1
  PROVE  /\ m \in 2..Len(infos) - 1
         /\ Laid' /\ payload_size' < ldbs_size'
         /\ Len(infos') = Len(infos) - m + 1
         /\ \A k \in 2..Len(infos') : heads'[k] = heads[k + m - 1]
<1> DEFINE L == Len(infos)
           d == infos[m + 1].amount - infos[2].amount
           moved == MovedInfos(i, d)
           end == payload_size
           g == Mark(Move(file, infos[2].amount, infos[m + 1].amount, end - infos[m + 1].amount), end - d)
<1>1. PICK n : IsFile(file, n) /\ ldbs_size <= n
  BY DEF IndInv
<1>2. Layout(file, infos, end) /\ last_index \in Nat /\ end < ldbs_size /\ ldbs_size \in Nat /\ PageSize <= ldbs_size
      /\ file[0] = Sentry
  BY DEF IndInv
<1>3. L \in Nat /\ end \in Nat /\ EndOffset = end
  BY Positions
<1>4. i > 0 /\ InRange(i) /\ i < Last(infos).index
  BY DEF DropFront
<1>5. m \in 2..L - 1
  <2>1. i - last_index + 1 \in 2..L
    BY <1>4, Indices
  <2>2. Last(infos).index = IF L = 1 THEN 0 ELSE last_index + L - 1
    BY Indices
  <2> HIDE DEF L
  <2> QED
    BY <1>2, <1>3, <1>4, <2>1, <2>2
<1>6. InfoAt(i + 1) = infos[m + 1]
  <2>1. i + 1 \in Nat /\ (i + 1) - last_index + 1 \in 2..L /\ (i + 1) - last_index + 1 = m + 1
    BY <1>2, <1>3, <1>5
  <2>2. InfoAt(i + 1) = infos[(i + 1) - last_index + 1]
    BY <2>1, Indices
  <2> QED
    BY <2>1, <2>2
<1>7. payload_size' = end - d /\ infos' = moved /\ file' = g /\ ldbs_size' = ldbs_size
  BY <1>3, <1>6 DEF DropFront
<1>8. MovesTo(infos, m, d, moved) /\ d \in Nat
  <2>1. d = infos[m + 1].amount - infos[2].amount
    OBVIOUS
  <2> HIDE DEF d
  <2> QED
    BY <1>5, <2>1, MovedInfosIs
<1>9. end \in DOMAIN file
  BY <1>1, <1>2, <1>3 DEF IsFile
<1>10. DropsTo(file, infos, end, m, d, g, moved)
  <2>1. d = infos[m + 1].amount - infos[2].amount
    OBVIOUS
  <2>2. g = Mark(Move(file, infos[2].amount, infos[m + 1].amount, end - infos[m + 1].amount), end - d)
    OBVIOUS
  <2> HIDE DEF d, g, moved, end
  <2> QED
    BY <1>5, <1>8, <1>9, <2>1, <2>2 DEF DropsTo
<1> HIDE DEF d, g, moved, end
<1>11. /\ IsFile(g, n) /\ Layout(g, moved, end - d) /\ end - d <= end
       /\ g[0] = file[0]
       /\ \A k \in 2..Len(moved) : g[moved[k].amount] = file[infos[k + m - 1].amount]
  BY <1>1, <1>2, <1>10, LayoutDrop
<1>12. end - d < ldbs_size
  BY <1>2, <1>3, <1>8, <1>11
<1>13. ASSUME NEW k \in 2..Len(infos')
       PROVE  heads'[k] = heads[k + m - 1]
  <2>1. Len(moved) = L - m + 1 /\ L \in Nat /\ Len(infos') = Len(moved)
    BY <1>3, <1>7, <1>8 DEF MovesTo
  <2>2. k \in 2..Len(moved) /\ k \in 1..Len(infos')
    BY <2>1
  <2>3. k + m - 1 \in 1..L
    BY <1>5, <2>1
  <2>4. heads[k + m - 1] = file[infos[k + m - 1].amount]
    BY <2>3 DEF heads, Heads
  <2>5. heads'[k] = g[moved[k].amount]
    BY <1>7, <2>2 DEF heads, Heads
  <2> QED
    BY <1>11, <2>2, <2>4, <2>5
<1>14. Laid'
  BY <1>1, <1>2, <1>7, <1>11 DEF Laid
<1> QED
  BY <1>5, <1>7, <1>8, <1>12, <1>13, <1>14 DEF MovesTo

LEMMA DropFrontInd ==
  ASSUME IndInv, ~torn, NEW i \in Nat, DropFront(i)
  PROVE  IndInv'
<1> DEFINE n == Len(infos)
           m == i - last_index + 1
           c == IF i >= cfg_entry_index THEN 0 ELSE cfg_entry_index
           new == heads'
<1>1. /\ m \in 2..n - 1 /\ Laid' /\ payload_size' < ldbs_size'
      /\ Len(infos') = n - m + 1 /\ \A k \in 2..Len(infos') : heads'[k] = heads[k + m - 1]
  <2>1. m = i - last_index + 1
    OBVIOUS
  <2> HIDE DEF m
  <2> QED
    BY <2>1, DropEffect
<1>2. n \in Nat /\ \A k \in 1..n : heads[k].prev \in Nat
  BY Positions
<1>3. /\ last_index \in Nat /\ cfg_entry_index \in Nat /\ Numbered(heads, n, last_index, cfg_entry_index)
      /\ last_term \in Nat /\ last_config \in Config \cup {NoConfig} /\ mapped \in BOOLEAN
  BY DEF IndInv
<1>4. /\ mapped' = mapped /\ torn' = torn /\ rc' \in {"GOOD", "ERROR"} /\ cfg_entry_index' = c
      /\ copy_states(ConfigUpTo(i), i, EntryAt(i).term)
  BY DEF DropFront
<1>5. last_index + m - 1 = i /\ i >= last_index /\ m \in 1..n /\ i - last_index + 1 \in 2..n
  <2>1. m \in 2..n - 1 /\ n \in Nat /\ last_index \in Nat /\ m = i - last_index + 1
    BY <1>1, <1>2, <1>3
  <2> HIDE DEF n, m
  <2> QED
    BY <2>1
<1>6. last_index' = i /\ last_term' \in Nat /\ last_config' \in Config \cup {NoConfig}
  <2>1. ConfigUpTo(i) \in Config \cup {NoConfig}
    BY <1>5, ConfigUpToType
  <2>2. EntryAt(i) \in Word
    BY <1>5, Indices, Positions
  <2>3. EntryAt(i).term \in Nat
    BY <2>2, WordFields
  <2> QED
    BY <1>3, <1>4, <2>1, <2>3 DEF copy_states
<1>7. \A k \in 2..n - m + 1 : new[k] = heads[k + m - 1]
  BY <1>1
<1>8. c \in Nat /\ c = IF last_index + m - 1 >= cfg_entry_index THEN 0 ELSE cfg_entry_index
  BY <1>3, <1>5
<1> HIDE DEF new, n, m, c, heads
<1>9. Numbered(new, n - m + 1, last_index + m - 1, c)
  BY <1>2, <1>3, <1>5, <1>7, <1>8, NumberedDrop
<1>10. Numbered(heads', Len(infos'), last_index', cfg_entry_index')
  BY <1>1, <1>4, <1>5, <1>6, <1>9 DEF new
<1> QED
  BY <1>1, <1>3, <1>4, <1>6, <1>8, <1>10 DEF IndInv, Laid

-----------------------------------------------------------------------------
(***************************************************************************)
(* The invariant of the file.                                              *)
(***************************************************************************)
LEMMA TermType ==
  ASSUME IndInv, NEW t \in last_entry_term..MaxTerm
  PROVE  t \in Nat
<1>1. /\ Len(infos) \in Nat /\ Len(infos) > 0 /\ Last(infos) = infos[Len(infos)]
      /\ \A k \in 1..Len(infos) : heads[k] = file[infos[k].amount] /\ heads[k] \in Word
  BY Positions
<1>2. last_entry \in Word
  BY <1>1 DEF last_entry
<1>3. last_entry_term \in Nat
  BY <1>2, WordFields DEF last_entry_term, IndInv
<1> QED
  BY <1>3, LogBoundsAssumption

\* The index an append is recorded with.
LEMMA LastMade ==
  ASSUME IndInv, ~torn, NEW t \in Nat, NEW ds \in Batches
  PROVE  /\ Last(make_entries(t, ds)).index = last_index + Len(infos) - 1 + Len(make_entries(t, ds))
         /\ Last(make_entries(t, ds)).index \in Nat
<1> DEFINE es == make_entries(t, ds)
           L == Len(infos)
<1>1. PICK n \in 1..MaxBatch : ds \in [1..n -> Content]
  BY DEF Batches
<1>2. n \in Nat /\ n > 0
  BY <1>1, LogBoundsAssumption
<1>3. DOMAIN ds = 1..n
  BY <1>1
<1>4. L \in Nat /\ L > 0
  BY Positions
<1>5. last_index \in Nat /\ last_entry_index = last_index + L - 1
  BY Indices
<1> HIDE DEF L
<1>6. es = [k \in 1..n |-> make_entry(last_entry_index + k, t, ds[k])]
  BY <1>3 DEF make_entries
<1> HIDE DEF es
<1>7. Len(es) = n /\ Last(es) = es[n]
  BY <1>2, <1>6 DEF Last
<1>8. es[n] = make_entry(last_entry_index + n, t, ds[n])
  BY <1>2, <1>6
<1>9. es[n].index = last_entry_index + n
  BY <1>8 DEF make_entry
<1>10. Last(es).index = last_index + L - 1 + Len(es) /\ last_index + L - 1 + Len(es) \in Nat
  BY <1>2, <1>4, <1>5, <1>7, <1>9
<1> QED
  BY <1>10 DEF es, L

LEMMA NextInd ==
  ASSUME IndInv, [Next]_vars
  PROVE  IndInv'
<1>1. CASE UNCHANGED vars
  BY <1>1 DEF vars, fileVars, statVars, memVars, IndInv, heads
<1>2. ASSUME ~torn, NEW t \in last_entry_term..MaxTerm, NEW ds \in Batches, t > 0,
             AppendEntries(make_entries(t, ds)) \/ AppendFails(make_entries(t, ds)) \/ AppendTorn(make_entries(t, ds))
      PROVE  IndInv'
  <2>1. t \in Nat
    BY <1>2, TermType
  <2>2. IsBatch(make_entries(t, ds))
    BY <1>2, <2>1, Made
  <2> QED
    BY <1>2, <2>1, <2>2, AppendInd, AppendFailsInd, AppendTornInd
<1>3. ASSUME ~torn, NEW i \in 1..MaxIndex, Chop(i) \/ DropAll(i) \/ DropFront(i)
      PROVE  IndInv'
  <2>1. i \in Nat
    BY LogBoundsAssumption
  <2> QED
    BY <1>3, <2>1, ChopInd, DropAllInd, DropFrontInd
<1>4. ASSUME ~torn, NEW i \in 0..MaxIndex, NEW t \in 0..MaxTerm, NEW c \in Config \cup {NoConfig}, Transfer(i, t, c)
      PROVE  IndInv'
  <2>1. i \in Nat /\ t \in Nat
    BY LogBoundsAssumption
  <2> QED
    BY <1>4, <2>1, TransferInd
<1>5. CASE Restart
  BY <1>5, RestartInd
<1> QED
  BY <1>1, <1>2, <1>3, <1>4, <1>5 DEF Next

LEMMA IndInvInvariant == Spec => []IndInv
<1>1. Init => IndInv
  BY InitInd
<1>2. IndInv /\ [Next]_vars => IndInv'
  BY NextInd
<1> QED
  BY <1>1, <1>2, PTL DEF Spec

LEMMA AskedInvariant == Spec => [](asked \in Request)
<1>1. Init => asked \in Request
  BY DEF Init, Request
<1>2. IndInv /\ asked \in Request /\ [Next]_vars => (asked \in Request)'
  <2> SUFFICES ASSUME IndInv, asked \in Request, [Next]_vars
               PROVE  asked' \in Request
    OBVIOUS
  <2>1. CASE UNCHANGED vars \/ Restart
    BY <2>1 DEF vars, Restart
  <2>2. ASSUME ~torn, NEW t \in last_entry_term..MaxTerm, NEW ds \in Batches,
               Ask("append", Last(make_entries(t, ds)).index)
        PROVE  asked' \in Request
    <3>1. t \in Nat
      BY TermType
    <3>2. Last(make_entries(t, ds)).index \in Nat
      BY <2>2, <3>1, LastMade
    <3> QED
      BY <2>2, <3>2 DEF Ask, Request
  <2>3. ASSUME NEW i \in Nat, NEW op \in {"chop", "drop", "transfer"}, Ask(op, i)
        PROVE  asked' \in Request
    BY <2>3 DEF Ask, Request
  <2>4. ASSUME ~torn, NEW t \in last_entry_term..MaxTerm, NEW ds \in Batches,
               AppendEntries(make_entries(t, ds)) \/ AppendFails(make_entries(t, ds)) \/ AppendTorn(make_entries(t, ds))
        PROVE  asked' \in Request
    BY <2>2, <2>4 DEF AppendEntries, AppendFails, AppendTorn
  <2>5. ASSUME NEW i \in 1..MaxIndex, Chop(i) \/ DropAll(i) \/ DropFront(i)
        PROVE  asked' \in Request
    <3>1. i \in Nat
      BY LogBoundsAssumption
    <3> QED
      BY <2>3, <2>5, <3>1 DEF Chop, DropAll, DropFront
  <2>6. ASSUME NEW i \in 0..MaxIndex, NEW t, NEW c, Transfer(i, t, c)
        PROVE  asked' \in Request
    <3>1. i \in Nat
      BY LogBoundsAssumption
    <3> QED
      BY <2>3, <2>6, <3>1 DEF Transfer
  <2> QED
    BY <2>1, <2>4, <2>5, <2>6 DEF Next
<1> QED
  BY <1>1, <1>2, IndInvInvariant, PTL DEF Spec

\* Type correctness, for every page size, every bound and every size of the contents.
THEOREM LogTypes == Spec => []TypeOK
<1>1. IndInv /\ asked \in Request => TypeOK
  BY IndInvIs
<1> QED
  BY <1>1, IndInvInvariant, AskedInvariant, PTL

\* The files always have the shape that init expects: entry_logger's table infos, its
\* payload_size, the words in raft.ldbs, the indices behind last_index and the links of
\* the configuration entries agree after every append, chop, drop, data transfer, failed
\* growth and restart.
THEOREM FileIsLaidOut == Spec => []FileInv
<1>1. IndInv /\ asked \in Request => FileInv
  BY IndInvIs
<1> QED
  BY <1>1, IndInvInvariant, AskedInvariant, PTL

\* A process that dies between two operations leaves files from which init rebuilds the
\* same table, end and size.
THEOREM FilesReadBack == Spec => []ReloadAgrees
<1>1. IndInv => ReloadAgrees
  <2> SUFFICES ASSUME IndInv, ~torn
               PROVE  Readable(file) /\ InfosOf(file) = infos /\ Last(Offsets(file)) = payload_size
    BY DEF ReloadAgrees
  <2>1. PICK n : IsFile(file, n) /\ ldbs_size <= n
    BY DEF IndInv
  <2>2. Layout(file, infos, payload_size) /\ payload_size < ldbs_size /\ ldbs_size \in Nat
    BY DEF IndInv
  <2>3. InfosOf(file) = infos /\ Last(Offsets(file)) = payload_size
    BY <2>1, <2>2, LayoutReadBack
  <2>4. payload_size \in Nat
    BY Positions
  <2>5. payload_size \in DOMAIN file
    BY <2>1, <2>2, <2>4 DEF IsFile
  <2> QED
    BY <2>3, <2>5 DEF Readable
<1> QED
  BY <1>1, IndInvInvariant, PTL

\* append never writes an entry or the end marker behind what is mapped.
THEOREM MarkerMapped == Spec => []MarkerInMapping
<1>1. IndInv => MarkerInMapping
  <2> SUFFICES ASSUME IndInv, ~torn
               PROVE  payload_size + log_end_marker_size <= ldbs_size
    BY DEF MarkerInMapping
  <2>1. payload_size < ldbs_size /\ ldbs_size \in Nat
    BY DEF IndInv
  <2>2. payload_size \in Nat
    BY Positions
  <2> QED
    BY <2>1, <2>2 DEF log_end_marker_size
<1> QED
  BY <1>1, IndInvInvariant, PTL


-----------------------------------------------------------------------------
(***************************************************************************)
(* The chain of configurations.                                            *)
(***************************************************************************)
\* IsLatestCfg, of heads.
LatestCfg(hd, i, n) == \A k \in 2..n : hd[k].cfg => hd[k].index <= i

Chained(hd, n, cfg) ==
  /\ LatestCfg(hd, cfg, n)
  /\ \A k \in 2..n : hd[k].cfg => LatestCfg(hd, hd[k].prev, k - 1)

ChainInd == ~torn => Chained(heads, Len(infos), cfg_entry_index)

\* The two forms of the invariant are the same.
LEMMA ChainInvIs ==
  ASSUME IndInv
  PROVE  ChainInv <=> ChainInd
<1> DEFINE L == Len(infos)
<1>1. L \in Nat /\ \A k \in 1..L : heads[k] = HeadOf(k) /\ heads[k].index = infos[k].index
  BY Positions DEF HeadOf
<1>2. ChainInv <=> (~torn => /\ IsLatestCfg(cfg_entry_index, L)
                             /\ \A k \in 2..L : HeadOf(k).cfg => IsLatestCfg(HeadOf(k).prev, k - 1))
  BY DEF ChainInv
<1>3. ChainInd <=> (~torn => /\ LatestCfg(heads, cfg_entry_index, L)
                             /\ \A k \in 2..L : heads[k].cfg => LatestCfg(heads, heads[k].prev, k - 1))
  BY DEF ChainInd, Chained
<1> HIDE DEF L, heads
<1>4. ASSUME NEW i, NEW n \in 0..L
      PROVE  IsLatestCfg(i, n) <=> LatestCfg(heads, i, n)
  <2>1. \A k \in 2..n : k \in 1..L
    BY <1>1
  <2>2. \A k \in 2..n : heads[k] = HeadOf(k) /\ heads[k].index = infos[k].index
    BY <1>1, <2>1
  <2> QED
    BY <2>2 DEF IsLatestCfg, LatestCfg
<1>5. IsLatestCfg(cfg_entry_index, L) <=> LatestCfg(heads, cfg_entry_index, L)
  BY <1>1, <1>4
<1>6. ASSUME NEW k \in 2..L
      PROVE  (HeadOf(k).cfg => IsLatestCfg(HeadOf(k).prev, k - 1))
                <=> (heads[k].cfg => LatestCfg(heads, heads[k].prev, k - 1))
  <2>1. k \in 1..L /\ k - 1 \in 0..L
    BY <1>1
  <2>2. heads[k] = HeadOf(k)
    BY <1>1, <2>1
  <2> QED
    BY <1>4, <2>1, <2>2
<1> QED
  BY <1>2, <1>3, <1>5, <1>6

\* append, of entries among which is at most one configuration.
LEMMA ChainedExtend ==
  ASSUME NEW hd, NEW n \in Nat, n > 0, NEW last \in Nat, NEW cfg \in Nat, Numbered(hd, n, last, cfg),
         Chained(hd, n, cfg),
         NEW es, NEW m \in Nat, NEW new, NEW c \in Nat, Continues(hd, n, last, cfg, es, m, new, c),
         \A j, k \in 1..m : es[j].cfg /\ es[k].cfg => j = k,
         c = cfg => \A k \in 1..m : ~es[k].cfg
  PROVE  Chained(new, n + m, c)
<1>1. \A k \in 1..n : new[k] = hd[k]
  BY DEF Continues
<1>2. \A k \in 1..m : /\ new[n + k] = es[k] /\ es[k].index = last + n - 1 + k
                      /\ es[k].cfg => es[k].prev = cfg
  BY DEF Continues
<1>3. \A k \in 2..n + m : k \in 2..n \/ (k - n \in 1..m /\ k = n + (k - n))
  OBVIOUS
<1>4. LatestCfg(hd, cfg, n) /\ \A k \in 2..n : hd[k].cfg => LatestCfg(hd, hd[k].prev, k - 1)
  BY DEF Chained
<1>5. \A k \in 2..n : hd[k].index = last + k - 1
  BY DEF Numbered
<1>6. ASSUME NEW k \in 2..n + m, new[k].cfg
      PROVE  LatestCfg(new, new[k].prev, k - 1)
  <2>1. CASE k \in 2..n
    <3>1. \A l \in 2..k - 1 : l \in 1..n /\ new[l] = hd[l]
      BY <1>1, <2>1
    <3>2. new[k] = hd[k]
      BY <1>1, <2>1
    <3>3. LatestCfg(hd, hd[k].prev, k - 1)
      BY <1>4, <1>6, <2>1, <3>2
    <3> QED
      BY <3>1, <3>2, <3>3 DEF LatestCfg
  <2>2. CASE k \notin 2..n
    <3>1. k - n \in 1..m /\ k = n + (k - n)
      BY <1>3, <2>2
    <3>2. new[k] = es[k - n] /\ es[k - n].cfg /\ new[k].prev = cfg
      BY <1>2, <1>6, <3>1
    <3>3. ASSUME NEW l \in 2..k - 1, new[l].cfg
          PROVE  new[l].index <= cfg
      <4>1. CASE l \in 2..n
        BY <1>1, <1>4, <3>3, <4>1 DEF LatestCfg
      <4>2. CASE l \notin 2..n
        <5>1. l \in 2..n + m /\ l # k
          BY <3>1
        <5>2. l - n \in 1..m /\ l = n + (l - n)
          BY <1>3, <4>2, <5>1
        <5>3. es[l - n].cfg
          BY <1>2, <3>3, <5>2
        <5>4. l - n = k - n
          BY <3>1, <3>2, <5>2, <5>3
        <5> QED
          BY <5>1, <5>4
      <4> QED
        BY <4>1, <4>2
    <3> QED
      BY <3>2, <3>3 DEF LatestCfg
  <2> QED
    BY <2>1, <2>2
<1>7. ASSUME NEW k \in 2..n + m, new[k].cfg
      PROVE  new[k].index <= c
  <2>1. CASE c = cfg
    <3>1. k \in 2..n
      <4>1. ASSUME k \notin 2..n
            PROVE  FALSE
        <5>1. k - n \in 1..m /\ k = n + (k - n)
          BY <1>3, <4>1
        <5>2. es[k - n].cfg
          BY <1>2, <1>7, <5>1
        <5> QED
          BY <2>1, <5>1, <5>2
      <4> QED
        BY <4>1
    <3>2. new[k] = hd[k] /\ hd[k].cfg
      BY <1>1, <1>7, <3>1
    <3> QED
      BY <1>4, <2>1, <3>1, <3>2 DEF LatestCfg
  <2>2. CASE c # cfg
    <3>1. PICK x \in 1..m : es[x].cfg /\ c = es[x].index
      BY <2>2 DEF Continues
    <3>2. c = last + n - 1 + x
      BY <1>2, <3>1
    <3>3. CASE k \in 2..n
      <4>1. new[k].index = last + k - 1
        BY <1>1, <1>5, <3>3
      <4> QED
        BY <3>1, <3>2, <3>3, <4>1
    <3>4. CASE k \notin 2..n
      <4>1. k - n \in 1..m /\ k = n + (k - n)
        BY <1>3, <3>4
      <4>2. new[k] = es[k - n] /\ es[k - n].cfg
        BY <1>2, <1>7, <4>1
      <4>3. k - n = x
        BY <3>1, <4>1, <4>2
      <4>4. new[k] = es[x]
        BY <4>2, <4>3
      <4>5. new[k].index = c
        BY <3>1, <4>4
      <4>6. c <= c
        OBVIOUS
      <4> QED
        BY <4>5, <4>6
    <3> QED
      BY <3>3, <3>4
  <2> QED
    BY <2>1, <2>2
<1> QED
  BY <1>6, <1>7 DEF Chained, LatestCfg

\* chop.
LEMMA ChainedChop ==
  ASSUME NEW hd, NEW n \in Nat, NEW cfg, Chained(hd, n, cfg),
         NEW m \in 1..n, NEW new, \A k \in 1..m : new[k] = hd[k],
         NEW c, LatestCfg(hd, c, m)
  PROVE  Chained(new, m, c)
<1>1. ASSUME NEW k \in 2..m, new[k].cfg
      PROVE  LatestCfg(new, new[k].prev, k - 1)
  <2>1. k \in 2..n /\ new[k] = hd[k] /\ \A l \in 2..k - 1 : l \in 1..m /\ new[l] = hd[l]
    OBVIOUS
  <2>2. LatestCfg(hd, hd[k].prev, k - 1)
    BY <1>1, <2>1 DEF Chained
  <2> QED
    BY <2>1, <2>2 DEF LatestCfg
<1>2. LatestCfg(new, c, m)
  BY DEF LatestCfg
<1> QED
  BY <1>1, <1>2 DEF Chained

\* drop.
LEMMA ChainedDrop ==
  ASSUME NEW hd, NEW n \in Nat, NEW last \in Nat, NEW cfg \in Nat, Numbered(hd, n, last, cfg), Chained(hd, n, cfg),
         NEW m \in 1..n, NEW new, \A k \in 2..n - m + 1 : new[k] = hd[k + m - 1],
         NEW c, c = IF last + m - 1 >= cfg THEN 0 ELSE cfg
  PROVE  Chained(new, n - m + 1, c)
<1>1. ASSUME NEW k \in 2..n - m + 1, new[k].cfg
      PROVE  LatestCfg(new, new[k].prev, k - 1)
  <2>1. k + m - 1 \in 2..n /\ new[k] = hd[k + m - 1]
    OBVIOUS
  <2>2. LatestCfg(hd, hd[k + m - 1].prev, (k + m - 1) - 1)
    BY <1>1, <2>1 DEF Chained
  <2>3. ASSUME NEW l \in 2..k - 1, new[l].cfg
        PROVE  new[l].index <= new[k].prev
    <3>1. l \in 2..n - m + 1 /\ l + m - 1 \in 2..(k + m - 1) - 1
      OBVIOUS
    <3>2. new[l] = hd[l + m - 1]
      BY <3>1
    <3> QED
      BY <2>1, <2>2, <2>3, <3>1, <3>2 DEF LatestCfg
  <2> QED
    BY <2>3 DEF LatestCfg
<1>2. ASSUME NEW k \in 2..n - m + 1, new[k].cfg
      PROVE  new[k].index <= c
  <2>1. k + m - 1 \in 2..n /\ new[k] = hd[k + m - 1]
    OBVIOUS
  <2>2. hd[k + m - 1].index = last + (k + m - 1) - 1
    BY <2>1 DEF Numbered
  <2>3. hd[k + m - 1].index <= cfg
    BY <1>2, <2>1 DEF Chained, LatestCfg
  <2>4. ~(last + m - 1 >= cfg)
    BY <2>2, <2>3
  <2> QED
    BY <2>1, <2>3, <2>4
<1> QED
  BY <1>1, <1>2 DEF Chained, LatestCfg

\* Where the loops over prev_cfg end when the chain has no gaps: at the last configuration
\* that is not behind limit.
LEMMA LatestFound ==
  ASSUME IndInv, ~torn, ChainInd, NEW limit \in Nat, limit >= last_index
  PROVE  \A k \in 2..Len(infos) : heads[k].cfg /\ heads[k].index <= limit
                                    => heads[k].index <= CfgBefore(cfg_entry_index, limit)
<1> DEFINE L == Len(infos)
           Seen(j) == \A k \in 2..L : heads[k].cfg /\ heads[k].index <= limit => heads[k].index <= j
           S == {j \in Nat : CfgWithin(heads, last_index, j, L) /\ Seen(j)}
           cfg == cfg_entry_index
<1>1. L \in Nat /\ L > 0
  BY Positions
<1>2. last_index \in Nat /\ cfg \in Nat /\ cfg <= last_index + L - 1
  BY Indices
<1>3. \A i \in Nat : i - last_index + 1 \in 2..L =>
        EntryAt(i) = heads[i - last_index + 1] /\ EntryAt(i).prev \in Nat /\ EntryAt(i).prev < i
  BY Indices
<1>4. Numbered(heads, L, last_index, cfg)
  BY DEF IndInv
<1>5. Chained(heads, L, cfg)
  BY DEF ChainInd
<1> HIDE DEF L, heads, cfg, Seen
<1>6. \A j \in 0..cfg : j > limit => j \in Nat /\ j - last_index + 1 \in 2..L
  BY <1>1, <1>2
<1>7. \A j \in 0..cfg : j > limit => EntryAt(j).prev \in Nat /\ EntryAt(j).prev < j
  BY <1>3, <1>6
<1>8. cfg \in S
  <2>1. Seen(cfg)
    BY <1>5 DEF Chained, LatestCfg, Seen
  <2> QED
    BY <1>2, <1>4, <2>1 DEF Numbered
<1>9. ASSUME NEW j \in 0..cfg, j > limit, j \in S
      PROVE  EntryAt(j).prev \in S
  <2> DEFINE k == j - last_index + 1
             p == EntryAt(j).prev
  <2>1. k \in 2..L /\ EntryAt(j) = heads[k] /\ p \in Nat
    BY <1>3, <1>6, <1>9
  <2>2. heads[k].cfg
    BY <1>2, <1>9 DEF CfgWithin
  <2>3. CfgWithin(heads, last_index, p, k - 1)
    BY <1>4, <2>1, <2>2 DEF Numbered
  <2>4. LatestCfg(heads, p, k - 1)
    BY <1>5, <2>1, <2>2 DEF Chained
  <2>5. k = j - last_index + 1 /\ j \in Nat
    BY <1>2
  <2> HIDE DEF k, p
  <2>6. CfgWithin(heads, last_index, p, L)
    BY <1>1, <2>1, <2>3 DEF CfgWithin
  <2>7. ASSUME NEW l \in 2..L, heads[l].cfg, heads[l].index <= limit
        PROVE  heads[l].index <= p
    <3>1. heads[l].index = last_index + l - 1
      BY <1>4 DEF Numbered
    <3>2. l \in 2..k - 1
      BY <1>2, <1>9, <2>1, <2>5, <2>7, <3>1
    <3> QED
      BY <2>4, <2>7, <3>2 DEF LatestCfg
  <2>8. Seen(p)
    BY <2>7 DEF Seen
  <2> QED
    BY <2>1, <2>6, <2>8 DEF p
<1>10. CfgBefore(cfg, limit) \in S
  <2> HIDE DEF S
  <2> QED
    BY <1>2, <1>7, <1>8, <1>9, CfgBeforeIs
<1> QED
  BY <1>10 DEF L, cfg, Seen


-----------------------------------------------------------------------------
(***************************************************************************)
(* The chain is kept as long as no batch has two configurations; its       *)
(* entries would both get the configuration before the batch as prev_cfg.  *)
(***************************************************************************)
\* At most one configuration in a batch.
LEMMA OneConfig ==
  ASSUME MaxBatchConfigs <= 1, NEW ds \in Batches
  PROVE  \A j, k \in DOMAIN ds : ds[j] \in Config /\ ds[k] \in Config => j = k
<1> DEFINE S == {k \in DOMAIN ds : ds[k] \in Config}
<1>1. PICK n \in 1..MaxBatch : ds \in [1..n -> Content]
  BY DEF Batches
<1>2. S \subseteq 1..n /\ n \in Int
  BY <1>1, LogBoundsAssumption
<1>3. IsFiniteSet(S)
  BY <1>2, FS_Interval, FS_Subset
<1>4. Cardinality(S) \in Nat
  BY <1>3, FS_CardinalityType
<1>5. Cardinality(S) <= MaxBatchConfigs
  BY DEF Batches
<1>6. Cardinality(S) = 0 \/ Cardinality(S) = 1
  BY <1>4, <1>5, LogBoundsAssumption
<1>7. S = {} \/ \E x : S = {x}
  <2> HIDE DEF S
  <2>1. CASE Cardinality(S) = 0
    BY <1>3, <2>1, FS_EmptySet
  <2>2. CASE Cardinality(S) = 1
    BY <1>3, <2>2, FS_Singleton
  <2> QED
    BY <1>6, <2>1, <2>2
<1> QED
  BY <1>7

LEMMA AppendChain ==
  ASSUME IndInv, ~torn, ChainInd, MaxBatchConfigs <= 1,
         NEW t \in Nat, NEW ds \in Batches, AppendEntries(make_entries(t, ds))
  PROVE  ChainInd'
<1> DEFINE es == make_entries(t, ds)
           L == Len(infos)
           M == Len(es)
           new == heads'
           c == CfgIndexAfter(es)
<1>1. IsBatch(es)
  BY Made
<1>2. M \in Nat
  BY <1>1 DEF IsBatch
<1>3. \A k \in 1..M : /\ es[k].index = last_index + L - 1 + k
                      /\ es[k].prev < es[k].index
                      /\ es[k].cfg => es[k].data \in Config /\ es[k].prev = cfg_entry_index
  BY Made
<1>4. \A k \in 1..M : k \in DOMAIN ds /\ es[k].cfg = (ds[k] \in Config)
  <2>1. PICK n \in 1..MaxBatch : ds \in [1..n -> Content]
    BY DEF Batches
  <2>2. n \in Nat
    BY LogBoundsAssumption
  <2>3. DOMAIN ds = 1..n /\ Len(es) = n
    BY <2>1, <2>2 DEF make_entries
  <2>4. \A k \in 1..M : es[k].cfg = (ds[k] \in Config)
    BY Made
  <2> QED
    BY <2>3, <2>4
<1> HIDE DEF es
<1>5. \A j, k \in 1..M : es[j].cfg /\ es[k].cfg => j = k
  BY <1>4, OneConfig
<1>6. AppendEntries(es)
  BY DEF es
<1>7. Len(infos') = L + M /\ Joined(heads', heads, es)
  BY <1>1, <1>6, AppendEffect
<1>8. L \in Nat /\ L > 0 /\ Len(heads) = L
  <2>1. L \in Nat /\ L > 0
    BY Positions
  <2> QED
    BY <2>1 DEF heads, Heads
<1>9. last_index \in Nat /\ cfg_entry_index \in Nat /\ Numbered(heads, L, last_index, cfg_entry_index)
  BY DEF IndInv
<1>10. Chained(heads, L, cfg_entry_index)
  BY DEF ChainInd
<1>11. cfg_entry_index <= last_index + L - 1
  BY Indices
<1>12. /\ c \in Nat
       /\ \/ c = cfg_entry_index /\ \A k \in 1..M : ~es[k].cfg
          \/ \E k \in 1..M : es[k].cfg /\ c = es[k].index
  BY <1>1, <1>9, CfgIndexAfterIs
<1>13. cfg_entry_index' = c
  BY <1>6 DEF AppendEntries
<1>14. /\ \A k \in 1..L : new[k] = heads[k]
       /\ \A k \in 1..M : new[L + k] = es[k]
  BY <1>7, <1>8 DEF Joined
<1> HIDE DEF new, heads, L, M, c
<1>15. Continues(heads, L, last_index, cfg_entry_index, es, M, new, c)
  <2>1. \A k \in 1..M : /\ new[L + k] = es[k]
                        /\ es[k].index = last_index + L - 1 + k /\ es[k].prev < es[k].index
                        /\ es[k].cfg => es[k].data \in Config /\ es[k].prev = cfg_entry_index
    BY <1>3, <1>14
  <2> QED
    BY <1>12, <1>14, <2>1 DEF Continues
<1>16. c = cfg_entry_index => \A k \in 1..M : ~es[k].cfg
  <2>1. ASSUME NEW k \in 1..M, es[k].cfg, c = es[k].index
        PROVE  c # cfg_entry_index
    <3>1. es[k].index = last_index + L - 1 + k
      BY <1>3
    <3> QED
      BY <1>2, <1>8, <1>9, <1>11, <2>1, <3>1
  <2> QED
    BY <1>12, <2>1
<1>17. Chained(new, L + M, c)
  BY <1>2, <1>5, <1>8, <1>9, <1>10, <1>12, <1>15, <1>16, ChainedExtend
<1> QED
  BY <1>7, <1>13, <1>17 DEF ChainInd, new

LEMMA ChopChain ==
  ASSUME IndInv, ~torn, ChainInd, NEW i \in Nat, Chop(i)
  PROVE  ChainInd'
<1> DEFINE n == Len(infos)
           m == i - last_index
           c == CfgBefore(cfg_entry_index, i - 1)
           new == heads'
<1>1. i - last_index + 1 \in 2..n
  BY Indices DEF Chop
<1>2. n \in Nat
  BY Positions
<1>3. last_index \in Nat /\ Numbered(heads, n, last_index, cfg_entry_index)
  BY DEF IndInv
<1>4. chop_to(i) /\ ldbs_size' = ldbs_size /\ torn' = torn /\ cfg_entry_index' = c
  BY DEF Chop, CfgAfterChop
<1>5. Len(infos') = m /\ \A k \in 1..m : new[k] = heads[k]
  BY <1>1, <1>4, ChopEffect
<1>6. i - 1 \in Nat /\ i - 1 >= last_index /\ m \in 1..n
  BY <1>1, <1>2, <1>3
<1>7. \A k \in 2..n : heads[k].cfg /\ heads[k].index <= i - 1 => heads[k].index <= c
  BY <1>6, LatestFound
<1>8. Chained(heads, n, cfg_entry_index)
  BY DEF ChainInd
<1> HIDE DEF c, n, new, heads
<1>9. LatestCfg(heads, c, m)
  <2>1. ASSUME NEW k \in 2..m, heads[k].cfg
        PROVE  heads[k].index <= c
    <3>1. k \in 2..n
      BY <1>2, <1>6
    <3>2. heads[k].index = last_index + k - 1
      BY <1>3, <3>1 DEF Numbered
    <3>3. heads[k].index <= i - 1
      BY <1>3, <1>6, <3>2
    <3> QED
      BY <1>7, <2>1, <3>1, <3>3
  <2> QED
    BY <2>1 DEF LatestCfg
<1> HIDE DEF m
<1>10. Chained(new, m, c)
  BY <1>2, <1>5, <1>6, <1>8, <1>9, ChainedChop
<1> QED
  BY <1>4, <1>5, <1>10 DEF ChainInd, new

LEMMA DropFrontChain ==
  ASSUME IndInv, ~torn, ChainInd, NEW i \in Nat, DropFront(i)
  PROVE  ChainInd'
<1> DEFINE n == Len(infos)
           m == i - last_index + 1
           c == IF i >= cfg_entry_index THEN 0 ELSE cfg_entry_index
           new == heads'
<1>1. m \in 2..n - 1 /\ Len(infos') = n - m + 1 /\ \A k \in 2..Len(infos') : heads'[k] = heads[k + m - 1]
  <2>1. m = i - last_index + 1
    OBVIOUS
  <2> HIDE DEF m
  <2> QED
    BY <2>1, DropEffect
<1>2. n \in Nat
  BY Positions
<1>3. last_index \in Nat /\ cfg_entry_index \in Nat /\ Numbered(heads, n, last_index, cfg_entry_index)
  BY DEF IndInv
<1>4. cfg_entry_index' = c
  BY DEF DropFront
<1>5. last_index + m - 1 = i /\ m \in 1..n
  BY <1>1, <1>2, <1>3
<1>6. \A k \in 2..n - m + 1 : new[k] = heads[k + m - 1]
  BY <1>1
<1>7. c = IF last_index + m - 1 >= cfg_entry_index THEN 0 ELSE cfg_entry_index
  BY <1>5
<1>8. Chained(heads, n, cfg_entry_index)
  BY DEF ChainInd
<1> HIDE DEF new, n, m, c, heads
<1>9. Chained(new, n - m + 1, c)
  BY <1>2, <1>3, <1>5, <1>6, <1>7, <1>8, ChainedDrop
<1> QED
  BY <1>1, <1>4, <1>9 DEF ChainInd, new

LEMMA RestartChain ==
  ASSUME IndInv, ChainInd, Restart
  PROVE  ChainInd'
<1> DEFINE n == Len(infos)
           c == cfg_entry_index'
<1>1. file' = file /\ infos' = infos /\ torn' = torn /\ LastCfg(heads, n, c)
  BY RestartInd DEF statVars
<1>2. heads' = heads
  BY <1>1 DEF heads
<1>3. n \in Nat
  BY Positions
<1>4. ASSUME ~torn
      PROVE  Chained(heads, n, c)
  <2>1. Chained(heads, n, cfg_entry_index) /\ last_index \in Nat /\ Numbered(heads, n, last_index, cfg_entry_index)
    BY <1>4 DEF ChainInd, IndInv
  <2> HIDE DEF c, heads, n
  <2>2. ASSUME NEW k \in 2..n, heads[k].cfg
        PROVE  heads[k].index <= c
    <3>1. k \in 1..n
      BY <1>3
    <3>2. PICK x \in 1..n : heads[x].cfg /\ c = heads[x].index /\ \A j \in 1..n : heads[j].cfg => j <= x
      BY <1>1, <2>2, <3>1 DEF LastCfg
    <3>3. k <= x
      BY <2>2, <3>1, <3>2
    <3>4. x \in 2..n
      BY <1>3, <3>2, <3>3
    <3>5. heads[k].index = last_index + k - 1 /\ heads[x].index = last_index + x - 1
      BY <2>1, <3>4 DEF Numbered
    <3> QED
      BY <2>1, <3>2, <3>3, <3>5
  <2> QED
    BY <2>1, <2>2 DEF Chained, LatestCfg
<1> QED
  BY <1>1, <1>2, <1>4 DEF ChainInd

\* One entry is a chain.
LEMMA ShortChained ==
  ASSUME NEW hd, NEW c
  PROVE  Chained(hd, 1, c)
BY DEF Chained, LatestCfg

LEMMA NextChain ==
  ASSUME IndInv, ChainInd, MaxBatchConfigs <= 1, [Next]_vars
  PROVE  ChainInd'
<1>1. CASE UNCHANGED vars
  BY <1>1 DEF vars, fileVars, statVars, memVars, ChainInd, heads
<1>2. ASSUME ~torn, NEW t \in last_entry_term..MaxTerm, NEW ds \in Batches, t > 0,
             AppendEntries(make_entries(t, ds)) \/ AppendFails(make_entries(t, ds)) \/ AppendTorn(make_entries(t, ds))
      PROVE  ChainInd'
  <2>1. t \in Nat
    BY <1>2, TermType
  <2>2. IsBatch(make_entries(t, ds))
    BY <1>2, <2>1, Made
  <2>3. CASE AppendEntries(make_entries(t, ds))
    BY <1>2, <2>1, <2>3, AppendChain
  <2>4. CASE AppendFails(make_entries(t, ds))
    <3>1. UNCHANGED <<statVars, memVars, torn>> /\ heads' = heads
      BY <1>2, <2>2, <2>4, AppendFailsInd
    <3> QED
      BY <3>1 DEF ChainInd, memVars
  <2>5. CASE AppendTorn(make_entries(t, ds))
    BY <1>2, <2>2, <2>5, AppendTornInd DEF ChainInd
  <2> QED
    BY <1>2, <2>3, <2>4, <2>5
<1>3. ASSUME ~torn, NEW i \in 1..MaxIndex, Chop(i) \/ DropAll(i) \/ DropFront(i)
      PROVE  ChainInd'
  <2>1. i \in Nat
    BY LogBoundsAssumption
  <2>2. CASE DropAll(i)
    BY <1>3, <2>1, <2>2, DropAllInd, ShortChained DEF ChainInd
  <2> QED
    BY <1>3, <2>1, <2>2, ChopChain, DropFrontChain
<1>4. ASSUME ~torn, NEW i \in 0..MaxIndex, NEW t \in 0..MaxTerm, NEW c \in Config \cup {NoConfig}, Transfer(i, t, c)
      PROVE  ChainInd'
  <2>1. i \in Nat /\ t \in Nat
    BY LogBoundsAssumption
  <2> QED
    BY <1>4, <2>1, TransferInd, ShortChained DEF ChainInd
<1>5. CASE Restart
  BY <1>5, RestartChain
<1> QED
  BY <1>1, <1>2, <1>3, <1>4, <1>5 DEF Next

LEMMA ChainIndInvariant ==
  ASSUME MaxBatchConfigs <= 1
  PROVE  Spec => [](IndInv /\ ChainInd)
<1>1. Init => IndInv /\ ChainInd
  <2>1. ASSUME Init
        PROVE  ChainInd
    <3>1. Len(infos) = 1
      BY <2>1 DEF Init
    <3> QED
      BY <3>1, ShortChained DEF ChainInd
  <2> QED
    BY <2>1, InitInd
<1>2. IndInv /\ ChainInd /\ [Next]_vars => (IndInv /\ ChainInd)'
  BY NextInd, NextChain
<1> QED
  BY <1>1, <1>2, PTL DEF Spec

\* As long as no batch has two configurations, cfg_entry_index is that of the last
\* configuration in the log, and each prev_cfg that of the last one before.
THEOREM ConfigsAreChained ==
  ASSUME MaxBatchConfigs <= 1
  PROVE  Spec => []ChainInv
<1>1. IndInv /\ ChainInd => ChainInv
  BY ChainInvIs
<1> QED
  BY <1>1, ChainIndInvariant, PTL



-----------------------------------------------------------------------------
(***************************************************************************)
(* The configuration in effect.                                            *)
(***************************************************************************)
\* The entries the abstract log sees.
LEMMA EntriesAre ==
  ASSUME IndInv
  PROVE  /\ Len(infos) - 1 \in Nat /\ abstract_entries \in Seq([index : Nat, term : Nat, cfg : BOOLEAN, data : Content \cup {NoConfig}])
         /\ Len(abstract_entries) = Len(infos) - 1 /\ DOMAIN abstract_entries = 1..Len(infos) - 1
         /\ \A k \in 1..Len(infos) - 1 :
              abstract_entries[k] = [index |-> heads[k + 1].index, term |-> heads[k + 1].term,
                                     cfg |-> heads[k + 1].cfg, data |-> heads[k + 1].data]
<1> DEFINE L == Len(infos)
           E == [index : Nat, term : Nat, cfg : BOOLEAN, data : Content \cup {NoConfig}]
           Seen(w) == [index |-> w.index, term |-> w.term, cfg |-> w.cfg, data |-> w.data]
<1>1. L \in Nat /\ L > 0 /\ \A k \in 1..L : heads[k] = file[infos[k].amount] /\ heads[k] \in Word
  BY Positions
<1>2. L - 1 \in Nat /\ \A k \in 1..L - 1 : k + 1 \in 1..L
  BY <1>1
<1>3. \A w \in Word : Seen(w) \in E
  BY DEF Word
<1>4. ASSUME NEW k \in 1..L - 1
      PROVE  Logged(k) = Seen(heads[k + 1]) /\ Logged(k) \in E
  <2>1. heads[k + 1] = file[infos[k + 1].amount] /\ heads[k + 1] \in Word
    BY <1>1, <1>2
  <2>2. Logged(k) = Seen(heads[k + 1])
    BY <2>1 DEF Logged
  <2> HIDE DEF Seen, E
  <2> QED
    BY <1>3, <2>1, <2>2
<1>5. abstract_entries = [k \in 1..L - 1 |-> Logged(k)]
  BY DEF abstract_entries
<1> HIDE DEF L, E, Seen
<1>6. abstract_entries \in [1..L - 1 -> E]
  BY <1>4, <1>5
<1>7. abstract_entries \in Seq(E) /\ Len(abstract_entries) = L - 1 /\ DOMAIN abstract_entries = 1..L - 1
  BY <1>2, <1>6
<1>8. \A k \in 1..L - 1 : abstract_entries[k] = Seen(heads[k + 1])
  BY <1>4, <1>5
<1> QED
  BY <1>2, <1>7, <1>8 DEF L, E, Seen

\* The configuration at the n-th entry, by the index of the last configuration up to there.
LEMMA ConfigAtIs ==
  ASSUME IndInv, ~torn, NEW n \in 0..Len(infos) - 1, NEW c \in Nat,
         CfgWithin(heads, last_index, c, n + 1), LatestCfg(heads, c, n + 1)
  PROVE  Abstract!ConfigAt(n) = IF c > last_index THEN heads[c - last_index + 1].data ELSE last_config
<1> DEFINE L == Len(infos)
           C == {k \in 1..n : abstract_entries[k].cfg}
           last == CHOOSE k \in C : \A j \in C : j <= k
<1>1. L \in Nat /\ L > 0
  BY Positions
<1>2. n \in Nat /\ n + 1 <= L /\ \A k \in 1..n : k \in 1..L - 1 /\ k + 1 \in 2..n + 1 /\ k + 1 \in 2..L
  BY <1>1
<1>3. last_index \in Nat /\ Numbered(heads, L, last_index, cfg_entry_index)
  BY DEF IndInv
<1>4. \A k \in 1..n : abstract_entries[k].cfg = heads[k + 1].cfg /\ abstract_entries[k].data = heads[k + 1].data
  BY SMTT(30), <1>2, EntriesAre
<1>5. Abstract!ConfigAt(n) = IF C = {} THEN last_config ELSE abstract_entries[last].data
  BY DEF Abstract!ConfigAt, Abstract!CfgPositions, abstract_base
<1> HIDE DEF heads, L
<1>6. ASSUME NEW k \in C
      PROVE  last_index + k <= c
  <2>1. k \in 1..n /\ heads[k + 1].cfg
    BY <1>4
  <2>2. k + 1 \in 2..L /\ k + 1 \in 2..n + 1
    BY <1>2, <2>1
  <2>3. heads[k + 1].index = last_index + (k + 1) - 1
    BY <1>3, <2>2 DEF Numbered
  <2>4. heads[k + 1].index <= c
    BY <2>1, <2>2 DEF LatestCfg
  <2> QED
    BY <1>3, <2>1, <2>3, <2>4
<1>7. CASE c > last_index
  <2> DEFINE j == c - last_index
  <2>1. j \in 1..n /\ j + 1 = c - last_index + 1 /\ heads[j + 1].cfg
    BY <1>2, <1>3, <1>7 DEF CfgWithin
  <2>2. j \in C
    BY <1>4, <2>1
  <2>3. C \in SUBSET (0..n)
    BY <1>2
  <2>4. last \in C /\ j <= last
    BY <1>2, <2>2, <2>3, LastOf
  <2>5. last_index + last <= c
    BY <1>6, <2>4
  <2>6. last \in 1..n
    BY <2>4
  <2> HIDE DEF last, C
  <2>7. last = j
    BY <1>3, <2>1, <2>4, <2>5, <2>6
  <2> QED
    BY <1>4, <1>5, <1>7, <2>1, <2>2, <2>7
<1>8. CASE ~(c > last_index)
  <2>1. C = {}
    <3>1. ASSUME NEW k \in C
          PROVE  FALSE
      <4>1. last_index + k <= c /\ k \in 1..n
        BY <1>6
      <4> QED
        BY <1>3, <1>8, <4>1
    <3> QED
      BY <3>1
  <2> QED
    BY <1>5, <1>8, <2>1
<1> QED
  BY <1>7, <1>8

\* The configuration an index of infos stands for.
LEMMA ConfigOfIndex ==
  ASSUME IndInv, ~torn, NEW c \in Nat, CfgWithin(heads, last_index, c, Len(infos))
  PROVE  /\ c > last_index => /\ c > 0 /\ InRange(c) /\ EntryAt(c).data = heads[c - last_index + 1].data
                              /\ EntryAt(c).data \in Config
         /\ c <= last_index /\ c > 0 => ~InRange(c)
<1>1. last_index \in Nat /\ Numbered(heads, Len(infos), last_index, cfg_entry_index)
  BY DEF IndInv
<1>2. (c > 0 /\ InRange(c)) <=> c - last_index + 1 \in 2..Len(infos)
  BY Indices
<1>3. c - last_index + 1 \in 2..Len(infos) => EntryAt(c) = heads[c - last_index + 1]
  BY Indices
<1>4. Len(infos) \in Nat
  BY Positions
<1> HIDE DEF heads
<1>5. c > last_index => c - last_index + 1 \in 2..Len(infos) /\ heads[c - last_index + 1].cfg
  BY <1>1 DEF CfgWithin
<1>6. c > last_index => heads[c - last_index + 1].data \in Config
  BY <1>1, <1>5 DEF Numbered
<1>7. c <= last_index => ~(c - last_index + 1 \in 2..Len(infos))
  BY <1>1, <1>4
<1> QED
  BY <1>2, <1>3, <1>5, <1>6, <1>7

\* drop finds the configuration at its index.
LEMMA ConfigUpToIs ==
  ASSUME IndInv, ~torn, ChainInd, NEW i \in Nat, i - last_index + 1 \in 2..Len(infos)
  PROVE  (IF ConfigUpTo(i) = NoConfig THEN last_config ELSE ConfigUpTo(i)) = Abstract!ConfigAt(i - last_index)
<1> DEFINE L == Len(infos)
           n == i - last_index
           c == CfgBefore(cfg_entry_index, i)
<1>1. L \in Nat /\ L > 0
  BY Positions
<1>2. last_index \in Nat /\ Numbered(heads, L, last_index, cfg_entry_index)
  BY DEF IndInv
<1>3. i >= last_index /\ n \in 0..L - 1
  BY <1>1, <1>2
<1>4. c \in Nat /\ c <= i /\ CfgWithin(heads, last_index, c, L)
  BY <1>3, CfgFound
<1>5. \A k \in 2..L : heads[k].cfg /\ heads[k].index <= i => heads[k].index <= c
  BY <1>3, LatestFound
<1>6. ConfigUpTo(i) = IF c > 0 /\ InRange(c) THEN EntryAt(c).data ELSE NoConfig
  BY DEF ConfigUpTo
<1> HIDE DEF c, heads
<1>7. CfgWithin(heads, last_index, c, n + 1)
  BY <1>1, <1>2, <1>3, <1>4 DEF CfgWithin
<1>8. LatestCfg(heads, c, n + 1)
  <2>1. ASSUME NEW k \in 2..n + 1, heads[k].cfg
        PROVE  heads[k].index <= c
    <3>1. k \in 2..L
      BY <1>1, <1>3
    <3>2. heads[k].index = last_index + k - 1
      BY <1>2, <3>1 DEF Numbered
    <3>3. heads[k].index <= i
      BY <1>2, <1>3, <3>2
    <3> QED
      BY <1>5, <2>1, <3>1, <3>3
  <2> QED
    BY <2>1 DEF LatestCfg
<1>9. Abstract!ConfigAt(n) = IF c > last_index THEN heads[c - last_index + 1].data ELSE last_config
  <2> HIDE DEF n
  <2> QED
    BY <1>3, <1>4, <1>7, <1>8, ConfigAtIs
<1>10. /\ c > last_index => /\ c > 0 /\ InRange(c) /\ EntryAt(c).data = heads[c - last_index + 1].data
                            /\ EntryAt(c).data \in Config
       /\ c <= last_index /\ c > 0 => ~InRange(c)
  BY <1>4, ConfigOfIndex
<1>11. NoConfig \notin Config
  BY ContentAssumption DEF Content
<1>12. CASE c > last_index
  BY <1>6, <1>9, <1>10, <1>11, <1>12
<1>13. CASE ~(c > last_index)
  BY <1>2, <1>4, <1>6, <1>9, <1>10, <1>13
<1> QED
  BY <1>12, <1>13

LEMMA ConfigHolds ==
  ASSUME IndInv, ChainInd
  PROVE  ConfigInEffect
<1> SUFFICES ASSUME ~torn
             PROVE  \A c \in {config, IF CfgIndexOf(file) = 0 THEN NoConfig ELSE EntryAt(CfgIndexOf(file)).data} :
                      (IF c = NoConfig THEN last_config ELSE c) = Abstract!LatestConfig
  BY DEF ConfigInEffect
<1> DEFINE L == Len(infos)
           x == CfgIndexOf(file)
           loaded == IF x = 0 THEN NoConfig ELSE EntryAt(x).data
<1>1. L \in Nat /\ L > 0 /\ L - 1 \in 0..L - 1 /\ (L - 1) + 1 = L
  BY Positions
<1>2. last_index \in Nat /\ cfg_entry_index \in Nat /\ Numbered(heads, L, last_index, cfg_entry_index)
  BY DEF IndInv
<1>3. CfgWithin(heads, last_index, cfg_entry_index, L) /\ LatestCfg(heads, cfg_entry_index, L)
  BY <1>2 DEF Numbered, ChainInd, Chained
<1>4. NoConfig \notin Config
  BY ContentAssumption DEF Content
<1>5. Abstract!LatestConfig = Abstract!ConfigAt(L - 1)
  BY EntriesAre DEF Abstract!LatestConfig
<1>6. heads[1] = Sentry /\ EntryAt(0) = Sentry
  <2>1. infos[1].amount = 0 /\ file[0] = Sentry
    BY DEF IndInv, Layout
  <2>2. heads[1] = file[infos[1].amount]
    BY <1>1, Positions
  <2> QED
    BY <2>1, <2>2 DEF EntryAt, InfoAt
<1>7. Sentry.data = NoConfig /\ Sentry.cfg = FALSE
  BY DEF Sentry, Blank
<1>8. x \in Nat /\ LastCfg(heads, L, x)
  <2>1. PICK n : IsFile(file, n) /\ ldbs_size <= n
    BY DEF IndInv
  <2>2. Layout(file, infos, payload_size)
    BY DEF IndInv
  <2> QED
    BY <2>1, <2>2, CfgIndexOfIs DEF heads
<1>9. ASSUME NEW c \in Nat, CfgWithin(heads, last_index, c, L), LatestCfg(heads, c, L)
      PROVE  /\ Abstract!LatestConfig = IF c > last_index THEN heads[c - last_index + 1].data ELSE last_config
             /\ c > last_index => /\ c > 0 /\ InRange(c) /\ EntryAt(c).data = heads[c - last_index + 1].data
                                  /\ EntryAt(c).data \in Config
             /\ c <= last_index /\ c > 0 => ~InRange(c)
  <2>1. CfgWithin(heads, last_index, c, (L - 1) + 1) /\ LatestCfg(heads, c, (L - 1) + 1)
    BY <1>1, <1>9
  <2>2. Abstract!ConfigAt(L - 1) = IF c > last_index THEN heads[c - last_index + 1].data ELSE last_config
    BY <1>1, <2>1, ConfigAtIs
  <2> QED
    BY <1>5, <1>9, <2>2, ConfigOfIndex
<1> HIDE DEF heads, L, x
<1>10. (IF config = NoConfig THEN last_config ELSE config) = Abstract!LatestConfig
  <2> DEFINE c == cfg_entry_index
  <2>1. config = IF InRange(c) THEN EntryAt(c).data ELSE NoConfig
    BY DEF config
  <2>2. /\ Abstract!LatestConfig = IF c > last_index THEN heads[c - last_index + 1].data ELSE last_config
        /\ c > last_index => /\ c > 0 /\ InRange(c) /\ EntryAt(c).data = heads[c - last_index + 1].data
                             /\ EntryAt(c).data \in Config
        /\ c <= last_index /\ c > 0 => ~InRange(c)
    BY <1>2, <1>3, <1>9
  <2>3. c = 0 => EntryAt(c).data = NoConfig
    BY <1>6, <1>7
  <2>4. CASE c > last_index
    BY <1>4, <2>1, <2>2, <2>4
  <2>5. CASE c <= last_index
    BY <1>2, <2>1, <2>2, <2>3, <2>5
  <2> QED
    BY <1>2, <2>4, <2>5
<1>11. CfgWithin(heads, last_index, x, L) /\ LatestCfg(heads, x, L) /\ (x = 0 \/ x > last_index)
  <2>1. CASE x = 0 /\ \A k \in 1..L : ~heads[k].cfg
    BY <1>1, <1>2, <2>1 DEF CfgWithin, LatestCfg
  <2>2. ASSUME NEW k \in 1..L, heads[k].cfg, x = heads[k].index, \A j \in 1..L : heads[j].cfg => j <= k
        PROVE  CfgWithin(heads, last_index, x, L) /\ LatestCfg(heads, x, L) /\ x > last_index
    <3>1. k # 1
      BY <1>6, <1>7, <2>2
    <3>2. k \in 2..L
      BY <1>1, <3>1
    <3>3. \A j \in 2..L : heads[j].index = last_index + j - 1
      BY <1>2 DEF Numbered
    <3>4. x = last_index + k - 1
      BY <2>2, <3>2, <3>3
    <3>5. CfgWithin(heads, last_index, x, L)
      <4>1. x - last_index + 1 = k
        BY <1>2, <3>2, <3>4
      <4> QED
        BY <2>2, <3>2, <4>1 DEF CfgWithin
    <3>6. LatestCfg(heads, x, L)
      <4>1. ASSUME NEW j \in 2..L, heads[j].cfg
            PROVE  heads[j].index <= x
        <5>1. j <= k
          BY <1>1, <2>2, <4>1
        <5> QED
          BY <1>2, <3>2, <3>3, <3>4, <5>1
      <4> QED
        BY <4>1 DEF LatestCfg
    <3> QED
      BY <1>2, <3>2, <3>4, <3>5, <3>6
  <2> QED
    BY <1>8, <2>1, <2>2 DEF LastCfg
<1>12. (IF loaded = NoConfig THEN last_config ELSE loaded) = Abstract!LatestConfig
  <2>1. /\ Abstract!LatestConfig = IF x > last_index THEN heads[x - last_index + 1].data ELSE last_config
        /\ x > last_index => /\ x > 0 /\ EntryAt(x).data = heads[x - last_index + 1].data
                             /\ EntryAt(x).data \in Config
    BY <1>8, <1>9, <1>11
  <2>2. CASE x > last_index
    BY <1>2, <1>4, <2>1, <2>2
  <2>3. CASE ~(x > last_index)
    BY <1>8, <1>11, <2>1, <2>3
  <2> QED
    BY <2>2, <2>3
<1> QED
  BY <1>10, <1>12 DEF x

\* When no call appends two configurations, the configuration a server finds, be it the
\* process that appended, chopped and dropped or one that has just loaded the files, is the
\* latest of the log or, if the log has none, the one in raft.stat.
THEOREM ConfigIsInEffect ==
  ASSUME MaxBatchConfigs <= 1
  PROVE  Spec => []ConfigInEffect
<1>1. IndInv /\ ChainInd => ConfigInEffect
  BY ConfigHolds
<1> QED
  BY <1>1, IndInvInvariant, ChainIndInvariant, PTL


-----------------------------------------------------------------------------
(***************************************************************************)
(* The refinement: what each operation does to the log the words stand     *)
(* for.                                                                    *)
(***************************************************************************)
\* A sequence of n elements, whatever they are.
IsList(s, n) == n \in Nat /\ s = [k \in 1..n |-> s[k]]

LEMMA Lists ==
  ASSUME NEW s, NEW n, IsList(s, n)
  PROVE  s \in Seq({s[k] : k \in 1..n}) /\ Len(s) = n /\ DOMAIN s = 1..n
<1> DEFINE S == {s[k] : k \in 1..n}
<1>1. \A k \in 1..n : s[k] \in S
  OBVIOUS
<1> HIDE DEF S
<1>2. s \in [1..n -> S]
  BY <1>1 DEF IsList
<1>3. s \in Seq(S) /\ Len(s) = n /\ DOMAIN s = 1..n
  BY <1>2 DEF IsList
<1> QED
  BY <1>3 DEF S

\* t is the part of s from a to b.
PartOf(s, n, a, b, t) ==
  /\ IsList(s, n) /\ a \in 1..n + 1 /\ b \in 0..n /\ a <= b + 1
  /\ IsList(t, b - a + 1) /\ \A k \in 1..b - a + 1 : t[k] = s[a + k - 1]

LEMMA ListPart ==
  ASSUME NEW s, NEW n, NEW a, NEW b, NEW t, PartOf(s, n, a, b, t)
  PROVE  t = SubSeq(s, a, b)
<1> DEFINE S == {s[k] : k \in 1..n}
           u == SubSeq(s, a, b)
<1> USE DEF PartOf
<1>1. n \in Nat /\ a \in Int /\ b \in Int /\ b - a + 1 \in Nat
  BY DEF IsList
<1>2. \A k \in 1..n : s[k] \in S
  OBVIOUS
<1> HIDE DEF S
<1>3. \A i \in a..b : s[i] \in S
  BY <1>1, <1>2
<1>4. /\ u \in Seq(S) /\ Len(u) = IF a <= b THEN b - a + 1 ELSE 0
      /\ \A i \in 1..b - a + 1 : u[i] = s[a + i - 1]
  BY <1>1, <1>3, SubSeqProperties
<1>5. Len(u) = b - a + 1
  BY <1>1, <1>4
<1> HIDE DEF u
<1>6. \A k \in 1..b - a + 1 : t[k] = u[k] /\ u[k] \in S
  BY <1>4, <1>5
<1>7. t \in [1..b - a + 1 -> S]
  BY <1>6 DEF IsList
<1>8. t \in Seq(S) /\ Len(t) = b - a + 1
  BY <1>1, <1>7
<1>9. t = u
  BY <1>4, <1>5, <1>6, <1>8, SeqEqual
<1> QED
  BY <1>9 DEF u

\* t is s and what it has behind it.
ListPrefix(s, m, t, n) == IsList(s, m) /\ IsList(t, n) /\ m <= n /\ \A k \in 1..m : t[k] = s[k]

LEMMA ListExtends ==
  ASSUME NEW s, NEW m, NEW t, NEW n, ListPrefix(s, m, t, n)
  PROVE  /\ Len(s) = m /\ Len(t) = n
         /\ t = s \o SubSeq(t, m + 1, n)
         /\ DOMAIN SubSeq(t, m + 1, n) = 1..n - m /\ Len(SubSeq(t, m + 1, n)) = n - m
         /\ \A k \in 1..n - m : SubSeq(t, m + 1, n)[k] = t[m + k]
<1> DEFINE S == {t[k] : k \in 1..n}
           u == SubSeq(t, m + 1, n)
<1> USE DEF ListPrefix
<1>1. m \in Nat /\ n \in Nat /\ n - m \in Nat
  BY DEF IsList
<1>2. \A k \in 1..n : t[k] \in S
  OBVIOUS
<1> HIDE DEF S
<1>3. \A i \in m + 1..n : t[i] \in S
  BY <1>1, <1>2
<1>4. /\ u \in Seq(S) /\ Len(u) = IF m + 1 <= n THEN n - (m + 1) + 1 ELSE 0
      /\ \A i \in 1..n - (m + 1) + 1 : u[i] = t[(m + 1) + i - 1]
  BY <1>1, <1>3, SubSeqProperties
<1> HIDE DEF u
<1>5. Len(u) = n - m /\ \A i \in 1..n - m : u[i] = t[m + i]
  <2>1. n - (m + 1) + 1 = n - m
    BY <1>1
  <2>2. \A i \in 1..n - m : (m + 1) + i - 1 = m + i
    BY <1>1
  <2> QED
    BY <1>1, <1>4, <2>1, <2>2
<1>6. \A k \in 1..m : s[k] \in S
  BY <1>1, <1>2
<1>7. s \in [1..m -> S] /\ t \in [1..n -> S]
  BY <1>2, <1>6 DEF IsList
<1>8. s \in Seq(S) /\ Len(s) = m /\ t \in Seq(S) /\ Len(t) = n
  BY <1>1, <1>7
<1>9. /\ s \o u \in Seq(S) /\ Len(s \o u) = Len(s) + Len(u)
      /\ \A i \in 1..Len(s) + Len(u) : (s \o u)[i] = IF i <= Len(s) THEN s[i] ELSE u[i - Len(s)]
  BY <1>4, <1>8, ConcatProperties
<1>10. ASSUME NEW i \in 1..n
       PROVE  t[i] = (s \o u)[i]
  <2>1. (s \o u)[i] = IF i <= m THEN s[i] ELSE u[i - m]
    BY <1>1, <1>5, <1>8, <1>9
  <2>2. CASE i <= m
    BY <1>1, <2>1, <2>2
  <2>3. CASE ~(i <= m)
    <3>1. i - m \in 1..n - m /\ m + (i - m) = i
      BY <1>1, <2>3
    <3> QED
      BY <1>5, <2>1, <2>3, <3>1
  <2> QED
    BY <2>2, <2>3
<1>11. Len(s \o u) = Len(t)
  BY <1>1, <1>5, <1>8, <1>9
<1>12. t = s \o u
  BY <1>8, <1>9, <1>10, <1>11, SeqEqual
<1>13. DOMAIN u = 1..n - m
  BY <1>4, <1>5
<1> QED
  BY <1>5, <1>8, <1>12, <1>13 DEF u

\* The entry of the log a word stands for.
EntryOf(w) == [index |-> w.index, term |-> w.term, cfg |-> w.cfg, data |-> w.data]

LEMMA LogNow ==
  ASSUME IndInv
  PROVE  /\ Len(infos) \in Nat /\ Len(infos) > 0 /\ IsList(abstract_entries, Len(infos) - 1)
         /\ Len(abstract_entries) = Len(infos) - 1
         /\ \A k \in 1..Len(infos) - 1 : abstract_entries[k] = EntryOf(heads[k + 1])
<1>1. /\ Len(infos) - 1 \in Nat /\ Len(abstract_entries) = Len(infos) - 1
      /\ \A k \in 1..Len(infos) - 1 : abstract_entries[k] = EntryOf(heads[k + 1])
  BY EntriesAre DEF EntryOf
<1>2. abstract_entries = [k \in 1..Len(infos) - 1 |-> abstract_entries[k]]
  BY DEF abstract_entries
<1>3. Len(infos) \in Nat /\ Len(infos) > 0
  BY Positions
<1> QED
  BY <1>1, <1>2, <1>3 DEF IsList

LEMMA LogNext ==
  ASSUME NEW n \in Nat, n > 0, Len(infos') = n
  PROVE  /\ IsList(abstract_entries', n - 1) /\ Len(abstract_entries') = n - 1
         /\ \A k \in 1..n - 1 : abstract_entries'[k] = EntryOf(heads'[k + 1])
<1>1. abstract_entries' = [k \in 1..n - 1 |-> Logged(k)']
  BY DEF abstract_entries
<1>2. IsList(abstract_entries', n - 1)
  BY <1>1 DEF IsList
<1>3. Len(abstract_entries') = n - 1
  BY <1>2, Lists
<1>4. ASSUME NEW k \in 1..n - 1
      PROVE  abstract_entries'[k] = EntryOf(heads'[k + 1])
  <2>1. k + 1 \in 1..n
    OBVIOUS
  <2>2. heads' = [j \in 1..n |-> file'[infos'[j].amount]]
    BY DEF heads, Heads
  <2>3. heads'[k + 1] = file'[infos'[k + 1].amount]
    BY <2>1, <2>2
  <2>4. Logged(k)' = EntryOf(file'[infos'[k + 1].amount])
    BY DEF Logged, EntryOf
  <2>5. abstract_entries'[k] = Logged(k)'
    BY <1>1
  <2> QED
    BY <2>3, <2>4, <2>5
<1> QED
  BY <1>2, <1>3, <1>4

LEMMA InitRefines ==
  ASSUME Init
  PROVE  Abstract!Init
<1>0. asked = [op |-> "none", index |-> 0] /\ rc = "GOOD"
  BY DEF Init
<1>1. infos = <<[index |-> 0, amount |-> 0]>> /\ last_index = 0 /\ last_term = 0 /\ last_config = NoConfig /\ torn = FALSE
  BY DEF Init
<1>2. Len(infos) = 1
  BY <1>1
<1>3. abstract_entries = [k \in 1..0 |-> Logged(k)]
  BY <1>2 DEF abstract_entries
<1>4. abstract_entries = <<>>
  BY <1>3
<1> QED
  BY <1>0, <1>1, <1>4 DEF Abstract!Init, abstract_base

\* A step that does what it records is one of the log's.
LEMMA Done ==
  ASSUME ~torn, NEW op, NEW i, Ask(op, i), Abstract!Do(op, i)
  PROVE  Abstract!Next
<1>1. asked'.op = op /\ asked'.index = i
  BY DEF Ask
<1> QED
  BY <1>1 DEF Abstract!Next

\* An append adds its entries behind the others, with the next indices.
LEMMA AppendRefines ==
  ASSUME IndInv, ~torn, NEW t \in Nat, NEW ds \in Batches, AppendEntries(make_entries(t, ds))
  PROVE  Abstract!Next
<1> DEFINE es == make_entries(t, ds)
           L == Len(infos)
           M == Len(es)
           old == abstract_entries
           new == abstract_entries'
           added == SubSeq(new, L - 1 + 1, L + M - 1)
<1>1. IsBatch(es)
  BY Made
<1>2. M \in Nat
  BY <1>1 DEF IsBatch
<1>3. \A k \in 1..M : es[k].index = last_index + L - 1 + k
  BY Made
<1> HIDE DEF es
<1>4. AppendEntries(es)
  BY DEF es
<1>5. Len(infos') = L + M /\ Joined(heads', heads, es)
  BY <1>1, <1>4, AppendEffect
<1>6. L \in Nat /\ L > 0 /\ IsList(old, L - 1) /\ Len(old) = L - 1 /\ \A k \in 1..L - 1 : old[k] = EntryOf(heads[k + 1])
  BY LogNow
<1>7. Len(heads) = L
  BY <1>6 DEF heads, Heads
<1>8. L + M \in Nat /\ L + M > 0
  BY <1>2, <1>6
<1>9. IsList(new, L + M - 1) /\ Len(new) = L + M - 1 /\ \A k \in 1..L + M - 1 : new[k] = EntryOf(heads'[k + 1])
  BY <1>5, <1>8, LogNext
<1>10. last_index \in Nat
  BY DEF IndInv
<1>11. UNCHANGED <<last_index, last_term, last_config, torn>>
  BY <1>4 DEF AppendEntries, statVars
<1>12. abstract_base' = abstract_base /\ abstract_base.index = last_index
  BY <1>11 DEF abstract_base
<1> HIDE DEF L, M
<1>13. ASSUME NEW k \in 1..L - 1
       PROVE  new[k] = old[k]
  <2>1. k \in 1..L + M - 1 /\ k + 1 \in 1..L
    BY <1>2, <1>6
  <2>2. heads'[k + 1] = heads[k + 1]
    BY <1>5, <1>7, <2>1 DEF Joined
  <2> QED
    BY <1>6, <1>9, <2>1, <2>2
<1>14. L - 1 <= L + M - 1
  BY <1>2, <1>6
<1> HIDE DEF old, new
<1>15. /\ new = old \o added /\ Len(added) = (L + M - 1) - (L - 1)
       /\ DOMAIN added = 1..(L + M - 1) - (L - 1)
       /\ \A k \in 1..(L + M - 1) - (L - 1) : added[k] = new[L - 1 + k]
  <2>1. ListPrefix(old, L - 1, new, L + M - 1)
    BY <1>6, <1>9, <1>13, <1>14 DEF ListPrefix
  <2> QED
    BY SMTT(30), <2>1, ListExtends
<1>16. (L + M - 1) - (L - 1) = M
  BY <1>2, <1>6
<1>17. ASSUME NEW k \in 1..M
       PROVE  added[k].index = last_index + (L - 1) + k
  <2>1. added[k] = new[L - 1 + k]
    BY <1>15, <1>16
  <2>2. L - 1 + k \in 1..L + M - 1 /\ (L - 1 + k) + 1 = L + k
    BY <1>2, <1>6
  <2>3. new[L - 1 + k] = EntryOf(heads'[L + k])
    BY <1>9, <2>2
  <2>4. heads'[L + k] = es[k]
    BY <1>5, <1>7 DEF Joined, M
  <2>5. EntryOf(es[k]).index = es[k].index
    BY DEF EntryOf
  <2>6. es[k].index = last_index + L - 1 + k
    BY <1>3
  <2> QED
    BY <1>6, <1>10, <2>1, <2>3, <2>4, <2>5, <2>6
<1>18. Abstract!Suffix(new, Len(old)) = added
  BY <1>6, <1>9 DEF Abstract!Suffix
<1>19. Abstract!EndIndex = last_index + (L - 1)
  BY <1>6, <1>12 DEF Abstract!EndIndex, old
<1> HIDE DEF added
<1>20. Last(es).index = last_index + (L - 1) + Len(added)
  <2>1. Last(es).index = last_index + L - 1 + M
    BY LastMade DEF es, L, M
  <2> QED
    BY <1>2, <1>6, <1>10, <1>15, <1>16, <2>1
<1>21. Abstract!Extend(Last(es).index, added)
  BY <1>11, <1>12, <1>15, <1>16, <1>17, <1>19, <1>20 DEF Abstract!Extend, old, new
<1>22. Abstract!Extend(Last(es).index, Abstract!Suffix(abstract_entries', Len(abstract_entries)))
  BY <1>18, <1>21 DEF old, new
<1>23. Ask("append", Last(es).index) /\ Abstract!Do("append", Last(es).index)
  BY <1>4, <1>22 DEF AppendEntries, Abstract!Do
<1> QED
  BY <1>23, Done

\* A chop takes the entries from i on, and keeps the others.
LEMMA ChopRefines ==
  ASSUME IndInv, ~torn, NEW i \in Nat, i - last_index + 1 \in 2..Len(infos),
         chop_to(i), ldbs_size' = ldbs_size, torn' = torn, UNCHANGED statVars
  PROVE  Abstract!Chop(i)
<1> DEFINE L == Len(infos)
           n == i - last_index
           old == abstract_entries
           new == abstract_entries'
<1>1. Len(infos') = n /\ \A k \in 1..n : heads'[k] = heads[k]
  BY ChopEffect
<1>2. L \in Nat /\ L > 0 /\ IsList(old, L - 1) /\ Len(old) = L - 1 /\ \A k \in 1..L - 1 : old[k] = EntryOf(heads[k + 1])
  BY LogNow
<1>3. last_index \in Nat
  BY DEF IndInv
<1>4. n \in Nat /\ n > 0 /\ n <= L - 1 /\ n - 1 \in 0..L - 1
  BY <1>2, <1>3
<1>5. IsList(new, n - 1) /\ Len(new) = n - 1 /\ \A k \in 1..n - 1 : new[k] = EntryOf(heads'[k + 1])
  BY <1>1, <1>4, LogNext
<1>6. abstract_base' = abstract_base /\ abstract_base.index = last_index
  BY DEF abstract_base, statVars
<1> HIDE DEF L, n, old, new
<1>7. ASSUME NEW k \in 1..n - 1
      PROVE  new[k] = old[1 + k - 1]
  <2>1. k \in 1..L - 1 /\ k + 1 \in 1..n /\ 1 + k - 1 = k
    BY <1>2, <1>4
  <2> QED
    BY <1>1, <1>2, <1>5, <2>1
<1>8. new = SubSeq(old, 1, n - 1)
  <2>1. (n - 1) - 1 + 1 = n - 1 /\ 1 \in 1..(L - 1) + 1 /\ 1 <= (n - 1) + 1
    BY <1>2, <1>4
  <2>2. PartOf(old, L - 1, 1, n - 1, new)
    BY <1>2, <1>4, <1>5, <1>7, <2>1 DEF PartOf
  <2> QED
    BY <2>2, ListPart
<1>9. i \in abstract_base.index + 1 .. Abstract!EndIndex
  BY <1>2, <1>3, <1>4, <1>6 DEF Abstract!EndIndex, old, n
<1>10. abstract_entries' = SubSeq(abstract_entries, 1, i - abstract_base.index - 1)
  BY <1>6, <1>8 DEF old, new, n
<1> QED
  BY <1>6, <1>9, <1>10 DEF Abstract!Chop

\* What is left of a drop is the entries behind i; where they began is in raft.stat.
LEMMA DropRefines ==
  ASSUME IndInv, ~torn, ChainInd, NEW i \in Nat, i - last_index + 1 \in 2..Len(infos),
         Len(infos') = Len(infos) - (i - last_index),
         \A k \in 2..Len(infos') : heads'[k] = heads[k + (i - last_index)],
         copy_states(ConfigUpTo(i), i, EntryAt(i).term), torn' = torn
  PROVE  Abstract!Drop(i)
<1> DEFINE L == Len(infos)
           n == i - last_index
           old == abstract_entries
           new == abstract_entries'
<1>1. L \in Nat /\ L > 0 /\ IsList(old, L - 1) /\ Len(old) = L - 1 /\ \A k \in 1..L - 1 : old[k] = EntryOf(heads[k + 1])
  BY LogNow
<1>2. last_index \in Nat
  BY DEF IndInv
<1>3. n \in Nat /\ n > 0 /\ n <= L - 1 /\ L - n \in Nat /\ L - n > 0
  BY <1>1, <1>2
<1>4. IsList(new, L - n - 1) /\ Len(new) = L - n - 1 /\ \A k \in 1..L - n - 1 : new[k] = EntryOf(heads'[k + 1])
  BY <1>3, LogNext
<1>5. abstract_base' = [index |-> i, term |-> EntryAt(i).term, config |-> Abstract!ConfigAt(n)]
  <2>1. (IF ConfigUpTo(i) = NoConfig THEN last_config ELSE ConfigUpTo(i)) = Abstract!ConfigAt(n)
    BY ConfigUpToIs
  <2>2. last_index' = i /\ last_term' = EntryAt(i).term /\ last_config' = Abstract!ConfigAt(n)
    BY <2>1 DEF copy_states
  <2> QED
    BY <2>2 DEF abstract_base
<1>6. EntryAt(i).term = old[n].term
  <2>1. EntryAt(i) = heads[n + 1]
    BY Indices
  <2>2. n \in 1..L - 1
    BY <1>1, <1>3
  <2> HIDE DEF L, n, old
  <2>3. old[n] = EntryOf(heads[n + 1])
    BY <1>1, <2>2
  <2>4. EntryOf(heads[n + 1]).term = heads[n + 1].term
    BY DEF EntryOf
  <2> QED
    BY <2>1, <2>3, <2>4
<1>7. abstract_base.index = last_index
  BY DEF abstract_base
<1>8. \A k \in 2..L - n : heads'[k] = heads[k + n]
  OBVIOUS
<1> HIDE DEF L, n, old, new
<1>9. ASSUME NEW k \in 1..L - n - 1
      PROVE  new[k] = old[(n + 1) + k - 1]
  <2>1. k + 1 \in 2..L - n /\ (n + 1) + k - 1 \in 1..L - 1 /\ ((n + 1) + k - 1) + 1 = (k + 1) + n
    BY <1>1, <1>3
  <2>2. heads'[k + 1] = heads[(k + 1) + n]
    BY <1>8, <2>1
  <2>3. new[k] = EntryOf(heads[(k + 1) + n])
    BY <1>4, <2>2
  <2>4. old[(n + 1) + k - 1] = EntryOf(heads[((n + 1) + k - 1) + 1])
    BY <1>1, <2>1
  <2> QED
    BY <2>1, <2>3, <2>4
<1>10. new = SubSeq(old, n + 1, L - 1)
  <2>1. /\ (L - 1) - (n + 1) + 1 = L - n - 1 /\ n + 1 \in 1..(L - 1) + 1 /\ n + 1 <= (L - 1) + 1
        /\ L - 1 \in 0..L - 1
    BY <1>1, <1>3
  <2>2. PartOf(old, L - 1, n + 1, L - 1, new)
    BY <1>1, <1>4, <1>9, <2>1 DEF PartOf
  <2> QED
    BY <2>2, ListPart
<1>11. n = i - abstract_base.index
  BY <1>7 DEF n
<1>12. i \in abstract_base.index + 1 .. Abstract!EndIndex
  BY SMTT(30), <1>1, <1>2, <1>3, <1>7 DEF Abstract!EndIndex, old, n
<1> QED
  BY <1>1, <1>5, <1>6, <1>10, <1>11, <1>12 DEF Abstract!Drop, old, new

LEMMA DropAllRefines ==
  ASSUME IndInv, ~torn, ChainInd, NEW i \in Nat, DropAll(i)
  PROVE  Abstract!Next
<1> DEFINE L == Len(infos)
<1>1. Len(infos') = 1 /\ L > 1 /\ i = last_index + L - 1
  BY DropAllInd
<1>2. L \in Nat
  BY Positions
<1>3. last_index \in Nat
  BY DEF IndInv
<1>4. torn' = torn /\ ldbs_size' = ldbs_size /\ chop_to(last_index + 1) /\ Ask("drop", i)
  BY DEF DropAll
<1>5. CASE mapped /\ copy_states(ConfigUpTo(i), i, EntryAt(i).term)
  <2>1. i - last_index + 1 \in 2..L /\ 1 = L - (i - last_index)
    BY <1>1, <1>2, <1>3
  <2>2. \A k \in 2..Len(infos') : heads'[k] = heads[k + (i - last_index)]
    BY <1>1
  <2>3. Abstract!Drop(i)
    BY <1>1, <1>4, <1>5, <2>1, <2>2, DropRefines
  <2> QED
    BY <1>4, <2>3, Done DEF Abstract!Do
<1>6. CASE ~mapped /\ UNCHANGED statVars /\ rc' = "ERROR"
  <2>1. last_index + 1 \in Nat /\ (last_index + 1) - last_index + 1 \in 2..L
    BY <1>1, <1>2, <1>3
  <2>2. Abstract!Chop(last_index + 1)
    BY <1>4, <1>6, <2>1, ChopRefines
  <2>3. abstract_base.index = last_index /\ Len(abstract_entries) = L - 1
    BY LogNow DEF abstract_base
  <2>4. i = Abstract!EndIndex
    BY <1>1, <1>2, <1>3, <2>3 DEF Abstract!EndIndex
  <2>5. Abstract!LoseAll(i)
    BY <1>6, <2>2, <2>3, <2>4 DEF Abstract!LoseAll
  <2> QED
    BY <1>4, <2>5, Done DEF Abstract!Do
<1> QED
  BY <1>5, <1>6 DEF DropAll

LEMMA DropFrontRefines ==
  ASSUME IndInv, ~torn, ChainInd, NEW i \in Nat, DropFront(i)
  PROVE  Abstract!Next
<1> DEFINE L == Len(infos)
           m == i - last_index + 1
<1>1. m \in 2..L - 1 /\ Len(infos') = L - m + 1 /\ \A k \in 2..Len(infos') : heads'[k] = heads[k + m - 1]
  <2>1. m = i - last_index + 1
    OBVIOUS
  <2> HIDE DEF m
  <2> QED
    BY <2>1, DropEffect
<1>2. L \in Nat
  BY Positions
<1>3. last_index \in Nat
  BY DEF IndInv
<1>4. torn' = torn /\ copy_states(ConfigUpTo(i), i, EntryAt(i).term) /\ Ask("drop", i)
  BY DEF DropFront
<1>5. i - last_index + 1 \in 2..L /\ L - m + 1 = L - (i - last_index)
  BY <1>1, <1>2, <1>3
<1>6. \A k \in 2..Len(infos') : heads'[k] = heads[k + (i - last_index)]
  <2>1. \A k \in 2..Len(infos') : k + m - 1 = k + (i - last_index)
    BY <1>3
  <2> QED
    BY <1>1, <2>1
<1>7. Abstract!Drop(i)
  BY <1>1, <1>4, <1>5, <1>6, DropRefines
<1> QED
  BY <1>4, <1>7, Done DEF Abstract!Do

\* The receiver of a data transfer starts again from the sender's compaction state.
LEMMA TransferRefines ==
  ASSUME IndInv, ~torn, NEW i \in Nat, NEW t \in Nat, NEW c \in Config \cup {NoConfig}, Transfer(i, t, c)
  PROVE  Abstract!Next
<1>1. Len(infos') = 1
  BY TransferInd
<1>2. copy_states(c, i, t) /\ torn' = torn /\ rc' = rc /\ i >= last_index /\ t >= last_term /\ Ask("transfer", i)
  BY DEF Transfer
<1>3. abstract_entries' = <<>>
  <2>1. abstract_entries' = [k \in 1..0 |-> Logged(k)']
    BY <1>1 DEF abstract_entries
  <2> QED
    BY <2>1
<1>4. abstract_base' = [index |-> i, term |-> t, config |-> IF c = NoConfig THEN abstract_base.config ELSE c]
  BY <1>2 DEF copy_states, abstract_base
<1>5. abstract_base.index = last_index /\ abstract_base.term = last_term /\ abstract_base'.term = t
  BY <1>4 DEF abstract_base
<1>6. Abstract!Reset(i, abstract_base'.term, c)
  BY <1>2, <1>3, <1>4, <1>5 DEF Abstract!Reset
<1>7. Abstract!Do("transfer", i)
  BY <1>6 DEF Abstract!Do
<1> QED
  BY <1>2, <1>7, Done


\* Two files that agree before the end of one have its entries in common.
LEMMA LayoutPrefix ==
  ASSUME NEW f, NEW n, IsFile(f, n), NEW inf, NEW end, Layout(f, inf, end),
         NEW g, NEW m, IsFile(g, m), NEW jnf, NEW stop, Layout(g, jnf, stop),
         \A p \in DOMAIN f : p < end => p \in DOMAIN g /\ g[p] = f[p]
  PROVE  /\ Len(inf) <= Len(jnf)
         /\ \A k \in 1..Len(inf) : jnf[k].amount = inf[k].amount /\ g[jnf[k].amount] = f[inf[k].amount]
<1> DEFINE N == Len(inf)
           J == Len(jnf)
           S == {k \in 0..N - 1 : k + 1 <= J /\ jnf[k + 1].amount = inf[k + 1].amount}
<1>1. N \in Nat /\ N > 0 /\ J \in Nat /\ J > 0
  BY LayoutTypes DEF Layout
<1>2. \A k \in 1..N : /\ inf[k].amount \in DOMAIN f /\ inf[k].amount < end /\ f[inf[k].amount].size > 0
                      /\ k # N => inf[k].amount + f[inf[k].amount].size = inf[k + 1].amount
  BY ZenonT(40), LayoutOrder DEF Layout
<1>3. \A k \in 1..N : inf[k].amount \in DOMAIN g /\ g[inf[k].amount] = f[inf[k].amount]
  BY <1>2
<1>4. /\ \A k \in 1..J : jnf[k].amount + g[jnf[k].amount].size = IF k = J THEN stop ELSE jnf[k + 1].amount
      /\ stop \in DOMAIN g => g[stop].size = 0
  BY DEF Layout
<1>5. 0 \in S
  <2>1. inf[1].amount = 0 /\ jnf[1].amount = 0
    BY DEF Layout
  <2> QED
    BY <1>1, <2>1
<1>6. ASSUME NEW k \in 0..N - 1, k \in S, k < N - 1
      PROVE  k + 1 \in S
  <2>1. k + 1 \in 1..N /\ (k + 1) + 1 \in 1..N /\ k + 1 # N /\ k + 1 \in 1..J
    BY <1>1, <1>6
  <2>2. jnf[k + 1].amount = inf[k + 1].amount
    BY <1>6
  <2> HIDE DEF S, N, J
  <2>3. inf[k + 1].amount + g[inf[k + 1].amount].size = inf[(k + 1) + 1].amount
    BY <1>2, <1>3, <2>1
  <2>4. inf[(k + 1) + 1].amount = IF k + 1 = J THEN stop ELSE jnf[(k + 1) + 1].amount
    BY <1>4, <2>1, <2>2, <2>3
  <2>5. inf[(k + 1) + 1].amount \in DOMAIN g /\ g[inf[(k + 1) + 1].amount].size > 0
    BY <1>2, <1>3, <2>1
  <2>6. k + 1 # J
    <3>1. ASSUME k + 1 = J
          PROVE  FALSE
      <4>1. inf[(k + 1) + 1].amount = stop
        BY <2>4, <3>1
      <4>2. stop \in DOMAIN g /\ g[stop].size > 0
        BY <2>5, <4>1
      <4> QED
        BY <1>4, <4>2
    <3> QED
      BY <3>1
  <2>7. (k + 1) + 1 <= J /\ k + 1 \in 0..N - 1
    BY <1>1, <2>1, <2>6
  <2> QED
    BY <2>4, <2>6, <2>7 DEF S
<1>7. \A k \in 0..N - 1 : k \in S
  <2>1. N - 1 \in Nat /\ \A k \in 0..N - 1 : k \in S /\ k < N - 1 => k + 1 \in S
    BY <1>1, <1>6
  <2> HIDE DEF S
  <2> QED
    BY <1>5, <2>1, UpTo
<1>8. ASSUME NEW k \in 1..N
      PROVE  k <= J /\ jnf[k].amount = inf[k].amount
  <2>1. k - 1 \in 0..N - 1 /\ (k - 1) + 1 = k
    BY <1>1
  <2>2. (k - 1) + 1 <= J /\ jnf[(k - 1) + 1].amount = inf[(k - 1) + 1].amount
    BY <1>7, <2>1
  <2> QED
    BY <2>1, <2>2
<1>9. N \in 1..N
  BY <1>1
<1> HIDE DEF N, J
<1>10. N <= J /\ \A k \in 1..N : jnf[k].amount = inf[k].amount /\ g[jnf[k].amount] = f[inf[k].amount]
  BY <1>3, <1>8, <1>9
<1> QED
  BY <1>10 DEF N, J

\* A death inside append loses nothing that was in the log.
LEMMA TornRefines ==
  ASSUME IndInv, ~torn, NEW es, IsBatch(es), AppendTorn(es)
  PROVE  Abstract!Next
<1> DEFINE old == abstract_entries
           new == abstract_entries'
           L == Len(infos)
           J == Len(infos')
           added == SubSeq(new, L - 1 + 1, J - 1)
<1>1. PICK f, n : /\ IsFile(f, n) /\ PageSize <= n /\ f[0] = Sentry /\ Load(f)
                  /\ \A p \in DOMAIN file : p < payload_size => p \in DOMAIN f /\ f[p] = file[p]
  BY TornFile
<1>2. file' = f /\ infos' = InfosOf(f) /\ UNCHANGED statVars /\ torn' = TRUE
  BY <1>1 DEF Load, AppendTorn
<1>3. n > 0
  BY <1>1, SizeAssumption DEF IsFile
<1>4. Layout(f, infos', Last(Offsets(f)))
  BY <1>1, <1>2, <1>3, LoadedLayout
<1>5. PICK N : IsFile(file, N) /\ ldbs_size <= N
  BY DEF IndInv
<1>6. Layout(file, infos, payload_size)
  BY DEF IndInv
<1>7. L <= J /\ \A k \in 1..L : f[infos'[k].amount] = file[infos[k].amount]
  BY <1>1, <1>4, <1>5, <1>6, LayoutPrefix
<1>8. J \in Nat /\ J > 0
  BY <1>1, <1>4, LayoutTypes DEF Layout
<1>9. L \in Nat /\ L > 0 /\ IsList(old, L - 1) /\ Len(old) = L - 1 /\ \A k \in 1..L - 1 : old[k] = EntryOf(heads[k + 1])
  BY LogNow
<1>10. IsList(new, J - 1) /\ Len(new) = J - 1 /\ \A k \in 1..J - 1 : new[k] = EntryOf(heads'[k + 1])
  BY <1>8, LogNext
<1>11. \A k \in 1..L : heads[k] = file[infos[k].amount]
  BY DEF heads, Heads
<1>12. \A k \in 1..J : heads'[k] = f[infos'[k].amount]
  BY <1>2 DEF heads, Heads
<1>13. abstract_base' = abstract_base
  BY <1>2 DEF abstract_base, statVars
<1> HIDE DEF old, new, L, J
<1>14. ASSUME NEW k \in 1..L - 1
       PROVE  new[k] = old[k]
  <2>1. k + 1 \in 1..L /\ k + 1 \in 1..J /\ k \in 1..J - 1
    BY <1>7, <1>8, <1>9
  <2>2. heads'[k + 1] = heads[k + 1]
    BY <1>7, <1>11, <1>12, <2>1
  <2> QED
    BY <1>9, <1>10, <2>1, <2>2
<1>15. L - 1 <= J - 1
  BY <1>7, <1>8, <1>9
<1>16. new = old \o added
  <2>1. ListPrefix(old, L - 1, new, J - 1)
    BY <1>9, <1>10, <1>14, <1>15 DEF ListPrefix
  <2>2. new = old \o SubSeq(new, L - 1 + 1, J - 1)
    BY SMTT(30), <2>1, ListExtends
  <2> QED
    BY <2>2, Zenon DEF added
<1>17. Abstract!Suffix(new, Len(old)) = added
  BY <1>9, <1>10 DEF Abstract!Suffix
<1> HIDE DEF added
<1>18. Abstract!Tear(Abstract!Suffix(abstract_entries', Len(abstract_entries)))
  BY <1>2, <1>13, <1>16, <1>17 DEF Abstract!Tear, old, new
<1>19. Ask("append", Last(es).index) /\ Abstract!Do("append", Last(es).index)
  BY <1>18 DEF AppendTorn, Abstract!Do
<1> QED
  BY <1>19, Done

\* What leaves the words of the entries alone leaves the log alone.
LEMMA Stutters ==
  ASSUME IndInv, heads' = heads, UNCHANGED <<infos, statVars, torn>>
  PROVE  UNCHANGED <<abstract_entries, abstract_base>>
<1> DEFINE L == Len(infos)
           old == abstract_entries
           new == abstract_entries'
<1>1. L \in Nat /\ L > 0 /\ IsList(old, L - 1) /\ \A k \in 1..L - 1 : old[k] = EntryOf(heads[k + 1])
  BY LogNow
<1>2. Len(infos') = L
  OBVIOUS
<1>3. IsList(new, L - 1) /\ \A k \in 1..L - 1 : new[k] = EntryOf(heads'[k + 1])
  BY <1>1, <1>2, LogNext
<1>4. abstract_base' = abstract_base
  BY DEF abstract_base, statVars
<1> HIDE DEF L, old, new
<1>5. new = old
  <2>1. \A k \in 1..L - 1 : new[k] = old[k]
    BY <1>1, <1>3
  <2> QED
    BY <1>1, <1>3, <2>1 DEF IsList
<1> QED
  BY <1>4, <1>5 DEF old, new

LEMMA NextRefines ==
  ASSUME IndInv, ChainInd, [Next]_vars
  PROVE  [Abstract!Next]_Abstract!vars
<1>1. CASE UNCHANGED vars
  <2>1. heads' = heads /\ UNCHANGED <<infos, statVars, torn, asked, rc>>
    BY <1>1 DEF vars, fileVars, memVars, heads
  <2> QED
    BY <2>1, Stutters DEF Abstract!vars
<1>2. ASSUME ~torn, NEW t \in last_entry_term..MaxTerm, NEW ds \in Batches, t > 0,
             AppendEntries(make_entries(t, ds)) \/ AppendFails(make_entries(t, ds)) \/ AppendTorn(make_entries(t, ds))
      PROVE  [Abstract!Next]_Abstract!vars
  <2>1. t \in Nat
    BY <1>2, TermType
  <2>2. IsBatch(make_entries(t, ds))
    BY <1>2, <2>1, Made
  <2>3. CASE AppendEntries(make_entries(t, ds))
    BY <1>2, <2>1, <2>3, AppendRefines
  <2>4. CASE AppendFails(make_entries(t, ds))
    <3>1. heads' = heads /\ UNCHANGED <<infos, statVars, torn>>
      BY <1>2, <2>2, <2>4, AppendFailsInd DEF memVars
    <3>2. rc' = "ERROR" /\ Ask("append", Last(make_entries(t, ds)).index)
      BY <2>4 DEF AppendFails
    <3>3. UNCHANGED <<abstract_entries, abstract_base>>
      BY <3>1, Stutters
    <3>4. Abstract!Do("append", Last(make_entries(t, ds)).index)
      BY <3>1, <3>2, <3>3 DEF Abstract!Do, Abstract!Refuse
    <3> QED
      BY <1>2, <3>2, <3>4, Done
  <2>5. CASE AppendTorn(make_entries(t, ds))
    BY <1>2, <2>2, <2>5, TornRefines
  <2> QED
    BY <1>2, <2>3, <2>4, <2>5
<1>3. ASSUME ~torn, NEW i \in 1..MaxIndex, Chop(i) \/ DropAll(i) \/ DropFront(i)
      PROVE  [Abstract!Next]_Abstract!vars
  <2>1. i \in Nat
    BY LogBoundsAssumption
  <2>2. CASE Chop(i)
    <3>1. chop_to(i) /\ ldbs_size' = ldbs_size /\ torn' = torn /\ UNCHANGED statVars /\ Ask("chop", i)
      BY <2>2 DEF Chop
    <3>2. i - last_index + 1 \in 2..Len(infos)
      BY <1>3, <2>1, <2>2, Indices DEF Chop
    <3>3. Abstract!Chop(i)
      BY <1>3, <2>1, <3>1, <3>2, ChopRefines
    <3> QED
      BY <1>3, <3>1, <3>3, Done DEF Abstract!Do
  <2> QED
    BY <1>3, <2>1, <2>2, DropAllRefines, DropFrontRefines
<1>4. ASSUME ~torn, NEW i \in 0..MaxIndex, NEW t \in 0..MaxTerm, NEW c \in Config \cup {NoConfig}, Transfer(i, t, c)
      PROVE  [Abstract!Next]_Abstract!vars
  <2>1. i \in Nat /\ t \in Nat
    BY LogBoundsAssumption
  <2> QED
    BY <1>4, <2>1, TransferRefines
<1>5. CASE Restart
  <2>1. UNCHANGED <<file, infos, statVars, torn>>
    BY <1>5, RestartInd
  <2>2. heads' = heads
    BY <2>1 DEF heads
  <2>3. UNCHANGED <<abstract_entries, abstract_base, torn, asked>> /\ rc' = "GOOD"
    BY <1>5, <2>1, <2>2, Stutters DEF Restart, Load
  <2> QED
    BY <2>3 DEF Abstract!Next, Abstract!Reload
<1> QED
  BY <1>1, <1>2, <1>3, <1>4, <1>5 DEF Next

\* When no call appends two configurations, the operations on words, offsets and the two
\* files implement those on a log: append extends it, chop and drop take what they were
\* asked to, drop leaves the index, the term and the configuration of its entry behind,
\* also when nothing else is left, only a data transfer sets them to anything else, a
\* failed growth and a restart change nothing, and a death inside append loses nothing.
THEOREM WordsImplementLog ==
  ASSUME MaxBatchConfigs <= 1
  PROVE  Spec => ImplementsLog
<1>1. Init => Abstract!Init
  BY InitRefines
<1>2. IndInv /\ ChainInd /\ [Next]_vars => [Abstract!Next]_Abstract!vars
  BY NextRefines
<1> QED
  BY <1>1, <1>2, ChainIndInvariant, PTL DEF Spec, ImplementsLog, Abstract!Spec

=============================================================================
