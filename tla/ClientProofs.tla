---------------------------- MODULE ClientProofs ----------------------------
(***************************************************************************)
(* Proofs about Client: the parser understands every command however it is *)
(* cut into pieces, and a user who waits for the answers gets the right    *)
(* one to each line.                                                       *)
(***************************************************************************)
EXTENDS Client, MaxProofs, FiniteSetTheorems, SequenceTheorems, TLAPS

-----------------------------------------------------------------------------
(***************************************************************************)
(* The parser, as the trace of the states it goes through.                 *)
(***************************************************************************)
Step(q, c) == IF q.result = "need_more" THEN do_parse(q, c) ELSE q

\* h are the states of the parser from p on, up to the n-th of chars.
IsTrace(p, chars, n, h) == h = [i \in 0..n |-> IF i = 0 THEN p ELSE Step(h[i - 1], chars[i])]

LEMMA TraceExists ==
  ASSUME NEW p, NEW chars, NEW N \in Nat
  PROVE  \E h : IsTrace(p, chars, N, h)
<1> DEFINE S == {k \in 0..N : \E h : IsTrace(p, chars, k, h)}
<1>1. 0 \in S
  <2> DEFINE h == [k \in 0..0 |-> p]
  <2>1. IsTrace(p, chars, 0, h)
    BY DEF IsTrace
  <2> QED
    BY <2>1
<1>2. ASSUME NEW k \in 0..N, k \in S, k < N
      PROVE  k + 1 \in S
  <2>1. PICK h : IsTrace(p, chars, k, h)
    BY <1>2
  <2> DEFINE g == [j \in 0..k + 1 |-> IF j <= k THEN h[j] ELSE Step(h[k], chars[k + 1])]
  <2>2. ASSUME NEW j \in 0..k + 1
        PROVE  g[j] = IF j = 0 THEN p ELSE Step(g[j - 1], chars[j])
    <3>1. CASE j <= k
      <4>1. h[j] = IF j = 0 THEN p ELSE Step(h[j - 1], chars[j])
        BY <2>1, <3>1 DEF IsTrace
      <4>2. g[j] = h[j] /\ (j # 0 => g[j - 1] = h[j - 1])
        BY <3>1
      <4> HIDE DEF g
      <4> QED
        BY <4>1, <4>2
    <3>2. CASE j = k + 1
      BY <3>2
    <3> QED
      BY <3>1, <3>2
  <2>3. g = [j \in 0..k + 1 |-> g[j]]
    OBVIOUS
  <2> HIDE DEF g
  <2>4. IsTrace(p, chars, k + 1, g)
    BY <2>2, <2>3 DEF IsTrace
  <2> QED
    BY <1>2, <2>4
<1>3. \A k \in 0..N : k \in S /\ k < N => k + 1 \in S
  BY <1>2
<1> HIDE DEF S
<1>4. N \in S
  BY <1>1, <1>3, UpTo
<1> QED
  BY <1>4 DEF S

Steps(p, chars, n, h) == h[0] = p /\ \A k \in 1..n : h[k] = Step(h[k - 1], chars[k])

LEMMA TraceStep ==
  ASSUME NEW p, NEW chars, NEW N \in Nat, NEW h, IsTrace(p, chars, N, h)
  PROVE  Steps(p, chars, N, h)
<1>1. \A k \in 0..N : h[k] = IF k = 0 THEN p ELSE Step(h[k - 1], chars[k])
  BY DEF IsTrace
<1> QED
  BY <1>1 DEF Steps

\* Whatever satisfies the equations of a trace has its states.
LEMMA TraceUnique ==
  ASSUME NEW p, NEW chars, NEW N \in Nat, NEW h, IsTrace(p, chars, N, h),
         NEW g, Steps(p, chars, N, g)
  PROVE  \A k \in 0..N : g[k] = h[k]
<1> DEFINE S == {k \in 0..N : g[k] = h[k]}
<1>1. h[0] = p /\ \A k \in 1..N : h[k] = Step(h[k - 1], chars[k])
  BY TraceStep DEF Steps
<1>2. 0 \in S
  BY <1>1 DEF Steps
<1>3. ASSUME NEW k \in 0..N, k \in S, k < N
      PROVE  k + 1 \in S
  <2>1. k + 1 \in 1..N /\ (k + 1) - 1 = k /\ g[k] = h[k]
    BY <1>3
  <2>2. g[k + 1] = Step(g[k], chars[k + 1]) /\ h[k + 1] = Step(h[k], chars[k + 1])
    BY <1>1, <2>1 DEF Steps
  <2> QED
    BY <2>1, <2>2
<1>4. \A k \in 0..N : k \in S /\ k < N => k + 1 \in S
  BY <1>3
<1> HIDE DEF S
<1>5. \A k \in 0..N : k \in S
  BY <1>2, <1>4, UpTo
<1> QED
  BY <1>5 DEF S

\* parse is the last state of the trace.
LEMMA ParseIs ==
  ASSUME NEW p, NEW chars, Len(chars) \in Nat, NEW h, IsTrace(p, chars, Len(chars), h)
  PROVE  parse(p, chars) = h[Len(chars)]
<1> DEFINE N == Len(chars)
           Eq(f) == f = [i \in 0..N |-> IF i = 0 THEN {p} ELSE {Step(q, chars[i]) : q \in f[i - 1]}]
           A == [i \in 0..N |-> {h[i]}]
           after == CHOOSE f : Eq(f)
<1>1. h[0] = p /\ \A k \in 1..N : h[k] = Step(h[k - 1], chars[k])
  BY TraceStep DEF Steps
<1>2. ASSUME NEW i \in 0..N
      PROVE  A[i] = IF i = 0 THEN {p} ELSE {Step(q, chars[i]) : q \in A[i - 1]}
  <2>1. CASE i = 0
    BY <1>1, <2>1
  <2>2. CASE i # 0
    <3>1. i \in 1..N /\ i - 1 \in 0..N
      BY <2>2
    <3>2. A[i] = {h[i]} /\ A[i - 1] = {h[i - 1]} /\ h[i] = Step(h[i - 1], chars[i])
      BY <1>1, <3>1
    <3> HIDE DEF A
    <3> QED
      BY <2>2, <3>2
  <2> QED
    BY <2>1, <2>2
<1>3. A = [i \in 0..N |-> A[i]]
  OBVIOUS
<1>4. Eq(A)
  <2> HIDE DEF A, N
  <2> QED
    BY <1>2, <1>3
<1>5. parse(p, chars) = CHOOSE q \in after[N] : TRUE
  BY DEF parse, Step
<1> HIDE DEF Eq, A
<1>6. Eq(after)
  BY <1>4
<1> HIDE DEF after
<1>7. /\ after[0] = {p}
      /\ \A i \in 1..N : after[i] = {Step(q, chars[i]) : q \in after[i - 1]}
  <2>1. \A i \in 0..N : after[i] = IF i = 0 THEN {p} ELSE {Step(q, chars[i]) : q \in after[i - 1]}
    BY <1>6, Zenon DEF Eq
  <2>2. 0 \in 0..N /\ \A i \in 1..N : i \in 0..N /\ i # 0
    OBVIOUS
  <2> QED
    BY <2>1, <2>2, Zenon
<1> DEFINE S == {k \in 0..N : after[k] = {h[k]}}
<1>8. 0 \in S
  BY <1>1, <1>7
<1>9. ASSUME NEW k \in 0..N, k \in S, k < N
      PROVE  k + 1 \in S
  <2>1. k + 1 \in 1..N /\ (k + 1) - 1 = k /\ after[k] = {h[k]}
    BY <1>9
  <2>2. after[k + 1] = {Step(q, chars[k + 1]) : q \in after[k]} /\ h[k + 1] = Step(h[k], chars[k + 1])
    BY <1>1, <1>7, <2>1
  <2> QED
    BY <2>1, <2>2
<1>10. \A k \in 0..N : k \in S /\ k < N => k + 1 \in S
  BY <1>9
<1>11. after[N] = {h[N]}
  <2>1. N \in 0..N
    OBVIOUS
  <2> HIDE DEF S, N
  <2>2. N \in S
    BY <1>8, <1>10, <2>1, UpTo DEF N
  <2> QED
    BY <2>2 DEF S
<1> QED
  BY <1>5, <1>11

\* The trace of the first n characters, and that of the next ones.
LEMMA ParsePrefix ==
  ASSUME NEW p, NEW l \in Seq(Char), NEW h, IsTrace(p, l, Len(l), h), NEW n \in 0..Len(l)
  PROVE  parse(p, SubSeq(l, 1, n)) = h[n]
<1> DEFINE w == SubSeq(l, 1, n)
<1>1. Len(l) \in Nat /\ n \in Nat /\ n <= Len(l)
  OBVIOUS
<1>2. Len(w) = n /\ \A k \in 1..n : w[k] = l[k]
  BY <1>1
<1> HIDE DEF w
<1>3. Steps(p, w, n, h)
  <2>1. h[0] = p /\ \A k \in 1..Len(l) : h[k] = Step(h[k - 1], l[k])
    BY <1>1, TraceStep DEF Steps
  <2> QED
    BY <1>1, <1>2, <2>1 DEF Steps
<1>4. PICK g : IsTrace(p, w, n, g)
  BY <1>1, TraceExists
<1>5. h[n] = g[n]
  <2>1. n \in 0..n /\ n \in Nat
    BY <1>1
  <2>2. \A k \in 0..n : h[k] = g[k]
    BY <1>3, <1>4, <2>1, TraceUnique, SMT
  <2> QED
    BY <2>1, <2>2
<1>6. parse(p, w) = g[n]
  BY <1>1, <1>2, <1>4, ParseIs
<1> QED
  BY <1>5, <1>6 DEF w

\* u is the m characters of l behind the first a.
IsPiece(u, l, a, m) == u \in Seq(Char) /\ Len(u) = m /\ \A k \in 1..m : u[k] = l[a + k]

\* w is the part of l from i to j, and h the states of the parser along l.
IsCut(p, l, h, i, n, w, j) ==
  /\ l \in Seq(Char) /\ IsTrace(p, l, Len(l), h) /\ i \in 0..Len(l) /\ n \in 0..Len(l) - i
  /\ IsPiece(w, l, i, n) /\ j = i + n

LEMMA ParseRest ==
  ASSUME NEW p, NEW l, NEW h, NEW i, NEW n, NEW w, NEW j, IsCut(p, l, h, i, n, w, j)
  PROVE  parse(h[i], w) = h[j]
<1> /\ l \in Seq(Char) /\ IsTrace(p, l, Len(l), h) /\ i \in 0..Len(l) /\ n \in 0..Len(l) - i
    /\ IsPiece(w, l, i, n) /\ j = i + n
  BY DEF IsCut
<1> w \in Seq(Char) /\ Len(w) = n /\ \A k \in 1..n : w[k] = l[i + k]
  BY DEF IsPiece
<1>1. Len(l) \in Nat /\ n \in Nat /\ i \in Nat /\ i + n <= Len(l)
  OBVIOUS
<1> DEFINE f == [k \in 0..n |-> h[i + k]]
<1>2. Steps(h[i], w, n, f)
  <2>1. \A k \in 1..Len(l) : h[k] = Step(h[k - 1], l[k])
    <3>1. Steps(p, l, Len(l), h)
      BY <1>1, TraceStep, Zenon
    <3> QED
      BY <3>1 DEF Steps
  <2>2. f[0] = h[i]
    BY <1>1
  <2>3. ASSUME NEW k \in 1..n
        PROVE  f[k] = Step(f[k - 1], w[k])
    <3>1. i + k \in 1..Len(l) /\ k - 1 \in 0..n /\ k \in 0..n /\ i + (k - 1) = (i + k) - 1
      BY <1>1
    <3>2. f[k] = h[i + k] /\ f[k - 1] = h[(i + k) - 1]
      BY <3>1
    <3>3. h[i + k] = Step(h[(i + k) - 1], l[i + k])
      BY <2>1, <3>1
    <3>4. w[k] = l[i + k]
      OBVIOUS
    <3> HIDE DEF f
    <3> QED
      BY <3>2, <3>3, <3>4
  <2> QED
    BY <2>2, <2>3, Zenon DEF Steps
<1>3. f[n] = h[i + n]
  BY <1>1
<1> HIDE DEF f
<1>4. PICK g : IsTrace(h[i], w, n, g)
  BY <1>1, TraceExists
<1>5. f[n] = g[n]
  <2>1. n \in 0..n /\ n \in Nat
    BY <1>1
  <2>2. \A k \in 0..n : f[k] = g[k]
    BY <1>2, <1>4, <2>1, TraceUnique, SMT
  <2> QED
    BY <2>1, <2>2
<1>6. parse(h[i], w) = g[n]
  BY <1>1, <1>4, ParseIs
<1> QED
  BY <1>3, <1>5, <1>6

\* A decision stands.
LEMMA Sticky ==
  ASSUME NEW p, NEW l \in Seq(Char), NEW h, IsTrace(p, l, Len(l), h), NEW i \in 0..Len(l),
         h[i].result # "need_more"
  PROVE  h[Len(l)] = h[i]
<1> DEFINE N == Len(l)
           S == {k \in 0..N - i : h[i + k] = h[i]}
<1>1. N \in Nat /\ i \in Nat /\ N - i \in Nat /\ i + 0 = i
  OBVIOUS
<1>2. \A k \in 1..N : h[k] = Step(h[k - 1], l[k])
  BY <1>1, TraceStep DEF Steps
<1> HIDE DEF N
<1>3. 0 \in S
  BY <1>1
<1>4. ASSUME NEW k \in 0..N - i, k \in S, k < N - i
      PROVE  k + 1 \in S
  <2>1. i + (k + 1) \in 1..N /\ (i + (k + 1)) - 1 = i + k /\ h[i + k] = h[i] /\ k + 1 \in 0..N - i
    BY <1>1, <1>4
  <2>2. h[i + (k + 1)] = Step(h[i + k], l[i + (k + 1)])
    BY <1>2, <2>1
  <2>3. h[i + (k + 1)] = h[i + k]
    BY <2>1, <2>2 DEF Step
  <2> QED
    BY <2>1, <2>3
<1>5. \A k \in 0..N - i : k \in S /\ k < N - i => k + 1 \in S
  BY <1>4
<1> HIDE DEF S
<1>6. N - i \in S
  <2>1. N - i \in 0..N - i
    BY <1>1
  <2> QED
    BY <1>1, <1>3, <1>5, <2>1, UpTo, Zenon
<1>7. i + (N - i) = N
  BY <1>1
<1> QED
  BY <1>6, <1>7 DEF S, N


-----------------------------------------------------------------------------
(***************************************************************************)
(* do_parse, one character at a time.                                      *)
(***************************************************************************)
At(s, t, k, v) == [state |-> s, type |-> t, key |-> k, value |-> v, result |-> "need_more"]

LEMMA StepAt ==
  ASSUME NEW s, NEW t, NEW k, NEW v, NEW c
  PROVE  Step(At(s, t, k, v), c) = do_parse(At(s, t, k, v), c)
BY DEF Step, At

LEMMA StepBlank ==
  ASSUME NEW s \in SkipsBlank, NEW t, NEW k, NEW v
  PROVE  Step(At(s, t, k, v), "blank") = At(s, t, k, v)
<1> DEFINE p == At(s, t, k, v)
<1>2. p.state = s
  BY DEF At
<1>3. do_parse(p, "blank") = p
  <2> HIDE DEF p
  <2> QED
    BY <1>2, Zenon DEF do_parse
<1> QED
  BY <1>3, StepAt DEF At

\* A letter of a keyword.
LEMMA WordIs ==
  ASSUME NEW w \in Keyword
  PROVE  {k \in Keyword : k[1] = w[1] /\ k[2] = w[2]} = {w}
<1>1. ASSUME NEW k \in Keyword, k[1] = w[1], k[2] = w[2]
      PROVE  k = w
  BY <1>1 DEF Keyword
<1> QED
  BY <1>1

LEMMA StepWord ==
  ASSUME NEW w \in Keyword, NEW t, NEW k, NEW v
  PROVE  Step(At(w[1], t, k, v), w[2])
           = At(w[3], IF w[1] \in DOMAIN TypeSpelt THEN TypeSpelt[w[1]] ELSE t, k, v)
<1> DEFINE p == At(w[1], t, k, v)
           word == {x \in Keyword : x[1] = w[1] /\ x[2] = w[2]}
<1>1. word = {w} /\ word # {} /\ (CHOOSE x \in word : TRUE) = w
  BY WordIs
<1>2. /\ ~(w[1] \in SkipsBlank /\ w[2] = "blank")
      /\ ~(w[1] \in NeedsMore /\ w[2] \in {"CR", "LF"})
      /\ w[1] # "read_set_key" /\ w[1] \notin {"read_key", "read_set_value"} /\ w[1] # "carriage"
      /\ w[1] \notin DOMAIN KeyState /\ w[1] \notin DOMAIN ValueState
  BY DEF Keyword, SkipsBlank, NeedsMore, KeyState, ValueState
<1>3. p.state = w[1] /\ p.type = t
  BY DEF At
<1>4. do_parse(p, w[2]) = [[p EXCEPT !.state = w[3]] EXCEPT !.type = IF w[1] \in DOMAIN TypeSpelt THEN TypeSpelt[w[1]] ELSE @]
  <2> HIDE DEF p
  <2> QED
    BY <1>1, <1>2, <1>3, ZenonT(60) DEF do_parse
<1>5. do_parse(p, w[2]) = At(w[3], IF w[1] \in DOMAIN TypeSpelt THEN TypeSpelt[w[1]] ELSE t, k, v)
  BY <1>4 DEF At
<1> QED
  BY <1>5, StepAt

\* A character of a key; only a key that a line ends with may have blanks.
LEMMA StepKey ==
  ASSUME NEW s \in {"type_set", "read_set_key", "type_done", "read_key"}, NEW t, NEW k, NEW v,
         NEW c, c \notin {"CR", "LF"}, c # "blank" \/ s = "read_key"
  PROVE  Step(At(s, t, k, v), c)
           = At(IF s \in {"type_set", "read_set_key"} THEN "read_set_key" ELSE "read_key", t, Append(k, c), v)
<1> DEFINE p == At(s, t, k, v)
<1>1. /\ ~(s \in SkipsBlank /\ c = "blank") /\ ~(s \in NeedsMore /\ c \in {"CR", "LF"})
      /\ ~(s = "read_set_key" /\ c = "blank") /\ ~(s \in {"read_key", "read_set_value"} /\ c = "CR")
      /\ s # "carriage" /\ s \in DOMAIN KeyState
      /\ KeyState[s] = IF s \in {"type_set", "read_set_key"} THEN "read_set_key" ELSE "read_key"
  BY DEF SkipsBlank, NeedsMore, KeyState
<1>2. p.state = s
  BY DEF At
<1>3. do_parse(p, c) = [[p EXCEPT !.state = KeyState[s]] EXCEPT !.key = Append(@, c)]
  <2> HIDE DEF p
  <2> QED
    BY <1>1, <1>2, Zenon DEF do_parse
<1>4. do_parse(p, c) = At(KeyState[s], t, Append(k, c), v)
  BY <1>3 DEF At
<1> HIDE DEF p
<1>5. Step(p, c) = At(KeyState[s], t, Append(k, c), v)
  BY <1>4, StepAt DEF p
<1> QED
  BY <1>1, <1>5 DEF p

LEMMA StepKeyEnd ==
  ASSUME NEW t, NEW k, NEW v
  PROVE  Step(At("read_set_key", t, k, v), "blank") = At("read_set_blank", t, k, v)
<1> DEFINE p == At("read_set_key", t, k, v)
<1>1. "read_set_key" \notin SkipsBlank /\ "blank" \notin {"CR", "LF"}
  BY DEF SkipsBlank
<1>2. p.state = "read_set_key"
  BY DEF At
<1>3. do_parse(p, "blank") = [p EXCEPT !.state = "read_set_blank"]
  <2> HIDE DEF p
  <2> QED
    BY <1>1, <1>2, Zenon DEF do_parse
<1> QED
  BY <1>1, <1>3, StepAt DEF At

LEMMA StepValue ==
  ASSUME NEW s \in {"read_set_blank", "read_set_value"}, NEW t, NEW k, NEW v,
         NEW c, c \notin {"CR", "LF"}, c # "blank" \/ s = "read_set_value"
  PROVE  Step(At(s, t, k, v), c) = At("read_set_value", t, k, Append(v, c))
<1> DEFINE p == At(s, t, k, v)
<1>1. /\ ~(s \in SkipsBlank /\ c = "blank") /\ ~(s \in NeedsMore /\ c \in {"CR", "LF"})
      /\ ~(s = "read_set_key" /\ c = "blank") /\ ~(s \in {"read_key", "read_set_value"} /\ c = "CR")
      /\ s # "carriage" /\ s \notin DOMAIN KeyState /\ s \in DOMAIN ValueState
      /\ ValueState[s] = "read_set_value"
  BY DEF SkipsBlank, NeedsMore, KeyState, ValueState
<1>2. p.state = s
  BY DEF At
<1>3. do_parse(p, c) = [[p EXCEPT !.state = ValueState[s]] EXCEPT !.value = Append(@, c)]
  <2> HIDE DEF p
  <2> QED
    BY <1>1, <1>2, Zenon DEF do_parse
<1>4. do_parse(p, c) = At(ValueState[s], t, k, Append(v, c))
  BY <1>3 DEF At
<1> HIDE DEF p
<1>5. Step(p, c) = At(ValueState[s], t, k, Append(v, c))
  BY <1>4, StepAt DEF p
<1> QED
  BY <1>1, <1>5 DEF p

LEMMA StepReturn ==
  ASSUME NEW s \in {"read_key", "read_set_value"}, NEW t, NEW k, NEW v
  PROVE  Step(At(s, t, k, v), "CR") = At("carriage", t, k, v)
<1> DEFINE p == At(s, t, k, v)
<1>1. "CR" # "blank" /\ s \notin NeedsMore
  BY DEF NeedsMore
<1>2. p.state = s
  BY DEF At
<1>3. do_parse(p, "CR") = [p EXCEPT !.state = "carriage"]
  <2> HIDE DEF p
  <2> QED
    BY <1>1, <1>2, Zenon DEF do_parse
<1> QED
  BY <1>1, <1>3, StepAt DEF At

LEMMA StepEnd ==
  ASSUME NEW t, NEW k, NEW v
  PROVE  Step(At("carriage", t, k, v), "LF")
           = [state |-> "carriage", type |-> t, key |-> k, value |-> v, result |-> "good"]
<1> DEFINE p == At("carriage", t, k, v)
<1>1. /\ "carriage" \notin SkipsBlank /\ "carriage" \notin NeedsMore /\ "carriage" # "read_set_key"
      /\ "carriage" \notin {"read_key", "read_set_value"}
  BY DEF SkipsBlank, NeedsMore
<1>2. p.state = "carriage"
  BY DEF At
<1>3. do_parse(p, "LF") = [p EXCEPT !.result = "good"]
  <2> HIDE DEF p
  <2> QED
    BY <1>1, <1>2, Zenon DEF do_parse
<1> QED
  BY <1>1, <1>3, StepAt DEF At

\* do_parse and parse keep the type of the parser.
LEMMA StepType ==
  ASSUME NEW p \in Parsers, NEW c \in Char
  PROVE  Step(p, c) \in Parsers
<1> DEFINE s == p.state
           word == {k \in Keyword : k[1] = s /\ k[2] = c}
<1>1. p.state \in State /\ p.type \in Types /\ p.key \in Seq(Char) /\ p.value \in Seq(Char)
  BY DEF Parsers
<1>2. \A u \in State : [p EXCEPT !.state = u] \in Parsers
  BY DEF Parsers
<1>3. [p EXCEPT !.result = "bad"] \in Parsers /\ [p EXCEPT !.result = "good"] \in Parsers
  BY DEF Parsers
<1>4. ASSUME NEW u \in State
      PROVE  [[p EXCEPT !.state = u] EXCEPT !.key = Append(@, c)] \in Parsers
  <2>1. Append(p.key, c) \in Seq(Char)
    BY <1>1
  <2> QED
    BY <2>1 DEF Parsers
<1>5. ASSUME NEW u \in State
      PROVE  [[p EXCEPT !.state = u] EXCEPT !.value = Append(@, c)] \in Parsers
  <2>1. Append(p.value, c) \in Seq(Char)
    BY <1>1
  <2> QED
    BY <2>1 DEF Parsers
<1>6. ASSUME NEW u \in State, NEW t \in Types
      PROVE  [[p EXCEPT !.state = u] EXCEPT !.type = t] \in Parsers
  BY DEF Parsers
<1>7. "read_set_blank" \in State /\ "carriage" \in State
  BY DEF State
<1>8. s \in DOMAIN KeyState => KeyState[s] \in State
  BY DEF KeyState, State
<1>9. s \in DOMAIN ValueState => ValueState[s] \in State
  BY DEF ValueState, State
<1>10. \A k \in Keyword : k[3] \in State
  BY DEF Keyword, State
<1>11. (IF s \in DOMAIN TypeSpelt THEN TypeSpelt[s] ELSE p.type) \in Types
  BY <1>1 DEF TypeSpelt, Types
<1>12. word # {} => (CHOOSE k \in word : TRUE)[3] \in State
  BY <1>10
<1> DEFINE go(u) == [p EXCEPT !.state = u]
           d == do_parse(p, c)
<1>13. \/ d = p \/ d = [p EXCEPT !.result = "bad"] \/ d = [p EXCEPT !.result = "good"]
       \/ d = go("read_set_blank") \/ d = go("carriage")
       \/ s \in DOMAIN KeyState /\ d = [go(KeyState[s]) EXCEPT !.key = Append(@, c)]
       \/ s \in DOMAIN ValueState /\ d = [go(ValueState[s]) EXCEPT !.value = Append(@, c)]
       \/ word # {} /\ d = [go((CHOOSE k \in word : TRUE)[3]) EXCEPT
                               !.type = IF s \in DOMAIN TypeSpelt THEN TypeSpelt[s] ELSE @]
  BY Zenon DEF do_parse
<1>14. CASE s \in DOMAIN KeyState /\ d = [go(KeyState[s]) EXCEPT !.key = Append(@, c)]
  BY <1>4, <1>8, <1>14 DEF Step
<1>15. CASE s \in DOMAIN ValueState /\ d = [go(ValueState[s]) EXCEPT !.value = Append(@, c)]
  BY <1>5, <1>9, <1>15 DEF Step
<1>16. CASE word # {} /\ d = [go((CHOOSE k \in word : TRUE)[3]) EXCEPT
                               !.type = IF s \in DOMAIN TypeSpelt THEN TypeSpelt[s] ELSE @]
  <2>1. PICK u \in State : u = (CHOOSE k \in word : TRUE)[3]
    BY <1>12, <1>16
  <2>2. go(u).type = p.type
    BY DEF Parsers
  <2>3. d = [go(u) EXCEPT !.type = IF s \in DOMAIN TypeSpelt THEN TypeSpelt[s] ELSE p.type]
    BY <1>16, <2>1, <2>2
  <2>4. d \in Parsers
    BY <1>6, <1>11, <2>3
  <2> QED
    BY <2>4 DEF Step
<1> QED
  BY <1>2, <1>3, <1>7, <1>13, <1>14, <1>15, <1>16 DEF Step


LEMMA ParseType ==
  ASSUME NEW p \in Parsers, NEW chars \in Seq(Char)
  PROVE  parse(p, chars) \in Parsers
<1> DEFINE N == Len(chars)
<1>1. N \in Nat /\ \A k \in 1..N : chars[k] \in Char
  OBVIOUS
<1>2. PICK h : IsTrace(p, chars, N, h)
  BY <1>1, TraceExists
<1>3. h[0] = p /\ \A k \in 1..N : h[k] = Step(h[k - 1], chars[k])
  <2>1. Steps(p, chars, N, h)
    BY <1>1, <1>2, TraceStep
  <2> QED
    BY <2>1 DEF Steps
<1> DEFINE S == {k \in 0..N : h[k] \in Parsers}
<1>4. 0 \in S
  BY <1>1, <1>3
<1>5. ASSUME NEW k \in 0..N, k \in S, k < N
      PROVE  k + 1 \in S
  <2>1. k + 1 \in 1..N /\ k + 1 \in 0..N /\ (k + 1) - 1 = k /\ h[k] \in Parsers
    BY <1>5
  <2>2. h[k + 1] = Step(h[k], chars[k + 1]) /\ chars[k + 1] \in Char
    BY <1>1, <1>3, <2>1
  <2> QED
    BY <2>1, <2>2, StepType
<1>6. \A k \in 0..N : k \in S /\ k < N => k + 1 \in S
  BY <1>5
<1>7. h[N] \in Parsers
  <2>1. N \in 0..N
    BY <1>1
  <2> HIDE DEF S, N
  <2>2. N \in S
    BY <1>1, <1>4, <1>6, <2>1, UpTo
  <2> QED
    BY <2>2 DEF S
<1> QED
  BY <1>1, <1>2, <1>7, ParseIs

-----------------------------------------------------------------------------
(***************************************************************************)
(* Every command is read as it was typed, with its last character.         *)
(***************************************************************************)
\* u is s and then t, of n and m characters.
Joined(u, s, n, t, m) ==
  /\ u \in Seq(Char) /\ Len(u) = n + m
  /\ \A k \in 1..n : u[k] = s[k]
  /\ \A k \in 1..m : u[n + k] = t[k]

LEMMA ConcatIs ==
  ASSUME NEW s \in Seq(Char), NEW t \in Seq(Char), NEW n, n = Len(s), NEW m, m = Len(t)
  PROVE  Joined(s \o t, s, n, t, m)
BY DEF Joined

LEMMA PrefixGrows ==
  ASSUME NEW s \in Seq(Char), NEW j \in 0..Len(s) - 1
  PROVE  SubSeq(s, 1, j + 1) = Append(SubSeq(s, 1, j), s[j + 1])
OBVIOUS

\* The word w is in l behind b characters.
WordAt(l, N, b, w) ==
  w \in Seq(Char) /\ IsWord(w) /\ b + Len(w) <= N /\ \A j \in 1..Len(w) : l[b + j] = w[j]

KeyStates(s, r) == r = IF s = "type_set" THEN "read_set_key" ELSE "read_key"

\* A key, behind the keyword and its blank.
LEMMA KeyRead ==
  ASSUME NEW p, NEW l, NEW N \in Nat, NEW h, Steps(p, l, N, h), NEW t, NEW b \in Nat,
         NEW s \in {"type_set", "type_done"}, h[b] = At(s, t, <<>>, <<>>),
         NEW key, WordAt(l, N, b, key), s = "type_set" => \A j \in DOMAIN key : key[j] # "blank",
         NEW r, KeyStates(s, r)
  PROVE  \A j \in 1..Len(key) : h[b + j] = At(r, t, SubSeq(key, 1, j), <<>>)
<1> key \in Seq(Char) /\ IsWord(key) /\ b + Len(key) <= N /\ \A j \in 1..Len(key) : l[b + j] = key[j]
  BY DEF WordAt
<1> r = IF s = "type_set" THEN "read_set_key" ELSE "read_key"
  BY DEF KeyStates
<1> DEFINE K == Len(key)
           S == {j \in 0..K : j = 0 \/ h[b + j] = At(r, t, SubSeq(key, 1, j), <<>>)}
<1>1. /\ K \in Nat /\ DOMAIN key = 1..K /\ key[1] # "blank"
      /\ \A j \in 1..K : key[j] \notin {"CR", "LF"} /\ (s = "type_set" => key[j] # "blank")
  BY DEF IsWord
<1>2. 0 \in S
  BY <1>1
<1>3. ASSUME NEW j \in 0..K, j \in S, j < K
      PROVE  j + 1 \in S
  <2>1. /\ b + (j + 1) \in 1..N /\ (b + (j + 1)) - 1 = b + j /\ j + 1 \in 0..K /\ j + 1 \in 1..K
        /\ j \in 0..Len(key) - 1
    BY <1>1, <1>3
  <2>2. h[b + (j + 1)] = Step(h[b + j], key[j + 1])
    BY <2>1 DEF Steps
  <2>3. SubSeq(key, 1, j + 1) = Append(SubSeq(key, 1, j), key[j + 1])
    BY <2>1, PrefixGrows
  <2>4. key[j + 1] \notin {"CR", "LF"} /\ (s = "type_set" => key[j + 1] # "blank") /\ (j = 0 => key[j + 1] # "blank")
    BY <1>1, <2>1
  <2> HIDE DEF S, K
  <2>5. CASE j = 0
    <3>1. SubSeq(key, 1, j) = <<>> /\ b + j = b
      BY <2>5
    <3>2. Step(At(s, t, SubSeq(key, 1, j), <<>>), key[j + 1])
            = At(IF s \in {"type_set", "read_set_key"} THEN "read_set_key" ELSE "read_key", t,
                 Append(SubSeq(key, 1, j), key[j + 1]), <<>>)
      <4>1. key[j + 1] # "blank" /\ s \in {"type_set", "read_set_key", "type_done", "read_key"}
        BY <2>4, <2>5
      <4> QED
        BY <2>4, <4>1, StepKey
    <3>3. h[b + (j + 1)] = At(r, t, SubSeq(key, 1, j + 1), <<>>)
      BY <2>2, <2>3, <3>1, <3>2
    <3> QED
      BY <2>1, <3>3 DEF S
  <2>6. CASE j # 0
    <3>1. h[b + j] = At(r, t, SubSeq(key, 1, j), <<>>)
      BY <1>3, <2>6 DEF S
    <3>2. r \in {"read_set_key", "read_key"} /\ (r = "read_set_key" <=> s = "type_set")
      OBVIOUS
    <3>3. Step(At(r, t, SubSeq(key, 1, j), <<>>), key[j + 1])
            = At(IF r \in {"type_set", "read_set_key"} THEN "read_set_key" ELSE "read_key", t,
                 Append(SubSeq(key, 1, j), key[j + 1]), <<>>)
      <4>1. key[j + 1] # "blank" \/ r = "read_key"
        BY <2>4, <3>2
      <4>2. r \in {"type_set", "read_set_key", "type_done", "read_key"}
        BY <3>2
      <4> QED
        BY <2>4, <4>1, <4>2, StepKey
    <3>4. h[b + (j + 1)] = At(r, t, SubSeq(key, 1, j + 1), <<>>)
      BY <2>2, <2>3, <3>1, <3>2, <3>3
    <3> QED
      BY <2>1, <3>4 DEF S
  <2> QED
    BY <2>5, <2>6
<1>4. \A j \in 0..K : j \in S /\ j < K => j + 1 \in S
  BY <1>3
<1> HIDE DEF S
<1>5. \A j \in 0..K : j \in S
  BY <1>1, <1>2, <1>4, UpTo
<1> QED
  BY <1>5 DEF S

\* A value, behind the key and a blank.
LEMMA ValueRead ==
  ASSUME NEW p, NEW l, NEW N \in Nat, NEW h, Steps(p, l, N, h), NEW t, NEW key, NEW b \in Nat,
         h[b] = At("read_set_blank", t, key, <<>>),
         NEW value, WordAt(l, N, b, value)
  PROVE  \A j \in 1..Len(value) : h[b + j] = At("read_set_value", t, key, SubSeq(value, 1, j))
<1> value \in Seq(Char) /\ IsWord(value) /\ b + Len(value) <= N /\ \A j \in 1..Len(value) : l[b + j] = value[j]
  BY DEF WordAt
<1> DEFINE K == Len(value)
           S == {j \in 0..K : j = 0 \/ h[b + j] = At("read_set_value", t, key, SubSeq(value, 1, j))}
<1>1. /\ K \in Nat /\ DOMAIN value = 1..K /\ value[1] # "blank" /\ \A j \in 1..K : value[j] \notin {"CR", "LF"}
  BY DEF IsWord
<1>2. 0 \in S
  BY <1>1
<1>3. ASSUME NEW j \in 0..K, j \in S, j < K
      PROVE  j + 1 \in S
  <2>1. /\ b + (j + 1) \in 1..N /\ (b + (j + 1)) - 1 = b + j /\ j + 1 \in 0..K /\ j + 1 \in 1..K
        /\ j \in 0..Len(value) - 1
    BY <1>1, <1>3
  <2>2. h[b + (j + 1)] = Step(h[b + j], value[j + 1])
    BY <2>1 DEF Steps
  <2>3. SubSeq(value, 1, j + 1) = Append(SubSeq(value, 1, j), value[j + 1])
    BY <2>1, PrefixGrows
  <2>4. value[j + 1] \notin {"CR", "LF"} /\ (j = 0 => value[j + 1] # "blank")
    BY <1>1, <2>1
  <2> HIDE DEF S, K
  <2>5. CASE j = 0
    <3>1. SubSeq(value, 1, j) = <<>> /\ b + j = b
      BY <2>5
    <3>2. Step(At("read_set_blank", t, key, SubSeq(value, 1, j)), value[j + 1])
            = At("read_set_value", t, key, Append(SubSeq(value, 1, j), value[j + 1]))
      <4>1. value[j + 1] # "blank" /\ "read_set_blank" \in {"read_set_blank", "read_set_value"}
        BY <2>4, <2>5
      <4> QED
        BY <2>4, <4>1, StepValue
    <3>3. h[b + (j + 1)] = At("read_set_value", t, key, SubSeq(value, 1, j + 1))
      BY <2>2, <2>3, <3>1, <3>2
    <3> QED
      BY <2>1, <3>3 DEF S
  <2>6. CASE j # 0
    <3>1. h[b + j] = At("read_set_value", t, key, SubSeq(value, 1, j))
      BY <1>3, <2>6 DEF S
    <3>2. Step(At("read_set_value", t, key, SubSeq(value, 1, j)), value[j + 1])
            = At("read_set_value", t, key, Append(SubSeq(value, 1, j), value[j + 1]))
      BY <2>4, StepValue
    <3>3. h[b + (j + 1)] = At("read_set_value", t, key, SubSeq(value, 1, j + 1))
      BY <2>2, <2>3, <3>1, <3>2
    <3> QED
      BY <2>1, <3>3 DEF S
  <2> QED
    BY <2>5, <2>6
<1>4. \A j \in 0..K : j \in S /\ j < K => j + 1 \in S
  BY <1>3
<1> HIDE DEF S
<1>5. \A j \in 0..K : j \in S
  BY <1>1, <1>2, <1>4, UpTo
<1> QED
  BY <1>5 DEF S


\* The characters of a command's line.
IsText(c, l) ==
  /\ l \in Seq(Char)
  /\ \/ c.type = "get" /\ l[1] = "g" /\ l[2] = "e" /\ l[3] = "t"
     \/ c.type = "set" /\ l[1] = "s" /\ l[2] = "e" /\ l[3] = "t"
     \/ c.type = "del" /\ l[1] = "d" /\ l[2] = "e" /\ l[3] = "l"
  /\ l[4] = "blank"
  /\ \A j \in 1..Len(c.key) : l[4 + j] = c.key[j]
  /\ IF c.type # "set"
     THEN Len(l) = 4 + Len(c.key) + 2 /\ l[4 + Len(c.key) + 1] = "CR" /\ l[4 + Len(c.key) + 2] = "LF"
     ELSE /\ Len(l) = 4 + Len(c.key) + 1 + Len(c.value) + 2
          /\ l[4 + Len(c.key) + 1] = "blank"
          /\ \A j \in 1..Len(c.value) : l[4 + Len(c.key) + 1 + j] = c.value[j]
          /\ l[4 + Len(c.key) + 1 + Len(c.value) + 1] = "CR" /\ l[4 + Len(c.key) + 1 + Len(c.value) + 2] = "LF"

LEMMA CommandFields ==
  ASSUME NEW c \in Command
  PROVE  /\ c.type \in {"get", "set", "del"} /\ c.key \in Seq(Char) /\ c.value \in Seq(Char)
         /\ c = [type |-> c.type, key |-> c.key, value |-> c.value] /\ c \in Commanded
         /\ IsWord(c.key) /\ Len(c.key) \in Nat /\ Len(c.key) > 0 /\ Len(c.value) \in Nat
         /\ c.type = "set" => /\ IsWord(c.value) /\ Len(c.value) > 0
                              /\ \A i \in DOMAIN c.key : c.key[i] # "blank"
         /\ c.type # "set" => c.value = <<>>
<1>1. /\ c \in [type : {"get", "set", "del"}, key : Seq(Char), value : Seq(Char)]
      /\ IsWord(c.key)
      /\ IF c.type = "set" THEN IsWord(c.value) /\ \A i \in DOMAIN c.key : c.key[i] # "blank" ELSE c.value = <<>>
  BY CommandAssumption
<1>2. /\ c.type \in {"get", "set", "del"} /\ c.key \in Seq(Char) /\ c.value \in Seq(Char)
      /\ c = [type |-> c.type, key |-> c.key, value |-> c.value]
  BY <1>1
<1>3. c \in Commanded
  BY <1>1 DEF Commanded, Types
<1>4. \A w \in Seq(Char) : IsWord(w) => Len(w) \in Nat /\ Len(w) > 0
  <2> SUFFICES ASSUME NEW w \in Seq(Char), IsWord(w) PROVE Len(w) \in Nat /\ Len(w) > 0
    OBVIOUS
  <2>1. Len(w) \in Nat /\ w # <<>>
    BY DEF IsWord
  <2> QED
    BY <2>1, EmptySeq
<1>5. Len(c.key) \in Nat /\ Len(c.key) > 0 /\ Len(c.value) \in Nat
  BY <1>1, <1>2, <1>4
<1> QED
  BY <1>1, <1>2, <1>3, <1>4, <1>5

LEMMA TextIs ==
  ASSUME NEW c \in Command
  PROVE  IsText(c, Text(c))
<1> DEFINE K == Len(c.key)
           V == Len(c.value)
<1>1. c.type \in {"get", "set", "del"} /\ c.key \in Seq(Char) /\ c.value \in Seq(Char) /\ K \in Nat /\ V \in Nat
  BY CommandFields
<1> HIDE DEF K, V
<1>2. CRLF \in Seq(Char) /\ Len(CRLF) = 2 /\ CRLF[1] = "CR" /\ CRLF[2] = "LF"
  BY CharAssumption DEF CRLF
<1>3. K = Len(c.key) /\ V = Len(c.value)
  BY DEF K, V
<1>4. 1 \in 1..4 /\ 2 \in 1..4 /\ 3 \in 1..4 /\ 4 \in 1..4 /\ 1 \in 1..2 /\ 2 \in 1..2
  OBVIOUS
<1>5. \A j \in 1..4 : j \in 1..4 + K
  BY <1>1
<1>6. ASSUME NEW a \in Seq(Char), Len(a) = 4, a[4] = "blank", Text(c) = (a \o c.key) \o CRLF
      PROVE  /\ Text(c) \in Seq(Char)
             /\ Text(c)[1] = a[1] /\ Text(c)[2] = a[2] /\ Text(c)[3] = a[3] /\ Text(c)[4] = "blank"
             /\ \A j \in 1..K : Text(c)[4 + j] = c.key[j]
             /\ Len(Text(c)) = 4 + K + 2 /\ Text(c)[4 + K + 1] = "CR" /\ Text(c)[4 + K + 2] = "LF"
  <2> DEFINE b == a \o c.key
  <2>1. Joined(b, a, 4, c.key, K)
    BY <1>1, <1>3, <1>6, ConcatIs, Zenon
  <2>2. Text(c) = b \o CRLF
    BY <1>6
  <2> HIDE DEF b
  <2>3. b \in Seq(Char) /\ Len(b) = 4 + K
    BY <2>1 DEF Joined
  <2>4. Joined(Text(c), b, 4 + K, CRLF, 2)
    BY <1>2, <2>2, <2>3, ConcatIs, Zenon
  <2>5. \A i \in 1..4 : Text(c)[i] = a[i]
    BY <1>5, <2>1, <2>4 DEF Joined
  <2>6. \A j \in 1..K : Text(c)[4 + j] = c.key[j]
    BY <1>1, <2>1, <2>4 DEF Joined
  <2>7. Text(c) \in Seq(Char) /\ Len(Text(c)) = 4 + K + 2 /\ Text(c)[4 + K + 1] = "CR" /\ Text(c)[4 + K + 2] = "LF"
    BY <1>2, <1>4, <2>4 DEF Joined
  <2> QED
    BY <1>4, <1>6, <2>5, <2>6, <2>7
<1>7. CASE c.type = "get"
  <2> DEFINE a == <<"g", "e", "t", "blank">>
  <2>1. a \in Seq(Char) /\ Len(a) = 4 /\ a[1] = "g" /\ a[2] = "e" /\ a[3] = "t" /\ a[4] = "blank"
    BY CharAssumption
  <2>2. Text(c) = (a \o c.key) \o CRLF
    BY <1>7 DEF Text
  <2> HIDE DEF a
  <2> QED
    BY <1>6, <1>7, <2>1, <2>2 DEF IsText, K, V
<1>8. CASE c.type = "del"
  <2> DEFINE a == <<"d", "e", "l", "blank">>
  <2>1. a \in Seq(Char) /\ Len(a) = 4 /\ a[1] = "d" /\ a[2] = "e" /\ a[3] = "l" /\ a[4] = "blank"
    BY CharAssumption
  <2>2. Text(c) = (a \o c.key) \o CRLF
    BY <1>8 DEF Text
  <2> HIDE DEF a
  <2> QED
    BY <1>6, <1>8, <2>1, <2>2 DEF IsText, K, V
<1>9. CASE c.type = "set"
  <2> DEFINE a == <<"s", "e", "t", "blank">>
             b == a \o c.key
             bl == <<"blank">>
             d == b \o bl
             e == d \o c.value
  <2>1. a \in Seq(Char) /\ Len(a) = 4 /\ a[1] = "s" /\ a[2] = "e" /\ a[3] = "t" /\ a[4] = "blank"
    BY CharAssumption
  <2>2. Text(c) = e \o CRLF
    BY <1>9 DEF Text
  <2>3. bl \in Seq(Char) /\ Len(bl) = 1 /\ bl[1] = "blank" /\ 1 \in 1..Len(bl)
    BY CharAssumption
  <2> HIDE DEF a, bl
  <2>4. Joined(b, a, 4, c.key, K)
    BY <1>1, <1>3, <2>1, ConcatIs, Zenon
  <2> HIDE DEF b
  <2>5. b \in Seq(Char) /\ Len(b) = 4 + K
    BY <2>4 DEF Joined
  <2>6. Joined(d, b, 4 + K, bl, 1)
    BY <2>3, <2>5, ConcatIs, Zenon
  <2> HIDE DEF d
  <2>7. d \in Seq(Char) /\ Len(d) = 4 + K + 1
    BY <2>6 DEF Joined
  <2>8. Joined(e, d, 4 + K + 1, c.value, V)
    BY <1>1, <1>3, <2>7, ConcatIs, Zenon
  <2> HIDE DEF e
  <2>9. e \in Seq(Char) /\ Len(e) = 4 + K + 1 + V
    BY <2>8 DEF Joined
  <2>10. Joined(Text(c), e, 4 + K + 1 + V, CRLF, 2)
    BY <1>2, <2>2, <2>9, ConcatIs, Zenon
  <2>11. \A i \in 1..4 + K : i \in 1..4 + K + 1 /\ i \in 1..4 + K + 1 + V
    BY <1>1
  <2>12. \A i \in 1..4 + K : Text(c)[i] = b[i]
    BY <1>1, <2>6, <2>8, <2>10, <2>11 DEF Joined
  <2>13. \A i \in 1..4 : Text(c)[i] = a[i]
    BY <1>5, <2>4, <2>12 DEF Joined
  <2>14. \A j \in 1..K : Text(c)[4 + j] = c.key[j]
    BY <1>1, <2>4, <2>12 DEF Joined
  <2>15. Text(c)[4 + K + 1] = "blank"
    <3>1. 4 + K + 1 \in 1..4 + K + 1 /\ 4 + K + 1 \in 1..4 + K + 1 + V /\ 1 \in 1..1
      BY <1>1
    <3>2. d[4 + K + 1] = bl[1]
      BY <2>6, <3>1 DEF Joined
    <3> QED
      BY <2>3, <2>8, <2>10, <3>1, <3>2 DEF Joined
  <2>16. \A j \in 1..V : Text(c)[4 + K + 1 + j] = c.value[j]
    <3>1. \A j \in 1..V : 4 + K + 1 + j \in 1..4 + K + 1 + V
      BY <1>1
    <3> QED
      BY <2>8, <2>10, <3>1 DEF Joined
  <2>17. /\ Text(c) \in Seq(Char) /\ Len(Text(c)) = 4 + K + 1 + V + 2
         /\ Text(c)[4 + K + 1 + V + 1] = "CR" /\ Text(c)[4 + K + 1 + V + 2] = "LF"
    BY <1>2, <1>4, <2>10 DEF Joined
  <2> QED
    BY <1>4, <1>9, <2>1, <2>13, <2>14, <2>15, <2>16, <2>17 DEF IsText, K, V
<1> QED
  BY <1>1, <1>7, <1>8, <1>9


\* What the parser has once it has read all of a command.
Done(c) == [state |-> "carriage", type |-> c.type, key |-> c.key, value |-> c.value, result |-> "good"]

LEMMA KeywordRead ==
  ASSUME NEW c, NEW l, IsText(c, l), NEW N \in Nat, N > 4, NEW t, NEW h, Steps(Parser("start", t), l, N, h)
  PROVE  /\ \A i \in 0..4 : h[i].result = "need_more"
         /\ h[4] = At(IF c.type = "set" THEN "type_set" ELSE "type_done", c.type, <<>>, <<>>)
<1>1. h[0] = At("start", t, <<>>, <<>>)
  BY DEF Steps, Parser, At
<1>2. /\ h[1] = Step(h[0], l[1]) /\ h[2] = Step(h[1], l[2]) /\ h[3] = Step(h[2], l[3]) /\ h[4] = Step(h[3], l[4])
  <2>1. \A k \in 1..N : h[k] = Step(h[k - 1], l[k])
    BY DEF Steps
  <2>2. /\ 1 \in 1..N /\ 2 \in 1..N /\ 3 \in 1..N /\ 4 \in 1..N
        /\ 1 - 1 = 0 /\ 2 - 1 = 1 /\ 3 - 1 = 2 /\ 4 - 1 = 3
    OBVIOUS
  <2> QED
    BY <2>1, <2>2
<1>3. ASSUME NEW w \in Keyword, NEW u
      PROVE  Step(At(w[1], u, <<>>, <<>>), w[2])
               = At(w[3], IF w[1] \in DOMAIN TypeSpelt THEN TypeSpelt[w[1]] ELSE u, <<>>, <<>>)
  BY StepWord
<1>4. PICK a, b, d : /\ h[1] = At(a, t, <<>>, <<>>) /\ h[2] = At(b, t, <<>>, <<>>) /\ h[3] = At(d, c.type, <<>>, <<>>)
                     /\ d = IF c.type = "set" THEN "type_set" ELSE "type_done"
  <2>1. CASE c.type = "get" /\ l[1] = "g" /\ l[2] = "e" /\ l[3] = "t"
    <3> DEFINE x == <<"start", "g", "type_g">>
               y == <<"type_g", "e", "type_ge">>
               z == <<"type_ge", "t", "type_done">>
    <3>1. x \in Keyword /\ y \in Keyword /\ z \in Keyword
      BY DEF Keyword
    <3>2. /\ "start" \notin DOMAIN TypeSpelt /\ "type_g" \notin DOMAIN TypeSpelt
          /\ "type_ge" \in DOMAIN TypeSpelt /\ TypeSpelt["type_ge"] = "get"
      BY DEF TypeSpelt
    <3>3. Step(At("start", t, <<>>, <<>>), "g") = At("type_g", t, <<>>, <<>>)
      BY <1>3, <3>1, <3>2
    <3>4. Step(At("type_g", t, <<>>, <<>>), "e") = At("type_ge", t, <<>>, <<>>)
      BY <1>3, <3>1, <3>2
    <3>5. Step(At("type_ge", t, <<>>, <<>>), "t") = At("type_done", "get", <<>>, <<>>)
      BY <1>3, <3>1, <3>2
    <3> QED
      BY <1>1, <1>2, <2>1, <3>3, <3>4, <3>5
  <2>2. CASE c.type = "set" /\ l[1] = "s" /\ l[2] = "e" /\ l[3] = "t"
    <3> DEFINE x == <<"start", "s", "type_s">>
               y == <<"type_s", "e", "type_se">>
               z == <<"type_se", "t", "type_set">>
    <3>1. x \in Keyword /\ y \in Keyword /\ z \in Keyword
      BY DEF Keyword
    <3>2. /\ "start" \notin DOMAIN TypeSpelt /\ "type_s" \notin DOMAIN TypeSpelt
          /\ "type_se" \in DOMAIN TypeSpelt /\ TypeSpelt["type_se"] = "set"
      BY DEF TypeSpelt
    <3>3. Step(At("start", t, <<>>, <<>>), "s") = At("type_s", t, <<>>, <<>>)
      BY <1>3, <3>1, <3>2
    <3>4. Step(At("type_s", t, <<>>, <<>>), "e") = At("type_se", t, <<>>, <<>>)
      BY <1>3, <3>1, <3>2
    <3>5. Step(At("type_se", t, <<>>, <<>>), "t") = At("type_set", "set", <<>>, <<>>)
      BY <1>3, <3>1, <3>2
    <3> QED
      BY <1>1, <1>2, <2>2, <3>3, <3>4, <3>5
  <2>3. CASE c.type = "del" /\ l[1] = "d" /\ l[2] = "e" /\ l[3] = "l"
    <3> DEFINE x == <<"start", "d", "type_d">>
               y == <<"type_d", "e", "type_de">>
               z == <<"type_de", "l", "type_done">>
    <3>1. x \in Keyword /\ y \in Keyword /\ z \in Keyword
      BY DEF Keyword
    <3>2. /\ "start" \notin DOMAIN TypeSpelt /\ "type_d" \notin DOMAIN TypeSpelt
          /\ "type_de" \in DOMAIN TypeSpelt /\ TypeSpelt["type_de"] = "del"
      BY DEF TypeSpelt
    <3>3. Step(At("start", t, <<>>, <<>>), "d") = At("type_d", t, <<>>, <<>>)
      BY <1>3, <3>1, <3>2
    <3>4. Step(At("type_d", t, <<>>, <<>>), "e") = At("type_de", t, <<>>, <<>>)
      BY <1>3, <3>1, <3>2
    <3>5. Step(At("type_de", t, <<>>, <<>>), "l") = At("type_done", "del", <<>>, <<>>)
      BY <1>3, <3>1, <3>2
    <3> QED
      BY <1>1, <1>2, <2>3, <3>3, <3>4, <3>5
  <2> QED
    BY <2>1, <2>2, <2>3 DEF IsText
<1>5. h[4] = h[3]
  <2>1. d \in SkipsBlank
    BY <1>4 DEF SkipsBlank
  <2>2. l[4] = "blank"
    BY DEF IsText
  <2> QED
    BY <1>2, <1>4, <2>1, <2>2, StepBlank
<1>6. \A s, u, k, v : At(s, u, k, v).result = "need_more"
  BY DEF At
<1>7. \A i \in 0..4 : i = 0 \/ i = 1 \/ i = 2 \/ i = 3 \/ i = 4
  OBVIOUS
<1>8. \A i \in 0..4 : h[i].result = "need_more"
  BY <1>1, <1>4, <1>5, <1>6, <1>7
<1> QED
  BY <1>4, <1>5, <1>8

\* Every command is understood, whatever the type in the parser's memory, and not before its
\* last character.
LEMMA CommandParsed ==
  ASSUME NEW c \in Command, NEW t, NEW h, IsTrace(Parser("start", t), Text(c), Len(Text(c)), h)
  PROVE  /\ \A i \in 0..Len(Text(c)) - 1 : h[i].result = "need_more"
         /\ h[Len(Text(c))] = Done(c)
<1> DEFINE l == Text(c)
           N == Len(l)
           p == Parser("start", t)
           K == Len(c.key)
           V == Len(c.value)
           s == IF c.type = "set" THEN "type_set" ELSE "type_done"
           r == IF s = "type_set" THEN "read_set_key" ELSE "read_key"
<1>1. IsText(c, l)
  BY TextIs
<1>2. /\ c.type \in {"get", "set", "del"} /\ c.key \in Seq(Char) /\ c.value \in Seq(Char)
      /\ IsWord(c.key) /\ K \in Nat /\ K > 0 /\ V \in Nat
      /\ c.type = "set" => IsWord(c.value) /\ V > 0 /\ \A i \in DOMAIN c.key : c.key[i] # "blank"
      /\ c.type # "set" => c.value = <<>>
  BY CommandFields
<1>3. /\ N = IF c.type = "set" THEN 4 + K + 1 + V + 2 ELSE 4 + K + 2
      /\ \A j \in 1..K : l[4 + j] = c.key[j]
  BY <1>1 DEF IsText
<1> HIDE DEF l, N, K, V, p
<1>4. N \in Nat /\ N > 4 /\ 4 + K <= N
  BY <1>2, <1>3
<1>5. Steps(p, l, N, h)
  BY <1>4, TraceStep DEF l, N, p
<1>6. \A k \in 1..N : h[k] = Step(h[k - 1], l[k])
  BY <1>5 DEF Steps
<1>7. (\A i \in 0..4 : h[i].result = "need_more") /\ h[4] = At(s, c.type, <<>>, <<>>)
  BY <1>1, <1>4, <1>5, KeywordRead DEF p
<1>8. \A j \in 1..K : h[4 + j] = At(r, c.type, SubSeq(c.key, 1, j), <<>>)
  <2>1. s \in {"type_set", "type_done"} /\ (s = "type_set" => \A j \in DOMAIN c.key : c.key[j] # "blank")
    BY <1>2
  <2>2. 4 \in Nat /\ KeyStates(s, r)
    BY DEF KeyStates
  <2>3. WordAt(l, N, 4, c.key)
    BY <1>2, <1>3, <1>4 DEF WordAt, K
  <2>4. h[4] = At(s, c.type, <<>>, <<>>) /\ N \in Nat
    BY <1>4, <1>7
  <2> HIDE DEF s, r
  <2>5. \A j \in 1..Len(c.key) : h[4 + j] = At(r, c.type, SubSeq(c.key, 1, j), <<>>)
    BY <1>5, <2>1, <2>2, <2>3, <2>4, KeyRead
  <2> QED
    BY <2>5 DEF K
<1>9. \A u, x, k, v : At(u, x, k, v).result = "need_more"
  BY DEF At
<1>10. \A i \in 0..4 + K : h[i].result = "need_more"
  <2> SUFFICES ASSUME NEW i \in 0..4 + K PROVE h[i].result = "need_more"
    OBVIOUS
  <2>1. CASE i <= 4
    <3>1. i \in 0..4
      BY <2>1
    <3> QED
      BY <1>7, <3>1
  <2>2. CASE i > 4
    <3>1. i - 4 \in 1..K /\ 4 + (i - 4) = i
      BY <1>2, <2>2
    <3>2. h[4 + (i - 4)] = At(r, c.type, SubSeq(c.key, 1, i - 4), <<>>)
      BY <1>8, <3>1
    <3> QED
      BY <1>9, <3>1, <3>2
  <2> QED
    BY <2>1, <2>2
<1>11. h[4 + K] = At(r, c.type, c.key, <<>>)
  <2>1. K \in 1..K /\ SubSeq(c.key, 1, K) = c.key
    BY <1>2 DEF K
  <2> QED
    BY <1>8, <2>1
<1>12. CASE c.type # "set"
  <2>1. N = 4 + K + 2 /\ l[4 + K + 1] = "CR" /\ l[4 + K + 2] = "LF" /\ r = "read_key" /\ c.value = <<>>
    BY <1>1, <1>2, <1>3, <1>12 DEF IsText, K
  <2>2. /\ 4 + K + 1 \in 1..N /\ (4 + K + 1) - 1 = 4 + K
        /\ 4 + K + 2 \in 1..N /\ (4 + K + 2) - 1 = 4 + K + 1
    BY <1>2, <2>1
  <2>3. h[4 + K + 1] = At("carriage", c.type, c.key, <<>>)
    <3>1. h[4 + K + 1] = Step(h[4 + K], "CR")
      BY <1>6, <2>1, <2>2
    <3> QED
      BY <1>11, <2>1, <3>1, StepReturn
  <2>4. h[4 + K + 2] = [state |-> "carriage", type |-> c.type, key |-> c.key, value |-> <<>>, result |-> "good"]
    <3>1. h[4 + K + 2] = Step(h[4 + K + 1], "LF")
      BY <1>6, <2>1, <2>2
    <3> QED
      BY <2>3, <3>1, StepEnd
  <2>5. h[N] = Done(c)
    BY <2>1, <2>4 DEF Done
  <2>6. \A i \in 0..N - 1 : i \in 0..4 + K \/ i = 4 + K + 1
    BY <1>2, <2>1
  <2>7. \A i \in 0..N - 1 : h[i].result = "need_more"
    BY <1>9, <1>10, <2>3, <2>6
  <2> QED
    BY <2>5, <2>7 DEF l, N
<1>13. CASE c.type = "set"
  <2> DEFINE M == 4 + K + 1
  <2>1. /\ N = M + V + 2 /\ l[M] = "blank" /\ l[M + V + 1] = "CR" /\ l[M + V + 2] = "LF" /\ r = "read_set_key"
        /\ \A j \in 1..V : l[M + j] = c.value[j]
    BY <1>1, <1>2, <1>3, <1>13 DEF IsText, K, V
  <2>2. /\ M \in 1..N /\ M - 1 = 4 + K /\ M \in Nat /\ M + V <= N
        /\ M + V + 1 \in 1..N /\ (M + V + 1) - 1 = M + V
        /\ M + V + 2 \in 1..N /\ (M + V + 2) - 1 = M + V + 1
    BY <1>2, <2>1
  <2>3. \A i \in 0..N - 1 : i \in 0..4 + K \/ i = M \/ i - M \in 1..V \/ i = M + V + 1
    BY <1>2, <2>1
  <2> HIDE DEF M
  <2>4. h[M] = At("read_set_blank", c.type, c.key, <<>>)
    <3>1. h[M] = Step(h[4 + K], "blank")
      BY <1>6, <2>1, <2>2
    <3> QED
      BY <1>11, <2>1, <3>1, StepKeyEnd
  <2>5. \A j \in 1..V : h[M + j] = At("read_set_value", c.type, c.key, SubSeq(c.value, 1, j))
    <3>1. WordAt(l, N, M, c.value)
      BY <1>2, <1>13, <2>1, <2>2 DEF WordAt, V
    <3>2. N \in Nat /\ M \in Nat
      BY <1>4, <2>2
    <3>3. \A j \in 1..Len(c.value) : h[M + j] = At("read_set_value", c.type, c.key, SubSeq(c.value, 1, j))
      BY <1>5, <2>4, <3>1, <3>2, ValueRead
    <3> QED
      BY <3>3 DEF V
  <2>6. h[M + V] = At("read_set_value", c.type, c.key, c.value)
    <3>1. V \in 1..V /\ SubSeq(c.value, 1, V) = c.value
      BY <1>2, <1>13 DEF V
    <3> QED
      BY <2>5, <3>1
  <2>7. h[M + V + 1] = At("carriage", c.type, c.key, c.value)
    <3>1. h[M + V + 1] = Step(h[M + V], "CR")
      BY <1>6, <2>1, <2>2
    <3> QED
      BY <2>6, <3>1, StepReturn
  <2>8. h[M + V + 2] = Done(c)
    <3>1. h[M + V + 2] = Step(h[M + V + 1], "LF")
      BY <1>6, <2>1, <2>2
    <3> QED
      BY <2>7, <3>1, StepEnd DEF Done
  <2>9. ASSUME NEW i \in 0..N - 1 PROVE h[i].result = "need_more"
    <3>1. CASE i - M \in 1..V
      <4>1. M + (i - M) = i
        BY <2>2
      <4>2. h[M + (i - M)] = At("read_set_value", c.type, c.key, SubSeq(c.value, 1, i - M))
        BY <2>5, <3>1
      <4> QED
        BY <1>9, <4>1, <4>2
    <3> QED
      BY <1>9, <1>10, <2>3, <2>4, <2>7, <3>1
  <2> QED
    BY <2>1, <2>8, <2>9 DEF l, N
<1> QED
  BY <1>12, <1>13


-----------------------------------------------------------------------------
(***************************************************************************)
(* Lines: what a session has read of one, and when it knows what it is.    *)
(***************************************************************************)
LEMMA StartType ==
  ASSUME NEW t \in Types
  PROVE  Parser("start", t) \in Parsers /\ Parser("start", t).result = "need_more"
<1>1. <<>> \in Seq(Char) /\ "start" \in State
  BY DEF State
<1> QED
  BY <1>1 DEF Parser, Parsers

\* The trace of a line from the start.
LEMMA LineTrace ==
  ASSUME NEW l \in Seq(Char), NEW p
  PROVE  \E h : /\ IsTrace(p, l, Len(l), h) /\ Len(l) \in Nat
                /\ \A n \in 0..Len(l) : parse(p, SubSeq(l, 1, n)) = h[n]
                /\ parse(p, l) = h[Len(l)] /\ h[0] = p
<1>1. Len(l) \in Nat
  OBVIOUS
<1>2. PICK h : IsTrace(p, l, Len(l), h)
  BY <1>1, TraceExists
<1>3. \A n \in 0..Len(l) : parse(p, SubSeq(l, 1, n)) = h[n]
  BY <1>2, ParsePrefix
<1>4. parse(p, l) = h[Len(l)]
  BY <1>1, <1>2, ParseIs
<1>5. h[0] = p
  BY <1>1, <1>2, TraceStep DEF Steps
<1> QED
  BY <1>1, <1>2, <1>3, <1>4, <1>5

LEMMA TextParsed ==
  ASSUME NEW c \in Command, NEW t
  PROVE  parse(Parser("start", t), Text(c)) = Done(c) /\ Text(c) \in Seq(Char) /\ Text(c) # <<>>
<1>1. Text(c) \in Seq(Char) /\ Len(Text(c)) > 0
  <2>1. IsText(c, Text(c))
    BY TextIs
  <2>2. 4 + Len(c.key) + 2 > 0 /\ 4 + Len(c.key) + 1 + Len(c.value) + 2 > 0
    <3>1. Len(c.key) \in Nat /\ Len(c.value) \in Nat
      BY CommandFields
    <3>2. \A a, b \in Nat : 4 + a + 2 > 0 /\ 4 + a + 1 + b + 2 > 0
      OBVIOUS
    <3> QED
      BY <3>1, <3>2, Zenon
  <2>3. Text(c) \in Seq(Char) /\ (Len(Text(c)) = 4 + Len(c.key) + 2 \/ Len(Text(c)) = 4 + Len(c.key) + 1 + Len(c.value) + 2)
    BY <2>1 DEF IsText
  <2> QED
    BY <2>2, <2>3
<1> DEFINE l == Text(c)
           p == Parser("start", t)
<1> HIDE DEF l, p
<1>2. PICK h : IsTrace(p, l, Len(l), h) /\ parse(p, l) = h[Len(l)]
  BY <1>1, LineTrace DEF l
<1>3. h[Len(l)] = Done(c)
  BY <1>2, CommandParsed DEF l, p
<1> QED
  BY <1>1, <1>2, <1>3 DEF l, p

LEMMA AskedDone ==
  ASSUME NEW c \in Command
  PROVE  Asked(Done(c)) = c /\ Done(c).result = "good" /\ Done(c).type = c.type
BY CommandFields DEF Asked, Done

\* No two commands have the same line, and no slip is a command.
LEMMA TextInjective ==
  ASSUME NEW c \in Command, NEW d \in Command, Text(c) = Text(d)
  PROVE  c = d
<1>1. Done(c) = Done(d)
  BY TextParsed
<1> QED
  BY <1>1, AskedDone

LEMMA SlipIsNoText ==
  ASSUME NEW c \in Command
  PROVE  Text(c) \notin Slip
<1>1. parse(Parser("start", "get"), Text(c)).result = "good"
  BY TextParsed, AskedDone
<1>2. Text(c) \in Slip => parse(Parser("start", "get"), Text(c)).result = "bad"
  BY SlipAssumption DEF Types
<1> QED
  BY <1>1, <1>2

LEMMA LineType ==
  ASSUME NEW l \in Line
  PROVE  l \in Seq(Char) /\ l # <<>> /\ (l \notin Slip => \E c \in Command : l = Text(c))
<1>1. CASE l \in Slip
  <2>1. l \in Seq(Char) /\ parse(Parser("start", "get"), l).result = "bad"
    BY <1>1, SlipAssumption DEF Types
  <2>2. PICK h : Len(l) \in Nat /\ parse(Parser("start", "get"), l) = h[Len(l)] /\ h[0] = Parser("start", "get")
    BY <2>1, LineTrace
  <2>3. ASSUME l = <<>> PROVE FALSE
    <3>1. Len(l) = 0
      BY <2>3
    <3>2. parse(Parser("start", "get"), l).result = "need_more"
      BY <2>2, <3>1, StartType DEF Types
    <3> QED
      BY <2>1, <3>2
  <2> QED
    BY <1>1, <2>1, <2>3
<1>2. CASE \E c \in Command : l = Text(c)
  BY <1>2, TextParsed
<1> QED
  BY <1>1, <1>2 DEF Line

LEMMA PieceIs ==
  ASSUME NEW l \in Seq(Char), NEW a \in Nat, NEW b \in Nat, a <= b, b <= Len(l),
         NEW m, m = b - a, NEW f, f = a + 1
  PROVE  IsPiece(SubSeq(l, f, b), l, a, m)
BY DEF IsPiece

LEMMA PieceUnique ==
  ASSUME NEW u, NEW v, NEW l, NEW a, NEW m \in Nat, IsPiece(u, l, a, m), IsPiece(v, l, a, m)
  PROVE  u = v
<1>1. u \in Seq(Char) /\ v \in Seq(Char) /\ Len(u) = Len(v) /\ \A k \in 1..Len(u) : u[k] = v[k]
  BY DEF IsPiece
<1> QED
  BY <1>1, SeqEqual

\* A piece of a piece.
LEMMA PieceOfPiece ==
  ASSUME NEW l, NEW i \in Nat, NEW M \in Nat, NEW w, IsPiece(w, l, i, M),
         NEW a \in Nat, NEW m \in Nat, a + m <= M, NEW u, IsPiece(u, w, a, m),
         NEW j, j = i + a
  PROVE  IsPiece(u, l, j, m)
<1>1. \A k \in 1..m : a + k \in 1..M /\ i + (a + k) = j + k
  OBVIOUS
<1>2. \A k \in 1..m : u[k] = w[a + k]
  BY DEF IsPiece
<1>3. \A k \in 1..M : w[k] = l[i + k]
  BY DEF IsPiece
<1>4. \A k \in 1..m : u[k] = l[j + k]
  BY <1>1, <1>2, <1>3
<1> QED
  BY <1>4 DEF IsPiece

\* The next n characters of a line of which i have been read.
IsRead(l, t, i, w, n, q, rest) ==
  /\ l \in Line /\ t \in Types /\ i \in 0..Len(l) /\ w = SubSeq(l, i + 1, Len(l)) /\ n \in 1..Len(w)
  /\ q = parse(parse(Parser("start", t), SubSeq(l, 1, i)), SubSeq(w, 1, n))
  /\ rest = SubSeq(w, n + 1, Len(w))

WasRead(l, t, j, q, rest) ==
  /\ j \in 0..Len(l) /\ rest = SubSeq(l, j + 1, Len(l)) /\ q = parse(Parser("start", t), SubSeq(l, 1, j))
  /\ q.result = "good" => /\ l \notin Slip /\ rest = <<>> /\ Asked(q) \in Command /\ Text(Asked(q)) = l
                          /\ q.type = Asked(q).type
  /\ q.result = "bad" /\ rest = <<>> => l \in Slip

LEMMA PieceRead ==
  ASSUME NEW l, NEW t, NEW i, NEW w, NEW n, NEW q, NEW rest, IsRead(l, t, i, w, n, q, rest)
  PROVE  \E j : WasRead(l, t, j, q, rest)
<1> /\ l \in Line /\ t \in Types /\ i \in 0..Len(l) /\ w = SubSeq(l, i + 1, Len(l)) /\ n \in 1..Len(w)
    /\ q = parse(parse(Parser("start", t), SubSeq(l, 1, i)), SubSeq(w, 1, n))
    /\ rest = SubSeq(w, n + 1, Len(w))
  BY DEF IsRead
<1> DEFINE N == Len(l)
           p == Parser("start", t)
           u == SubSeq(w, 1, n)
<1>1. l \in Seq(Char) /\ N \in Nat
  BY LineType
<1> HIDE DEF N
<1> DEFINE M == N - i
           R == M - n
           j == i + n
           f == i + 1
           g == n + 1
           e == j + 1
<1>2. M \in Nat /\ i \in Nat /\ f = i + 1 /\ M = N - i /\ i <= N /\ N <= Len(l) /\ N = Len(l)
  BY <1>1 DEF N
<1>3. IsPiece(w, l, i, M) /\ Len(w) = M /\ w \in Seq(Char)
  <2>1. w = SubSeq(l, f, N)
    BY <1>2
  <2> HIDE DEF M, f
  <2>2. IsPiece(w, l, i, M)
    BY <1>1, <1>2, <2>1, PieceIs
  <2> QED
    BY <2>2 DEF IsPiece
<1>4. /\ j \in 0..N /\ n \in 0..M /\ n \in Nat /\ n <= M /\ R \in Nat /\ j = i + n /\ j \in Nat /\ j <= N
      /\ g = n + 1 /\ e = j + 1 /\ R = M - n /\ R = N - j /\ n + R <= M /\ 0 + n <= M /\ 1 = 0 + 1 /\ n = n - 0
      /\ i = i + 0 /\ 0 \in Nat /\ 0 <= n
  BY <1>1, <1>2, <1>3
<1>5. rest = SubSeq(w, g, M) /\ u = SubSeq(w, 1, n)
  BY <1>3
<1> HIDE DEF M, R, j, f, g, e, u
<1>6. IsPiece(u, l, i, n)
  <2>1. IsPiece(u, w, 0, n)
    BY <1>3, <1>4, <1>5, PieceIs
  <2> QED
    BY <1>2, <1>3, <1>4, <2>1, PieceOfPiece
<1>7. rest = SubSeq(l, e, N) /\ Len(rest) = R /\ rest \in Seq(Char)
  <2>1. IsPiece(rest, w, n, R)
    <3>1. M <= Len(w)
      BY <1>2, <1>3
    <3>2. IsPiece(SubSeq(w, g, M), w, n, R)
      BY <1>2, <1>3, <1>4, <3>1, PieceIs, Zenon
    <3> QED
      BY <1>5, <3>2
  <2>2. IsPiece(rest, l, j, R)
    <3>1. /\ i \in Nat /\ M \in Nat /\ IsPiece(w, l, i, M) /\ n \in Nat /\ R \in Nat /\ n + R <= M
          /\ IsPiece(rest, w, n, R) /\ j = i + n
      BY <1>2, <1>3, <1>4, <2>1
    <3> QED
      BY <3>1, PieceOfPiece, ZenonT(30)
  <2>3. IsPiece(SubSeq(l, e, N), l, j, R)
    BY <1>1, <1>2, <1>4, PieceIs
  <2>4. rest = SubSeq(l, e, N)
    BY <1>4, <2>2, <2>3, PieceUnique
  <2> QED
    BY <2>2, <2>4 DEF IsPiece
<1>8. rest = <<>> <=> j = N
  <2>1. rest = <<>> <=> R = 0
    BY <1>7, EmptySeq
  <2> QED
    BY <1>1, <1>4, <2>1, SMTT(40)
<1> HIDE DEF p
<1>9. PICK h : /\ IsTrace(p, l, N, h) /\ \A k \in 0..N : parse(p, SubSeq(l, 1, k)) = h[k]
               /\ parse(p, l) = h[N]
  BY <1>1, LineTrace DEF N
<1>10. parse(p, SubSeq(l, 1, i)) = h[i] /\ parse(p, SubSeq(l, 1, j)) = h[j]
  BY <1>4, <1>9 DEF N
<1>11. q = h[j]
  <2>1. q = parse(h[i], u)
    BY <1>10 DEF p, u
  <2>2. i \in 0..Len(l) /\ n \in 0..Len(l) - i /\ IsTrace(p, l, Len(l), h)
    BY <1>2, <1>4, <1>9 DEF N
  <2>3. parse(h[i], u) = h[j]
    <3>1. IsCut(p, l, h, i, n, u, j)
      BY <1>1, <1>4, <1>6, <2>2 DEF IsCut
    <3> QED
      BY <3>1, ParseRest, SMT
  <2> QED
    BY <1>4, <2>1, <2>3
<1>12. q.result # "need_more" => h[N] = q
  <2>1. l \in Seq(Char) /\ IsTrace(p, l, Len(l), h) /\ j \in 0..Len(l)
    BY <1>1, <1>4, <1>9 DEF N
  <2>2. h[j].result # "need_more" => h[Len(l)] = h[j]
    BY <2>1, Sticky, Zenon
  <2> QED
    BY <1>11, <2>2 DEF N
<1>13. /\ j \in 0..Len(l) /\ rest = SubSeq(l, j + 1, Len(l)) /\ q = parse(Parser("start", t), SubSeq(l, 1, j))
  BY <1>4, <1>10, <1>11, <1>7 DEF N, p
<1> SUFFICES WasRead(l, t, j, q, rest)
  OBVIOUS
<1>14. CASE l \in Slip
  <2>1. parse(p, l).result = "bad"
    BY <1>14, SlipAssumption DEF p
  <2>2. q.result # "good"
    BY <1>9, <1>12, <2>1
  <2> QED
    BY <1>14, <1>13, <2>2 DEF WasRead
<1>15. CASE l \notin Slip
  <2>1. PICK c \in Command : l = Text(c)
    BY <1>15, LineType
  <2>2. (\A k \in 0..N - 1 : h[k].result = "need_more") /\ h[N] = Done(c)
    BY <1>9, <2>1, CommandParsed DEF N, p
  <2>3. q.result # "need_more" => j = N
    <3>1. j # N => j \in 0..N - 1
      BY <1>1, <1>4
    <3> QED
      BY <1>11, <2>2, <3>1
  <2>4. q.result # "need_more" => q = Done(c)
    BY <1>11, <2>2, <2>3
  <2>5. q.result = "good" => Asked(q) = c /\ q.type = c.type
    BY <2>4, AskedDone
  <2>6. q.result # "bad"
    BY <2>4, AskedDone
  <2> QED
    BY <1>8, <1>15, <1>13, <2>1, <2>3, <2>5, <2>6 DEF WasRead
<1> QED
  BY <1>14, <1>15


-----------------------------------------------------------------------------
(***************************************************************************)
(* Types.                                                                  *)
(***************************************************************************)
Statuses == {"OK", "NOT_LEADER", "INVALID_COMMAND", "INTERNAL_ERROR"}
ReplyOf(s, st, le) == [status |-> st, leader |-> le, cmd |-> Asked(s.parser)]
Replied(r, s, a) ==
  /\ r \in Session /\ r.pc = "reading" /\ r.server = s.server /\ r.open = s.open /\ r.wire = s.wire
  /\ r.parser = Parser("start", "unknown")
  /\ s.open => r.replies = Append(s.replies, a)
  /\ ~s.open => r.replies = s.replies
  /\ a \in Replies

LEMMA ReplyIs ==
  ASSUME NEW s \in Session, NEW st \in Statuses, NEW le \in Server \cup {unknown}
  PROVE  Replied(Reply(s, st, le), s, ReplyOf(s, st, le))
<1>1. Parser("start", "unknown") \in Parsers
  BY StartType DEF Types
<1>2. Asked(s.parser) \in Commanded
  BY DEF Session, Parsers, Asked, Commanded
<1>3. ReplyOf(s, st, le) \in Replies
  BY <1>2 DEF Replies, ReplyOf, Statuses
<1> DEFINE a == ReplyOf(s, st, le)
           p == Parser("start", "unknown")
<1>4. Reply(s, st, le) = [s EXCEPT !.pc = "reading", !.parser = p,
                                   !.replies = IF s.open THEN Append(@, a) ELSE @]
  BY DEF Reply, NextCommand, ReplyOf
<1> HIDE DEF a, p
<1>5. s.replies \in Seq(Replies) /\ s.open \in BOOLEAN
  BY DEF Session
<1>6. (IF s.open THEN Append(s.replies, a) ELSE s.replies) \in Seq(Replies)
  BY <1>3, <1>5 DEF a
<1> QED
  <2> DEFINE b == IF s.open THEN Append(s.replies, a) ELSE s.replies
             r == [s EXCEPT !.pc = "reading", !.parser = p, !.replies = b]
  <2>1. b \in Seq(Replies) /\ (s.open => b = Append(s.replies, a)) /\ (~s.open => b = s.replies)
    BY <1>6
  <2>2. Reply(s, st, le) = r
    BY <1>4
  <2>3. p \in Parsers
    BY <1>1 DEF p
  <2> HIDE DEF b
  <2>4. /\ r \in Session /\ r.pc = "reading" /\ r.server = s.server /\ r.open = s.open /\ r.wire = s.wire
        /\ r.parser = p /\ r.replies = b
    BY <2>1, <2>3 DEF Session
  <2> HIDE DEF r
  <2> QED
    BY <1>3, <2>1, <2>2, <2>4 DEF Replied, a, p

LEMMA ParsedIs ==
  ASSUME TypeOK, NEW c \in Conn, NEW n \in 1..Len(conn[c].wire)
  PROVE  LET s == Parsed(c, n) IN
           /\ s \in Session /\ s.pc = conn[c].pc /\ s.server = conn[c].server /\ s.open = conn[c].open
           /\ s.replies = conn[c].replies
           /\ s.parser = parse(conn[c].parser, SubSeq(conn[c].wire, 1, n))
           /\ s.wire = SubSeq(conn[c].wire, n + 1, Len(conn[c].wire))
<1>1. conn[c] \in Session
  BY DEF TypeOK
<1>2. conn[c].wire \in Seq(Char) /\ conn[c].parser \in Parsers
  BY <1>1 DEF Session
<1> DEFINE u == SubSeq(conn[c].wire, 1, n)
           v == SubSeq(conn[c].wire, n + 1, Len(conn[c].wire))
           q == parse(conn[c].parser, u)
<1>3. u \in Seq(Char) /\ v \in Seq(Char)
  BY <1>2
<1>4. Parsed(c, n) = [conn[c] EXCEPT !.parser = q, !.wire = v]
  BY DEF Parsed
<1> HIDE DEF u, v
<1>5. q \in Parsers
  BY <1>2, <1>3, ParseType
<1> HIDE DEF q
<1>6. /\ [conn[c] EXCEPT !.parser = q, !.wire = v] \in Session
      /\ LET s == [conn[c] EXCEPT !.parser = q, !.wire = v] IN
           /\ s.pc = conn[c].pc /\ s.server = conn[c].server /\ s.open = conn[c].open
           /\ s.replies = conn[c].replies /\ s.parser = q /\ s.wire = v
  BY <1>1, <1>3, <1>5 DEF Session
<1> QED
  BY <1>4, <1>6 DEF q, u, v

LEMMA FreeType == Free \in Session /\ Free.wire = <<>> /\ Free.replies = <<>> /\ Free.pc = "free" /\ ~Free.open
<1>1. Parser("start", "unknown") \in Parsers
  BY StartType DEF Types
<1> QED
  BY <1>1 DEF Free, Session


\* TypeOK in parts.
RaftType ==
  /\ role \in [Server -> {"LEADER", "FOLLOWER"}]
  /\ leader_ \in [Server -> Server \cup {unknown}]
  /\ latest \in Server \cup {unknown}
  /\ changes \in 0..MaxChanges
ConnType ==
  /\ conn \in [Conn -> Session]
  /\ \A c \in Conn : conn[c].pc # "free" => conn[c].server # unknown
ClientType ==
  /\ link \in {"resolving", "connecting", "open", "closed", "exited"}
  /\ port \in Seq(0..9)
  /\ current \in Conn
  /\ posted \in Seq(Line) /\ commands \in Seq(Line)
  /\ writing \in {"no", "yes", "doomed"}
  /\ writing # "no" => commands # <<>>
  /\ prev_command \in Line \cup {<<>>}
  /\ eof \in BOOLEAN
HistoryType ==
  /\ typed \in Seq(Line)
  /\ answers \in Seq(Replies) /\ appended \in Seq(Commanded)
  /\ trouble \subseteq {"hasty", "split", "garbled", "deposed", "broken", "eof"}

LEMMA TypeParts == TypeOK <=> RaftType /\ ConnType /\ ClientType /\ HistoryType
BY Zenon DEF TypeOK, RaftType, ConnType, ClientType, HistoryType

LEMMA TypePartsNext == TypeOK' <=> RaftType' /\ ConnType' /\ ClientType' /\ HistoryType'
BY Zenon DEF TypeOK, RaftType, ConnType, ClientType, HistoryType

LEMMA RaftTypeSame == RaftType /\ UNCHANGED raftVars => RaftType'
BY DEF RaftType, raftVars

LEMMA ClientTypeSame == ClientType /\ UNCHANGED clientVars => ClientType'
BY DEF ClientType, clientVars

LEMMA HistoryTypeSame == HistoryType /\ UNCHANGED historyVars => HistoryType'
BY DEF HistoryType, historyVars

\* A session is replaced.
LEMMA ConnTypePut ==
  ASSUME ConnType, NEW c \in Conn, NEW s \in Session, s.pc # "free" => s.server # unknown,
         conn' = [conn EXCEPT ![c] = s]
  PROVE  ConnType'
<1>1. conn' \in [Conn -> Session]
  BY DEF ConnType
<1>2. conn'[c] = s /\ \A d \in Conn : d # c => conn'[d] = conn[d]
  BY DEF ConnType
<1> QED
  BY <1>1, <1>2 DEF ConnType

LEMMA ConnTypeSame == ConnType /\ UNCHANGED conn => ConnType'
BY DEF ConnType

LEMMA TypeInit == Init => TypeOK
<1> SUFFICES ASSUME Init PROVE TypeOK
  OBVIOUS
<1>1. RaftType
  BY BoundAssumption DEF Init, RaftType
<1>2. ConnType
  <2>1. conn = [c \in Conn |-> Free] /\ Free \in Session /\ Free.pc = "free"
    BY FreeType DEF Init
  <2> HIDE DEF Free
  <2>2. conn \in [Conn -> Session] /\ \A c \in Conn : conn[c] = Free
    BY <2>1
  <2> QED
    BY <2>1, <2>2 DEF ConnType
<1>3. ClientType
  <2>1. port \in Seq(0..9)
    BY PortAssumption, BoundAssumption DEF Init
  <2>2. 1 \in Conn
    BY BoundAssumption DEF Conn
  <2> QED
    <3>1. /\ link = "resolving" /\ current = 1 /\ posted = <<>> /\ commands = <<>> /\ writing = "no"
          /\ prev_command = <<>> /\ eof = FALSE
      BY DEF Init
    <3>2. posted \in Seq(Line) /\ commands \in Seq(Line) /\ current \in Conn
      BY <2>2, <3>1
    <3>3. eof \in BOOLEAN
      BY <3>1, Zenon
    <3>4. /\ link \in {"resolving", "connecting", "open", "closed", "exited"}
          /\ writing \in {"no", "yes", "doomed"} /\ (writing # "no" => commands # <<>>)
          /\ prev_command \in Line \cup {<<>>}
      BY <3>1
    <3> QED
      BY <2>1, <3>2, <3>3, <3>4, Zenon DEF ClientType
<1>4. HistoryType
  BY DEF Init, HistoryType
<1> QED
  BY <1>1, <1>2, <1>3, <1>4, TypeParts

\* What a read can make of a session.
LEMMA ReadTypes ==
  ASSUME TypeOK, NEW c \in Conn, Read(c)
  PROVE  TypeOK'
<1>1. RaftType /\ ConnType /\ ClientType /\ HistoryType
  BY TypeParts
<1>2. PICK n \in 1..Len(conn[c].wire) :
        LET s == Parsed(c, n) IN
        \/ ReadMore(c, s)
        \/ ReadInvalid(c, s)
        \/ HandleGet(c, s)
        \/ HandleNotLeader(c, s)
        \/ HandleAppend(c, s)
        \/ HandleTooLate(c, s)
        \/ HandleUnknown(c, s)
  BY DEF Read
<1> DEFINE s == Parsed(c, n)
<1>3. s \in Session /\ s.pc = "reading" /\ s.server = conn[c].server /\ s.server # unknown /\ s.server \in Server
  <2>1. s \in Session /\ s.pc = conn[c].pc /\ s.server = conn[c].server
    BY ParsedIs
  <2>2. conn[c].pc = "reading"
    BY DEF Read
  <2>3. conn[c].server # unknown
    BY <1>1, <2>2 DEF ConnType
  <2> QED
    BY <2>1, <2>2, <2>3 DEF Session
<1> HIDE DEF s
<1>4. ASSUME NEW st \in {"OK", "NOT_LEADER", "INVALID_COMMAND", "INTERNAL_ERROR"}, NEW le \in Server \cup {unknown}
      PROVE  Reply(s, st, le) \in Session /\ Reply(s, st, le).server # unknown
  <2>1. Replied(Reply(s, st, le), s, ReplyOf(s, st, le))
    BY <1>3, ReplyIs DEF Statuses
  <2> QED
    BY <1>3, <2>1 DEF Replied
<1>5. \A p \in {"waiting", "stranded"} : [s EXCEPT !.pc = p] \in Session /\ [s EXCEPT !.pc = p].server # unknown
  BY <1>3 DEF Session
<1>6. CASE ReadMore(c, s)
  <2>1. ConnType'
    BY <1>1, <1>3, <1>6, ConnTypePut DEF ReadMore
  <2> QED
    BY <1>1, <1>6, <2>1, TypePartsNext, RaftTypeSame, ClientTypeSame, HistoryTypeSame DEF ReadMore
<1>7. CASE ReadInvalid(c, s)
  <2>1. ConnType'
    BY <1>1, <1>4, <1>7, ConnTypePut DEF ReadInvalid
  <2>2. HistoryType'
    BY <1>1, <1>7 DEF ReadInvalid, HistoryType
  <2> QED
    BY <1>1, <1>7, <2>1, <2>2, TypePartsNext, RaftTypeSame, ClientTypeSame DEF ReadInvalid
<1>8. CASE HandleGet(c, s)
  <2>1. ConnType'
    BY <1>1, <1>4, <1>8, ConnTypePut DEF HandleGet
  <2> QED
    BY <1>1, <1>8, <2>1, TypePartsNext, RaftTypeSame, ClientTypeSame, HistoryTypeSame DEF HandleGet
<1>9. CASE HandleNotLeader(c, s)
  <2>1. leader_[s.server] \in Server \cup {unknown}
    BY <1>1, <1>3 DEF RaftType
  <2>2. ConnType'
    BY <1>1, <1>4, <1>9, <2>1, ConnTypePut DEF HandleNotLeader
  <2> QED
    BY <1>1, <1>9, <2>2, TypePartsNext, RaftTypeSame, ClientTypeSame, HistoryTypeSame DEF HandleNotLeader
<1>10. CASE HandleAppend(c, s)
  <2>1. ConnType'
    <3>1. CASE conn' = [conn EXCEPT ![c] = Reply(s, "INTERNAL_ERROR", unknown)]
      BY <1>1, <1>4, <3>1, ConnTypePut
    <3>2. CASE conn' = [conn EXCEPT ![c] = [s EXCEPT !.pc = "waiting"]]
      BY <1>1, <1>5, <3>2, ConnTypePut
    <3> QED
      BY <1>10, <3>1, <3>2 DEF HandleAppend
  <2>2. Asked(s.parser) \in Commanded
    BY <1>3 DEF Session, Parsers, Asked, Commanded
  <2>3. HistoryType'
    <3>1. appended \in Seq(Commanded)
      BY <1>1 DEF HistoryType
    <3>2. appended' \in Seq(Commanded)
      <4>1. appended' = appended \/ appended' = Append(appended, Asked(s.parser))
        BY <1>10 DEF HandleAppend
      <4> QED
        BY <2>2, <3>1, <4>1
    <3>3. UNCHANGED <<typed, answers, trouble>>
      BY <1>10 DEF HandleAppend
    <3> QED
      BY <1>1, <3>2, <3>3 DEF HistoryType
  <2> QED
    BY <1>1, <1>10, <2>1, <2>3, TypePartsNext, RaftTypeSame, ClientTypeSame DEF HandleAppend
<1>11. CASE HandleTooLate(c, s)
  <2>1. ConnType'
    BY <1>1, <1>5, <1>11, ConnTypePut DEF HandleTooLate
  <2>2. HistoryType'
    BY <1>1, <1>11 DEF HandleTooLate, HistoryType
  <2>3. RaftType'
    BY <1>1, <1>3, <1>11, BoundAssumption DEF HandleTooLate, RaftType
  <2> QED
    BY <1>1, <1>11, <2>1, <2>2, <2>3, TypePartsNext, ClientTypeSame DEF HandleTooLate
<1>12. CASE HandleUnknown(c, s)
  <2>1. ConnType'
    BY <1>1, <1>5, <1>12, ConnTypePut DEF HandleUnknown
  <2> QED
    BY <1>1, <1>12, <2>1, TypePartsNext, RaftTypeSame, ClientTypeSame, HistoryTypeSame DEF HandleUnknown
<1> QED
  BY <1>2, <1>6, <1>7, <1>8, <1>9, <1>10, <1>11, <1>12 DEF s


LEMMA CommittedTypes ==
  ASSUME TypeOK, NEW c \in Conn, Committed(c)
  PROVE  TypeOK'
<1>1. RaftType /\ ConnType /\ ClientType /\ HistoryType
  BY TypeParts
<1>2. conn[c] \in Session /\ conn[c].pc = "waiting" /\ conn[c].server # unknown
  BY <1>1 DEF Committed, ConnType
<1> DEFINE r == Reply(conn[c], "OK", unknown)
<1>3. conn' = [conn EXCEPT ![c] = r]
  BY DEF Committed
<1>4. r \in Session /\ r.server # unknown
  <2>1. "OK" \in Statuses /\ unknown \in Server \cup {unknown}
    BY DEF Statuses
  <2>2. Replied(r, conn[c], ReplyOf(conn[c], "OK", unknown))
    BY <1>2, <2>1, ReplyIs, Zenon
  <2> HIDE DEF r
  <2> QED
    BY <1>2, <2>2 DEF Replied
<1> HIDE DEF r
<1>5. ConnType'
  BY <1>1, <1>3, <1>4, ConnTypePut
<1> QED
  BY <1>1, <1>5, TypePartsNext, RaftTypeSame, ClientTypeSame, HistoryTypeSame DEF Committed

LEMMA RemoveTypes ==
  ASSUME TypeOK, NEW c \in Conn, RemoveSession(c)
  PROVE  TypeOK'
<1>1. RaftType /\ ConnType /\ ClientType /\ HistoryType
  BY TypeParts
<1>2. conn' = [conn EXCEPT ![c] = Free]
  BY DEF RemoveSession
<1>3. ConnType'
  BY <1>1, <1>2, FreeType, ConnTypePut
<1> QED
  BY <1>1, <1>3, TypePartsNext, RaftTypeSame, ClientTypeSame, HistoryTypeSame DEF RemoveSession

LEMMA TypeLineTypes ==
  ASSUME TypeOK, NEW l \in Line, TypeLine(l)
  PROVE  TypeOK'
<1>1. RaftType /\ ConnType /\ ClientType /\ HistoryType
  BY TypeParts
<1>2. HistoryType'
  BY <1>1 DEF HistoryType, TypeLine
<1>3. ClientType'
  BY <1>1 DEF ClientType, TypeLine
<1> QED
  BY <1>1, <1>2, <1>3, TypePartsNext, RaftTypeSame, ConnTypeSame DEF TypeLine

LEMMA ClosedIs ==
  ASSUME TypeOK
  PROVE  /\ conn[current] \in Session
         /\ LET s == [conn[current] EXCEPT !.open = FALSE, !.replies = <<>>]
            IN Closed = [conn EXCEPT ![current] = s] /\ s \in Session /\ s.pc = conn[current].pc
               /\ s.server = conn[current].server /\ ~s.open /\ s.replies = <<>> /\ s.wire = conn[current].wire
<1>1. current \in Conn /\ conn \in [Conn -> Session]
  BY DEF TypeOK
<1>2. conn[current] \in Session
  BY <1>1
<1> DEFINE s == [conn[current] EXCEPT !.open = FALSE, !.replies = <<>>]
<1>3. /\ s \in Session /\ s.pc = conn[current].pc
      /\ s.server = conn[current].server /\ ~s.open /\ s.replies = <<>> /\ s.wire = conn[current].wire
  <2>1. <<>> \in Seq(Replies) /\ FALSE \in BOOLEAN
    OBVIOUS
  <2> DEFINE x == conn[current]
             e == <<>>
             f == FALSE
  <2>2. x \in Session /\ e \in Seq(Replies) /\ f \in BOOLEAN
    BY <1>2, <2>1
  <2> HIDE DEF x, e, f
  <2>3. /\ [x EXCEPT !.open = f, !.replies = e] \in Session
        /\ LET y == [x EXCEPT !.open = f, !.replies = e]
           IN y.pc = x.pc /\ y.server = x.server /\ y.open = f /\ y.replies = e /\ y.wire = x.wire
    BY <2>2 DEF Session
  <2> QED
    BY <2>3 DEF x, e, f
<1>4. Closed = [conn EXCEPT ![current] = s]
  BY <1>1, <1>2 DEF Closed, Session
<1> QED
  BY <1>2, <1>3, <1>4

LEMMA ClosedType ==
  ASSUME TypeOK, conn' = Closed
  PROVE  ConnType'
<1>1. ConnType /\ current \in Conn
  BY TypeParts DEF ClientType
<1> DEFINE s == [conn[current] EXCEPT !.open = FALSE, !.replies = <<>>]
<1>2. conn' = [conn EXCEPT ![current] = s] /\ s \in Session /\ s.pc = conn[current].pc /\ s.server = conn[current].server
  BY ClosedIs
<1> HIDE DEF s
<1>3. s.pc # "free" => s.server # unknown
  BY <1>1, <1>2 DEF ConnType
<1> QED
  BY <1>1, <1>2, <1>3, ConnTypePut

LEMMA EofTypes ==
  ASSUME TypeOK, Eof
  PROVE  TypeOK'
<1>1. RaftType /\ ConnType /\ ClientType /\ HistoryType
  BY TypeParts
<1>2. ConnType'
  BY <1>1, ClosedType, ConnTypeSame DEF Eof
<1>3. ClientType'
  BY <1>1 DEF ClientType, Eof, Doomed
<1>4. HistoryType'
  BY <1>1 DEF HistoryType, Eof
<1> QED
  BY <1>1, <1>2, <1>3, <1>4, TypePartsNext, RaftTypeSame DEF Eof

LEMMA OnConnectTypes ==
  ASSUME TypeOK, NEW c \in Conn, OnConnect(c)
  PROVE  TypeOK'
<1>1. RaftType /\ ConnType /\ ClientType /\ HistoryType
  BY TypeParts
<1>2. PICK s \in Server, p \in Leftover :
        /\ conn' = [conn EXCEPT ![c] = [Free EXCEPT !.pc = "reading", !.server = s, !.open = TRUE,
                                                    !.parser = Parser(p[1], p[2])]]
        /\ trouble' = IF p[1] = "start" THEN trouble ELSE trouble \cup {"garbled"}
  BY DEF OnConnect
<1> DEFINE q == Parser(p[1], p[2])
           r == [Free EXCEPT !.pc = "reading", !.server = s, !.open = TRUE, !.parser = q]
<1>3. q \in Parsers
  <2>1. p[1] \in State /\ p[2] \in Types /\ <<>> \in Seq(Char)
    BY LeftoverAssumption
  <2> QED
    BY <2>1 DEF Parser, Parsers
<1> HIDE DEF q
<1>4. r \in Session /\ r.server # unknown
  BY <1>3, FreeType, ServerAssumption DEF Session
<1> HIDE DEF r
<1>5. ConnType'
  <2>1. conn' = [conn EXCEPT ![c] = r]
    BY <1>2 DEF r, q
  <2> QED
    BY <1>1, <1>4, <2>1, ConnTypePut
<1>6. ClientType'
  BY <1>1 DEF ClientType, OnConnect, WritePrev
<1>7. HistoryType'
  BY <1>1, <1>2 DEF HistoryType, OnConnect
<1> QED
  BY <1>1, <1>5, <1>6, <1>7, TypePartsNext, RaftTypeSame DEF OnConnect

LEMMA BreakTypes ==
  ASSUME TypeOK, NEW c \in Conn, Break(c)
  PROVE  TypeOK'
<1>1. RaftType /\ ConnType /\ ClientType /\ HistoryType
  BY TypeParts
<1>2. ConnType'
  BY <1>1, FreeType, ConnTypePut DEF Break
<1>3. ClientType'
  BY <1>1 DEF ClientType, Break, Doomed
<1>4. HistoryType'
  BY <1>1 DEF HistoryType, Break
<1> QED
  BY <1>1, <1>2, <1>3, <1>4, TypePartsNext, RaftTypeSame DEF Break

LEMMA RunPostedTypes ==
  ASSUME TypeOK, RunPosted
  PROVE  TypeOK'
<1>1. RaftType /\ ConnType /\ ClientType /\ HistoryType
  BY TypeParts
<1>2. posted' \in Seq(Line) /\ commands' \in Seq(Line) /\ commands' # <<>>
  <2>1. /\ posted \in Seq(Line) /\ posted # <<>> /\ commands \in Seq(Line)
        /\ posted' = Tail(posted) /\ commands' = Append(commands, Head(posted))
    BY <1>1 DEF ClientType, RunPosted
  <2> QED
    BY <2>1, SMTT(40)
<1>3. ClientType'
  BY <1>1, <1>2 DEF ClientType, RunPosted
<1> QED
  BY <1>1, <1>3, TypePartsNext, RaftTypeSame, ConnTypeSame, HistoryTypeSame DEF RunPosted

LEMMA OnWriteTypes ==
  ASSUME TypeOK, OnWrite
  PROVE  TypeOK'
<1>1. RaftType /\ ConnType /\ ClientType /\ HistoryType
  BY TypeParts
<1>2. commands # <<>> /\ commands \in Seq(Line) /\ Head(commands) \in Line /\ Tail(commands) \in Seq(Line) /\ current \in Conn
  BY <1>1 DEF ClientType, OnWrite
<1>3. ConnType'
  <2> DEFINE v == conn[current].wire \o Head(commands)
             s == [conn[current] EXCEPT !.wire = v]
  <2>1. conn[current] \in Session
    BY <1>1, <1>2 DEF ConnType
  <2>2. v \in Seq(Char)
    BY <1>2, <2>1, LineType DEF Session
  <2>3. conn' = [conn EXCEPT ![current] = s]
    BY <1>1, <1>2, <2>1 DEF OnWrite, ConnType, Session
  <2> HIDE DEF v
  <2>4. s \in Session /\ s.pc = conn[current].pc /\ s.server = conn[current].server
    BY <2>1, <2>2 DEF Session
  <2> HIDE DEF s
  <2>5. s.pc # "free" => s.server # unknown
    BY <1>1, <1>2, <2>4 DEF ConnType
  <2> QED
    BY <1>1, <1>2, <2>3, <2>4, <2>5, ConnTypePut
<1>4. ClientType'
  BY <1>1, <1>2 DEF ClientType, OnWrite, Remember
<1> QED
  BY <1>1, <1>3, <1>4, TypePartsNext, RaftTypeSame, HistoryTypeSame DEF OnWrite

LEMMA QuietTypes ==
  ASSUME TypeOK, OnResolve \/ OnConnectFails \/ OnWriteFails
  PROVE  TypeOK'
<1>1. RaftType /\ ConnType /\ ClientType /\ HistoryType
  BY TypeParts
<1>2. CASE OnResolve
  <2>1. ClientType'
    BY <1>1, <1>2 DEF ClientType, OnResolve
  <2> QED
    BY <1>1, <1>2, <2>1, TypePartsNext, RaftTypeSame, ConnTypeSame, HistoryTypeSame DEF OnResolve
<1>3. CASE OnConnectFails
  <2>1. ClientType'
    BY <1>1, <1>3 DEF ClientType, OnConnectFails
  <2> QED
    BY <1>1, <1>3, <2>1, TypePartsNext, RaftTypeSame, ConnTypeSame, HistoryTypeSame DEF OnConnectFails
<1>4. CASE OnWriteFails
  <2>1. ClientType'
    BY <1>1, <1>4 DEF ClientType, OnWriteFails
  <2> QED
    BY <1>1, <1>4, <2>1, TypePartsNext, RaftTypeSame, ConnTypeSame, HistoryTypeSame DEF OnWriteFails
<1> QED
  BY <1>2, <1>3, <1>4

\* A part of the replies that are under way.
LEMMA BatchIs ==
  ASSUME TypeOK, NEW batch \in Batches
  PROVE  /\ batch \in Seq(Replies) /\ Rest(batch) \in Seq(Replies)
         /\ Len(batch) \in 1..Len(conn[current].replies)
<1>1. conn[current].replies \in Seq(Replies)
  BY DEF TypeOK, Session
<1>2. PICK k \in 1..Len(conn[current].replies) : batch = SubSeq(conn[current].replies, 1, k)
  BY DEF Batches
<1>3. batch \in Seq(Replies) /\ Len(batch) = k
  BY <1>1, <1>2
<1> QED
  BY <1>1, <1>3 DEF Rest

LEMMA OnReplyTypes ==
  ASSUME TypeOK, OnReply
  PROVE  TypeOK'
<1>1. RaftType /\ ConnType /\ ClientType /\ HistoryType
  BY TypeParts
<1>2. PICK batch \in Batches : /\ answers' = answers \o batch
                               /\ conn' = [conn EXCEPT ![current].replies = Rest(batch)]
  BY DEF OnReply
<1>3. batch \in Seq(Replies) /\ Rest(batch) \in Seq(Replies)
  BY BatchIs
<1>4. ConnType'
  <2> DEFINE v == Rest(batch)
             s == [conn[current] EXCEPT !.replies = v]
  <2>1. conn[current] \in Session /\ current \in Conn
    BY <1>1 DEF ConnType, ClientType
  <2>2. conn' = [conn EXCEPT ![current] = s]
    BY <1>1, <1>2, <2>1 DEF ConnType, Session
  <2>3. v \in Seq(Replies)
    BY <1>3
  <2> HIDE DEF v
  <2>4. s \in Session /\ s.pc = conn[current].pc /\ s.server = conn[current].server
    BY <2>1, <2>3 DEF Session
  <2> HIDE DEF s
  <2>5. s.pc # "free" => s.server # unknown
    BY <1>1, <2>1, <2>4 DEF ConnType
  <2> QED
    BY <1>1, <2>1, <2>2, <2>4, <2>5, ConnTypePut
<1>5. HistoryType'
  BY <1>1, <1>2, <1>3 DEF HistoryType, OnReply
<1> QED
  BY <1>1, <1>4, <1>5, TypePartsNext, RaftTypeSame, ClientTypeSame DEF OnReply

LEMMA OnRedirectTypes ==
  ASSUME TypeOK, OnRedirect
  PROVE  TypeOK'
<1>1. RaftType /\ ConnType /\ ClientType /\ HistoryType
  BY TypeParts
<1>2. PICK batch \in Batches : NamesLeader(batch) /\ port' = LeaderPort(batch)
  BY DEF OnRedirect
<1>3. batch \in Seq(Replies)
  BY BatchIs
<1>4. port' \in Seq(0..9)
  <2>1. CASE Len(batch) = 1
    <3>1. batch[1].leader # unknown /\ batch[1] \in Replies
      BY <1>2, <1>3, <2>1 DEF NamesLeader
    <3>2. batch[1].leader \in Server
      BY <3>1 DEF Replies
    <3>3. rpc_port[batch[1].leader] \in Seq(0..9)
      BY <3>2, PortAssumption
    <3>4. \A p \in Seq(0..9) : ClientPort(p) \in Seq(0..9)
      BY DEF ClientPort
    <3> QED
      BY <1>2, <2>1, <3>3, <3>4 DEF LeaderPort
  <2>2. CASE Len(batch) # 1
    BY <1>2, <2>2 DEF LeaderPort
  <2> QED
    BY <2>1, <2>2
<1>5. ConnType'
  BY ClosedType DEF OnRedirect
<1>6. ClientType'
  BY <1>1, <1>4 DEF ClientType, OnRedirect, Doomed
<1> QED
  BY <1>1, <1>5, <1>6, TypePartsNext, RaftTypeSame, HistoryTypeSame DEF OnRedirect

LEMMA RaftTypes ==
  ASSUME TypeOK, NEW s \in Server, StepUp(s) \/ StepDown(s) \/ FollowLeader(s)
  PROVE  TypeOK'
<1>1. RaftType /\ ConnType /\ ClientType /\ HistoryType
  BY TypeParts
<1>2. RaftType'
  <2>1. changes' \in 0..MaxChanges
    BY <1>1, BoundAssumption DEF RaftType, StepUp, StepDown, FollowLeader
  <2> QED
    BY <1>1, <2>1 DEF RaftType, StepUp, StepDown, FollowLeader
<1>3. HistoryType'
  BY <1>1 DEF HistoryType, StepUp, StepDown, FollowLeader, Deposed, historyVars
<1> QED
  BY <1>1, <1>2, <1>3, TypePartsNext, ConnTypeSame, ClientTypeSame DEF StepUp, StepDown, FollowLeader

LEMMA TypeNext == TypeOK /\ [Next]_vars => TypeOK'
<1> SUFFICES ASSUME TypeOK, [Next]_vars PROVE TypeOK'
  OBVIOUS
<1>1. CASE UNCHANGED vars
  BY <1>1, TypeParts, TypePartsNext, RaftTypeSame, ConnTypeSame, ClientTypeSame, HistoryTypeSame DEF vars
<1>2. CASE Next
  <2>1. ASSUME NEW c \in Conn, Read(c) \/ Committed(c) \/ RemoveSession(c) \/ OnConnect(c) \/ Break(c)
        PROVE  TypeOK'
    BY <2>1, ReadTypes, CommittedTypes, RemoveTypes, OnConnectTypes, BreakTypes, Zenon
  <2>2. ASSUME NEW l \in Line, TypeLine(l)
        PROVE  TypeOK'
    BY <2>2, TypeLineTypes, Zenon
  <2>3. ASSUME NEW s \in Server, StepUp(s) \/ StepDown(s) \/ FollowLeader(s)
        PROVE  TypeOK'
    BY <2>3, RaftTypes, Zenon
  <2>4. ASSUME Eof \/ RunPosted \/ OnWrite \/ OnReply \/ OnRedirect \/ OnResolve \/ OnConnectFails \/ OnWriteFails
        PROVE  TypeOK'
    BY <2>4, EofTypes, RunPostedTypes, OnWriteTypes, OnReplyTypes, OnRedirectTypes, QuietTypes, Zenon
  <2> QED
    BY <1>2, <2>1, <2>2, <2>3, <2>4, Zenon DEF Next, ClientStep, SessionStep, RaftStep
<1> QED
  BY <1>1, <1>2

\* Every variable keeps its type, whoever connects, types and is deposed in whatever order: the
\* parser of every session stays in a state it has, a session that exists belongs to a server, a
\* write is only under way with something to write, and a redirection yields a port or none.
THEOREM ClientTypes == Spec => []TypeOK
<1>1. Init => TypeOK
  BY TypeInit
<1>2. TypeOK /\ [Next]_vars => TypeOK'
  BY TypeNext
<1> QED
  BY <1>1, <1>2, PTL DEF Spec


-----------------------------------------------------------------------------
(***************************************************************************)
(* Counting.                                                               *)
(***************************************************************************)
LEMMA CountUpTo ==
  ASSUME NEW N \in Nat, NEW S, S \subseteq 1..N
  PROVE  /\ Cardinality(S) \in Nat
         /\ Cardinality(S \cup {N + 1}) = Cardinality(S) + 1
<1>1. IsFiniteSet(1..N)
  BY FS_Interval
<1>2. IsFiniteSet(S)
  BY <1>1, FS_Subset
<1>3. N + 1 \notin S
  OBVIOUS
<1> QED
  BY <1>2, <1>3, FS_AddElement, FS_CardinalityType

LEMMA CopiesAppend ==
  ASSUME NEW T, NEW seq \in Seq(T), NEW x \in T, NEW y
  PROVE  /\ Copies(seq, y) \in Nat
         /\ x = y => Copies(Append(seq, x), y) = Copies(seq, y) + 1
         /\ x # y => Copies(Append(seq, x), y) = Copies(seq, y)
<1> DEFINE N == Len(seq)
           S == {i \in 1..N : seq[i] = y}
           W == {i \in 1..(N + 1) : Append(seq, x)[i] = y}
<1>1. N \in Nat /\ DOMAIN seq = 1..N /\ DOMAIN Append(seq, x) = 1..(N + 1)
  OBVIOUS
<1>2. Copies(seq, y) = Cardinality(S) /\ Copies(Append(seq, x), y) = Cardinality(W)
  BY <1>1 DEF Copies
<1>3. Append(seq, x)[N + 1] = x /\ \A i \in 1..N : Append(seq, x)[i] = seq[i]
  OBVIOUS
<1>4. x = y => W = S \cup {N + 1}
  <2>1. \A i : i \in 1..(N + 1) <=> i \in 1..N \/ i = N + 1
    BY <1>1
  <2> QED
    BY <1>3, <2>1
<1>5. x # y => W = S
  <2>1. \A i : i \in 1..(N + 1) <=> i \in 1..N \/ i = N + 1
    BY <1>1
  <2> QED
    BY <1>3, <2>1
<1>6. S \subseteq 1..N
  OBVIOUS
<1> HIDE DEF N, S, W
<1>7. Cardinality(S) \in Nat /\ Cardinality(S \cup {N + 1}) = Cardinality(S) + 1
  BY <1>1, <1>6, CountUpTo
<1> QED
  BY <1>2, <1>4, <1>5, <1>7

LEMMA OksNat ==
  ASSUME TypeOK, NEW c
  PROVE  Oks(c) \in Nat
<1>1. Len(answers) \in Nat /\ {i \in DOMAIN answers : answers[i].status = "OK" /\ answers[i].cmd = c} \subseteq 1..Len(answers)
  BY DEF TypeOK
<1> QED
  BY <1>1, CountUpTo DEF Oks

\* One more answer.
LEMMA OksAppend ==
  ASSUME TypeOK, NEW r \in Replies, answers' = Append(answers, r), NEW c
  PROVE  /\ r.status = "OK" /\ r.cmd = c => Oks(c)' = Oks(c) + 1
         /\ ~(r.status = "OK" /\ r.cmd = c) => Oks(c)' = Oks(c)
<1> DEFINE N == Len(answers)
           S == {i \in 1..N : answers[i].status = "OK" /\ answers[i].cmd = c}
           W == {i \in 1..(N + 1) : answers'[i].status = "OK" /\ answers'[i].cmd = c}
<1>1. N \in Nat /\ DOMAIN answers = 1..N /\ DOMAIN answers' = 1..(N + 1)
  BY DEF TypeOK
<1>2. Oks(c) = Cardinality(S) /\ Oks(c)' = Cardinality(W)
  BY <1>1 DEF Oks
<1>3. answers'[N + 1] = r /\ \A i \in 1..N : answers'[i] = answers[i]
  BY DEF TypeOK
<1>4. \A i : i \in 1..(N + 1) <=> i \in 1..N \/ i = N + 1
  BY <1>1
<1>5. r.status = "OK" /\ r.cmd = c => W = S \cup {N + 1}
  BY <1>3, <1>4
<1>6. ~(r.status = "OK" /\ r.cmd = c) => W = S
  BY <1>3, <1>4
<1>7. S \subseteq 1..N
  OBVIOUS
<1> HIDE DEF N, S, W
<1>8. Cardinality(S) \in Nat /\ Cardinality(S \cup {N + 1}) = Cardinality(S) + 1
  BY <1>1, <1>7, CountUpTo
<1> QED
  BY <1>2, <1>5, <1>6, <1>8

-----------------------------------------------------------------------------
(***************************************************************************)
(* ClientInv in parts, for as long as nothing in trouble has happened.     *)
(***************************************************************************)
InStep == Len(answers) <= Len(typed) /\ Len(typed) <= Len(answers) + 1
Matched == \A i \in DOMAIN answers : IsReplyTo(answers[i], typed[i])
WritingFits == writing = IF commands = <<>> THEN "no" ELSE "yes"
Placed == IF link = "open" THEN Connected(conn[current]) ELSE Away
OthersLeft == \A c \in Conn : (link = "open" /\ c = current) \/ Left(conn[c])
InLog(c) == Copies(appended, c) + One(Pending /\ ~Served /\ Newest = Text(c)) <= Copies(typed, Text(c))
Vouched(c) == c.type # "get" => Oks(c) + One(Served /\ Newest = Text(c)) <= Copies(appended, c)
Counted == \A c \in Command : InLog(c) /\ Vouched(c)

InvNow == InStep /\ Matched /\ WritingFits /\ Placed /\ OthersLeft /\ Counted

LEMMA InvIs == ClientInv <=> (trouble = {} => InvNow)
BY Zenon DEF ClientInv, InvNow, InStep, Matched, WritingFits, Placed, OthersLeft, InLog, Vouched, Counted

LEMMA InvIsNext == ClientInv' <=> (trouble' = {} => InvNow')
BY Zenon DEF ClientInv, InvNow, InStep, Matched, WritingFits, Placed, OthersLeft, InLog, Vouched, Counted

\* What the parts say of the history need not be looked at again while it stays.
historyKept == UNCHANGED <<typed, answers, appended>>

LEMMA HistorySame ==
  ASSUME historyKept, InStep, Matched
  PROVE  InStep' /\ Matched' /\ (Pending' <=> Pending) /\ Newest' = Newest
BY DEF historyKept, InStep, Matched, Pending, Newest

LEMMA CountedSame ==
  ASSUME historyKept, Counted, Served' <=> Served
  PROVE  Counted'
<1>1. typed' = typed /\ answers' = answers /\ appended' = appended
  BY DEF historyKept
<1>2. Served' = Served
  BY DEF Served
<1>3. (Pending' = Pending) /\ Newest' = Newest /\ \A c : Oks(c)' = Oks(c)
  BY <1>1 DEF Pending, Newest, Oks
<1>4. ASSUME NEW c \in Command PROVE (InLog(c) /\ Vouched(c))'
  <2>1. InLog(c) /\ Vouched(c)
    BY DEF Counted
  <2>2. One(Pending /\ ~Served /\ Newest = Text(c))' = One(Pending /\ ~Served /\ Newest = Text(c))
    BY <1>2, <1>3
  <2>3. One(Served /\ Newest = Text(c))' = One(Served /\ Newest = Text(c))
    BY <1>2, <1>3
  <2> QED
    BY <1>1, <1>3, <2>1, <2>2, <2>3 DEF InLog, Vouched
<1> QED
  BY <1>4 DEF Counted

\* Nothing is served by a session that has nothing to do, or that was left.
LEMMA NotServed ==
  ASSUME Fresh(conn[current]) \/ Left(conn[current])
  PROVE  ~Served
BY DEF Fresh, Left, Served

LEMMA AwayNotServed ==
  ASSUME TypeOK, OthersLeft, link # "open"
  PROVE  ~Served
BY NotServed DEF TypeOK, OthersLeft


LEMMA CopiesNat ==
  ASSUME NEW T, NEW seq \in Seq(T), NEW y
  PROVE  Copies(seq, y) \in Nat
<1>1. Len(seq) \in Nat /\ {i \in DOMAIN seq : seq[i] = y} \subseteq 1..Len(seq)
  OBVIOUS
<1> QED
  BY <1>1, CountUpTo DEF Copies

-----------------------------------------------------------------------------
(***************************************************************************)
(* One lemma per action.                                                   *)
(***************************************************************************)

\* What raft does beneath, and the connection that is not there yet.
LEMMA RaftInv ==
  ASSUME InvNow, UNCHANGED <<conn, clientVars, typed, answers, appended>>
  PROVE  InvNow'
<1>1. historyKept /\ UNCHANGED <<conn, link, current, posted, commands, writing, prev_command>>
  BY DEF historyKept, clientVars
<1>2. InStep /\ Matched /\ WritingFits /\ Placed /\ OthersLeft /\ Counted
  BY DEF InvNow
<1>3. Served' <=> Served
  BY <1>1 DEF Served
<1>4. InStep' /\ Matched' /\ (Pending' <=> Pending) /\ Newest' = Newest
  BY <1>1, <1>2, HistorySame
<1>5. WritingFits' /\ OthersLeft'
  BY <1>1, <1>2 DEF WritingFits, OthersLeft
<1>6. Placed'
  <2>1. Away => Away'
    BY <1>1, <1>4 DEF Away
  <2>2. Connected(conn[current]) => Connected(conn[current])'
    BY <1>1, <1>4, Zenon DEF Connected
  <2> QED
    BY <1>1, <1>2, <2>1, <2>2 DEF Placed
<1> QED
  BY <1>1, <1>2, <1>3, <1>4, <1>5, <1>6, CountedSame DEF InvNow

LEMMA NoConnectionInv ==
  ASSUME TypeOK, InvNow, OnResolve \/ OnConnectFails
  PROVE  InvNow'
<1>1. /\ historyKept /\ UNCHANGED <<conn, current, posted, commands, writing, prev_command>>
      /\ link # "open" /\ link' # "open"
  BY DEF historyKept, historyVars, OnResolve, OnConnectFails
<1>2. InStep /\ Matched /\ WritingFits /\ Placed /\ OthersLeft /\ Counted
  BY DEF InvNow
<1>3. Served' <=> Served
  BY <1>1 DEF Served
<1>4. InStep' /\ Matched' /\ (Pending' <=> Pending) /\ Newest' = Newest
  BY <1>1, <1>2, HistorySame
<1>5. WritingFits' /\ OthersLeft'
  BY <1>1, <1>2 DEF WritingFits, OthersLeft
<1>6. Placed'
  BY <1>1, <1>2, <1>4 DEF Placed, Away
<1> QED
  BY <1>1, <1>2, <1>3, <1>4, <1>5, <1>6, CountedSame DEF InvNow

\* A line is typed by a user who has every answer.
LEMMA TypeLineInv ==
  ASSUME TypeOK, InvNow, NEW l \in Line, TypeLine(l), trouble' = {}
  PROVE  InvNow'
<1>1. InStep /\ Matched /\ WritingFits /\ Placed /\ OthersLeft /\ Counted
  BY DEF InvNow
<1>2. /\ link = "open" /\ Len(answers) = Len(typed) /\ typed' = Append(typed, l) /\ posted' = Append(posted, l)
      /\ UNCHANGED <<conn, link, current, commands, writing, prev_command, answers, appended>>
  BY DEF TypeLine, Settled
<1>3. typed \in Seq(Line) /\ answers \in Seq(Replies) /\ appended \in Seq(Commanded)
  BY DEF TypeOK
<1>4. ~Pending /\ Pending' /\ Newest' = l
  BY <1>2, <1>3 DEF Pending, Newest
<1>5. conn[current].open /\ posted = <<>> /\ commands = <<>> /\ Fresh(conn[current])
  BY <1>1, <1>2, <1>4 DEF Placed, Connected
<1>6. InStep'
  BY <1>2, <1>3 DEF InStep
<1>7. Matched'
  <2>1. \A i \in DOMAIN answers : typed'[i] = typed[i]
    BY <1>2, <1>3
  <2> QED
    BY <1>1, <1>2, <2>1 DEF Matched
<1>8. WritingFits' /\ OthersLeft'
  BY <1>1, <1>2 DEF WritingFits, OthersLeft
<1>9. Placed'
  <2>1. posted' = <<Newest'>>
    BY <1>2, <1>4, <1>5
  <2>2. Fresh(conn[current])' /\ conn'[current'].open /\ commands' = <<>> /\ link' = "open"
    BY <1>2, <1>5
  <2> QED
    BY <1>4, <2>1, <2>2, Zenon DEF Placed, Connected
<1>10. Counted'
  <2>1. ~Served /\ ~Served'
    <3>1. ~Served
      BY <1>5, NotServed
    <3> QED
      BY <1>2, <3>1 DEF Served
  <2>2. ASSUME NEW c \in Command PROVE (InLog(c) /\ Vouched(c))'
    <3>1. InLog(c) /\ Vouched(c)
      BY <1>1 DEF Counted
    <3>2. /\ Copies(typed, Text(c)) \in Nat
          /\ l = Text(c) => Copies(typed', Text(c)) = Copies(typed, Text(c)) + 1
          /\ l # Text(c) => Copies(typed', Text(c)) = Copies(typed, Text(c))
      BY <1>2, <1>3, CopiesAppend
    <3>3. Copies(appended, c) \in Nat /\ Copies(appended, c) <= Copies(typed, Text(c))
      <4>1. Copies(appended, c) \in Nat
        BY <1>3, CopiesNat
      <4>2. One(Pending /\ ~Served /\ Newest = Text(c)) = 0
        BY <1>4 DEF One
      <4> QED
        BY <3>1, <4>1, <4>2 DEF InLog
    <3>4. InLog(c)'
      <4>1. CASE l = Text(c)
        <5>1. One(Pending /\ ~Served /\ Newest = Text(c))' = 1
          BY <1>4, <2>1, <4>1 DEF One
        <5> QED
          BY <1>2, <3>2, <3>3, <4>1, <5>1 DEF InLog
      <4>2. CASE l # Text(c)
        <5>1. One(Pending /\ ~Served /\ Newest = Text(c))' = 0
          BY <1>4, <2>1, <4>2 DEF One
        <5> QED
          BY <1>2, <3>2, <3>3, <4>2, <5>1 DEF InLog
      <4> QED
        BY <4>1, <4>2
    <3>5. Vouched(c)'
      <4>1. One(Served /\ Newest = Text(c))' = 0 /\ One(Served /\ Newest = Text(c)) = 0
        BY <2>1 DEF One
      <4>2. Oks(c)' = Oks(c)
        BY <1>2 DEF Oks
      <4> QED
        BY <1>2, <3>1, <4>1, <4>2 DEF Vouched
    <3> QED
      BY <3>4, <3>5
  <2> QED
    BY <2>2 DEF Counted
<1> QED
  BY <1>6, <1>7, <1>8, <1>9, <1>10 DEF InvNow

\* The line is queued and written.
LEMMA RunPostedInv ==
  ASSUME TypeOK, InvNow, RunPosted
  PROVE  InvNow'
<1>1. InStep /\ Matched /\ WritingFits /\ Placed /\ OthersLeft /\ Counted
  BY DEF InvNow
<1>2. /\ historyKept /\ posted # <<>> /\ posted' = Tail(posted) /\ commands' = Append(commands, Head(posted))
      /\ UNCHANGED <<conn, link, current, prev_command>>
  BY DEF RunPosted, historyKept, historyVars
<1>3. link = "open" /\ conn[current].open /\ Pending /\ posted = <<Newest>> /\ commands = <<>> /\ Fresh(conn[current])
  BY <1>1, <1>2 DEF Placed, Connected, Away
<1>4. posted' = <<>> /\ commands' = <<Newest>> /\ writing' = "yes"
  BY <1>2, <1>3 DEF RunPosted
<1>5. InStep' /\ Matched' /\ (Pending' <=> Pending) /\ Newest' = Newest
  BY <1>1, <1>2, HistorySame
<1>6. WritingFits' /\ OthersLeft'
  BY <1>1, <1>2, <1>4 DEF WritingFits, OthersLeft
<1>7. Placed'
  <2>1. Fresh(conn[current])' /\ conn'[current'].open /\ commands' = <<Newest'>> /\ posted' = <<>> /\ Pending' /\ link' = "open"
    BY <1>2, <1>3, <1>4, <1>5
  <2> QED
    BY <2>1, Zenon DEF Placed, Connected
<1>8. Served' <=> Served
  BY <1>2 DEF Served
<1> QED
  BY <1>1, <1>2, <1>5, <1>6, <1>7, <1>8, CountedSame DEF InvNow


\* Before the first read of a line.
LEMMA NothingRead ==
  ASSUME NEW l \in Seq(Char), NEW p
  PROVE  parse(p, SubSeq(l, 1, 0)) = p /\ SubSeq(l, 0 + 1, Len(l)) = l
<1>1. PICK h : /\ Len(l) \in Nat /\ h[0] = p
               /\ \A n \in 0..Len(l) : parse(p, SubSeq(l, 1, n)) = h[n]
  <2>1. \E h : /\ IsTrace(p, l, Len(l), h) /\ Len(l) \in Nat
               /\ \A n \in 0..Len(l) : parse(p, SubSeq(l, 1, n)) = h[n]
               /\ parse(p, l) = h[Len(l)] /\ h[0] = p
    BY LineTrace
  <2> QED
    BY <2>1, Zenon
<1>2. 0 \in 0..Len(l)
  BY <1>1
<1>3. parse(p, SubSeq(l, 1, 0)) = p
  BY <1>1, <1>2, Zenon
<1>4. SubSeq(l, 1, Len(l)) = l
  OBVIOUS
<1> QED
  BY <1>3, <1>4

LEMMA OnWriteInv ==
  ASSUME TypeOK, InvNow, OnWrite
  PROVE  InvNow'
<1>1. InStep /\ Matched /\ WritingFits /\ Placed /\ OthersLeft /\ Counted
  BY DEF InvNow
<1>2. /\ historyKept /\ writing = "yes" /\ link = "open"
      /\ conn' = [conn EXCEPT ![current].wire = @ \o Head(commands)]
      /\ UNCHANGED <<link, current, posted>>
  BY DEF OnWrite, historyKept, historyVars
<1>3. conn[current].open /\ Pending /\ posted = <<>> /\ commands = <<Newest>> /\ Fresh(conn[current])
  BY <1>1, <1>2 DEF Placed, Connected, WritingFits
<1>4. commands' = <<>> /\ writing' = "no" /\ prev_command' = Newest /\ Head(commands) = Newest
  BY <1>3 DEF OnWrite, Remember
<1>5. Newest \in Line
  <2>1. commands \in Seq(Line) /\ commands[1] = Newest /\ Len(commands) = 1
    BY <1>3 DEF TypeOK
  <2> QED
    BY <2>1
<1>6. InStep' /\ Matched' /\ (Pending' <=> Pending) /\ Newest' = Newest
  BY <1>1, <1>2, HistorySame
<1> DEFINE s == [conn[current] EXCEPT !.wire = Newest]
<1>7. conn' = [conn EXCEPT ![current] = s] /\ conn'[current] = s /\ (\A c \in Conn : c # current => conn'[c] = conn[c])
  <2>1. current \in Conn /\ conn \in [Conn -> Session]
    BY DEF TypeOK
  <2>2. conn[current].wire \o Head(commands) = Newest
    <3>1. conn[current].wire = <<>> /\ Newest \in Seq(Char)
      BY <1>3, <1>5, LineType DEF Fresh
    <3> QED
      BY <1>4, <3>1
  <2>3. conn' = [conn EXCEPT ![current] = s]
    BY <1>2, <2>2
  <2> HIDE DEF s
  <2> QED
    BY <2>1, <2>3
<1>8. /\ s.pc = "reading" /\ s.open /\ s.replies = <<>> /\ s.wire = Newest /\ s.parser = conn[current].parser
  <2>1. conn[current] \in Session
    BY DEF TypeOK
  <2> QED
    BY <1>3, <2>1 DEF Session, Fresh
<1> HIDE DEF s
<1>9. Reading(s, Newest)
  <2>1. PICK t \in Types : s.parser = Parser("start", t)
    BY <1>3, <1>8 DEF Fresh
  <2>2. s.parser.result = "need_more"
    BY <2>1, StartType
  <2>3. Newest \in Seq(Char)
    BY <1>5, LineType
  <2>4. 0 \in 0..Len(Newest)
    BY <2>3
  <2>5. s.wire = SubSeq(Newest, 0 + 1, Len(Newest)) /\ s.parser = parse(Parser("start", t), SubSeq(Newest, 1, 0))
    BY <1>8, <2>1, <2>3, NothingRead
  <2> QED
    BY <1>8, <2>2, <2>4, <2>5 DEF Reading
<1>10. WritingFits' /\ OthersLeft'
  BY <1>1, <1>2, <1>4, <1>7 DEF WritingFits, OthersLeft
<1>11. Placed'
  <2>1. /\ link' = "open" /\ conn'[current'].open /\ Pending' /\ posted' = <<>> /\ commands' = <<>>
        /\ prev_command' = Newest' /\ Reading(conn[current], Newest)'
    BY <1>2, <1>3, <1>4, <1>6, <1>7, <1>8, <1>9
  <2> QED
    BY <2>1, Zenon DEF Placed, Connected
<1>12. Served' <=> Served
  <2>1. ~Served
    BY <1>3, NotServed
  <2> QED
    BY <1>2, <1>7, <1>8, <2>1 DEF Served
<1> QED
  BY <1>1, <1>2, <1>6, <1>10, <1>11, <1>12, CountedSame DEF InvNow

\* The session that a step of a session is about.
LEMMA SessionPut ==
  ASSUME TypeOK, NEW c \in Conn, NEW s, conn' = [conn EXCEPT ![c] = s]
  PROVE  conn'[c] = s /\ \A d \in Conn : d # c => conn'[d] = conn[d]
BY DEF TypeOK

LEMMA CommittedInv ==
  ASSUME TypeOK, InvNow, NEW c \in Conn, Committed(c)
  PROVE  InvNow'
<1>1. InStep /\ Matched /\ WritingFits /\ Placed /\ OthersLeft /\ Counted
  BY DEF InvNow
<1>2. /\ historyKept /\ conn[c].pc = "waiting" /\ conn' = [conn EXCEPT ![c] = Reply(conn[c], "OK", unknown)]
      /\ UNCHANGED <<link, current, posted, commands, writing, prev_command>>
  BY DEF Committed, historyKept, historyVars, clientVars
<1>3. link = "open" /\ c = current
  BY <1>1, <1>2 DEF OthersLeft, Left
<1> DEFINE s == conn[c]
           r == Reply(s, "OK", unknown)
<1>4. s.open /\ Pending /\ posted = <<>> /\ commands = <<>> /\ prev_command = Newest /\ Waiting(s, Newest)
  BY <1>1, <1>2, <1>3 DEF Placed, Connected, Fresh, Reading, Answered
<1>5. conn'[c] = r /\ \A d \in Conn : d # c => conn'[d] = conn[d]
  BY <1>2, SessionPut
<1>6. s \in Session
  BY DEF TypeOK
<1> DEFINE a == [status |-> "OK", leader |-> unknown, cmd |-> Asked(s.parser)]
<1>7. r.pc = "reading" /\ r.wire = <<>> /\ r.open /\ r.parser = Parser("start", "unknown") /\ r.replies = <<a>>
  <2> HIDE DEF a, s, r
  <2>1. s.wire = <<>> /\ s.replies = <<>>
    BY <1>4 DEF Waiting
  <2>2. r.pc = "reading" /\ r.wire = s.wire /\ r.open = s.open /\ r.parser = Parser("start", "unknown") /\ r.replies = Append(s.replies, a)
    <3>1. "OK" \in Statuses /\ unknown \in Server \cup {unknown}
      BY DEF Statuses
    <3>2. Replied(Reply(s, "OK", unknown), s, ReplyOf(s, "OK", unknown))
      BY <1>6, <3>1, ReplyIs, Zenon
    <3>3. Replied(r, s, a)
      BY <3>2, Zenon DEF r, a, ReplyOf
    <3> QED
      BY <1>4, <3>3 DEF Replied
  <2> QED
    BY <1>4, <2>1, <2>2
<1>8. a.status = "OK" /\ IsReplyTo(a, Newest)
  <2>1. Asked(s.parser) \in Command /\ Text(Asked(s.parser)) = Newest
    BY <1>4 DEF Waiting
  <2>2. Newest \notin Slip
    BY <2>1, SlipIsNoText
  <2> QED
    BY <2>1, <2>2 DEF IsReplyTo
<1> HIDE DEF a, r, s
<1>9. Answered(r, Newest)
  <2>1. Len(r.replies) = 1 /\ r.replies[1] = a
    BY <1>7
  <2> QED
    BY <1>7, <1>8, <2>1 DEF Answered
<1>10. InStep' /\ Matched' /\ (Pending' <=> Pending) /\ Newest' = Newest
  BY <1>1, <1>2, HistorySame
<1>11. WritingFits' /\ OthersLeft'
  BY <1>1, <1>2, <1>3, <1>5 DEF WritingFits, OthersLeft
<1>12. Placed'
  <2>1. /\ link' = "open" /\ conn'[current'].open /\ Pending' /\ posted' = <<>> /\ commands' = <<>>
        /\ prev_command' = Newest' /\ Answered(conn[current], Newest)'
    BY <1>2, <1>3, <1>4, <1>5, <1>7, <1>9, <1>10
  <2> QED
    BY <2>1, Zenon DEF Placed, Connected
<1>13. Served' <=> Served
  <2>1. Served
    BY <1>2, <1>3 DEF Served
  <2>2. r.replies # <<>> /\ r.replies[1].status = "OK"
    BY <1>7, <1>8
  <2> QED
    BY <1>2, <1>3, <1>5, <2>1, <2>2 DEF Served
<1> QED
  BY <1>1, <1>2, <1>10, <1>11, <1>12, <1>13, CountedSame DEF InvNow

LEMMA RemoveInv ==
  ASSUME TypeOK, InvNow, NEW c \in Conn, RemoveSession(c)
  PROVE  InvNow'
<1>1. InStep /\ Matched /\ WritingFits /\ Placed /\ OthersLeft /\ Counted
  BY DEF InvNow
<1>2. /\ historyKept /\ ~conn[c].open /\ conn' = [conn EXCEPT ![c] = Free]
      /\ UNCHANGED <<link, current, posted, commands, writing, prev_command>>
  BY DEF RemoveSession, historyKept, historyVars, clientVars
<1>3. ~(link = "open" /\ c = current)
  BY <1>1, <1>2 DEF Placed, Connected
<1>4. conn'[c] = Free /\ \A d \in Conn : d # c => conn'[d] = conn[d]
  BY <1>2, SessionPut
<1>5. Left(Free)
  BY FreeType DEF Left
<1>6. InStep' /\ Matched' /\ (Pending' <=> Pending) /\ Newest' = Newest
  BY <1>1, <1>2, HistorySame
<1>7. OthersLeft'
  <2>1. ASSUME NEW d \in Conn PROVE ((link = "open" /\ d = current) \/ Left(conn[d]))'
    <3>1. CASE d = c
      BY <1>4, <1>5, <3>1
    <3>2. CASE d # c
      BY <1>1, <1>2, <1>4, <3>2 DEF OthersLeft
    <3> QED
      BY <3>1, <3>2
  <2> QED
    BY <2>1 DEF OthersLeft
<1>8. WritingFits'
  BY <1>1, <1>2 DEF WritingFits
<1>9. current \in Conn
  BY DEF TypeOK
<1>10. Placed'
  <2>1. CASE link = "open"
    <3>1. conn'[current'] = conn[current]
      BY <1>2, <1>3, <1>4, <1>9, <2>1
    <3>2. Connected(conn[current])
      BY <1>1, <2>1 DEF Placed
    <3>3. Connected(conn[current])'
      BY <1>2, <1>6, <3>1, <3>2, Zenon DEF Connected
    <3> QED
      BY <1>2, <2>1, <3>3 DEF Placed
  <2>2. CASE link # "open"
    BY <1>1, <1>2, <1>6, <2>2 DEF Placed, Away
  <2> QED
    BY <2>1, <2>2
<1>11. Served' <=> Served
  <2>1. CASE c = current
    <3>1. ~Served
      BY <1>1, <1>3, <2>1, AwayNotServed
    <3>2. ~Served'
      BY <1>2, <1>4, <2>1, FreeType DEF Served
    <3> QED
      BY <3>1, <3>2
  <2>2. CASE c # current
    BY <1>2, <1>4, <1>9, <2>2 DEF Served
  <2> QED
    BY <2>1, <2>2
<1> QED
  BY <1>1, <1>2, <1>6, <1>7, <1>8, <1>10, <1>11, CountedSame DEF InvNow

\* The new session, and the command before the redirection written again.
LEMMA OnConnectInv ==
  ASSUME TypeOK, InvNow, NEW c \in Conn, OnConnect(c), trouble' = {}
  PROVE  InvNow'
<1>1. InStep /\ Matched /\ WritingFits /\ Placed /\ OthersLeft /\ Counted
  BY DEF InvNow
<1>2. /\ historyKept /\ link = "connecting" /\ link' = "open" /\ current' = c
      /\ posted' = WritePrev /\ UNCHANGED <<commands, writing, prev_command>>
  BY DEF OnConnect, historyKept, historyVars, clientVars
<1>3. PICK v \in Server, p \in Leftover :
        /\ conn' = [conn EXCEPT ![c] = [Free EXCEPT !.pc = "reading", !.server = v, !.open = TRUE,
                                                    !.parser = Parser(p[1], p[2])]]
        /\ p[1] = "start"
  BY DEF OnConnect
<1> DEFINE q == Parser(p[1], p[2])
           s == [Free EXCEPT !.pc = "reading", !.server = v, !.open = TRUE, !.parser = q]
<1>4. p[2] \in Types /\ q = Parser("start", p[2])
  <2>1. p \in State \X Types
    BY LeftoverAssumption
  <2> QED
    BY <1>3, <2>1
<1> HIDE DEF q
<1>5. s.pc = "reading" /\ s.open /\ s.wire = <<>> /\ s.replies = <<>> /\ s.parser = q
  BY FreeType DEF Session
<1>6. conn' = [conn EXCEPT ![c] = s]
  BY <1>3 DEF q
<1> HIDE DEF s
<1>7. conn'[c] = s /\ \A d \in Conn : d # c => conn'[d] = conn[d]
  BY <1>6, SessionPut
<1>8. Fresh(s)
  BY <1>4, <1>5 DEF Fresh
<1>9. Away
  BY <1>1, <1>2 DEF Placed
<1>10. posted' = IF Pending THEN <<Newest>> ELSE <<>>
  <2>1. CASE Pending
    <3>1. prev_command = Newest /\ Len(typed) > 0 /\ posted = <<>>
      BY <1>9, <2>1 DEF Away, Pending, TypeOK
    <3>2. Newest \in Line
      BY <3>1 DEF Newest, TypeOK
    <3>3. Newest # <<>>
      BY <3>2, LineType
    <3> QED
      BY <1>2, <2>1, <3>1, <3>3 DEF WritePrev
  <2>2. CASE ~Pending
    BY <1>2, <1>9, <2>2 DEF Away, WritePrev
  <2> QED
    BY <2>1, <2>2
<1>11. InStep' /\ Matched' /\ (Pending' <=> Pending) /\ Newest' = Newest
  BY <1>1, <1>2, HistorySame
<1>12. WritingFits'
  BY <1>1, <1>2 DEF WritingFits
<1>13. OthersLeft'
  BY <1>1, <1>2, <1>7 DEF OthersLeft
<1>14. Placed'
  <2>1. link' = "open" /\ conn'[current'].open /\ Fresh(conn[current])' /\ commands' = <<>>
    BY <1>2, <1>5, <1>7, <1>8, <1>9 DEF Away
  <2>2. posted' = IF Pending' THEN <<Newest'>> ELSE <<>>
    BY <1>10, <1>11
  <2> QED
    BY <2>1, <2>2, Zenon DEF Placed, Connected
<1>15. Served' <=> Served
  <2>1. ~Served
    BY <1>1, <1>2, AwayNotServed
  <2>2. ~Served'
    BY <1>2, <1>5, <1>7 DEF Served
  <2> QED
    BY <2>1, <2>2
<1> QED
  BY <1>1, <1>2, <1>11, <1>12, <1>13, <1>14, <1>15, CountedSame DEF InvNow


\* A session answers the newest line with the reply a, or waits with it.
LEMMA ReadAnswers ==
  ASSUME TypeOK, InvNow, link = "open", conn[current].open, Pending, posted = <<>>, commands = <<>>,
         prev_command = Newest,
         NEW s, conn' = [conn EXCEPT ![current] = s], s.open,
         Reading(s, Newest) \/ Waiting(s, Newest) \/ Answered(s, Newest),
         UNCHANGED <<clientVars, typed, answers>>
  PROVE  InStep' /\ Matched' /\ WritingFits' /\ Placed' /\ OthersLeft' /\ conn'[current'] = s
<1>1. InStep /\ Matched /\ WritingFits /\ Placed /\ OthersLeft
  BY DEF InvNow
<1>2. UNCHANGED <<link, current, posted, commands, writing, prev_command>> /\ current \in Conn
  BY DEF clientVars, TypeOK
<1>3. conn'[current] = s /\ \A d \in Conn : d # current => conn'[d] = conn[d]
  BY <1>2, SessionPut
<1>4. InStep' /\ Matched' /\ (Pending' <=> Pending) /\ Newest' = Newest
  BY <1>1 DEF InStep, Matched, Pending, Newest
<1>5. WritingFits' /\ OthersLeft'
  BY <1>1, <1>2, <1>3 DEF WritingFits, OthersLeft
<1>6. Placed'
  <2>1. /\ link' = "open" /\ conn'[current'].open /\ Pending' /\ posted' = <<>> /\ commands' = <<>>
        /\ prev_command' = Newest'
        /\ Reading(conn[current], Newest)' \/ Waiting(conn[current], Newest)' \/ Answered(conn[current], Newest)'
    BY <1>2, <1>3, <1>4
  <2> QED
    BY <2>1, Zenon DEF Placed, Connected
<1> QED
  BY <1>2, <1>3, <1>4, <1>5, <1>6

\* Of the session that reads, and of what it has read.
LEMMA ReadIs ==
  ASSUME TypeOK, InvNow, NEW c \in Conn, conn[c].pc = "reading", NEW n \in 1..Len(conn[c].wire),
         NEW s, s = Parsed(c, n)
  PROVE  /\ c = current /\ link = "open" /\ conn[current].open /\ Pending
         /\ posted = <<>> /\ commands = <<>> /\ prev_command = Newest /\ ~Served
         /\ s \in Session /\ s.open /\ s.replies = <<>> /\ s.pc = "reading"
         /\ s.parser.result = "need_more" => Reading(s, Newest)
         /\ s.parser.result = "good" =>
              /\ Newest \notin Slip /\ s.wire = <<>> /\ Asked(s.parser) \in Command /\ Text(Asked(s.parser)) = Newest
              /\ s.parser.type = Asked(s.parser).type
         /\ s.parser.result = "bad" /\ s.wire = <<>> => Newest \in Slip
<1>1. InStep /\ Matched /\ WritingFits /\ Placed /\ OthersLeft /\ Counted
  BY DEF InvNow
<1>2. conn[c].wire # <<>>
  OBVIOUS
<1>3. link = "open" /\ c = current
  BY <1>1, <1>2 DEF OthersLeft, Left
<1>4. /\ conn[c].open /\ Pending /\ posted = <<>> /\ commands = <<>> /\ prev_command = Newest
      /\ Reading(conn[c], Newest)
  BY <1>1, <1>2, <1>3 DEF Placed, Connected, Fresh, Waiting, Answered
<1>5. ~Served
  BY <1>3, <1>4 DEF Served, Reading
<1>6. Newest \in Line
  BY <1>4 DEF Newest, Pending, TypeOK
<1>7. PICK t \in Types, i \in 0..Len(Newest) :
        /\ conn[c].wire = SubSeq(Newest, i + 1, Len(Newest))
        /\ conn[c].parser = parse(Parser("start", t), SubSeq(Newest, 1, i))
  BY <1>4 DEF Reading
<1>8. /\ s \in Session /\ s.open = conn[c].open /\ s.replies = conn[c].replies /\ s.pc = conn[c].pc
      /\ s.parser = parse(conn[c].parser, SubSeq(conn[c].wire, 1, n))
      /\ s.wire = SubSeq(conn[c].wire, n + 1, Len(conn[c].wire))
  BY ParsedIs
<1>9. /\ s.parser = parse(parse(Parser("start", t), SubSeq(Newest, 1, i)), SubSeq(conn[c].wire, 1, n))
  BY <1>7, <1>8, Zenon
<1> DEFINE w == conn[c].wire
           q == s.parser
           rest == s.wire
           l == Newest
<1>10. IsRead(l, t, i, w, n, q, rest)
  BY <1>6, <1>7, <1>8, <1>9 DEF IsRead
<1>11. /\ s.replies = <<>> /\ s.open /\ s.pc = "reading"
  BY <1>4, <1>8 DEF Reading
<1> HIDE DEF w, q, rest, l
<1>12. PICK j : WasRead(l, t, j, q, rest)
  BY <1>10, PieceRead
<1>13. q.result = "need_more" => Reading(s, l)
  <2>1. j \in 0..Len(l) /\ s.wire = SubSeq(l, j + 1, Len(l)) /\ s.parser = parse(Parser("start", t), SubSeq(l, 1, j))
    BY <1>12 DEF WasRead, q, rest
  <2>2. t \in Types
    OBVIOUS
  <2> QED
    BY <1>11, <2>1, <2>2, Zenon DEF Reading, q
<1> QED
  BY <1>3, <1>4, <1>5, <1>8, <1>11, <1>12, <1>13 DEF WasRead, q, rest, l

\* What the session that answers holds then.
LEMMA ReplyAnswers ==
  ASSUME NEW s \in Session, s.open, s.replies = <<>>, s.wire = <<>>,
         NEW st \in {"OK", "NOT_LEADER", "INVALID_COMMAND", "INTERNAL_ERROR"}, NEW le \in Server \cup {unknown},
         NEW l, IF l \in Slip THEN st = "INVALID_COMMAND"
                ELSE st # "INVALID_COMMAND" /\ Asked(s.parser) \in Command /\ Text(Asked(s.parser)) = l,
         NEW r, r = Reply(s, st, le)
  PROVE  Answered(r, l) /\ r.open /\ r.pc = "reading" /\ r.replies # <<>> /\ r.replies[1].status = st
<1> DEFINE a == [status |-> st, leader |-> le, cmd |-> Asked(s.parser)]
<1>1. a.status = st /\ a.cmd = Asked(s.parser)
  OBVIOUS
<1> HIDE DEF a
<1>2. r.pc = "reading" /\ r.wire = <<>> /\ r.open /\ r.parser = Parser("start", "unknown") /\ r.replies = Append(<<>>, a)
  <2>1. Replied(Reply(s, st, le), s, ReplyOf(s, st, le))
    BY ReplyIs DEF Statuses
  <2>2. Replied(r, s, a)
    BY <2>1, Zenon DEF a, ReplyOf
  <2> QED
    BY <2>2 DEF Replied
<1>3. Len(r.replies) = 1 /\ r.replies[1] = a /\ r.replies # <<>>
  BY <1>2
<1>4. IsReplyTo(a, l)
  BY <1>1 DEF IsReplyTo
<1> QED
  BY <1>1, <1>2, <1>3, <1>4 DEF Answered

LEMMA ReadInv ==
  ASSUME TypeOK, InvNow, NEW c \in Conn, Read(c), trouble' = {}
  PROVE  InvNow'
<1>1. Counted /\ InStep /\ Matched
  BY DEF InvNow
<1>2. PICK n \in 1..Len(conn[c].wire) :
        LET s == Parsed(c, n) IN
        \/ ReadMore(c, s)
        \/ ReadInvalid(c, s)
        \/ HandleGet(c, s)
        \/ HandleNotLeader(c, s)
        \/ HandleAppend(c, s)
        \/ HandleTooLate(c, s)
        \/ HandleUnknown(c, s)
  BY DEF Read
<1>3. conn[c].pc = "reading"
  BY DEF Read
<1> DEFINE s == Parsed(c, n)
<1>4. /\ c = current /\ link = "open" /\ conn[current].open /\ Pending
      /\ posted = <<>> /\ commands = <<>> /\ prev_command = Newest /\ ~Served
      /\ s \in Session /\ s.open /\ s.replies = <<>> /\ s.pc = "reading"
      /\ s.parser.result = "need_more" => Reading(s, Newest)
      /\ s.parser.result = "good" =>
           /\ Newest \notin Slip /\ s.wire = <<>> /\ Asked(s.parser) \in Command /\ Text(Asked(s.parser)) = Newest
           /\ s.parser.type = Asked(s.parser).type
      /\ s.parser.result = "bad" /\ s.wire = <<>> => Newest \in Slip
  BY <1>3, ReadIs
<1> HIDE DEF s
<1>5. ASSUME NEW st \in {"OK", "NOT_LEADER", "INVALID_COMMAND", "INTERNAL_ERROR"}, NEW le \in Server \cup {unknown},
             IF st = "INVALID_COMMAND" THEN s.parser.result = "bad" /\ s.wire = <<>> ELSE s.parser.result = "good",
             conn' = [conn EXCEPT ![c] = Reply(s, st, le)], UNCHANGED <<clientVars, typed, answers, appended>>,
             st = "OK" => s.parser.type = "get"
      PROVE  InvNow'
  <2> DEFINE r == Reply(s, st, le)
  <2>1. conn' = [conn EXCEPT ![current] = r]
    BY <1>4, <1>5
  <2>2. s.wire = <<>>
    BY <1>4, <1>5
  <2>3. IF Newest \in Slip THEN st = "INVALID_COMMAND"
        ELSE st # "INVALID_COMMAND" /\ Asked(s.parser) \in Command /\ Text(Asked(s.parser)) = Newest
    BY <1>4, <1>5
  <2>4. Answered(r, Newest) /\ r.open /\ r.pc = "reading" /\ r.replies # <<>> /\ r.replies[1].status = st
    BY <1>4, <2>2, <2>3, ReplyAnswers
  <2> HIDE DEF r
  <2>5. InStep' /\ Matched' /\ WritingFits' /\ Placed' /\ OthersLeft' /\ conn'[current'] = r
    BY <1>4, <1>5, <2>1, <2>4, ReadAnswers
  <2>6. Counted'
    <3>1. historyKept
      BY <1>5 DEF historyKept
    <3>2. CASE st # "OK"
      <4>1. ~Served'
        BY <2>4, <2>5, <3>2 DEF Served
      <4> QED
        BY <1>1, <1>4, <3>1, <4>1, CountedSame
    <3>3. CASE st = "OK"
      <4>1. Served' /\ Pending' /\ Newest' = Newest
        <5>1. Pending' /\ Newest' = Newest
          BY <1>1, <1>4, <3>1, HistorySame
        <5> QED
          BY <2>4, <2>5, <3>3, <5>1 DEF Served
      <4>2. Asked(s.parser) \in Command /\ Text(Asked(s.parser)) = Newest /\ Asked(s.parser).type = "get"
        BY <1>4, <1>5, <3>3
      <4>3. ASSUME NEW d \in Command PROVE (InLog(d) /\ Vouched(d))'
        <5>1. InLog(d) /\ Vouched(d)
          BY <1>1 DEF Counted
        <5>2. InLog(d)'
          <6>1. One(Pending /\ ~Served /\ Newest = Text(d))' = 0
            BY <4>1 DEF One
          <6>2. Copies(appended, d) \in Nat /\ Copies(typed, Text(d)) \in Nat
            BY CopiesNat DEF TypeOK
          <6>3. One(Pending /\ ~Served /\ Newest = Text(d)) \in {0, 1}
            BY DEF One
          <6>4. Copies(appended, d)' = Copies(appended, d) /\ Copies(typed, Text(d))' = Copies(typed, Text(d))
            BY <3>1 DEF historyKept
          <6> QED
            BY <5>1, <6>1, <6>2, <6>3, <6>4 DEF InLog
        <5>3. Vouched(d)'
          <6>1. CASE d.type = "get"
            BY <6>1 DEF Vouched
          <6>2. CASE d.type # "get"
            <7>1. Newest # Text(d)
              BY <4>2, <6>2, TextInjective
            <7>2. One(Served /\ Newest = Text(d))' = 0 /\ One(Served /\ Newest = Text(d)) = 0
              BY <4>1, <7>1 DEF One
            <7>3. Oks(d)' = Oks(d) /\ Copies(appended, d)' = Copies(appended, d)
              BY <3>1 DEF historyKept, Oks
            <7> QED
              BY <5>1, <7>2, <7>3 DEF Vouched
          <6> QED
            BY <6>1, <6>2
        <5> QED
          BY <5>2, <5>3
      <4> QED
        BY <4>3 DEF Counted
    <3> QED
      BY <3>2, <3>3
  <2> QED
    BY <2>5, <2>6 DEF InvNow
<1>6. CASE ReadMore(c, s)
  <2>1. UNCHANGED <<clientVars, typed, answers>> /\ historyKept /\ conn' = [conn EXCEPT ![current] = s] /\ Reading(s, Newest)
    BY <1>4, <1>6 DEF ReadMore, historyVars, historyKept
  <2>2. InStep' /\ Matched' /\ WritingFits' /\ Placed' /\ OthersLeft' /\ conn'[current'] = s
    BY <1>4, <2>1, ReadAnswers
  <2>3. ~Served'
    BY <1>4, <2>2 DEF Served
  <2> QED
    BY <1>1, <1>4, <2>1, <2>2, <2>3, CountedSame DEF InvNow
<1>7. CASE ReadInvalid(c, s)
  <2>1. s.wire = <<>>
    BY <1>7 DEF ReadInvalid
  <2> QED
    BY <1>5, <1>7, <2>1 DEF ReadInvalid
<1>8. CASE HandleGet(c, s)
  BY <1>5, <1>8 DEF HandleGet, historyVars
<1>9. CASE HandleNotLeader(c, s)
  <2>1. leader_[s.server] \in Server \cup {unknown}
    <3>1. s.server \in Server
      <4>1. s.server = conn[c].server
        BY ParsedIs DEF s
      <4>2. conn[c].server # unknown
        BY <1>3 DEF TypeOK
      <4> QED
        BY <1>4, <4>1, <4>2 DEF Session
    <3> QED
      BY <3>1 DEF TypeOK
  <2>2. /\ s.parser.result = "good" /\ conn' = [conn EXCEPT ![c] = Reply(s, "NOT_LEADER", leader_[s.server])]
        /\ UNCHANGED <<clientVars, typed, answers, appended>>
    BY <1>9 DEF HandleNotLeader, historyVars
  <2> QED
    BY <1>5, <2>1, <2>2
<1>10. CASE HandleAppend(c, s)
  <2>1. CASE conn' = [conn EXCEPT ![c] = Reply(s, "INTERNAL_ERROR", unknown)] /\ UNCHANGED appended
    <3>1. s.parser.result = "good" /\ UNCHANGED <<clientVars, typed, answers, appended>>
      BY <1>10, <2>1 DEF HandleAppend
    <3> QED
      BY <1>5, <2>1, <3>1
  <2>2. CASE /\ conn' = [conn EXCEPT ![c] = [s EXCEPT !.pc = "waiting"]]
             /\ appended' = Append(appended, Asked(s.parser))
    <3> DEFINE r == [s EXCEPT !.pc = "waiting"]
               x == Asked(s.parser)
    <3>1. conn' = [conn EXCEPT ![current] = r]
      BY <1>4, <2>2
    <3>2. UNCHANGED <<clientVars, typed, answers>> /\ s.parser.result = "good"
      BY <1>10 DEF HandleAppend
    <3>3. x \in Command /\ Text(x) = Newest /\ x \in Commanded
      <4>1. x \in Command /\ Text(x) = Newest
        BY <1>4, <3>2
      <4>2. x \in Commanded
        BY <1>4 DEF Session, Parsers, Asked, Commanded
      <4> QED
        BY <4>1, <4>2
    <3>4. r.open /\ r.pc = "waiting" /\ Waiting(r, Newest)
      <4>1. r.pc = "waiting" /\ r.open = s.open /\ r.replies = s.replies /\ r.wire = s.wire /\ r.parser = s.parser
        BY <1>4 DEF Session
      <4> HIDE DEF r
      <4> QED
        BY <1>4, <3>2, <4>1 DEF Waiting
    <3> HIDE DEF r, x
    <3>5. InStep' /\ Matched' /\ WritingFits' /\ Placed' /\ OthersLeft' /\ conn'[current'] = r
      BY <1>4, <3>1, <3>2, <3>4, ReadAnswers
    <3>6. Served' /\ (Pending' <=> Pending) /\ Newest' = Newest
      BY <3>2, <3>4, <3>5 DEF Served, Pending, Newest
    <3>7. ASSUME NEW d \in Command PROVE (InLog(d) /\ Vouched(d))'
      <4>1. InLog(d) /\ Vouched(d)
        BY <1>1 DEF Counted
      <4>2. /\ appended \in Seq(Commanded) /\ appended' = Append(appended, x)
            /\ typed' = typed /\ Oks(d)' = Oks(d)
        BY <2>2, <3>2 DEF TypeOK, Oks, x
      <4>3. /\ Copies(appended, d) \in Nat
            /\ x = d => Copies(appended', d) = Copies(appended, d) + 1
            /\ x # d => Copies(appended', d) = Copies(appended, d)
        BY <3>3, <4>2, CopiesAppend
      <4>4. Copies(typed, Text(d)) \in Nat /\ Oks(d) \in Nat
        BY CopiesNat, OksNat DEF TypeOK
      <4>5. Newest = Text(d) <=> x = d
        BY <3>3, TextInjective
      <4>6. One(Pending /\ ~Served /\ Newest = Text(d))' = 0 /\ One(Served /\ Newest = Text(d)) = 0
        BY <1>4, <3>6 DEF One
      <4>7. CASE x = d
        <5>1. One(Pending /\ ~Served /\ Newest = Text(d)) = 1 /\ One(Served /\ Newest = Text(d))' = 1
          BY <1>4, <3>6, <4>5, <4>7 DEF One
        <5> QED
          BY <4>1, <4>2, <4>3, <4>4, <4>6, <4>7, <5>1 DEF InLog, Vouched
      <4>8. CASE x # d
        <5>1. One(Pending /\ ~Served /\ Newest = Text(d)) = 0 /\ One(Served /\ Newest = Text(d))' = 0
          BY <1>4, <3>6, <4>5, <4>8 DEF One
        <5> QED
          BY <4>1, <4>2, <4>3, <4>4, <4>6, <4>8, <5>1 DEF InLog, Vouched
      <4> QED
        BY <4>7, <4>8
    <3>8. Counted'
      BY <3>7 DEF Counted
    <3> QED
      BY <3>5, <3>8 DEF InvNow
  <2> QED
    BY <1>10, <2>1, <2>2 DEF HandleAppend
<1>11. CASE HandleTooLate(c, s)
  BY <1>11 DEF HandleTooLate
<1>12. CASE HandleUnknown(c, s)
  <2>1. Asked(s.parser) \in Command /\ Asked(s.parser).type = "unknown"
    BY <1>4, <1>12 DEF HandleUnknown
  <2> QED
    BY <2>1, CommandAssumption
<1> QED
  BY <1>2, <1>6, <1>7, <1>8, <1>9, <1>10, <1>11, <1>12 DEF s


\* When a reply is under way to the client, it is the only one, and answers the newest line.
LEMMA BatchAnswers ==
  ASSUME TypeOK, InvNow, link = "open", NEW batch \in Batches
  PROVE  /\ conn[current].open /\ Pending /\ posted = <<>> /\ commands = <<>> /\ prev_command = Newest
         /\ Answered(conn[current], Newest)
         /\ batch = <<conn[current].replies[1]>> /\ Rest(batch) = <<>> /\ conn[current].replies[1] \in Replies
<1>1. Placed
  BY DEF InvNow
<1> DEFINE R == conn[current].replies
<1>2. R \in Seq(Replies)
  BY DEF TypeOK, Session
<1>3. PICK k \in 1..Len(R) : batch = SubSeq(R, 1, k)
  BY DEF Batches
<1>4. R # <<>>
  BY <1>2, <1>3
<1>5. /\ conn[current].open /\ Pending /\ posted = <<>> /\ commands = <<>> /\ prev_command = Newest
      /\ Answered(conn[current], Newest)
  BY <1>1, <1>4 DEF Placed, Connected, Fresh, Reading, Waiting
<1>6. Len(R) = 1
  BY <1>5 DEF Answered
<1> HIDE DEF R
<1>7. k = 1 /\ R[1] \in Replies
  BY <1>2, <1>3, <1>6
<1>8. batch = <<R[1]>>
  <2>1. batch = SubSeq(R, 1, 1)
    BY <1>3, <1>7
  <2>2. batch \in Seq(Replies) /\ Len(batch) = 1 /\ batch[1] = R[1]
    BY <1>2, <1>6, <2>1
  <2> QED
    BY <2>2
<1>9. Rest(batch) = <<>>
  <2>1. Len(batch) = 1
    BY <1>8
  <2>2. SubSeq(R, 2, 1) = <<>>
    BY <1>2
  <2>3. Rest(batch) = SubSeq(R, 2, 1)
    BY <1>6, <2>1 DEF Rest, R
  <2> QED
    BY <2>2, <2>3
<1> QED
  BY <1>5, <1>7, <1>8, <1>9 DEF R

LEMMA OnReplyInv ==
  ASSUME TypeOK, InvNow, OnReply
  PROVE  InvNow'
<1>1. InStep /\ Matched /\ WritingFits /\ Placed /\ OthersLeft /\ Counted
  BY DEF InvNow
<1>2. /\ link = "open"
      /\ UNCHANGED <<link, current, posted, commands, writing, prev_command, typed, appended>>
  BY DEF OnReply, clientVars
<1>3. PICK batch \in Batches : /\ answers' = answers \o batch
                               /\ conn' = [conn EXCEPT ![current].replies = Rest(batch)]
  BY DEF OnReply
<1> DEFINE a == conn[current].replies[1]
<1>4. /\ conn[current].open /\ Pending /\ posted = <<>> /\ commands = <<>> /\ prev_command = Newest
      /\ Answered(conn[current], Newest) /\ batch = <<a>> /\ Rest(batch) = <<>> /\ a \in Replies
  BY <1>2, BatchAnswers
<1>5. typed \in Seq(Line) /\ answers \in Seq(Replies) /\ current \in Conn /\ conn[current] \in Session /\ appended \in Seq(Commanded)
  BY DEF TypeOK
<1>6. IsReplyTo(a, Newest)
  BY <1>4 DEF Answered
<1>7. Served <=> a.status = "OK"
  BY <1>4 DEF Served, Answered
<1> DEFINE s == [conn[current] EXCEPT !.replies = <<>>]
<1>8. s.pc = "reading" /\ s.wire = <<>> /\ s.replies = <<>> /\ s.open /\ s.parser = Parser("start", "unknown")
  BY <1>4, <1>5 DEF Session, Answered
<1>9. conn' = [conn EXCEPT ![current] = s]
  BY <1>3, <1>4
<1> HIDE DEF s, a
<1>10. answers' = Append(answers, a)
  BY <1>3, <1>4, <1>5
<1>11. conn'[current] = s /\ \A d \in Conn : d # current => conn'[d] = conn[d]
  BY <1>5, <1>9, SessionPut
<1>12. Fresh(s)
  BY <1>8 DEF Fresh, Types
<1>13. Len(typed) = Len(answers) + 1 /\ Len(answers') = Len(answers) + 1
  BY <1>1, <1>4, <1>5, <1>10 DEF InStep, Pending
<1>14. InStep' /\ ~Pending'
  BY <1>2, <1>5, <1>13 DEF InStep, Pending
<1>15. Matched'
  <2>1. ASSUME NEW i \in DOMAIN answers' PROVE IsReplyTo(answers'[i], typed'[i])
    <3>1. CASE i \in DOMAIN answers
      <4>1. answers'[i] = answers[i]
        BY <1>4, <1>5, <1>10, <3>1
      <4> QED
        BY <1>1, <1>2, <3>1, <4>1 DEF Matched
    <3>2. CASE i \notin DOMAIN answers
      <4>1. i = Len(answers) + 1 /\ answers'[i] = a
        BY <1>4, <1>5, <1>10, <3>2
      <4>2. typed'[i] = Newest
        BY <1>2, <1>13, <4>1 DEF Newest
      <4> QED
        BY <1>6, <4>1, <4>2
    <3> QED
      BY <3>1, <3>2
  <2> QED
    BY <2>1 DEF Matched
<1>16. WritingFits' /\ OthersLeft'
  BY <1>1, <1>2, <1>11 DEF WritingFits, OthersLeft
<1>17. Placed'
  <2>1. /\ link' = "open" /\ conn'[current'].open /\ ~Pending' /\ posted' = <<>> /\ commands' = <<>>
        /\ Fresh(conn[current])'
    BY <1>2, <1>4, <1>8, <1>11, <1>12, <1>14
  <2> QED
    BY <2>1, Zenon DEF Placed, Connected
<1>18. ~Served'
  BY <1>2, <1>8, <1>11 DEF Served
<1>19. Counted'
  <2>1. ASSUME NEW c \in Command PROVE (InLog(c) /\ Vouched(c))'
    <3>1. InLog(c) /\ Vouched(c)
      BY <1>1 DEF Counted
    <3>2. Copies(appended, c) \in Nat /\ Copies(typed, Text(c)) \in Nat /\ Oks(c) \in Nat
      BY <1>5, CopiesNat, OksNat
    <3>3. One(Pending /\ ~Served /\ Newest = Text(c))' = 0 /\ One(Served /\ Newest = Text(c))' = 0
      BY <1>14, <1>18 DEF One
    <3>4. One(Pending /\ ~Served /\ Newest = Text(c)) \in {0, 1} /\ One(Served /\ Newest = Text(c)) \in {0, 1}
      BY DEF One
    <3>5. InLog(c)'
      BY <1>2, <3>1, <3>2, <3>3, <3>4 DEF InLog
    <3>6. Vouched(c)'
      <4>1. CASE a.status = "OK" /\ a.cmd = c
        <5>1. Newest = Text(c)
          BY <1>6, <4>1 DEF IsReplyTo
        <5>2. One(Served /\ Newest = Text(c)) = 1
          BY <1>7, <4>1, <5>1 DEF One
        <5>3. Oks(c)' = Oks(c) + 1
          BY <1>4, <1>10, <4>1, OksAppend
        <5> QED
          BY <1>2, <3>1, <3>2, <3>3, <5>2, <5>3 DEF Vouched
      <4>2. CASE ~(a.status = "OK" /\ a.cmd = c)
        <5>1. Oks(c)' = Oks(c)
          BY <1>4, <1>10, <4>2, OksAppend
        <5> QED
          BY <1>2, <3>1, <3>2, <3>3, <3>4, <5>1 DEF Vouched
      <4> QED
        BY <4>1, <4>2
    <3> QED
      BY <3>5, <3>6
  <2> QED
    BY <2>1 DEF Counted
<1> QED
  BY <1>14, <1>15, <1>16, <1>17, <1>19 DEF InvNow

LEMMA OnRedirectInv ==
  ASSUME TypeOK, InvNow, OnRedirect
  PROVE  InvNow'
<1>1. InStep /\ Matched /\ WritingFits /\ Placed /\ OthersLeft /\ Counted
  BY DEF InvNow
<1>2. /\ link = "open" /\ link' # "open" /\ conn' = Closed /\ writing' = Doomed /\ historyKept
      /\ UNCHANGED <<current, posted, commands, prev_command>>
  BY DEF OnRedirect, historyKept, historyVars
<1>3. PICK batch \in Batches : NamesLeader(batch)
  BY DEF OnRedirect
<1>4. /\ conn[current].open /\ Pending /\ posted = <<>> /\ commands = <<>> /\ prev_command = Newest
      /\ Answered(conn[current], Newest) /\ batch = <<conn[current].replies[1]>>
  BY <1>2, BatchAnswers
<1>5. InStep' /\ Matched' /\ (Pending' <=> Pending) /\ Newest' = Newest
  BY <1>1, <1>2, HistorySame
<1> DEFINE s == [conn[current] EXCEPT !.open = FALSE, !.replies = <<>>]
<1>6. /\ conn' = [conn EXCEPT ![current] = s] /\ s.pc = conn[current].pc
      /\ ~s.open /\ s.replies = <<>> /\ s.wire = conn[current].wire
  BY <1>2, ClosedIs
<1> HIDE DEF s
<1>7. current \in Conn
  BY DEF TypeOK
<1>8. conn'[current] = s /\ \A d \in Conn : d # current => conn'[d] = conn[d]
  BY <1>6, <1>7, SessionPut
<1>9. Left(s)
  BY <1>4, <1>6 DEF Left, Answered
<1>10. OthersLeft'
  BY <1>1, <1>8, <1>9 DEF OthersLeft
<1>11. WritingFits'
  BY <1>1, <1>2, <1>4 DEF WritingFits, Doomed
<1>12. Placed'
  BY <1>2, <1>4, <1>5 DEF Placed, Away
<1>13. Served' <=> Served
  <2>1. ~Served
    <3>1. conn[current].replies[1].status = "NOT_LEADER"
      BY <1>3, <1>4 DEF NamesLeader
    <3> QED
      BY <1>4, <3>1 DEF Served, Answered
  <2>2. ~Served'
    BY <1>2, <1>4, <1>6, <1>8 DEF Served, Answered
  <2> QED
    BY <2>1, <2>2
<1> QED
  BY <1>1, <1>2, <1>5, <1>10, <1>11, <1>12, <1>13, CountedSame DEF InvNow

-----------------------------------------------------------------------------
(***************************************************************************)
(* Theorems.                                                               *)
(***************************************************************************)
LEMMA ConsistentInit == Init => ClientInv
<1> SUFFICES ASSUME Init PROVE InvNow
  BY InvIs
<1>1. /\ typed = <<>> /\ answers = <<>> /\ appended = <<>> /\ conn = [c \in Conn |-> Free] /\ link = "resolving"
      /\ posted = <<>> /\ commands = <<>> /\ writing = "no" /\ prev_command = <<>>
  BY DEF Init
<1>2. TypeOK
  BY TypeInit
<1>3. InStep /\ Matched /\ WritingFits /\ ~Pending
  BY <1>1 DEF InStep, Matched, WritingFits, Pending
<1>4. OthersLeft
  <2>1. Left(Free)
    BY FreeType DEF Left
  <2>2. \A c \in Conn : conn[c] = Free
    BY <1>1
  <2> QED
    BY <2>1, <2>2 DEF OthersLeft
<1>5. Placed
  BY <1>1, <1>3 DEF Placed, Away
<1>6. Counted
  <2>1. ~Served
    BY <1>1, <1>2, <1>4, AwayNotServed
  <2>2. ASSUME NEW c \in Command PROVE InLog(c) /\ Vouched(c)
    <3>1. One(Pending /\ ~Served /\ Newest = Text(c)) = 0 /\ One(Served /\ Newest = Text(c)) = 0
      BY <1>3, <2>1 DEF One
    <3>2. Copies(appended, c) = 0 /\ Copies(typed, Text(c)) = 0 /\ Oks(c) = 0
      <4>1. {i \in DOMAIN <<>> : <<>>[i] = c} = {} /\ {i \in DOMAIN <<>> : <<>>[i] = Text(c)} = {}
        OBVIOUS
      <4>2. {i \in DOMAIN answers : answers[i].status = "OK" /\ answers[i].cmd = c} = {}
        BY <1>1
      <4> QED
        BY <1>1, <4>1, <4>2, FS_EmptySet DEF Copies, Oks
    <3> QED
      BY <3>1, <3>2 DEF InLog, Vouched
  <2> QED
    BY <2>2 DEF Counted
<1> QED
  BY <1>3, <1>4, <1>5, <1>6 DEF InvNow

LEMMA ConsistentNext == TypeOK /\ ClientInv /\ [Next]_vars => ClientInv'
<1> SUFFICES ASSUME TypeOK, ClientInv, [Next]_vars, trouble' = {} PROVE InvNow'
  BY InvIsNext
<1>1. trouble \subseteq trouble'
  <2>1. CASE UNCHANGED vars
    BY <2>1 DEF vars, historyVars
  <2>2. CASE Next
    <3>1. ASSUME NEW c \in Conn, Read(c) PROVE trouble \subseteq trouble'
      BY <3>1 DEF Read, ReadMore, ReadInvalid, HandleGet, HandleNotLeader, HandleAppend, HandleTooLate,
                  HandleUnknown, historyVars
    <3>2. ASSUME NEW c \in Conn, Committed(c) \/ RemoveSession(c) \/ OnConnect(c) \/ Break(c)
          PROVE  trouble \subseteq trouble'
      BY <3>2 DEF Committed, RemoveSession, OnConnect, Break, historyVars
    <3>3. ASSUME NEW l \in Line, TypeLine(l) PROVE trouble \subseteq trouble'
      BY <3>3 DEF TypeLine
    <3>4. ASSUME NEW s \in Server, StepUp(s) \/ StepDown(s) \/ FollowLeader(s) PROVE trouble \subseteq trouble'
      BY <3>4 DEF StepUp, StepDown, FollowLeader, historyVars
    <3>5. ASSUME Eof \/ RunPosted \/ OnWrite \/ OnReply \/ OnRedirect \/ OnResolve \/ OnConnectFails \/ OnWriteFails
          PROVE  trouble \subseteq trouble'
      BY <3>5 DEF Eof, RunPosted, OnWrite, OnReply, OnRedirect, OnResolve, OnConnectFails, OnWriteFails, historyVars
    <3> QED
      BY <2>2, <3>1, <3>2, <3>3, <3>4, <3>5, Zenon DEF Next, ClientStep, SessionStep, RaftStep
  <2> QED
    BY <2>1, <2>2
<1>2. InvNow
  BY <1>1, InvIs
<1>3. CASE UNCHANGED vars
  BY <1>2, <1>3, RaftInv DEF vars, historyVars
<1>4. CASE Next
  <2>1. ASSUME NEW c \in Conn, Read(c) \/ Committed(c) \/ RemoveSession(c) \/ OnConnect(c) PROVE InvNow'
    BY <1>2, <2>1, ReadInv, CommittedInv, RemoveInv, OnConnectInv, Zenon
  <2>2. ASSUME NEW c \in Conn, Break(c) PROVE FALSE
    BY <2>2 DEF Break
  <2>3. ASSUME NEW l \in Line, TypeLine(l) PROVE InvNow'
    BY <1>2, <2>3, TypeLineInv, Zenon
  <2>4. ASSUME NEW s \in Server, StepUp(s) \/ StepDown(s) \/ FollowLeader(s) PROVE InvNow'
    <3>1. UNCHANGED <<conn, clientVars, typed, answers, appended>>
      BY <2>4 DEF StepUp, StepDown, FollowLeader, historyVars
    <3> QED
      BY <1>2, <3>1, RaftInv
  <2>5. ASSUME RunPosted \/ OnWrite \/ OnReply \/ OnRedirect \/ OnResolve \/ OnConnectFails PROVE InvNow'
    BY <1>2, <2>5, RunPostedInv, OnWriteInv, OnReplyInv, OnRedirectInv, NoConnectionInv, Zenon
  <2>6. ASSUME Eof PROVE FALSE
    BY <2>6 DEF Eof
  <2>7. ASSUME OnWriteFails PROVE FALSE
    BY <1>2, <2>7 DEF InvNow, WritingFits, OnWriteFails
  <2> QED
    BY <1>4, <2>1, <2>2, <2>3, <2>4, <2>5, <2>6, <2>7, Zenon DEF Next, ClientStep, SessionStep, RaftStep
<1> QED
  BY <1>3, <1>4

\* For every set of servers, commands and slips, and every bound: as long as the user waits for
\* each answer and nothing breaks, at most one line is under way, and it is in exactly one place
\* (posted, queued, on the wire and in the parser of the one session, waiting in the log, in a reply,
\* or remembered in prev_command while the client goes to another server).
THEOREM ClientConsistent == Spec => []ClientInv
<1>1. Init => TypeOK /\ ClientInv
  BY TypeInit, ConsistentInit
<1>2. (TypeOK /\ ClientInv) /\ [Next]_vars => (TypeOK /\ ClientInv)'
  BY TypeNext, ConsistentNext
<1> QED
  BY <1>1, <1>2, PTL DEF Spec

\* Every answer is the answer to the line at its place, however the lines are cut into reads and
\* through however many redirections (do_parse, on_write of the session, on_read_message).
THEOREM AnswersAreRight == Spec => []AnswersMatch
<1>1. ClientInv => AnswersMatch
  BY DEF ClientInv, AnswersMatch, IsReplyTo
<1> QED
  BY <1>1, ClientConsistent, PTL

\* However often a command is sent again after a redirection, the log has it no more often than it
\* was typed, and has it for every OK to a set or a del (on_connect, handle_command).
THEOREM AppendsOnce == Spec => []AppendedOnce
<1>1. TypeOK /\ ClientInv => AppendedOnce
  <2> SUFFICES ASSUME TypeOK, ClientInv, trouble = {}, NEW c \in Command
               PROVE  /\ Copies(appended, c) <= Copies(typed, Text(c))
                      /\ c.type # "get" => Oks(c) <= Copies(appended, c)
    BY DEF AppendedOnce
  <2>1. InLog(c) /\ Vouched(c)
    BY InvIs DEF InvNow, Counted
  <2>2. Copies(appended, c) \in Nat /\ Copies(typed, Text(c)) \in Nat /\ Oks(c) \in Nat
    BY CopiesNat, OksNat DEF TypeOK
  <2>3. One(Pending /\ ~Served /\ Newest = Text(c)) \in {0, 1} /\ One(Served /\ Newest = Text(c)) \in {0, 1}
    BY DEF One
  <2> QED
    BY <2>1, <2>2, <2>3 DEF InLog, Vouched
<1> QED
  BY <1>1, ClientTypes, ClientConsistent, PTL


=============================================================================
