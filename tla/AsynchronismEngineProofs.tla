---------------------- MODULE AsynchronismEngineProofs ----------------------
(***************************************************************************)
(* For any number of threads and packets of any size: every packet has its *)
(* callback, and the ring of bytes between the threads is a queue of whole *)
(* packets.                                                                *)
(***************************************************************************)
EXTENDS AsynchronismEngine, WellFoundedInduction, SequenceTheorems, TLAPS

\* What is inductive: a callback is taken only where it is known how many there
\* are.
IInv == q.count \in Nat /\ CallbackPerPacket

\* An insertion adds one packet to the count, whether the ring is reallocated,
\* wraps or neither.
LEMMA InsertionCounts ==
  ASSUME NEW p, InsertData(p)
  PROVE  q'.count = q.count + 1
  <1> DEFINE r == RectifyBuffer(q, p.size)
  <1>1. r.count = q.count
    BY DEF RectifyBuffer, Reallocated
  <1> QED
    BY <1>1 DEF InsertData

\* A distillation is made of a ring that holds packets, and takes one.
LEMMA DistillationCounts ==
  ASSUME DistillData
  PROVE  q.count # 0 /\ q'.count = q.count - 1
  BY DEF DistillData

LEMMA InitEstablishes == AsynchInit => IInv
  BY DEF AsynchInit, Init, IInv, CallbackPerPacket

LEMMA NextPreserves == IInv /\ [AsynchNext]_<<vars, asynch_vars>> => IInv'
  <1> SUFFICES ASSUME IInv, [AsynchNext]_<<vars, asynch_vars>>
               PROVE  IInv'
    OBVIOUS
  <1> USE DEF IInv, CallbackPerPacket
  <1>1. ASSUME NEW p \in Packets, OnEvent(p)
        PROVE  IInv'
    BY <1>1 DEF OnEvent, vars
  <1>2. CASE PostAsynchronismData
    <2>1. callbacks' = callbacks + 1 /\ InsertData(shared[1])
      BY <1>2 DEF PostAsynchronismData
    <2>2. q'.count = q.count + 1
      BY <2>1, InsertionCounts
    <2> QED
      BY <2>1, <2>2
  <1>3. CASE RunCallback
    <2>1. callbacks' = callbacks - 1 /\ DistillData
      BY <1>3 DEF RunCallback
    <2>2. q.count # 0 /\ q'.count = q.count - 1
      BY <2>1, DistillationCounts
    <2> QED
      BY <2>1, <2>2
  <1>4. CASE OnAsynchronismEngineData
    BY <1>4 DEF OnAsynchronismEngineData, vars
  <1>5. CASE UNCHANGED <<vars, asynch_vars>>
    BY <1>5 DEF vars, asynch_vars
  <1> QED
    BY <1>1, <1>2, <1>3, <1>4, <1>5 DEF AsynchNext

LEMMA Invariance == AsynchSpec => []IInv
  BY InitEstablishes, NextPreserves, PTL DEF AsynchSpec

\* There is a callback for each packet in the ring, whatever the threads and
\* sizes are: no packet waits for another to come, and no callback hands the sink
\* a buffer it did not fill.
THEOREM EachHasItsCallback == AsynchSpec => []CallbackPerPacket
  BY Invariance, PTL DEF IInv

-----------------------------------------------------------------------------
(* What the proofs about the ring need to know of numbers and sequences    *)

\* In place of an induction: a property that fails somewhere fails first
\* somewhere.
LEMMA LeastNatural ==
  ASSUME NEW S \in SUBSET Nat, S # {}
  PROVE  \E x \in S : \A y \in S : x <= y
<1> DEFINE R == {ss \in Nat \X Nat : ss[1] < ss[2]}
<1>1. IsWellFoundedOn(R, Nat)
  BY NatLessThanWellFounded DEF OpToRel
<1>2. \A x, y \in Nat : y < x => <<y, x>> \in R
  OBVIOUS
<1> HIDE DEF R
<1>3. PICK x \in S : \A y \in S : ~ (<<y, x>> \in R)
  BY <1>1, WFMin
<1>4. ASSUME NEW y \in S PROVE x <= y
  <2>1. x \in Nat /\ y \in Nat
    OBVIOUS
  <2>2. ~(y < x)
    BY <1>2, <1>3, <2>1
  <2> QED BY <2>1, <2>2
<1> QED BY <1>4

LEMMA TailOfConcat ==
  ASSUME NEW S, NEW x \in Seq(S), NEW y \in Seq(S), x # <<>>
  PROVE  Tail(x \o y) = Tail(x) \o y
<1>1. PICK N \in Nat, M \in Nat : Len(x) = N + 1 /\ Len(y) = M
  <2>1. Len(x) \in Nat \ {0} /\ Len(y) \in Nat
    BY EmptySeq, LenProperties
  <2>2. Len(x) - 1 \in Nat /\ Len(x) = (Len(x) - 1) + 1
    BY <2>1
  <2> QED BY <2>1, <2>2
<1>2. PICK a : a = Tail(x)
  OBVIOUS
<1>3. a \in Seq(S) /\ Len(a) = N /\ \A k \in 1 .. N : a[k] = x[k + 1]
  <2>1. Len(x) - 1 = N
    BY <1>1
  <2> QED BY <1>2, <2>1, HeadTailProperties
<1>4. PICK f : f = x \o y
  OBVIOUS
<1>5. /\ f \in Seq(S) /\ Len(f) = N + 1 + M
      /\ \A k \in 1 .. N + 1 + M : f[k] = IF k <= N + 1 THEN x[k] ELSE y[k - (N + 1)]
  <2>1. PICK X \in Nat, Y \in Nat : X = Len(x) /\ Y = Len(y)
    BY <1>1
  <2>2. /\ x \o y \in Seq(S) /\ Len(x \o y) = X + Y
        /\ \A k \in 1 .. X + Y : (x \o y)[k] = IF k <= X THEN x[k] ELSE y[k - X]
    BY <2>1, ConcatProperties
  <2>3. X = N + 1 /\ Y = M
    BY <1>1, <2>1
  <2> QED BY <1>4, <2>2, <2>3
<1>6. PICK h : h = a \o y
  OBVIOUS
<1>7. /\ h \in Seq(S) /\ Len(h) = N + M
      /\ \A k \in 1 .. N + M : h[k] = IF k <= N THEN a[k] ELSE y[k - N]
  BY <1>1, <1>3, <1>6, ConcatProperties
<1>8. PICK g : g = Tail(f)
  OBVIOUS
<1>9. g \in Seq(S) /\ Len(g) = N + M /\ \A k \in 1 .. N + M : g[k] = f[k + 1]
  <2>1. Len(f) # 0
    BY <1>5
  <2>2. f # <<>>
    BY <2>1, EmptySeq
  <2>3. Len(f) - 1 = N + M
    BY <1>5
  <2> QED BY <1>5, <1>8, <2>2, <2>3, HeadTailProperties
<1>10. ASSUME NEW k \in 1 .. N + M PROVE g[k] = h[k]
  <2>1. PICK l \in 1 .. N + 1 + M : l = k + 1
    BY k + 1 \in 1 .. N + 1 + M
  <2>2. g[k] = IF l <= N + 1 THEN x[l] ELSE y[l - (N + 1)]
    BY <1>5, <1>9, <2>1
  <2>3. (l <= N + 1 <=> k <= N) /\ l - (N + 1) = k - N
    BY <2>1
  <2>4. CASE k <= N
    <3>1. a[k] = x[l]
      BY <1>3, <2>1, <2>4
    <3> QED BY <1>7, <2>2, <2>3, <2>4, <3>1
  <2>5. CASE ~(k <= N)
    BY <1>7, <2>2, <2>3, <2>5
  <2> QED BY <2>4, <2>5
<1>11. g = h
  BY <1>7, <1>9, <1>10, SeqEqual
<1> QED BY <1>2, <1>4, <1>6, <1>8, <1>11

LEMMA PartIs ==
  ASSUME NEW S, NEW b \in Seq(S), NEW o \in Nat, NEW n \in Nat, o + n <= Len(b)
  PROVE  /\ SubSeq(b, o + 1, o + n) \in Seq(S) /\ Len(SubSeq(b, o + 1, o + n)) = n
         /\ \A k \in 1 .. n : SubSeq(b, o + 1, o + n)[k] = b[o + k]
<1>1. \A k \in o + 1 .. o + n : b[k] \in S
  BY ElementOfSeq, LenProperties
<1>2. SubSeq(b, o + 1, o + n) \in Seq(S)
  BY <1>1, SubSeqProperties
<1>3. Len(SubSeq(b, o + 1, o + n)) = n
  BY <1>1, SubSeqProperties
<1>4. ASSUME NEW k \in 1 .. n PROVE SubSeq(b, o + 1, o + n)[k] = b[o + k]
  BY SubSeqProperties
<1> QED BY <1>2, <1>3, <1>4

-----------------------------------------------------------------------------
(* Packets in memory                                                       *)

\* The packet x lies in b from f to e, counted from o.
PacketAt(b, o, f, e, x) ==
  e = f + x.size /\ \A k \in 1 .. x.size : b[o + f + k] = <<x, k - 1>>

\* n cells of b, from position o on, hold the packets w one after the other, of
\* which the i-th starts starts[i] cells in.
Layout(b, o, n, w, starts) ==
  /\ starts \in [1 .. Len(w) + 1 -> Nat]
  /\ starts[1] = 0 /\ starts[Len(w) + 1] = n
  /\ \A i \in 1 .. Len(w) : PacketAt(b, o, starts[i], starts[i + 1], w[i])
  /\ \A i, j \in 1 .. Len(w) + 1 : i <= j => j - i <= starts[j] - starts[i]

Whole(b, o, n, w) == w \in Seq(Packets) /\ \E starts : Layout(b, o, n, w, starts)

\* Packets start in order, and apart.
LEMMA Spread ==
  ASSUME NEW b, NEW o, NEW n, NEW w, NEW s, Layout(b, o, n, w, s),
         NEW N \in Nat, N = Len(w), NEW i \in 1 .. N + 1, NEW j \in 1 .. N + 1
  PROVE  /\ s[i] \in Nat /\ s[j] \in Nat
         /\ i <= j => j - i <= s[j] - s[i]
<1>1. s \in [1 .. N + 1 -> Nat]
  BY DEF Layout
<1>2. \A x, y \in 1 .. N + 1 : x <= y => y - x <= s[y] - s[x]
  BY DEF Layout
<1> QED BY <1>1, <1>2

\* Each of them lies whole within the n cells.
LEMMA PacketLaid ==
  ASSUME NEW b, NEW o, NEW n, NEW w \in Seq(Packets), NEW s, Layout(b, o, n, w, s),
         NEW i \in 1 .. Len(w)
  PROVE  /\ w[i] \in Packets /\ w[i].size \in Nat \ {0}
         /\ PacketAt(b, o, s[i], s[i + 1], w[i]) /\ s[i] \in Nat /\ s[i + 1] \in Nat
         /\ s[i + 1] <= n
<1>1. w[i] \in Packets /\ w[i].size \in Nat \ {0}
  BY QueueAssumption
<1> DEFINE N == Len(w)
<1>0. N \in Nat
  OBVIOUS
<1>2. PacketAt(b, o, s[i], s[i + 1], w[i]) /\ s[N + 1] = n
  BY DEF Layout
<1> HIDE DEF N
<1>9. N = Len(w) /\ i \in 1 .. N
  BY DEF N
<1>3. PICK j : j = i + 1
  OBVIOUS
<1>4. PICK l : l = N + 1
  OBVIOUS
<1>5. i \in 1 .. N + 1 /\ j \in 1 .. N + 1 /\ l \in 1 .. N + 1 /\ j <= l
  BY <1>0, <1>3, <1>4, <1>9
<1>6. s[i] \in Nat /\ s[j] \in Nat /\ s[l] \in Nat /\ l - j <= s[l] - s[j]
  BY <1>0, <1>5, <1>9, Spread
<1>7. l - j \in Nat
  BY <1>0, <1>3, <1>4, <1>9
<1>8. s[j] <= s[l]
  BY <1>6, <1>7
<1> QED BY <1>1, <1>2, <1>3, <1>4, <1>6, <1>8 DEF N

\* n cells of d, from r on, are those of b from o on.
Copies(d, r, b, o, n) == \A k \in 1 .. n : d[r + k] = b[o + k]

\* A packet within n cells is copied with them.
LEMMA Copied ==
  ASSUME NEW b, NEW o \in Nat, NEW n \in Nat, NEW d, NEW r \in Nat,
         Copies(d, r, b, o, n), NEW x, x.size \in Nat, NEW f \in Nat, NEW g \in Nat, g <= n,
         PacketAt(b, o, f, g, x)
  PROVE  PacketAt(d, r, f, g, x)
<1>1. g = f + x.size
  BY DEF PacketAt
<1>2. ASSUME NEW k \in 1 .. x.size PROVE d[r + f + k] = <<x, k - 1>>
  <2>1. f + k \in 1 .. n
    BY <1>1
  <2>2. d[r + (f + k)] = b[o + (f + k)]
    BY <2>1 DEF Copies
  <2>3. b[o + f + k] = <<x, k - 1>>
    BY DEF PacketAt
  <2>4. r + (f + k) = r + f + k /\ o + (f + k) = o + f + k
    OBVIOUS
  <2> QED BY <2>2, <2>3, <2>4
<1> QED BY <1>1, <1>2 DEF PacketAt

\* No cells hold no packets.
LEMMA NothingIsWhole ==
  ASSUME NEW b, NEW o
  PROVE  Whole(b, o, 0, <<>>)
<1> DEFINE starts == [i \in 1 .. 1 |-> 0]
<1>1. Layout(b, o, 0, <<>>, starts)
  BY DEF Layout
<1> QED BY <1>1 DEF Whole

\* Two stretches of packets, copied one after the other, are one.
LEMMA Joined ==
  ASSUME NEW b, NEW o \in Nat, NEW n \in Nat, NEW u, Whole(b, o, n, u),
         NEW c, NEW p \in Nat, NEW m \in Nat, NEW v, Whole(c, p, m, v),
         NEW d, NEW r \in Nat,
         Copies(d, r, b, o, n), Copies(d, r + n, c, p, m)
  PROVE  Whole(d, r, n + m, u \o v)
<1>1. PICK s : Layout(b, o, n, u, s)
  BY DEF Whole
<1>2. PICK t : Layout(c, p, m, v, t)
  BY DEF Whole
<1>3. PICK N \in Nat, M \in Nat : N = Len(u) /\ M = Len(v)
  BY DEF Whole
<1>4. u \in Seq(Packets) /\ v \in Seq(Packets)
  BY DEF Whole
<1> DEFINE w == u \o v
           e == [i \in 1 .. N + M + 1 |-> IF i <= N + 1 THEN s[i] ELSE n + t[i - N]]
<1>5. /\ w \in Seq(Packets) /\ Len(w) = N + M
      /\ \A i \in 1 .. N : w[i] = u[i]
      /\ \A i \in 1 .. M : w[N + i] = v[i]
  BY <1>3, <1>4
<1> HIDE DEF w
<1>6. /\ s \in [1 .. N + 1 -> Nat] /\ s[1] = 0 /\ s[N + 1] = n
      /\ t \in [1 .. M + 1 -> Nat] /\ t[1] = 0 /\ t[M + 1] = m
  BY <1>1, <1>2, <1>3 DEF Layout
<1>7. e \in [1 .. N + M + 1 -> Nat]
  BY <1>3, <1>6
<1>8. /\ \A i \in 1 .. N + 1 : e[i] = s[i]
      /\ \A i \in 1 .. M + 1 : e[N + i] = n + t[i]
  <2>1. ASSUME NEW i \in 1 .. N + 1 PROVE e[i] = s[i]
    <3>1. i \in 1 .. N + M + 1 /\ i <= N + 1
      BY <1>3
    <3> QED BY <3>1
  <2>2. ASSUME NEW i \in 1 .. M + 1 PROVE e[N + i] = n + t[i]
    <3>1. PICK j \in 1 .. N + M + 1 : j = N + i
      BY N + i \in 1 .. N + M + 1
    <3>2. CASE i = 1
      <4>1. e[j] = s[N + 1] /\ n + t[i] = n
        BY <1>6, <3>1, <3>2
      <4> QED BY <1>6, <3>1, <4>1
    <3>3. CASE i > 1
      <4>1. ~(j <= N + 1) /\ j - N = i
        BY <3>1, <3>3
      <4> QED BY <3>1, <4>1
    <3> QED BY <3>2, <3>3
  <2> QED BY <2>1, <2>2
<1> HIDE DEF e
<1>9. ASSUME NEW i \in 1 .. N + M
      PROVE  PacketAt(d, r, e[i], e[i + 1], w[i])
  <2>1. CASE i \in 1 .. N
    <3>1. i \in 1 .. N + 1 /\ i + 1 \in 1 .. N + 1 /\ i \in 1 .. Len(u)
      BY <1>3, <2>1
    <3>2. w[i] = u[i] /\ e[i] = s[i] /\ e[i + 1] = s[i + 1]
      BY <1>5, <1>8, <2>1, <3>1
    <3>3. PICK x, f, g : x = u[i] /\ f = s[i] /\ g = s[i + 1]
      OBVIOUS
    <3>4. /\ x.size \in Nat \ {0} /\ PacketAt(b, o, f, g, x)
          /\ f \in Nat /\ g \in Nat /\ g <= n
      BY <1>1, <1>4, <3>1, <3>3, PacketLaid
    <3>5. PacketAt(d, r, f, g, x)
      BY <3>4, Copied
    <3> QED BY <3>2, <3>3, <3>5
  <2>2. CASE i \in N + 1 .. N + M
    <3>1. PICK j \in 1 .. M : i = N + j
      <4>1. i - N \in 1 .. M /\ i = N + (i - N)
        BY <1>3, <2>2
      <4> QED BY <4>1
    <3>2. /\ j \in 1 .. M + 1 /\ j + 1 \in 1 .. M + 1 /\ j \in 1 .. Len(v)
          /\ i + 1 = N + (j + 1)
      <4>1. j \in 1 .. M + 1 /\ j + 1 \in 1 .. M + 1
        BY <1>3
      <4>2. i + 1 = N + (j + 1)
        BY <1>3, <3>1
      <4> QED BY <1>3, <4>1, <4>2
    <3>3. w[i] = v[j] /\ e[i] = n + t[j] /\ e[i + 1] = n + t[j + 1]
      BY <1>5, <1>8, <3>1, <3>2
    <3>4. PICK x, f, g : x = v[j] /\ f = t[j] /\ g = t[j + 1]
      OBVIOUS
    <3>5. /\ x.size \in Nat \ {0} /\ PacketAt(c, p, f, g, x)
          /\ f \in Nat /\ g \in Nat /\ g <= m
      BY <1>2, <1>4, <3>2, <3>4, PacketLaid
    <3>6. PacketAt(d, r + n, f, g, x)
      <4>1. PICK h \in Nat : h = r + n
        OBVIOUS
      <4>2. Copies(d, h, c, p, m)
        BY <4>1
      <4>3. x.size \in Nat
        BY <3>5
      <4> QED BY <3>5, <4>1, <4>2, <4>3, Copied
    <3>7. PacketAt(d, r, n + f, n + g, x)
      <4>1. ASSUME NEW k \in 1 .. x.size PROVE d[r + (n + f) + k] = <<x, k - 1>>
        <5>1. d[r + n + f + k] = <<x, k - 1>>
          BY <3>6 DEF PacketAt
        <5>2. r + n + f + k = r + (n + f) + k
          BY <3>5
        <5> QED BY <5>1, <5>2
      <4>2. n + g = n + f + x.size
        BY <3>5 DEF PacketAt
      <4> QED BY <4>1, <4>2 DEF PacketAt
    <3> QED BY <3>3, <3>4, <3>7
  <2> QED BY <1>3, <2>1, <2>2
<1>10. ASSUME NEW i \in 1 .. N + M + 1, NEW j \in 1 .. N + M + 1, i <= j
       PROVE  j - i <= e[j] - e[i]
  <2>1. \A x, y \in 1 .. N + 1 : x <= y => y - x <= s[y] - s[x]
    BY <1>1, <1>3 DEF Layout
  <2>2. \A x, y \in 1 .. M + 1 : x <= y => y - x <= t[y] - t[x]
    BY <1>2, <1>3 DEF Layout
  <2>3. CASE j <= N + 1
    <3>1. i \in 1 .. N + 1 /\ j \in 1 .. N + 1
      BY <1>3, <1>10, <2>3
    <3> QED BY <1>8, <1>10, <2>1, <3>1
  <2>4. CASE i > N + 1
    <3>1. PICK x \in 1 .. M + 1, y \in 1 .. M + 1 : i = N + x /\ j = N + y
      <4>1. i - N \in 1 .. M + 1 /\ j - N \in 1 .. M + 1
            /\ i = N + (i - N) /\ j = N + (j - N)
        BY <1>3, <1>10, <2>4
      <4> QED BY <4>1
    <3>2. e[i] = n + t[x] /\ e[j] = n + t[y]
      BY <1>8, <3>1
    <3>3. x <= y /\ j - i = y - x
      BY <1>3, <1>10, <3>1
    <3>4. y - x <= t[y] - t[x]
      BY <2>2, <3>3
    <3>5. t[x] \in Nat /\ t[y] \in Nat
      BY <1>6, <3>1
    <3> HIDE DEF e
    <3> QED BY <3>2, <3>3, <3>4, <3>5
  <2>5. CASE i <= N + 1 /\ j > N + 1
    <3>1. PICK y \in 1 .. M + 1 : j = N + y
      <4>1. j - N \in 1 .. M + 1 /\ j = N + (j - N)
        BY <1>3, <1>10, <2>5
      <4> QED BY <4>1
    <3>2. i \in 1 .. N + 1 /\ N + 1 \in 1 .. N + 1 /\ 1 \in 1 .. M + 1 /\ 1 <= y
      BY <1>3, <1>10, <2>5
    <3>3. N + 1 - i <= s[N + 1] - s[i] /\ y - 1 <= t[y] - t[1]
      BY <2>1, <2>2, <2>5, <3>2
    <3>4. e[i] = s[i] /\ e[j] = n + t[y] /\ s[i] \in Nat /\ t[y] \in Nat
      BY <1>6, <1>8, <3>1, <3>2
    <3>5. s[N + 1] = n /\ t[1] = 0
      BY <1>6
    <3>6. i \in Int /\ y \in Int /\ j - i = (N + 1 - i) + (y - 1)
      BY <1>3, <3>1
    <3>7. j - i = (N + 1 - i) + (y - 1) /\ N + 1 - i <= n - s[i] /\ y - 1 <= t[y]
      BY <3>3, <3>4, <3>5, <3>6
    <3>8. N + 1 - i \in Int /\ y - 1 \in Int
      BY <1>3, <3>6
    <3>9. j - i <= (n - s[i]) + t[y]
      BY <3>4, <3>7, <3>8
    <3>10. e[j] - e[i] = (n - s[i]) + t[y]
      BY <3>4
    <3> QED BY <3>9, <3>10
  <2>6. i \in Int /\ j \in Int
    BY <1>3
  <2> QED BY <1>3, <1>10, <2>3, <2>4, <2>5, <2>6
<1>11. e[1] = 0 /\ e[N + M + 1] = n + m
  <2>1. 1 \in 1 .. N + 1 /\ M + 1 \in 1 .. M + 1 /\ N + M + 1 = N + (M + 1)
    BY <1>3
  <2> QED BY <1>6, <1>8, <2>1
<1>12. Layout(d, r, n + m, w, e)
  BY <1>5, <1>7, <1>9, <1>10, <1>11 DEF Layout
<1> QED BY <1>5, <1>12 DEF Whole, w

\* The bytes of a packet are the packet.
LEMMA OnePacket ==
  ASSUME NEW p \in Packets, NEW b, NEW o \in Nat,
         \A k \in 1 .. p.size : b[o + k] = <<p, k - 1>>
  PROVE  Whole(b, o, p.size, <<p>>)
<1>1. PICK n \in Nat \ {0} : n = p.size
  BY QueueAssumption
<1> DEFINE w == <<p>>
           e == [i \in 1 .. 2 |-> IF i = 1 THEN 0 ELSE n]
<1>2. w \in Seq(Packets) /\ Len(w) = 1 /\ w[1] = p
  OBVIOUS
<1> HIDE DEF w
<1>3. e \in [1 .. Len(w) + 1 -> Nat] /\ e[1] = 0 /\ e[Len(w) + 1] = n
  BY <1>1, <1>2
<1>4. ASSUME NEW i \in 1 .. Len(w) PROVE PacketAt(b, o, e[i], e[i + 1], w[i])
  <2>1. i = 1 /\ e[i] = 0 /\ e[i + 1] = n /\ w[i] = p
    BY <1>1, <1>2
  <2> HIDE DEF e
  <2>2. ASSUME NEW k \in 1 .. p.size PROVE b[o + 0 + k] = <<p, k - 1>>
    <3>1. o + 0 + k = o + k
      BY <1>1
    <3> QED BY <3>1
  <2>3. n = 0 + p.size
    BY <1>1
  <2>4. PacketAt(b, o, 0, n, p)
    BY <2>2, <2>3 DEF PacketAt
  <2> QED BY <2>1, <2>4
<1>5. ASSUME NEW i \in 1 .. Len(w) + 1, NEW j \in 1 .. Len(w) + 1, i <= j
      PROVE  j - i <= e[j] - e[i]
  <2>1. i \in 1 .. 2 /\ j \in 1 .. 2
    BY <1>2
  <2>2. CASE i = j
    BY <1>1, <2>1, <2>2
  <2>3. CASE i = 1 /\ j = 2
    BY <1>1, <2>3
  <2> QED BY <1>5, <2>1, <2>2, <2>3
<1>6. Layout(b, o, n, w, e)
  BY <1>3, <1>4, <1>5 DEF Layout
<1>7. Whole(b, o, n, w)
  BY <1>2, <1>6 DEF Whole
<1> QED BY <1>1, <1>7 DEF w

\* There are at least as many cells as packets, and some packet if some cell.
LEMMA Amount ==
  ASSUME NEW b, NEW o, NEW n \in Nat, NEW w, Whole(b, o, n, w)
  PROVE  /\ w \in Seq(Packets) /\ Len(w) \in Nat /\ Len(w) <= n
         /\ w = <<>> <=> n = 0
<1>1. w \in Seq(Packets) /\ Len(w) \in Nat
  BY DEF Whole
<1>2. PICK s : Layout(b, o, n, w, s)
  BY DEF Whole
<1>3. PICK N \in Nat : N = Len(w)
  BY <1>1
<1>4. PICK i \in 1 .. N + 1, j \in 1 .. N + 1 : i = 1 /\ j = N + 1
  <2>1. 1 \in 1 .. N + 1 /\ N + 1 \in 1 .. N + 1
    OBVIOUS
  <2> QED BY <2>1
<1>5. s[i] \in Nat /\ s[j] \in Nat /\ j - i <= s[j] - s[i]
  <2>1. i <= j
    BY <1>4
  <2> QED BY <1>2, <1>3, <2>1, Spread
<1>6. s[i] = 0 /\ s[j] = n
  BY <1>2, <1>3, <1>4 DEF Layout
<1>7. N <= n
  BY <1>4, <1>5, <1>6
<1>8. ASSUME N = 0 PROVE n = 0
  BY <1>4, <1>6, <1>8
<1>9. w = <<>> <=> N = 0
  BY <1>1, <1>3
<1> QED BY <1>1, <1>3, <1>7, <1>8, <1>9

\* The first packet is at the front, and the others behind it.
LEMMA FirstOut ==
  ASSUME NEW b, NEW o \in Nat, NEW n \in Nat, NEW w, Whole(b, o, n, w), w # <<>>,
         NEW p, p = Head(w)
  PROVE  /\ p \in Packets /\ p.size \in Nat \ {0} /\ p.size <= n
         /\ \A k \in 1 .. p.size : b[o + k] = <<p, k - 1>>
         /\ Whole(b, o + p.size, n - p.size, Tail(w))
<1>1. w \in Seq(Packets)
  BY DEF Whole
<1>2. PICK s : Layout(b, o, n, w, s)
  BY DEF Whole
<1>3. PICK N \in Nat : Len(w) = N + 1
  BY <1>1
<1> DEFINE v == Tail(w)
<1>4. /\ v \in Seq(Packets) /\ Len(v) = N
      /\ \A i \in 1 .. N : v[i] = w[i + 1]
  BY <1>1, <1>3
<1> HIDE DEF v
<1>5. s \in [1 .. N + 2 -> Nat] /\ s[1] = 0 /\ s[N + 2] = n
  <2>1. Len(w) + 1 = N + 2
    BY <1>3
  <2> QED BY <1>2, <2>1 DEF Layout
<1>6. PICK l : l = p.size
  OBVIOUS
<1>7. /\ p \in Packets /\ l \in Nat \ {0} /\ l <= n
      /\ \A k \in 1 .. l : b[o + k] = <<p, k - 1>>
      /\ s[2] = l
  <2>1. PICK i \in 1 .. Len(w) : i = 1
    BY <1>3
  <2>2. p = w[i]
    BY <1>1, <2>1
  <2>3. PICK f, e : f = s[i] /\ e = s[i + 1]
    OBVIOUS
  <2>4. f = 0 /\ e = s[2]
    BY <1>5, <2>1, <2>3
  <2>5. p \in Packets /\ p.size \in Nat \ {0} /\ PacketAt(b, o, f, e, p) /\ e <= n
    BY <1>1, <1>2, <2>2, <2>3, PacketLaid
  <2>6. e = p.size
    BY <2>4, <2>5 DEF PacketAt
  <2>7. ASSUME NEW k \in 1 .. l PROVE b[o + k] = <<p, k - 1>>
    <3>1. b[o + 0 + k] = <<p, k - 1>>
      BY <1>6, <2>4, <2>5 DEF PacketAt
    <3>2. o + 0 + k = o + k
      BY <1>6, <2>5
    <3> QED BY <3>1, <3>2
  <2> QED BY <1>6, <2>4, <2>5, <2>6, <2>7
<1> DEFINE e == [i \in 1 .. N + 1 |-> s[i + 1] - l]
<1>8. ASSUME NEW i \in 1 .. N + 1 PROVE e[i] = s[i + 1] - l /\ e[i] \in Nat /\ s[i + 1] \in Nat
  <2>1. PICK x \in 1 .. N + 2, y \in 1 .. N + 2 : x = 2 /\ y = i + 1
    <3>1. 2 \in 1 .. N + 2 /\ i + 1 \in 1 .. N + 2
      OBVIOUS
    <3> QED BY <3>1
  <2>2. \A a, c \in 1 .. N + 2 : a <= c => c - a <= s[c] - s[a]
    <3>1. Len(w) + 1 = N + 2
      BY <1>3
    <3> QED BY <1>2, <3>1 DEF Layout
  <2>3. y - x <= s[y] - s[x] /\ y - x \in Nat
    BY <2>1, <2>2
  <2>4. s[y] \in Nat /\ s[x] = l
    BY <1>5, <1>7, <2>1
  <2>5. s[y] - l \in Nat
    BY <1>7, <2>3, <2>4
  <2> QED BY <2>1, <2>4, <2>5
<1>9. e \in [1 .. N + 1 -> Nat]
  BY <1>8
<1> HIDE DEF e
<1>10. e[1] = 0 /\ e[N + 1] = n - l
  <2>1. PICK i \in 1 .. N + 1, j \in 1 .. N + 1 : i = 1 /\ j = N + 1
    BY 1 \in 1 .. N + 1, N + 1 \in 1 .. N + 1
  <2>2. e[i] = s[i + 1] - l /\ e[j] = s[j + 1] - l
    BY <1>8
  <2>3. i + 1 = 2 /\ j + 1 = N + 2
    BY <2>1
  <2> QED BY <1>5, <1>7, <2>1, <2>2, <2>3
<1>11. ASSUME NEW i \in 1 .. N PROVE PacketAt(b, o + l, e[i], e[i + 1], v[i])
  <2>1. /\ i + 1 \in 1 .. N + 1 /\ i \in 1 .. N + 1 /\ i + 1 \in 1 .. Len(w)
    BY <1>3
  <2>2. PICK x, f, g : x = w[i + 1] /\ f = s[i + 1] /\ g = s[i + 1 + 1]
    OBVIOUS
  <2>3. x.size \in Nat \ {0} /\ PacketAt(b, o, f, g, x) /\ f \in Nat /\ g \in Nat
    BY <1>1, <1>2, <2>1, <2>2, PacketLaid
  <2>4. e[i] = f - l /\ e[i + 1] = g - l /\ v[i] = x
    BY <1>4, <1>8, <2>1, <2>2
  <2>5. ASSUME NEW k \in 1 .. x.size PROVE b[o + l + (f - l) + k] = <<x, k - 1>>
    <3>1. b[o + f + k] = <<x, k - 1>>
      BY <2>3 DEF PacketAt
    <3>2. o + l + (f - l) + k = o + f + k
      BY <1>7, <2>3
    <3> QED BY <3>1, <3>2
  <2>6. g - l = f - l + x.size
    BY <1>7, <2>3 DEF PacketAt
  <2> QED BY <2>4, <2>5, <2>6 DEF PacketAt
<1>12. ASSUME NEW i \in 1 .. N + 1, NEW j \in 1 .. N + 1, i <= j
       PROVE  j - i <= e[j] - e[i]
  <2>1. PICK x \in 1 .. N + 2, y \in 1 .. N + 2 : x = i + 1 /\ y = j + 1
    BY i + 1 \in 1 .. N + 2, j + 1 \in 1 .. N + 2
  <2>2. \A a, c \in 1 .. N + 2 : a <= c => c - a <= s[c] - s[a]
    <3>1. Len(w) + 1 = N + 2
      BY <1>3
    <3> QED BY <1>2, <3>1 DEF Layout
  <2>3. y - x <= s[y] - s[x]
    <3>1. x <= y
      BY <1>12, <2>1
    <3> QED BY <2>2, <3>1
  <2>4. e[i] = s[x] - l /\ e[j] = s[y] - l /\ s[x] \in Nat /\ s[y] \in Nat
    BY <1>8, <2>1
  <2>5. e[j] - e[i] = s[y] - s[x] /\ j - i = y - x
    BY <1>7, <2>1, <2>4
  <2> QED BY <2>3, <2>5
<1>13. Layout(b, o + l, n - l, v, e)
  BY <1>4, <1>9, <1>10, <1>11, <1>12 DEF Layout
<1>14. Whole(b, o + l, n - l, v)
  BY <1>4, <1>13 DEF Whole
<1> QED BY <1>6, <1>7, <1>14 DEF v

-----------------------------------------------------------------------------
(* Reading packets by their heads                                          *)

\* i of the packets have begun within the first n cells.
Begun(st, N, n, i) ==
  /\ i \in 0 .. N
  /\ \/ n = 0 /\ i = 0
     \/ n > 0 /\ i > 0 /\ st[i] < n /\ n <= st[i + 1]

LEMMA SomeHaveBegun ==
  ASSUME NEW b, NEW L \in Nat, NEW w, NEW st, Layout(b, 0, L, w, st),
         NEW N \in Nat, N = Len(w), NEW n \in 0 .. L
  PROVE  \E i : Begun(st, N, n, i)
<1>1. CASE n = 0
  BY <1>1 DEF Begun
<1>2. CASE n > 0
  <2>1. st \in [1 .. N + 1 -> Nat] /\ st[1] = 0 /\ st[N + 1] = L
    BY DEF Layout
  <2> DEFINE S == {j \in 1 .. N + 1 : n <= st[j]}
  <2>2. N + 1 \in S /\ S \in SUBSET Nat
    BY <2>1
  <2>3. PICK j \in S : \A k \in S : j <= k
    BY <2>2, LeastNatural
  <2>4. j \in 1 .. N + 1 /\ n <= st[j]
    OBVIOUS
  <2>5. j # 1
    BY <1>2, <2>1, <2>4
  <2>6. PICK i \in 1 .. N : j = i + 1
    <3>1. j - 1 \in 1 .. N /\ j = (j - 1) + 1
      BY <2>4, <2>5
    <3> QED BY <3>1
  <2>7. i \in 1 .. N + 1 /\ i < j
    BY <2>6
  <2>8. i \notin S
    <3>1. ~(j <= i)
      BY <2>6
    <3> HIDE DEF S
    <3> QED BY <2>3, <3>1
  <2>9. st[i] < n
    <3>1. st[i] \in Nat
      BY <2>1, <2>7
    <3> QED BY <2>7, <2>8, <3>1
  <2>10. Begun(st, N, n, i)
    BY <1>2, <2>4, <2>6, <2>9 DEF Begun
  <2> QED BY <2>10
<1> QED BY <1>1, <1>2

LEMMA OneHasBegun ==
  ASSUME NEW b, NEW L \in Nat, NEW w, NEW st, Layout(b, 0, L, w, st),
         NEW N \in Nat, N = Len(w), NEW n \in 0 .. L,
         NEW i, Begun(st, N, n, i), NEW j, Begun(st, N, n, j)
  PROVE  i = j
<1>1. ASSUME NEW x, NEW y, Begun(st, N, n, x), Begun(st, N, n, y), n > 0
      PROVE  ~(x < y)
  <2>1. /\ x \in 1 .. N /\ y \in 1 .. N /\ n <= st[x + 1] /\ st[y] < n
    BY <1>1 DEF Begun
  <2>2. SUFFICES ASSUME x < y PROVE FALSE
    OBVIOUS
  <2>3. PICK z \in 1 .. N + 1 : z = x + 1
    BY <2>1, x + 1 \in 1 .. N + 1
  <2>4. y \in 1 .. N + 1 /\ z <= y
    BY <2>1, <2>2, <2>3
  <2>5. st[z] \in Nat /\ st[y] \in Nat /\ y - z <= st[y] - st[z]
    BY <2>4, Spread
  <2>6. y - z \in Nat
    BY <2>1, <2>4
  <2>7. st[z] <= st[y]
    BY <2>5, <2>6
  <2>8. n <= st[z]
    BY <2>1, <2>3
  <2> QED BY <2>1, <2>5, <2>7, <2>8
<1>2. i \in Int /\ j \in Int
  BY DEF Begun
<1>3. CASE n > 0
  <2>1. ~(i < j)
    BY <1>1, <1>3
  <2>2. ~(j < i)
    BY <1>1, <1>3
  <2> QED BY <1>2, <2>1, <2>2
<1>4. CASE n = 0
  BY <1>4 DEF Begun
<1> QED BY <1>3, <1>4

\* A cell is a head exactly if a packet begins in it.
LEMMA HeadOrNot ==
  ASSUME NEW b, NEW L \in Nat, NEW w \in Seq(Packets), NEW st, Layout(b, 0, L, w, st),
         NEW N \in Nat, N = Len(w), NEW n \in 1 .. L, NEW i, Begun(st, N, n, i)
  PROVE  /\ IsHead(b[n]) => b[n][1] = w[i] /\ i - 1 \in 0 .. N /\ Begun(st, N, n - 1, i - 1)
         /\ ~IsHead(b[n]) => Begun(st, N, n - 1, i)
<1>1. i \in 1 .. N /\ st[i] < n /\ n <= st[i + 1]
  BY DEF Begun
<1>2. PICK x, f, g : x = w[i] /\ f = st[i] /\ g = st[i + 1]
  OBVIOUS
<1>3. /\ x \in Packets /\ x.size \in Nat \ {0} /\ PacketAt(b, 0, f, g, x)
      /\ f \in Nat /\ g \in Nat
  BY <1>1, <1>2, PacketLaid
<1>4. PICK k \in Nat : n = f + k
  <2>1. n - f \in Nat /\ n = f + (n - f)
    BY <1>1, <1>2, <1>3
  <2> QED BY <2>1
<1>5. k \in 1 .. x.size
  <2>1. g = f + x.size
    BY <1>3 DEF PacketAt
  <2> QED BY <1>1, <1>2, <1>3, <1>4, <2>1
<1>6. b[n] = <<x, k - 1>>
  <2>1. b[0 + f + k] = <<x, k - 1>>
    BY <1>3, <1>5 DEF PacketAt
  <2>2. 0 + f + k = n
    BY <1>3, <1>4
  <2> QED BY <2>1, <2>2
<1>7. IsHead(b[n]) <=> k = 1
  <2>1. ASSUME k = 1 PROVE IsHead(b[n])
    <3>1. b[n] = <<x, 0>>
      BY <1>6, <2>1
    <3> QED BY <1>3, <3>1 DEF IsHead
  <2>2. ASSUME IsHead(b[n]) PROVE k = 1
    <3>1. PICK p \in Packets : b[n] = <<p, 0>>
      BY <2>2 DEF IsHead
    <3>2. k - 1 = 0
      BY <1>6, <3>1
    <3> QED BY <3>2
  <2> QED BY <2>1, <2>2
<1>8. ASSUME k = 1 PROVE b[n][1] = w[i] /\ i - 1 \in 0 .. N /\ Begun(st, N, n - 1, i - 1)
  <2>1. b[n][1] = w[i]
    BY <1>2, <1>6
  <2>2. n - 1 = st[i]
    BY <1>2, <1>3, <1>4, <1>8
  <2>3. CASE i = 1
    <3>1. n - 1 = 0
      BY <2>2, <2>3 DEF Layout
    <3> QED BY <1>1, <2>1, <2>3, <3>1 DEF Begun
  <2>4. CASE i > 1
    <3>1. PICK j \in 1 .. N : j = i - 1 /\ i = j + 1
      <4>1. i - 1 \in 1 .. N /\ i = (i - 1) + 1
        BY <1>1, <2>4
      <4> QED BY <4>1
    <3>2. j \in 1 .. Len(w)
      BY <3>1
    <3>3. PICK y, h : y = w[j] /\ h = st[j]
      OBVIOUS
    <3>4. /\ y.size \in Nat \ {0} /\ PacketAt(b, 0, h, st[j + 1], y) /\ h \in Nat
      BY <3>2, <3>3, PacketLaid
    <3>5. st[j + 1] = h + y.size
      BY <3>4 DEF PacketAt
    <3>6. st[j] < n - 1 /\ n - 1 = st[j + 1] /\ n - 1 > 0
      <4>1. n - 1 = h + y.size
        BY <2>2, <3>1, <3>5
      <4> QED BY <2>2, <3>1, <3>3, <3>4, <4>1
    <3>7. Begun(st, N, n - 1, j)
      BY <3>1, <3>6 DEF Begun
    <3> QED BY <1>1, <2>1, <3>1, <3>7
  <2> QED BY <1>1, <2>3, <2>4
<1>9. ASSUME k # 1 PROVE Begun(st, N, n - 1, i)
  <2>1. st[i] < n - 1 /\ n - 1 <= st[i + 1] /\ n - 1 > 0
    <3>1. k > 1
      BY <1>3, <1>4, <1>5, <1>9
    <3>2. f < n - 1 /\ n - 1 > 0
      BY <1>3, <1>4, <3>1
    <3>3. n - 1 <= g
      BY <1>1, <1>2, <1>3
    <3> QED BY <1>2, <3>2, <3>3
  <2> QED BY <1>1, <2>1 DEF Begun
<1> QED BY <1>7, <1>8, <1>9

\* The first i packets.
FirstOf(w, i) == [j \in 1 .. i |-> w[j]]

LEMMA FirstOfIs ==
  ASSUME NEW S, NEW w \in Seq(S)
  PROVE  /\ FirstOf(w, 0) = <<>>
         /\ FirstOf(w, Len(w)) = w
         /\ \A i \in 0 .. Len(w) : FirstOf(w, i) \in Seq(S)
         /\ \A i \in 1 .. Len(w) : FirstOf(w, i) = Append(FirstOf(w, i - 1), w[i])
<1>1. FirstOf(w, 0) = <<>>
  BY DEF FirstOf
<1>2. FirstOf(w, Len(w)) = w
  BY DEF FirstOf
<1>3. ASSUME NEW i \in 0 .. Len(w) PROVE FirstOf(w, i) \in Seq(S) /\ Len(FirstOf(w, i)) = i
  <2>1. i \in Nat /\ \A j \in 1 .. i : w[j] \in S
    BY LenProperties, ElementOfSeq
  <2>2. FirstOf(w, i) \in [1 .. i -> S]
    BY <2>1 DEF FirstOf
  <2> QED BY <2>1, <2>2, LenProperties
<1>4. ASSUME NEW i \in 1 .. Len(w) PROVE FirstOf(w, i) = Append(FirstOf(w, i - 1), w[i])
  <2>1. PICK h : h = FirstOf(w, i - 1)
    OBVIOUS
  <2>2. i - 1 \in 0 .. Len(w) /\ w[i] \in S
    BY ElementOfSeq
  <2>3. h \in Seq(S) /\ Len(h) = i - 1
    BY <1>3, <2>1, <2>2
  <2>4. \A j \in 1 .. i - 1 : h[j] = w[j]
    BY <2>1 DEF FirstOf
  <2>5. Append(h, w[i]) \in Seq(S) /\ Len(Append(h, w[i])) = i
    BY <2>2, <2>3
  <2>6. \A j \in 1 .. i : Append(h, w[i])[j] = w[j]
    BY <2>2, <2>3, <2>4
  <2>7. Append(h, w[i]) = [j \in 1 .. i |-> Append(h, w[i])[j]]
    BY <2>5
  <2>8. Append(h, w[i]) = [j \in 1 .. i |-> w[j]]
    BY <2>6, <2>7
  <2> QED BY <2>1, <2>8 DEF FirstOf
<1> QED BY <1>1, <1>2, <1>3, <1>4

\* A stretch of whole packets is read as these packets.
LEMMA ReadBack ==
  ASSUME NEW b, NEW L \in Nat, L = Len(b), NEW w, Whole(b, 0, L, w)
  PROVE  PacketsIn(b) = w
<1>1. w \in Seq(Packets)
  BY DEF Whole
<1>2. PICK st : Layout(b, 0, L, w, st)
  BY DEF Whole
<1>3. PICK N \in Nat : N = Len(w)
  BY <1>1
<1> DEFINE Eq(g, n) == IF n = 0 THEN <<>>
                       ELSE IF IsHead(b[n]) THEN Append(g[n - 1], b[n][1]) ELSE g[n - 1]
           G == [n \in 0 .. L |-> FirstOf(w, CHOOSE i : Begun(st, N, n, i))]
           H == CHOOSE g : g = [n \in 0 .. L |-> Eq(g, n)]
<1>4. ASSUME NEW n \in 0 .. L, NEW i, Begun(st, N, n, i)
      PROVE  G[n] = FirstOf(w, i)
  <2>1. PICK j : j = CHOOSE x : Begun(st, N, n, x)
    OBVIOUS
  <2>2. Begun(st, N, n, j)
    BY <1>4, <2>1
  <2>3. i = j
    BY <1>2, <1>3, <1>4, <2>2, OneHasBegun
  <2>4. G[n] = FirstOf(w, j)
    BY <2>1
  <2> QED BY <2>3, <2>4
<1>5. \A n \in 0 .. L : \E i : Begun(st, N, n, i)
  BY <1>2, <1>3, SomeHaveBegun
<1>6. DOMAIN G = 0 .. L /\ G = [n \in 0 .. L |-> G[n]]
  OBVIOUS
<1> HIDE DEF G
<1>7. G[0] = <<>>
  <2>1. Begun(st, N, 0, 0)
    BY <1>3 DEF Begun
  <2>2. PICK z \in 0 .. L : z = 0
    OBVIOUS
  <2>3. G[z] = FirstOf(w, z)
    BY <1>4, <2>1, <2>2
  <2> QED BY <1>1, <2>2, <2>3, FirstOfIs
<1>8. ASSUME NEW n \in 1 .. L
      PROVE  G[n] = IF IsHead(b[n]) THEN Append(G[n - 1], b[n][1]) ELSE G[n - 1]
  <2>1. PICK m \in 0 .. L : m = n - 1
    BY n - 1 \in 0 .. L
  <2>2. n \in 0 .. L /\ n # 0
    OBVIOUS
  <2>3. PICK i : Begun(st, N, n, i)
    BY <1>5, <2>2
  <2>4. G[n] = FirstOf(w, i)
    BY <1>4, <2>2, <2>3
  <2>5. i \in 1 .. Len(w)
    BY <1>3, <2>2, <2>3 DEF Begun
  <2>6. CASE IsHead(b[n])
    <3>1. PICK j : j = i - 1
      OBVIOUS
    <3>2. b[n][1] = w[i] /\ Begun(st, N, m, j)
      BY <1>1, <1>2, <1>3, <2>1, <2>3, <2>6, <3>1, HeadOrNot
    <3>3. G[m] = FirstOf(w, j)
      BY <1>4, <3>2
    <3>4. FirstOf(w, i) = Append(FirstOf(w, j), w[i])
      BY <1>1, <2>5, <3>1, FirstOfIs
    <3> QED BY <2>1, <2>4, <2>6, <3>2, <3>3, <3>4
  <2>7. CASE ~IsHead(b[n])
    <3>1. Begun(st, N, m, i)
      BY <1>1, <1>2, <1>3, <2>1, <2>3, <2>7, HeadOrNot
    <3>2. G[m] = FirstOf(w, i)
      BY <1>4, <3>1
    <3> QED BY <2>1, <2>4, <2>7, <3>2
  <2> QED BY <2>6, <2>7
<1>9. G = [n \in 0 .. L |-> Eq(G, n)]
  <2>1. ASSUME NEW n \in 0 .. L PROVE G[n] = Eq(G, n)
    <3>1. CASE n = 0
      BY <1>7, <3>1
    <3>2. CASE n # 0
      <4>1. n \in 1 .. L
        BY <3>2
      <4> QED BY <1>8, <3>2, <4>1
    <3> QED BY <3>1, <3>2
  <2> HIDE DEF Eq
  <2> QED BY <1>6, <2>1
<1>10. H = [n \in 0 .. L |-> Eq(H, n)]
  <2> HIDE DEF Eq
  <2>1. \E g : g = [n \in 0 .. L |-> Eq(g, n)]
    BY <1>9
  <2> QED BY <2>1
<1>11. PacketsIn(b) = H[L]
  BY DEF PacketsIn
<1> HIDE DEF H
<1>12. \A n \in 0 .. L : H[n] = G[n]
  <2> DEFINE S == {n \in 0 .. L : H[n] # G[n]}
  <2>1. SUFFICES ASSUME S # {} PROVE FALSE
    OBVIOUS
  <2>2. S \in SUBSET Nat
    OBVIOUS
  <2>3. PICK n \in S : \A k \in S : n <= k
    BY <2>1, <2>2, LeastNatural
  <2>4. n \in 0 .. L /\ H[n] # G[n]
    OBVIOUS
  <2>5. H[n] = Eq(H, n) /\ G[n] = Eq(G, n)
    <3> HIDE DEF Eq
    <3> QED BY <1>9, <1>10, <2>4
  <2>6. n # 0
    BY <2>4, <2>5
  <2>7. n - 1 \in 0 .. L /\ ~(n <= n - 1)
    BY <2>4, <2>6
  <2>8. n - 1 \notin S
    <3> HIDE DEF S
    <3> QED BY <2>3, <2>7
  <2>9. H[n - 1] = G[n - 1]
    BY <2>7, <2>8
  <2> QED BY <2>4, <2>5, <2>9
<1>13. L \in 0 .. L
  OBVIOUS
<1>14. G[L] = w
  <2>1. PICK i : Begun(st, N, L, i)
    BY <1>5, <1>13
  <2>2. G[L] = FirstOf(w, i)
    BY <1>4, <1>13, <2>1
  <2>3. i = N
    <3>1. Begun(st, N, L, N)
      <4>1. CASE L = 0
        <5>1. N = 0
          BY <1>3, <4>1, Amount
        <5> QED BY <4>1, <5>1 DEF Begun
      <4>2. CASE L > 0
        <5>1. N > 0
          <6>1. w # <<>>
            BY <4>2, Amount
          <6> QED BY <1>1, <1>3, <6>1
        <5>2. N \in 1 .. Len(w)
          BY <1>3, <5>1
        <5>3. PICK x, f, g : x = w[N] /\ f = st[N] /\ g = st[N + 1]
          OBVIOUS
        <5>4. /\ x.size \in Nat \ {0} /\ PacketAt(b, 0, f, g, x) /\ f \in Nat
          BY <1>1, <1>2, <5>2, <5>3, PacketLaid
        <5>5. g = f + x.size
          BY <5>4 DEF PacketAt
        <5>6. g = L
          BY <1>2, <1>3, <5>3 DEF Layout
        <5>7. st[N] < L /\ L <= st[N + 1]
          BY <5>3, <5>4, <5>5, <5>6
        <5> QED BY <1>3, <4>2, <5>1, <5>7 DEF Begun
      <4> QED BY <4>1, <4>2
    <3> QED BY <1>2, <1>3, <1>13, <2>1, <3>1, OneHasBegun
  <2> QED BY <1>1, <1>3, <2>2, <2>3, FirstOfIs
<1> QED BY <1>11, <1>12, <1>13, <1>14

-----------------------------------------------------------------------------
(* The ring                                                                *)

Fields == [insert : Nat, terminal : Nat, query : Nat, size : Nat, count : Nat,
           buffer : Seq(Cells)]

\* What is read next, u, lies between query and terminal; v, the packets that
\* wrapped, from the front on up to insert. All other data would go behind u.
RingIs(r, u, v) ==
  LET partTwo == r.size - (r.terminal - r.query)
  IN  /\ r \in Fields
      /\ r.query <= r.terminal /\ r.terminal <= Len(r.buffer)
      /\ Whole(r.buffer, r.query, r.terminal - r.query, u)
      /\ partTwo \in Nat /\ Whole(r.buffer, 0, partTwo, v)
      /\ r.count = Len(u) + Len(v)
      /\ \/ r.insert = r.terminal /\ partTwo = 0
         \/ r.insert = partTwo /\ partTwo <= r.query

\* need bytes more fit where the insertion would put them.
HasRoom(r, need) ==
  \/ r.insert = r.terminal /\ r.size = r.terminal - r.query /\ r.insert + need <= Len(r.buffer)
  \/ /\ r.insert = r.size - (r.terminal - r.query)
     /\ r.insert + need <= r.query

LEMMA RingParts ==
  ASSUME NEW r, NEW u, NEW v, RingIs(r, u, v)
  PROVE  /\ r.terminal - r.query \in Nat
         /\ r.size - (r.terminal - r.query) \in Nat
<1>1. r.terminal \in Nat /\ r.query \in Nat /\ r.query <= r.terminal
  BY DEF RingIs, Fields
<1> QED BY <1>1 DEF RingIs

\* What a reallocation copies is all there is, in its order.
LEMMA StoredIs ==
  ASSUME NEW r, NEW u, NEW v, RingIs(r, u, v)
  PROVE  /\ Stored(r) \in Seq(Cells) /\ Len(Stored(r)) = r.size
         /\ Whole(Stored(r), 0, r.size, u \o v)
<1>1. PICK b \in Seq(Cells), t \in Nat, y \in Nat, z \in Nat, i \in Nat :
           b = r.buffer /\ t = r.terminal /\ y = r.query /\ z = r.size /\ i = r.insert
  BY DEF RingIs, Fields
<1>2. PICK n \in Nat, m \in Nat : n = t - y /\ m = z - n
  <2>1. t - y \in Nat /\ z - (t - y) \in Nat
    BY <1>1, RingParts
  <2> QED BY <2>1
<1>3. /\ y <= t /\ t <= Len(b) /\ Whole(b, y, n, u) /\ Whole(b, 0, m, v)
      /\ (i = t /\ m = 0) \/ (i = m /\ m <= y)
  BY <1>1, <1>2 DEF RingIs
<1> DEFINE one == SubSeq(b, y + 1, y + n)
           two == SubSeq(b, 0 + 1, 0 + i)
<1>4. Stored(r) = one \o (IF m > 0 THEN two ELSE <<>>)
  <2>1. r.terminal - r.query = n /\ (r.size > n <=> m > 0)
    BY <1>1, <1>2
  <2> QED BY <1>1, <2>1 DEF Stored, Part
<1>5. /\ one \in Seq(Cells) /\ Len(one) = n
      /\ \A k \in 1 .. n : one[k] = b[y + k]
  <2>1. y + n <= Len(b)
    BY <1>2, <1>3
  <2> QED BY <2>1, PartIs
<1> HIDE DEF one
<1>6. CASE m > 0
  <2>1. i = m /\ 0 + m <= Len(b)
    BY <1>1, <1>3, <1>6, LenProperties
  <2>2. PICK o \in Nat : o = 0
    OBVIOUS
  <2>3. /\ two \in Seq(Cells) /\ Len(two) = m
        /\ \A k \in 1 .. m : two[k] = b[0 + k]
    <3>1. /\ SubSeq(b, o + 1, o + m) \in Seq(Cells) /\ Len(SubSeq(b, o + 1, o + m)) = m
          /\ \A k \in 1 .. m : SubSeq(b, o + 1, o + m)[k] = b[o + k]
      BY <2>1, <2>2, PartIs
    <3> QED BY <2>1, <2>2, <3>1
  <2> HIDE DEF two
  <2>4. PICK d : d = one \o two
    OBVIOUS
  <2>5. /\ d \in Seq(Cells) /\ Len(d) = n + m
        /\ \A k \in 1 .. n : d[k] = one[k]
        /\ \A k \in 1 .. m : d[n + k] = two[k]
    <3>1. d \in Seq(Cells) /\ Len(d) = n + m
      BY <1>5, <2>3, <2>4, ConcatProperties
    <3>2. \A k \in 1 .. n + m : d[k] = IF k <= n THEN one[k] ELSE two[k - n]
      <4>1. Len(one) = n /\ Len(two) = m
        BY <1>5, <2>3
      <4>2. \A k \in 1 .. Len(one) + Len(two) :
              (one \o two)[k] = IF k <= Len(one) THEN one[k] ELSE two[k - Len(one)]
        BY <1>5, <2>3, ConcatProperties
      <4> QED BY <2>4, <4>1, <4>2
    <3>3. ASSUME NEW k \in 1 .. n PROVE d[k] = one[k]
      <4>1. k \in 1 .. n + m /\ k <= n
        OBVIOUS
      <4> QED BY <3>2, <4>1
    <3>4. ASSUME NEW k \in 1 .. m PROVE d[n + k] = two[k]
      <4>1. n + k \in 1 .. n + m /\ ~(n + k <= n) /\ n + k - n = k
        OBVIOUS
      <4> QED BY <3>2, <4>1
    <3> QED BY <3>1, <3>3, <3>4
  <2>6. Copies(d, o, b, y, n) /\ Copies(d, o + n, b, o, m)
    BY <1>5, <2>2, <2>3, <2>5 DEF Copies
  <2>7. Whole(d, o, n + m, u \o v)
    <3>1. Whole(b, o, m, v)
      BY <1>3, <2>2
    <3> QED BY <1>3, <2>6, <3>1, Joined
  <2>8. n + m = r.size
    BY <1>1, <1>2
  <2> QED BY <1>4, <1>6, <2>2, <2>4, <2>5, <2>7, <2>8
<1>7. CASE m = 0
  <2>1. v = <<>> /\ n = r.size
    BY <1>1, <1>2, <1>3, <1>7, Amount
  <2>0. PICK o \in Nat : o = 0
    OBVIOUS
  <2>2. PICK d : d = one /\ o = 0
    BY <2>0
  <2>3. one \o <<>> = d
    BY <1>5, <2>2, ConcatEmptySeq
  <2>4. Stored(r) = d
    BY <1>4, <1>7, <2>3
  <2>5. Copies(d, o, b, y, n) /\ Copies(d, o + n, b, o, m)
    BY <1>5, <1>7, <2>2 DEF Copies
  <2>6. Whole(d, o, n + m, u \o v)
    <3>1. Whole(b, o, m, v)
      BY <1>3, <2>2
    <3> QED BY <1>3, <2>5, <3>1, Joined
  <2>7. n + m = r.size
    BY <1>7, <2>1
  <2>8. u \o v = u \o <<>>
    BY <2>1
  <2> QED BY <1>5, <2>1, <2>2, <2>4, <2>6, <2>7, <2>8
<1> QED BY <1>6, <1>7

\* A reallocation lays the data out from the front on, and leaves room.
LEMMA ReallocationIs ==
  ASSUME NEW r, NEW u, NEW v, RingIs(r, u, v), NEW need \in Nat \ {0}
  PROVE  LET s == Reallocated(r, need)
         IN  RingIs(s, u \o v, <<>>) /\ HasRoom(s, need)
<1>1. PICK b \in Seq(Cells), t \in Nat, y \in Nat, z \in Nat, i \in Nat, c \in Nat :
        /\ b = r.buffer /\ t = r.terminal /\ y = r.query /\ z = r.size /\ i = r.insert
        /\ c = r.count
  BY DEF RingIs, Fields
<1>2. r \in Fields
  BY DEF RingIs
<1>3. PICK data : data = Stored(r)
  OBVIOUS
<1>4. data \in Seq(Cells) /\ Len(data) = z /\ Whole(data, 0, z, u \o v)
  BY <1>1, <1>3, StoredIs
<1>5. PICK L \in Nat : L = Len(b)
  OBVIOUS
<1>6. PICK more \in Nat : more = Larger(L \div 2, need * Growth)
  <2>1. L \div 2 \in Nat /\ need * Growth \in Nat
    BY QueueAssumption
  <2> QED BY <2>1 DEF Larger
<1>7. need <= more
  <2>1. PICK g \in Nat : Growth = g + 1
    <3>1. Growth - 1 \in Nat /\ Growth = (Growth - 1) + 1
      BY QueueAssumption
    <3> QED BY <3>1
  <2>2. need * Growth = need * g + need /\ need * g \in Nat
    BY <2>1
  <2>3. L \div 2 \in Nat /\ need <= need * Growth /\ need * Growth \in Nat
    BY <2>2
  <2> QED BY <1>6, <2>3 DEF Larger
<1>8. PICK size \in Nat : size = L + more
  OBVIOUS
<1>9. z <= L
  <2>1. /\ y <= t /\ t <= L /\ z - (t - y) \in Nat
        /\ (i = t /\ z - (t - y) = 0) \/ (i = z - (t - y) /\ z - (t - y) <= y)
    BY <1>1, <1>5 DEF RingIs
  <2> QED BY <2>1
<1> DEFINE nb == [k \in 1 .. size |-> IF k <= Len(data) THEN data[k] ELSE Blank]
           s == [r EXCEPT !.query = 0, !.insert = r.size, !.terminal = r.size, !.buffer = nb]
<1>10. s = Reallocated(r, need)
  BY <1>1, <1>3, <1>5, <1>6, <1>8 DEF Reallocated, BufferSize
<1>11. nb \in Seq(Cells) /\ Len(nb) = size /\ \A k \in 1 .. z : nb[k] = data[k]
  <2>1. Blank \in Cells
    BY DEF Cells
  <2>2. \A k \in 1 .. z : data[k] \in Cells
    BY <1>4, ElementOfSeq
  <2>3. nb \in [1 .. size -> Cells]
    BY <1>4, <2>1, <2>2
  <2>4. nb \in Seq(Cells) /\ Len(nb) = size
    BY <2>3, LenProperties
  <2>5. \A k \in 1 .. z : nb[k] = data[k]
    BY <1>4, <1>8, <1>9
  <2> QED BY <2>4, <2>5
<1> HIDE DEF nb
<1>12. /\ s.query = 0 /\ s.insert = z /\ s.terminal = z /\ s.buffer = nb /\ s.size = z
       /\ s.count = c
  BY <1>1, <1>2 DEF Fields
<1>13. s \in Fields
  BY <1>1, <1>2, <1>11 DEF Fields
<1> HIDE DEF s
<1>14. Whole(nb, 0, z, u \o v)
  <2>1. PICK o \in Nat : o = 0
    OBVIOUS
  <2>2. Copies(nb, o, data, o, z)
    BY <1>4, <1>11, <2>1 DEF Copies
  <2>3. Whole(data, o, z, u \o v) /\ Whole(nb, o, o, <<>>) /\ Copies(nb, o + z, nb, o, o)
    BY <1>4, <2>1, NothingIsWhole DEF Copies
  <2>4. Whole(nb, o, z + o, (u \o v) \o <<>>)
    BY <2>2, <2>3, Joined
  <2>5. (u \o v) \o <<>> = u \o v
    <3>1. u \o v \in Seq(Packets)
      BY <1>4 DEF Whole
    <3> QED BY <3>1, ConcatEmptySeq
  <2> QED BY <2>1, <2>4, <2>5
<1>15. c = Len(u \o v) + Len(<<>>)
  <2>1. c = Len(u) + Len(v) /\ u \in Seq(Packets) /\ v \in Seq(Packets)
    BY <1>1 DEF RingIs, Whole
  <2>2. Len(u \o v) = Len(u) + Len(v)
    BY <2>1
  <2> QED BY <2>1, <2>2
<1>16. RingIs(s, u \o v, <<>>)
  <2>1. s.size - (s.terminal - s.query) = 0 /\ s.terminal - s.query = z
    BY <1>12
  <2>2. s.query <= s.terminal /\ s.terminal <= Len(s.buffer)
    BY <1>8, <1>9, <1>11, <1>12
  <2>3. Whole(s.buffer, 0, 0, <<>>)
    BY NothingIsWhole
  <2> QED BY <1>12, <1>13, <1>14, <1>15, <2>1, <2>2, <2>3 DEF RingIs
<1>17. HasRoom(s, need)
  <2>1. s.insert + need <= Len(s.buffer)
    BY <1>7, <1>8, <1>9, <1>11, <1>12
  <2>2. s.size = s.terminal - s.query
    BY <1>12
  <2> QED BY <1>12, <2>1, <2>2 DEF HasRoom
<1> QED BY <1>10, <1>16, <1>17

\* Whether the insertion stays where it is, goes to the front or reallocates,
\* the packets remain and there is room.
LEMMA RectifiedIs ==
  ASSUME NEW r, NEW u, NEW v, RingIs(r, u, v), NEW need \in Nat \ {0}
  PROVE  \E x, y : /\ RingIs(RectifyBuffer(r, need), x, y) /\ x \o y = u \o v
                   /\ HasRoom(RectifyBuffer(r, need), need)
<1>1. PICK b \in Seq(Cells), t \in Nat, y \in Nat, z \in Nat, i \in Nat, c \in Nat :
        /\ b = r.buffer /\ t = r.terminal /\ y = r.query /\ z = r.size /\ i = r.insert
        /\ c = r.count
  BY DEF RingIs, Fields
<1>2. r \in Fields /\ u \in Seq(Packets) /\ v \in Seq(Packets)
  BY DEF RingIs, Whole
<1>3. PICK L \in Nat : L = Len(b)
  OBVIOUS
<1>4. PICK n \in Nat, m \in Nat : n = t - y /\ m = z - n
  <2>1. t - y \in Nat /\ z - (t - y) \in Nat
    BY <1>1, RingParts
  <2> QED BY <2>1
<1>5. /\ y <= t /\ t <= L /\ Whole(b, y, n, u) /\ Whole(b, 0, m, v) /\ c = Len(u) + Len(v)
      /\ (i = t /\ m = 0) \/ (i = m /\ m <= y)
  BY <1>1, <1>3, <1>4 DEF RingIs
<1>6. /\ Len(u) \in Nat /\ Len(u) <= n /\ (u = <<>> <=> n = 0)
      /\ Len(v) \in Nat /\ Len(v) <= m /\ (v = <<>> <=> m = 0)
  BY <1>5, Amount
<1>7. Len(u) = 0 <=> u = <<>>
  BY <1>2
<1>8. Len(v) = 0 <=> v = <<>>
  BY <1>2
<1> DEFINE atEnd == r.insert = r.terminal /\ r.insert + need > BufferSize(r)
           front == atEnd /\ r.query >= need
           stuck == front /\ r.query = r.terminal /\ r.count > 0
           s == [r EXCEPT !.insert = IF front THEN 0 ELSE @,
                          !.query = IF stuck THEN 0 ELSE @]
           catchesUp == s.insert + need > s.query
           alloc == \/ r.size + need > BufferSize(r)
                    \/ atEnd /\ ~front
                    \/ stuck
                    \/ s.insert < s.terminal /\ catchesUp
                    \/ catchesUp /\ s.query >= s.insert /\ s.size > 0
<1>9. RectifyBuffer(r, need) = IF alloc THEN Reallocated(s, need) ELSE s
  BY DEF RectifyBuffer
<1>10. /\ atEnd <=> i = t /\ i + need > L
       /\ front <=> atEnd /\ y >= need
       /\ stuck <=> front /\ y = t /\ c > 0
  BY <1>1, <1>3 DEF BufferSize
<1>11. /\ s.insert = (IF front THEN 0 ELSE i) /\ s.query = (IF stuck THEN 0 ELSE y)
       /\ s.terminal = t /\ s.size = z /\ s.count = c /\ s.buffer = b
  <2> HIDE DEF front, stuck
  <2> QED BY <1>1, <1>2 DEF Fields
<1>12. s \in Fields
  <2> HIDE DEF front, stuck
  <2> QED BY <1>1, <1>2 DEF Fields
<1>13. ~stuck /\ ~front => s = r
  <2> HIDE DEF front, stuck
  <2> QED BY <1>1, <1>2 DEF Fields
<1>14. /\ catchesUp <=> s.insert + need > s.query
       /\ alloc <=> \/ z + need > L
                    \/ atEnd /\ ~front
                    \/ stuck
                    \/ s.insert < t /\ catchesUp
                    \/ catchesUp /\ s.query >= s.insert /\ z > 0
  <2>1. r.size = z /\ BufferSize(r) = L
    BY <1>1, <1>3 DEF BufferSize
  <2> HIDE DEF s
  <2> QED BY <1>11, <2>1
<1> HIDE DEF atEnd, front, stuck, catchesUp, alloc, s
<1>15. \E x, w : RingIs(s, x, w) /\ x \o w = u \o v /\ (alloc \/ HasRoom(s, need))
  <2>1. CASE stuck
    <3>1. /\ u = <<>> /\ m = t /\ n = 0 /\ m = z /\ y = t
      <4>1. i = t /\ y = t /\ c > 0
        BY <1>10, <2>1
      <4>2. n = 0
        BY <1>4, <4>1
      <4>3. Len(v) > 0
        BY <1>5, <1>6, <1>7, <4>1, <4>2
      <4>4. m # 0
        BY <1>6, <1>8, <4>3
      <4> QED BY <1>4, <1>5, <1>6, <4>1, <4>2, <4>4
    <3>2. s.insert = 0 /\ s.query = 0
      BY <1>10, <1>11, <2>1
    <3>3. s.terminal - s.query = m /\ s.size - (s.terminal - s.query) = 0
      BY <1>11, <3>1, <3>2
    <3>4. c = Len(v) + Len(<<>>)
      BY <1>5, <1>6, <1>7, <3>1
    <3>5. Whole(b, 0, 0, <<>>)
      BY NothingIsWhole
    <3>6. RingIs(s, v, <<>>)
      <4>1. 0 <= t /\ t <= Len(b) /\ 0 <= 0
        BY <1>3, <1>5
      <4> QED BY <1>5, <1>11, <1>12, <3>2, <3>3, <3>4, <3>5, <4>1 DEF RingIs
    <3>7. v \o <<>> = u \o v
      BY <1>2, <3>1, ConcatEmptySeq
    <3> QED BY <1>14, <2>1, <3>6, <3>7
  <2>2. CASE front /\ ~stuck
    <3>1. i = t /\ i + need > L /\ y >= need /\ ~(y = t /\ c > 0)
      BY <1>10, <2>2
    <3>2. m = 0
      <4>1. SUFFICES ASSUME m # 0 PROVE FALSE
        OBVIOUS
      <4>2. y = t
        BY <1>5, <3>1, <4>1
      <4>3. Len(v) # 0
        BY <1>6, <1>8, <4>1
      <4>4. c > 0
        BY <1>5, <1>6, <4>3
      <4> QED BY <3>1, <4>2, <4>4
    <3>3. s.insert = 0 /\ s.query = y
      BY <1>11, <2>2
    <3>4. s.terminal - s.query = n /\ s.size - (s.terminal - s.query) = m
      BY <1>4, <1>11, <3>3
    <3>5. RingIs(s, u, v)
      <4>1. y <= t /\ t <= Len(b) /\ m <= y
        BY <1>3, <1>5, <3>2
      <4> QED BY <1>5, <1>11, <1>12, <3>2, <3>3, <3>4, <4>1 DEF RingIs
    <3>6. HasRoom(s, need)
      BY <3>1, <3>2, <3>3, <3>4 DEF HasRoom
    <3> QED BY <3>5, <3>6
  <2>3. CASE ~front
    <3>1. ~stuck /\ s = r
      BY <1>10, <1>13, <2>3
    <3>2. ASSUME ~alloc PROVE HasRoom(s, need)
      <4>1. /\ ~(i = t /\ i + need > L)
            /\ ~(i < t /\ i + need > y)
            /\ ~(i + need > y /\ y >= i /\ z > 0)
        BY <1>10, <1>11, <1>14, <2>3, <3>1, <3>2
      <4>2. CASE i = t /\ m = 0
        <5>1. i + need <= L
          BY <4>1, <4>2
        <5>2. z = t - y
          BY <1>4, <4>2
        <5> QED BY <1>1, <1>3, <3>1, <4>2, <5>1, <5>2 DEF HasRoom
      <4>3. CASE i = m /\ m <= y /\ m # 0
        <5>1. i + need <= y
          <6>1. z > 0 /\ i <= y
            BY <1>4, <4>3
          <6> QED BY <4>1, <6>1
        <5>2. i = z - (t - y)
          BY <1>4, <4>3
        <5> QED BY <1>1, <3>1, <5>1, <5>2 DEF HasRoom
      <4>4. CASE i = m /\ m <= y /\ m = 0 /\ i # t
        <5>1. i < t
          BY <1>5, <4>4
        <5>2. i + need <= y
          BY <4>1, <5>1
        <5>3. i = z - (t - y)
          BY <1>4, <4>4
        <5> QED BY <1>1, <3>1, <5>2, <5>3 DEF HasRoom
      <4> QED BY <1>5, <4>2, <4>3, <4>4
    <3> QED BY <3>1, <3>2
  <2> QED BY <2>1, <2>2, <2>3
<1>16. PICK x, w : RingIs(s, x, w) /\ x \o w = u \o v /\ (alloc \/ HasRoom(s, need))
  BY <1>15
<1>17. CASE alloc
  <2>1. RingIs(Reallocated(s, need), x \o w, <<>>) /\ HasRoom(Reallocated(s, need), need)
    BY <1>16, ReallocationIs
  <2>2. (x \o w) \o <<>> = u \o v
    <3>1. x \o w \in Seq(Packets)
      BY <1>2, <1>16
    <3> QED BY <1>16, <3>1, ConcatEmptySeq
  <2> QED BY <1>9, <1>17, <2>1, <2>2
<1>18. CASE ~alloc
  BY <1>9, <1>16, <1>18
<1> QED BY <1>17, <1>18

\* An insertion adds the packet behind all others.
LEMMA InsertionIs ==
  ASSUME NEW u, NEW v, RingIs(q, u, v), NEW p \in Packets, InsertData(p)
  PROVE  /\ \E x, y : RingIs(q', x, y) /\ x \o y = Append(u \o v, p)
         /\ Len(q'.buffer) <= MaxBuffer /\ distilled' = <<>>
<1>1. PICK need \in Nat \ {0} : need = p.size
  BY QueueAssumption
<1>0. PICK r : r = RectifyBuffer(q, need)
  OBVIOUS
<1>22. PICK uu, vv : RingIs(r, uu, vv) /\ uu \o vv = u \o v /\ HasRoom(r, need)
  BY <1>0, RectifiedIs
<1>2. RingIs(r, uu, vv)
  BY <1>22
<1>3. PICK b \in Seq(Cells), t \in Nat, y \in Nat, z \in Nat, i \in Nat, c \in Nat :
        /\ b = r.buffer /\ t = r.terminal /\ y = r.query /\ z = r.size /\ i = r.insert
        /\ c = r.count
  BY <1>2 DEF RingIs, Fields
<1>4. r \in Fields /\ uu \in Seq(Packets) /\ vv \in Seq(Packets)
  BY <1>2 DEF RingIs, Whole
<1>5. PICK L \in Nat : L = Len(b)
  OBVIOUS
<1>6. PICK n \in Nat, m \in Nat : n = t - y /\ m = z - n
  <2>1. t - y \in Nat /\ z - (t - y) \in Nat
    BY <1>2, <1>3, RingParts
  <2> QED BY <2>1
<1>7. /\ y <= t /\ t <= L /\ Whole(b, y, n, uu) /\ Whole(b, 0, m, vv)
      /\ c = Len(uu) + Len(vv)
      /\ (i = t /\ m = 0) \/ (i = m /\ m <= y)
  BY <1>2, <1>3, <1>5, <1>6 DEF RingIs
<1>8. \/ i = t /\ m = 0 /\ i + need <= L
      \/ i = m /\ i + need <= y
  <2>1. \/ i = t /\ z = n /\ i + need <= L
        \/ i = m /\ i + need <= y
    BY <1>3, <1>5, <1>6, <1>22 DEF HasRoom
  <2> QED BY <1>6, <2>1
<1>9. PICK end \in Nat : end = i + need
  OBVIOUS
<1>10. end <= L /\ i < end
  BY <1>7, <1>8, <1>9
<1> DEFINE nb == [k \in DOMAIN b |-> IF i < k /\ k <= end THEN Bytes(p)[k - i] ELSE b[k]]
           s == [r EXCEPT !.buffer = nb, !.count = @ + 1, !.insert = end,
                          !.size = @ + need, !.terminal = Larger(@, end)]
<1>11. /\ q' = s /\ L <= MaxBuffer /\ distilled' = <<>>
  BY <1>0, <1>1, <1>3, <1>4, <1>5, <1>9 DEF InsertData, BufferSize, Fields
<1>12. \A k \in 1 .. need : Bytes(p)[k] = <<p, k - 1>>
  BY <1>1 DEF Bytes
<1>13. /\ nb \in Seq(Cells) /\ Len(nb) = L
       /\ \A k \in 1 .. need : nb[i + k] = <<p, k - 1>>
       /\ \A k \in 1 .. L : (k <= i \/ end < k) => nb[k] = b[k]
  <2>1. DOMAIN b = 1 .. L /\ \A k \in 1 .. L : b[k] \in Cells
    BY <1>5, ElementOfSeq, LenProperties
  <2>2. ASSUME NEW k \in 1 .. L, i < k, k <= end
        PROVE  nb[k] = <<p, k - i - 1>> /\ nb[k] \in Cells
    <3>1. PICK j \in 1 .. need : j = k - i
      <4>1. k - i \in 1 .. need
        BY <1>9, <2>2
      <4> QED BY <4>1
    <3>2. nb[k] = <<p, j - 1>>
      BY <1>12, <2>1, <2>2, <3>1
    <3>3. j - 1 \in 0 .. MaxBuffer
      <4>1. need <= MaxBuffer /\ MaxBuffer \in Nat
        BY <1>9, <1>10, <1>11, QueueAssumption
      <4> QED BY <4>1
    <3>4. nb[k] \in Cells
      <4>1. PICK l \in 0 .. MaxBuffer : l = j - 1
        BY <3>3
      <4>2. <<p, l>> \in Cells
        BY DEF Cells
      <4> QED BY <3>2, <4>1, <4>2
    <3> QED BY <3>1, <3>2, <3>4
  <2>3. ASSUME NEW k \in 1 .. L, k <= i \/ end < k
        PROVE  nb[k] = b[k]
    <3>1. ~(i < k /\ k <= end)
      BY <1>10, <2>3
    <3> QED BY <2>1, <3>1
  <2>4. nb \in [1 .. L -> Cells]
    <3>1. ASSUME NEW k \in 1 .. L PROVE nb[k] \in Cells
      <4>1. CASE i < k /\ k <= end
        BY <2>2, <4>1
      <4>2. CASE ~(i < k /\ k <= end)
        <5>1. k <= i \/ end < k
          BY <4>2
        <5> QED BY <2>1, <2>3, <5>1
      <4> QED BY <4>1, <4>2
    <3> QED BY <2>1, <3>1
  <2>5. nb \in Seq(Cells) /\ Len(nb) = L
    <3> HIDE DEF nb
    <3> QED BY <2>4, LenProperties
  <2>6. ASSUME NEW k \in 1 .. need PROVE nb[i + k] = <<p, k - 1>>
    <3>1. PICK j \in 1 .. L : j = i + k
      <4>1. i + k \in 1 .. L
        BY <1>9, <1>10
      <4> QED BY <4>1
    <3>2. i < j /\ j <= end /\ j - i = k
      BY <1>9, <3>1
    <3> HIDE DEF nb
    <3>3. nb[j] = <<p, j - i - 1>>
      BY <2>2, <3>2
    <3> QED BY <3>1, <3>2, <3>3
  <2> HIDE DEF nb
  <2> QED BY <2>3, <2>5, <2>6
<1> HIDE DEF nb
<1>14. PICK tt \in Nat : tt = Larger(t, end)
  BY DEF Larger
<1>15. /\ s.buffer = nb /\ s.count = c + 1 /\ s.insert = end /\ s.size = z + need
       /\ s.terminal = tt /\ s.query = y
  BY <1>3, <1>4, <1>14 DEF Fields
<1>16. s \in Fields
  <2> DEFINE s2 == [r EXCEPT !.buffer = nb, !.count = c + 1, !.insert = end,
                             !.size = z + need, !.terminal = tt]
  <2>1. s2 \in Fields
    <3>7. PICK c2 \in Nat, z2 \in Nat : c2 = c + 1 /\ z2 = z + need
      OBVIOUS
    <3> DEFINE a1 == [r EXCEPT !.buffer = nb]
               a2 == [a1 EXCEPT !.count = c2]
               a3 == [a2 EXCEPT !.insert = end]
               a4 == [a3 EXCEPT !.size = z2]
               a5 == [a4 EXCEPT !.terminal = tt]
    <3>1. a1 \in Fields
      BY <1>4, <1>13 DEF Fields
    <3> HIDE DEF a1
    <3>2. a2 \in Fields
      BY <3>1 DEF Fields
    <3> HIDE DEF a2
    <3>3. a3 \in Fields
      BY <3>2 DEF Fields
    <3> HIDE DEF a3
    <3>4. a4 \in Fields
      BY <3>3 DEF Fields
    <3> HIDE DEF a4
    <3>5. a5 \in Fields
      BY <3>4 DEF Fields
    <3>6. s2 = a5
      BY <3>7 DEF a1, a2, a3, a4
    <3> QED BY <3>5, <3>6
  <2>2. s = s2
    BY <1>3, <1>4, <1>14 DEF Fields
  <2> QED BY <2>1, <2>2
<1> HIDE DEF s
<1>17. PICK o \in Nat : o = 0
  OBVIOUS
<1>18. Whole(nb, i, need, <<p>>)
  BY <1>1, <1>13, OnePacket
<1>19. Whole(b, o, m, vv) /\ Whole(nb, o, o, <<>>)
  BY <1>7, <1>17, NothingIsWhole
<1>20. CASE i = t /\ m = 0 /\ i + need <= L
  <2>1. tt = end /\ vv = <<>> /\ uu \o vv = uu
    <3>1. tt = end
      BY <1>10, <1>14, <1>20 DEF Larger
    <3>2. vv = <<>>
      BY <1>7, <1>20, Amount
    <3> QED BY <1>4, <3>1, <3>2, ConcatEmptySeq
  <2>2. Copies(nb, y, b, y, n)
    <3>1. ASSUME NEW k \in 1 .. n PROVE nb[y + k] = b[y + k]
      <4>1. y + k \in 1 .. L /\ y + k <= i
        BY <1>6, <1>7, <1>20
      <4> QED BY <1>13, <4>1
    <3> QED BY <3>1 DEF Copies
  <2>3. Copies(nb, y + n, nb, i, need)
    <3>1. y + n = i
      BY <1>6, <1>20
    <3> QED BY <3>1 DEF Copies
  <2>4. Whole(nb, y, n + need, uu \o <<p>>)
    BY <1>7, <1>18, <2>2, <2>3, Joined
  <2>5. tt - y = n + need /\ z + need - (tt - y) = 0
    BY <1>6, <1>9, <1>20, <2>1
  <2>6. c + 1 = Len(uu \o <<p>>) + Len(<<>>)
    BY <1>4, <1>7, <2>1
  <2>7. RingIs(s, uu \o <<p>>, <<>>)
    <3>1. y <= tt /\ tt <= L /\ end = tt
      BY <1>7, <1>10, <2>1, <1>20
    <3>2. Whole(nb, 0, 0, <<>>)
      BY <1>17, <1>19
    <3> QED BY <1>13, <1>15, <1>16, <2>4, <2>5, <2>6, <3>1, <3>2 DEF RingIs
  <2>8. (uu \o <<p>>) \o <<>> = Append(u \o v, p)
    <3>1. uu \o <<p>> = Append(uu, p)
      BY <1>4
    <3>2. uu \o <<p>> \in Seq(Packets)
      BY <1>4
    <3> QED BY <1>22, <2>1, <3>1, <3>2, ConcatEmptySeq
  <2> QED BY <1>5, <1>11, <1>13, <1>15, <2>7, <2>8
<1>21. CASE i = m /\ i + need <= y
  <2>1. tt = t
    BY <1>7, <1>9, <1>14, <1>21 DEF Larger
  <2>2. Copies(nb, y, b, y, n)
    <3>1. ASSUME NEW k \in 1 .. n PROVE nb[y + k] = b[y + k]
      <4>1. y + k \in 1 .. L /\ end < y + k
        BY <1>6, <1>7, <1>9, <1>21
      <4> QED BY <1>13, <4>1
    <3> QED BY <3>1 DEF Copies
  <2>3. Copies(nb, o, b, o, m)
    <3>1. ASSUME NEW k \in 1 .. m PROVE nb[k] = b[k]
      <4>1. k \in 1 .. L /\ k <= i
        BY <1>7, <1>21
      <4> QED BY <1>13, <4>1
    <3> QED BY <1>17, <3>1 DEF Copies
  <2>4. Copies(nb, o + m, nb, i, need)
    BY <1>17, <1>21 DEF Copies
  <2>5. Whole(nb, o, m + need, vv \o <<p>>)
    BY <1>18, <1>19, <2>3, <2>4, Joined
  <2>6. Whole(nb, y, n, uu)
    <3>1. PICK f \in Nat : f = y + n
      OBVIOUS
    <3>2. Copies(nb, f, nb, o, o)
      BY <1>17 DEF Copies
    <3>3. Whole(nb, y, n + o, uu \o <<>>)
      BY <1>7, <1>19, <2>2, <3>1, <3>2, Joined
    <3> QED BY <1>4, <1>17, <3>3, ConcatEmptySeq
  <2>7. tt - y = n /\ z + need - (tt - y) = m + need
    BY <1>6, <2>1
  <2>8. c + 1 = Len(uu) + Len(vv \o <<p>>)
    BY <1>4, <1>7
  <2>9. RingIs(s, uu, vv \o <<p>>)
    <3>1. y <= tt /\ tt <= L /\ end = m + need /\ m + need <= y
      BY <1>7, <1>9, <1>21, <2>1
    <3>2. Whole(nb, 0, m + need, vv \o <<p>>) /\ m + need \in Nat
      BY <1>17, <2>5
    <3>3. /\ s.terminal - s.query = n /\ s.size - (s.terminal - s.query) = m + need
      BY <1>15, <2>7
    <3> QED BY <1>5, <1>13, <1>15, <1>16, <2>6, <2>8, <3>1, <3>2, <3>3 DEF RingIs
  <2>10. uu \o (vv \o <<p>>) = Append(u \o v, p)
    <3>1. uu \o (vv \o <<p>>) = (uu \o vv) \o <<p>>
      BY <1>4, ConcatAssociative
    <3>2. uu \o vv \in Seq(Packets)
      BY <1>4
    <3>3. (uu \o vv) \o <<p>> = Append(uu \o vv, p)
      BY <3>2
    <3> QED BY <1>22, <3>1, <3>3
  <2> QED BY <1>5, <1>11, <1>13, <1>15, <2>9, <2>10
<1> QED BY <1>8, <1>20, <1>21

\* A distillation hands out the first packet, whole, and leaves the others.
LEMMA DistillationIs ==
  ASSUME NEW u, NEW v, RingIs(q, u, v), DistillData
  PROVE  /\ u \o v # <<>> /\ distilled' = <<Head(u \o v)>>
         /\ \E x, y : RingIs(q', x, y) /\ x \o y = Tail(u \o v)
         /\ q'.buffer = q.buffer
<1> DEFINE r0 == IF q.query = q.terminal THEN [q EXCEPT !.query = 0, !.terminal = q.insert]
                                         ELSE q
<1>1. PICK r, x, y : r = r0 /\ RingIs(r, x, y) /\ x \o y = u \o v /\ x # <<>>
                     /\ r.buffer = q.buffer
  <2>1. PICK b \in Seq(Cells), t \in Nat, y \in Nat, z \in Nat, i \in Nat, c \in Nat :
          /\ b = q.buffer /\ t = q.terminal /\ y = q.query /\ z = q.size /\ i = q.insert
          /\ c = q.count
    BY DEF RingIs, Fields
  <2>2. q \in Fields /\ u \in Seq(Packets) /\ v \in Seq(Packets)
    BY DEF RingIs, Whole
  <2>3. PICK n \in Nat, m \in Nat : n = t - y /\ m = z - n
    <3>1. t - y \in Nat /\ z - (t - y) \in Nat
      BY <2>1, RingParts
    <3> QED BY <3>1
  <2>4. /\ y <= t /\ t <= Len(b) /\ Whole(b, y, n, u) /\ Whole(b, 0, m, v)
        /\ c = Len(u) + Len(v)
        /\ (i = t /\ m = 0) \/ (i = m /\ m <= y)
    BY <2>1, <2>3 DEF RingIs
  <2>5. u = <<>> <=> n = 0
    BY <2>4, Amount
  <2>6. z # 0
    BY <2>1 DEF DistillData
  <2>7. CASE y # t
    <3>1. u # <<>>
      BY <2>3, <2>5, <2>7
    <3>2. r0 = q
      BY <2>1, <2>7
    <3> HIDE DEF r0
    <3> QED BY <3>1, <3>2
  <2>8. CASE y = t
    <3>1. u = <<>> /\ m # 0 /\ i = m /\ m = z /\ m <= t
      BY <2>3, <2>4, <2>5, <2>6, <2>8
    <3>2. v # <<>>
      BY <2>4, <3>1, Amount
    <3> DEFINE s == [q EXCEPT !.query = 0, !.terminal = q.insert]
    <3>3. r0 = s
      BY <2>1, <2>8
    <3>4. /\ s.buffer = b /\ s.insert = m /\ s.terminal = m /\ s.query = 0 /\ s.size = m
          /\ s.count = c
      BY <2>1, <2>2, <3>1 DEF Fields
    <3>5. s \in Fields
      BY <2>1, <2>2 DEF Fields
    <3> HIDE DEF s, r0
    <3>6. c = Len(v) + Len(<<>>)
      BY <2>2, <2>4, <3>1
    <3>7. Whole(b, 0, 0, <<>>)
      BY NothingIsWhole
    <3>8. s.terminal - s.query = m /\ s.size - (s.terminal - s.query) = 0
      BY <3>4
    <3>9. RingIs(s, v, <<>>)
      <4>1. 0 <= m /\ m <= Len(b)
        BY <2>4, <3>1
      <4> QED BY <2>4, <3>4, <3>5, <3>6, <3>7, <3>8, <4>1 DEF RingIs
    <3>10. v \o <<>> = u \o v
      BY <2>2, <3>1, ConcatEmptySeq
    <3> QED BY <2>1, <3>2, <3>3, <3>4, <3>9, <3>10
  <2> QED BY <2>7, <2>8
<1>2. PICK b \in Seq(Cells), t \in Nat, e \in Nat, z \in Nat, i \in Nat, c \in Nat :
        /\ b = r.buffer /\ t = r.terminal /\ e = r.query /\ z = r.size /\ i = r.insert
        /\ c = r.count
  BY <1>1 DEF RingIs, Fields
<1>3. r \in Fields /\ x \in Seq(Packets) /\ y \in Seq(Packets)
  BY <1>1 DEF RingIs, Whole
<1>4. PICK n \in Nat, m \in Nat : n = t - e /\ m = z - n
  <2>1. t - e \in Nat /\ z - (t - e) \in Nat
    BY <1>1, <1>2, RingParts
  <2> QED BY <2>1
<1>5. /\ e <= t /\ t <= Len(b) /\ Whole(b, e, n, x) /\ Whole(b, 0, m, y)
      /\ c = Len(x) + Len(y)
      /\ (i = t /\ m = 0) \/ (i = m /\ m <= e)
  BY <1>1, <1>2, <1>4 DEF RingIs
<1>6. PICK p : p = Head(x)
  OBVIOUS
<1>7. PICK l : l = p.size
  OBVIOUS
<1>8. /\ p \in Packets /\ l \in Nat \ {0} /\ l <= n
      /\ \A k \in 1 .. l : b[e + k] = <<p, k - 1>>
      /\ Whole(b, e + l, n - l, Tail(x))
  <2>1. /\ p \in Packets /\ p.size \in Nat \ {0} /\ p.size <= n
        /\ \A k \in 1 .. p.size : b[e + k] = <<p, k - 1>>
        /\ Whole(b, e + p.size, n - p.size, Tail(x))
    <3>1. x # <<>>
      BY <1>1
    <3>2. Whole(b, e, n, x)
      BY <1>5
    <3> QED BY <1>6, <3>1, <3>2, FirstOut
  <2> QED BY <1>7, <2>1
<1>9. b[e + 1][1] = p
  <2>1. PICK k \in 1 .. l : k = 1
    BY <1>8, 1 \in 1 .. l
  <2>2. b[e + k] = <<p, k - 1>>
    BY <1>8
  <2> QED BY <2>1, <2>2
<1>10. Part(r, e, l) = Bytes(p)
  <2>1. e + l <= Len(b)
    BY <1>4, <1>5, <1>8
  <2>2. PICK d : d = SubSeq(b, e + 1, e + l)
    OBVIOUS
  <2>3. d \in Seq(Cells) /\ Len(d) = l /\ \A k \in 1 .. l : d[k] = b[e + k]
    <3>1. l \in Nat
      BY <1>8
    <3> QED BY <2>1, <2>2, <3>1, PartIs
  <2>4. \A k \in 1 .. l : d[k] = <<p, k - 1>>
    BY <1>8, <2>3
  <2>5. d = [k \in 1 .. l |-> d[k]]
    BY <2>3
  <2>6. d = [k \in 1 .. l |-> <<p, k - 1>>]
    BY <2>4, <2>5
  <2> QED BY <1>2, <1>7, <2>2, <2>6 DEF Part, Bytes
<1> DEFINE s == [r EXCEPT !.count = @ - 1, !.size = @ - l, !.query = @ + l]
<1>11. distilled' = <<p>> /\ q' = s
  <2>1. r.buffer[r.query + 1][1] = p
    BY <1>2, <1>9
  <2>2. /\ distilled' = IF Part(r0, r0.query, r0.buffer[r0.query + 1][1].size)
                             = Bytes(r0.buffer[r0.query + 1][1])
                          THEN <<r0.buffer[r0.query + 1][1]>> ELSE <<Blank>>
        /\ q' = [r0 EXCEPT !.count = @ - 1, !.size = @ - r0.buffer[r0.query + 1][1].size,
                           !.query = @ + r0.buffer[r0.query + 1][1].size]
    BY DEF DistillData
  <2>3. PICK h : h = r0.buffer[r0.query + 1][1]
    OBVIOUS
  <2> HIDE DEF r0
  <2>4. /\ distilled' = IF Part(r, r.query, h.size) = Bytes(h) THEN <<h>> ELSE <<Blank>>
        /\ q' = [r EXCEPT !.count = @ - 1, !.size = @ - h.size, !.query = @ + h.size]
    BY <1>1, <2>2, <2>3
  <2>5. h = p
    BY <1>1, <2>1, <2>3
  <2> QED BY <1>2, <1>7, <1>10, <2>4, <2>5
<1>12. /\ s.buffer = b /\ s.count = c - 1 /\ s.insert = i /\ s.size = z - l
       /\ s.terminal = t /\ s.query = e + l
  BY <1>2, <1>3 DEF Fields
<1>13. Len(Tail(x)) = Len(x) - 1 /\ Len(x) \in Nat \ {0}
  BY <1>1, <1>3
<1>14. s \in Fields
  <2>1. c - 1 \in Nat
    BY <1>3, <1>5, <1>13
  <2>2. z - l \in Nat /\ e + l \in Nat
    BY <1>4, <1>8
  <2> QED BY <1>2, <1>3, <2>1, <2>2 DEF Fields
<1> HIDE DEF s
<1>15. RingIs(s, Tail(x), y)
  <2>1. t - (e + l) = n - l /\ z - l - (t - (e + l)) = m /\ e + l <= t
    BY <1>4, <1>8
  <2>2. c - 1 = Len(Tail(x)) + Len(y)
    BY <1>3, <1>5, <1>13
  <2>3. (i = t /\ m = 0) \/ (i = m /\ m <= e + l)
    BY <1>5, <1>8
  <2> QED BY <1>5, <1>8, <1>12, <1>14, <2>1, <2>2, <2>3 DEF RingIs
<1>16. x \o y # <<>> /\ Head(x \o y) = p /\ Tail(x \o y) = Tail(x) \o y
  <2>1. x \o y \in Seq(Packets) /\ Len(x \o y) = Len(x) + Len(y)
    BY <1>3
  <2>2. Len(x \o y) # 0
    BY <1>3, <1>13, <2>1
  <2>3. x \o y # <<>>
    BY <2>2
  <2>4. Head(x \o y) = x[1] /\ p = x[1]
    BY <1>3, <1>6, <1>13, <2>1, <2>3
  <2>5. Tail(x \o y) = Tail(x) \o y
    BY <1>1, <1>3, TailOfConcat
  <2> QED BY <2>3, <2>4, <2>5
<1> QED BY <1>1, <1>2, <1>11, <1>12, <1>15, <1>16

\* Read as packets, the ring holds first u, then v.
LEMMA ContentsAre ==
  ASSUME NEW r, NEW u, NEW v, RingIs(r, u, v)
  PROVE  PacketsIn(Stored(r)) = u \o v
<1>1. PICK s, L : L \in Nat /\ s = Stored(r) /\ L = r.size
  <2>1. r.size \in Nat
    BY DEF RingIs, Fields
  <2> QED BY <2>1
<1>2. Len(s) = L /\ Whole(s, 0, L, u \o v)
  BY <1>1, StoredIs
<1>3. PacketsIn(s) = u \o v
  BY <1>1, <1>2, ReadBack
<1> QED BY <1>1, <1>3

-----------------------------------------------------------------------------
(* The queue between threads                                               *)

\* What is inductive: the bytes form whole packets, and a thread that holds the
\* lock has one to post.
RInv ==
  /\ \E u, v : RingIs(q, u, v)
  /\ Len(q.buffer) <= MaxBuffer
  /\ distilled = <<>> \/ \E p \in Packets : distilled = <<p>>
  /\ holder # Nobody => \E p \in Packets : shared = <<p>>

LEMMA EmptyRing ==
  ASSUME AsynchInit
  PROVE  RingIs(q, <<>>, <<>>) /\ Len(q.buffer) = 0 /\ distilled = <<>>
<1>1. /\ q = [insert |-> 0, terminal |-> 0, query |-> 0, size |-> 0, count |-> 0,
              buffer |-> <<>>]
      /\ distilled = <<>>
  BY DEF AsynchInit, Init
<1>2. <<>> \in Seq(Cells) /\ Len(<<>>) = 0
  BY EmptySeq
<1>3. q \in Fields
  BY <1>1, <1>2 DEF Fields
<1>4. /\ q.insert = 0 /\ q.terminal = 0 /\ q.query = 0 /\ q.size = 0 /\ q.count = 0
      /\ q.buffer = <<>>
  BY <1>1
<1>5. Whole(q.buffer, 0, 0, <<>>)
  BY NothingIsWhole
<1>6. q.terminal - q.query = 0 /\ q.size - (q.terminal - q.query) = 0
  BY <1>4
<1>7. q.count = Len(<<>>) + Len(<<>>)
  BY <1>2, <1>4
<1>8. RingIs(q, <<>>, <<>>)
  <2>1. q.query <= q.terminal /\ q.terminal <= Len(q.buffer) /\ q.insert = q.terminal
    BY <1>2, <1>4
  <2> QED BY <1>3, <1>4, <1>5, <1>6, <1>7, <2>1 DEF RingIs
<1> QED BY <1>1, <1>2, <1>4, <1>8

LEMMA RInvEstablished == AsynchInit => RInv
<1> SUFFICES ASSUME AsynchInit PROVE RInv
  OBVIOUS
<1>1. holder = Nobody
  BY DEF AsynchInit
<1>2. MaxBuffer \in Nat
  BY QueueAssumption
<1> QED BY <1>1, <1>2, EmptyRing DEF RInv

\* Each step of the threads is one of the queue, or none.
LEMMA StepOfQueue ==
  ASSUME RInv, [AsynchNext]_<<vars, asynch_vars>>
  PROVE  RInv' /\ [Fifo!Next]_(Fifo!vars)
<1>1. PICK u, v : RingIs(q, u, v)
  BY DEF RInv
<1>2. PICK c : c = PacketsIn(Stored(q))
  OBVIOUS
<1>3. c = u \o v
  BY <1>1, <1>2, ContentsAre
<1>4. PICK qq, d : qq = q' /\ d = distilled'
  OBVIOUS
<1>5. ASSUME q' = q, distilled' = distilled,
             holder' # Nobody => \E p \in Packets : shared' = <<p>>
      PROVE  RInv' /\ [Fifo!Next]_(Fifo!vars)
  <2>1. RInv'
    BY <1>5 DEF RInv
  <2>2. UNCHANGED Fifo!vars
    BY <1>5 DEF Fifo!vars
  <2> QED BY <2>1, <2>2
<1>6. ASSUME NEW p \in Packets, OnEvent(p)
      PROVE  RInv' /\ [Fifo!Next]_(Fifo!vars)
  <2>1. q' = q /\ distilled' = distilled /\ shared' = <<p>>
    BY <1>6 DEF OnEvent, vars
  <2> QED BY <1>5, <2>1
<1>7. ASSUME PostAsynchronismData
      PROVE  RInv' /\ [Fifo!Next]_(Fifo!vars)
  <2>1. holder # Nobody /\ holder' = Nobody /\ InsertData(shared[1])
    BY <1>7 DEF PostAsynchronismData
  <2>2. PICK p \in Packets : shared = <<p>>
    BY <2>1 DEF RInv
  <2>3. InsertData(p)
    BY <2>1, <2>2
  <2>4. PICK x, y : RingIs(q', x, y) /\ x \o y = Append(u \o v, p)
    BY <1>1, <2>3, InsertionIs
  <2>5. Len(q'.buffer) <= MaxBuffer /\ distilled' = <<>>
    BY <1>1, <2>3, InsertionIs
  <2>6. PacketsIn(Stored(q')) = Append(c, p)
    BY <1>3, <2>4, ContentsAre
  <2>7. RInv'
    BY <2>1, <2>4, <2>5 DEF RInv
  <2>8. Fifo!InsertData(p)
    BY <1>2, <2>5, <2>6 DEF Fifo!InsertData
  <2>9. Fifo!Next
    BY <2>8 DEF Fifo!Next
  <2> QED BY <2>7, <2>9
<1>8. ASSUME RunCallback
      PROVE  RInv' /\ [Fifo!Next]_(Fifo!vars)
  <2>1. DistillData /\ holder' = holder /\ shared' = shared
    BY <1>8 DEF RunCallback
  <2>2. u \o v # <<>> /\ distilled' = <<Head(u \o v)>> /\ q'.buffer = q.buffer
    BY <1>1, <2>1, DistillationIs
  <2>3. PICK x, y : RingIs(q', x, y) /\ x \o y = Tail(u \o v)
    BY <1>1, <2>1, DistillationIs
  <2>4. PacketsIn(Stored(q')) = Tail(c)
    BY <1>3, <2>3, ContentsAre
  <2>5. Head(u \o v) \in Packets
    <3>1. u \in Seq(Packets) /\ v \in Seq(Packets)
      BY <1>1 DEF RingIs, Whole
    <3>2. u \o v \in Seq(Packets)
      BY <3>1, ConcatProperties
    <3> QED BY <2>2, <3>2, HeadTailProperties
  <2>6. RInv'
    <3>1. Len(q'.buffer) <= MaxBuffer
      BY <2>2 DEF RInv
    <3>2. holder' # Nobody => \E p \in Packets : shared' = <<p>>
      BY <2>1 DEF RInv
    <3> QED BY <2>2, <2>3, <2>5, <3>1, <3>2 DEF RInv
  <2>7. Fifo!DistillData
    BY <1>2, <1>3, <2>2, <2>4 DEF Fifo!DistillData
  <2>8. Fifo!Next
    BY <2>7 DEF Fifo!Next
  <2> QED BY <2>6, <2>8
<1>9. ASSUME OnAsynchronismEngineData
      PROVE  RInv' /\ [Fifo!Next]_(Fifo!vars)
  <2>1. q' = q /\ distilled' = distilled /\ holder' = holder /\ shared' = shared
    BY <1>9 DEF OnAsynchronismEngineData, vars
  <2>2. holder' # Nobody => \E p \in Packets : shared' = <<p>>
    BY <2>1 DEF RInv
  <2> QED BY <1>5, <2>1, <2>2
<1>10. ASSUME UNCHANGED <<vars, asynch_vars>>
       PROVE  RInv' /\ [Fifo!Next]_(Fifo!vars)
  <2>1. q' = q /\ distilled' = distilled /\ holder' = holder /\ shared' = shared
    BY <1>10 DEF vars, asynch_vars
  <2>2. holder' # Nobody => \E p \in Packets : shared' = <<p>>
    BY <2>1 DEF RInv
  <2> QED BY <1>5, <2>1, <2>2
<1> QED BY <1>6, <1>7, <1>8, <1>9, <1>10 DEF AsynchNext

LEMMA RInvIsEnough == RInv => DataIsWhereItCounts
<1> SUFFICES ASSUME RInv PROVE DataIsWhereItCounts
  OBVIOUS
<1>1. PICK u, v : RingIs(q, u, v)
  BY DEF RInv
<1>2. PICK b \in Seq(Cells), t \in Nat, y \in Nat, z \in Nat, i \in Nat, c \in Nat :
        /\ b = q.buffer /\ t = q.terminal /\ y = q.query /\ z = q.size /\ i = q.insert
        /\ c = q.count
  BY <1>1 DEF RingIs, Fields
<1>3. PICK n \in Nat, m \in Nat : n = t - y /\ m = z - n
  <2>1. t - y \in Nat /\ z - (t - y) \in Nat
    BY <1>1, <1>2, RingParts
  <2> QED BY <2>1
<1>4. /\ y <= t /\ t <= Len(b) /\ Whole(b, y, n, u) /\ Whole(b, 0, m, v)
      /\ c = Len(u) + Len(v)
      /\ (i = t /\ m = 0) \/ (i = m /\ m <= y)
  BY <1>1, <1>2, <1>3 DEF RingIs
<1>5. Len(u) \in Nat /\ Len(u) <= n /\ Len(v) \in Nat /\ Len(v) <= m
  BY <1>4, Amount
<1>6. Len(b) \in Nat /\ Len(b) <= MaxBuffer /\ MaxBuffer \in Nat
  BY <1>2, QueueAssumption, LenProperties DEF RInv
<1>7. i <= MaxBuffer /\ t <= MaxBuffer /\ y <= MaxBuffer /\ z <= MaxBuffer /\ c <= z
  BY <1>3, <1>4, <1>5, <1>6
<1>8. DOMAIN q = {"insert", "terminal", "query", "size", "count", "buffer"}
  <2>1. q \in Fields
    BY <1>1 DEF RingIs
  <2> QED BY <2>1 DEF Fields
<1>9. Range(q.buffer) \subseteq Cells
  <2>1. DOMAIN b = 1 .. Len(b) /\ \A k \in 1 .. Len(b) : b[k] \in Cells
    BY ElementOfSeq, LenProperties
  <2> QED BY <1>2, <2>1 DEF Range
<1>10. distilled \in {<<>>} \cup {<<p>> : p \in Packets \cup {Blank}}
  BY DEF RInv
<1>11. {q.insert, q.terminal, q.query, q.size} \subseteq 0 .. MaxBuffer
  BY <1>2, <1>6, <1>7
<1>12. q.count \in 0 .. q.size
  BY <1>2, <1>7
<1>13. TypeOK
  BY <1>8, <1>9, <1>10, <1>11, <1>12 DEF TypeOK
<1>14. \/ q.insert = q.terminal /\ q.size = q.terminal - q.query
       \/ q.insert <= q.query /\ q.size = (q.terminal - q.query) + q.insert
  BY <1>2, <1>3, <1>4
<1>15. q.query <= q.terminal /\ q.terminal <= BufferSize(q)
  BY <1>2, <1>4 DEF BufferSize
<1> QED BY <1>13, <1>14, <1>15 DEF DataIsWhereItCounts

\* However the threads take turns: the data is one stretch up to the terminal and
\* perhaps a second one from the front that ends before the first, as the
\* assertions of RectifyBuffer say (DataQueue::RectifyBuffer, InsertData,
\* DistillData), whatever the sizes of the packets.
THEOREM DataStaysInItsStretches == AsynchSpec => []DataIsWhereItCounts
<1>1. AsynchInit => RInv
  BY RInvEstablished
<1>2. RInv /\ [AsynchNext]_<<vars, asynch_vars>> => RInv'
  BY StepOfQueue
<1>3. RInv => DataIsWhereItCounts
  BY RInvIsEnough
<1> QED BY <1>1, <1>2, <1>3, PTL DEF AsynchSpec

\* The ring of bytes implements the queue of packets: what DistillData copies to
\* the caller is the packet inserted first of those not yet distilled, whole,
\* through every wrap around the end and every reallocation.
THEOREM TheRingIsAQueue == AsynchSpec => Implements
<1>1. AsynchInit => RInv
  BY RInvEstablished
<1>2. RInv /\ [AsynchNext]_<<vars, asynch_vars>> => RInv' /\ [Fifo!Next]_(Fifo!vars)
  BY StepOfQueue
<1>3. AsynchInit => Fifo!Init
  <2> SUFFICES ASSUME AsynchInit PROVE Fifo!Init
    OBVIOUS
  <2>1. RingIs(q, <<>>, <<>>) /\ distilled = <<>>
    BY EmptyRing
  <2>2. PacketsIn(Stored(q)) = <<>> \o <<>>
    BY <2>1, ContentsAre
  <2>3. <<>> \o <<>> = <<>>
    OBVIOUS
  <2> QED BY <2>1, <2>2, <2>3 DEF Fifo!Init
<1>4. AsynchSpec => [][Fifo!Next]_(Fifo!vars)
  BY <1>1, <1>2, PTL DEF AsynchSpec
<1> QED BY <1>3, <1>4, PTL DEF AsynchSpec, Implements, Fifo!FifoSpec
=============================================================================
