----------------------------- MODULE ServicesProofs -----------------------------
(***************************************************************************)
(* The invariants of MCServices, for every value of its constants.  Each   *)
(* is about one part, and each inductive invariant says so: the steps of   *)
(* the other parts do not occur in a behaviour of this one.  Besides the   *)
(* states, these proofs are about what loops compute, and each of these is *)
(* by induction over a set of numbers.                                     *)
(***************************************************************************)
EXTENDS MCServices, SequenceTheorems, FiniteSetTheorems, WellFoundedInduction, TLAPS

-----------------------------------------------------------------------------
(* Recursion over the natural numbers.                                       *)

\* A set of numbers that holds zero and each one's successor holds them all.
LEMMA SetInduction ==
    ASSUME NEW S \in SUBSET Nat, 0 \in S, \A n \in S : n + 1 \in S
    PROVE  S = Nat
<1> DEFINE T == Nat \ S
<1> SUFFICES ASSUME T # {} PROVE FALSE
  OBVIOUS
<1>1. \E x \in T : \A y \in T : ~ (<<y, x>> \in OpToRel(<, Nat))
  BY NatLessThanWellFounded, WFMin
<1>2. PICK x \in T : \A y \in T : ~ (<<y, x>> \in OpToRel(<, Nat))
  BY <1>1
<1>3. x \in Nat /\ x # 0 /\ x \notin S
  OBVIOUS
<1>4. x - 1 \in Nat /\ x - 1 < x /\ x = (x - 1) + 1
  BY <1>3
<1>5. x - 1 \notin S
  BY <1>3, <1>4
<1>6. <<x - 1, x>> \in OpToRel(<, Nat)
  BY <1>3, <1>4 DEF OpToRel
<1> QED
  BY <1>2, <1>4, <1>5, <1>6

\* h is a function on Nat that is defined by its value at the number before.
Recurs(h, base, step) == h[0] = base /\ \A n \in Nat : h[n + 1] = step[<<n, h[n]>>]
\* A recursion that computes the next value from a number and its value has a solution.
LEMMA RecursionExists ==
    ASSUME NEW S, NEW base \in S, NEW step \in [Nat \X S -> S]
    PROVE  \E h \in [Nat -> S] : Recurs(h, base, step)
<1> DEFINE Upto(n) == {g \in [0 .. n -> S] :
                           g[0] = base /\ \A m \in 0 .. n - 1 : g[m + 1] = step[<<m, g[m]>>]}
           E == {n \in Nat : Upto(n) # {}}
           A == {n \in Nat : \A a, b \in Nat : \A g \in Upto(a), f \in Upto(b) :
                                 n <= a /\ n <= b => g[n] = f[n]}
<1>1. 0 \in E
  <2>1. [m \in 0 .. 0 |-> base] \in Upto(0)
    OBVIOUS
  <2> QED  BY <2>1
<1>2. ASSUME NEW n \in E PROVE n + 1 \in E
  <2>1. PICK g : g \in Upto(n)
    OBVIOUS
  <2> DEFINE f == [m \in 0 .. n + 1 |-> IF m <= n THEN g[m] ELSE step[<<n, g[n]>>]]
  <2>2. g \in [0 .. n -> S] /\ g[n] \in S /\ n \in Nat
    BY <2>1
  <2>3. f \in [0 .. n + 1 -> S]
    BY <2>2
  <2>4. f[0] = base
    BY <2>1, <2>2
  <2>5. \A m \in 0 .. n : f[m] = g[m]
    BY <2>2
  <2>6. f[n + 1] = step[<<n, g[n]>>]
    BY <2>2
  <2> HIDE DEF f
  <2>7. ASSUME NEW m \in 0 .. (n + 1) - 1 PROVE f[m + 1] = step[<<m, f[m]>>]
    <3>1. CASE m = n
      <4>1. f[n] = g[n]
        BY <2>2, <2>5
      <4> QED  BY <3>1, <4>1, <2>6
    <3>2. CASE m # n
      <4>1. m \in 0 .. n - 1 /\ m + 1 \in 0 .. n /\ m \in 0 .. n
        BY <3>2, <2>2
      <4>2. g[m + 1] = step[<<m, g[m]>>]
        BY <4>1, <2>1
      <4> QED  BY <4>1, <4>2, <2>5
    <3> QED  BY <3>1, <3>2
  <2>8. f \in Upto(n + 1)
    BY ONLY <2>3, <2>4, <2>7
  <2> QED  BY <2>2, <2>8
<1>3. E = Nat
  <2>1. E \in SUBSET Nat
    OBVIOUS
  <2> HIDE DEF E
  <2> QED  BY <1>1, <1>2, <2>1, SetInduction
<1>4. 0 \in A
  OBVIOUS
<1>5. ASSUME NEW n \in A PROVE n + 1 \in A
  <2>1. n \in Nat /\ n + 1 \in Nat
    OBVIOUS
  <2>2. ASSUME NEW a \in Nat, NEW b \in Nat, NEW g \in Upto(a), NEW f \in Upto(b),
               n + 1 <= a, n + 1 <= b
        PROVE  g[n + 1] = f[n + 1]
    <3>1. n <= a /\ n <= b /\ n \in 0 .. a - 1 /\ n \in 0 .. b - 1
      BY <2>1, <2>2
    <3>2. g[n] = f[n]
      BY <3>1
    <3>3. g[n + 1] = step[<<n, g[n]>>]
      BY ONLY <3>1, g \in Upto(a)
    <3>4. f[n + 1] = step[<<n, f[n]>>]
      BY ONLY <3>1, f \in Upto(b)
    <3> QED  BY ONLY <3>2, <3>3, <3>4
  <2> HIDE DEF Upto
  <2> QED  BY ONLY <2>1, <2>2
<1>6. A = Nat
  <2>1. A \in SUBSET Nat
    OBVIOUS
  <2> HIDE DEF A
  <2> QED  BY <1>4, <1>5, <2>1, SetInduction
<1> DEFINE g(n) == CHOOSE f \in Upto(n) : TRUE
           h == [n \in Nat |-> g(n)[n]]
<1>7. ASSUME NEW n \in Nat PROVE g(n) \in Upto(n)
  BY <1>3
<1> HIDE DEF g
<1>8. ASSUME NEW n \in Nat PROVE g(n)[n] \in S
  BY <1>7
<1>9. h \in [Nat -> S]
  BY <1>8
<1>10. h[0] = base
  BY <1>7
<1>11. ASSUME NEW n \in Nat PROVE h[n + 1] = step[<<n, h[n]>>]
  <2>1. g(n + 1) \in Upto(n + 1) /\ g(n) \in Upto(n)
    BY <1>7
  <2>2. n \in 0 .. (n + 1) - 1
    OBVIOUS
  <2>3. g(n + 1)[n + 1] = step[<<n, g(n + 1)[n]>>]
    BY ONLY <2>1, <2>2
  <2>4. n \in A /\ n <= n + 1 /\ n <= n
    <3> HIDE DEF A, h
    <3>1. n \in A
      BY <1>6
    <3> QED  BY <3>1
  <2>5. \A a, b \in Nat : \A x \in Upto(a), y \in Upto(b) : n <= a /\ n <= b => x[n] = y[n]
    <3>1. n \in A
      BY <2>4
    <3> HIDE DEF Upto, h
    <3> QED  BY <3>1
  <2> HIDE DEF Upto
  <2>6. g(n + 1)[n] = g(n)[n]
    BY <2>1, <2>4, <2>5
  <2> QED  BY <2>3, <2>6
<1> HIDE DEF h
<1>12. Recurs(h, base, step)
  BY <1>10, <1>11 DEF Recurs
<1> QED  BY <1>9, <1>12

\* r is the elements of s at the positions of T, in their order.
Selects(r, s, T) ==
    \E e \in Seq(Nat) :
        /\ Len(e) = Len(r)
        /\ \A i \in 1 .. Len(e) : e[i] \in T /\ r[i] = s[e[i]]
        /\ \A i, j \in 1 .. Len(e) : i < j => e[i] < e[j]
        /\ \A t \in T : \E i \in 1 .. Len(e) : e[i] = t
\* The function a Filter recurs by, when its test holds of the positions of T.
Filters(f, s, T) ==
    f = [n \in 0 .. Len(s) |-> IF n = 0 THEN <<>>
                               ELSE IF n \in T THEN Append(f[n - 1], s[n]) ELSE f[n - 1]]

\* A Filter has a value,
LEMMA FilterExists ==
    ASSUME NEW S, NEW s \in Seq(S), NEW T
    PROVE  \E f : Filters(f, s, T)
<1> DEFINE V == Seq(S)
           next(m, t) == IF m \in T THEN Append(t, s[m]) ELSE t
           step == [x \in Nat \X V |-> IF x[1] + 1 \in 1 .. Len(s) THEN next(x[1] + 1, x[2]) ELSE x[2]]
<1>0. Len(s) \in Nat /\ \A m \in 1 .. Len(s) : s[m] \in S
  OBVIOUS
<1>1. ASSUME NEW m \in 1 .. Len(s), NEW t \in V PROVE next(m, t) \in V
  BY <1>0
<1> HIDE DEF next
<1>2. step \in [Nat \X V -> V]
  BY <1>1
<1>3. <<>> \in V
  OBVIOUS
<1>4. PICK h \in [Nat -> V] : Recurs(h, <<>>, step)
  <2> HIDE DEF step, V
  <2> QED  BY <1>2, <1>3, RecursionExists
<1> HIDE DEF V
<1>5. h[0] = <<>> /\ \A m \in 1 .. Len(s) : h[m] = next(m, h[m - 1])
  <2>3. h[0] = <<>>
    BY <1>4 DEF Recurs
  <2> SUFFICES ASSUME NEW m \in 1 .. Len(s) PROVE h[m] = next(m, h[m - 1])
    BY <2>3
  <2>1. m - 1 \in Nat /\ (m - 1) + 1 = m
    BY <1>0
  <2>2. h[(m - 1) + 1] = step[<<m - 1, h[m - 1]>>] /\ h[m - 1] \in V
    BY <2>1, <1>4 DEF Recurs
  <2> QED  BY <2>1, <2>2
<1> HIDE DEF step
<1> DEFINE k == [n \in 0 .. Len(s) |-> h[n]]
<1>6. k = [n \in 0 .. Len(s) |-> IF n = 0 THEN <<>> ELSE next(n, k[n - 1])]
  <2>1. ASSUME NEW n \in 0 .. Len(s) PROVE h[n] = IF n = 0 THEN <<>> ELSE next(n, k[n - 1])
    <3>1. CASE n = 0
      BY <3>1, <1>5
    <3>2. CASE n # 0
      <4>1. n \in 1 .. Len(s) /\ n - 1 \in 0 .. Len(s)
        BY <3>2, <1>0
      <4> QED  BY <3>2, <4>1, <1>5
    <3> QED  BY <3>1, <3>2
  <2> QED  BY <2>1
<1> HIDE DEF k
<1> QED  BY <1>6 DEF Filters, next

\* which selects the elements that pass the test.
LEMMA FilterSelects ==
    ASSUME NEW S, NEW s \in Seq(S), NEW T \in SUBSET (1 .. Len(s)), NEW f, Filters(f, s, T)
    PROVE  f[Len(s)] \in Seq(S) /\ Selects(f[Len(s)], s, T)
<1>0. /\ Len(s) \in Nat /\ \A m \in 1 .. Len(s) : s[m] \in S
      /\ \A t \in T : t \in Nat /\ t >= 1 /\ t <= Len(s)
  <2>1. \A t \in T : t \in 1 .. Len(s)
    OBVIOUS
  <2> QED  BY <2>1
<1>1. /\ f[0] = <<>>
      /\ \A n \in 1 .. Len(s) : n \in T => f[n] = Append(f[n - 1], s[n])
      /\ \A n \in 1 .. Len(s) : n \notin T => f[n] = f[n - 1]
  <2>1. \A n \in 0 .. Len(s) : f[n] = IF n = 0 THEN <<>>
                                      ELSE IF n \in T THEN Append(f[n - 1], s[n]) ELSE f[n - 1]
    BY DEF Filters
  <2>2. 0 \in 0 .. Len(s) /\ \A n \in 1 .. Len(s) : n \in 0 .. Len(s) /\ n # 0
    BY <1>0
  <2> QED  BY <2>1, <2>2
<1> DEFINE upto(n) == {t \in T : t <= n}
           good(n) == f[n] \in Seq(S) /\ Selects(f[n], s, upto(n))
           G == {n \in Nat : n <= Len(s) => good(n)}
<1>2. 0 \in G
  <2>1. upto(0) = {}
    <3>1. \A t \in T : ~ (t <= 0)
      BY <1>0
    <3> QED  BY <3>1
  <2>2. <<>> \in Seq(S) /\ <<>> \in Seq(Nat) /\ Len(<<>>) = 0 /\ 1 .. 0 = {}
    OBVIOUS
  <2>3. Selects(<<>>, s, {})
    BY <2>2 DEF Selects
  <2> QED  BY <2>1, <2>2, <2>3, <1>1
<1>3. ASSUME NEW n \in G PROVE n + 1 \in G
  <2> SUFFICES ASSUME n + 1 <= Len(s) PROVE good(n + 1)
    OBVIOUS
  <2>1. /\ n \in Nat /\ n <= Len(s) /\ n + 1 \in 1 .. Len(s) /\ (n + 1) - 1 = n
        /\ f[n] \in Seq(S) /\ Selects(f[n], s, upto(n)) /\ s[n + 1] \in S
    BY <1>0
  <2>2. CASE n + 1 \notin T
    <3>1. f[n + 1] = f[n]
      BY <2>1, <2>2, <1>1
    <3>2. upto(n + 1) = upto(n)
      <4>1. \A t \in T : t \in Nat /\ t # n + 1
        BY <2>2, <1>0
      <4>2. \A t \in T : t <= n + 1 <=> t <= n
        BY <4>1, <2>1
      <4> QED  BY <4>2
    <3> QED  BY <2>1, <3>1, <3>2
  <2>3. CASE n + 1 \in T
    <3> DEFINE t == f[n]
               u == f[n + 1]
    <3>1. u = Append(t, s[n + 1])
      BY <2>1, <2>3, <1>1
    <3>2. /\ u \in Seq(S) /\ Len(u) = Len(t) + 1 /\ u[Len(t) + 1] = s[n + 1] /\ Len(t) \in Nat
          /\ \A i \in 1 .. Len(t) : u[i] = t[i]
      BY <2>1, <3>1, AppendProperties
    <3>3. PICK e \in Seq(Nat) :
              /\ Len(e) = Len(t)
              /\ \A i \in 1 .. Len(e) : e[i] \in upto(n) /\ t[i] = s[e[i]]
              /\ \A i, j \in 1 .. Len(e) : i < j => e[i] < e[j]
              /\ \A x \in upto(n) : \E i \in 1 .. Len(e) : e[i] = x
      BY <2>1 DEF Selects
    <3> HIDE DEF t, u
    <3> DEFINE g == Append(e, n + 1)
    <3>4. /\ g \in Seq(Nat) /\ Len(g) = Len(e) + 1 /\ g[Len(e) + 1] = n + 1 /\ Len(e) \in Nat
          /\ \A i \in 1 .. Len(e) : g[i] = e[i]
      BY <2>1, <3>3, AppendProperties
    <3> HIDE DEF g
    <3>5. Len(g) = Len(u) /\ \A i \in 1 .. Len(g) : i \in 1 .. Len(e) \/ i = Len(e) + 1
      BY <3>2, <3>3, <3>4
    <3>6. ASSUME NEW i \in 1 .. Len(g) PROVE g[i] \in upto(n + 1) /\ u[i] = s[g[i]]
      <4>1. CASE i \in 1 .. Len(e)
        <5>1. g[i] = e[i]
          BY <4>1, <3>4
        <5>2. e[i] \in upto(n) /\ t[i] = s[e[i]]
          BY <4>1, <3>3
        <5>3. u[i] = t[i]
          BY <4>1, <3>2, <3>3
        <5>4. e[i] \in Nat
          BY <4>1, <3>3
        <5>5. g[i] = e[i] /\ e[i] \in T /\ e[i] <= n /\ t[i] = s[e[i]] /\ u[i] = t[i] /\ e[i] \in Nat
          BY <5>1, <5>2, <5>3, <5>4
        <5> QED  BY <5>5, <2>1
      <4>2. CASE i = Len(e) + 1
        BY <4>2, <3>2, <3>3, <3>4, <2>1, <2>3
      <4> QED  BY <4>1, <4>2, <3>5
    <3>7. ASSUME NEW i \in 1 .. Len(g), NEW j \in 1 .. Len(g), i < j PROVE g[i] < g[j]
      <4>1. i \in 1 .. Len(e)
        BY <3>7, <3>4, <3>5
      <4>2. g[i] = e[i] /\ e[i] <= n /\ e[i] \in Nat
        <5>1. g[i] = e[i]
          BY <4>1, <3>4
        <5>2. e[i] \in upto(n)
          BY <4>1, <3>3
        <5>3. e[i] \in Nat
          BY <4>1, <3>3
        <5> QED  BY <5>1, <5>2, <5>3
      <4>3. CASE j \in 1 .. Len(e)
        BY <4>1, <4>3, <3>3, <3>4, <3>7
      <4>4. CASE j = Len(e) + 1
        BY <4>2, <4>4, <3>4, <2>1
      <4> QED  BY <4>3, <4>4, <3>5
    <3>8. ASSUME NEW x \in upto(n + 1) PROVE \E i \in 1 .. Len(g) : g[i] = x
      <4>1. CASE x <= n
        <5>1. PICK i \in 1 .. Len(e) : e[i] = x
          BY <4>1, <3>3
        <5>2. i \in 1 .. Len(g) /\ g[i] = x
          BY <5>1, <3>4
        <5> QED  BY <5>2
      <4>2. CASE ~ (x <= n)
        <5>1. x \in Nat /\ x = n + 1
          BY <4>2, <2>1, <1>0
        <5>2. Len(e) + 1 \in 1 .. Len(g)
          BY <3>4
        <5> QED  BY <5>1, <5>2, <3>4
      <4> QED  BY <4>1, <4>2
    <3> HIDE DEF upto
    <3>9. Selects(u, s, upto(n + 1))
      BY <3>4, <3>5, <3>6, <3>7, <3>8 DEF Selects
    <3> QED  BY <3>2, <3>9 DEF u
  <2> QED  BY <2>2, <2>3
<1>4. G = Nat
  <2>1. G \in SUBSET Nat
    OBVIOUS
  <2> HIDE DEF G
  <2> QED  BY <1>2, <1>3, <2>1, SetInduction
<1>5. good(Len(s))
  <2>1. Len(s) \in G
    BY <1>0, <1>4
  <2> QED  BY <2>1, <1>0
<1>6. upto(Len(s)) = T
  BY <1>0
<1> HIDE DEF upto
<1> QED  BY <1>5, <1>6

-----------------------------------------------------------------------------
(* The crawl of a website.                                                   *)

Items == [url : Urls \cup {Root}, depth : Nat]
CrawlTypes ==
    /\ allowed \in SUBSET Urls
    /\ queue \in Seq(Items) /\ fetched \in Seq(Items) /\ batch \in Seq(Items)
    /\ pages \in Seq(Urls \cup {Root, Nothing})
    /\ answers \in Seq(Seq(Urls))
\* Every item that was ever enqueued, in its order.
Log == fetched \o queue
\* The allowed links that the p-th result gave.
Linking(p) == {answers[p][k] : k \in 1 .. Len(answers[p])} \cap allowed
LogIsSeen ==
    /\ \A i, j \in 1 .. Len(Log) : Log[i].url = Log[j].url => i = j
    /\ seen = {Log[i].url : i \in 1 .. Len(Log)}
\* The results that were not handled are those of the batch, unless the page limit
\* dropped them.
BatchIsNext ==
    /\ Len(answers) <= Len(fetched)
    /\ batch # <<>> => /\ Len(answers) + Len(batch) = Len(fetched)
                       /\ \A i \in 1 .. Len(batch) : batch[i] = fetched[Len(answers) + i]
    /\ batch = <<>> /\ Len(pages) < MaxPages => Len(answers) = Len(fetched)
\* The crawl goes by layers: no item is before one of a smaller depth.
Layered ==
    /\ Len(Log) >= 1 /\ Log[1] = [url |-> Root, depth |-> 0]
    /\ \A i, j \in 1 .. Len(Log) : i <= j => Log[i].depth <= Log[j].depth
    /\ \A i \in 1 .. Len(Log) : Log[i].depth <= MaxDepth
\* An item was found in a result one layer above, and a link of a result above the limit
\* was enqueued, if not for it then for a result before it.
Found ==
    \A i \in 2 .. Len(Log) : \E p \in 1 .. Len(answers) :
        Log[i].depth = Log[p].depth + 1 /\ Log[i].url \in Linking(p)
Followed ==
    \A p \in 1 .. Len(answers) : Log[p].depth < MaxDepth =>
        \A l \in Linking(p) : \E k \in 1 .. Len(Log) :
            Log[k].url = l /\ Log[k].depth <= Log[p].depth + 1
\* The page limit is passed by less than a batch.
Room == Len(pages) + Len(batch) < MaxPages + Concurrency
CrawlInv ==
    part = "crawl" => /\ CrawlTypes /\ LogIsSeen /\ BatchIsNext /\ Layered
                      /\ Found /\ Followed /\ Room

\* The distance sets, unfolded.
LEMMA WithinUnfolds ==
    ASSUME answers \in Seq(Seq(Urls)), allowed \in SUBSET Urls
    PROVE  /\ Crawl!Within[0] = {Root}
           /\ \A n \in Nat : Crawl!Within[n + 1] =
                  Crawl!Within[n] \cup UNION {Crawl!Linked(u) : u \in Crawl!Within[n]}
<1> DEFINE V == SUBSET (Urls \cup {Root})
           next(s) == s \cup UNION {Crawl!Linked(u) : u \in s}
           step == [x \in Nat \X V |-> next(x[2])]
<1>1. ASSUME NEW u PROVE Crawl!Linked(u) \subseteq Urls
  BY DEF Crawl!Linked
<1>2. step \in [Nat \X V -> V]
  <2> SUFFICES ASSUME NEW x \in Nat \X V PROVE next(x[2]) \in V
    OBVIOUS
  <2> QED  BY <1>1
<1>3. {Root} \in V
  OBVIOUS
<1> HIDE DEF V
<1>4. PICK h \in [Nat -> V] : Recurs(h, {Root}, step)
  <2> HIDE DEF step
  <2> QED  BY <1>2, <1>3, RecursionExists
<1>5. h[0] = {Root} /\ \A n \in Nat : h[n + 1] = next(h[n])
  BY <1>4 DEF Recurs
<1> HIDE DEF next
<1>6. h = [n \in Nat |-> IF n = 0 THEN {Root} ELSE next(h[n - 1])]
  <2>1. ASSUME NEW n \in Nat PROVE h[n] = IF n = 0 THEN {Root} ELSE next(h[n - 1])
    <3>1. CASE n = 0
      BY <3>1, <1>5
    <3>2. CASE n # 0
      <4>1. n - 1 \in Nat /\ n = (n - 1) + 1
        BY <3>2
      <4>2. h[(n - 1) + 1] = next(h[n - 1])
        BY <4>1, <1>5
      <4> QED  BY <3>2, <4>1, <4>2
    <3> QED  BY <3>1, <3>2
  <2> QED  BY <1>4, <2>1
<1>7. Crawl!Within = [n \in Nat |-> IF n = 0 THEN {Root} ELSE next(Crawl!Within[n - 1])]
  <2>1. \E f : f = [n \in Nat |-> IF n = 0 THEN {Root}
                                  ELSE f[n - 1] \cup UNION {Crawl!Linked(u) : u \in f[n - 1]}]
    BY <1>6 DEF next
  <2>2. Crawl!Within = [n \in Nat |-> IF n = 0 THEN {Root}
           ELSE Crawl!Within[n - 1] \cup UNION {Crawl!Linked(u) : u \in Crawl!Within[n - 1]}]
    BY <2>1 DEF Crawl!Within
  <2> QED  BY <2>2 DEF next
<1>8. Crawl!Within[0] = {Root}
  BY <1>7
<1>9. ASSUME NEW n \in Nat PROVE Crawl!Within[n + 1] = next(Crawl!Within[n])
  <2>1. n + 1 \in Nat /\ n + 1 # 0 /\ (n + 1) - 1 = n
    OBVIOUS
  <2> QED  BY <1>7, <2>1
<1> QED  BY <1>8, <1>9 DEF next

\* What the loop over the links of a page keeps: those that are allowed and new, each once.
LEMMA FreshLinks ==
    ASSUME NEW s \in Seq(Urls), IsInjective(s)
    PROVE  /\ Crawl!Fresh(s) \in Seq(Urls)
           /\ \A i, j \in 1 .. Len(Crawl!Fresh(s)) : Crawl!Fresh(s)[i] = Crawl!Fresh(s)[j] => i = j
           /\ {Crawl!Fresh(s)[i] : i \in 1 .. Len(Crawl!Fresh(s))}
                = {s[i] : i \in 1 .. Len(s)} \cap (allowed \ seen)
<1> DEFINE keeps(link) == link \notin seen /\ link \in allowed
           T == {m \in 1 .. Len(s) : keeps(s[m])}
           k == CHOOSE f : f = [n \in 0 .. Len(s) |->
                    IF n = 0 THEN <<>> ELSE IF keeps(s[n]) THEN Append(f[n - 1], s[n]) ELSE f[n - 1]]
           r == Crawl!Fresh(s)
<1>1. T \in SUBSET (1 .. Len(s)) /\ Len(s) \in Nat
  OBVIOUS
<1>2. r = k[Len(s)]
  BY DEF Crawl!Fresh, Crawl!Filter
<1>3. \A n \in 0 .. Len(s) : n # 0 => (keeps(s[n]) <=> n \in T)
  BY <1>1
<1> HIDE DEF keeps, T
<1>4. \E f : f = [n \in 0 .. Len(s) |->
                    IF n = 0 THEN <<>> ELSE IF keeps(s[n]) THEN Append(f[n - 1], s[n]) ELSE f[n - 1]]
  <2>1. PICK f : Filters(f, s, T)
    BY FilterExists
  <2>2. f = [n \in 0 .. Len(s) |->
                    IF n = 0 THEN <<>> ELSE IF keeps(s[n]) THEN Append(f[n - 1], s[n]) ELSE f[n - 1]]
    BY <2>1, <1>3 DEF Filters
  <2> QED  BY <2>2
<1>5. k = [n \in 0 .. Len(s) |->
               IF n = 0 THEN <<>> ELSE IF keeps(s[n]) THEN Append(k[n - 1], s[n]) ELSE k[n - 1]]
  BY <1>4
<1> HIDE DEF k, r
<1>6. Filters(k, s, T)
  BY <1>5, <1>3 DEF Filters
<1>7. r \in Seq(Urls) /\ Selects(r, s, T)
  BY <1>1, <1>2, <1>6, FilterSelects
<1>8. PICK e \in Seq(Nat) :
        /\ Len(e) = Len(r)
        /\ \A i \in 1 .. Len(e) : e[i] \in T /\ r[i] = s[e[i]]
        /\ \A i, j \in 1 .. Len(e) : i < j => e[i] < e[j]
        /\ \A t \in T : \E i \in 1 .. Len(e) : e[i] = t
  BY <1>7 DEF Selects
<1>9. Len(r) \in Nat /\ \A t \in T : t \in 1 .. Len(s) /\ t \in Nat
  BY <1>1, <1>7
<1>10. ASSUME NEW i \in 1 .. Len(r), NEW j \in 1 .. Len(r), r[i] = r[j] PROVE i = j
  <2>1. e[i] \in DOMAIN s /\ e[j] \in DOMAIN s /\ s[e[i]] = s[e[j]]
    BY <1>8, <1>9, <1>10
  <2>2. e[i] = e[j]
    BY <2>1 DEF IsInjective
  <2>3. e[i] \in Nat
    BY <1>8, <1>9
  <2>4. ~ (i < j) /\ ~ (j < i)
    BY <1>8, <2>2, <2>3
  <2> QED  BY <1>9, <2>4
<1>11. \A m \in 1 .. Len(s) : m \in T <=> s[m] \in allowed \ seen
  BY DEF T, keeps
<1>12. {r[i] : i \in 1 .. Len(r)} \subseteq {s[i] : i \in 1 .. Len(s)} \cap (allowed \ seen)
  <2> SUFFICES ASSUME NEW i \in 1 .. Len(r)
               PROVE  r[i] \in {s[m] : m \in 1 .. Len(s)} /\ r[i] \in allowed \ seen
    OBVIOUS
  <2>1. e[i] \in 1 .. Len(s) /\ e[i] \in T /\ r[i] = s[e[i]]
    BY <1>8, <1>9
  <2> QED  BY <2>1, <1>11
<1>13. {s[i] : i \in 1 .. Len(s)} \cap (allowed \ seen) \subseteq {r[i] : i \in 1 .. Len(r)}
  <2> SUFFICES ASSUME NEW m \in 1 .. Len(s), s[m] \in allowed \ seen
               PROVE  s[m] \in {r[i] : i \in 1 .. Len(r)}
    OBVIOUS
  <2>1. PICK i \in 1 .. Len(e) : e[i] = m
    BY <1>8, <1>11
  <2> QED  BY <2>1, <1>8
<1> QED  BY <1>7, <1>10, <1>12, <1>13 DEF r

\* The items that a result enqueues: its links that are allowed and new, one layer below.
LEMMA EnqueuedItems ==
    ASSUME NEW item \in Items, NEW result, result.links \in Seq(Urls), IsInjective(result.links),
           allowed \in SUBSET Urls, MaxDepth \in Nat
    PROVE  LET new == Crawl!Enqueued(item, result)
               links == {result.links[k] : k \in 1 .. Len(result.links)} \cap allowed IN
           /\ new \in Seq(Items)
           /\ \A i \in 1 .. Len(new) : /\ new[i].depth = item.depth + 1
                                       /\ new[i].url \in links \ seen
           /\ \A i, j \in 1 .. Len(new) : new[i].url = new[j].url => i = j
           /\ new # <<>> => item.depth < MaxDepth
           /\ item.depth < MaxDepth => \A l \in links \ seen : \E i \in 1 .. Len(new) : new[i].url = l
           /\ {i.url : i \in Crawl!Range(new)} = {new[i].url : i \in 1 .. Len(new)}
<1> DEFINE s == result.links
           new == Crawl!Enqueued(item, result)
           fresh == Crawl!Fresh(s)
           built == [i \in DOMAIN fresh |-> [url |-> fresh[i], depth |-> item.depth + 1]]
<1>1. /\ fresh \in Seq(Urls)
      /\ \A i, j \in 1 .. Len(fresh) : fresh[i] = fresh[j] => i = j
      /\ {fresh[i] : i \in 1 .. Len(fresh)} = {s[i] : i \in 1 .. Len(s)} \cap (allowed \ seen)
  BY FreshLinks
<1>2. item.depth \in Nat /\ item.url \in Urls \cup {Root}
  BY DEF Items
<1>3. new = IF item.depth >= MaxDepth THEN <<>> ELSE built
  BY DEF Crawl!Enqueued
<1> HIDE DEF fresh, new
<1>4. Len(fresh) \in Nat /\ DOMAIN fresh = 1 .. Len(fresh)
  BY <1>1
<1>5. \A i \in 1 .. Len(fresh) : fresh[i] \in Urls
  BY <1>1
<1>6. \A i \in 1 .. Len(fresh) : built[i] = [url |-> fresh[i], depth |-> item.depth + 1] /\ built[i] \in Items
  BY <1>2, <1>4, <1>5 DEF Items
<1>7. built \in Seq(Items) /\ Len(built) = Len(fresh)
  <2>1. built \in [1 .. Len(fresh) -> Items]
    BY <1>4, <1>6
  <2> QED  BY <2>1, <1>4
<1> HIDE DEF built
<1>8. CASE item.depth >= MaxDepth
  <2>1. new = <<>> /\ Len(new) = 0 /\ 1 .. 0 = {} /\ ~ (item.depth < MaxDepth)
    BY <1>2, <1>3, <1>8
  <2>2. {i.url : i \in Crawl!Range(new)} = {} /\ {new[i].url : i \in 1 .. Len(new)} = {}
    <3>1. DOMAIN new = {}
      BY <2>1
    <3> QED  BY <2>1, <3>1 DEF Crawl!Range
  <2>3. new \in Seq(Items)
    BY <2>1
  <2> QED  BY <2>1, <2>2, <2>3 DEF new
<1>9. CASE ~ (item.depth >= MaxDepth)
  <2>1. new = built /\ item.depth < MaxDepth
    BY <1>2, <1>3, <1>9
  <2>2. new \in Seq(Items) /\ Len(new) = Len(fresh) /\ DOMAIN new = 1 .. Len(new)
    BY <2>1, <1>7, <1>4
  <2>3. \A i \in 1 .. Len(new) : new[i].depth = item.depth + 1 /\ new[i].url = fresh[i]
    BY <2>1, <2>2, <1>6
  <2>4. \A i, j \in 1 .. Len(new) : new[i].url = new[j].url => i = j
    BY <2>2, <2>3, <1>1
  <2>5. \A i \in 1 .. Len(new) : new[i].url \in ({s[k] : k \in 1 .. Len(s)} \cap allowed) \ seen
    <3>1. \A i \in 1 .. Len(fresh) : fresh[i] \in {s[k] : k \in 1 .. Len(s)} \cap (allowed \ seen)
      BY <1>1
    <3> QED  BY <2>2, <2>3, <3>1
  <2>6. \A l \in ({s[k] : k \in 1 .. Len(s)} \cap allowed) \ seen : \E i \in 1 .. Len(new) : new[i].url = l
    <3>1. \A l \in {s[k] : k \in 1 .. Len(s)} \cap (allowed \ seen) : l \in {fresh[i] : i \in 1 .. Len(fresh)}
      BY <1>1
    <3> QED  BY <2>2, <2>3, <3>1
  <2>7. {i.url : i \in Crawl!Range(new)} = {new[i].url : i \in 1 .. Len(new)}
    BY <2>2 DEF Crawl!Range
  <2> HIDE DEF s
  <2>8. new # <<>> => item.depth < MaxDepth
    BY <2>1
  <2>9. item.depth < MaxDepth => \A l \in ({s[k] : k \in 1 .. Len(s)} \cap allowed) \ seen :
                                     \E i \in 1 .. Len(new) : new[i].url = l
    BY <2>6
  <2> QED  BY <2>2, <2>3, <2>4, <2>5, <2>7, <2>8, <2>9 DEF new, s
<1> QED  BY <1>8, <1>9

\* What a result may hold: a page, and links that are a sequence without repetitions.
LEMMA AnswerLinks ==
    ASSUME NEW url \in Urls \cup {Root}, NEW result \in Crawl!Answers(url), MaxLinks \in Nat
    PROVE  /\ result.links \in Seq(Urls) /\ IsInjective(result.links)
           /\ result.page \in Urls \cup {Root, Nothing}
<1>1. CASE url \notin allowed
  <2>1. result.links = <<>> /\ result.page = Nothing
    BY <1>1 DEF Crawl!Answers
  <2>2. <<>> \in Seq(Urls) /\ IsInjective(<<>>)
    BY DEF IsInjective
  <2> QED  BY <2>1, <2>2
<1>2. CASE url \in allowed
  <2>1. result.links \in Crawl!Links /\ result.page \in {Nothing, url, Root}
    BY <1>2 DEF Crawl!Answers
  <2>2. PICK n \in 0 .. MaxLinks : result.links \in [1 .. n -> Urls \ {Root}]
    BY <2>1 DEF Crawl!Links
  <2>3. Crawl!IsInjective(result.links)
    BY <2>1 DEF Crawl!Links
  <2>4. IsInjective(result.links)
    BY <2>3 DEF Crawl!IsInjective, IsInjective
  <2>5. result.links \in Seq(Urls)
    <3>1. n \in Nat /\ result.links \in [1 .. n -> Urls]
      BY <2>2
    <3> QED  BY <3>1
  <2> QED  BY <2>1, <2>4, <2>5
<1> QED  BY <1>1, <1>2

\* The pages at a distance are the items of its layers, the pages whose results are not
\* handled yet included: nothing is known of their links.
LEMMA LayersAreDistances ==
    ASSUME CrawlTypes, LogIsSeen, BatchIsNext, Layered, Found, Followed, MaxDepth \in Nat,
           NEW m \in 0 .. MaxDepth
    PROVE  Crawl!Within[m] = {Log[i].url : i \in {j \in 1 .. Len(Log) : Log[j].depth <= m}}
<1> DEFINE L == Log
           I == 1 .. Len(L)
           near(n) == {L[i].url : i \in {j \in I : L[j].depth <= n}}
           G == {n \in Nat : n <= MaxDepth => Crawl!Within[n] = near(n)}
<1>0. /\ L \in Seq(Items) /\ Len(L) \in Nat /\ Len(L) = Len(fetched) + Len(queue)
      /\ \A i \in 1 .. Len(fetched) : L[i] = fetched[i]
      /\ Len(fetched) \in Nat /\ Len(answers) \in Nat /\ Len(answers) <= Len(fetched)
  <2>1. fetched \in Seq(Items) /\ queue \in Seq(Items) /\ answers \in Seq(Seq(Urls))
    BY DEF CrawlTypes
  <2>2. Len(fetched) \in Nat /\ Len(answers) \in Nat /\ Len(queue) \in Nat
    BY <2>1
  <2>3. Len(answers) <= Len(fetched)
    BY DEF BatchIsNext
  <2>4. /\ L \in Seq(Items) /\ Len(L) = Len(fetched) + Len(queue)
        /\ \A i \in 1 .. Len(fetched) + Len(queue) :
               L[i] = IF i <= Len(fetched) THEN fetched[i] ELSE queue[i - Len(fetched)]
    BY <2>1, ConcatProperties DEF Log
  <2> HIDE DEF L
  <2>5. \A i \in 1 .. Len(fetched) : i \in 1 .. Len(fetched) + Len(queue) /\ i <= Len(fetched)
    BY <2>2
  <2>6. \A i \in 1 .. Len(fetched) : L[i] = fetched[i]
    BY <2>4, <2>5
  <2>7. Len(L) \in Nat
    BY <2>2, <2>4
  <2> QED  BY <2>2, <2>3, <2>4, <2>6, <2>7
<1>1. \A i \in I : L[i] \in Items /\ L[i].depth \in Nat /\ L[i].url \in Urls \cup {Root}
  <2>1. \A x \in Items : x.depth \in Nat /\ x.url \in Urls \cup {Root}
    BY DEF Items
  <2>2. \A i \in I : L[i] \in Items
    BY <1>0
  <2> QED  BY <2>1, <2>2
<1>2. /\ \A i, j \in I : L[i].url = L[j].url => i = j
      /\ 1 \in I /\ L[1] = [url |-> Root, depth |-> 0]
  BY <1>0 DEF LogIsSeen, Layered
<1>3. \A i \in I \ {1} : \E p \in 1 .. Len(answers) : L[i].depth = L[p].depth + 1 /\ L[i].url \in Linking(p)
  BY <1>0 DEF Found
<1>4. \A p \in 1 .. Len(answers) : L[p].depth < MaxDepth =>
          \A l \in Linking(p) : \E k \in I : L[k].url = l /\ L[k].depth <= L[p].depth + 1
  BY DEF Followed
<1>5. \A p \in 1 .. Len(answers) : p \in I /\ fetched[p] = L[p]
  BY <1>0
<1>6. /\ Crawl!Within[0] = {Root}
      /\ \A n \in Nat : Crawl!Within[n + 1] =
             Crawl!Within[n] \cup UNION {Crawl!Linked(u) : u \in Crawl!Within[n]}
  BY WithinUnfolds DEF CrawlTypes
<1>7. \A u, l : l \in Crawl!Linked(u) <=> \E p \in 1 .. Len(answers) : L[p].url = u /\ l \in Linking(p)
  <2>1. answers \in Seq(Seq(Urls)) /\ DOMAIN answers = 1 .. Len(answers)
    BY DEF CrawlTypes
  <2>2. \A p \in 1 .. Len(answers) : Crawl!Range(answers[p]) = {answers[p][k] : k \in 1 .. Len(answers[p])}
    <3> SUFFICES ASSUME NEW p \in 1 .. Len(answers)
                 PROVE  Crawl!Range(answers[p]) = {answers[p][k] : k \in 1 .. Len(answers[p])}
      OBVIOUS
    <3>1. answers[p] \in Seq(Urls)
      BY <2>1
    <3>2. DOMAIN answers[p] = 1 .. Len(answers[p])
      BY <3>1
    <3> QED  BY <3>2 DEF Crawl!Range
  <2>3. \A u : Crawl!Linked(u) = UNION {Linking(p) : p \in {j \in 1 .. Len(answers) : L[j].url = u}}
    <3> SUFFICES ASSUME NEW u
                 PROVE  Crawl!Linked(u) = UNION {Linking(p) : p \in {j \in 1 .. Len(answers) : L[j].url = u}}
      OBVIOUS
    <3>1. {j \in DOMAIN answers : fetched[j].url = u} = {j \in 1 .. Len(answers) : L[j].url = u}
      BY <2>1, <1>5
    <3>2. \A p \in 1 .. Len(answers) : Crawl!Range(answers[p]) \cap allowed = Linking(p)
      BY <2>2 DEF Linking
    <3> HIDE DEF L
    <3> QED  BY <3>1, <3>2 DEF Crawl!Linked
  <2> HIDE DEF L
  <2> QED  BY <2>3
<1> HIDE DEF L
<1>8. 0 \in G
  <2>1. \A i \in I : L[i].depth <= 0 => i = 1
    <3> SUFFICES ASSUME NEW i \in I, L[i].depth <= 0, i # 1 PROVE FALSE
      OBVIOUS
    <3>1. PICK p \in 1 .. Len(answers) : L[i].depth = L[p].depth + 1
      BY <1>3
    <3> QED  BY <3>1, <1>1, <1>5
  <2>2. near(0) = {Root}
    BY <2>1, <1>2
  <2> QED  BY <2>2, <1>6
<1>9. ASSUME NEW n \in G PROVE n + 1 \in G
  <2> SUFFICES ASSUME n + 1 <= MaxDepth PROVE Crawl!Within[n + 1] = near(n + 1)
    OBVIOUS
  <2>1. n \in Nat /\ n < MaxDepth /\ Crawl!Within[n] = near(n)
    OBVIOUS
  <2>2. ASSUME NEW u \in near(n), NEW l \in Crawl!Linked(u) PROVE l \in near(n + 1)
    <3>1. PICK i \in I : L[i].depth <= n /\ L[i].url = u
      OBVIOUS
    <3>2. PICK p \in 1 .. Len(answers) : L[p].url = u /\ l \in Linking(p)
      BY <1>7
    <3>3. p = i
      BY <3>1, <3>2, <1>2, <1>5
    <3>4. L[p].depth \in Nat /\ L[p].depth <= n /\ L[p].depth < MaxDepth
      BY <3>1, <3>3, <2>1, <1>1
    <3>5. PICK k \in I : L[k].url = l /\ L[k].depth <= L[p].depth + 1
      BY <3>2, <3>4, <1>4
    <3>6. L[k].depth \in Nat
      BY <3>5, <1>1
    <3>7. \A x, y \in Nat : x <= y + 1 /\ y <= n => x <= n + 1
      BY <2>1
    <3>8. L[k].depth <= n + 1
      BY <3>4, <3>5, <3>6, <3>7
    <3> QED  BY <3>5, <3>8
  <2>3. near(n) \subseteq near(n + 1)
    <3>1. \A i \in I : L[i].depth <= n => L[i].depth <= n + 1
      BY <1>1, <2>1
    <3> QED  BY <3>1
  <2>4. ASSUME NEW i \in I, L[i].depth <= n + 1
        PROVE  L[i].url \in near(n) \cup UNION {Crawl!Linked(u) : u \in near(n)}
    <3>1. CASE L[i].depth <= n
      BY <3>1
    <3>2. CASE ~ (L[i].depth <= n)
      <4>1. L[i].depth = n + 1 /\ i # 1
        BY <3>2, <2>4, <2>1, <1>1, <1>2
      <4>2. PICK p \in 1 .. Len(answers) : L[i].depth = L[p].depth + 1 /\ L[i].url \in Linking(p)
        BY <4>1, <1>3
      <4>3. p \in I /\ L[p].depth \in Nat /\ L[p].depth <= n
        BY <4>1, <4>2, <2>1, <1>1, <1>5
      <4>4. L[p].url \in near(n)
        BY <4>3
      <4>5. L[i].url \in Crawl!Linked(L[p].url)
        BY <4>2, <1>7
      <4> QED  BY <4>4, <4>5
    <3> QED  BY <3>1, <3>2
  <2>5. near(n) \cup UNION {Crawl!Linked(u) : u \in near(n)} = near(n + 1)
    <3>1. near(n) \cup UNION {Crawl!Linked(u) : u \in near(n)} \subseteq near(n + 1)
      BY <2>2, <2>3
    <3>2. near(n + 1) \subseteq near(n) \cup UNION {Crawl!Linked(u) : u \in near(n)}
      BY <2>4
    <3> QED  BY <3>1, <3>2
  <2> QED  BY <2>1, <2>5, <1>6
<1>10. G = Nat
  <2>1. G \in SUBSET Nat
    OBVIOUS
  <2> HIDE DEF G
  <2> QED  BY <1>8, <1>9, <2>1, SetInduction
<1> QED
  <2>1. m \in Nat /\ m <= MaxDepth
    OBVIOUS
  <2>2. m \in G
    BY <2>1, <1>10
  <2>3. Crawl!Within[m] = near(m)
    BY <2>1, <2>2
  <2> QED  BY <2>3 DEF L

\* At the start the root is enqueued.
LEMMA CrawlInitially == ServicesInit => CrawlInv
<1> SUFFICES ASSUME ServicesInit, part = "crawl"
             PROVE  CrawlTypes /\ LogIsSeen /\ BatchIsNext /\ Layered /\ Found /\ Followed /\ Room
  BY DEF CrawlInv
<1> DEFINE root == [url |-> Root, depth |-> 0]
<1>1. /\ allowed \in SUBSET Urls /\ queue = <<root>> /\ seen = {Root} /\ batch = <<>>
      /\ pages = <<>> /\ answers = <<>> /\ fetched = <<>>
  BY DEF ServicesInit, Crawl!CrawlInit
<1>2. root \in Items
  BY DEF Items
<1>3. CrawlTypes
  BY <1>1, <1>2 DEF CrawlTypes
<1>4. Log = <<root>>
  BY <1>1, <1>2 DEF Log
<1>5. Len(Log) = 1 /\ Log[1] = root /\ 1 .. 1 = {1} /\ 2 .. 1 = {} /\ 1 .. 0 = {}
  BY <1>4
<1>6. Len(answers) = 0 /\ Len(fetched) = 0 /\ Len(pages) = 0 /\ Len(batch) = 0
  BY <1>1
<1>7. LogIsSeen
  BY <1>1, <1>5 DEF LogIsSeen
<1>8. BatchIsNext
  BY <1>1, <1>6 DEF BatchIsNext
<1>9. Layered
  BY <1>5, CrawlAssumption DEF Layered
<1>10. Found /\ Followed
  BY <1>5, <1>6 DEF Found, Followed
<1>11. Room
  BY <1>6, CrawlAssumption DEF Room
<1> QED  BY <1>3, <1>7, <1>8, <1>9, <1>10, <1>11

\* Taking a batch moves items from the queue to those fetched: their order is the same.
LEMMA TakeBatchKeepsInv ==
    ASSUME CrawlInv, part = "crawl", part' = part, Crawl!TakeBatch
    PROVE  CrawlInv'
<1>1. CrawlTypes /\ LogIsSeen /\ BatchIsNext /\ Layered /\ Found /\ Followed /\ Room
  BY DEF CrawlInv
<1>2. /\ batch = <<>> /\ queue # <<>> /\ Len(pages) < MaxPages
      /\ batch' = Crawl!Splice(queue, Concurrency) /\ queue' = Crawl!Rest(queue, Concurrency)
      /\ fetched' = fetched \o batch'
      /\ allowed' = allowed /\ seen' = seen /\ pages' = pages /\ answers' = answers
  BY DEF Crawl!TakeBatch
<1>3. fetched \in Seq(Items) /\ queue \in Seq(Items) /\ answers \in Seq(Seq(Urls))
  BY <1>1 DEF CrawlTypes
<1> DEFINE cut == IF Len(queue) < Concurrency THEN Len(queue) ELSE Concurrency
<1>4. Len(queue) \in Nat \ {0} /\ Concurrency \in Nat \ {0} /\ cut \in 1 .. Len(queue) /\ cut <= Concurrency
  BY <1>2, <1>3, CrawlAssumption
<1>5. batch' = SubSeq(queue, 1, cut)
  BY <1>2 DEF Crawl!Splice
<1>6. queue' = SubSeq(queue, cut + 1, Len(queue))
  <2>1. CASE Len(queue) < Concurrency
    <3>1. SubSeq(queue, Concurrency + 1, Len(queue)) = <<>>
      BY <2>1, <1>4, SubSeqEmpty
    <3>2. SubSeq(queue, Len(queue) + 1, Len(queue)) = <<>>
      BY <1>4, SubSeqEmpty
    <3> QED  BY <2>1, <3>1, <3>2, <1>2 DEF Crawl!Rest
  <2>2. CASE ~ (Len(queue) < Concurrency)
    BY <2>2, <1>2 DEF Crawl!Rest
  <2> QED  BY <2>1, <2>2
<1> HIDE DEF cut
<1>7. batch' \in Seq(Items) /\ Len(batch') = cut /\ queue' \in Seq(Items)
  <2>1. \A i \in 1 .. cut : queue[i] \in Items
    BY <1>3, <1>4
  <2>2. \A i \in cut + 1 .. Len(queue) : queue[i] \in Items
    BY <1>3, <1>4
  <2>3. SubSeq(queue, 1, cut) \in Seq(Items) /\ Len(SubSeq(queue, 1, cut)) = cut
    BY <2>1, <1>4, SubSeqProperties
  <2>4. SubSeq(queue, cut + 1, Len(queue)) \in Seq(Items)
    BY <2>2, <1>4, SubSeqProperties
  <2> QED  BY <2>3, <2>4, <1>5, <1>6
<1>8. batch' \o queue' = queue
  <2>1. SubSeq(queue, 1, cut) \o SubSeq(queue, cut + 1, Len(queue)) = SubSeq(queue, 1, Len(queue))
    <3>1. 1 \in 1 .. Len(queue) + 1 /\ cut \in 1 - 1 .. Len(queue) /\ Len(queue) \in cut .. Len(queue)
      BY <1>4
    <3> QED  BY <3>1, <1>3, ConcatAdjacentSubSeq
  <2>2. SubSeq(queue, 1, Len(queue)) = queue
    BY <1>3, SubSeqFull
  <2> QED  BY <2>1, <2>2, <1>5, <1>6
<1>9. Log' = Log
  <2>1. fetched \in Seq(Items) /\ batch' \in Seq(Items) /\ queue' \in Seq(Items)
    BY <1>3, <1>7
  <2>2. (fetched \o batch') \o queue' = fetched \o (batch' \o queue')
    BY ONLY <2>1, ConcatAssociative
  <2> QED  BY <2>2, <1>8, <1>2 DEF Log
<1>10. Len(answers) = Len(fetched)
  BY <1>1, <1>2 DEF BatchIsNext
<1>11. /\ fetched' \in Seq(Items) /\ Len(fetched') = Len(fetched) + cut
       /\ \A i \in 1 .. cut : fetched'[Len(fetched) + i] = batch'[i]
  <2>1. /\ fetched' \in Seq(Items) /\ Len(fetched') = Len(fetched) + Len(batch')
        /\ \A i \in 1 .. Len(fetched) + Len(batch') :
               fetched'[i] = IF i <= Len(fetched) THEN fetched[i] ELSE batch'[i - Len(fetched)]
    BY <1>2, <1>3, <1>7, ConcatProperties
  <2>2. Len(fetched) \in Nat
    BY <1>3
  <2>3. \A i \in 1 .. cut : /\ Len(fetched) + i \in 1 .. Len(fetched) + Len(batch')
                            /\ ~ (Len(fetched) + i <= Len(fetched))
                            /\ Len(fetched) + i - Len(fetched) = i
    BY <2>2, <1>4, <1>7
  <2> QED  BY <2>1, <2>3, <1>7
<1>12. CrawlTypes'
  BY <1>1, <1>2, <1>7, <1>11 DEF CrawlTypes
<1>13. LogIsSeen' /\ Layered'
  BY <1>1, <1>2, <1>9 DEF LogIsSeen, Layered
<1>14. Found' /\ Followed'
  BY <1>1, <1>2, <1>9 DEF Found, Followed, Linking
<1>15. BatchIsNext'
  <2>1. Len(fetched) \in Nat /\ cut \in Nat /\ cut > 0
    BY <1>3, <1>4
  <2>2. batch' # <<>>
    BY <1>7, <2>1
  <2>3. Len(answers') <= Len(fetched') /\ Len(answers') + Len(batch') = Len(fetched')
    BY <1>2, <1>7, <1>10, <1>11, <2>1
  <2>4. \A i \in 1 .. Len(batch') : batch'[i] = fetched'[Len(answers') + i]
    BY <1>2, <1>7, <1>10, <1>11
  <2> QED  BY <2>2, <2>3, <2>4 DEF BatchIsNext
<1>16. Room'
  <2>1. Len(pages) \in Nat
    BY <1>1 DEF CrawlTypes
  <2> QED  BY <2>1, <1>2, <1>4, <1>7, CrawlAssumption DEF Room
<1> QED  BY <1>12, <1>13, <1>14, <1>15, <1>16 DEF CrawlInv

\* A result adds its page to the pages and its new links to the queue.
LEMMA HandleResultKeepsInv ==
    ASSUME CrawlInv, part = "crawl", part' = part, Crawl!HandleResult
    PROVE  CrawlInv'
<1>1. CrawlTypes /\ LogIsSeen /\ BatchIsNext /\ Layered /\ Found /\ Followed /\ Room
  BY DEF CrawlInv
<1>2. /\ fetched \in Seq(Items) /\ queue \in Seq(Items) /\ answers \in Seq(Seq(Urls))
      /\ batch \in Seq(Items) /\ allowed \in SUBSET Urls /\ pages \in Seq(Urls \cup {Root, Nothing})
  BY <1>1 DEF CrawlTypes
<1>3. batch # <<>> /\ allowed' = allowed /\ fetched' = fetched
  BY DEF Crawl!HandleResult
<1> DEFINE item == Head(batch)
<1>4. PICK result \in Crawl!Answers(item.url) :
       /\ queue' = queue \o Crawl!Enqueued(item, result)
       /\ seen' = seen \cup {i.url : i \in Crawl!Range(Crawl!Enqueued(item, result))}
       /\ pages' = IF result.page # Nothing THEN Append(pages, result.page) ELSE pages
       /\ batch' = IF item.depth < MaxDepth /\ Len(pages') >= MaxPages THEN <<>> ELSE Tail(batch)
       /\ answers' = Append(answers, result.links)
  BY DEF Crawl!HandleResult
<1> DEFINE new == Crawl!Enqueued(item, result)
           links == {result.links[k] : k \in 1 .. Len(result.links)} \cap allowed
           L == Log
           M == Log'
           I == 1 .. Len(L)
           J == 1 .. Len(M)
<1>a. PICK a : a = Len(answers) + 1
  OBVIOUS
<1>5. /\ Len(fetched) \in Nat /\ Len(answers) \in Nat /\ Len(batch) \in Nat \ {0} /\ Len(pages) \in Nat
      /\ a = Len(answers) + 1 /\ Len(answers) + Len(batch) = Len(fetched) /\ a \in 1 .. Len(fetched)
      /\ \A i \in 1 .. Len(batch) : batch[i] = fetched[Len(answers) + i]
  <2>1. /\ Len(answers) + Len(batch) = Len(fetched)
        /\ \A i \in 1 .. Len(batch) : batch[i] = fetched[Len(answers) + i]
    BY <1>1, <1>3 DEF BatchIsNext
  <2>2. Len(fetched) \in Nat /\ Len(answers) \in Nat /\ Len(batch) \in Nat \ {0} /\ Len(pages) \in Nat
    BY <1>2, <1>3
  <2> QED  BY <2>1, <2>2, <1>a
<1>6. item = fetched[a] /\ item \in Items /\ item.depth \in Nat
  <2>1. item = batch[1] /\ 1 \in 1 .. Len(batch)
    BY <1>2, <1>3, <1>5
  <2>2. item = fetched[a]
    BY <2>1, <1>5
  <2>3. item \in Items
    BY <2>2, <1>2, <1>5
  <2> QED  BY <2>2, <2>3 DEF Items
<1>7. /\ result.links \in Seq(Urls) /\ IsInjective(result.links)
      /\ result.page \in Urls \cup {Root, Nothing}
  <2>1. item.url \in Urls \cup {Root}
    BY <1>6 DEF Items
  <2> QED  BY <2>1, AnswerLinks, CrawlAssumption
<1>8. /\ new \in Seq(Items)
      /\ \A i \in 1 .. Len(new) : new[i].depth = item.depth + 1 /\ new[i].url \in links \ seen
      /\ \A i, j \in 1 .. Len(new) : new[i].url = new[j].url => i = j
      /\ new # <<>> => item.depth < MaxDepth
      /\ item.depth < MaxDepth => \A l \in links \ seen : \E i \in 1 .. Len(new) : new[i].url = l
      /\ {i.url : i \in Crawl!Range(new)} = {new[i].url : i \in 1 .. Len(new)}
  BY <1>2, <1>6, <1>7, EnqueuedItems, CrawlAssumption
<1>9. /\ queue' = queue \o new /\ seen' = seen \cup {new[i].url : i \in 1 .. Len(new)}
      /\ pages' = IF result.page # Nothing THEN Append(pages, result.page) ELSE pages
      /\ batch' = IF item.depth < MaxDepth /\ Len(pages') >= MaxPages THEN <<>> ELSE Tail(batch)
      /\ answers' = Append(answers, result.links)
  BY <1>4, <1>8
<1> HIDE DEF item, new
<1>10. /\ L \in Seq(Items) /\ Len(L) \in Nat /\ Len(L) = Len(fetched) + Len(queue) /\ Len(queue) \in Nat
       /\ \A i \in 1 .. Len(fetched) : L[i] = fetched[i]
  <2>1. L = fetched \o queue
    BY DEF Log
  <2> HIDE DEF L
  <2>2. fetched \in Seq(Items) /\ queue \in Seq(Items)
    BY <1>2
  <2>3. /\ L \in Seq(Items) /\ Len(L) = Len(fetched) + Len(queue)
        /\ \A i \in 1 .. Len(fetched) + Len(queue) :
               L[i] = IF i <= Len(fetched) THEN fetched[i] ELSE queue[i - Len(fetched)]
    BY ONLY <2>1, <2>2, ConcatProperties
  <2>4. Len(queue) \in Nat /\ Len(fetched) \in Nat
    BY <2>2
  <2>5. \A i \in 1 .. Len(fetched) : i \in 1 .. Len(fetched) + Len(queue) /\ i <= Len(fetched)
    BY ONLY <2>4
  <2>6. \A i \in 1 .. Len(fetched) : L[i] = fetched[i]
    BY ONLY <2>3, <2>5
  <2>7. Len(L) \in Nat
    BY ONLY <2>3, <2>4
  <2> QED  BY ONLY <2>3, <2>4, <2>6, <2>7
<1>11. M = L \o new
  <2>0. fetched \in Seq(Items) /\ queue \in Seq(Items) /\ new \in Seq(Items)
    BY <1>2, <1>8
  <2>1. fetched \o (queue \o new) = (fetched \o queue) \o new
    <3>1. \A p, q, r \in Seq(Items) : p \o (q \o r) = (p \o q) \o r
      BY ONLY ConcatAssociative
    <3> QED  BY ONLY <2>0, <3>1
  <2> QED  BY <2>1, <1>3, <1>9 DEF Log
<1> HIDE DEF L, M
<1>12. /\ M \in Seq(Items) /\ Len(new) \in Nat /\ Len(M) = Len(L) + Len(new)
       /\ \A i \in I : i \in J /\ M[i] = L[i]
       /\ \A i \in 1 .. Len(new) : Len(L) + i \in J /\ M[Len(L) + i] = new[i]
       /\ \A i \in J : i \in I \/ \E k \in 1 .. Len(new) : i = Len(L) + k
  <2>1. /\ M \in Seq(Items) /\ Len(M) = Len(L) + Len(new)
        /\ \A i \in 1 .. Len(L) + Len(new) : M[i] = IF i <= Len(L) THEN L[i] ELSE new[i - Len(L)]
    <3>1. L \in Seq(Items) /\ new \in Seq(Items)
      BY <1>8, <1>10
    <3>2. /\ L \o new \in Seq(Items) /\ Len(L \o new) = Len(L) + Len(new)
          /\ \A i \in 1 .. Len(L) + Len(new) : (L \o new)[i] = IF i <= Len(L) THEN L[i] ELSE new[i - Len(L)]
      BY <3>1, ConcatProperties
    <3> QED  BY <3>2, <1>11
  <2>2. Len(new) \in Nat
    BY <1>8
  <2>3. \A i \in I : i \in 1 .. Len(L) + Len(new) /\ i <= Len(L)
    BY <2>2, <1>10
  <2>4. \A i \in 1 .. Len(new) : /\ Len(L) + i \in 1 .. Len(L) + Len(new) /\ ~ (Len(L) + i <= Len(L))
                                 /\ Len(L) + i - Len(L) = i
    BY <2>2, <1>10
  <2>5. \A i \in J : i \in I \/ (i - Len(L) \in 1 .. Len(new) /\ i = Len(L) + (i - Len(L)))
    BY <2>1, <2>2, <1>10
  <2> QED  BY <2>1, <2>2, <2>3, <2>4, <2>5
<1>13. a \in I /\ a \in J /\ L[a] = item /\ M[a] = item
  BY <1>5, <1>6, <1>10, <1>12
<1>14. /\ answers' \in Seq(Seq(Urls)) /\ Len(answers') = a /\ answers'[a] = result.links
       /\ \A p \in 1 .. Len(answers) : answers'[p] = answers[p]
  <2>1. /\ Append(answers, result.links) \in Seq(Seq(Urls))
        /\ Len(Append(answers, result.links)) = Len(answers) + 1
        /\ \A p \in 1 .. Len(answers) : Append(answers, result.links)[p] = answers[p]
        /\ Append(answers, result.links)[Len(answers) + 1] = result.links
    BY <1>2, <1>7, AppendProperties
  <2> QED  BY <2>1, <1>9, <1>a
<1>15. /\ pages' \in Seq(Urls \cup {Root, Nothing}) /\ Len(pages') \in Nat
       /\ Len(pages') <= Len(pages) + 1 /\ Len(pages') >= Len(pages)
  <2>1. /\ Append(pages, result.page) \in Seq(Urls \cup {Root, Nothing})
        /\ Len(Append(pages, result.page)) = Len(pages) + 1
    BY <1>2, <1>7, AppendProperties
  <2>2. pages' = Append(pages, result.page) \/ pages' = pages
    BY <1>9
  <2>3. CASE pages' = Append(pages, result.page)
    BY <2>1, <2>3, <1>5
  <2>4. CASE pages' = pages
    BY <2>4, <1>2, <1>5
  <2> QED  BY <2>2, <2>3, <2>4
<1>16. /\ Tail(batch) \in Seq(Items) /\ Len(Tail(batch)) = Len(batch) - 1
       /\ \A i \in 1 .. Len(Tail(batch)) : Tail(batch)[i] = batch[i + 1]
  BY <1>2, <1>3, HeadTailProperties
<1>17. batch' = <<>> \/ batch' = Tail(batch)
  BY <1>9
<1>18. queue' \in Seq(Items)
  BY <1>2, <1>8, <1>9, ConcatProperties
<1>19. CrawlTypes'
  <2>1. batch' \in Seq(Items)
    <3>1. <<>> \in Seq(Items)
      OBVIOUS
    <3> QED  BY <3>1, <1>16, <1>17
  <2>2. allowed' \in SUBSET Urls /\ fetched' \in Seq(Items)
    BY <1>2, <1>3
  <2>3. answers' \in Seq(Seq(Urls)) /\ pages' \in Seq(Urls \cup {Root, Nothing})
    BY <1>14, <1>15
  <2> QED  BY <2>1, <2>2, <2>3, <1>18 DEF CrawlTypes
<1>20. /\ \A i \in I : L[i] \in Items /\ L[i].depth \in Nat
       /\ \A i \in 1 .. Len(new) : new[i] \in Items /\ new[i].depth \in Nat
  <2>1. \A x \in Items : x.depth \in Nat
    BY DEF Items
  <2>2. \A i \in I : L[i] \in Items
    BY <1>10
  <2>3. \A i \in 1 .. Len(new) : new[i] \in Items
    BY <1>8
  <2> QED  BY <2>1, <2>2, <2>3
\* The links of each result handled before, and of this one.
<1>21. /\ \A p \in 1 .. Len(answers) : Linking(p)' = Linking(p)
       /\ Linking(a)' = links
  <2>1. ASSUME NEW p \in 1 .. Len(answers) PROVE Linking(p)' = Linking(p)
    BY <1>3, <1>14 DEF Linking
  <2>2. Linking(a)' = {answers'[a][k] : k \in 1 .. Len(answers'[a])} \cap allowed'
    BY DEF Linking
  <2> QED  BY <2>1, <2>2, <1>3, <1>14
<1>22. /\ \A i, j \in I : L[i].url = L[j].url => i = j
       /\ seen = {L[i].url : i \in I}
  BY <1>1 DEF LogIsSeen, L
<1>23. /\ Len(L) >= 1 /\ L[1] = [url |-> Root, depth |-> 0]
       /\ \A i, j \in I : i <= j => L[i].depth <= L[j].depth
       /\ \A i \in I : L[i].depth <= MaxDepth
  BY <1>1 DEF Layered, L
<1>24. \A i \in 2 .. Len(L) : \E p \in 1 .. Len(answers) :
           L[i].depth = L[p].depth + 1 /\ L[i].url \in Linking(p)
  BY <1>1 DEF Found, L
<1>25. \A p \in 1 .. Len(answers) : L[p].depth < MaxDepth =>
           \A l \in Linking(p) : \E k \in I : L[k].url = l /\ L[k].depth <= L[p].depth + 1
  BY <1>1 DEF Followed, L
<1>26. \A p \in 1 .. Len(answers) : p \in I /\ p \in J /\ M[p] = L[p] /\ p <= a
  BY <1>5, <1>10, <1>12
\* Nothing enqueued so far is more than one layer below this item.
<1>27. \A i \in I : L[i].depth <= item.depth + 1
  <2> SUFFICES ASSUME NEW i \in I PROVE L[i].depth <= item.depth + 1
    OBVIOUS
  <2>1. CASE i = 1
    BY <2>1, <1>23, <1>6
  <2>2. CASE i # 1
    <3>1. PICK p \in 1 .. Len(answers) : L[i].depth = L[p].depth + 1
      BY <2>2, <1>10, <1>24
    <3>2. L[p].depth <= L[a].depth
      BY <1>13, <1>23, <1>26
    <3>3. L[p].depth \in Nat /\ L[a].depth \in Nat /\ L[a] = item
      BY <1>13, <1>20, <1>26
    <3>4. \A x, y \in Nat : x <= y => x + 1 <= y + 1
      OBVIOUS
    <3> QED  BY <3>1, <3>2, <3>3, <3>4
  <2> QED  BY <2>1, <2>2
<1>28. LogIsSeen'
  <2>1. \A i, j \in J : M[i].url = M[j].url => i = j
    <3> SUFFICES ASSUME NEW i \in J, NEW j \in J, M[i].url = M[j].url PROVE i = j
      OBVIOUS
    <3>1. CASE i \in I /\ j \in I
      BY <3>1, <1>12, <1>22
    <3>2. ASSUME NEW x \in I, NEW k \in 1 .. Len(new), M[x].url = M[Len(L) + k].url PROVE FALSE
      <4>1. L[x].url = new[k].url /\ L[x].url \in seen /\ new[k].url \notin seen
        BY <3>2, <1>8, <1>12, <1>22
      <4> QED  BY <4>1
    <3>3. CASE i \notin I /\ j \notin I
      <4>1. PICK k \in 1 .. Len(new) : i = Len(L) + k
        BY <3>3, <1>12
      <4>2. PICK n \in 1 .. Len(new) : j = Len(L) + n
        BY <3>3, <1>12
      <4>3. new[k].url = new[n].url
        BY <4>1, <4>2, <1>12
      <4> QED  BY <4>1, <4>2, <4>3, <1>8
    <3>4. CASE i \in I /\ j \notin I
      <4>1. PICK k \in 1 .. Len(new) : j = Len(L) + k
        BY <3>4, <1>12
      <4> QED  BY <4>1, <3>4, <3>2
    <3>5. CASE i \notin I /\ j \in I
      <4>1. PICK k \in 1 .. Len(new) : i = Len(L) + k
        BY <3>5, <1>12
      <4> QED  BY <4>1, <3>5, <3>2
    <3> QED  BY <3>1, <3>3, <3>4, <3>5
  <2>2. seen' = {M[i].url : i \in J}
    <3>1. ASSUME NEW u \in seen' PROVE u \in {M[i].url : i \in J}
      <4>1. CASE u \in seen
        BY <4>1, <1>12, <1>22
      <4>2. CASE u \notin seen
        <5>1. u \in {new[i].url : i \in 1 .. Len(new)}
          BY <4>2, <1>9
        <5>2. PICK k \in 1 .. Len(new) : u = new[k].url
          BY <5>1
        <5> QED  BY <5>2, <1>12
      <4> QED  BY <4>1, <4>2
    <3>2. ASSUME NEW i \in J PROVE M[i].url \in seen'
      <4>1. CASE i \in I
        BY <4>1, <1>9, <1>12, <1>22
      <4>2. CASE i \notin I
        <5>1. PICK k \in 1 .. Len(new) : i = Len(L) + k
          BY <4>2, <1>12
        <5> QED  BY <5>1, <1>9, <1>12
      <4> QED  BY <4>1, <4>2
    <3> QED  BY <3>1, <3>2
  <2> QED  BY <2>1, <2>2 DEF LogIsSeen, M
<1>29. Layered'
  <2>1. Len(M) >= 1 /\ M[1] = [url |-> Root, depth |-> 0]
    BY <1>10, <1>12, <1>23
  <2>2. \A i \in J : /\ M[i].depth \in Nat /\ M[i].depth <= MaxDepth /\ M[i].depth <= item.depth + 1
                     /\ i \notin I => M[i].depth = item.depth + 1
    <3> SUFFICES ASSUME NEW i \in J
                 PROVE  /\ M[i].depth \in Nat /\ M[i].depth <= MaxDepth /\ M[i].depth <= item.depth + 1
                        /\ i \notin I => M[i].depth = item.depth + 1
      OBVIOUS
    <3>1. CASE i \in I
      BY <3>1, <1>12, <1>20, <1>23, <1>27
    <3>2. CASE i \notin I
      <4>1. PICK k \in 1 .. Len(new) : i = Len(L) + k
        BY <3>2, <1>12
      <4>2. new # <<>>
        BY <4>1, <1>8
      <4>3. M[i] = new[k] /\ new[k].depth = item.depth + 1 /\ item.depth < MaxDepth
        BY <4>1, <4>2, <1>8, <1>12
      <4> QED  BY <4>3, <1>6, CrawlAssumption
    <3> QED  BY <3>1, <3>2
  <2>3. \A i, j \in J : i <= j => M[i].depth <= M[j].depth
    <3> SUFFICES ASSUME NEW i \in J, NEW j \in J, i <= j PROVE M[i].depth <= M[j].depth
      OBVIOUS
    <3>1. CASE j \in I
      <4>1. i \in I
        BY <3>1, <1>10, <1>12
      <4> QED  BY <3>1, <4>1, <1>12, <1>23
    <3>2. CASE j \notin I
      BY <3>2, <2>2
    <3> QED  BY <3>1, <3>2
  <2> QED  BY <2>1, <2>2, <2>3 DEF Layered, M
<1>30. Found'
  <2>1. ASSUME NEW i \in 2 .. Len(M)
        PROVE  \E p \in 1 .. Len(answers') : M[i].depth = M[p].depth + 1 /\ M[i].url \in Linking(p)'
    <3>1. CASE i \in I
      <4>1. i \in 2 .. Len(L)
        BY <3>1, <1>10
      <4>2. PICK p \in 1 .. Len(answers) : L[i].depth = L[p].depth + 1 /\ L[i].url \in Linking(p)
        BY <4>1, <1>24
      <4>3. p \in 1 .. Len(answers')
        BY <1>5, <1>14
      <4>4. M[i] = L[i] /\ M[p] = L[p] /\ Linking(p)' = Linking(p)
        BY <3>1, <1>12, <1>21, <1>26
      <4> QED  BY <4>2, <4>3, <4>4
    <3>2. CASE i \notin I
      <4>1. i \in J
        BY <1>10, <1>12
      <4>2. PICK k \in 1 .. Len(new) : i = Len(L) + k
        BY <3>2, <4>1, <1>12
      <4>3. M[i] = new[k] /\ new[k].depth = item.depth + 1 /\ new[k].url \in links
        BY <4>2, <1>8, <1>12
      <4> HIDE DEF links
      <4>4. a \in 1 .. Len(answers') /\ M[a] = item
        BY <1>5, <1>13, <1>14
      <4>5. Linking(a)' = links
        BY <1>21
      <4>6. M[i].depth = M[a].depth + 1 /\ M[i].url \in Linking(a)'
        BY <4>3, <4>4, <4>5
      <4> QED  BY <4>4, <4>6
    <3> QED  BY <3>1, <3>2
  <2> QED  BY <2>1 DEF Found, M
<1>31. Followed'
  <2>1. ASSUME NEW p \in 1 .. Len(answers'), M[p].depth < MaxDepth, NEW l \in Linking(p)'
        PROVE  \E k \in J : M[k].url = l /\ M[k].depth <= M[p].depth + 1
    <3>1. CASE p \in 1 .. Len(answers)
      <4>1. M[p] = L[p] /\ l \in Linking(p)
        BY <3>1, <1>21, <1>26
      <4>2. PICK k \in I : L[k].url = l /\ L[k].depth <= L[p].depth + 1
        BY <3>1, <4>1, <2>1, <1>25
      <4> QED  BY <4>1, <4>2, <1>12
    <3>2. CASE p = a
      <4>1. M[p] = item /\ l \in links /\ item.depth < MaxDepth
        BY <3>2, <2>1, <1>13, <1>21
      <4>2. CASE l \in seen
        <5>1. PICK k \in I : L[k].url = l
          BY <4>2, <1>22
        <5>2. k \in J /\ M[k] = L[k] /\ L[k].depth <= item.depth + 1
          BY <1>12, <1>27
        <5> QED  BY <5>1, <5>2, <4>1
      <4>3. CASE l \notin seen
        <5>1. PICK i \in 1 .. Len(new) : new[i].url = l
          BY <4>1, <4>3, <1>8
        <5>2. /\ Len(L) + i \in J /\ M[Len(L) + i] = new[i] /\ new[i].depth = item.depth + 1
              /\ new[i].depth <= item.depth + 1
          BY <1>6, <1>8, <1>12
        <5> QED  BY <5>1, <5>2, <4>1
      <4> QED  BY <4>2, <4>3
    <3>3. p \in 1 .. Len(answers) \/ p = a
      BY <1>5, <1>14
    <3> QED  BY <3>1, <3>2, <3>3
  <2> QED  BY <2>1 DEF Followed, M
<1>32. BatchIsNext'
  <2>1. Len(answers') <= Len(fetched')
    BY <1>3, <1>5, <1>14
  <2>2. ASSUME batch' # <<>>
        PROVE  /\ Len(answers') + Len(batch') = Len(fetched')
               /\ \A i \in 1 .. Len(batch') : batch'[i] = fetched'[Len(answers') + i]
    <3>1. batch' = Tail(batch)
      BY <2>2, <1>17
    <3>2. Len(answers') + Len(batch') = Len(fetched')
      BY <3>1, <1>3, <1>5, <1>14, <1>16
    <3>3. ASSUME NEW i \in 1 .. Len(batch') PROVE batch'[i] = fetched'[Len(answers') + i]
      <4>0. /\ Len(batch') = Len(batch) - 1 /\ Len(batch) \in Nat /\ Len(answers) \in Nat
            /\ a = Len(answers) + 1
        BY <3>1, <1>5, <1>16
      <4>1. i + 1 \in 1 .. Len(batch) /\ Len(answers) + (i + 1) = a + i
        BY ONLY <4>0, i \in 1 .. Len(batch')
      <4>2. batch'[i] = batch[i + 1]
        BY <3>1, <1>16
      <4>3. batch[i + 1] = fetched[a + i]
        BY <4>1, <1>5
      <4> QED  BY <4>2, <4>3, <1>3, <1>14
    <3> QED  BY <3>2, <3>3
  <2>3. ASSUME batch' = <<>>, Len(pages') < MaxPages PROVE Len(answers') = Len(fetched')
    <3>1. ~ (Len(pages') >= MaxPages)
      BY <2>3, <1>15, CrawlAssumption
    <3>2. batch' = Tail(batch)
      BY <3>1, <1>9
    <3>3. Len(batch') = 0
      BY <2>3
    <3>4. Len(Tail(batch)) = 0
      BY <3>2, <3>3
    <3>5. Len(batch) = 1
      BY <3>4, <1>5, <1>16
    <3>6. Len(answers') = Len(fetched)
      BY <3>5, <1>5, <1>14
    <3> QED  BY <3>6, <1>3
  <2> QED  BY <2>1, <2>2, <2>3 DEF BatchIsNext
<1>33. Room'
  <2>1. Len(pages) + Len(batch) < MaxPages + Concurrency
    BY <1>1 DEF Room
  <2>2. Len(batch') <= Len(batch) - 1 /\ Len(batch') \in Nat
    <3>1. CASE batch' = <<>>
      BY <3>1, <1>5
    <3>2. CASE batch' = Tail(batch)
      BY <3>2, <1>5, <1>16
    <3> QED  BY <3>1, <3>2, <1>17
  <2>3. Len(pages') + Len(batch') < MaxPages + Concurrency
    BY <2>1, <2>2, <1>5, <1>15, CrawlAssumption
  <2> QED  BY <2>3 DEF Room
<1> QED  BY <1>19, <1>28, <1>29, <1>30, <1>31, <1>32, <1>33 DEF CrawlInv

\* The invariant is about nothing but the crawl.
LEMMA CrawlOtherwise ==
    ASSUME CrawlInv, UNCHANGED <<part, allowed, queue, seen, batch, pages, answers, fetched>>
    PROVE  CrawlInv'
<1>1. CrawlTypes' = CrawlTypes /\ BatchIsNext' = BatchIsNext /\ Room' = Room
  BY DEF CrawlTypes, BatchIsNext, Room
<1>2. Log' = Log /\ \A p : Linking(p)' = Linking(p)
  BY DEF Log, Linking
<1>3. LogIsSeen' = LogIsSeen /\ Layered' = Layered
  BY <1>2 DEF LogIsSeen, Layered
<1>4. Found => Found'
  BY <1>2 DEF Found
<1>5. Followed => Followed'
  BY <1>2 DEF Followed
<1> QED  BY <1>1, <1>3, <1>4, <1>5 DEF CrawlInv

\* Every step keeps it,
LEMMA CrawlStep == CrawlInv /\ [ServicesNext]_services => CrawlInv'
<1> SUFFICES ASSUME CrawlInv, [ServicesNext]_services PROVE CrawlInv'
  OBVIOUS
<1>1. CASE part # "crawl" /\ part' = part
  BY <1>1 DEF CrawlInv
<1>2. CASE UNCHANGED services
  BY <1>2, CrawlOtherwise DEF services, crawl
<1>3. CASE ServicesNext /\ part = "crawl"
  <2>1. part' = part /\ Crawl!CrawlNext
    BY <1>3 DEF ServicesNext
  <2>2. CASE Crawl!TakeBatch
    BY <2>1, <2>2, <1>3, TakeBatchKeepsInv
  <2>3. CASE Crawl!HandleResult
    BY <2>1, <2>3, <1>3, HandleResultKeepsInv
  <2> QED  BY <2>1, <2>2, <2>3 DEF Crawl!CrawlNext
<1> QED  BY <1>1, <1>2, <1>3 DEF ServicesNext, services

\* so that it holds in every state.
LEMMA CrawlAlways == ServicesSpec => []CrawlInv
<1>1. ServicesInit => CrawlInv
  BY CrawlInitially
<1>2. CrawlInv /\ [ServicesNext]_services => CrawlInv'
  BY CrawlStep
<1> QED  BY <1>1, <1>2, PTL DEF ServicesSpec

\* What the invariant says of the sequence of items, and of those fetched.
LEMMA ItemsOfTheLog ==
    ASSUME CrawlTypes, Layered
    PROVE  /\ Len(fetched) \in Nat /\ Len(queue) \in Nat /\ Len(Log) = Len(fetched) + Len(queue)
           /\ DOMAIN fetched = 1 .. Len(fetched)
           /\ \A i \in 1 .. Len(fetched) : i \in 1 .. Len(Log) /\ Log[i] = fetched[i]
           /\ \A i \in 1 .. Len(Log) : Log[i].depth \in 0 .. MaxDepth
<1>1. fetched \in Seq(Items) /\ queue \in Seq(Items)
  BY DEF CrawlTypes
<1>2. /\ Log \in Seq(Items) /\ Len(Log) = Len(fetched) + Len(queue)
      /\ \A i \in 1 .. Len(fetched) + Len(queue) :
             Log[i] = IF i <= Len(fetched) THEN fetched[i] ELSE queue[i - Len(fetched)]
  BY <1>1, ConcatProperties DEF Log
<1>3. Len(fetched) \in Nat /\ Len(queue) \in Nat /\ DOMAIN fetched = 1 .. Len(fetched)
  BY <1>1
<1>4. \A i \in 1 .. Len(fetched) : i \in 1 .. Len(fetched) + Len(queue) /\ i <= Len(fetched)
  BY <1>3
<1>5. \A i \in 1 .. Len(Log) : Log[i].depth \in Nat
  <2>1. \A i \in 1 .. Len(Log) : Log[i] \in Items
    BY <1>2
  <2> QED  BY <2>1 DEF Items
<1>6. \A i \in 1 .. Len(Log) : Log[i].depth <= MaxDepth
  BY DEF Layered
<1>7. \A i \in 1 .. Len(Log) : Log[i].depth \in 0 .. MaxDepth
  BY <1>5, <1>6, CrawlAssumption
<1> QED  BY <1>2, <1>3, <1>4, <1>7

\* A crawl that the page limit did not stop has fetched every page that is near enough,
\* and nothing else (CrawlService.crawl): when it is over every item was handled, so the
\* layers are whole.
THEOREM CrawlCompleteness == ServicesSpec => []CrawlIsComplete
<1>1. CrawlInv => CrawlIsComplete
  <2> SUFFICES ASSUME CrawlInv, part = "crawl", Crawl!Over, Len(pages) < MaxPages
               PROVE  {fetched[i].url : i \in DOMAIN fetched} = Crawl!Within[MaxDepth]
    BY DEF CrawlIsComplete, Crawl!CrawlIsComplete
  <2>1. CrawlTypes /\ LogIsSeen /\ BatchIsNext /\ Layered /\ Found /\ Followed
    BY DEF CrawlInv
  <2>2. MaxDepth \in Nat /\ MaxDepth \in 0 .. MaxDepth /\ MaxPages \in Nat
    BY CrawlAssumption
  <2>3. Crawl!Within[MaxDepth] = {Log[i].url : i \in {j \in 1 .. Len(Log) : Log[j].depth <= MaxDepth}}
    BY <2>1, <2>2, LayersAreDistances
  <2>4. /\ Len(fetched) \in Nat /\ Len(queue) \in Nat /\ Len(Log) = Len(fetched) + Len(queue)
        /\ DOMAIN fetched = 1 .. Len(fetched)
        /\ \A i \in 1 .. Len(fetched) : i \in 1 .. Len(Log) /\ Log[i] = fetched[i]
        /\ \A i \in 1 .. Len(Log) : Log[i].depth \in 0 .. MaxDepth
    BY <2>1, ItemsOfTheLog
  <2>5. Len(pages) \in Nat
    BY <2>1 DEF CrawlTypes
  <2>6. queue = <<>>
    BY <2>2, <2>5 DEF Crawl!Over
  <2>7. Len(Log) = Len(fetched)
    <3>1. Len(queue) = 0
      BY <2>6
    <3> QED  BY <2>4, <3>1
  <2>8. {j \in 1 .. Len(Log) : Log[j].depth <= MaxDepth} = 1 .. Len(fetched)
    BY <2>2, <2>4, <2>7
  <2> QED  BY <2>3, <2>4, <2>8
<1> QED  BY <1>1, CrawlAlways, PTL

\* No page is fetched twice, each is fetched at the depth that is its distance from the
\* root, and the page limit is passed by less than one batch (CrawlService.crawl).
THEOREM CrawlByDistance == ServicesSpec => []EachPageOnceAtItsDistance
<1>1. CrawlInv => EachPageOnceAtItsDistance
  <2> SUFFICES ASSUME CrawlInv, part = "crawl" PROVE Crawl!EachPageOnceAtItsDistance
    BY DEF EachPageOnceAtItsDistance
  <2>1. CrawlTypes /\ LogIsSeen /\ BatchIsNext /\ Layered /\ Found /\ Followed /\ Room
    BY DEF CrawlInv
  <2>2. MaxDepth \in Nat
    BY CrawlAssumption
  <2>3. /\ Len(fetched) \in Nat /\ Len(queue) \in Nat /\ Len(Log) = Len(fetched) + Len(queue)
        /\ DOMAIN fetched = 1 .. Len(fetched)
        /\ \A i \in 1 .. Len(fetched) : i \in 1 .. Len(Log) /\ Log[i] = fetched[i]
        /\ \A i \in 1 .. Len(Log) : Log[i].depth \in 0 .. MaxDepth
    BY <2>1, ItemsOfTheLog
  <2>4. \A i, j \in 1 .. Len(Log) : Log[i].url = Log[j].url => i = j
    BY <2>1 DEF LogIsSeen
  <2>5. \A i, j \in DOMAIN fetched : fetched[i].url = fetched[j].url => i = j
    BY <2>3, <2>4
  <2>6. ASSUME NEW m \in 0 .. MaxDepth, NEW i \in 1 .. Len(Log)
        PROVE  Log[i].url \in Crawl!Within[m] <=> Log[i].depth <= m
    <3>1. Crawl!Within[m] = {Log[j].url : j \in {k \in 1 .. Len(Log) : Log[k].depth <= m}}
      BY <2>1, <2>2, LayersAreDistances
    <3> QED  BY <3>1, <2>4
  <2>7. ASSUME NEW i \in DOMAIN fetched
        PROVE  /\ fetched[i].depth <= MaxDepth
               /\ fetched[i].url \in Crawl!Within[fetched[i].depth]
               /\ fetched[i].depth > 0 => fetched[i].url \notin Crawl!Within[fetched[i].depth - 1]
    <3>1. i \in 1 .. Len(Log) /\ Log[i] = fetched[i] /\ Log[i].depth \in 0 .. MaxDepth
      BY <2>3
    <3>2. PICK d \in 0 .. MaxDepth : d = fetched[i].depth
      BY <3>1
    <3>3. fetched[i].url \in Crawl!Within[d]
      BY <3>1, <3>2, <2>6
    <3>4. ASSUME d > 0 PROVE fetched[i].url \notin Crawl!Within[d - 1]
      <4>1. d - 1 \in 0 .. MaxDepth /\ ~ (d <= d - 1)
        BY <3>4, <2>2
      <4> QED  BY <4>1, <3>1, <3>2, <2>6
    <3>5. d <= MaxDepth
      BY <2>2
    <3> QED  BY <3>2, <3>3, <3>4, <3>5
  <2>8. Len(pages) < MaxPages + Concurrency
    <3>1. Len(pages) \in Nat /\ Len(batch) \in Nat
      BY <2>1 DEF CrawlTypes
    <3> QED  BY <3>1, <2>1, CrawlAssumption DEF Room
  <2> QED  BY <2>5, <2>7, <2>8 DEF Crawl!EachPageOnceAtItsDistance
<1> QED  BY <1>1, CrawlAlways, PTL

-----------------------------------------------------------------------------
(* Retrieval.                                                                *)

\* Of finitely many numbers, one is the first of the highest.
LEMMA FirstHighest ==
    ASSUME NEW n \in Nat \ {0}, NEW f \in [1 .. n -> Int]
    PROVE  \E i \in 1 .. n : \A j \in 1 .. n \ {i} : f[j] < f[i] \/ (f[j] = f[i] /\ i < j)
<1> DEFINE first(m, i) == \A j \in 1 .. m \ {i} : f[j] < f[i] \/ (f[j] = f[i] /\ i < j)
           G == {m \in Nat : m + 1 <= n => \E i \in 1 .. m + 1 : first(m + 1, i)}
<1>1. 0 \in G
  <2>1. 1 .. 1 = {1}
    OBVIOUS
  <2>2. 1 \in 1 .. 0 + 1 /\ first(0 + 1, 1)
    BY <2>1
  <2> QED  BY <2>2
<1>2. ASSUME NEW m \in G PROVE m + 1 \in G
  <2> SUFFICES ASSUME (m + 1) + 1 <= n PROVE \E i \in 1 .. (m + 1) + 1 : first((m + 1) + 1, i)
    OBVIOUS
  <2>1. m \in Nat /\ m + 1 <= n /\ (m + 1) + 1 \in 1 .. n
    OBVIOUS
  <2>2. PICK i \in 1 .. m + 1 : first(m + 1, i)
    BY <2>1
  <2>3. \A j \in 1 .. (m + 1) + 1 : j \in 1 .. m + 1 \/ j = (m + 1) + 1
    BY <2>1
  <2>4. \A j \in 1 .. n : f[j] \in Int
    OBVIOUS
  <2>5. \A j \in 1 .. m + 1 : j \in 1 .. n /\ j < (m + 1) + 1 /\ j \in 1 .. (m + 1) + 1
    BY <2>1
  <2>6. CASE f[(m + 1) + 1] > f[i]
    <3>1. \A j \in 1 .. m + 1 : f[j] < f[(m + 1) + 1]
      <4> SUFFICES ASSUME NEW j \in 1 .. m + 1 PROVE f[j] < f[(m + 1) + 1]
        OBVIOUS
      <4>1. f[j] <= f[i]
        BY <2>2, <2>4, <2>5
      <4> QED  BY <4>1, <2>1, <2>4, <2>5, <2>6
    <3>2. first((m + 1) + 1, (m + 1) + 1)
      BY <2>3, <3>1
    <3>3. (m + 1) + 1 \in 1 .. (m + 1) + 1
      BY <2>1
    <3> QED  BY <3>2, <3>3
  <2>7. CASE ~ (f[(m + 1) + 1] > f[i])
    <3>1. f[(m + 1) + 1] < f[i] \/ f[(m + 1) + 1] = f[i]
      BY <2>1, <2>4, <2>5, <2>7
    <3>2. first((m + 1) + 1, i)
      <4> SUFFICES ASSUME NEW j \in 1 .. (m + 1) + 1, j # i PROVE f[j] < f[i] \/ (f[j] = f[i] /\ i < j)
        OBVIOUS
      <4>1. CASE j \in 1 .. m + 1
        BY <4>1, <2>2
      <4>2. CASE j = (m + 1) + 1
        BY <4>2, <3>1, <2>5
      <4> QED  BY <4>1, <4>2, <2>3
    <3>3. i \in 1 .. (m + 1) + 1
      BY <2>5
    <3> QED  BY <3>2, <3>3
  <2> QED  BY <2>6, <2>7
<1>3. G = Nat
  <2>1. G \in SUBSET Nat
    OBVIOUS
  <2> HIDE DEF G
  <2> QED  BY <1>1, <1>2, <2>1, SetInduction
<1> QED
  <2>1. PICK m \in Nat : m + 1 = n
    <3>1. n - 1 \in Nat /\ (n - 1) + 1 = n
      OBVIOUS
    <3> QED  BY <3>1
  <2>2. m \in G
    BY <1>3
  <2>3. PICK i \in 1 .. m + 1 : first(m + 1, i)
    BY <2>1, <2>2
  <2> QED  BY <2>1, <2>3

\* What no element exceeds its predecessor in never grows.
LEMMA NeverGrows ==
    ASSUME NEW n \in Nat, NEW f \in [1 .. n -> Int], \A i \in 1 .. n - 1 : f[i] >= f[i + 1],
           NEW i \in 1 .. n, NEW j \in 1 .. n, i <= j
    PROVE  f[i] >= f[j]
<1> DEFINE G == {d \in Nat : i + d <= n => f[i] >= f[i + d]}
<1>1. 0 \in G
  BY f[i] \in Int
<1>2. ASSUME NEW d \in G PROVE d + 1 \in G
  <2> SUFFICES ASSUME i + (d + 1) <= n PROVE f[i] >= f[i + (d + 1)]
    OBVIOUS
  <2>1. d \in Nat /\ i + d <= n /\ f[i] >= f[i + d]
    OBVIOUS
  <2>2. i + d \in 1 .. n - 1 /\ i + d \in 1 .. n /\ (i + d) + 1 = i + (d + 1) /\ (i + d) + 1 \in 1 .. n
    BY <2>1
  <2>3. f[i + d] >= f[(i + d) + 1]
    BY <2>2
  <2>4. f[i] \in Int /\ f[i + d] \in Int /\ f[(i + d) + 1] \in Int
    BY <2>2
  <2> QED  BY <2>1, <2>2, <2>3, <2>4
<1>3. G = Nat
  <2>1. G \in SUBSET Nat
    OBVIOUS
  <2> HIDE DEF G
  <2> QED  BY <1>1, <1>2, <2>1, SetInduction
<1>4. PICK d \in Nat : i + d = j
  <2>1. j - i \in Nat /\ i + (j - i) = j
    OBVIOUS
  <2> QED  BY <2>1
<1>5. d \in G
  BY <1>3
<1> QED  BY <1>4, <1>5

Hits == [source : Sources, index : Nat, place : Places, text : ChunkTexts, score : Relevances]
\* The source and the page of a chunk: what it may be cited for.
Page(hit) == <<hit.source, hit.place>>
Falls(s) == \A i, j \in 1 .. Len(s) : i <= j => s[i].score >= s[j].score
Distinct(s) == \A i, j \in 1 .. Len(s) : Page(s[i]) = Page(s[j]) => i = j

\* What a hit is made of, and that it is known by its page.
LEMMA HitFields ==
    ASSUME NEW hit \in Hits
    PROVE  /\ hit.score \in Nat /\ hit.text \in ChunkTexts
           /\ Retrieve!Key(hit) = Page(hit)
<1>1. hit.score \in Relevances /\ hit.text \in ChunkTexts
  BY DEF Hits
<1> QED  BY <1>1, RetrievalAssumption DEF Retrieve!Key, Page

\* dedupeChunks keeps for each page one chunk of it, its best, and keeps the order.
LEMMA DedupedIsRight ==
    ASSUME hits \in Seq(Hits), Falls(hits)
    PROVE  LET c == Retrieve!Deduped IN
           /\ c \in Seq(Hits) /\ Distinct(c) /\ Falls(c)
           /\ \A i \in 1 .. Len(c), j \in 1 .. Len(hits) :
                  Page(c[i]) = Page(hits[j]) => hits[j].score <= c[i].score
           /\ \A j \in 1 .. Len(hits) : \E i \in 1 .. Len(c) : Page(c[i]) = Page(hits[j])
           /\ \A i \in 1 .. Len(c) : \E j \in 1 .. Len(hits) : c[i] = hits[j]
           /\ hits # <<>> => Len(c) >= 1 /\ c[1] = hits[1]
<1> DEFINE N == Len(hits)
           s == [i \in DOMAIN hits |-> i]
           T == {m \in 1 .. Len(s) : Retrieve!IsBest(s[m])}
           k == CHOOSE f : f = [n \in 0 .. Len(s) |->
                    IF n = 0 THEN <<>> ELSE IF Retrieve!IsBest(s[n]) THEN Append(f[n - 1], s[n]) ELSE f[n - 1]]
           best == Retrieve!Filter(s, Retrieve!IsBest)
           c == Retrieve!Deduped
<1>1. N \in Nat /\ DOMAIN hits = 1 .. N /\ \A i \in 1 .. N : hits[i] \in Hits
  OBVIOUS
<1>2. s \in Seq(Nat) /\ Len(s) = N /\ \A i \in 1 .. N : s[i] = i
  <2>1. s \in [1 .. N -> Nat]
    BY <1>1
  <2> QED  BY <2>1, <1>1
<1>3. best = k[Len(s)]
  BY DEF Retrieve!Filter
<1>4. c = [n \in DOMAIN best |-> hits[best[n]]]
  BY DEF Retrieve!Deduped
<1> HIDE DEF s
<1>5. T \in SUBSET (1 .. Len(s)) /\ \A n \in 0 .. Len(s) : n # 0 => (Retrieve!IsBest(s[n]) <=> n \in T)
  BY <1>1, <1>2
<1>6. \A t \in 1 .. N : t \in T <=> Retrieve!IsBest(t)
  BY <1>2
<1> HIDE DEF T, c, best
<1>7. \E f : f = [n \in 0 .. Len(s) |->
                    IF n = 0 THEN <<>> ELSE IF Retrieve!IsBest(s[n]) THEN Append(f[n - 1], s[n]) ELSE f[n - 1]]
  <2>1. PICK f : Filters(f, s, T)
    BY <1>2, FilterExists
  <2>2. f = [n \in 0 .. Len(s) |->
                    IF n = 0 THEN <<>> ELSE IF Retrieve!IsBest(s[n]) THEN Append(f[n - 1], s[n]) ELSE f[n - 1]]
    BY <2>1, <1>5 DEF Filters
  <2> QED  BY <2>2
<1>8. k = [n \in 0 .. Len(s) |->
               IF n = 0 THEN <<>> ELSE IF Retrieve!IsBest(s[n]) THEN Append(k[n - 1], s[n]) ELSE k[n - 1]]
  BY <1>7
<1> HIDE DEF k
<1>9. Filters(k, s, T)
  BY <1>8, <1>5 DEF Filters
<1>10. best \in Seq(Nat) /\ Selects(best, s, T)
  BY <1>2, <1>3, <1>5, <1>9, FilterSelects
\* The positions of the hits that are kept.
<1>11. /\ \A i \in 1 .. Len(best) : best[i] \in 1 .. N /\ Retrieve!IsBest(best[i])
       /\ \A i, j \in 1 .. Len(best) : i < j => best[i] < best[j]
       /\ \A t \in 1 .. N : Retrieve!IsBest(t) => \E i \in 1 .. Len(best) : best[i] = t
  <2>1. PICK e \in Seq(Nat) :
            /\ Len(e) = Len(best)
            /\ \A i \in 1 .. Len(e) : e[i] \in T /\ best[i] = s[e[i]]
            /\ \A i, j \in 1 .. Len(e) : i < j => e[i] < e[j]
            /\ \A t \in T : \E i \in 1 .. Len(e) : e[i] = t
    BY <1>10 DEF Selects
  <2>2. \A i \in 1 .. Len(best) : e[i] \in 1 .. N /\ best[i] = e[i] /\ best[i] \in T
    BY <2>1, <1>2, <1>5
  <2>3. \A i \in 1 .. Len(best) : best[i] \in 1 .. N /\ Retrieve!IsBest(best[i])
    BY <2>2, <1>6
  <2>4. \A i, j \in 1 .. Len(best) : i < j => best[i] < best[j]
    BY <2>1, <2>2
  <2>5. \A t \in 1 .. N : Retrieve!IsBest(t) => \E i \in 1 .. Len(best) : best[i] = t
    BY <2>1, <2>2, <1>6
  <2> QED  BY <2>3, <2>4, <2>5
<1>12. Len(best) \in Nat /\ DOMAIN best = 1 .. Len(best)
  BY <1>10
<1>13. c \in Seq(Hits) /\ Len(c) = Len(best) /\ \A i \in 1 .. Len(c) : c[i] = hits[best[i]]
  <2>1. c \in [1 .. Len(best) -> Hits]
    BY <1>1, <1>4, <1>11, <1>12
  <2>2. c \in Seq(Hits) /\ Len(c) = Len(best)
    BY <2>1, <1>12
  <2> QED  BY <2>2, <1>4, <1>12
<1> HIDE DEF N
<1>14. \A i \in 1 .. N : hits[i].score \in Nat /\ Retrieve!Key(hits[i]) = Page(hits[i])
  BY <1>1, HitFields
<1>15. \A i, j \in 1 .. N : i <= j => hits[i].score >= hits[j].score
  BY DEF Falls, N
<1>16. \A i \in 1 .. N : Retrieve!IsBest(i) <=>
          \A j \in 1 .. N \ {i} : Page(hits[j]) = Page(hits[i]) =>
              hits[j].score < hits[i].score \/ (hits[j].score = hits[i].score /\ i < j)
  BY <1>1, <1>14 DEF Retrieve!IsBest
<1>17. Distinct(c)
  <2> SUFFICES ASSUME NEW i \in 1 .. Len(c), NEW j \in 1 .. Len(c), Page(c[i]) = Page(c[j]), i # j PROVE FALSE
    BY DEF Distinct
  <2>1. /\ best[i] \in 1 .. N /\ Retrieve!IsBest(best[i]) /\ best[j] \in 1 .. N /\ Retrieve!IsBest(best[j])
        /\ c[i] = hits[best[i]] /\ c[j] = hits[best[j]]
    BY <1>11, <1>13
  <2>2. best[i] # best[j]
    <3>1. i < j \/ j < i
      BY <1>12, <1>13
    <3>2. best[i] < best[j] \/ best[j] < best[i]
      BY <3>1, <1>11, <1>13
    <3>3. best[i] \in Nat /\ best[j] \in Nat
      BY <1>10, <1>13
    <3> QED  BY <3>2, <3>3
  <2>3. hits[best[j]].score < hits[best[i]].score \/ (hits[best[j]].score = hits[best[i]].score /\ best[i] < best[j])
    BY <2>1, <2>2, <1>16
  <2>4. hits[best[i]].score < hits[best[j]].score \/ (hits[best[i]].score = hits[best[j]].score /\ best[j] < best[i])
    BY <2>1, <2>2, <1>16
  <2>5. hits[best[i]].score \in Nat /\ hits[best[j]].score \in Nat /\ best[i] \in Nat /\ best[j] \in Nat
    BY <2>1, <1>1, <1>14
  <2> QED  BY <2>3, <2>4, <2>5
<1>18. Falls(c)
  <2> SUFFICES ASSUME NEW i \in 1 .. Len(c), NEW j \in 1 .. Len(c), i <= j PROVE c[i].score >= c[j].score
    BY DEF Falls
  <2>1. best[i] \in 1 .. N /\ best[j] \in 1 .. N /\ best[i] \in Nat /\ best[j] \in Nat
    BY <1>10, <1>11, <1>13
  <2>2. i = j \/ i < j
    BY <1>12, <1>13
  <2>3. best[i] <= best[j]
    BY <2>1, <2>2, <1>11, <1>13
  <2> QED  BY <2>1, <2>3, <1>13, <1>15
<1>19. ASSUME NEW i \in 1 .. Len(c), NEW j \in 1 .. N, Page(c[i]) = Page(hits[j])
       PROVE  hits[j].score <= c[i].score
  <2>1. best[i] \in 1 .. N /\ Retrieve!IsBest(best[i]) /\ c[i] = hits[best[i]]
    BY <1>11, <1>13
  <2>2. hits[best[i]].score \in Nat /\ hits[j].score \in Nat
    BY <2>1, <1>14
  <2>3. CASE j = best[i]
    BY <2>1, <2>2, <2>3
  <2>4. CASE j # best[i]
    <3>1. hits[j].score < hits[best[i]].score \/ hits[j].score = hits[best[i]].score
      BY <2>1, <2>4, <1>16, <1>19
    <3> QED  BY <3>1, <2>1, <2>2
  <2> QED  BY <2>3, <2>4
\* The first hit of a page is its best.
<1>20. ASSUME NEW j \in 1 .. N PROVE \E i \in 1 .. Len(c) : Page(c[i]) = Page(hits[j])
  <2> DEFINE K == {m \in 1 .. N : Page(hits[m]) = Page(hits[j])}
  <2>1. K \subseteq Nat /\ K # {}
    BY <1>1
  <2>2. \E x \in K : \A y \in K : ~ (<<y, x>> \in OpToRel(<, Nat))
    <3> HIDE DEF K
    <3> QED  BY <2>1, NatLessThanWellFounded, WFMin
  <2>3. PICK m \in K : \A y \in K : ~ (<<y, m>> \in OpToRel(<, Nat))
    BY <2>2
  <2>4. \A y \in K : y # m => m < y
    <3> SUFFICES ASSUME NEW y \in K, y # m PROVE m < y
      OBVIOUS
    <3>1. y \in Nat /\ m \in Nat
      BY <2>1
    <3>2. ~ (y < m)
      BY <2>3, <3>1 DEF OpToRel
    <3> QED  BY <3>1, <3>2
  <2>5. m \in 1 .. N /\ Page(hits[m]) = Page(hits[j])
    OBVIOUS
  <2>6. Retrieve!IsBest(m)
    <3> SUFFICES ASSUME NEW y \in 1 .. N \ {m}, Page(hits[y]) = Page(hits[m])
                 PROVE  hits[y].score < hits[m].score \/ (hits[y].score = hits[m].score /\ m < y)
      BY <2>5, <1>16
    <3>1. m < y
      BY <2>4, <2>5
    <3>2. hits[m].score >= hits[y].score /\ hits[m].score \in Nat /\ hits[y].score \in Nat
      BY <3>1, <2>5, <1>1, <1>14, <1>15
    <3> QED  BY <3>1, <3>2
  <2>7. PICK i \in 1 .. Len(best) : best[i] = m
    BY <2>5, <2>6, <1>11
  <2> QED  BY <2>5, <2>7, <1>13
<1>21. ASSUME NEW i \in 1 .. Len(c) PROVE \E j \in 1 .. N : c[i] = hits[j]
  BY <1>11, <1>13
<1>22. ASSUME hits # <<>> PROVE Len(c) >= 1 /\ c[1] = hits[1]
  <2>1. 1 \in 1 .. N
    BY <1>1, <1>22 DEF N
  <2>2. Retrieve!IsBest(1)
    <3> SUFFICES ASSUME NEW j \in 1 .. N \ {1}
                 PROVE  hits[j].score < hits[1].score \/ (hits[j].score = hits[1].score /\ 1 < j)
      BY <2>1, <1>16
    <3>1. 1 < j /\ 1 <= j
      BY <1>1
    <3>2. hits[1].score >= hits[j].score /\ hits[1].score \in Nat /\ hits[j].score \in Nat
      BY <3>1, <2>1, <1>14, <1>15
    <3> QED  BY <3>1, <3>2
  <2>3. PICK i \in 1 .. Len(best) : best[i] = 1
    BY <2>1, <2>2, <1>11
  <2>4. i = 1
    <3> SUFFICES ASSUME i # 1 PROVE FALSE
      OBVIOUS
    <3>1. 1 \in 1 .. Len(best) /\ 1 < i
      BY <1>12
    <3>2. best[1] < 1 /\ best[1] \in 1 .. N
      BY <3>1, <2>3, <1>11
    <3> QED  BY <3>2, <1>1
  <2>5. 1 \in 1 .. Len(c)
    BY <2>3, <2>4, <1>13
  <2> QED  BY <2>3, <2>4, <2>5, <1>12, <1>13
<1> QED  BY <1>13, <1>17, <1>18, <1>19, <1>20, <1>21, <1>22 DEF c, N

\* The similarity of two chunks is a percentage: a union that it divides by is not empty.
LEMMA SimilarityIsNat ==
    ASSUME NEW a \in ChunkTexts, NEW b \in ChunkTexts
    PROVE  Retrieve!Similarity(a, b) \in Nat
<1>1. \A S : Retrieve!Cardinality(S) = Cardinality(S)
  BY DEF Retrieve!Cardinality, Cardinality
<1>2. IsFiniteSet(a) /\ IsFiniteSet(b)
  <2>1. \A t \in ChunkTexts : t = {} \/ t = {w1} \/ t = {w1} \cup {w2}
    BY DEF ChunkTexts
  <2>2. IsFiniteSet({}) /\ IsFiniteSet({w1}) /\ IsFiniteSet({w1} \cup {w2})
    BY FS_EmptySet, FS_Singleton, FS_AddElement
  <2> QED  BY <2>1, <2>2
<1>3. CASE a = {} \/ b = {}
  BY <1>3 DEF Retrieve!Similarity
<1>4. CASE ~ (a = {} \/ b = {})
  <2>1. IsFiniteSet(a \cap b) /\ IsFiniteSet(a \cup b)
    BY <1>2, FS_Intersection, FS_Union
  <2>2. a \cup b # {}
    BY <1>4
  <2>3. Cardinality(a \cap b) \in Nat /\ Cardinality(a \cup b) \in Nat /\ Cardinality(a \cup b) # 0
    BY <2>1, <2>2, FS_CardinalityType, FS_EmptySet
  <2>4. \A x, y \in Nat : y # 0 => (100 * x) \div y \in Nat
    OBVIOUS
  <2> QED  BY <1>1, <1>4, <2>3, <2>4 DEF Retrieve!Similarity
<1> QED  BY <1>3, <1>4

\* The score by which a chunk is chosen is a number: that of the relevance when none is
\* chosen yet.
LEMMA MmrIsInt ==
    ASSUME NEW hit \in Hits, NEW selected \in Seq(Hits)
    PROVE  /\ Retrieve!Mmr(hit, selected) \in Int
           /\ selected = <<>> => Retrieve!Mmr(hit, selected) = Lambda * hit.score
<1> DEFINE p == Retrieve!Penalty(hit, selected)
<1>1. hit.score \in Nat /\ hit.text \in ChunkTexts /\ Lambda \in Nat /\ 100 - Lambda \in Nat
  BY HitFields, RetrievalAssumption
<1>2. CASE selected = <<>>
  <2>1. p = 0
    BY <1>2 DEF Retrieve!Penalty
  <2>2. Retrieve!Mmr(hit, selected) = Lambda * hit.score - (100 - Lambda) * 0
    BY <2>1 DEF Retrieve!Mmr
  <2>3. Lambda * hit.score \in Int
    BY <1>1
  <2>4. (100 - Lambda) * 0 = 0
    BY <1>1
  <2> QED  BY <2>2, <2>3, <2>4
<1>3. CASE selected # <<>>
  <2> DEFINE n == Len(selected)
             f == [i \in 1 .. n |-> Retrieve!Similarity(hit.text, selected[i].text)]
             S == {Retrieve!Similarity(hit.text, selected[i].text) : i \in DOMAIN selected}
  <2>1. n \in Nat \ {0} /\ DOMAIN selected = 1 .. n /\ \A i \in 1 .. n : selected[i].text \in ChunkTexts
    BY <1>3, HitFields
  <2>2. f \in [1 .. n -> Int]
    BY <1>1, <2>1, SimilarityIsNat
  <2>3. S = {f[i] : i \in 1 .. n}
    BY <2>1
  <2> HIDE DEF f, S, n
  <2>4. PICK i \in 1 .. n : \A j \in 1 .. n \ {i} : f[j] < f[i] \/ (f[j] = f[i] /\ i < j)
    BY <2>1, <2>2, FirstHighest
  <2>5. \A j \in 1 .. n : f[i] >= f[j]
    BY <2>2, <2>4
  <2>6. \E x \in S : \A y \in S : x >= y
    BY <2>3, <2>5
  <2>7. p = Retrieve!Max(S)
    BY <1>3 DEF Retrieve!Penalty, S
  <2>8. p \in S
    BY <2>6, <2>7 DEF Retrieve!Max
  <2>9. p \in Int
    BY <2>2, <2>3, <2>8
  <2> HIDE DEF p
  <2>10. Lambda * hit.score \in Int /\ (100 - Lambda) * p \in Int
    BY <1>1, <2>9
  <2>11. Retrieve!Mmr(hit, selected) = Lambda * hit.score - (100 - Lambda) * p
    BY DEF Retrieve!Mmr, p
  <2>12. Retrieve!Mmr(hit, selected) \in Int
    BY <2>10, <2>11
  <2> QED  BY <1>3, <2>12
<1> QED  BY <1>2, <1>3

\* A round finds a candidate whose score is the first of the highest.
LEMMA MostMarginalIs ==
    ASSUME NEW left \in Seq(Hits), left # <<>>, NEW selected \in Seq(Hits)
    PROVE  LET i == Retrieve!MostMarginal(left, selected) IN
           /\ i \in 1 .. Len(left)
           /\ \A j \in 1 .. Len(left) \ {i} :
                  \/ Retrieve!Mmr(left[j], selected) < Retrieve!Mmr(left[i], selected)
                  \/ Retrieve!Mmr(left[j], selected) = Retrieve!Mmr(left[i], selected) /\ i < j
<1> DEFINE n == Len(left)
           f == [i \in 1 .. n |-> Retrieve!Mmr(left[i], selected)]
<1>1. n \in Nat \ {0} /\ DOMAIN left = 1 .. n /\ \A i \in 1 .. n : left[i] \in Hits
  OBVIOUS
<1>2. f \in [1 .. n -> Int]
  BY <1>1, MmrIsInt
<1>3. \E i \in 1 .. n : \A j \in 1 .. n \ {i} : f[j] < f[i] \/ (f[j] = f[i] /\ i < j)
  <2> HIDE DEF f, n
  <2> QED  BY <1>1, <1>2, FirstHighest
<1>4. \E i \in DOMAIN left : \A j \in DOMAIN left \ {i} :
          \/ Retrieve!Mmr(left[j], selected) < Retrieve!Mmr(left[i], selected)
          \/ Retrieve!Mmr(left[j], selected) = Retrieve!Mmr(left[i], selected) /\ i < j
  BY <1>1, <1>3
<1> QED  BY <1>1, <1>4 DEF Retrieve!MostMarginal

\* Where the rounds have come: the candidates, split into those selected and those left.
Splits(c, selected, left) ==
    /\ selected \in Seq(Hits) /\ left \in Seq(Hits) /\ Len(selected) + Len(left) = Len(c)
    /\ Distinct(selected) /\ Distinct(left)
    /\ \A i \in 1 .. Len(selected), j \in 1 .. Len(left) : Page(selected[i]) # Page(left[j])
    /\ \A i \in 1 .. Len(selected) : \E j \in 1 .. Len(c) : selected[i] = c[j]
    /\ \A i \in 1 .. Len(left) : \E j \in 1 .. Len(c) : left[i] = c[j]

\* A round moves one.
LEMMA RoundSplits ==
    ASSUME NEW c \in Seq(Hits), NEW state, Splits(c, state[1], state[2]), state[2] # <<>>
    PROVE  LET next == Retrieve!Round(state) IN
           /\ Splits(c, next[1], next[2])
           /\ Len(next[1]) = Len(state[1]) + 1 /\ Len(next[2]) = Len(state[2]) - 1
           /\ \A i \in 1 .. Len(state[1]) : next[1][i] = state[1][i]
           /\ next[1][Len(state[1]) + 1] = state[2][Retrieve!MostMarginal(state[2], state[1])]
<1> DEFINE sel == state[1]
           left == state[2]
           m == Retrieve!MostMarginal(left, sel)
           next == Retrieve!Round(state)
           a == Append(sel, left[m])
           r == Retrieve!RemoveAt(left, m)
<1>1. /\ sel \in Seq(Hits) /\ left \in Seq(Hits) /\ Len(sel) + Len(left) = Len(c)
      /\ Distinct(sel) /\ Distinct(left)
      /\ \A i \in 1 .. Len(sel), j \in 1 .. Len(left) : Page(sel[i]) # Page(left[j])
      /\ \A i \in 1 .. Len(sel) : \E j \in 1 .. Len(c) : sel[i] = c[j]
      /\ \A i \in 1 .. Len(left) : \E j \in 1 .. Len(c) : left[i] = c[j]
  BY DEF Splits
<1>2. m \in 1 .. Len(left) /\ left # <<>>
  BY <1>1, MostMarginalIs
<1>3. next[1] = a /\ next[2] = r
  BY DEF Retrieve!Round
<1> HIDE DEF m
<1>4. Len(sel) \in Nat /\ Len(left) \in Nat /\ m \in Nat /\ left[m] \in Hits /\ Len(c) \in Nat
  BY <1>1, <1>2
<1>5. /\ a \in Seq(Hits) /\ Len(a) = Len(sel) + 1 /\ a[Len(sel) + 1] = left[m]
      /\ \A i \in 1 .. Len(sel) : a[i] = sel[i]
  BY <1>1, <1>4, AppendProperties
<1>6. /\ r \in Seq(Hits) /\ Len(r) = Len(left) - 1
      /\ \A i \in 1 .. Len(r) : r[i] = left[IF i < m THEN i ELSE i + 1]
  <2> DEFINE x == SubSeq(left, 1, m - 1)
             y == SubSeq(left, m + 1, Len(left))
  <2>1. /\ \A i \in 1 .. m - 1 : left[i] \in Hits
        /\ \A i \in m + 1 .. Len(left) : left[i] \in Hits
    BY <1>1, <1>2, <1>4
  <2>2. x \in Seq(Hits) /\ Len(x) = m - 1 /\ \A i \in 1 .. m - 1 : x[i] = left[i]
    <3>1. /\ x \in Seq(Hits) /\ Len(x) = IF 1 <= m - 1 THEN (m - 1) - 1 + 1 ELSE 0
          /\ \A i \in 1 .. (m - 1) - 1 + 1 : x[i] = left[1 + i - 1]
      BY <2>1, <1>4, SubSeqProperties
    <3> QED  BY <3>1, <1>2, <1>4
  <2>3. /\ y \in Seq(Hits) /\ Len(y) = Len(left) - m
        /\ \A i \in 1 .. Len(left) - m : y[i] = left[m + i]
    <3>1. /\ y \in Seq(Hits) /\ Len(y) = IF m + 1 <= Len(left) THEN Len(left) - (m + 1) + 1 ELSE 0
          /\ \A i \in 1 .. Len(left) - (m + 1) + 1 : y[i] = left[(m + 1) + i - 1]
      BY <2>1, <1>4, SubSeqProperties
    <3>2. \A i \in 1 .. Len(left) - m : i \in 1 .. Len(left) - (m + 1) + 1 /\ (m + 1) + i - 1 = m + i
      BY <1>4
    <3> QED  BY <3>1, <3>2, <1>2, <1>4
  <2> HIDE DEF x, y
  <2>4. /\ x \o y \in Seq(Hits) /\ Len(x \o y) = Len(x) + Len(y)
        /\ \A i \in 1 .. Len(x) + Len(y) : (x \o y)[i] = IF i <= Len(x) THEN x[i] ELSE y[i - Len(x)]
    BY <2>2, <2>3, ConcatProperties
  <2>5. r = x \o y
    BY DEF Retrieve!RemoveAt, x, y
  <2> HIDE DEF r
  <2>6. Len(r) = Len(left) - 1
    BY <2>2, <2>3, <2>4, <2>5, <1>4
  <2>7. ASSUME NEW i \in 1 .. Len(r) PROVE r[i] = left[IF i < m THEN i ELSE i + 1]
    <3>1. i \in 1 .. Len(x) + Len(y) /\ i \in Nat
      BY <2>4, <2>5, <2>6, <1>4
    <3>2. CASE i < m
      <4>1. i \in 1 .. m - 1 /\ i <= Len(x)
        BY <3>1, <3>2, <2>2, <1>4
      <4> QED  BY <3>1, <3>2, <4>1, <2>2, <2>4, <2>5
    <3>3. CASE ~ (i < m)
      <4>1. /\ ~ (i <= Len(x)) /\ i - Len(x) \in 1 .. Len(left) - m /\ m + (i - Len(x)) = i + 1
        BY <3>1, <3>3, <2>2, <2>3, <1>4
      <4> QED  BY <3>1, <3>3, <4>1, <2>3, <2>4, <2>5
    <3> QED  BY <3>2, <3>3
  <2> QED  BY <2>4, <2>5, <2>6, <2>7
<1> HIDE DEF sel, left, next, a, r
<1>7. /\ \A i \in 1 .. Len(a) : i \in 1 .. Len(sel) \/ i = Len(sel) + 1
      /\ \A i \in 1 .. Len(r) : (IF i < m THEN i ELSE i + 1) \in 1 .. Len(left) \ {m}
  BY <1>2, <1>4, <1>5, <1>6
<1>8. Distinct(a)
  <2> SUFFICES ASSUME NEW i \in 1 .. Len(a), NEW j \in 1 .. Len(a), Page(a[i]) = Page(a[j]) PROVE i = j
    BY DEF Distinct
  <2>1. CASE i \in 1 .. Len(sel) /\ j \in 1 .. Len(sel)
    BY <2>1, <1>1, <1>5 DEF Distinct
  <2>2. CASE i = Len(sel) + 1 /\ j = Len(sel) + 1
    BY <2>2
  <2>3. \A n \in 1 .. Len(sel) : Page(a[n]) # Page(a[Len(sel) + 1])
    <3>1. \A n \in 1 .. Len(sel) : Page(sel[n]) # Page(left[m])
      BY <1>1, <1>2
    <3>2. \A n \in 1 .. Len(sel) : a[n] = sel[n]
      BY <1>5
    <3>3. a[Len(sel) + 1] = left[m]
      BY <1>5
    <3> QED  BY ONLY <3>1, <3>2, <3>3
  <2> QED  BY <2>1, <2>2, <2>3, <1>7
<1>9. Distinct(r)
  <2> SUFFICES ASSUME NEW i \in 1 .. Len(r), NEW j \in 1 .. Len(r), Page(r[i]) = Page(r[j]) PROVE i = j
    BY DEF Distinct
  <2>1. (IF i < m THEN i ELSE i + 1) = (IF j < m THEN j ELSE j + 1)
    <3>1. PICK k : k = IF i < m THEN i ELSE i + 1
      OBVIOUS
    <3>2. PICK n : n = IF j < m THEN j ELSE j + 1
      OBVIOUS
    <3>3. k \in 1 .. Len(left) /\ n \in 1 .. Len(left) /\ r[i] = left[k] /\ r[j] = left[n]
      BY <3>1, <3>2, <1>6, <1>7
    <3>4. k = n
      BY <3>3, <1>1 DEF Distinct
    <3> QED  BY <3>1, <3>2, <3>4
  <2>2. i \in Nat /\ j \in Nat
    BY <1>4, <1>6
  <2> QED  BY <2>1, <2>2, <1>4
<1>10. ASSUME NEW i \in 1 .. Len(a), NEW j \in 1 .. Len(r) PROVE Page(a[i]) # Page(r[j])
  <2>1. PICK k \in 1 .. Len(left) \ {m} : r[j] = left[k]
    BY <1>6, <1>7
  <2>2. CASE i \in 1 .. Len(sel)
    BY <2>1, <2>2, <1>1, <1>5
  <2>3. CASE i = Len(sel) + 1
    <3>1. k \in 1 .. Len(left) /\ m \in 1 .. Len(left) /\ k # m /\ Distinct(left)
      BY <2>1, <1>1, <1>2
    <3>2. Page(left[k]) # Page(left[m])
      BY ONLY <3>1 DEF Distinct
    <3>3. a[i] = left[m]
      BY <2>3, <1>5
    <3> QED  BY ONLY <2>1, <3>2, <3>3
  <2>4. i \in 1 .. Len(sel) \/ i = Len(sel) + 1
    BY <1>7
  <2> QED  BY ONLY <2>2, <2>3, <2>4
<1>11. ASSUME NEW i \in 1 .. Len(a) PROVE \E j \in 1 .. Len(c) : a[i] = c[j]
  <2>2. CASE i \in 1 .. Len(sel)
    <3>1. a[i] = sel[i]
      BY <2>2, <1>5
    <3>2. \E j \in 1 .. Len(c) : sel[i] = c[j]
      BY <2>2, <1>1
    <3> QED  BY ONLY <3>1, <3>2
  <2>3. CASE i = Len(sel) + 1
    BY <2>3, <1>1, <1>2, <1>5
  <2> QED  BY <2>2, <2>3, <1>7
<1>12. ASSUME NEW i \in 1 .. Len(r) PROVE \E j \in 1 .. Len(c) : r[i] = c[j]
  <2>1. PICK k \in 1 .. Len(left) : r[i] = left[k]
    BY <1>6, <1>7
  <2> QED  BY <2>1, <1>1
<1>13. Len(a) + Len(r) = Len(c)
  <2>1. Len(sel) + Len(left) = Len(c) /\ Len(a) = Len(sel) + 1 /\ Len(r) = Len(left) - 1
    BY <1>1, <1>5, <1>6
  <2> QED  BY <2>1, <1>4
<1>14. Splits(c, a, r)
  BY <1>5, <1>6, <1>8, <1>9, <1>10, <1>11, <1>12, <1>13 DEF Splits
<1> QED  BY <1>3, <1>5, <1>6, <1>14 DEF sel, left, next, m

\* The first round selects the first candidate: nothing is selected that it may resemble.
LEMMA FirstRound ==
    ASSUME NEW c \in Seq(Hits), Falls(c), c # <<>>
    PROVE  Retrieve!MostMarginal(c, <<>>) = 1
<1> DEFINE m == Retrieve!MostMarginal(c, <<>>)
<1>1. <<>> \in Seq(Hits) /\ Len(c) \in Nat \ {0} /\ Lambda \in Nat
  BY RetrievalAssumption
<1>2. /\ m \in 1 .. Len(c)
      /\ \A j \in 1 .. Len(c) \ {m} :
             \/ Retrieve!Mmr(c[j], <<>>) < Retrieve!Mmr(c[m], <<>>)
             \/ Retrieve!Mmr(c[j], <<>>) = Retrieve!Mmr(c[m], <<>>) /\ m < j
  BY <1>1, MostMarginalIs
<1> HIDE DEF m
<1>3. \A j \in 1 .. Len(c) : c[j] \in Hits /\ c[j].score \in Nat
  BY HitFields
<1>4. \A j \in 1 .. Len(c) : Retrieve!Mmr(c[j], <<>>) = Lambda * c[j].score
  BY <1>1, <1>3, MmrIsInt
<1> SUFFICES ASSUME m # 1 PROVE FALSE
  BY DEF m
<1>5. 1 \in 1 .. Len(c) \ {m} /\ ~ (m < 1) /\ 1 <= m
  BY <1>1, <1>2
<1>6. Lambda * c[1].score < Lambda * c[m].score
  BY <1>2, <1>4, <1>5
<1>7. c[1].score >= c[m].score /\ c[1].score \in Nat /\ c[m].score \in Nat
  BY <1>2, <1>3, <1>5 DEF Falls
<1>8. \A x, y, z \in Nat : x >= y => z * x >= z * y
  OBVIOUS
<1>9. Lambda \in Nat
  BY <1>1
<1> DEFINE x == c[1].score
           y == c[m].score
<1>10. x \in Nat /\ y \in Nat /\ x >= y /\ Lambda * x < Lambda * y
  BY <1>6, <1>7
<1> HIDE DEF x, y
<1>11. Lambda * x >= Lambda * y
  BY ONLY <1>8, <1>9, <1>10
<1>12. Lambda * x \in Nat /\ Lambda * y \in Nat
  BY ONLY <1>9, <1>10
<1> QED  BY ONLY <1>10, <1>11, <1>12

\* Every state of the rounds is such a split, whatever the function that recurs by them.
LEMMA RoundsSplit ==
    ASSUME NEW c \in Seq(Hits), Distinct(c), Falls(c), TopK < Len(c),
           NEW g, g[0] = <<<<>>, c>>,
           \A n \in 1 .. TopK : g[n - 1][2] # <<>> => g[n] = Retrieve!Round(g[n - 1])
    PROVE  /\ \A n \in 0 .. TopK : Splits(c, g[n][1], g[n][2]) /\ Len(g[n][1]) = n
           /\ \A n \in 0 .. TopK - 1 : g[n][2] # <<>>
           /\ g[TopK][1][1] = c[1]
<1>0. TopK \in Nat \ {0} /\ Len(c) \in Nat \ {0} /\ c # <<>>
  BY RetrievalAssumption
<1> DEFINE good(n) == /\ Splits(c, g[n][1], g[n][2]) /\ Len(g[n][1]) = n
                      /\ n >= 1 => g[n][1][1] = c[1]
           G == {n \in Nat : n <= TopK => good(n)}
<1>1. 0 \in G
  <2>1. g[0][1] = <<>> /\ g[0][2] = c /\ Len(<<>>) = 0 /\ <<>> \in Seq(Hits) /\ 1 .. 0 = {}
    OBVIOUS
  <2>2. Distinct(<<>>)
    BY <2>1 DEF Distinct
  <2>3. 0 + Len(c) = Len(c)
    BY <1>0
  <2>4. Splits(c, <<>>, c)
    BY <2>1, <2>2, <2>3 DEF Splits
  <2> QED  BY <2>1, <2>4
<1>2. ASSUME NEW n \in Nat, n <= TopK, n < Len(c), good(n) PROVE g[n][2] # <<>>
  <2>1. n + Len(g[n][2]) = Len(c)
    BY <1>2 DEF Splits
  <2>2. Len(g[n][2]) # 0
    BY <2>1, <1>0, <1>2
  <2> QED  BY <2>2
<1>3. ASSUME NEW n \in G PROVE n + 1 \in G
  <2> SUFFICES ASSUME n + 1 <= TopK PROVE good(n + 1)
    OBVIOUS
  <2>1. n \in Nat /\ n <= TopK /\ n < Len(c) /\ n + 1 \in 1 .. TopK /\ (n + 1) - 1 = n
    BY <1>0
  <2>2. good(n)
    BY <2>1
  <2>3. g[n][2] # <<>>
    BY <2>1, <2>2, <1>2
  <2>4. g[n + 1] = Retrieve!Round(g[n])
    BY <2>1, <2>3
  <2>5. /\ Splits(c, g[n + 1][1], g[n + 1][2]) /\ Len(g[n + 1][1]) = n + 1
        /\ \A i \in 1 .. n : g[n + 1][1][i] = g[n][1][i]
        /\ g[n + 1][1][n + 1] = g[n][2][Retrieve!MostMarginal(g[n][2], g[n][1])]
    <3> DEFINE state == g[n]
               next == Retrieve!Round(state)
    <3>1. Splits(c, state[1], state[2]) /\ state[2] # <<>> /\ Len(state[1]) = n
      BY <2>2, <2>3
    <3>2. /\ Splits(c, next[1], next[2])
          /\ Len(next[1]) = Len(state[1]) + 1 /\ Len(next[2]) = Len(state[2]) - 1
          /\ \A i \in 1 .. Len(state[1]) : next[1][i] = state[1][i]
          /\ next[1][Len(state[1]) + 1] = state[2][Retrieve!MostMarginal(state[2], state[1])]
      <4> HIDE DEF state
      <4> QED  BY <3>1, RoundSplits
    <3>3. g[n + 1] = next
      BY <2>4
    <3> HIDE DEF state, next, good
    <3>4. /\ Splits(c, next[1], next[2]) /\ Len(next[1]) = n + 1
          /\ \A i \in 1 .. n : next[1][i] = state[1][i]
          /\ next[1][n + 1] = state[2][Retrieve!MostMarginal(state[2], state[1])]
      BY <3>1, <3>2
    <3> QED  BY <3>3, <3>4 DEF state
  <2>6. g[n + 1][1][1] = c[1]
    <3>1. CASE n = 0
      <4>1. g[n][1] = <<>> /\ g[n][2] = c
        BY <3>1
      <4>2. Retrieve!MostMarginal(c, <<>>) = 1
        BY <1>0, FirstRound
      <4>3. n + 1 = 1
        BY <3>1
      <4> QED  BY <2>5, <4>1, <4>2, <4>3
    <3>2. CASE n # 0
      <4>1. 1 \in 1 .. n /\ n >= 1
        BY <2>1, <3>2
      <4> QED  BY <2>2, <2>5, <4>1
    <3> QED  BY <3>1, <3>2
  <2> QED  BY <2>5, <2>6
<1>4. G = Nat
  <2>1. G \in SUBSET Nat
    OBVIOUS
  <2> HIDE DEF G
  <2> QED  BY <1>1, <1>3, <2>1, SetInduction
<1>5. \A n \in 0 .. TopK : good(n)
  <2> SUFFICES ASSUME NEW n \in 0 .. TopK PROVE good(n)
    OBVIOUS
  <2>1. n \in Nat /\ n <= TopK
    BY <1>0
  <2>2. n \in G
    BY <2>1, <1>4
  <2> HIDE DEF good
  <2> QED  BY <2>1, <2>2
<1>6. ASSUME NEW n \in 0 .. TopK - 1 PROVE g[n][2] # <<>>
  <2>1. n \in Nat /\ n \in 0 .. TopK /\ n <= TopK /\ n < Len(c)
    BY <1>0
  <2> QED  BY <2>1, <1>2, <1>5
<1>7. TopK \in 0 .. TopK /\ TopK >= 1
  BY <1>0
<1> QED  BY <1>5, <1>6, <1>7

\* applyMmr selects different candidates, as many as may be, and the first of them first.
LEMMA ApplyMmrIsRight ==
    ASSUME NEW c \in Seq(Hits), Distinct(c), Falls(c)
    PROVE  LET a == Retrieve!ApplyMmr(c) IN
           /\ a \in Seq(Hits) /\ Distinct(a) /\ Len(a) = IF Len(c) <= TopK THEN Len(c) ELSE TopK
           /\ \A i \in 1 .. Len(a) : \E j \in 1 .. Len(c) : a[i] = c[j]
           /\ c # <<>> => a[1] = c[1]
<1> DEFINE a == Retrieve!ApplyMmr(c)
<1>0. TopK \in Nat \ {0} /\ Len(c) \in Nat
  BY RetrievalAssumption
<1>1. CASE Len(c) <= TopK
  <2>1. a = c
    BY <1>1 DEF Retrieve!ApplyMmr
  <2> QED  BY <2>1, <1>1
<1>2. CASE ~ (Len(c) <= TopK)
  <2>0. TopK < Len(c)
    BY <1>0, <1>2
  <2> DEFINE start == <<<<>>, c>>
             V == Seq(Hits) \X Seq(Hits)
             next(x) == IF x[2] # <<>> THEN Retrieve!Round(x) ELSE x
             D == {x \in V : Splits(c, x[1], x[2])}
             step == [x \in Nat \X D |-> next(x[2])]
  <2>1. start \in D
    <3>1. Len(<<>>) = 0 /\ <<>> \in Seq(Hits) /\ 1 .. 0 = {} /\ 0 + Len(c) = Len(c)
      BY <1>0
    <3>2. Distinct(<<>>)
      BY <3>1 DEF Distinct
    <3>3. Splits(c, <<>>, c)
      BY <3>1, <3>2 DEF Splits
    <3> QED  BY <3>1, <3>3
  <2>2. ASSUME NEW x \in D PROVE next(x) \in D
    <3>1. CASE x[2] = <<>>
      BY <3>1
    <3>2. CASE x[2] # <<>>
      <4>1. Splits(c, Retrieve!Round(x)[1], Retrieve!Round(x)[2])
        BY <3>2, RoundSplits
      <4>2. Retrieve!Round(x) = <<Retrieve!Round(x)[1], Retrieve!Round(x)[2]>>
        BY DEF Retrieve!Round
      <4>3. Retrieve!Round(x)[1] \in Seq(Hits) /\ Retrieve!Round(x)[2] \in Seq(Hits)
        BY <4>1 DEF Splits
      <4>4. Retrieve!Round(x) \in V
        BY <4>2, <4>3
      <4> QED  BY <3>2, <4>1, <4>4
    <3> QED  BY <3>1, <3>2
  <2> HIDE DEF next, D
  <2>3. step \in [Nat \X D -> D]
    BY <2>2
  <2> HIDE DEF start
  <2>4. PICK h \in [Nat -> D] : Recurs(h, start, step)
    <3> HIDE DEF step
    <3> QED  BY <2>1, <2>3, RecursionExists
  <2>5. h[0] = start /\ \A n \in Nat : h[n + 1] = next(h[n])
    <3>1. \A n \in Nat : h[n + 1] = step[<<n, h[n]>>]
      BY <2>4 DEF Recurs
    <3>2. \A n \in Nat : <<n, h[n]>> \in Nat \X D
      BY <2>4
    <3> QED  BY <2>4, <3>1, <3>2 DEF Recurs
  <2>6. \A n \in 1 .. TopK : h[n - 1][2] # <<>> => h[n] = Retrieve!Round(h[n - 1])
    <3> SUFFICES ASSUME NEW n \in 1 .. TopK, h[n - 1][2] # <<>> PROVE h[n] = Retrieve!Round(h[n - 1])
      OBVIOUS
    <3>1. n - 1 \in Nat /\ (n - 1) + 1 = n
      BY <1>0
    <3>2. h[(n - 1) + 1] = next(h[n - 1])
      BY <3>1, <2>5
    <3> QED  BY <3>1, <3>2 DEF next
  <2>7. \A n \in 0 .. TopK - 1 : h[n][2] # <<>>
    BY <2>0, <2>5, <2>6, RoundsSplit DEF start
  <2> DEFINE f == [n \in 0 .. TopK |-> h[n]]
             rounds == CHOOSE k : k = [n \in 0 .. TopK |-> IF n = 0 THEN start ELSE Retrieve!Round(k[n - 1])]
  <2>8. f = [n \in 0 .. TopK |-> IF n = 0 THEN start ELSE Retrieve!Round(f[n - 1])]
    <3>1. ASSUME NEW n \in 0 .. TopK PROVE h[n] = IF n = 0 THEN start ELSE Retrieve!Round(f[n - 1])
      <4>1. CASE n = 0
        BY <4>1, <2>5
      <4>2. CASE n # 0
        <5>1. n \in 1 .. TopK /\ n - 1 \in 0 .. TopK - 1 /\ n - 1 \in 0 .. TopK
          BY <4>2, <1>0
        <5>2. f[n - 1] = h[n - 1]
          BY <5>1
        <5> QED  BY <4>2, <5>1, <5>2, <2>6, <2>7
      <4> QED  BY <4>1, <4>2
    <3> QED  BY <3>1
  <2>9. \E k : k = [n \in 0 .. TopK |-> IF n = 0 THEN start ELSE Retrieve!Round(k[n - 1])]
    <3> HIDE DEF f
    <3> QED  BY <2>8
  <2>10. rounds = [n \in 0 .. TopK |-> IF n = 0 THEN start ELSE Retrieve!Round(rounds[n - 1])]
    BY <2>9
  <2>11. a = rounds[TopK][1]
    BY <1>2 DEF Retrieve!ApplyMmr, start
  <2> HIDE DEF rounds, f, a
  <2>12. rounds[0] = start /\ \A n \in 1 .. TopK : rounds[n] = Retrieve!Round(rounds[n - 1])
    <3>1. 0 \in 0 .. TopK /\ \A n \in 1 .. TopK : n \in 0 .. TopK /\ n # 0
      BY <1>0
    <3> QED  BY <2>10, <3>1
  <2>13. /\ \A n \in 0 .. TopK : Splits(c, rounds[n][1], rounds[n][2]) /\ Len(rounds[n][1]) = n
         /\ rounds[TopK][1][1] = c[1]
    BY <2>0, <2>12, RoundsSplit DEF start
  <2>14. Splits(c, a, rounds[TopK][2]) /\ Len(a) = TopK /\ a[1] = c[1]
    <3>1. TopK \in 0 .. TopK
      BY <1>0
    <3> QED  BY <3>1, <2>11, <2>13
  <2>15. /\ a \in Seq(Hits) /\ Distinct(a)
         /\ \A i \in 1 .. Len(a) : \E j \in 1 .. Len(c) : a[i] = c[j]
    BY <2>14 DEF Splits
  <2> QED  BY <1>2, <2>14, <2>15 DEF a
<1> QED  BY <1>1, <1>2

\* Chunks of different pages count the pages.
LEMMA PagesCounted ==
    ASSUME NEW c \in Seq(Hits), Distinct(c)
    PROVE  Cardinality({Page(c[i]) : i \in 1 .. Len(c)}) = Len(c)
<1> DEFINE n == Len(c)
           S == {Page(c[i]) : i \in 1 .. n}
           f == [i \in 1 .. n |-> Page(c[i])]
<1>1. n \in Nat
  OBVIOUS
<1>2. f \in [1 .. n -> S]
  OBVIOUS
<1>3. \A i, j \in 1 .. n : f[i] = f[j] => i = j
  BY DEF Distinct
<1>4. \A p \in S : \E i \in 1 .. n : f[i] = p
  OBVIOUS
<1> HIDE DEF n, S, f
<1>5. f \in Bijection(1 .. n, S)
  BY <1>2, <1>3, <1>4, Zenon DEF Bijection, Injection, Surjection, IsInjective
<1>6. ExistsBijection(1 .. n, S)
  BY <1>5 DEF ExistsBijection
<1> QED  BY <1>1, <1>6, FS_CountingElements DEF n, S

\* The smaller of two numbers.
LEMMA MinOfTwo ==
    ASSUME NEW a \in Int, NEW b \in Int
    PROVE  Retrieve!Min({a, b}) = IF a <= b THEN a ELSE b
<1> DEFINE m == IF a <= b THEN a ELSE b
<1>1. m \in {a, b} /\ m \in Int /\ \A y \in {a, b} : m <= y
  OBVIOUS
<1>2. \A x \in {a, b} : (\A y \in {a, b} : x <= y) => x = m
  OBVIOUS
<1> QED  BY <1>1, <1>2 DEF Retrieve!Min

\* What an answer cites of the hits.
Cites(a, h) ==
    /\ a \in Seq(Hits) /\ Distinct(a)
    /\ LET n == Cardinality({Page(h[i]) : i \in 1 .. Len(h)}) IN
       Len(a) = (IF n <= TopK THEN n ELSE TopK) /\ n \in Nat
    /\ \A i \in 1 .. Len(a), j \in 1 .. Len(h) : Page(a[i]) = Page(h[j]) => h[j].score <= a[i].score
    /\ h # <<>> => a[1].score = h[1].score

\* Hits fall in score, and an answer cites them as it promises.
RetrievalInv ==
    part = "retrieve" =>
        /\ attached \in SUBSET Sources /\ ids \in SUBSET Sources
        /\ rows \in [Sources -> UNION {[1 .. n -> Places] : n \in 0 .. MaxChunks}]
        /\ hits \in Seq(Hits) /\ Falls(hits)
        /\ asked = "answered" => Cites(answer, hits)

\* Of falling hits, the chunks that are left when duplicates are removed and diverse
\* ones are chosen are what PagesOnceByTheirBest wants.
LEMMA RerankedIsRight ==
    ASSUME hits \in Seq(Hits), Falls(hits)
    PROVE  Cites(Retrieve!ApplyMmr(Retrieve!Deduped), hits)
<1>1. PICK c : c = Retrieve!Deduped
  OBVIOUS
<1>2. /\ c \in Seq(Hits) /\ Distinct(c) /\ Falls(c)
      /\ \A i \in 1 .. Len(c), j \in 1 .. Len(hits) :
             Page(c[i]) = Page(hits[j]) => hits[j].score <= c[i].score
      /\ \A j \in 1 .. Len(hits) : \E i \in 1 .. Len(c) : Page(c[i]) = Page(hits[j])
      /\ \A i \in 1 .. Len(c) : \E j \in 1 .. Len(hits) : c[i] = hits[j]
      /\ hits # <<>> => Len(c) >= 1 /\ c[1] = hits[1]
  BY <1>1, DedupedIsRight
<1>3. PICK a : a = Retrieve!ApplyMmr(c)
  OBVIOUS
<1>4. /\ a \in Seq(Hits) /\ Distinct(a) /\ Len(a) = IF Len(c) <= TopK THEN Len(c) ELSE TopK
      /\ \A i \in 1 .. Len(a) : \E j \in 1 .. Len(c) : a[i] = c[j]
      /\ c # <<>> => a[1] = c[1]
  BY <1>2, <1>3, ApplyMmrIsRight
<1> DEFINE A == {Page(hits[i]) : i \in 1 .. Len(hits)}
           B == {Page(c[i]) : i \in 1 .. Len(c)}
<1>5. A = B
  <2>1. \A j \in 1 .. Len(hits) : \E i \in 1 .. Len(c) : Page(c[i]) = Page(hits[j])
    BY <1>2
  <2>2. \A i \in 1 .. Len(c) : \E j \in 1 .. Len(hits) : Page(c[i]) = Page(hits[j])
    BY <1>2
  <2> QED  BY <2>1, <2>2
<1>6. Cardinality(A) = Len(c) /\ Len(c) \in Nat
  <2>1. c \in Seq(Hits) /\ Distinct(c)
    BY <1>2
  <2>2. Cardinality(B) = Len(c)
    BY <2>1, PagesCounted
  <2>3. Len(c) \in Nat
    BY <2>1
  <2> HIDE DEF A, B
  <2> QED  BY <2>2, <2>3, <1>5
<1>7. ASSUME NEW i \in 1 .. Len(a), NEW j \in 1 .. Len(hits), Page(a[i]) = Page(hits[j])
      PROVE  hits[j].score <= a[i].score
  <2>1. PICK k \in 1 .. Len(c) : a[i] = c[k]
    BY <1>4
  <2> QED  BY <2>1, <1>2, <1>7
<1>8. ASSUME hits # <<>> PROVE a[1].score = hits[1].score
  <2>1. c # <<>>
    BY <1>2, <1>8
  <2> QED  BY <2>1, <1>2, <1>4, <1>8
<1>9. Cites(a, hits)
  BY <1>4, <1>6, <1>7, <1>8 DEF Cites
<1> QED  BY <1>1, <1>3, <1>9

\* What a search returns are hits, and they fall.
LEMMA SearchFalls ==
    ASSUME ids \in SUBSET Sources,
           rows \in [Sources -> UNION {[1 .. n -> Places] : n \in 0 .. MaxChunks}],
           Retrieve!Search
    PROVE  hits' \in Seq(Hits) /\ Falls(hits')
<1>0. MaxChunks \in Nat /\ CandidateK \in Nat /\ Relevances \in SUBSET Nat /\ IsFiniteSet(Sources)
  BY RetrievalAssumption
<1>1. PICK R : R = Retrieve!Rows
  OBVIOUS
<1>2. ASSUME NEW row \in R
      PROVE  /\ row = <<row[1], row[2]>> /\ row[1] \in Sources
             /\ row[2] \in 1 .. MaxChunks /\ rows[row[1]][row[2]] \in Places
  <2>1. PICK s \in ids : row \in {s} \X DOMAIN rows[s]
    BY <1>1 DEF Retrieve!Rows
  <2>2. PICK n \in 0 .. MaxChunks : rows[s] \in [1 .. n -> Places]
    OBVIOUS
  <2>3. row = <<row[1], row[2]>> /\ row[1] = s /\ row[2] \in 1 .. n
    BY <2>1, <2>2
  <2> QED  BY <2>2, <2>3, <1>0
<1>3. IsFiniteSet(R)
  <2>1. IsFiniteSet(1 .. MaxChunks)
    BY <1>0, FS_Interval
  <2>2. IsFiniteSet(Sources \X (1 .. MaxChunks))
    BY <2>1, <1>0, FS_Product
  <2>3. R \in SUBSET (Sources \X (1 .. MaxChunks))
    BY <1>2
  <2> QED  BY <2>2, <2>3, FS_Subset
<1>4. PICK score \in [R -> Relevances], text \in [R -> ChunkTexts], order \in Retrieve!SetToSeqs(R) :
          /\ \A i \in 1 .. Len(order) - 1 : score[order[i]] >= score[order[i + 1]]
          /\ hits' = [i \in 1 .. Retrieve!Min({Len(order), CandidateK}) |->
                        LET row == order[i] IN
                        [source |-> row[1], index |-> row[2], place |-> rows[row[1]][row[2]],
                         text |-> text[row], score |-> score[row]]]
  BY <1>1 DEF Retrieve!Search
<1>5. PICK N : N = Cardinality(R) /\ N \in Nat
  BY <1>3, FS_CardinalityType
<1>6. order \in [1 .. N -> R]
  <2>1. Retrieve!Cardinality(R) = N
    BY <1>5 DEF Retrieve!Cardinality, Cardinality
  <2> QED  BY <2>1 DEF Retrieve!SetToSeqs
<1>7. Len(order) = N
  BY <1>5, <1>6
<1>8. PICK K : K = Retrieve!Min({Len(order), CandidateK}) /\ K \in Nat /\ K <= N
  BY <1>0, <1>5, <1>7, MinOfTwo
<1>9. PICK h : h = hits'
  OBVIOUS
<1>10. \A i \in 1 .. K : order[i] \in R /\ i \in 1 .. N
  BY <1>5, <1>6, <1>8
<1>11. h = [i \in 1 .. K |->
              [source |-> order[i][1], index |-> order[i][2], place |-> rows[order[i][1]][order[i][2]],
               text |-> text[order[i]], score |-> score[order[i]]]]
  BY <1>4, <1>8, <1>9
<1>12. ASSUME NEW i \in 1 .. K PROVE h[i] \in Hits /\ h[i].score = score[order[i]]
  <2>1. order[i][1] \in Sources /\ order[i][2] \in Nat /\ rows[order[i][1]][order[i][2]] \in Places
    BY <1>0, <1>2, <1>10
  <2>2. text[order[i]] \in ChunkTexts /\ score[order[i]] \in Relevances
    BY <1>10
  <2>3. h[i] = [source |-> order[i][1], index |-> order[i][2], place |-> rows[order[i][1]][order[i][2]],
                text |-> text[order[i]], score |-> score[order[i]]]
    BY <1>11
  <2> QED  BY <2>1, <2>2, <2>3 DEF Hits
<1>13. h \in Seq(Hits) /\ Len(h) = K
  <2>1. h \in [1 .. K -> Hits]
    BY <1>11, <1>12
  <2>2. K \in Nat
    BY <1>8
  <2> QED  BY <2>1, <2>2
<1>14. ASSUME NEW i \in 1 .. K, NEW j \in 1 .. K, i <= j PROVE h[i].score >= h[j].score
  <2> DEFINE f == [m \in 1 .. N |-> score[order[m]]]
  <2>1. f \in [1 .. N -> Int]
    <3>1. \A m \in 1 .. N : order[m] \in R
      BY <1>6
    <3>2. \A row \in R : score[row] \in Relevances
      OBVIOUS
    <3>3. \A x \in Relevances : x \in Int
      BY <1>0
    <3> QED  BY <3>1, <3>2, <3>3
  <2>2. \A m \in 1 .. N - 1 : f[m] >= f[m + 1]
    <3>1. \A m \in 1 .. N - 1 : m \in 1 .. N /\ m + 1 \in 1 .. N
      BY <1>5
    <3> QED  BY <3>1, <1>4, <1>7
  <2>3. i \in 1 .. N /\ j \in 1 .. N
    BY <1>10
  <2>4. f[i] >= f[j]
    <3> HIDE DEF f
    <3> QED  BY <2>1, <2>2, <2>3, <1>5, <1>14, NeverGrows
  <2> QED  BY <2>3, <2>4, <1>12
<1>15. Falls(h)
  BY <1>13, <1>14 DEF Falls
<1> QED  BY <1>9, <1>13, <1>15

\* Nothing is asked at the start.
LEMMA RetrievalInitially ==
    ASSUME ServicesInit
    PROVE  RetrievalInv
<1> SUFFICES ASSUME part = "retrieve" PROVE RetrievalInv
  BY DEF RetrievalInv
<1>1. /\ attached \in SUBSET Sources /\ ids = {} /\ hits = <<>> /\ asked = "attachments"
      /\ rows \in [Sources -> UNION {[1 .. n -> Places] : n \in 0 .. MaxChunks}]
  BY DEF ServicesInit, Retrieve!RetrievalInit
<1>2. hits \in Seq(Hits) /\ Falls(hits)
  BY <1>1 DEF Falls
<1> QED  BY <1>1, <1>2 DEF RetrievalInv

\* Every step of a retrieval keeps the invariant, whatever is detached or cleared meanwhile,
LEMMA RetrievalStep ==
    ASSUME RetrievalInv, part = "retrieve", part' = part, Retrieve!RetrievalNext
    PROVE  RetrievalInv'
<1>0. /\ attached \in SUBSET Sources /\ ids \in SUBSET Sources
      /\ rows \in [Sources -> UNION {[1 .. n -> Places] : n \in 0 .. MaxChunks}]
      /\ hits \in Seq(Hits) /\ Falls(hits)
      /\ asked = "answered" => Cites(answer, hits)
  BY DEF RetrievalInv
<1>1. ASSUME NEW s \in Sources, Retrieve!Detach(s) PROVE RetrievalInv'
  BY <1>0, <1>1 DEF RetrievalInv, Retrieve!Detach, Cites, Falls
<1>2. ASSUME NEW s \in Sources, Retrieve!ClearChunks(s) PROVE RetrievalInv'
  <2>1. <<>> \in [1 .. 0 -> Places] /\ 0 \in 0 .. MaxChunks
    BY RetrievalAssumption
  <2>2. rows' \in [Sources -> UNION {[1 .. n -> Places] : n \in 0 .. MaxChunks}]
    BY <2>1, <1>0, <1>2 DEF Retrieve!ClearChunks
  <2>3. UNCHANGED <<attached, asked, ids, hits, answer>>
    BY <1>2 DEF Retrieve!ClearChunks
  <2> QED  BY <2>2, <2>3, <1>0 DEF RetrievalInv, Cites, Falls
<1>3. ASSUME Retrieve!ReadAttachments PROVE RetrievalInv'
  <2>1. ids' = attached /\ asked' # "answered" /\ UNCHANGED <<attached, rows, hits, answer>>
    BY <1>3 DEF Retrieve!ReadAttachments
  <2> QED  BY <2>1, <1>0 DEF RetrievalInv, Falls
<1>4. ASSUME Retrieve!EmbedQuestion PROVE RetrievalInv'
  <2>1. asked' # "answered" /\ UNCHANGED <<attached, rows, ids, hits, answer>>
    BY <1>4 DEF Retrieve!EmbedQuestion
  <2> QED  BY <2>1, <1>0 DEF RetrievalInv, Falls
<1>5. ASSUME Retrieve!Search PROVE RetrievalInv'
  <2>1. hits' \in Seq(Hits) /\ Falls(hits')
    BY <1>0, <1>5, SearchFalls
  <2>2. asked' = "rerank" /\ UNCHANGED <<attached, rows, ids, answer>>
    BY <1>5 DEF Retrieve!Search
  <2> QED  BY <2>1, <2>2, <1>0 DEF RetrievalInv, Falls
<1>6. ASSUME Retrieve!Rerank PROVE RetrievalInv'
  <2>1. PICK a : a = Retrieve!ApplyMmr(Retrieve!Deduped)
    OBVIOUS
  <2>2. Cites(a, hits)
    BY <2>1, <1>0, RerankedIsRight
  <2>3. answer' = a /\ UNCHANGED <<attached, rows, ids, hits>>
    BY <2>1, <1>6 DEF Retrieve!Rerank
  <2>4. Cites(answer', hits')
    BY <2>2, <2>3
  <2>5. Cites(answer, hits)'
    BY <2>4 DEF Cites
  <2> QED  BY <2>3, <2>5, <1>0 DEF RetrievalInv, Falls
<1> QED  BY <1>1, <1>2, <1>3, <1>4, <1>5, <1>6 DEF Retrieve!RetrievalNext

\* a step of another part does,
LEMMA RetrievalOtherwise ==
    ASSUME RetrievalInv, part' = part, part # "retrieve" \/ UNCHANGED <<retrieval>>
    PROVE  RetrievalInv'
<1>1. CASE part # "retrieve"
  BY <1>1 DEF RetrievalInv
<1>2. CASE UNCHANGED <<retrieval>>
  BY <1>2 DEF RetrievalInv, retrieval, Cites, Falls
<1> QED  BY <1>1, <1>2

\* so that it holds in every state.
LEMMA RetrievalAlways == ServicesSpec => []RetrievalInv
<1>1. ServicesInit => RetrievalInv
  BY RetrievalInitially
<1>2. RetrievalInv /\ [ServicesNext]_services => RetrievalInv'
  <2> SUFFICES ASSUME RetrievalInv, [ServicesNext]_services PROVE RetrievalInv'
    OBVIOUS
  <2>1. CASE UNCHANGED services
    BY <2>1, RetrievalOtherwise DEF services
  <2>2. CASE ServicesNext
    <3>1. CASE part = "retrieve"
      <4>1. Retrieve!RetrievalNext /\ part' = part
        BY <2>2, <3>1 DEF ServicesNext
      <4> QED  BY <3>1, <4>1, RetrievalStep
    <3>2. CASE part # "retrieve"
      BY <2>2, <3>2, RetrievalOtherwise DEF ServicesNext
    <3> QED  BY <3>1, <3>2
  <2> QED  BY <2>1, <2>2
<1> QED  BY <1>1, <1>2, PTL DEF ServicesSpec

\* An answer cites no page twice (RetrievalService.retrieve): each by its best chunk, the
\* nearest page first, and as many pages as were found and fit.
THEOREM CitesPagesOnce == ServicesSpec => []PagesOnceByTheirBest
<1>1. RetrievalInv => PagesOnceByTheirBest
  <2> SUFFICES ASSUME RetrievalInv, part = "retrieve", asked = "answered"
               PROVE  Retrieve!PagesOnceByTheirBest
    BY DEF PagesOnceByTheirBest, Retrieve!PagesOnceByTheirBest
  <2>1. hits \in Seq(Hits) /\ Cites(answer, hits)
    BY DEF RetrievalInv
  <2>2. /\ DOMAIN hits = 1 .. Len(hits) /\ DOMAIN answer = 1 .. Len(answer) /\ TopK \in Nat
    BY <2>1, RetrievalAssumption DEF Cites
  <2> DEFINE n == Cardinality({Page(hits[i]) : i \in 1 .. Len(hits)})
             m == Retrieve!Cardinality({<<hits[i].source, hits[i].place>> : i \in DOMAIN hits})
  <2>3. m = n
    <3>1. {<<hits[i].source, hits[i].place>> : i \in DOMAIN hits} = {Page(hits[i]) : i \in 1 .. Len(hits)}
      BY <2>2 DEF Page
    <3> QED  BY <3>1 DEF Retrieve!Cardinality, Cardinality
  <2>4. n \in Nat /\ Len(answer) = IF n <= TopK THEN n ELSE TopK
    BY <2>1 DEF Cites
  <2> HIDE DEF m, n
  <2>5. Len(answer) = Retrieve!Min({TopK, m})
    <3>1. Retrieve!Min({TopK, n}) = IF TopK <= n THEN TopK ELSE n
      BY <2>2, <2>4, MinOfTwo
    <3> QED  BY <3>1, <2>2, <2>3, <2>4
  <2>6. \A i, j \in DOMAIN answer :
            answer[i].source = answer[j].source /\ answer[i].place = answer[j].place => i = j
    BY <2>1, <2>2 DEF Cites, Distinct, Page
  <2>7. \A i \in DOMAIN answer, j \in DOMAIN hits :
            answer[i].source = hits[j].source /\ answer[i].place = hits[j].place
                => hits[j].score <= answer[i].score
    BY <2>1, <2>2 DEF Cites, Page
  <2>8. hits # <<>> => answer[1].score = hits[1].score
    BY <2>1 DEF Cites
  <2> QED  BY <2>5, <2>6, <2>7, <2>8 DEF Retrieve!PagesOnceByTheirBest, m
<1> QED  BY <1>1, RetrievalAlways, PTL

\* The function a Loop recurs by, when its step is that of a function.
Loops(f, s, base, step) ==
    f = [n \in 0 .. Len(s) |-> IF n = 0 THEN base ELSE step[<<f[n - 1], s[n]>>]]

\* A Loop has a value for each number of rounds.
LEMMA LoopExists ==
    ASSUME NEW S, NEW D, NEW s \in Seq(S), NEW base \in D, NEW step \in [D \X S -> D]
    PROVE  \E f \in [0 .. Len(s) -> D] : Loops(f, s, base, step)
<1> DEFINE next == [x \in Nat \X D |-> IF x[1] + 1 \in 1 .. Len(s) THEN step[<<x[2], s[x[1] + 1]>>] ELSE x[2]]
<1>0. Len(s) \in Nat /\ \A m \in 1 .. Len(s) : s[m] \in S
  OBVIOUS
<1>1. next \in [Nat \X D -> D]
  <2>1. ASSUME NEW x \in Nat \X D
        PROVE  (IF x[1] + 1 \in 1 .. Len(s) THEN step[<<x[2], s[x[1] + 1]>>] ELSE x[2]) \in D
    BY <1>0
  <2> QED  BY <2>1
<1>2. PICK h \in [Nat -> D] : Recurs(h, base, next)
  <2> HIDE DEF next
  <2> QED  BY <1>1, RecursionExists
<1>3. h[0] = base /\ \A m \in 1 .. Len(s) : h[m] = step[<<h[m - 1], s[m]>>]
  <2>1. h[0] = base
    BY <1>2 DEF Recurs
  <2> SUFFICES ASSUME NEW m \in 1 .. Len(s) PROVE h[m] = step[<<h[m - 1], s[m]>>]
    BY <2>1
  <2>2. m - 1 \in Nat /\ (m - 1) + 1 = m
    BY <1>0
  <2>3. h[(m - 1) + 1] = next[<<m - 1, h[m - 1]>>] /\ h[m - 1] \in D
    BY <2>2, <1>2 DEF Recurs
  <2> QED  BY <2>2, <2>3
<1> HIDE DEF next
<1> DEFINE f == [n \in 0 .. Len(s) |-> h[n]]
<1>4. f \in [0 .. Len(s) -> D]
  BY <1>0
<1>5. f = [n \in 0 .. Len(s) |-> IF n = 0 THEN base ELSE step[<<f[n - 1], s[n]>>]]
  <2>1. ASSUME NEW n \in 0 .. Len(s) PROVE h[n] = IF n = 0 THEN base ELSE step[<<f[n - 1], s[n]>>]
    <3>1. CASE n = 0
      BY <3>1, <1>3
    <3>2. CASE n # 0
      <4>1. n \in 1 .. Len(s) /\ n - 1 \in 0 .. Len(s)
        BY <3>2, <1>0
      <4>2. f[n - 1] = h[n - 1]
        BY <4>1
      <4> QED  BY <3>2, <4>1, <4>2, <1>3
    <3> QED  BY <3>1, <3>2
  <2> QED  BY <2>1
<1> HIDE DEF f
<1> QED  BY <1>4, <1>5 DEF Loops

\* A Filter whose test holds of the first c elements alone returns these.
LEMMA FilterFirst ==
    ASSUME NEW S, NEW s \in Seq(S), NEW c \in 0 .. Len(s), NEW f, Filters(f, s, 1 .. c)
    PROVE  f[Len(s)] = SubSeq(s, 1, c)
<1> DEFINE r == f[Len(s)]
<1>0. Len(s) \in Nat /\ c \in Nat /\ c <= Len(s)
  OBVIOUS
<1>1. \A n \in 0 .. Len(s) : f[n] = IF n = 0 THEN <<>>
                                    ELSE IF n \in 1 .. c THEN Append(f[n - 1], s[n]) ELSE f[n - 1]
  BY DEF Filters
<1> DEFINE first(n) == IF n <= c THEN n ELSE c
           good(n) == /\ f[n] \in Seq(S) /\ Len(f[n]) = first(n)
                      /\ \A i \in 1 .. first(n) : f[n][i] = s[i]
           G == {n \in Nat : n <= Len(s) => good(n)}
<1>2. 0 \in G
  <2>1. f[0] = <<>> /\ first(0) = 0 /\ <<>> \in Seq(S) /\ Len(<<>>) = 0 /\ 1 .. 0 = {}
    BY <1>0, <1>1
  <2> QED  BY <2>1
<1>3. ASSUME NEW n \in G PROVE n + 1 \in G
  <2> SUFFICES ASSUME n + 1 <= Len(s) PROVE good(n + 1)
    OBVIOUS
  <2>1. n \in Nat /\ n <= Len(s) /\ n + 1 \in 0 .. Len(s) /\ n + 1 # 0 /\ (n + 1) - 1 = n /\ good(n)
    BY <1>0
  <2>2. CASE n + 1 <= c
    <3>a. n + 1 \in 1 .. c /\ n + 1 \in 1 .. Len(s) /\ n <= c
      BY <2>1, <2>2, <1>0
    <3>b. f[n + 1] = Append(f[(n + 1) - 1], s[n + 1])
      BY <2>1, <3>a, <1>1
    <3>1. f[n + 1] = Append(f[n], s[n + 1]) /\ first(n) = n /\ first(n + 1) = n + 1 /\ s[n + 1] \in S
      BY <2>1, <2>2, <3>a, <3>b
    <3> DEFINE t == f[n]
    <3>2. t \in Seq(S) /\ Len(t) = n /\ \A i \in 1 .. n : t[i] = s[i]
      BY <2>1, <3>1
    <3> HIDE DEF t
    <3>3. /\ Append(t, s[n + 1]) \in Seq(S) /\ Len(Append(t, s[n + 1])) = n + 1
          /\ \A i \in 1 .. n : Append(t, s[n + 1])[i] = t[i]
          /\ Append(t, s[n + 1])[n + 1] = s[n + 1]
      BY <3>1, <3>2, AppendProperties
    <3>4. \A i \in 1 .. n + 1 : i \in 1 .. n \/ i = n + 1
      BY <2>1
    <3>5. \A i \in 1 .. n + 1 : Append(t, s[n + 1])[i] = s[i]
      BY <3>2, <3>3, <3>4
    <3>6. f[n + 1] = Append(t, s[n + 1])
      BY <3>1 DEF t
    <3> QED  BY <3>1, <3>3, <3>5, <3>6
  <2>3. CASE ~ (n + 1 <= c)
    <3>1. f[n + 1] = f[n] /\ first(n + 1) = c /\ first(n) = c
      BY <2>1, <2>3, <1>0, <1>1
    <3> QED  BY <2>1, <3>1
  <2> QED  BY <2>2, <2>3
<1>4. G = Nat
  <2>1. G \in SUBSET Nat
    OBVIOUS
  <2> HIDE DEF G
  <2> QED  BY <1>2, <1>3, <2>1, SetInduction
<1>5. good(Len(s)) /\ first(Len(s)) = c
  <2>1. Len(s) \in G
    BY <1>0, <1>4
  <2> QED  BY <2>1, <1>0
<1>6. r \in Seq(S) /\ Len(r) = c /\ \A i \in 1 .. c : r[i] = s[i]
  BY <1>5
<1> DEFINE q == SubSeq(s, 1, c)
<1>7. q \in Seq(S) /\ Len(q) = c /\ \A i \in 1 .. c : q[i] = s[i]
  <2>1. \A i \in 1 .. c : s[i] \in S
    BY <1>0
  <2>2. /\ q \in Seq(S) /\ Len(q) = IF 1 <= c THEN c - 1 + 1 ELSE 0
        /\ \A i \in 1 .. c - 1 + 1 : q[i] = s[1 + i - 1]
    BY <2>1, <1>0, SubSeqProperties
  <2>3. \A i \in 1 .. c : i \in 1 .. c - 1 + 1 /\ 1 + i - 1 = i
    BY <1>0
  <2> QED  BY <2>2, <2>3, <1>0
<1> HIDE DEF r, q
<1>8. r = q
  BY <1>6, <1>7, SeqEqual
<1> QED  BY <1>8 DEF r, q

-----------------------------------------------------------------------------
(* The bytes of a reply.                                                     *)

Events == Words \cup {"[DONE]", "done", "error"}
Symbols == {<<e, i>> : e \in Events, i \in {1, 2}} \cup {Stream!Newline}
Cuts == Seq(Seq(Symbols)) \X Seq(Symbols)

\* The bytes of an event are not newlines.
LEMMA BytesOfEvents ==
    ASSUME NEW e \in Events
    PROVE  /\ <<e, 1>> \in Symbols /\ <<e, 2>> \in Symbols /\ Stream!Newline \in Symbols
           /\ <<e, 1>> # Stream!Newline /\ <<e, 2>> # Stream!Newline
           /\ Stream!Bytes(e) = <<<<e, 1>>, <<e, 2>>>>
<1>1. \A x, y, z : <<x, y>> # <<z>>
  <2> SUFFICES ASSUME NEW x, NEW y, NEW z, <<x, y>> = <<z>> PROVE FALSE
    OBVIOUS
  <2>1. Len(<<x, y>>) = 2 /\ Len(<<z>>) = 1
    OBVIOUS
  <2> QED  BY <2>1
<1> QED  BY <1>1 DEF Symbols, Stream!Newline, Stream!Bytes

\* The loop of a split into lines,
LEMMA LinesLoop ==
    ASSUME NEW b \in Seq(Symbols)
    PROVE  \E f \in [0 .. Len(b) -> Cuts] :
               /\ Stream!Lines(b) = f[Len(b)] /\ f[0] = <<<<>>, <<>>>>
               /\ \A n \in 1 .. Len(b) : f[n] = Stream!EndLine(f[n - 1], b[n])
<1> DEFINE base == <<<<>>, <<>>>>
           step == [x \in Cuts \X Symbols |-> Stream!EndLine(x[1], x[2])]
           k == CHOOSE f : f = [n \in 0 .. Len(b) |-> IF n = 0 THEN base ELSE Stream!EndLine(f[n - 1], b[n])]
<1>0. Len(b) \in Nat /\ \A n \in 1 .. Len(b) : b[n] \in Symbols
  OBVIOUS
<1>1. base \in Cuts
  <2>1. <<>> \in Seq(Seq(Symbols)) /\ <<>> \in Seq(Symbols)
    BY EmptySeq
  <2> QED  BY <2>1 DEF Cuts
<1>2. ASSUME NEW cut \in Cuts, NEW byte \in Symbols PROVE Stream!EndLine(cut, byte) \in Cuts
  <2>1. cut[1] \in Seq(Seq(Symbols)) /\ cut[2] \in Seq(Symbols)
    BY DEF Cuts
  <2>2. /\ Append(cut[1], cut[2]) \in Seq(Seq(Symbols)) /\ Append(cut[2], byte) \in Seq(Symbols)
        /\ <<>> \in Seq(Symbols)
    BY <2>1
  <2> QED  BY <2>1, <2>2 DEF Cuts, Stream!EndLine
<1>3. step \in [Cuts \X Symbols -> Cuts]
  BY <1>2
<1>4. Stream!Lines(b) = k[Len(b)]
  BY DEF Stream!Lines, Stream!Loop
<1>5. \A cut \in Cuts, byte \in Symbols : step[<<cut, byte>>] = Stream!EndLine(cut, byte)
  OBVIOUS
<1> HIDE DEF base, step
<1>6. PICK f \in [0 .. Len(b) -> Cuts] : Loops(f, b, base, step)
  BY <1>1, <1>3, LoopExists
<1>7. f = [n \in 0 .. Len(b) |-> IF n = 0 THEN base ELSE Stream!EndLine(f[n - 1], b[n])]
  <2>1. \A n \in 0 .. Len(b) : n # 0 => step[<<f[n - 1], b[n]>>] = Stream!EndLine(f[n - 1], b[n])
    <3> SUFFICES ASSUME NEW n \in 0 .. Len(b), n # 0
                 PROVE  step[<<f[n - 1], b[n]>>] = Stream!EndLine(f[n - 1], b[n])
      OBVIOUS
    <3>1. n - 1 \in 0 .. Len(b) /\ n \in 1 .. Len(b)
      BY <1>0
    <3> QED  BY <3>1, <1>0, <1>5
  <2> QED  BY <2>1, <1>6 DEF Loops
<1>8. k = [n \in 0 .. Len(b) |-> IF n = 0 THEN base ELSE Stream!EndLine(k[n - 1], b[n])]
  BY <1>7
<1> HIDE DEF k
<1>9. k[0] = base /\ \A n \in 1 .. Len(b) : k[n] = Stream!EndLine(k[n - 1], b[n])
  <2>1. 0 \in 0 .. Len(b) /\ \A n \in 1 .. Len(b) : n \in 0 .. Len(b) /\ n # 0
    BY <1>0
  <2> QED  BY <1>8, <2>1
<1> DEFINE G == {n \in Nat : n <= Len(b) => k[n] \in Cuts}
<1>10. 0 \in G
  BY <1>1, <1>9
<1>11. ASSUME NEW n \in G PROVE n + 1 \in G
  <2> SUFFICES ASSUME n + 1 <= Len(b) PROVE k[n + 1] \in Cuts
    OBVIOUS
  <2>1. n \in Nat /\ n <= Len(b) /\ n + 1 \in 1 .. Len(b) /\ (n + 1) - 1 = n /\ k[n] \in Cuts
    BY <1>0
  <2>2. k[n + 1] = Stream!EndLine(k[n], b[n + 1])
    BY <2>1, <1>9
  <2> QED  BY <2>1, <2>2, <1>0, <1>2
<1>12. G = Nat
  <2>1. G \in SUBSET Nat
    OBVIOUS
  <2> HIDE DEF G
  <2> QED  BY <1>10, <1>11, <2>1, SetInduction
<1>13. k \in [0 .. Len(b) -> Cuts]
  <2>1. \A n \in 0 .. Len(b) : k[n] \in Cuts
    BY <1>0, <1>12
  <2> QED  BY <2>1, <1>8
<1> QED  BY <1>4, <1>9, <1>13 DEF base

\* and into frames.
LEMMA FramesLoop ==
    ASSUME NEW b \in Seq(Symbols)
    PROVE  \E f \in [0 .. Len(b) -> Cuts] :
               /\ Stream!Frames(b) = f[Len(b)] /\ f[0] = <<<<>>, <<>>>>
               /\ \A n \in 1 .. Len(b) : f[n] = Stream!EndFrame(f[n - 1], b[n])
<1> DEFINE base == <<<<>>, <<>>>>
           step == [x \in Cuts \X Symbols |-> Stream!EndFrame(x[1], x[2])]
           k == CHOOSE f : f = [n \in 0 .. Len(b) |-> IF n = 0 THEN base ELSE Stream!EndFrame(f[n - 1], b[n])]
<1>0. Len(b) \in Nat /\ \A n \in 1 .. Len(b) : b[n] \in Symbols
  OBVIOUS
<1>1. base \in Cuts
  <2>1. <<>> \in Seq(Seq(Symbols)) /\ <<>> \in Seq(Symbols)
    BY EmptySeq
  <2> QED  BY <2>1 DEF Cuts
<1>2. ASSUME NEW cut \in Cuts, NEW byte \in Symbols PROVE Stream!EndFrame(cut, byte) \in Cuts
  <2>1. cut[1] \in Seq(Seq(Symbols)) /\ cut[2] \in Seq(Symbols)
    BY DEF Cuts
  <2>2. /\ Append(cut[2], byte) \in Seq(Symbols) /\ <<>> \in Seq(Symbols)
    BY <2>1
  <2>3. cut[2] # <<>> => Append(cut[1], Stream!Front(cut[2])) \in Seq(Seq(Symbols))
    <3>1. cut[2] # <<>> => SubSeq(cut[2], 1, Len(cut[2]) - 1) \in Seq(Symbols)
      BY <2>1
    <3> QED  BY <2>1, <3>1 DEF Stream!Front
  <2> QED  BY <2>1, <2>2, <2>3 DEF Cuts, Stream!EndFrame
<1>3. step \in [Cuts \X Symbols -> Cuts]
  BY <1>2
<1>4. Stream!Frames(b) = k[Len(b)]
  BY DEF Stream!Frames, Stream!Loop
<1>5. \A cut \in Cuts, byte \in Symbols : step[<<cut, byte>>] = Stream!EndFrame(cut, byte)
  OBVIOUS
<1> HIDE DEF base, step
<1>6. PICK f \in [0 .. Len(b) -> Cuts] : Loops(f, b, base, step)
  BY <1>1, <1>3, LoopExists
<1>7. f = [n \in 0 .. Len(b) |-> IF n = 0 THEN base ELSE Stream!EndFrame(f[n - 1], b[n])]
  <2>1. \A n \in 0 .. Len(b) : n # 0 => step[<<f[n - 1], b[n]>>] = Stream!EndFrame(f[n - 1], b[n])
    <3> SUFFICES ASSUME NEW n \in 0 .. Len(b), n # 0
                 PROVE  step[<<f[n - 1], b[n]>>] = Stream!EndFrame(f[n - 1], b[n])
      OBVIOUS
    <3>1. n - 1 \in 0 .. Len(b) /\ n \in 1 .. Len(b)
      BY <1>0
    <3> QED  BY <3>1, <1>0, <1>5
  <2> QED  BY <2>1, <1>6 DEF Loops
<1>8. k = [n \in 0 .. Len(b) |-> IF n = 0 THEN base ELSE Stream!EndFrame(k[n - 1], b[n])]
  BY <1>7
<1> HIDE DEF k
<1>9. k[0] = base /\ \A n \in 1 .. Len(b) : k[n] = Stream!EndFrame(k[n - 1], b[n])
  <2>1. 0 \in 0 .. Len(b) /\ \A n \in 1 .. Len(b) : n \in 0 .. Len(b) /\ n # 0
    BY <1>0
  <2> QED  BY <1>8, <2>1
<1> DEFINE G == {n \in Nat : n <= Len(b) => k[n] \in Cuts}
<1>10. 0 \in G
  BY <1>1, <1>9
<1>11. ASSUME NEW n \in G PROVE n + 1 \in G
  <2> SUFFICES ASSUME n + 1 <= Len(b) PROVE k[n + 1] \in Cuts
    OBVIOUS
  <2>1. n \in Nat /\ n <= Len(b) /\ n + 1 \in 1 .. Len(b) /\ (n + 1) - 1 = n /\ k[n] \in Cuts
    BY <1>0
  <2>2. k[n + 1] = Stream!EndFrame(k[n], b[n + 1])
    BY <2>1, <1>9
  <2> QED  BY <2>1, <2>2, <1>0, <1>2
<1>12. G = Nat
  <2>1. G \in SUBSET Nat
    OBVIOUS
  <2> HIDE DEF G
  <2> QED  BY <1>10, <1>11, <2>1, SetInduction
<1>13. k \in [0 .. Len(b) -> Cuts]
  <2>1. \A n \in 0 .. Len(b) : k[n] \in Cuts
    BY <1>0, <1>12
  <2> QED  BY <2>1, <1>8
<1> QED  BY <1>4, <1>9, <1>13 DEF base

\* b is the lines, or the frames, of the events E; a begins b.
IsLines(b, E) ==
    /\ b \in Seq(Symbols) /\ E \in Seq(Events) /\ Len(b) = 3 * Len(E)
    /\ \A j \in 1 .. Len(E) : /\ b[3 * j - 2] = <<E[j], 1>> /\ b[3 * j - 1] = <<E[j], 2>>
                              /\ b[3 * j] = Stream!Newline
IsFrames(b, E) ==
    /\ b \in Seq(Symbols) /\ E \in Seq(Events) /\ Len(b) = 4 * Len(E)
    /\ \A j \in 1 .. Len(E) : /\ b[4 * j - 3] = <<E[j], 1>> /\ b[4 * j - 2] = <<E[j], 2>>
                              /\ b[4 * j - 1] = Stream!Newline /\ b[4 * j] = Stream!Newline
Begins(a, b) == a \in Seq(Symbols) /\ Len(a) <= Len(b) /\ \A i \in 1 .. Len(a) : a[i] = b[i]

\* What a split leaves after n symbols: the first k events whole, and the rest.
PartsAre(parts, E, k) ==
    /\ parts \in Seq(Seq(Symbols)) /\ Len(parts) = k
    /\ \A j \in 1 .. k : parts[j] = Stream!Bytes(E[j])
LineRest(E, k, o) ==
    IF o = 0 THEN <<>> ELSE IF o = 1 THEN <<<<E[k + 1], 1>>>> ELSE <<<<E[k + 1], 1>>, <<E[k + 1], 2>>>>
CutAt(cut, E, n, k) ==
    /\ k <= Len(E) /\ 3 * k <= n /\ n <= 3 * k + 2
    /\ PartsAre(cut[1], E, k) /\ cut[2] = LineRest(E, k, n - 3 * k)
CutLines(cut, E, n) == \E k \in Nat : CutAt(cut, E, n, k)

FrameRest(E, k, o) ==
    IF o = 3 THEN <<<<E[k + 1], 1>>, <<E[k + 1], 2>>, Stream!Newline>> ELSE LineRest(E, k, o)
CutFrameAt(cut, E, n, k) ==
    /\ k <= Len(E) /\ 4 * k <= n /\ n <= 4 * k + 3
    /\ PartsAre(cut[1], E, k) /\ cut[2] = FrameRest(E, k, n - 4 * k)
CutFrames(cut, E, n) == \E k \in Nat : CutFrameAt(cut, E, n, k)

\* One more whole event.
LEMMA PartsGrow ==
    ASSUME NEW parts, NEW E, NEW k \in Nat, PartsAre(parts, E, k),
           NEW p \in Seq(Symbols), p = Stream!Bytes(E[k + 1])
    PROVE  PartsAre(Append(parts, p), E, k + 1)
<1> DEFINE new == Append(parts, p)
<1>1. /\ new \in Seq(Seq(Symbols)) /\ Len(new) = k + 1
      /\ \A j \in 1 .. k : new[j] = parts[j]
      /\ new[k + 1] = p
  BY AppendProperties DEF PartsAre
<1> HIDE DEF new
<1>2. ASSUME NEW j \in 1 .. k + 1 PROVE new[j] = Stream!Bytes(E[j])
  <2>1. CASE j = k + 1
    BY <2>1, <1>1
  <2>2. CASE j # k + 1
    <3>1. j \in 1 .. k
      BY <2>2
    <3> QED  BY <3>1, <1>1 DEF PartsAre
  <2> QED  BY <2>1, <2>2
<1>3. PartsAre(new, E, k + 1)
  BY <1>1, <1>2 DEF PartsAre
<1> QED  BY <1>3 DEF new

\* One more symbol of the lines.
LEMMA LinesGrow ==
    ASSUME NEW B, NEW E, IsLines(B, E), NEW n \in Nat, n + 1 <= Len(B),
           NEW cut \in Cuts, CutLines(cut, E, n)
    PROVE  CutLines(Stream!EndLine(cut, B[n + 1]), E, n + 1)
<1>1. PICK k \in Nat : CutAt(cut, E, n, k)
  BY DEF CutLines
<1> DEFINE byte == B[n + 1]
           new == Stream!EndLine(cut, byte)
<1>0. /\ k <= Len(E) /\ 3 * k <= n /\ n <= 3 * k + 2 /\ PartsAre(cut[1], E, k)
      /\ cut[2] = LineRest(E, k, n - 3 * k)
  BY <1>1 DEF CutAt
<1>2. /\ Len(E) \in Nat /\ E \in Seq(Events) /\ k + 1 <= Len(E) /\ k + 1 \in 1 .. Len(E) /\ E[k + 1] \in Events
      /\ Len(B) = 3 * Len(E)
  <2>1. Len(E) \in Nat /\ E \in Seq(Events) /\ Len(B) = 3 * Len(E)
    BY DEF IsLines
  <2>2. k + 1 <= Len(E) /\ k + 1 \in 1 .. Len(E)
    BY <1>0, <2>1
  <2> QED  BY <2>1, <2>2
<1> DEFINE e == E[k + 1]
<1>3. /\ B[3 * (k + 1) - 2] = <<e, 1>> /\ B[3 * (k + 1) - 1] = <<e, 2>>
      /\ B[3 * (k + 1)] = Stream!Newline
  BY <1>2 DEF IsLines
<1>4. /\ <<e, 1>> # Stream!Newline /\ <<e, 2>> # Stream!Newline
      /\ Stream!Bytes(e) = <<<<e, 1>>, <<e, 2>>>>
  BY <1>2, BytesOfEvents
<1>5. cut[1] \in Seq(Seq(Symbols)) /\ cut[2] \in Seq(Symbols)
  BY DEF Cuts
<1> HIDE DEF e
<1>6. CASE n = 3 * k
  <2>1. cut[2] = <<>> /\ byte = <<e, 1>>
    <3>1. n + 1 = 3 * (k + 1) - 2 /\ n - 3 * k = 0
      BY <1>6
    <3> QED  BY <3>1, <1>0, <1>3 DEF LineRest
  <2>2. new = <<cut[1], <<<<e, 1>>>>>>
    BY <2>1, <1>4 DEF Stream!EndLine
  <2>3. (n + 1) - 3 * k = 1 /\ 3 * k <= n + 1 /\ n + 1 <= 3 * k + 2
    BY <1>6
  <2>4. LineRest(E, k, 1) = <<<<e, 1>>>>
    BY DEF LineRest, e
  <2>5. CutAt(new, E, n + 1, k)
    BY <1>0, <2>2, <2>3, <2>4 DEF CutAt
  <2> QED  BY <2>5 DEF CutLines
<1>7. CASE n = 3 * k + 1
  <2>1. cut[2] = <<<<e, 1>>>> /\ byte = <<e, 2>>
    <3>1. n + 1 = 3 * (k + 1) - 1 /\ n - 3 * k = 1
      BY <1>7
    <3>2. cut[2] = <<<<e, 1>>>>
      BY <3>1, <1>0 DEF LineRest, e
    <3> QED  BY <3>1, <3>2, <1>3
  <2>2. new = <<cut[1], <<<<e, 1>>, <<e, 2>>>>>>
    BY <2>1, <1>4 DEF Stream!EndLine
  <2>3. (n + 1) - 3 * k = 2 /\ 3 * k <= n + 1 /\ n + 1 <= 3 * k + 2
    BY <1>7
  <2>4. LineRest(E, k, 2) = <<<<e, 1>>, <<e, 2>>>>
    BY DEF LineRest, e
  <2>5. CutAt(new, E, n + 1, k)
    BY <1>0, <2>2, <2>3, <2>4 DEF CutAt
  <2> QED  BY <2>5 DEF CutLines
<1>8. CASE n = 3 * k + 2
  <2>1. cut[2] = Stream!Bytes(e) /\ byte = Stream!Newline
    <3>1. n + 1 = 3 * (k + 1) /\ n - 3 * k = 2
      BY <1>8
    <3> QED  BY <3>1, <1>0, <1>3, <1>4 DEF LineRest, e
  <2> DEFINE parts == Append(cut[1], cut[2])
  <2>2. new = <<parts, <<>>>>
    BY <2>1 DEF Stream!EndLine
  <2>3. (n + 1) - 3 * (k + 1) = 0 /\ 3 * (k + 1) <= n + 1 /\ n + 1 <= 3 * (k + 1) + 2
    BY <1>8
  <2>4. LineRest(E, k + 1, 0) = <<>>
    BY DEF LineRest
  <2>5. PartsAre(parts, E, k + 1)
    BY <1>0, <1>5, <2>1, PartsGrow DEF e
  <2> HIDE DEF parts
  <2>6. CutAt(new, E, n + 1, k + 1)
    BY <1>2, <2>2, <2>3, <2>4, <2>5 DEF CutAt
  <2> QED  BY <2>6 DEF CutLines
<1> QED  BY <1>0, <1>6, <1>7, <1>8

\* Reading the first symbols of lines gives the lines that end in them, and the rest.
LEMMA LinesRead ==
    ASSUME NEW B, NEW E, IsLines(B, E), NEW b, Begins(b, B)
    PROVE  Stream!Lines(b) \in Cuts /\ CutLines(Stream!Lines(b), E, Len(b))
<1>0. b \in Seq(Symbols) /\ Len(b) \in Nat /\ Len(b) <= Len(B) /\ Len(B) \in Nat /\ \A i \in 1 .. Len(b) : b[i] = B[i]
  BY DEF Begins, IsLines
<1>1. PICK f \in [0 .. Len(b) -> Cuts] :
          /\ Stream!Lines(b) = f[Len(b)] /\ f[0] = <<<<>>, <<>>>>
          /\ \A n \in 1 .. Len(b) : f[n] = Stream!EndLine(f[n - 1], b[n])
  BY <1>0, LinesLoop
<1> DEFINE G == {n \in Nat : n <= Len(b) => CutLines(f[n], E, n)}
<1>2. 0 \in G
  <2>1. PartsAre(<<>>, E, 0)
    <3>1. <<>> \in Seq(Seq(Symbols)) /\ Len(<<>>) = 0 /\ 1 .. 0 = {}
      BY EmptySeq
    <3> QED  BY <3>1 DEF PartsAre
  <2>2. LineRest(E, 0, 0) = <<>> /\ 0 - 3 * 0 = 0 /\ 3 * 0 = 0 /\ Len(E) \in Nat /\ 0 \in Nat
    BY DEF LineRest, IsLines
  <2>3. CutAt(f[0], E, 0, 0)
    BY <1>1, <2>1, <2>2 DEF CutAt
  <2>4. CutLines(f[0], E, 0)
    BY <2>2, <2>3 DEF CutLines
  <2> QED  BY <2>4
<1>3. ASSUME NEW n \in G PROVE n + 1 \in G
  <2> SUFFICES ASSUME n + 1 <= Len(b) PROVE CutLines(f[n + 1], E, n + 1)
    OBVIOUS
  <2>1. /\ n \in Nat /\ n <= Len(b) /\ n + 1 \in 1 .. Len(b) /\ (n + 1) - 1 = n /\ n + 1 <= Len(B)
        /\ CutLines(f[n], E, n) /\ f[n] \in Cuts
    BY <1>0
  <2>2. f[n + 1] = Stream!EndLine(f[n], b[n + 1]) /\ b[n + 1] = B[n + 1]
    BY <2>1, <1>0, <1>1
  <2>3. CutLines(Stream!EndLine(f[n], B[n + 1]), E, n + 1)
    BY <2>1, LinesGrow
  <2> QED  BY <2>2, <2>3
<1>4. G = Nat
  <2>1. G \in SUBSET Nat
    OBVIOUS
  <2> HIDE DEF G
  <2> QED  BY <1>2, <1>3, <2>1, SetInduction
<1>5. CutLines(f[Len(b)], E, Len(b)) /\ f[Len(b)] \in Cuts
  <2>1. Len(b) \in G
    BY <1>0, <1>4
  <2> QED  BY <2>1, <1>0
<1> QED  BY <1>1, <1>5

\* What a short sequence is without its last element or with one more.
LEMMA Short ==
    ASSUME NEW a \in Symbols, NEW b \in Symbols, NEW c \in Symbols
    PROVE  /\ <<a>> \in Seq(Symbols) /\ <<a, b>> \in Seq(Symbols) /\ <<a, b, c>> \in Seq(Symbols)
           /\ Append(<<a>>, b) = <<a, b>> /\ Append(<<a, b>>, c) = <<a, b, c>>
           /\ SubSeq(<<a, b>>, 1, 1) = <<a>> /\ SubSeq(<<a, b, c>>, 1, 2) = <<a, b>>
<1>1. /\ <<a>> \in Seq(Symbols) /\ Len(<<a>>) = 1 /\ <<a>>[1] = a
      /\ <<a, b>> \in Seq(Symbols) /\ Len(<<a, b>>) = 2 /\ <<a, b>>[1] = a /\ <<a, b>>[2] = b
      /\ <<a, b, c>> \in Seq(Symbols) /\ Len(<<a, b, c>>) = 3
      /\ <<a, b, c>>[1] = a /\ <<a, b, c>>[2] = b /\ <<a, b, c>>[3] = c
  OBVIOUS
<1>2. \A s, t \in Seq(Symbols) : Len(s) = Len(t) /\ (\A i \in 1 .. Len(s) : s[i] = t[i]) => s = t
  BY SeqEqual
<1>3. Append(<<a>>, b) = <<a, b>>
  <2> DEFINE s == <<a>>
             t == Append(s, b)
  <2>1. t \in Seq(Symbols) /\ Len(t) = 2 /\ t[1] = a /\ t[2] = b
    BY <1>1, AppendProperties
  <2> HIDE DEF t
  <2>2. \A i \in 1 .. 2 : i = 1 \/ i = 2
    OBVIOUS
  <2>3. \A i \in 1 .. 2 : t[i] = <<a, b>>[i]
    BY <2>1, <2>2, <1>1
  <2>4. t = <<a, b>>
    BY <2>1, <2>3, <1>1, <1>2
  <2> QED  BY <2>4 DEF t
<1>4. Append(<<a, b>>, c) = <<a, b, c>>
  <2> DEFINE s == <<a, b>>
             t == Append(s, c)
  <2>1. t \in Seq(Symbols) /\ Len(t) = 3 /\ t[1] = a /\ t[2] = b /\ t[3] = c
    BY <1>1, AppendProperties
  <2> HIDE DEF t
  <2>2. \A i \in 1 .. 3 : i = 1 \/ i = 2 \/ i = 3
    OBVIOUS
  <2>3. \A i \in 1 .. 3 : t[i] = <<a, b, c>>[i]
    BY <2>1, <2>2, <1>1
  <2>4. t = <<a, b, c>>
    BY <2>1, <2>3, <1>1, <1>2
  <2> QED  BY <2>4 DEF t
<1>5. SubSeq(<<a, b>>, 1, 1) = <<a>>
  <2> DEFINE s == <<a, b>>
             t == SubSeq(s, 1, 1)
  <2>1. s \in Seq(Symbols) /\ Len(s) = 2 /\ s[1] = a
    BY <1>1
  <2> HIDE DEF s
  <2>2. t \in Seq(Symbols) /\ Len(t) = 1 /\ t[1] = a
    BY <2>1
  <2> HIDE DEF t
  <2>3. \A i \in 1 .. 1 : t[i] = <<a>>[i]
    BY <2>2, <1>1
  <2>4. t = <<a>>
    BY <2>2, <2>3, <1>1, <1>2
  <2> QED  BY <2>4 DEF t, s
<1>6. SubSeq(<<a, b, c>>, 1, 2) = <<a, b>>
  <2> DEFINE s == <<a, b, c>>
             t == SubSeq(s, 1, 2)
  <2>1. s \in Seq(Symbols) /\ Len(s) = 3 /\ s[1] = a /\ s[2] = b
    BY <1>1
  <2> HIDE DEF s
  <2>2. t \in Seq(Symbols) /\ Len(t) = 2 /\ t[1] = a /\ t[2] = b
    BY <2>1
  <2> HIDE DEF t
  <2>3. \A i \in 1 .. 2 : i = 1 \/ i = 2
    OBVIOUS
  <2>4. \A i \in 1 .. 2 : t[i] = <<a, b>>[i]
    BY <2>2, <2>3, <1>1
  <2>5. t = <<a, b>>
    BY <2>2, <2>4, <1>1, <1>2
  <2> QED  BY <2>5 DEF t, s
<1> QED  BY <1>1, <1>3, <1>4, <1>5, <1>6
\* Where a newline leads a split into frames: after a newline it ends the frame.
LEMMA FrameEnds ==
    ASSUME NEW cut, NEW a \in Symbols, NEW c \in Symbols
    PROVE  /\ c # Stream!Newline => Stream!EndFrame(cut, c) = <<cut[1], Append(cut[2], c)>>
           /\ cut[2] = <<>> => Stream!EndFrame(cut, Stream!Newline) = <<cut[1], <<Stream!Newline>>>>
           /\ cut[2] = <<a>> /\ a # Stream!Newline
                => Stream!EndFrame(cut, Stream!Newline) = <<cut[1], <<a, Stream!Newline>>>>
           /\ cut[2] = <<a, c>> /\ c # Stream!Newline
                => Stream!EndFrame(cut, Stream!Newline) = <<cut[1], <<a, c, Stream!Newline>>>>
           /\ cut[2] = <<a, Stream!Newline>>
                => Stream!EndFrame(cut, Stream!Newline) = <<Append(cut[1], <<a>>), <<>>>>
           /\ cut[2] = <<a, c, Stream!Newline>>
                => Stream!EndFrame(cut, Stream!Newline) = <<Append(cut[1], <<a, c>>), <<>>>>
<1> DEFINE new == Stream!EndFrame(cut, Stream!Newline)
<1>0. Stream!Newline \in Symbols
  BY DEF Symbols
<1>1. c # Stream!Newline => Stream!EndFrame(cut, c) = <<cut[1], Append(cut[2], c)>>
  BY DEF Stream!EndFrame
<1>2. cut[2] = <<>> => new = <<cut[1], <<Stream!Newline>>>>
  BY DEF Stream!EndFrame
<1>s. /\ Append(<<a>>, Stream!Newline) = <<a, Stream!Newline>>
      /\ Append(<<a, c>>, Stream!Newline) = <<a, c, Stream!Newline>>
      /\ SubSeq(<<a, Stream!Newline>>, 1, 1) = <<a>>
      /\ SubSeq(<<a, c, Stream!Newline>>, 1, 2) = <<a, c>>
  <2>1. \A x, y, z \in Symbols : /\ Append(<<x>>, y) = <<x, y>> /\ Append(<<x, y>>, z) = <<x, y, z>>
                                /\ SubSeq(<<x, y>>, 1, 1) = <<x>> /\ SubSeq(<<x, y, z>>, 1, 2) = <<x, y>>
    BY Short
  <2> QED  BY <1>0, <2>1
<1>t. /\ \A x : Len(<<x>>) = 1 /\ <<x>> # <<>>
      /\ \A x, y : Len(<<x, y>>) = 2 /\ <<x, y>> # <<>>
      /\ \A x, y, z : Len(<<x, y, z>>) = 3 /\ <<x, y, z>> # <<>>
  OBVIOUS
<1>3. ASSUME cut[2] = <<a>>, a # Stream!Newline PROVE new = <<cut[1], <<a, Stream!Newline>>>>
  <2>1. Stream!Last(<<a>>) = a
    BY DEF Stream!Last
  <2> QED  BY <1>3, <1>s, <2>1 DEF Stream!EndFrame
<1>4. ASSUME cut[2] = <<a, c>>, c # Stream!Newline PROVE new = <<cut[1], <<a, c, Stream!Newline>>>>
  <2>1. Stream!Last(<<a, c>>) = c
    BY DEF Stream!Last
  <2> QED  BY <1>4, <1>s, <2>1 DEF Stream!EndFrame
<1>5. ASSUME cut[2] = <<a, Stream!Newline>> PROVE new = <<Append(cut[1], <<a>>), <<>>>>
  <2>1. Stream!Last(<<a, Stream!Newline>>) = Stream!Newline
    BY DEF Stream!Last
  <2>2. Stream!Front(<<a, Stream!Newline>>) = SubSeq(<<a, Stream!Newline>>, 1, 1)
    <3>1. Len(<<a, Stream!Newline>>) - 1 = 1
      BY <1>t
    <3> QED  BY <3>1 DEF Stream!Front
  <2> QED  BY <1>5, <1>s, <1>t, <2>1, <2>2 DEF Stream!EndFrame
<1>6. ASSUME cut[2] = <<a, c, Stream!Newline>> PROVE new = <<Append(cut[1], <<a, c>>), <<>>>>
  <2>1. Stream!Last(<<a, c, Stream!Newline>>) = Stream!Newline
    BY DEF Stream!Last
  <2>2. Stream!Front(<<a, c, Stream!Newline>>) = SubSeq(<<a, c, Stream!Newline>>, 1, 2)
    <3>1. Len(<<a, c, Stream!Newline>>) - 1 = 2
      BY <1>t
    <3> QED  BY <3>1 DEF Stream!Front
  <2> QED  BY <1>6, <1>s, <1>t, <2>1, <2>2 DEF Stream!EndFrame
<1> HIDE DEF new
<1>7. /\ cut[2] = <<a>> /\ a # Stream!Newline => new = <<cut[1], <<a, Stream!Newline>>>>
      /\ cut[2] = <<a, c>> /\ c # Stream!Newline => new = <<cut[1], <<a, c, Stream!Newline>>>>
      /\ cut[2] = <<a, Stream!Newline>> => new = <<Append(cut[1], <<a>>), <<>>>>
      /\ cut[2] = <<a, c, Stream!Newline>> => new = <<Append(cut[1], <<a, c>>), <<>>>>
  BY <1>3, <1>4, <1>5, <1>6
<1> QED  BY <1>1, <1>2, <1>7 DEF new

\* One more symbol of the frames.
LEMMA FramesGrow ==
    ASSUME NEW B, NEW E, IsFrames(B, E), NEW n \in Nat, n + 1 <= Len(B),
           NEW cut \in Cuts, CutFrames(cut, E, n)
    PROVE  CutFrames(Stream!EndFrame(cut, B[n + 1]), E, n + 1)
<1>1. PICK k \in Nat : CutFrameAt(cut, E, n, k)
  BY DEF CutFrames
<1> DEFINE byte == B[n + 1]
           new == Stream!EndFrame(cut, byte)
<1>0. /\ k <= Len(E) /\ 4 * k <= n /\ n <= 4 * k + 3 /\ PartsAre(cut[1], E, k)
      /\ cut[2] = FrameRest(E, k, n - 4 * k)
  BY <1>1 DEF CutFrameAt
<1>2. /\ Len(E) \in Nat /\ E \in Seq(Events) /\ k + 1 <= Len(E) /\ k + 1 \in 1 .. Len(E) /\ E[k + 1] \in Events
      /\ Len(B) = 4 * Len(E)
  <2>1. Len(E) \in Nat /\ E \in Seq(Events) /\ Len(B) = 4 * Len(E)
    BY DEF IsFrames
  <2>2. k + 1 <= Len(E) /\ k + 1 \in 1 .. Len(E)
    BY <1>0, <2>1
  <2> QED  BY <2>1, <2>2
<1> DEFINE e == E[k + 1]
<1>3. /\ B[4 * (k + 1) - 3] = <<e, 1>> /\ B[4 * (k + 1) - 2] = <<e, 2>>
      /\ B[4 * (k + 1) - 1] = Stream!Newline /\ B[4 * (k + 1)] = Stream!Newline
  BY <1>2 DEF IsFrames
<1>4. /\ <<e, 1>> # Stream!Newline /\ <<e, 2>> # Stream!Newline
      /\ Stream!Bytes(e) = <<<<e, 1>>, <<e, 2>>>> /\ <<e, 1>> \in Symbols /\ <<e, 2>> \in Symbols
  BY <1>2, BytesOfEvents
<1>5. cut[1] \in Seq(Seq(Symbols)) /\ cut[2] \in Seq(Symbols)
  BY DEF Cuts
<1> HIDE DEF e
<1>6. CASE n = 4 * k
  <2>1. cut[2] = <<>> /\ byte = <<e, 1>>
    <3>1. n + 1 = 4 * (k + 1) - 3 /\ n - 4 * k = 0
      BY <1>6
    <3> QED  BY <3>1, <1>0, <1>3 DEF FrameRest, LineRest
  <2>2. new = <<cut[1], <<<<e, 1>>>>>>
    <3>1. new = <<cut[1], Append(cut[2], byte)>>
      BY <2>1, <1>4, FrameEnds
    <3>2. Append(<<>>, byte) = <<byte>>
      OBVIOUS
    <3> QED  BY <3>1, <3>2, <2>1
  <2>3. (n + 1) - 4 * k = 1 /\ 4 * k <= n + 1 /\ n + 1 <= 4 * k + 3
    BY <1>6
  <2>4. FrameRest(E, k, 1) = <<<<e, 1>>>>
    BY DEF FrameRest, LineRest, e
  <2>5. CutFrameAt(new, E, n + 1, k)
    BY <1>0, <2>2, <2>3, <2>4 DEF CutFrameAt
  <2> QED  BY <2>5 DEF CutFrames
<1>7. CASE n = 4 * k + 1
  <2>1. cut[2] = <<<<e, 1>>>> /\ byte = <<e, 2>>
    <3>1. n + 1 = 4 * (k + 1) - 2 /\ n - 4 * k = 1
      BY <1>7
    <3>2. cut[2] = <<<<e, 1>>>>
      BY <3>1, <1>0 DEF FrameRest, LineRest, e
    <3> QED  BY <3>1, <3>2, <1>3
  <2>2. new = <<cut[1], <<<<e, 1>>, <<e, 2>>>>>>
    <3>1. new = <<cut[1], Append(cut[2], byte)>>
      BY <2>1, <1>4, FrameEnds
    <3>2. Append(<<<<e, 1>>>>, <<e, 2>>) = <<<<e, 1>>, <<e, 2>>>>
      <4>1. \A x, y \in Symbols : Append(<<x>>, y) = <<x, y>>
        BY Short
      <4> QED  BY <1>4, <4>1
    <3> QED  BY <3>1, <3>2, <2>1
  <2>3. (n + 1) - 4 * k = 2 /\ 4 * k <= n + 1 /\ n + 1 <= 4 * k + 3
    BY <1>7
  <2>4. FrameRest(E, k, 2) = <<<<e, 1>>, <<e, 2>>>>
    BY DEF FrameRest, LineRest, e
  <2>5. CutFrameAt(new, E, n + 1, k)
    BY <1>0, <2>2, <2>3, <2>4 DEF CutFrameAt
  <2> QED  BY <2>5 DEF CutFrames
<1>8. CASE n = 4 * k + 2
  <2>1. cut[2] = <<<<e, 1>>, <<e, 2>>>> /\ byte = Stream!Newline
    <3>1. n + 1 = 4 * (k + 1) - 1 /\ n - 4 * k = 2
      BY <1>8
    <3>2. cut[2] = <<<<e, 1>>, <<e, 2>>>>
      BY <3>1, <1>0 DEF FrameRest, LineRest, e
    <3> QED  BY <3>1, <3>2, <1>3
  <2>2. new = <<cut[1], <<<<e, 1>>, <<e, 2>>, Stream!Newline>>>>
    BY <2>1, <1>4, FrameEnds
  <2>3. (n + 1) - 4 * k = 3 /\ 4 * k <= n + 1 /\ n + 1 <= 4 * k + 3
    BY <1>8
  <2>4. FrameRest(E, k, 3) = <<<<e, 1>>, <<e, 2>>, Stream!Newline>>
    BY DEF FrameRest, e
  <2>5. CutFrameAt(new, E, n + 1, k)
    BY <1>0, <2>2, <2>3, <2>4 DEF CutFrameAt
  <2> QED  BY <2>5 DEF CutFrames
<1>9. CASE n = 4 * k + 3
  <2>1. cut[2] = <<<<e, 1>>, <<e, 2>>, Stream!Newline>> /\ byte = Stream!Newline
    <3>1. n + 1 = 4 * (k + 1) /\ n - 4 * k = 3
      BY <1>9
    <3>2. cut[2] = <<<<e, 1>>, <<e, 2>>, Stream!Newline>>
      BY <3>1, <1>0 DEF FrameRest, e
    <3> QED  BY <3>1, <3>2, <1>3
  <2> DEFINE parts == Append(cut[1], Stream!Bytes(e))
  <2>2. new = <<parts, <<>>>>
    <3>1. new = <<Append(cut[1], <<<<e, 1>>, <<e, 2>>>>), <<>>>>
      BY <2>1, <1>4, FrameEnds
    <3> QED  BY <3>1, <1>4
  <2>3. (n + 1) - 4 * (k + 1) = 0 /\ 4 * (k + 1) <= n + 1 /\ n + 1 <= 4 * (k + 1) + 3
    BY <1>9
  <2>4. FrameRest(E, k + 1, 0) = <<>>
    BY DEF FrameRest, LineRest
  <2>5. PartsAre(parts, E, k + 1)
    <3>1. Stream!Bytes(e) \in Seq(Symbols)
      BY <1>4
    <3> QED  BY <1>0, <3>1, PartsGrow DEF e
  <2> HIDE DEF parts
  <2>6. CutFrameAt(new, E, n + 1, k + 1)
    BY <1>2, <2>2, <2>3, <2>4, <2>5 DEF CutFrameAt
  <2> QED  BY <2>6 DEF CutFrames
<1> QED  BY <1>0, <1>6, <1>7, <1>8, <1>9

\* Reading the first symbols of frames gives the frames that end in them, and the rest.
LEMMA FramesRead ==
    ASSUME NEW B, NEW E, IsFrames(B, E), NEW b, Begins(b, B)
    PROVE  Stream!Frames(b) \in Cuts /\ CutFrames(Stream!Frames(b), E, Len(b))
<1>0. b \in Seq(Symbols) /\ Len(b) \in Nat /\ Len(b) <= Len(B) /\ Len(B) \in Nat /\ \A i \in 1 .. Len(b) : b[i] = B[i]
  BY DEF Begins, IsFrames
<1>1. PICK f \in [0 .. Len(b) -> Cuts] :
          /\ Stream!Frames(b) = f[Len(b)] /\ f[0] = <<<<>>, <<>>>>
          /\ \A n \in 1 .. Len(b) : f[n] = Stream!EndFrame(f[n - 1], b[n])
  BY <1>0, FramesLoop
<1> DEFINE G == {n \in Nat : n <= Len(b) => CutFrames(f[n], E, n)}
<1>2. 0 \in G
  <2>1. PartsAre(<<>>, E, 0)
    <3>1. <<>> \in Seq(Seq(Symbols)) /\ Len(<<>>) = 0 /\ 1 .. 0 = {}
      BY EmptySeq
    <3> QED  BY <3>1 DEF PartsAre
  <2>2. FrameRest(E, 0, 0) = <<>> /\ 0 - 4 * 0 = 0 /\ 4 * 0 = 0 /\ Len(E) \in Nat /\ 0 \in Nat
    BY DEF FrameRest, LineRest, IsFrames
  <2>3. CutFrameAt(f[0], E, 0, 0)
    BY <1>1, <2>1, <2>2 DEF CutFrameAt
  <2>4. CutFrames(f[0], E, 0)
    BY <2>2, <2>3 DEF CutFrames
  <2> QED  BY <2>4
<1>3. ASSUME NEW n \in G PROVE n + 1 \in G
  <2> SUFFICES ASSUME n + 1 <= Len(b) PROVE CutFrames(f[n + 1], E, n + 1)
    OBVIOUS
  <2>1. /\ n \in Nat /\ n <= Len(b) /\ n + 1 \in 1 .. Len(b) /\ (n + 1) - 1 = n /\ n + 1 <= Len(B)
        /\ CutFrames(f[n], E, n) /\ f[n] \in Cuts
    BY <1>0
  <2>2. f[n + 1] = Stream!EndFrame(f[n], b[n + 1]) /\ b[n + 1] = B[n + 1]
    BY <2>1, <1>0, <1>1
  <2>3. CutFrames(Stream!EndFrame(f[n], B[n + 1]), E, n + 1)
    BY <2>1, FramesGrow
  <2> QED  BY <2>2, <2>3
<1>4. G = Nat
  <2>1. G \in SUBSET Nat
    OBVIOUS
  <2> HIDE DEF G
  <2> QED  BY <1>2, <1>3, <2>1, SetInduction
<1>5. CutFrames(f[Len(b)], E, Len(b)) /\ f[Len(b)] \in Cuts
  <2>1. Len(b) \in G
    BY <1>0, <1>4
  <2> QED  BY <2>1, <1>0
<1> QED  BY <1>1, <1>5

\* The events that are left after the first k.
LEMMA EventsLeft ==
    ASSUME NEW E \in Seq(Events), NEW k \in Nat, k <= Len(E)
    PROVE  /\ SubSeq(E, k + 1, Len(E)) \in Seq(Events) /\ Len(SubSeq(E, k + 1, Len(E))) = Len(E) - k
           /\ \A j \in 1 .. Len(E) - k : SubSeq(E, k + 1, Len(E))[j] = E[k + j]
<1> DEFINE D == SubSeq(E, k + 1, Len(E))
<1>0. Len(E) \in Nat /\ \A i \in 1 .. Len(E) : E[i] \in Events
  OBVIOUS
<1>1. \A i \in k + 1 .. Len(E) : i \in 1 .. Len(E)
  BY <1>0
<1>2. /\ D \in Seq(Events) /\ Len(D) = IF k + 1 <= Len(E) THEN Len(E) - (k + 1) + 1 ELSE 0
      /\ \A i \in 1 .. Len(E) - (k + 1) + 1 : D[i] = E[k + 1 + i - 1]
  BY <1>0, <1>1, SubSeqProperties
<1>3. Len(D) = Len(E) - k
  BY <1>0, <1>2
<1>4. \A j \in 1 .. Len(E) - k : D[j] = E[k + j]
  <2>1. \A j \in 1 .. Len(E) - k : j \in 1 .. Len(E) - (k + 1) + 1 /\ k + 1 + j - 1 = k + j
    BY <1>0
  <2> HIDE DEF D
  <2> QED  BY <1>2, <2>1
<1> HIDE DEF D
<1>5. D \in Seq(Events) /\ Len(D) = Len(E) - k /\ \A j \in 1 .. Len(E) - k : D[j] = E[k + j]
  BY <1>2, <1>3, <1>4
<1> QED  BY <1>5 DEF D

Later(X, E, k) == X \in Seq(Events) /\ Len(X) = Len(E) - k /\ \A j \in 1 .. Len(E) - k : X[j] = E[k + j]

\* The symbols that are left after the first m.
LEMMA SymbolsLeft ==
    ASSUME NEW B \in Seq(Symbols), NEW m \in Nat, m <= Len(B)
    PROVE  /\ SubSeq(B, m + 1, Len(B)) \in Seq(Symbols) /\ Len(SubSeq(B, m + 1, Len(B))) = Len(B) - m
           /\ \A i \in 1 .. Len(B) - m : SubSeq(B, m + 1, Len(B))[i] = B[m + i]
<1> DEFINE D == SubSeq(B, m + 1, Len(B))
<1>0. Len(B) \in Nat /\ \A i \in 1 .. Len(B) : B[i] \in Symbols
  OBVIOUS
<1>1. \A i \in m + 1 .. Len(B) : i \in 1 .. Len(B)
  BY <1>0
<1>2. /\ D \in Seq(Symbols) /\ Len(D) = IF m + 1 <= Len(B) THEN Len(B) - (m + 1) + 1 ELSE 0
      /\ \A i \in 1 .. Len(B) - (m + 1) + 1 : D[i] = B[m + 1 + i - 1]
  BY <1>0, <1>1, SubSeqProperties
<1>3. Len(D) = Len(B) - m
  BY <1>0, <1>2
<1>4. \A i \in 1 .. Len(B) - m : D[i] = B[m + i]
  <2>1. \A i \in 1 .. Len(B) - m : i \in 1 .. Len(B) - (m + 1) + 1 /\ m + 1 + i - 1 = m + i
    BY <1>0
  <2> HIDE DEF D
  <2> QED  BY <1>2, <2>1
<1> HIDE DEF D
<1>5. D \in Seq(Symbols) /\ Len(D) = Len(B) - m /\ \A i \in 1 .. Len(B) - m : D[i] = B[m + i]
  BY <1>2, <1>3, <1>4
<1> QED  BY <1>5 DEF D

\* v is the first n of the bytes u, and w those after them.
Taken(v, u, n) == v \in Seq(Symbols) /\ Len(v) = n /\ \A i \in 1 .. n : v[i] = u[i]
Remain(w, u, n) == w \in Seq(Symbols) /\ Len(w) = Len(u) - n /\ \A i \in 1 .. Len(u) - n : w[i] = u[n + i]
\* Reading takes the first n symbols, and the others remain.
LEMMA ReadIs ==
    ASSUME NEW u \in Seq(Symbols), NEW n \in Nat, n <= Len(u)
    PROVE  Taken(SubSeq(u, 1, n), u, n) /\ Remain(SubSeq(u, n + 1, Len(u)), u, n)
<1>0. Len(u) \in Nat /\ \A i \in 1 .. Len(u) : u[i] \in Symbols
  OBVIOUS
<1>1. Remain(SubSeq(u, n + 1, Len(u)), u, n)
  BY SymbolsLeft DEF Remain
<1> DEFINE v == SubSeq(u, 1, n)
<1>2. \A i \in 1 .. n : i \in 1 .. Len(u)
  BY <1>0
<1>3. /\ v \in Seq(Symbols) /\ Len(v) = IF 1 <= n THEN n - 1 + 1 ELSE 0
      /\ \A i \in 1 .. n - 1 + 1 : v[i] = u[1 + i - 1]
  BY <1>0, <1>2, SubSeqProperties
<1> HIDE DEF v
<1>4. Len(v) = n
  BY <1>3
<1>5. \A i \in 1 .. n : v[i] = u[i]
  <2>1. \A i \in 1 .. n : i \in 1 .. n - 1 + 1 /\ 1 + i - 1 = i
    OBVIOUS
  <2> QED  BY <1>3, <2>1
<1>6. Taken(v, u, n)
  BY <1>3, <1>4, <1>5 DEF Taken
<1> QED  BY <1>1, <1>6 DEF v

\* A prefix of bytes, and what follows it.
LEMMA Joined ==
    ASSUME NEW r \in Seq(Symbols), NEW u \in Seq(Symbols)
    PROVE  /\ r \o u \in Seq(Symbols) /\ Len(r \o u) = Len(r) + Len(u)
           /\ \A i \in 1 .. Len(r) : (r \o u)[i] = r[i]
           /\ \A i \in 1 .. Len(u) : (r \o u)[Len(r) + i] = u[i]
<1>1. /\ r \o u \in Seq(Symbols) /\ Len(r \o u) = Len(r) + Len(u)
      /\ \A i \in 1 .. Len(r) + Len(u) : (r \o u)[i] = IF i <= Len(r) THEN r[i] ELSE u[i - Len(r)]
  BY ConcatProperties
<1> DEFINE c == r \o u
<1> HIDE DEF c
<1>2. Len(r) \in Nat /\ Len(u) \in Nat
  OBVIOUS
<1>3. \A i \in 1 .. Len(r) : i \in 1 .. Len(r) + Len(u) /\ i <= Len(r)
  BY <1>2
<1>4. \A i \in 1 .. Len(u) : /\ Len(r) + i \in 1 .. Len(r) + Len(u) /\ ~ (Len(r) + i <= Len(r))
                             /\ (Len(r) + i) - Len(r) = i
  BY <1>2
<1> QED  BY <1>1, <1>3, <1>4

\* The same for a sequence of a known length.
LEMMA JoinedTo ==
    ASSUME NEW r \in Seq(Symbols), NEW u \in Seq(Symbols), NEW n \in Nat, Len(u) = n
    PROVE  /\ r \o u \in Seq(Symbols) /\ Len(r \o u) = Len(r) + n /\ Len(r) \in Nat
           /\ \A i \in 1 .. Len(r) : (r \o u)[i] = r[i]
           /\ \A i \in 1 .. n : (r \o u)[Len(r) + i] = u[i]
<1>1. Len(r) \in Nat
  OBVIOUS
<1> QED  BY <1>1, Joined

\* The symbols of lines after the first k are those of the other events.
LEMMA LinesLeft ==
    ASSUME NEW B, NEW E, IsLines(B, E), NEW k \in Nat, k <= Len(E),
           NEW D, Later(D, E, k)
    PROVE  /\ IsLines(SubSeq(B, 3 * k + 1, Len(B)), D)
           /\ Len(SubSeq(B, 3 * k + 1, Len(B))) = Len(B) - 3 * k
           /\ \A i \in 1 .. Len(B) - 3 * k : SubSeq(B, 3 * k + 1, Len(B))[i] = B[3 * k + i]
<1> DEFINE C == SubSeq(B, 3 * k + 1, Len(B))
<1>1. /\ B \in Seq(Symbols) /\ E \in Seq(Events) /\ Len(B) = 3 * Len(E) /\ Len(E) \in Nat
      /\ \A j \in 1 .. Len(E) : /\ B[3 * j - 2] = <<E[j], 1>> /\ B[3 * j - 1] = <<E[j], 2>>
                                /\ B[3 * j] = Stream!Newline
  BY DEF IsLines
<1>2. C \in Seq(Symbols) /\ Len(C) = Len(B) - 3 * k /\ \A i \in 1 .. Len(B) - 3 * k : C[i] = B[3 * k + i]
  <2>1. 3 * k \in Nat /\ 3 * k <= Len(B)
    BY <1>1
  <2> QED  BY <1>1, <2>1, SymbolsLeft
<1>3. D \in Seq(Events) /\ Len(D) = Len(E) - k /\ \A j \in 1 .. Len(E) - k : D[j] = E[k + j]
  BY DEF Later
<1> HIDE DEF C
<1>4. Len(C) = 3 * Len(D)
  BY <1>1, <1>2, <1>3
<1>5. ASSUME NEW j \in 1 .. Len(D)
      PROVE  C[3 * j - 2] = <<D[j], 1>> /\ C[3 * j - 1] = <<D[j], 2>> /\ C[3 * j] = Stream!Newline
  <2>1. /\ k + j \in 1 .. Len(E) /\ D[j] = E[k + j]
    BY <1>1, <1>3
  <2>2. /\ B[3 * (k + j) - 2] = <<E[k + j], 1>> /\ B[3 * (k + j) - 1] = <<E[k + j], 2>>
        /\ B[3 * (k + j)] = Stream!Newline
    BY <1>1, <2>1
  <2>3. /\ 3 * j - 2 \in 1 .. Len(B) - 3 * k /\ 3 * j - 1 \in 1 .. Len(B) - 3 * k
        /\ 3 * j \in 1 .. Len(B) - 3 * k
        /\ 3 * k + (3 * j - 2) = 3 * (k + j) - 2 /\ 3 * k + (3 * j - 1) = 3 * (k + j) - 1
        /\ 3 * k + 3 * j = 3 * (k + j)
    BY <1>1, <1>3
  <2>4. /\ C[3 * j - 2] = B[3 * (k + j) - 2] /\ C[3 * j - 1] = B[3 * (k + j) - 1]
        /\ C[3 * j] = B[3 * (k + j)]
    BY <1>2, <2>3
  <2> QED  BY <2>1, <2>2, <2>4
<1>6. IsLines(C, D)
  BY <1>2, <1>3, <1>4, <1>5 DEF IsLines
<1> QED  BY <1>2, <1>6 DEF C

\* rest is the symbols of B from the one after the m-th to the n-th.
RestBetween(rest, B, m, n) ==
    /\ rest \in Seq(Symbols) /\ Len(rest) = n - m
    /\ \A i \in 1 .. n - m : rest[i] = B[m + i]

\* The rest after n symbols is the last of these.
LEMMA LineRests ==
    ASSUME NEW B, NEW E, IsLines(B, E), NEW n \in Nat, n <= Len(B), NEW k \in Nat,
           NEW cut \in Cuts, CutAt(cut, E, n, k)
    PROVE  RestBetween(cut[2], B, 3 * k, n)
<1> DEFINE rest == cut[2]
<1>1. /\ k <= Len(E) /\ 3 * k <= n /\ n <= 3 * k + 2 /\ rest = LineRest(E, k, n - 3 * k)
      /\ rest \in Seq(Symbols)
  BY DEF CutAt, Cuts
<1>2. Len(B) = 3 * Len(E) /\ Len(E) \in Nat
  BY DEF IsLines
<1> HIDE DEF rest
<1>3. CASE n = 3 * k
  <2>1. rest = <<>> /\ n - 3 * k = 0
    BY <1>1, <1>3 DEF LineRest
  <2>2. Len(rest) = 0 /\ 1 .. 0 = {}
    BY <2>1
  <2> QED  BY <1>1, <2>1, <2>2 DEF rest, RestBetween
<1>4. CASE n # 3 * k
  <2>1. k + 1 \in 1 .. Len(E)
    BY <1>1, <1>2, <1>4
  <2>2. /\ B[3 * (k + 1) - 2] = <<E[k + 1], 1>> /\ B[3 * (k + 1) - 1] = <<E[k + 1], 2>>
    BY <2>1 DEF IsLines
  <2>3. 3 * (k + 1) - 2 = 3 * k + 1 /\ 3 * (k + 1) - 1 = 3 * k + 2
    OBVIOUS
  <2>4. B[3 * k + 1] = <<E[k + 1], 1>> /\ B[3 * k + 2] = <<E[k + 1], 2>>
    BY <2>2, <2>3
  <2>5. CASE n = 3 * k + 1
    <3>1. rest = <<<<E[k + 1], 1>>>> /\ n - 3 * k = 1
      BY <1>1, <2>5 DEF LineRest
    <3>2. Len(rest) = 1 /\ rest[1] = <<E[k + 1], 1>> /\ \A i \in 1 .. 1 : i = 1
      BY <3>1
    <3>3. \A i \in 1 .. 1 : rest[i] = B[3 * k + i]
      BY <2>4, <3>2
    <3> QED  BY <1>1, <3>1, <3>2, <3>3 DEF rest, RestBetween
  <2>6. CASE n = 3 * k + 2
    <3>1. rest = <<<<E[k + 1], 1>>, <<E[k + 1], 2>>>> /\ n - 3 * k = 2
      BY <1>1, <2>6 DEF LineRest
    <3>2. Len(rest) = 2 /\ rest[1] = <<E[k + 1], 1>> /\ rest[2] = <<E[k + 1], 2>> /\ \A i \in 1 .. 2 : i = 1 \/ i = 2
      BY <3>1
    <3>3. \A i \in 1 .. 2 : rest[i] = B[3 * k + i]
      BY <2>4, <3>2
    <3> QED  BY <1>1, <3>1, <3>2, <3>3 DEF rest, RestBetween
  <2>7. n = 3 * k + 1 \/ n = 3 * k + 2
    BY <1>1, <1>4
  <2> QED  BY <2>5, <2>6, <2>7
<1> QED  BY <1>3, <1>4

\* b begins the lines of X, and of a of l bytes the first 3 * k are gone.
LinesStill(X, b, a, l, k) ==
    \E C : IsLines(C, X) /\ Begins(b, C) /\ Len(C) = l - 3 * k /\ Len(b) = a - 3 * k
\* The rest of a read and the bytes after it are still the lines of the events left.
LEMMA StillLines ==
    ASSUME NEW B, NEW E, IsLines(B, E), NEW r \in Seq(Symbols), NEW u \in Seq(Symbols),
           Begins(r \o u, B), NEW n \in Nat, n <= Len(u), NEW k \in Nat,
           NEW cut \in Cuts, CutAt(cut, E, Len(r) + n, k),
           NEW left, Remain(left, u, n),
           NEW X, Later(X, E, k)
    PROVE  LinesStill(X, cut[2] \o left, Len(r \o u), Len(B), k)
<1> DEFINE C == SubSeq(B, 3 * k + 1, Len(B))
           rest == cut[2]
           m == Len(r) + n
<1>0. /\ k <= Len(E) /\ 3 * k <= m /\ Len(r) \in Nat /\ Len(u) \in Nat /\ Len(B) \in Nat /\ m \in Nat
  BY DEF CutAt, IsLines
<1>1. /\ Len(r \o u) = Len(r) + Len(u) /\ Len(r) + Len(u) <= Len(B)
      /\ \A i \in 1 .. Len(u) : (r \o u)[Len(r) + i] = u[i]
      /\ \A i \in 1 .. Len(r) + Len(u) : (r \o u)[i] = B[i]
  BY Joined DEF Begins
<1>2. \A i \in 1 .. Len(u) : u[i] = B[Len(r) + i]
  <2>1. \A i \in 1 .. Len(u) : Len(r) + i \in 1 .. Len(r) + Len(u)
    BY <1>0
  <2> QED  BY <1>1, <2>1
<1>3. /\ IsLines(C, X) /\ Len(C) = Len(B) - 3 * k
      /\ \A i \in 1 .. Len(B) - 3 * k : C[i] = B[3 * k + i]
  BY <1>0, LinesLeft
<1>4. m <= Len(B)
  BY <1>0, <1>1
<1>5. /\ rest \in Seq(Symbols) /\ Len(rest) = m - 3 * k
      /\ \A i \in 1 .. m - 3 * k : rest[i] = B[3 * k + i]
  <2>1. CutAt(cut, E, m, k)
    OBVIOUS
  <2> HIDE DEF m
  <2>2. RestBetween(cut[2], B, 3 * k, m)
    BY <1>0, <1>4, <2>1, LineRests
  <2> QED  BY <2>2 DEF RestBetween
<1>6. /\ left \in Seq(Symbols) /\ Len(left) = Len(u) - n /\ \A i \in 1 .. Len(u) - n : left[i] = u[n + i]
  BY DEF Remain
<1> HIDE DEF C, rest
<1> DEFINE t == rest \o left
<1>7. /\ t \in Seq(Symbols) /\ Len(t) = Len(rest) + Len(left)
      /\ \A i \in 1 .. Len(rest) : t[i] = rest[i]
      /\ \A i \in 1 .. Len(left) : t[Len(rest) + i] = left[i]
  BY <1>5, <1>6, Joined
<1> HIDE DEF t
<1>8. Len(t) = Len(r \o u) - 3 * k /\ Len(t) <= Len(C)
  BY <1>0, <1>1, <1>3, <1>5, <1>6, <1>7
<1>9. ASSUME NEW i \in 1 .. Len(t) PROVE t[i] = C[i]
  <2>0. i \in 1 .. Len(B) - 3 * k /\ C[i] = B[3 * k + i]
    BY <1>0, <1>3, <1>8
  <2>1. CASE i <= Len(rest)
    <3>1. i \in 1 .. Len(rest) /\ i \in 1 .. m - 3 * k
      BY <2>1, <1>0, <1>5
    <3>2. t[i] = rest[i]
      BY <3>1, <1>7
    <3>3. rest[i] = B[3 * k + i]
      BY <3>1, <1>5
    <3> QED  BY ONLY <2>0, <3>2, <3>3
  <2>2. CASE ~ (i <= Len(rest))
    <3> DEFINE l == i - Len(rest)
    <3>0. \A x, y, z, p \in Nat : p \in 1 .. x + y /\ ~ (p <= x) /\ y = z - n =>
              /\ p - x \in 1 .. y /\ x + (p - x) = p
              /\ p - x \in 1 .. z - n /\ n + (p - x) \in 1 .. z
      OBVIOUS
    <3>6. /\ Len(rest) \in Nat /\ Len(left) \in Nat /\ Len(u) \in Nat /\ i \in Nat
          /\ i \in 1 .. Len(rest) + Len(left)
      BY <1>5, <1>6, <1>7
    <3>7. Len(left) = Len(u) - n
      BY <1>6
    <3>1. l \in 1 .. Len(left) /\ Len(rest) + l = i /\ l \in 1 .. Len(u) - n /\ n + l \in 1 .. Len(u)
      BY ONLY <2>2, <3>0, <3>6, <3>7
    <3>2. Len(r) + (n + l) = 3 * k + i
      <4>1. Len(rest) = Len(r) + n - 3 * k
        BY <1>5
      <4>2. i \in Nat /\ l = i - Len(rest)
        BY <1>7
      <4>3. \A x, y \in Nat : x + (n + (i - (x + n - y))) = y + i
        BY ONLY <4>2
      <4>4. 3 * k \in Nat /\ Len(r) \in Nat
        BY <1>0
      <4> HIDE DEF l
      <4> QED  BY ONLY <4>1, <4>2, <4>3, <4>4
    <3>3. t[i] = left[l]
      BY <3>1, <1>7
    <3>4. left[l] = u[n + l]
      BY <3>1, <1>6
    <3>5. u[n + l] = B[Len(r) + (n + l)]
      BY <3>1, <1>2
    <3> QED  BY <2>0, <3>2, <3>3, <3>4, <3>5
  <2> QED  BY <2>1, <2>2
<1>10. Begins(t, C)
  BY <1>7, <1>8, <1>9 DEF Begins
<1>11. LinesStill(X, t, Len(r \o u), Len(B), k)
  BY <1>3, <1>8, <1>10 DEF LinesStill
<1> QED  BY <1>11 DEF t, rest

\* The symbols of frames after the first k are those of the other events.
LEMMA FramesLeft ==
    ASSUME NEW B, NEW E, IsFrames(B, E), NEW k \in Nat, k <= Len(E),
           NEW D, Later(D, E, k)
    PROVE  /\ IsFrames(SubSeq(B, 4 * k + 1, Len(B)), D)
           /\ Len(SubSeq(B, 4 * k + 1, Len(B))) = Len(B) - 4 * k
           /\ \A i \in 1 .. Len(B) - 4 * k : SubSeq(B, 4 * k + 1, Len(B))[i] = B[4 * k + i]
<1> DEFINE C == SubSeq(B, 4 * k + 1, Len(B))
<1>1. /\ B \in Seq(Symbols) /\ E \in Seq(Events) /\ Len(B) = 4 * Len(E) /\ Len(E) \in Nat
      /\ \A j \in 1 .. Len(E) : /\ B[4 * j - 3] = <<E[j], 1>> /\ B[4 * j - 2] = <<E[j], 2>>
                                /\ B[4 * j - 1] = Stream!Newline /\ B[4 * j] = Stream!Newline
  BY DEF IsFrames
<1>2. C \in Seq(Symbols) /\ Len(C) = Len(B) - 4 * k /\ \A i \in 1 .. Len(B) - 4 * k : C[i] = B[4 * k + i]
  <2>1. 4 * k \in Nat /\ 4 * k <= Len(B)
    BY <1>1
  <2> QED  BY <1>1, <2>1, SymbolsLeft
<1>3. D \in Seq(Events) /\ Len(D) = Len(E) - k /\ \A j \in 1 .. Len(E) - k : D[j] = E[k + j]
  BY DEF Later
<1> HIDE DEF C
<1>4. Len(C) = 4 * Len(D)
  BY <1>1, <1>2, <1>3
<1>5. ASSUME NEW j \in 1 .. Len(D)
      PROVE  C[4 * j - 3] = <<D[j], 1>> /\ C[4 * j - 2] = <<D[j], 2>> /\ C[4 * j - 1] = Stream!Newline
             /\ C[4 * j] = Stream!Newline
  <2>1. /\ k + j \in 1 .. Len(E) /\ D[j] = E[k + j]
    BY <1>1, <1>3
  <2>2. /\ B[4 * (k + j) - 3] = <<E[k + j], 1>> /\ B[4 * (k + j) - 2] = <<E[k + j], 2>>
        /\ B[4 * (k + j) - 1] = Stream!Newline /\ B[4 * (k + j)] = Stream!Newline
    BY <1>1, <2>1
  <2>3. /\ 4 * j - 3 \in 1 .. Len(B) - 4 * k /\ 4 * j - 2 \in 1 .. Len(B) - 4 * k
        /\ 4 * j - 1 \in 1 .. Len(B) - 4 * k /\ 4 * j \in 1 .. Len(B) - 4 * k
        /\ 4 * k + (4 * j - 3) = 4 * (k + j) - 3 /\ 4 * k + (4 * j - 2) = 4 * (k + j) - 2
        /\ 4 * k + (4 * j - 1) = 4 * (k + j) - 1 /\ 4 * k + 4 * j = 4 * (k + j)
    BY <1>1, <1>3
  <2>4. /\ C[4 * j - 3] = B[4 * (k + j) - 3] /\ C[4 * j - 2] = B[4 * (k + j) - 2]
        /\ C[4 * j - 1] = B[4 * (k + j) - 1] /\ C[4 * j] = B[4 * (k + j)]
    BY <1>2, <2>3
  <2> QED  BY <2>1, <2>2, <2>4
<1>6. IsFrames(C, D)
  BY <1>2, <1>3, <1>4, <1>5 DEF IsFrames
<1> QED  BY <1>2, <1>6 DEF C

\* The rest after n symbols is the last of these.
LEMMA FrameRests ==
    ASSUME NEW B, NEW E, IsFrames(B, E), NEW n \in Nat, n <= Len(B), NEW k \in Nat,
           NEW cut \in Cuts, CutFrameAt(cut, E, n, k)
    PROVE  RestBetween(cut[2], B, 4 * k, n)
<1> DEFINE rest == cut[2]
<1>1. /\ k <= Len(E) /\ 4 * k <= n /\ n <= 4 * k + 3 /\ rest = FrameRest(E, k, n - 4 * k)
      /\ rest \in Seq(Symbols)
  BY DEF CutFrameAt, Cuts
<1>2. Len(B) = 4 * Len(E) /\ Len(E) \in Nat
  BY DEF IsFrames
<1> HIDE DEF rest
<1>3. CASE n = 4 * k
  <2>1. rest = <<>> /\ n - 4 * k = 0
    BY <1>1, <1>3 DEF FrameRest, LineRest
  <2>2. Len(rest) = 0 /\ 1 .. 0 = {}
    BY <2>1
  <2> QED  BY <1>1, <2>1, <2>2 DEF rest, RestBetween
<1>4. CASE n # 4 * k
  <2>1. k + 1 \in 1 .. Len(E)
    BY <1>1, <1>2, <1>4
  <2>2. /\ B[4 * (k + 1) - 3] = <<E[k + 1], 1>> /\ B[4 * (k + 1) - 2] = <<E[k + 1], 2>>
        /\ B[4 * (k + 1) - 1] = Stream!Newline
    BY <2>1 DEF IsFrames
  <2>3. 4 * (k + 1) - 3 = 4 * k + 1 /\ 4 * (k + 1) - 2 = 4 * k + 2 /\ 4 * (k + 1) - 1 = 4 * k + 3
    OBVIOUS
  <2>4. B[4 * k + 1] = <<E[k + 1], 1>> /\ B[4 * k + 2] = <<E[k + 1], 2>> /\ B[4 * k + 3] = Stream!Newline
    BY <2>2, <2>3
  <2>5. CASE n = 4 * k + 1
    <3>1. rest = <<<<E[k + 1], 1>>>> /\ n - 4 * k = 1
      BY <1>1, <2>5 DEF FrameRest, LineRest
    <3>2. Len(rest) = 1 /\ rest[1] = <<E[k + 1], 1>> /\ \A i \in 1 .. 1 : i = 1
      BY <3>1
    <3>3. \A i \in 1 .. 1 : rest[i] = B[4 * k + i]
      BY <2>4, <3>2
    <3> QED  BY <1>1, <3>1, <3>2, <3>3 DEF rest, RestBetween
  <2>6. CASE n = 4 * k + 2
    <3>1. rest = <<<<E[k + 1], 1>>, <<E[k + 1], 2>>>> /\ n - 4 * k = 2
      BY <1>1, <2>6 DEF FrameRest, LineRest
    <3>2. Len(rest) = 2 /\ rest[1] = <<E[k + 1], 1>> /\ rest[2] = <<E[k + 1], 2>> /\ \A i \in 1 .. 2 : i = 1 \/ i = 2
      BY <3>1
    <3>3. \A i \in 1 .. 2 : rest[i] = B[4 * k + i]
      BY <2>4, <3>2
    <3> QED  BY <1>1, <3>1, <3>2, <3>3 DEF rest, RestBetween
  <2>7. CASE n = 4 * k + 3
    <3>1. rest = <<<<E[k + 1], 1>>, <<E[k + 1], 2>>, Stream!Newline>> /\ n - 4 * k = 3
      BY <1>1, <2>7 DEF FrameRest
    <3>2. /\ Len(rest) = 3 /\ rest[1] = <<E[k + 1], 1>> /\ rest[2] = <<E[k + 1], 2>> /\ rest[3] = Stream!Newline
          /\ \A i \in 1 .. 3 : i = 1 \/ i = 2 \/ i = 3
      BY <3>1
    <3>3. \A i \in 1 .. 3 : rest[i] = B[4 * k + i]
      BY <2>4, <3>2
    <3> QED  BY <1>1, <3>1, <3>2, <3>3 DEF rest, RestBetween
  <2>8. n = 4 * k + 1 \/ n = 4 * k + 2 \/ n = 4 * k + 3
    BY <1>1, <1>4
  <2> QED  BY <2>5, <2>6, <2>7, <2>8
<1> QED  BY <1>3, <1>4

\* b begins the frames of X, and of a of l bytes the first 4 * k are gone.
FramesStill(X, b, a, l, k) ==
    \E C : IsFrames(C, X) /\ Begins(b, C) /\ Len(C) = l - 4 * k /\ Len(b) = a - 4 * k
\* The rest of a read and the bytes after it are still the frames of the events left.
LEMMA StillFrames ==
    ASSUME NEW B, NEW E, IsFrames(B, E), NEW r \in Seq(Symbols), NEW u \in Seq(Symbols),
           Begins(r \o u, B), NEW n \in Nat, n <= Len(u), NEW k \in Nat,
           NEW cut \in Cuts, CutFrameAt(cut, E, Len(r) + n, k),
           NEW left, Remain(left, u, n),
           NEW X, Later(X, E, k)
    PROVE  FramesStill(X, cut[2] \o left, Len(r \o u), Len(B), k)
<1> DEFINE C == SubSeq(B, 4 * k + 1, Len(B))
           rest == cut[2]
           m == Len(r) + n
<1>0. /\ k <= Len(E) /\ 4 * k <= m /\ Len(r) \in Nat /\ Len(u) \in Nat /\ Len(B) \in Nat /\ m \in Nat
  BY DEF CutFrameAt, IsFrames
<1>1. /\ Len(r \o u) = Len(r) + Len(u) /\ Len(r) + Len(u) <= Len(B)
      /\ \A i \in 1 .. Len(u) : (r \o u)[Len(r) + i] = u[i]
      /\ \A i \in 1 .. Len(r) + Len(u) : (r \o u)[i] = B[i]
  BY Joined DEF Begins
<1>2. \A i \in 1 .. Len(u) : u[i] = B[Len(r) + i]
  <2>1. \A i \in 1 .. Len(u) : Len(r) + i \in 1 .. Len(r) + Len(u)
    BY <1>0
  <2> QED  BY <1>1, <2>1
<1>3. /\ IsFrames(C, X) /\ Len(C) = Len(B) - 4 * k
      /\ \A i \in 1 .. Len(B) - 4 * k : C[i] = B[4 * k + i]
  BY <1>0, FramesLeft
<1>4. m <= Len(B)
  BY <1>0, <1>1
<1>5. /\ rest \in Seq(Symbols) /\ Len(rest) = m - 4 * k
      /\ \A i \in 1 .. m - 4 * k : rest[i] = B[4 * k + i]
  <2>1. CutFrameAt(cut, E, m, k)
    OBVIOUS
  <2> HIDE DEF m
  <2>2. RestBetween(cut[2], B, 4 * k, m)
    BY <1>0, <1>4, <2>1, FrameRests
  <2> QED  BY <2>2 DEF RestBetween
<1>6. /\ left \in Seq(Symbols) /\ Len(left) = Len(u) - n /\ \A i \in 1 .. Len(u) - n : left[i] = u[n + i]
  BY DEF Remain
<1> HIDE DEF C, rest
<1> DEFINE t == rest \o left
<1>7. /\ t \in Seq(Symbols) /\ Len(t) = Len(rest) + Len(left)
      /\ \A i \in 1 .. Len(rest) : t[i] = rest[i]
      /\ \A i \in 1 .. Len(left) : t[Len(rest) + i] = left[i]
  BY <1>5, <1>6, Joined
<1> HIDE DEF t
<1>8. Len(t) = Len(r \o u) - 4 * k /\ Len(t) <= Len(C)
  BY <1>0, <1>1, <1>3, <1>5, <1>6, <1>7
<1>9. ASSUME NEW i \in 1 .. Len(t) PROVE t[i] = C[i]
  <2>0. i \in 1 .. Len(B) - 4 * k /\ C[i] = B[4 * k + i]
    BY <1>0, <1>3, <1>8
  <2>1. CASE i <= Len(rest)
    <3>1. i \in 1 .. Len(rest) /\ i \in 1 .. m - 4 * k
      BY <2>1, <1>0, <1>5
    <3> QED  BY <2>0, <3>1, <1>5, <1>7
  <2>2. CASE ~ (i <= Len(rest))
    <3> DEFINE l == i - Len(rest)
    <3>0. \A x, y, z, p \in Nat : p \in 1 .. x + y /\ ~ (p <= x) /\ y = z - n =>
              /\ p - x \in 1 .. y /\ x + (p - x) = p
              /\ p - x \in 1 .. z - n /\ n + (p - x) \in 1 .. z
      OBVIOUS
    <3>6. /\ Len(rest) \in Nat /\ Len(left) \in Nat /\ Len(u) \in Nat /\ i \in Nat
          /\ i \in 1 .. Len(rest) + Len(left)
      BY <1>5, <1>6, <1>7
    <3>7. Len(left) = Len(u) - n
      BY <1>6
    <3>1. l \in 1 .. Len(left) /\ Len(rest) + l = i /\ l \in 1 .. Len(u) - n /\ n + l \in 1 .. Len(u)
      BY ONLY <2>2, <3>0, <3>6, <3>7
    <3>2. Len(r) + (n + l) = 4 * k + i
      <4>1. Len(rest) = Len(r) + n - 4 * k /\ i \in Nat
        BY <1>5, <1>7
      <4> QED  BY <4>1, <1>0
    <3>3. t[i] = left[l]
      BY <3>1, <1>7
    <3>4. left[l] = u[n + l]
      BY <3>1, <1>6
    <3>5. u[n + l] = B[Len(r) + (n + l)]
      BY <3>1, <1>2
    <3> QED  BY <2>0, <3>2, <3>3, <3>4, <3>5
  <2> QED  BY <2>1, <2>2
<1>10. Begins(t, C)
  BY <1>7, <1>8, <1>9 DEF Begins
<1>11. FramesStill(X, t, Len(r \o u), Len(B), k)
  BY <1>3, <1>8, <1>10 DEF FramesStill
<1> QED  BY <1>11 DEF t, rest

\* The first c elements.
LEMMA FirstOf ==
    ASSUME NEW E \in Seq(Events), NEW c \in Nat, c <= Len(E)
    PROVE  /\ SubSeq(E, 1, c) \in Seq(Events) /\ Len(SubSeq(E, 1, c)) = c
           /\ \A i \in 1 .. c : SubSeq(E, 1, c)[i] = E[i]
<1> DEFINE D == SubSeq(E, 1, c)
<1>0. Len(E) \in Nat /\ \A i \in 1 .. Len(E) : E[i] \in Events
  OBVIOUS
<1>1. \A i \in 1 .. c : i \in 1 .. Len(E)
  BY <1>0
<1>2. /\ D \in Seq(Events) /\ Len(D) = IF 1 <= c THEN c - 1 + 1 ELSE 0
      /\ \A i \in 1 .. c - 1 + 1 : D[i] = E[1 + i - 1]
  BY <1>0, <1>1, SubSeqProperties
<1>3. Len(D) = c
  BY <1>2
<1>4. \A i \in 1 .. c : D[i] = E[i]
  <2>1. \A i \in 1 .. c : i \in 1 .. c - 1 + 1 /\ 1 + i - 1 = i
    OBVIOUS
  <2> HIDE DEF D
  <2> QED  BY <1>2, <2>1
<1> HIDE DEF D
<1>5. D \in Seq(Events) /\ Len(D) = c /\ \A i \in 1 .. c : D[i] = E[i]
  BY <1>2, <1>3, <1>4
<1> QED  BY <1>5 DEF D

\* Events without one that none but those after the first c are.
LEMMA WithoutIs ==
    ASSUME NEW s \in Seq(Events), NEW c \in 0 .. Len(s), NEW x,
           \A n \in 1 .. Len(s) : s[n] # x <=> n \in 1 .. c
    PROVE  Stream!Without(s, x) = SubSeq(s, 1, c)
<1> DEFINE k == CHOOSE f : f = [n \in 0 .. Len(s) |->
                    IF n = 0 THEN <<>> ELSE IF s[n] # x THEN Append(f[n - 1], s[n]) ELSE f[n - 1]]
           T == 1 .. c
<1>0. Len(s) \in Nat
  OBVIOUS
<1>1. Stream!Without(s, x) = k[Len(s)]
  BY DEF Stream!Without, Stream!Filter
<1>2. \A n \in 0 .. Len(s) : n # 0 => (s[n] # x <=> n \in T)
  BY <1>0
<1> HIDE DEF T
<1>3. \E f : f = [n \in 0 .. Len(s) |->
                    IF n = 0 THEN <<>> ELSE IF s[n] # x THEN Append(f[n - 1], s[n]) ELSE f[n - 1]]
  <2>1. PICK f : Filters(f, s, T)
    BY FilterExists
  <2>2. f = [n \in 0 .. Len(s) |->
                    IF n = 0 THEN <<>> ELSE IF s[n] # x THEN Append(f[n - 1], s[n]) ELSE f[n - 1]]
    BY <2>1, <1>2 DEF Filters
  <2> QED  BY <2>2
<1>4. k = [n \in 0 .. Len(s) |->
               IF n = 0 THEN <<>> ELSE IF s[n] # x THEN Append(k[n - 1], s[n]) ELSE k[n - 1]]
  BY <1>3
<1> HIDE DEF k
<1>5. Filters(k, s, T)
  BY <1>4, <1>2 DEF Filters
<1>6. Filters(k, s, 1 .. c)
  BY <1>5 DEF T
<1>7. k[Len(s)] = SubSeq(s, 1, c)
  BY <1>6, FilterFirst
<1> QED  BY <1>1, <1>7

\* A part that is an event whole.
Whole(p) == Len(p) = 2 /\ p[1][2] = 1 /\ p = Stream!Bytes(p[1][1])

\* Of parts of which the first c are whole, these are parsed.
LEMMA ParsedIs ==
    ASSUME NEW s \in Seq(Seq(Symbols)), NEW c \in 0 .. Len(s),
           \A n \in 1 .. Len(s) : Whole(s[n]) <=> n \in 1 .. c
    PROVE  /\ DOMAIN Stream!Parsed(s) = 1 .. c
           /\ \A i \in 1 .. c : Stream!Parsed(s)[i] = s[i][1][1]
           /\ Stream!Parsed(s) = [i \in 1 .. c |-> s[i][1][1]]
<1> DEFINE k == CHOOSE f : f = [n \in 0 .. Len(s) |->
                    IF n = 0 THEN <<>>
                    ELSE IF Len(s[n]) = 2 /\ s[n][1][2] = 1 /\ s[n] = Stream!Bytes(s[n][1][1])
                         THEN Append(f[n - 1], s[n]) ELSE f[n - 1]]
           T == 1 .. c
           whole == k[Len(s)]
<1>0. Len(s) \in Nat /\ c \in Nat /\ c <= Len(s)
  OBVIOUS
<1>1. Stream!Parsed(s) = [i \in DOMAIN whole |-> whole[i][1][1]]
  BY DEF Stream!Parsed, Stream!Filter
<1>2. \A n \in 0 .. Len(s) : n # 0 => (Len(s[n]) = 2 /\ s[n][1][2] = 1 /\ s[n] = Stream!Bytes(s[n][1][1]) <=> n \in T)
  <2>1. \A n \in 0 .. Len(s) : n # 0 => n \in 1 .. Len(s)
    BY <1>0
  <2> QED  BY <2>1 DEF Whole
<1> HIDE DEF T
<1>3. \E f : f = [n \in 0 .. Len(s) |->
                    IF n = 0 THEN <<>>
                    ELSE IF Len(s[n]) = 2 /\ s[n][1][2] = 1 /\ s[n] = Stream!Bytes(s[n][1][1])
                         THEN Append(f[n - 1], s[n]) ELSE f[n - 1]]
  <2>1. PICK f : Filters(f, s, T)
    BY FilterExists
  <2>2. f = [n \in 0 .. Len(s) |->
                    IF n = 0 THEN <<>>
                    ELSE IF Len(s[n]) = 2 /\ s[n][1][2] = 1 /\ s[n] = Stream!Bytes(s[n][1][1])
                         THEN Append(f[n - 1], s[n]) ELSE f[n - 1]]
    BY <2>1, <1>2 DEF Filters
  <2> QED  BY <2>2
<1>4. k = [n \in 0 .. Len(s) |->
                    IF n = 0 THEN <<>>
                    ELSE IF Len(s[n]) = 2 /\ s[n][1][2] = 1 /\ s[n] = Stream!Bytes(s[n][1][1])
                         THEN Append(k[n - 1], s[n]) ELSE k[n - 1]]
  BY <1>3
<1> HIDE DEF k
<1>5. Filters(k, s, T)
  BY <1>4, <1>2 DEF Filters
<1>6. Filters(k, s, 1 .. c)
  BY <1>5 DEF T
<1>7. whole = SubSeq(s, 1, c)
  BY <1>6, FilterFirst
<1>8. /\ DOMAIN whole = 1 .. c /\ \A i \in 1 .. c : whole[i] = s[i]
  <2> DEFINE q == SubSeq(s, 1, c)
  <2>1. \A i \in 1 .. c : s[i] \in Seq(Symbols)
    BY <1>0
  <2>2. /\ q \in Seq(Seq(Symbols)) /\ Len(q) = IF 1 <= c THEN c - 1 + 1 ELSE 0
        /\ \A i \in 1 .. c - 1 + 1 : q[i] = s[1 + i - 1]
    BY <2>1, <1>0, SubSeqProperties
  <2> HIDE DEF q
  <2>3. Len(q) = c /\ DOMAIN q = 1 .. c
    BY <2>2, <1>0
  <2>4. \A i \in 1 .. c : i \in 1 .. c - 1 + 1 /\ 1 + i - 1 = i
    BY <1>0
  <2>5. \A i \in 1 .. c : q[i] = s[i]
    BY <2>2, <2>4
  <2> QED  BY <1>7, <2>3, <2>5 DEF q
<1> HIDE DEF whole
<1>9. Stream!Parsed(s) = [i \in 1 .. c |-> s[i][1][1]]
  BY <1>1, <1>8
<1> QED  BY <1>9

\* The parts of whole events are parsed to these events.
LEMMA ParsedEvents ==
    ASSUME NEW E \in Seq(Events), NEW k \in Nat, k <= Len(E), NEW parts, PartsAre(parts, E, k)
    PROVE  Stream!Parsed(parts) = SubSeq(E, 1, k)
<1>0. /\ parts \in Seq(Seq(Symbols)) /\ Len(parts) = k /\ k \in 0 .. Len(parts) /\ Len(E) \in Nat
      /\ \A j \in 1 .. k : parts[j] = Stream!Bytes(E[j]) /\ E[j] \in Events
  BY DEF PartsAre
<1>1. ASSUME NEW j \in 1 .. k PROVE Whole(parts[j]) /\ parts[j][1][1] = E[j]
  <2>1. parts[j] = <<<<E[j], 1>>, <<E[j], 2>>>> /\ parts[j] = Stream!Bytes(E[j])
    BY <1>0, BytesOfEvents
  <2>2. Len(parts[j]) = 2 /\ parts[j][1] = <<E[j], 1>>
    BY <2>1
  <2>3. parts[j][1][1] = E[j] /\ parts[j][1][2] = 1
    BY <2>2
  <2> QED  BY <2>1, <2>2, <2>3 DEF Whole
<1>2. \A n \in 1 .. Len(parts) : Whole(parts[n]) <=> n \in 1 .. k
  BY <1>0, <1>1
<1>3. Stream!Parsed(parts) = [i \in 1 .. k |-> parts[i][1][1]]
  BY <1>0, <1>2, ParsedIs
<1>4. Stream!Parsed(parts) = [i \in 1 .. k |-> E[i]]
  BY <1>1, <1>3
<1> DEFINE q == SubSeq(E, 1, k)
<1>5. q \in Seq(Events) /\ Len(q) = k /\ \A i \in 1 .. k : q[i] = E[i]
  BY FirstOf
<1> HIDE DEF q
<1>6. q = [i \in 1 .. k |-> E[i]]
  BY <1>5
<1> QED  BY <1>4, <1>6 DEF q

\* A single symbol is no event.
LEMMA ParsedNothing ==
    ASSUME NEW a \in Symbols
    PROVE  Stream!Parsed(<<<<a>>>>) = <<>>
<1> DEFINE s == <<<<a>>>>
<1>1. s \in Seq(Seq(Symbols)) /\ Len(s) = 1 /\ s[1] = <<a>> /\ 0 \in 0 .. 1
  OBVIOUS
<1>2. Len(<<a>>) # 2
  OBVIOUS
<1> HIDE DEF s
<1>3. ~ Whole(<<a>>)
  BY <1>2 DEF Whole
<1>4. \A n \in 1 .. Len(s) : n = 1 /\ n \notin 1 .. 0
  BY <1>1
<1>5. \A n \in 1 .. Len(s) : Whole(s[n]) <=> n \in 1 .. 0
  BY <1>1, <1>3, <1>4
<1>6. Stream!Parsed(s) = [i \in 1 .. 0 |-> s[i][1][1]]
  BY <1>1, <1>5, ParsedIs
<1>7. \A f : f = [i \in 1 .. 0 |-> s[i][1][1]] => f = <<>>
  OBVIOUS
<1> QED  BY <1>6, <1>7 DEF s

\* The end of a cut response: what is left of a frame and two newlines.
LEMMA LastFrame ==
    ASSUME NEW a \in Symbols, NEW c \in Symbols, a # Stream!Newline, c # Stream!Newline,
           NEW b \in Seq(Symbols), Len(b) \in 3 .. 5, b[1] = a,
           Len(b) # 3 => b[2] = c,
           Len(b) = 3 => b[2] = Stream!Newline,
           \A i \in 3 .. Len(b) : b[i] = Stream!Newline
    PROVE  Stream!Frames(b)[1] = IF Len(b) = 3 THEN <<<<a>>>> ELSE <<<<a, c>>>>
<1>1. PICK f \in [0 .. Len(b) -> Cuts] :
          /\ Stream!Frames(b) = f[Len(b)] /\ f[0] = <<<<>>, <<>>>>
          /\ \A n \in 1 .. Len(b) : f[n] = Stream!EndFrame(f[n - 1], b[n])
  BY FramesLoop
<1>2. /\ f[1] = Stream!EndFrame(f[0], b[1]) /\ f[2] = Stream!EndFrame(f[1], b[2])
      /\ f[3] = Stream!EndFrame(f[2], b[3])
      /\ Len(b) # 3 => f[4] = Stream!EndFrame(f[3], b[4])
      /\ Len(b) = 5 => f[5] = Stream!EndFrame(f[4], b[5])
  <2>1. 1 - 1 = 0 /\ 2 - 1 = 1 /\ 3 - 1 = 2 /\ 4 - 1 = 3 /\ 5 - 1 = 4
    OBVIOUS
  <2>2. /\ 1 \in 1 .. Len(b) /\ 2 \in 1 .. Len(b) /\ 3 \in 1 .. Len(b)
        /\ Len(b) # 3 => 4 \in 1 .. Len(b)
        /\ Len(b) = 5 => 5 \in 1 .. Len(b)
    OBVIOUS
  <2> QED  BY <1>1, <2>1, <2>2
<1>3. /\ b[3] = Stream!Newline /\ (Len(b) # 3 => b[4] = Stream!Newline) /\ (Len(b) = 5 => b[5] = Stream!Newline)
  OBVIOUS
<1>a1. \A x : x[2] = <<>> => Stream!EndFrame(x, Stream!Newline) = <<x[1], <<Stream!Newline>>>>
  <2> TAKE x
  <2> QED  BY FrameEnds
<1>a2. \A x : x[2] = <<a>> => Stream!EndFrame(x, Stream!Newline) = <<x[1], <<a, Stream!Newline>>>>
  <2> TAKE x
  <2> QED  BY FrameEnds
<1>a3. \A x : x[2] = <<a>> => Stream!EndFrame(x, c) = <<x[1], Append(<<a>>, c)>>
  <2> TAKE x
  <2>1. Stream!EndFrame(x, c) = <<x[1], Append(x[2], c)>>
    BY FrameEnds
  <2> QED  BY <2>1
<1>a4. \A x : x[2] = <<a, c>> => Stream!EndFrame(x, Stream!Newline) = <<x[1], <<a, c, Stream!Newline>>>>
  <2> TAKE x
  <2> QED  BY FrameEnds
<1>a5. \A x : x[2] = <<a, Stream!Newline>> => Stream!EndFrame(x, Stream!Newline) = <<Append(x[1], <<a>>), <<>>>>
  <2> TAKE x
  <2> QED  BY FrameEnds
<1>a6. \A x : x[2] = <<a, c, Stream!Newline>> => Stream!EndFrame(x, Stream!Newline) = <<Append(x[1], <<a, c>>), <<>>>>
  <2> TAKE x
  <2> QED  BY FrameEnds
<1>4. f[1] = <<<<>>, <<a>>>>
  <2>1. f[1] = <<f[0][1], Append(f[0][2], a)>>
    BY <1>2, FrameEnds
  <2>2. Append(<<>>, a) = <<a>>
    OBVIOUS
  <2> QED  BY <1>1, <2>1, <2>2
<1>5. CASE Len(b) = 3
  <2>1. f[2] = <<f[1][1], <<a, Stream!Newline>>>>
    <3>1. f[1][2] = <<a>> /\ f[2] = Stream!EndFrame(f[1], Stream!Newline)
      BY <1>2, <1>4, <1>5
    <3> QED  BY <3>1, <1>a2
  <2>2. f[2] = <<<<>>, <<a, Stream!Newline>>>>
    BY <2>1, <1>4
  <2>3. f[3] = <<Append(f[2][1], <<a>>), <<>>>>
    <3>1. f[2][2] = <<a, Stream!Newline>> /\ f[3] = Stream!EndFrame(f[2], Stream!Newline)
      BY <1>2, <1>3, <2>2
    <3>2. f[2][2] = <<a, Stream!Newline>>
            => Stream!EndFrame(f[2], Stream!Newline) = <<Append(f[2][1], <<a>>), <<>>>>
      BY <1>a5
    <3> QED  BY <3>1, <3>2
  <2>4. Append(<<>>, <<a>>) = <<<<a>>>>
    OBVIOUS
  <2> QED  BY <1>1, <1>5, <2>2, <2>3, <2>4
<1>6. CASE Len(b) # 3
  <2>1. f[2] = <<f[1][1], Append(<<a>>, c)>>
    <3>1. f[1][2] = <<a>> /\ f[2] = Stream!EndFrame(f[1], c)
      BY <1>2, <1>4, <1>6
    <3> QED  BY <3>1, <1>a3
  <2>2. f[2] = <<<<>>, <<a, c>>>>
    <3>1. Append(<<a>>, c) = <<a, c>>
      BY Short
    <3> QED  BY <2>1, <3>1, <1>4
  <2>3. f[3] = <<f[2][1], <<a, c, Stream!Newline>>>>
    <3>1. f[2][2] = <<a, c>> /\ f[3] = Stream!EndFrame(f[2], Stream!Newline)
      BY <1>2, <1>3, <2>2
    <3> QED  BY <3>1, <1>a4
  <2>4. f[3] = <<<<>>, <<a, c, Stream!Newline>>>>
    BY <2>2, <2>3
  <2>5. f[4] = <<Append(f[3][1], <<a, c>>), <<>>>>
    <3>1. f[3][2] = <<a, c, Stream!Newline>> /\ f[4] = Stream!EndFrame(f[3], Stream!Newline)
      BY <1>2, <1>3, <1>6, <2>4
    <3> QED  BY <3>1, <1>a6
  <2>6. f[4] = <<<<<<a, c>>>>, <<>>>>
    <3>1. Append(<<>>, <<a, c>>) = <<<<a, c>>>>
      OBVIOUS
    <3> QED  BY <2>4, <2>5, <3>1
  <2>7. Len(b) = 5 => f[5] = <<f[4][1], <<Stream!Newline>>>>
    <3>1. f[4][2] = <<>>
      BY <2>6
    <3>2. Stream!EndFrame(f[4], Stream!Newline) = <<f[4][1], <<Stream!Newline>>>>
      BY <3>1, <1>a1
    <3>3. Len(b) = 5 => f[5] = Stream!EndFrame(f[4], Stream!Newline)
      BY <1>2, <1>3
    <3> QED  BY <3>2, <3>3
  <2>8. Len(b) = 4 \/ Len(b) = 5
    BY <1>6
  <2>9. f[Len(b)][1] = f[4][1]
    BY <2>7, <2>8
  <2> QED  BY <1>1, <1>6, <2>6, <2>9
<1> QED  BY <1>5, <1>6

\* The bytes of a line,
LEMMA LineIs ==
    ASSUME NEW e \in Events
    PROVE  /\ Stream!Line(e) \in Seq(Symbols) /\ Len(Stream!Line(e)) = 3
           /\ Stream!Line(e)[1] = <<e, 1>> /\ Stream!Line(e)[2] = <<e, 2>>
           /\ Stream!Line(e)[3] = Stream!Newline
<1> DEFINE b == <<<<e, 1>>, <<e, 2>>>>
           t == <<Stream!Newline>>
           c == b \o t
<1>1. /\ <<e, 1>> \in Symbols /\ <<e, 2>> \in Symbols /\ Stream!Newline \in Symbols /\ Stream!Bytes(e) = b
  BY BytesOfEvents
<1>2. /\ b \in Seq(Symbols) /\ Len(b) = 2 /\ b[1] = <<e, 1>> /\ b[2] = <<e, 2>>
      /\ t \in Seq(Symbols) /\ Len(t) = 1 /\ t[1] = Stream!Newline
  BY <1>1
<1>3. Stream!Line(e) = c
  BY <1>1 DEF Stream!Line
<1> HIDE DEF b, t
<1>4. /\ c \in Seq(Symbols) /\ Len(c) = Len(b) + Len(t)
      /\ \A i \in 1 .. Len(b) : c[i] = b[i]
      /\ \A i \in 1 .. Len(t) : c[Len(b) + i] = t[i]
  BY <1>2, Joined
<1> HIDE DEF c
<1>5. Len(c) = 3 /\ c[1] = b[1] /\ c[2] = b[2] /\ c[3] = t[1]
  <2>1. /\ 1 \in 1 .. Len(b) /\ 2 \in 1 .. Len(b) /\ 1 \in 1 .. Len(t) /\ Len(b) + 1 = 3
        /\ Len(b) + Len(t) = 3
    BY <1>2
  <2> QED  BY <1>4, <2>1
<1> QED  BY <1>2, <1>3, <1>4, <1>5

\* and of a frame.
LEMMA FrameIs ==
    ASSUME NEW e \in Events
    PROVE  /\ Stream!Frame(e) \in Seq(Symbols) /\ Len(Stream!Frame(e)) = 4
           /\ Stream!Frame(e)[1] = <<e, 1>> /\ Stream!Frame(e)[2] = <<e, 2>>
           /\ Stream!Frame(e)[3] = Stream!Newline /\ Stream!Frame(e)[4] = Stream!Newline
<1> DEFINE b == <<<<e, 1>>, <<e, 2>>>>
           t == <<Stream!Newline, Stream!Newline>>
           c == b \o t
<1>1. /\ <<e, 1>> \in Symbols /\ <<e, 2>> \in Symbols /\ Stream!Newline \in Symbols /\ Stream!Bytes(e) = b
  BY BytesOfEvents
<1>2. /\ b \in Seq(Symbols) /\ Len(b) = 2 /\ b[1] = <<e, 1>> /\ b[2] = <<e, 2>>
      /\ t \in Seq(Symbols) /\ Len(t) = 2 /\ t[1] = Stream!Newline /\ t[2] = Stream!Newline
  BY <1>1
<1>3. Stream!Frame(e) = c
  BY <1>1 DEF Stream!Frame
<1> HIDE DEF b, t
<1>4. /\ c \in Seq(Symbols) /\ Len(c) = Len(b) + Len(t)
      /\ \A i \in 1 .. Len(b) : c[i] = b[i]
      /\ \A i \in 1 .. Len(t) : c[Len(b) + i] = t[i]
  BY <1>2, Joined
<1> HIDE DEF c
<1>5. Len(c) = 4 /\ c[1] = b[1] /\ c[2] = b[2] /\ c[3] = t[1] /\ c[4] = t[2]
  <2>1. /\ 1 \in 1 .. Len(b) /\ 2 \in 1 .. Len(b) /\ 1 \in 1 .. Len(t) /\ 2 \in 1 .. Len(t)
        /\ Len(b) + 1 = 3 /\ Len(b) + 2 = 4 /\ Len(b) + Len(t) = 4
    BY <1>2
  <2> QED  BY <1>4, <2>1
<1> QED  BY <1>2, <1>3, <1>4, <1>5

\* One more line,
LEMMA LinesWritten ==
    ASSUME NEW B, NEW E, IsLines(B, E), NEW e \in Events
    PROVE  IsLines(B \o Stream!Line(e), Append(E, e))
<1> DEFINE line == Stream!Line(e)
           C == B \o line
           D == Append(E, e)
<1>0. /\ B \in Seq(Symbols) /\ E \in Seq(Events) /\ Len(B) = 3 * Len(E) /\ Len(E) \in Nat
      /\ \A j \in 1 .. Len(E) : /\ B[3 * j - 2] = <<E[j], 1>> /\ B[3 * j - 1] = <<E[j], 2>>
                                /\ B[3 * j] = Stream!Newline
  BY DEF IsLines
<1>1. /\ line \in Seq(Symbols) /\ Len(line) = 3
      /\ line[1] = <<e, 1>> /\ line[2] = <<e, 2>> /\ line[3] = Stream!Newline
  BY LineIs
<1>2. /\ D \in Seq(Events) /\ Len(D) = Len(E) + 1 /\ D[Len(E) + 1] = e
      /\ \A j \in 1 .. Len(E) : D[j] = E[j]
  BY <1>0, AppendProperties
<1> HIDE DEF line, D
<1>3. /\ C \in Seq(Symbols) /\ Len(C) = Len(B) + 3
      /\ \A i \in 1 .. Len(B) : C[i] = B[i]
      /\ \A i \in 1 .. 3 : C[Len(B) + i] = line[i]
  <2>1. /\ C \in Seq(Symbols) /\ Len(C) = Len(B) + Len(line)
        /\ \A i \in 1 .. Len(B) : C[i] = B[i]
        /\ \A i \in 1 .. Len(line) : C[Len(B) + i] = line[i]
    BY <1>0, <1>1, Joined
  <2> QED  BY <1>1, <2>1
<1> HIDE DEF C
<1>4. ASSUME NEW j \in 1 .. Len(D)
      PROVE  C[3 * j - 2] = <<D[j], 1>> /\ C[3 * j - 1] = <<D[j], 2>> /\ C[3 * j] = Stream!Newline
  <2>1. CASE j \in 1 .. Len(E)
    <3>1. /\ 3 * j - 2 \in 1 .. Len(B) /\ 3 * j - 1 \in 1 .. Len(B) /\ 3 * j \in 1 .. Len(B)
      BY <2>1, <1>0
    <3>2. /\ C[3 * j - 2] = B[3 * j - 2] /\ C[3 * j - 1] = B[3 * j - 1] /\ C[3 * j] = B[3 * j]
      BY <3>1, <1>3
    <3> QED  BY <2>1, <3>2, <1>0, <1>2
  <2>2. CASE j = Len(E) + 1
    <3>1. /\ 3 * j - 2 = Len(B) + 1 /\ 3 * j - 1 = Len(B) + 2 /\ 3 * j = Len(B) + 3
      BY <2>2, <1>0
    <3>2. /\ C[Len(B) + 1] = line[1] /\ C[Len(B) + 2] = line[2] /\ C[Len(B) + 3] = line[3]
      BY <1>3
    <3> QED  BY <2>2, <3>1, <3>2, <1>1, <1>2
  <2> QED  BY <2>1, <2>2, <1>0, <1>2
<1>5. Len(C) = 3 * Len(D)
  BY <1>0, <1>2, <1>3
<1>6. IsLines(C, D)
  BY <1>2, <1>3, <1>4, <1>5 DEF IsLines
<1> QED  BY <1>6 DEF C, D, line

\* and one more frame.
LEMMA FramesWritten ==
    ASSUME NEW B, NEW E, IsFrames(B, E), NEW e \in Events
    PROVE  IsFrames(B \o Stream!Frame(e), Append(E, e))
<1> DEFINE frame == Stream!Frame(e)
           C == B \o frame
           D == Append(E, e)
<1>0. /\ B \in Seq(Symbols) /\ E \in Seq(Events) /\ Len(B) = 4 * Len(E) /\ Len(E) \in Nat
      /\ \A j \in 1 .. Len(E) : /\ B[4 * j - 3] = <<E[j], 1>> /\ B[4 * j - 2] = <<E[j], 2>>
                                /\ B[4 * j - 1] = Stream!Newline /\ B[4 * j] = Stream!Newline
  BY DEF IsFrames
<1>1. /\ frame \in Seq(Symbols) /\ Len(frame) = 4
      /\ frame[1] = <<e, 1>> /\ frame[2] = <<e, 2>> /\ frame[3] = Stream!Newline /\ frame[4] = Stream!Newline
  BY FrameIs
<1>2. /\ D \in Seq(Events) /\ Len(D) = Len(E) + 1 /\ D[Len(E) + 1] = e
      /\ \A j \in 1 .. Len(E) : D[j] = E[j]
  BY <1>0, AppendProperties
<1> HIDE DEF frame, D
<1>3. /\ C \in Seq(Symbols) /\ Len(C) = Len(B) + 4
      /\ \A i \in 1 .. Len(B) : C[i] = B[i]
      /\ \A i \in 1 .. 4 : C[Len(B) + i] = frame[i]
  <2>1. /\ C \in Seq(Symbols) /\ Len(C) = Len(B) + Len(frame)
        /\ \A i \in 1 .. Len(B) : C[i] = B[i]
        /\ \A i \in 1 .. Len(frame) : C[Len(B) + i] = frame[i]
    BY <1>0, <1>1, Joined
  <2> QED  BY <1>1, <2>1
<1> HIDE DEF C
<1>4. ASSUME NEW j \in 1 .. Len(D)
      PROVE  C[4 * j - 3] = <<D[j], 1>> /\ C[4 * j - 2] = <<D[j], 2>> /\ C[4 * j - 1] = Stream!Newline
             /\ C[4 * j] = Stream!Newline
  <2>1. CASE j \in 1 .. Len(E)
    <3>1. /\ 4 * j - 3 \in 1 .. Len(B) /\ 4 * j - 2 \in 1 .. Len(B) /\ 4 * j - 1 \in 1 .. Len(B)
          /\ 4 * j \in 1 .. Len(B)
      BY <2>1, <1>0
    <3>2. /\ C[4 * j - 3] = B[4 * j - 3] /\ C[4 * j - 2] = B[4 * j - 2] /\ C[4 * j - 1] = B[4 * j - 1]
          /\ C[4 * j] = B[4 * j]
      BY <3>1, <1>3
    <3> QED  BY <2>1, <3>2, <1>0, <1>2
  <2>2. CASE j = Len(E) + 1
    <3>1. /\ 4 * j - 3 = Len(B) + 1 /\ 4 * j - 2 = Len(B) + 2 /\ 4 * j - 1 = Len(B) + 3
          /\ 4 * j = Len(B) + 4
      BY <2>2, <1>0
    <3>2. /\ C[Len(B) + 1] = frame[1] /\ C[Len(B) + 2] = frame[2] /\ C[Len(B) + 3] = frame[3]
          /\ C[Len(B) + 4] = frame[4]
      BY <1>3
    <3> QED  BY <2>2, <3>1, <3>2, <1>1, <1>2
  <2> QED  BY <2>1, <2>2, <1>0, <1>2
<1>5. Len(C) = 4 * Len(D)
  BY <1>0, <1>2, <1>3
<1>6. IsFrames(C, D)
  BY <1>2, <1>3, <1>4, <1>5 DEF IsFrames
<1> QED  BY <1>6 DEF C, D, frame

\* Bytes are appended to appended bytes.
LEMMA Rejoined ==
    ASSUME NEW a \in Seq(Symbols), NEW b \in Seq(Symbols), NEW c \in Seq(Symbols)
    PROVE  (a \o b) \o c = a \o (b \o c)
BY ConcatAssociative

\* and several.
LEMMA AllWritten ==
    ASSUME NEW r \in Seq(Symbols), NEW d \in Seq(Symbols), NEW D, IsFrames(r \o d, D),
           NEW words \in Seq(Events)
    PROVE  /\ Stream!Loop(words, d, Stream!Write) \in Seq(Symbols)
           /\ IsFrames(r \o Stream!Loop(words, d, Stream!Write), D \o words)
<1> DEFINE W == Seq(Symbols)
           step == [x \in W \X Events |-> Stream!Write(x[1], x[2])]
           k == CHOOSE f : f = [n \in 0 .. Len(words) |-> IF n = 0 THEN d ELSE Stream!Write(f[n - 1], words[n])]
<1>0. Len(words) \in Nat /\ \A n \in 1 .. Len(words) : words[n] \in Events
  OBVIOUS
<1>1. ASSUME NEW b \in W, NEW e \in Events PROVE Stream!Write(b, e) \in W
  <2>1. Stream!Frame(e) \in Seq(Symbols)
    BY FrameIs
  <2> QED  BY <2>1 DEF Stream!Write
<1>2. step \in [W \X Events -> W]
  BY <1>1
<1>3. Stream!Loop(words, d, Stream!Write) = k[Len(words)]
  BY DEF Stream!Loop
<1>4. \A b \in W, e \in Events : step[<<b, e>>] = Stream!Write(b, e)
  OBVIOUS
<1>w. d \in W
  OBVIOUS
<1> HIDE DEF step, W
<1>5. PICK f \in [0 .. Len(words) -> W] : Loops(f, words, d, step)
  BY <1>w, <1>2, LoopExists
<1>6. f = [n \in 0 .. Len(words) |-> IF n = 0 THEN d ELSE Stream!Write(f[n - 1], words[n])]
  <2>1. \A n \in 0 .. Len(words) : n # 0 => step[<<f[n - 1], words[n]>>] = Stream!Write(f[n - 1], words[n])
    <3> SUFFICES ASSUME NEW n \in 0 .. Len(words), n # 0
                 PROVE  step[<<f[n - 1], words[n]>>] = Stream!Write(f[n - 1], words[n])
      OBVIOUS
    <3>1. n - 1 \in 0 .. Len(words) /\ n \in 1 .. Len(words)
      BY <1>0
    <3> QED  BY <3>1, <1>0, <1>4
  <2> QED  BY <2>1, <1>5 DEF Loops
<1>7. k = [n \in 0 .. Len(words) |-> IF n = 0 THEN d ELSE Stream!Write(k[n - 1], words[n])]
  BY <1>6
<1> HIDE DEF k
<1>8. k[0] = d /\ \A n \in 1 .. Len(words) : k[n] = Stream!Write(k[n - 1], words[n])
  <2>1. 0 \in 0 .. Len(words) /\ \A n \in 1 .. Len(words) : n \in 0 .. Len(words) /\ n # 0
    BY <1>0
  <2> QED  BY <1>7, <2>1
<1>9. D \in Seq(Events) /\ Len(D) \in Nat
  BY DEF IsFrames
<1> DEFINE after(X, n) == /\ IsFrames(r \o k[n], X) /\ Len(X) = Len(D) + n
                          /\ \A i \in 1 .. Len(D) : X[i] = D[i]
                          /\ \A i \in 1 .. n : X[Len(D) + i] = words[i]
           G == {n \in Nat : n <= Len(words) => k[n] \in W /\ \E X : after(X, n)}
<1>10. 0 \in G
  <2>1. after(D, 0)
    BY <1>8, <1>9
  <2> HIDE DEF after
  <2> QED  BY <1>8, <1>w, <2>1
<1>11. ASSUME NEW n \in G PROVE n + 1 \in G
  <2> SUFFICES ASSUME n + 1 <= Len(words) PROVE k[n + 1] \in W /\ \E X : after(X, n + 1)
    OBVIOUS
  <2>1. /\ n \in Nat /\ n + 1 \in 1 .. Len(words) /\ (n + 1) - 1 = n /\ k[n] \in W
        /\ words[n + 1] \in Events
    BY <1>0
  <2>2. PICK X : after(X, n)
    BY <1>0
  <2> DEFINE e == words[n + 1]
             Y == Append(X, e)
  <2>3. k[n + 1] = Stream!Write(k[n], e)
    BY <2>1, <1>8
  <2>4. k[n + 1] \in W
    BY <2>1, <2>3, <1>1
  <2>5. r \o k[n + 1] = (r \o k[n]) \o Stream!Frame(e)
    <3>1. PICK w, v : w = k[n] /\ v = Stream!Frame(e)
      OBVIOUS
    <3>2. w \in Seq(Symbols) /\ v \in Seq(Symbols) /\ r \in Seq(Symbols)
      BY <2>1, <3>1, FrameIs DEF W
    <3>3. k[n + 1] = w \o v
      BY <2>3, <3>1 DEF Stream!Write
    <3>4. (r \o w) \o v = r \o (w \o v)
      BY <3>2, Rejoined
    <3> QED  BY <3>1, <3>3, <3>4
  <2>6. IsFrames(r \o k[n + 1], Y)
    <3>1. IsFrames(r \o k[n], X) /\ e \in Events
      BY <2>1, <2>2
    <3>2. IsFrames((r \o k[n]) \o Stream!Frame(e), Append(X, e))
      BY <3>1, FramesWritten
    <3> QED  BY <2>5, <3>2
  <2>7. X \in Seq(Events)
    BY <2>2 DEF IsFrames
  <2>8. /\ Len(Y) = Len(X) + 1 /\ Y[Len(X) + 1] = e /\ \A i \in 1 .. Len(X) : Y[i] = X[i]
    BY <2>1, <2>7, AppendProperties
  <2> HIDE DEF Y, e
  <2>9. Len(Y) = Len(D) + (n + 1)
    BY <1>9, <2>1, <2>2, <2>8
  <2>10. \A i \in 1 .. Len(D) : Y[i] = D[i]
    <3>1. \A i \in 1 .. Len(D) : i \in 1 .. Len(X)
      BY <1>9, <2>1, <2>2
    <3> QED  BY <3>1, <2>2, <2>8
  <2>11. ASSUME NEW i \in 1 .. n + 1 PROVE Y[Len(D) + i] = words[i]
    <3>1. CASE i = n + 1
      <4>1. Len(D) + i = Len(X) + 1
        BY <3>1, <1>9, <2>1, <2>2
      <4> QED  BY <3>1, <4>1, <2>8 DEF e
    <3>2. CASE i # n + 1
      <4>1. i \in 1 .. n /\ Len(D) + i \in 1 .. Len(X)
        BY <3>2, <1>9, <2>1, <2>2
      <4> QED  BY <4>1, <2>2, <2>8
    <3> QED  BY <3>1, <3>2
  <2>12. after(Y, n + 1)
    BY <2>6, <2>9, <2>10, <2>11
  <2> HIDE DEF after
  <2> QED  BY <2>4, <2>12
<1>12. G = Nat
  <2>1. G \in SUBSET Nat
    OBVIOUS
  <2> HIDE DEF G
  <2> QED  BY <1>10, <1>11, <2>1, SetInduction
<1>13. k[Len(words)] \in W /\ \E X : after(X, Len(words))
  <2>1. Len(words) \in G
    BY <1>0, <1>12
  <2> QED  BY <2>1, <1>0
<1>14. PICK X : after(X, Len(words))
  BY <1>13
<1>15. X \in Seq(Events)
  BY <1>14 DEF IsFrames
<1> DEFINE Z == D \o words
<1>16. /\ Z \in Seq(Events) /\ Len(Z) = Len(D) + Len(words)
       /\ \A i \in 1 .. Len(D) + Len(words) : Z[i] = IF i <= Len(D) THEN D[i] ELSE words[i - Len(D)]
  BY <1>9, ConcatProperties
<1> HIDE DEF Z
<1>17. ASSUME NEW i \in 1 .. Len(D) + Len(words) PROVE X[i] = Z[i]
  <2>1. CASE i <= Len(D)
    <3>1. i \in 1 .. Len(D)
      BY <2>1, <1>9
    <3> QED  BY <2>1, <3>1, <1>14, <1>16
  <2>2. CASE ~ (i <= Len(D))
    <3>1. i - Len(D) \in 1 .. Len(words) /\ Len(D) + (i - Len(D)) = i
      BY <2>2, <1>0, <1>9
    <3> QED  BY <2>2, <3>1, <1>14, <1>16
  <2> QED  BY <2>1, <2>2
<1>18. X = Z
  BY <1>14, <1>15, <1>16, <1>17, SeqEqual
<1>19. IsFrames(r \o k[Len(words)], Z)
  BY <1>14, <1>18
<1> QED  BY <1>3, <1>13, <1>19 DEF Z, W


\* Events, and what follows them.
LEMMA EventsJoined ==
    ASSUME NEW s \in Seq(Events), NEW t \in Seq(Events)
    PROVE  /\ s \o t \in Seq(Events) /\ Len(s \o t) = Len(s) + Len(t)
           /\ \A i \in 1 .. Len(s) : (s \o t)[i] = s[i]
           /\ \A i \in 1 .. Len(t) : (s \o t)[Len(s) + i] = t[i]
<1>1. /\ s \o t \in Seq(Events) /\ Len(s \o t) = Len(s) + Len(t)
      /\ \A i \in 1 .. Len(s) + Len(t) : (s \o t)[i] = IF i <= Len(s) THEN s[i] ELSE t[i - Len(s)]
  BY ConcatProperties
<1> DEFINE c == s \o t
<1> HIDE DEF c
<1>2. Len(s) \in Nat /\ Len(t) \in Nat
  OBVIOUS
<1>3. \A i \in 1 .. Len(s) : i \in 1 .. Len(s) + Len(t) /\ i <= Len(s)
  BY <1>2
<1>4. \A i \in 1 .. Len(t) : /\ Len(s) + i \in 1 .. Len(s) + Len(t) /\ ~ (Len(s) + i <= Len(s))
                             /\ (Len(s) + i) - Len(s) = i
  BY <1>2
<1> QED  BY <1>1, <1>3, <1>4

\* t is s and then the events of E.
Follows(s, E, t) ==
    /\ Len(t) = Len(s) + Len(E)
    /\ \A i \in 1 .. Len(s) : t[i] = s[i]
    /\ \A i \in 1 .. Len(E) : t[Len(s) + i] = E[i]

\* The first k of what follows are taken.
LEMMA FollowsOn ==
    ASSUME NEW s \in Seq(Events), NEW E \in Seq(Events), NEW t \in Seq(Events), Follows(s, E, t),
           NEW k \in Nat, k <= Len(E)
    PROVE  /\ s \o SubSeq(E, 1, k) \in Seq(Events)
           /\ Follows(s \o SubSeq(E, 1, k), SubSeq(E, k + 1, Len(E)), t)
<1> DEFINE a == SubSeq(E, 1, k)
           b == SubSeq(E, k + 1, Len(E))
           c == s \o a
<1>0. Len(s) \in Nat /\ Len(E) \in Nat /\ Len(t) \in Nat
  OBVIOUS
<1>1. a \in Seq(Events) /\ Len(a) = k /\ \A i \in 1 .. k : a[i] = E[i]
  BY FirstOf
<1>2. b \in Seq(Events) /\ Len(b) = Len(E) - k /\ \A i \in 1 .. Len(E) - k : b[i] = E[k + i]
  BY EventsLeft
<1> HIDE DEF a, b
<1>3. /\ c \in Seq(Events) /\ Len(c) = Len(s) + Len(a)
      /\ \A i \in 1 .. Len(s) : c[i] = s[i]
      /\ \A i \in 1 .. Len(a) : c[Len(s) + i] = a[i]
  BY <1>1, EventsJoined
<1> HIDE DEF c
<1>4. /\ Len(t) = Len(s) + Len(E)
      /\ \A i \in 1 .. Len(s) : t[i] = s[i]
      /\ \A i \in 1 .. Len(E) : t[Len(s) + i] = E[i]
  BY DEF Follows
<1>5. Len(t) = Len(c) + Len(b)
  BY <1>0, <1>1, <1>2, <1>3, <1>4
<1>6. ASSUME NEW i \in 1 .. Len(c) PROVE t[i] = c[i]
  <2>1. CASE i <= Len(s)
    <3>1. i \in 1 .. Len(s)
      BY <2>1, <1>0
    <3> QED  BY <3>1, <1>3, <1>4
  <2>2. CASE ~ (i <= Len(s))
    <3> DEFINE l == i - Len(s)
    <3>1. l \in 1 .. k /\ l \in 1 .. Len(a) /\ l \in 1 .. Len(E) /\ Len(s) + l = i
      BY <2>2, <1>0, <1>1, <1>3
    <3> HIDE DEF l
    <3>2. c[Len(s) + l] = a[l] /\ a[l] = E[l] /\ t[Len(s) + l] = E[l]
      BY <3>1, <1>1, <1>3, <1>4
    <3> QED  BY <3>1, <3>2
  <2> QED  BY <2>1, <2>2
<1>7. ASSUME NEW i \in 1 .. Len(b) PROVE t[Len(c) + i] = b[i]
  <2>1. k + i \in 1 .. Len(E) /\ i \in 1 .. Len(E) - k /\ Len(c) + i = Len(s) + (k + i)
    BY <1>0, <1>1, <1>2, <1>3
  <2>2. t[Len(s) + (k + i)] = E[k + i] /\ b[i] = E[k + i]
    BY <2>1, <1>2, <1>4
  <2> QED  BY <2>1, <2>2
<1>8. Follows(c, b, t)
  BY <1>5, <1>6, <1>7 DEF Follows
<1> QED  BY <1>3, <1>8 DEF a, b, c

\* The last of what follows is x.
LEMMA FollowsLast ==
    ASSUME NEW s \in Seq(Events), NEW E \in Seq(Events), NEW t \in Seq(Events), NEW x \in Events,
           Follows(s, E, Append(t, x)), Len(E) >= 1
    PROVE  /\ E[Len(E)] = x /\ Len(t) = Len(s) + (Len(E) - 1)
           /\ \A i \in 1 .. Len(E) - 1 : E[i] = t[Len(s) + i]
           /\ \A i \in 1 .. Len(s) : s[i] = t[i]
           /\ s \o SubSeq(E, 1, Len(E) - 1) = t
<1> DEFINE u == Append(t, x)
           k == Len(E) - 1
           a == SubSeq(E, 1, k)
           c == s \o a
<1>0. Len(s) \in Nat /\ Len(E) \in Nat /\ Len(t) \in Nat /\ k \in Nat /\ k <= Len(E) /\ Len(E) = k + 1
  OBVIOUS
<1>1. /\ Len(u) = Len(t) + 1 /\ u[Len(t) + 1] = x /\ \A i \in 1 .. Len(t) : u[i] = t[i]
  BY AppendProperties
<1>2. /\ Len(u) = Len(s) + Len(E)
      /\ \A i \in 1 .. Len(s) : u[i] = s[i]
      /\ \A i \in 1 .. Len(E) : u[Len(s) + i] = E[i]
  BY DEF Follows
<1> HIDE DEF u, k
<1>3. Len(t) = Len(s) + k
  BY <1>0, <1>1, <1>2
<1>4. E[Len(E)] = x
  <2>1. Len(E) \in 1 .. Len(E) /\ Len(s) + Len(E) = Len(t) + 1
    BY <1>0, <1>3
  <2> QED  BY <2>1, <1>1, <1>2
<1>5. \A i \in 1 .. k : E[i] = t[Len(s) + i]
  <2>1. \A i \in 1 .. k : i \in 1 .. Len(E) /\ Len(s) + i \in 1 .. Len(t)
    BY <1>0, <1>3
  <2> QED  BY <2>1, <1>1, <1>2
<1>6. \A i \in 1 .. Len(s) : s[i] = t[i]
  <2>1. \A i \in 1 .. Len(s) : i \in 1 .. Len(t)
    BY <1>0, <1>3
  <2> QED  BY <2>1, <1>1, <1>2
<1>7. a \in Seq(Events) /\ Len(a) = k /\ \A i \in 1 .. k : a[i] = E[i]
  BY <1>0, FirstOf
<1> HIDE DEF a
<1>8. /\ c \in Seq(Events) /\ Len(c) = Len(s) + Len(a)
      /\ \A i \in 1 .. Len(s) : c[i] = s[i]
      /\ \A i \in 1 .. Len(a) : c[Len(s) + i] = a[i]
  BY <1>7, EventsJoined
<1> HIDE DEF c
<1>9. ASSUME NEW i \in 1 .. Len(c) PROVE c[i] = t[i]
  <2>1. CASE i <= Len(s)
    <3>1. i \in 1 .. Len(s)
      BY <2>1, <1>0
    <3> QED  BY <3>1, <1>6, <1>8
  <2>2. CASE ~ (i <= Len(s))
    <3> DEFINE l == i - Len(s)
    <3>1. l \in 1 .. k /\ l \in 1 .. Len(a) /\ Len(s) + l = i
      BY <2>2, <1>0, <1>7, <1>8
    <3> HIDE DEF l
    <3>2. c[Len(s) + l] = a[l] /\ a[l] = E[l] /\ E[l] = t[Len(s) + l]
      BY <3>1, <1>5, <1>7, <1>8
    <3> QED  BY <3>1, <3>2
  <2> QED  BY <2>1, <2>2
<1>10. c = t
  BY <1>3, <1>7, <1>8, <1>9, SeqEqual
<1> QED  BY <1>3, <1>4, <1>5, <1>6, <1>10 DEF a, c, k

\* More events follow.
LEMMA FollowsMore ==
    ASSUME NEW s \in Seq(Events), NEW E \in Seq(Events), NEW t \in Seq(Events), Follows(s, E, t),
           NEW v \in Seq(Events)
    PROVE  Follows(s, E \o v, t \o v)
<1> DEFINE a == E \o v
           b == t \o v
<1>0. Len(s) \in Nat /\ Len(E) \in Nat /\ Len(t) \in Nat /\ Len(v) \in Nat
  OBVIOUS
<1>1. /\ Len(a) = Len(E) + Len(v) /\ \A i \in 1 .. Len(E) : a[i] = E[i]
      /\ \A i \in 1 .. Len(v) : a[Len(E) + i] = v[i]
  BY EventsJoined
<1>2. /\ Len(b) = Len(t) + Len(v) /\ \A i \in 1 .. Len(t) : b[i] = t[i]
      /\ \A i \in 1 .. Len(v) : b[Len(t) + i] = v[i]
  BY EventsJoined
<1> HIDE DEF a, b
<1>3. /\ Len(t) = Len(s) + Len(E)
      /\ \A i \in 1 .. Len(s) : t[i] = s[i]
      /\ \A i \in 1 .. Len(E) : t[Len(s) + i] = E[i]
  BY DEF Follows
<1>4. Len(b) = Len(s) + Len(a)
  BY <1>0, <1>1, <1>2, <1>3
<1>5. \A i \in 1 .. Len(s) : b[i] = s[i]
  <2>1. \A i \in 1 .. Len(s) : i \in 1 .. Len(t)
    BY <1>0, <1>3
  <2> QED  BY <2>1, <1>2, <1>3
<1>6. ASSUME NEW i \in 1 .. Len(a) PROVE b[Len(s) + i] = a[i]
  <2>1. CASE i <= Len(E)
    <3>1. i \in 1 .. Len(E) /\ Len(s) + i \in 1 .. Len(t)
      BY <2>1, <1>0, <1>3
    <3> QED  BY <3>1, <1>1, <1>2, <1>3
  <2>2. CASE ~ (i <= Len(E))
    <3> DEFINE l == i - Len(E)
    <3>1. l \in 1 .. Len(v) /\ Len(E) + l = i /\ Len(t) + l = Len(s) + i
      BY <2>2, <1>0, <1>1, <1>3
    <3> HIDE DEF l
    <3>2. b[Len(t) + l] = v[l] /\ a[Len(E) + l] = v[l]
      BY <3>1, <1>1, <1>2
    <3> QED  BY <3>1, <3>2
  <2> QED  BY <2>1, <2>2
<1>7. Follows(s, a, b)
  BY <1>4, <1>5, <1>6 DEF Follows
<1> QED  BY <1>7 DEF a, b

\* One more.
LEMMA FollowsOne ==
    ASSUME NEW s \in Seq(Events), NEW E \in Seq(Events), NEW t \in Seq(Events), Follows(s, E, t),
           NEW x \in Events
    PROVE  Follows(s, Append(E, x), Append(t, x))
<1>1. Append(E, x) = E \o <<x>> /\ Append(t, x) = t \o <<x>>
  BY AppendIsConcat
<1>2. <<x>> \in Seq(Events)
  OBVIOUS
<1>3. Follows(s, E \o <<x>>, t \o <<x>>)
  BY <1>2, FollowsMore
<1> QED  BY <1>1, <1>3


\* All of a sequence, and the first of the first.
LEMMA FirstOfFirst ==
    ASSUME NEW E \in Seq(Events), NEW k \in Nat, k <= Len(E), NEW c \in Nat, c <= k
    PROVE  SubSeq(SubSeq(E, 1, k), 1, c) = SubSeq(E, 1, c)
<1> DEFINE D == SubSeq(E, 1, k)
           X == SubSeq(D, 1, c)
           Y == SubSeq(E, 1, c)
<1>0. Len(E) \in Nat /\ c <= Len(E)
  OBVIOUS
<1>1. D \in Seq(Events) /\ Len(D) = k /\ \A i \in 1 .. k : D[i] = E[i]
  BY FirstOf
<1>2. Y \in Seq(Events) /\ Len(Y) = c /\ \A i \in 1 .. c : Y[i] = E[i]
  BY <1>0, FirstOf
<1> HIDE DEF D, Y
<1>3. X \in Seq(Events) /\ Len(X) = c /\ \A i \in 1 .. c : X[i] = D[i]
  BY <1>1, FirstOf
<1> HIDE DEF X
<1>4. \A i \in 1 .. c : X[i] = Y[i]
  <2>1. \A i \in 1 .. c : i \in 1 .. k
    BY <1>0
  <2> QED  BY <2>1, <1>1, <1>2, <1>3
<1>5. X = Y
  BY <1>2, <1>3, <1>4, SeqEqual
<1> QED  BY <1>5 DEF X, Y, D

\* Bytes that begin others and are as many are all of them.
LEMMA BeginsAll ==
    ASSUME NEW a \in Seq(Symbols), NEW b \in Seq(Symbols), Begins(a, b), Len(a) = Len(b)
    PROVE  a = b
BY SeqEqual DEF Begins

\* Fewer bytes begin them too.
LEMMA BeginsLess ==
    ASSUME NEW r \in Seq(Symbols), NEW u \in Seq(Symbols), NEW B \in Seq(Symbols), Begins(r \o u, B),
           NEW n \in Nat, n <= Len(u), NEW v, Taken(v, u, n)
    PROVE  /\ v \in Seq(Symbols) /\ Len(v) = n /\ Begins(r \o v, B) /\ Len(r \o v) = Len(r) + n
<1>0. Len(r) \in Nat /\ Len(u) \in Nat /\ Len(B) \in Nat
  OBVIOUS
<1>2. v \in Seq(Symbols)
  BY DEF Taken
<1>3. Len(v) = n
  BY DEF Taken
<1>4. \A i \in 1 .. n : v[i] = u[i]
  BY DEF Taken
<1> DEFINE a == r \o u
           b == r \o v
<1>5. /\ Len(a) = Len(r) + Len(u) /\ \A i \in 1 .. Len(r) : a[i] = r[i]
      /\ \A i \in 1 .. Len(u) : a[Len(r) + i] = u[i]
  BY Joined
<1>6. /\ b \in Seq(Symbols) /\ Len(b) = Len(r) + Len(v) /\ \A i \in 1 .. Len(r) : b[i] = r[i]
      /\ \A i \in 1 .. Len(v) : b[Len(r) + i] = v[i]
  BY <1>2, Joined
<1>7. Len(a) <= Len(B) /\ \A i \in 1 .. Len(a) : a[i] = B[i]
  BY DEF Begins
<1> HIDE DEF a, b
<1>8. ASSUME NEW i \in 1 .. Len(b) PROVE b[i] = B[i]
  <2>1. i \in 1 .. Len(a)
    BY <1>0, <1>3, <1>5, <1>6
  <2>2. CASE i <= Len(r)
    <3>1. i \in 1 .. Len(r)
      BY <2>2, <1>0
    <3> QED  BY <2>1, <3>1, <1>5, <1>6, <1>7
  <2>3. CASE ~ (i <= Len(r))
    <3> DEFINE l == i - Len(r)
    <3>1. l \in 1 .. n /\ l \in 1 .. Len(v) /\ l \in 1 .. Len(u) /\ Len(r) + l = i
      BY <2>3, <1>0, <1>3, <1>6
    <3> HIDE DEF l
    <3>2. b[Len(r) + l] = v[l] /\ v[l] = u[l] /\ a[Len(r) + l] = u[l]
      BY <3>1, <1>4, <1>5, <1>6
    <3> QED  BY <2>1, <3>1, <3>2, <1>7
  <2> QED  BY <2>2, <2>3
<1>9. Len(b) <= Len(B)
  BY <1>0, <1>3, <1>5, <1>6, <1>7
<1>10. Begins(b, B)
  BY <1>6, <1>8, <1>9 DEF Begins
<1> QED  BY <1>2, <1>3, <1>6, <1>10 DEF b

-----------------------------------------------------------------------------
(* From the provider to the reply.                                           *)

\* What the provider wrote and is not in the reply is on the way, as the lines of
\* the events E, of which a broken connection lost some, and the last of a complete body
\* may lack its newline.
UpstreamAt(m, mo, u, ur, rp, B, E) ==
    /\ IsLines(B, E) /\ Begins(ur \o u, B) /\ Len(ur) <= 2
    /\ mo = "broken" => u = <<>>
    /\ mo # "broken" => Len(ur \o u) \in Len(B) - 1 .. Len(B)
    /\ mo = "writing" => Len(ur \o u) = Len(B)
    /\ \/ mo # "complete" /\ Follows(rp, E, m)
       \/ mo = "complete" /\ Len(E) >= 1 /\ Follows(rp, E, Append(m, "[DONE]"))
       \/ mo = "complete" /\ Len(E) = 0 /\ rp = m
Upstream(m, mo, u, ur, rp) ==
    /\ m \in Seq(Words) /\ u \in Seq(Symbols) /\ ur \in Seq(Symbols) /\ rp \in Seq(Events)
    /\ \E B, E : UpstreamAt(m, mo, u, ur, rp, B, E)

\* A token is an event, and none of the others.
LEMMA WordsAreEvents ==
    /\ Words \subseteq Events /\ "[DONE]" \in Events /\ "done" \in Events /\ "error" \in Events
    /\ \A w \in Words : w # "[DONE]" /\ w # "done" /\ w # "error"
    /\ \A m \in Seq(Words) : m \in Seq(Events) /\ \A i \in 1 .. Len(m) : m[i] \in Words
<1>1. Words \subseteq Events
  BY DEF Events
<1>2. \A m \in Seq(Words) : m \in Seq(Events) /\ \A i \in 1 .. Len(m) : m[i] \in Words
  BY <1>1
<1> QED  BY <1>1, <1>2, WordsAssumption DEF Events

\* The reply begins what was generated,
LEMMA ReplyBegins ==
    ASSUME NEW m, NEW mo, NEW u, NEW ur, NEW rp, Upstream(m, mo, u, ur, rp)
    PROVE  Len(rp) <= Len(m) /\ \A i \in 1 .. Len(rp) : rp[i] = m[i]
<1>1. PICK B, E : UpstreamAt(m, mo, u, ur, rp, B, E)
  BY DEF Upstream
<1>2. m \in Seq(Events) /\ rp \in Seq(Events) /\ E \in Seq(Events) /\ "[DONE]" \in Events
  BY <1>1, WordsAreEvents DEF Upstream, UpstreamAt, IsLines
<1>3. Len(m) \in Nat /\ Len(rp) \in Nat /\ Len(E) \in Nat
  BY <1>2
<1>4. CASE Follows(rp, E, m)
  BY <1>3, <1>4 DEF Follows
<1>5. CASE Len(E) >= 1 /\ Follows(rp, E, Append(m, "[DONE]"))
  <2>1. Len(m) = Len(rp) + (Len(E) - 1) /\ \A i \in 1 .. Len(rp) : rp[i] = m[i]
    BY <1>2, <1>5, FollowsLast
  <2> QED  BY <2>1, <1>3, <1>5
<1>6. CASE rp = m
  BY <1>3, <1>6
<1> QED  BY <1>1, <1>4, <1>5, <1>6 DEF UpstreamAt

\* and is all of it when a complete body is read.
LEMMA ReplyIsAll ==
    ASSUME NEW m, NEW ur, NEW rp, Upstream(m, "complete", <<>>, ur, rp)
    PROVE  rp = m
<1>1. PICK B, E : UpstreamAt(m, "complete", <<>>, ur, rp, B, E)
  BY DEF Upstream
<1>2. Len(ur \o <<>>) = Len(ur) /\ Len(ur) \in Nat
  <2>1. ur \in Seq(Symbols)
    BY DEF Upstream
  <2> QED  BY <2>1
<1>3. Len(B) <= 3 /\ Len(B) = 3 * Len(E) /\ Len(E) \in Nat
  <2>1. Len(ur) <= 2 /\ Len(ur) >= Len(B) - 1 /\ Len(B) = 3 * Len(E) /\ Len(E) \in Nat
    BY <1>1, <1>2 DEF UpstreamAt, IsLines
  <2> QED  BY <1>2, <2>1
<1>4. Len(E) = 0 \/ Len(E) = 1
  <2>1. ASSUME NEW k \in Nat, NEW l, l <= 3, l = 3 * k PROVE k = 0 \/ k = 1
    BY <2>1
  <2> QED  BY <1>3, <2>1
<1>5. rp = m \/ Follows(rp, E, m) \/ (Len(E) >= 1 /\ Follows(rp, E, Append(m, "[DONE]")))
  BY <1>1 DEF UpstreamAt
<1>6. CASE Len(E) >= 1 /\ Follows(rp, E, Append(m, "[DONE]"))
  <2>1. rp \in Seq(Events) /\ E \in Seq(Events) /\ m \in Seq(Events) /\ "[DONE]" \in Events
    BY <1>1, WordsAreEvents DEF Upstream, UpstreamAt, IsLines
  <2>2. rp \o SubSeq(E, 1, Len(E) - 1) = m
    BY ONLY <1>6, <2>1, FollowsLast
  <2>3. Len(E) - 1 = 0
    BY <1>4, <1>6
  <2>4. SubSeq(E, 1, 0) = <<>> /\ rp \o <<>> = rp
    BY <2>1
  <2> QED  BY <2>2, <2>3, <2>4
<1>7. CASE rp = m
  BY <1>7
<1> QED  BY <1>1, <1>6, <1>7 DEF UpstreamAt


\* At first nothing is written.
LEMMA UpstreamStarts ==
    Upstream(<<>>, "writing", <<>>, <<>>, <<>>)
<1>1. /\ <<>> \in Seq(Words) /\ <<>> \in Seq(Symbols) /\ <<>> \in Seq(Events) /\ Len(<<>>) = 0
      /\ 1 .. 0 = {} /\ <<>> \o <<>> = <<>>
  OBVIOUS
<1>2. IsLines(<<>>, <<>>)
  BY <1>1 DEF IsLines
<1>3. Begins(<<>> \o <<>>, <<>>) /\ Follows(<<>>, <<>>, <<>>)
  BY <1>1 DEF Begins, Follows
<1>4. UpstreamAt(<<>>, "writing", <<>>, <<>>, <<>>, <<>>, <<>>)
  BY <1>1, <1>2, <1>3 DEF UpstreamAt
<1> QED  BY <1>1, <1>4 DEF Upstream

\* A token is written, or [DONE], with its newline or without.
LEMMA UpstreamWrites ==
    ASSUME NEW m, NEW u, NEW ur, NEW rp, Upstream(m, "writing", u, ur, rp)
    PROVE  /\ \A w \in Words : Upstream(Append(m, w), "writing", u \o Stream!Line(w), ur, rp)
           /\ Upstream(m, "complete", u \o Stream!Line("[DONE]"), ur, rp)
           /\ Upstream(m, "complete", u \o Stream!Bytes("[DONE]"), ur, rp)
<1>1. PICK B, E : UpstreamAt(m, "writing", u, ur, rp, B, E)
  BY DEF Upstream
<1>2. /\ m \in Seq(Words) /\ m \in Seq(Events) /\ rp \in Seq(Events) /\ E \in Seq(Events)
      /\ u \in Seq(Symbols) /\ ur \in Seq(Symbols) /\ B \in Seq(Symbols) /\ IsLines(B, E)
      /\ Len(ur) <= 2 /\ Follows(rp, E, m) /\ Begins(ur \o u, B) /\ Len(ur \o u) = Len(B)
  BY <1>1, WordsAreEvents DEF Upstream, UpstreamAt, IsLines
<1>3. ur \o u = B
  <2>1. ur \o u \in Seq(Symbols)
    BY <1>2, Joined
  <2> QED  BY <1>2, <2>1, BeginsAll
<1>4. ASSUME NEW e \in Events
      PROVE  LET X == Append(E, e)
                 C == B \o Stream!Line(e) IN
             /\ IsLines(C, X) /\ Begins(ur \o (u \o Stream!Line(e)), C)
             /\ Len(ur \o (u \o Stream!Line(e))) = Len(C)
             /\ u \o Stream!Line(e) \in Seq(Symbols)
             /\ Follows(rp, X, Append(m, e)) /\ Len(X) >= 1
  <2> DEFINE X == Append(E, e)
             line == Stream!Line(e)
             C == B \o line
  <2>1. IsLines(C, X)
    BY <1>2, LinesWritten
  <2>2. line \in Seq(Symbols)
    BY LineIs
  <2>3. Follows(rp, X, Append(m, e))
    BY <1>2, FollowsOne
  <2>4. Len(X) >= 1
    BY <1>2
  <2> HIDE DEF line, X
  <2>5. u \o line \in Seq(Symbols) /\ C \in Seq(Symbols)
    BY <1>2, <2>2, Joined
  <2>6. (ur \o u) \o line = ur \o (u \o line)
    BY <1>2, <2>2, Rejoined
  <2>7. ur \o (u \o line) = C
    BY <1>3, <2>6
  <2> HIDE DEF C
  <2>8. Begins(C, C) /\ Len(C) = Len(C)
    BY <2>5 DEF Begins
  <2> QED  BY <2>1, <2>3, <2>4, <2>5, <2>7, <2>8 DEF X, line, C
<1>5. ASSUME NEW w \in Words PROVE Upstream(Append(m, w), "writing", u \o Stream!Line(w), ur, rp)
  <2>1. w \in Events
    BY WordsAreEvents
  <2> DEFINE v == u \o Stream!Line(w)
             X == Append(E, w)
             C == B \o Stream!Line(w)
             t == Append(m, w)
  <2>2. /\ IsLines(C, X) /\ Begins(ur \o v, C) /\ Len(ur \o v) = Len(C) /\ v \in Seq(Symbols)
        /\ Follows(rp, X, t)
    BY <2>1, <1>4
  <2>3. t \in Seq(Words)
    BY <1>2
  <2> HIDE DEF v, X, C, t
  <2>3a. Len(C) \in Len(C) - 1 .. Len(C)
    BY <2>2 DEF IsLines
  <2>4. UpstreamAt(t, "writing", v, ur, rp, C, X)
    BY <1>2, <2>2, <2>3a DEF UpstreamAt
  <2>5. Upstream(t, "writing", v, ur, rp)
    BY <1>2, <2>2, <2>3, <2>4 DEF Upstream
  <2> QED  BY <2>5 DEF t, v
<1>6. Upstream(m, "complete", u \o Stream!Line("[DONE]"), ur, rp)
  <2> DEFINE v == u \o Stream!Line("[DONE]")
             X == Append(E, "[DONE]")
             C == B \o Stream!Line("[DONE]")
  <2>2. /\ IsLines(C, X) /\ Begins(ur \o v, C) /\ Len(ur \o v) = Len(C) /\ v \in Seq(Symbols)
        /\ Follows(rp, X, Append(m, "[DONE]")) /\ Len(X) >= 1
    BY <1>4, WordsAreEvents
  <2> HIDE DEF v, X, C
  <2>3. Len(C) \in Len(C) - 1 .. Len(C)
    BY <2>2 DEF IsLines
  <2>4. UpstreamAt(m, "complete", v, ur, rp, C, X)
    BY <1>2, <2>2, <2>3 DEF UpstreamAt
  <2>5. Upstream(m, "complete", v, ur, rp)
    BY <1>2, <2>2, <2>4 DEF Upstream
  <2> QED  BY <2>5 DEF v
<1>7. Upstream(m, "complete", u \o Stream!Bytes("[DONE]"), ur, rp)
  <2> DEFINE all == u \o Stream!Line("[DONE]")
             v == u \o Stream!Bytes("[DONE]")
             X == Append(E, "[DONE]")
             C == B \o Stream!Line("[DONE]")
  <2>1. /\ IsLines(C, X) /\ Begins(ur \o all, C) /\ Len(ur \o all) = Len(C) /\ all \in Seq(Symbols)
        /\ Follows(rp, X, Append(m, "[DONE]")) /\ Len(X) >= 1
    BY <1>4, WordsAreEvents
  <2>2. Len(all) - 1 \in Nat /\ Taken(v, all, Len(all) - 1)
    <3> DEFINE line == Stream!Line("[DONE]")
               word == Stream!Bytes("[DONE]")
    <3>1. /\ line \in Seq(Symbols) /\ word \in Seq(Symbols) /\ Len(line) = 3 /\ Len(word) = 2
          /\ word[1] = line[1] /\ word[2] = line[2]
      BY LineIs, BytesOfEvents, WordsAreEvents DEF Stream!Line, Stream!Bytes
    <3> HIDE DEF line, word
    <3>2. /\ Len(v) = Len(u) + 2 /\ Len(all) = Len(u) + 3 /\ v \in Seq(Symbols) /\ Len(u) \in Nat
          /\ \A i \in 1 .. Len(u) : v[i] = u[i] /\ all[i] = u[i]
          /\ \A i \in 1 .. 2 : v[Len(u) + i] = word[i]
          /\ \A i \in 1 .. 3 : all[Len(u) + i] = line[i]
      <4>1. v = u \o word /\ all = u \o line
        BY DEF line, word
      <4> HIDE DEF v, all
      <4>2. u \in Seq(Symbols)
        BY <1>2
      <4>3. ASSUME NEW w \in Seq(Symbols), NEW n \in Nat, Len(w) = n
            PROVE  /\ u \o w \in Seq(Symbols) /\ Len(u \o w) = Len(u) + n /\ Len(u) \in Nat
                   /\ \A i \in 1 .. Len(u) : (u \o w)[i] = u[i]
                   /\ \A i \in 1 .. n : (u \o w)[Len(u) + i] = w[i]
        BY <4>2, <4>3, JoinedTo
      <4>4. /\ Len(u \o word) = Len(u) + 2 /\ u \o word \in Seq(Symbols) /\ Len(u) \in Nat
            /\ \A i \in 1 .. Len(u) : (u \o word)[i] = u[i]
            /\ \A i \in 1 .. 2 : (u \o word)[Len(u) + i] = word[i]
        <5>1. 2 \in Nat
          OBVIOUS
        <5> QED  BY ONLY <3>1, <4>3, <5>1, Zenon
      <4>5. /\ Len(u \o line) = Len(u) + 3
            /\ \A i \in 1 .. Len(u) : (u \o line)[i] = u[i]
            /\ \A i \in 1 .. 3 : (u \o line)[Len(u) + i] = line[i]
        <5>1. 3 \in Nat
          OBVIOUS
        <5> QED  BY ONLY <3>1, <4>3, <5>1, Zenon
      <4> QED  BY <4>1, <4>4, <4>5
    <3> HIDE DEF v, all
    <3>3. ASSUME NEW i \in 1 .. Len(u) + 2 PROVE v[i] = all[i]
      <4>1. CASE i <= Len(u)
        BY <3>2, <4>1
      <4>2. CASE i = Len(u) + 1
        BY <3>1, <3>2, <4>2
      <4>3. CASE i = Len(u) + 2
        BY <3>1, <3>2, <4>3
      <4> QED  BY <3>2, <4>1, <4>2, <4>3
    <3> QED  BY <3>2, <3>3 DEF Taken
  <2>3. Len(all) - 1 <= Len(all)
    BY <2>1
  <2> HIDE DEF all, v, X, C
  <2>4. C \in Seq(Symbols)
    BY <2>1 DEF IsLines
  <2>5. Begins(ur \o v, C) /\ Len(ur \o v) = Len(ur) + (Len(all) - 1) /\ v \in Seq(Symbols)
    <3>1. PICK n \in Nat : n = Len(all) - 1
      BY <2>2
    <3>2. ur \in Seq(Symbols) /\ all \in Seq(Symbols) /\ Begins(ur \o all, C) /\ n <= Len(all) /\ Taken(v, all, n)
      BY <1>2, <2>1, <2>2, <2>3, <3>1
    <3>3. Begins(ur \o v, C) /\ Len(ur \o v) = Len(ur) + n /\ v \in Seq(Symbols)
      BY <2>4, <3>2, BeginsLess
    <3> QED  BY <3>1, <3>3
  <2>6. Len(ur \o all) = Len(ur) + Len(all) /\ Len(ur) \in Nat
    BY <1>2, <2>1, Joined
  <2>7. Len(ur \o v) \in Len(C) - 1 .. Len(C)
    BY <2>1, <2>2, <2>5, <2>6
  <2>8. UpstreamAt(m, "complete", v, ur, rp, C, X)
    BY <1>2, <2>1, <2>5, <2>7 DEF UpstreamAt
  <2>9. Upstream(m, "complete", v, ur, rp)
    BY <1>2, <2>5, <2>8 DEF Upstream
  <2> QED  BY <2>9 DEF v
<1> QED  BY <1>5, <1>6, <1>7

\* The connection breaks.
LEMMA UpstreamBreaks ==
    ASSUME NEW m, NEW u, NEW ur, NEW rp, Upstream(m, "writing", u, ur, rp)
    PROVE  Upstream(m, "broken", <<>>, ur, rp)
<1>1. PICK B, E : UpstreamAt(m, "writing", u, ur, rp, B, E)
  BY DEF Upstream
<1>2. /\ u \in Seq(Symbols) /\ ur \in Seq(Symbols) /\ B \in Seq(Symbols) /\ Begins(ur \o u, B)
  BY <1>1 DEF Upstream, UpstreamAt, IsLines
<1>3. <<>> \in Seq(Symbols) /\ 0 \in Nat /\ 0 <= Len(u) /\ Taken(<<>>, u, 0)
  BY <1>2 DEF Taken
<1>4. Begins(ur \o <<>>, B)
  BY <1>2, <1>3, BeginsLess
<1>5. UpstreamAt(m, "broken", <<>>, ur, rp, B, E)
  BY <1>1, <1>4 DEF UpstreamAt
<1> QED  BY <1>3, <1>5 DEF Upstream


\* What is read of the events is in the reply, and the others are still on the way.
LEMMA UpstreamReads ==
    ASSUME NEW m, NEW mo, NEW u, NEW ur, NEW rp, Upstream(m, mo, u, ur, rp), NEW n \in 1 .. Len(u),
           NEW v, Taken(v, u, n), NEW left, Remain(left, u, n),
           NEW cut, cut = Stream!Lines(ur \o v),
           NEW words, words = Stream!Without(Stream!Parsed(cut[1]), "[DONE]")
    PROVE  words \in Seq(Events) /\ Upstream(m, mo, left, cut[2], rp \o words)
<1>1. PICK B, E : UpstreamAt(m, mo, u, ur, rp, B, E)
  BY DEF Upstream
<1>2. /\ m \in Seq(Words) /\ m \in Seq(Events) /\ rp \in Seq(Events) /\ E \in Seq(Events)
      /\ u \in Seq(Symbols) /\ ur \in Seq(Symbols) /\ B \in Seq(Symbols) /\ IsLines(B, E)
      /\ Begins(ur \o u, B)
  BY <1>1, WordsAreEvents DEF Upstream, UpstreamAt, IsLines
<1>3. /\ n \in Nat /\ n <= Len(u) /\ n >= 1 /\ Len(u) \in Nat /\ Len(ur) \in Nat /\ Len(E) \in Nat
      /\ Len(rp) \in Nat
  BY <1>2
<1>4. /\ mo # "broken" /\ Len(ur \o u) \in Len(B) - 1 .. Len(B)
      /\ mo = "writing" => Len(ur \o u) = Len(B)
  <2>1. u # <<>>
    BY <1>3
  <2> QED  BY <1>1, <2>1 DEF UpstreamAt
<1> DEFINE b == ur \o v
<1>5. Begins(b, B) /\ Len(b) = Len(ur) + n
  BY <1>2, <1>3, BeginsLess
<1>6. left \in Seq(Symbols)
  BY DEF Remain
<1>7. cut \in Cuts /\ CutLines(cut, E, Len(b))
  <2>1. cut = Stream!Lines(b)
    OBVIOUS
  <2> HIDE DEF b
  <2> QED  BY <1>2, <1>5, <2>1, LinesRead
<1>8. PICK k \in Nat : CutAt(cut, E, Len(ur) + n, k)
  BY <1>5, <1>7 DEF CutLines
<1> HIDE DEF b
<1>9. /\ k <= Len(E) /\ PartsAre(cut[1], E, k) /\ cut[2] \in Seq(Symbols)
      /\ 3 * k <= Len(ur) + n /\ Len(ur) + n <= 3 * k + 2
  BY <1>7, <1>8 DEF CutAt, Cuts
<1> DEFINE X == SubSeq(E, k + 1, Len(E))
           s == SubSeq(E, 1, k)
<1>10. Stream!Parsed(cut[1]) = s
  BY <1>2, <1>9, ParsedEvents
<1>11. X \in Seq(Events) /\ Len(X) = Len(E) - k
  BY <1>2, <1>9, EventsLeft
<1>x. Later(X, E, k)
  BY <1>2, <1>9, EventsLeft DEF Later
<1>12. s \in Seq(Events) /\ Len(s) = k /\ \A i \in 1 .. k : s[i] = E[i]
  BY <1>2, <1>9, FirstOf
<1>13. PICK C : /\ IsLines(C, X) /\ Begins(cut[2] \o left, C)
                /\ Len(C) = Len(B) - 3 * k /\ Len(cut[2] \o left) = Len(ur \o u) - 3 * k
  <2> HIDE DEF X
  <2>1. /\ IsLines(B, E) /\ ur \in Seq(Symbols) /\ u \in Seq(Symbols) /\ Begins(ur \o u, B)
        /\ n \in Nat /\ n <= Len(u) /\ k \in Nat /\ cut \in Cuts /\ CutAt(cut, E, Len(ur) + n, k)
        /\ Remain(left, u, n) /\ Later(X, E, k)
    BY <1>2, <1>3, <1>7, <1>8, <1>x
  <2>2. LinesStill(X, cut[2] \o left, Len(ur \o u), Len(B), k)
    BY ONLY <2>1, StillLines
  <2> QED  BY <2>2 DEF LinesStill
<1>14. Len(cut[2]) <= 2
  <2>1. RestBetween(cut[2], B, 3 * k, Len(b))
    <3>1. Len(b) \in Nat /\ Len(b) <= Len(B) /\ CutAt(cut, E, Len(b), k)
      BY <1>3, <1>5, <1>8 DEF Begins
    <3> QED  BY <1>2, <1>7, <3>1, LineRests
  <2>2. Len(cut[2]) = Len(b) - 3 * k
    BY <2>1 DEF RestBetween
  <2>3. Len(b) <= 3 * k + 2 /\ Len(b) \in Nat /\ 3 * k \in Nat
    BY <1>3, <1>5, <1>9
  <2> QED  BY ONLY <2>2, <2>3
<1>15. /\ mo = "broken" => left = <<>>
       /\ mo # "broken" => Len(cut[2] \o left) \in Len(C) - 1 .. Len(C)
       /\ mo = "writing" => Len(cut[2] \o left) = Len(C)
  <2>1. /\ Len(C) = Len(B) - 3 * k /\ Len(cut[2] \o left) = Len(ur \o u) - 3 * k
        /\ Len(B) \in Nat /\ 3 * k \in Nat
    BY <1>2, <1>13
  <2> QED  BY ONLY <1>4, <2>1
<1> HIDE DEF X, s
<1>16. ASSUME \A i \in 1 .. k : E[i] # "[DONE]"
       PROVE  words = SubSeq(E, 1, k)
  <2>1. words = SubSeq(s, 1, k)
    <3>1. k \in 0 .. Len(s) /\ \A i \in 1 .. Len(s) : s[i] # "[DONE]" <=> i \in 1 .. k
      BY <1>12, <1>16
    <3>2. words = Stream!Without(s, "[DONE]")
      BY <1>10
    <3> QED  BY <1>12, <3>1, <3>2, WithoutIs
  <2> QED  BY <1>2, <1>9, <2>1, FirstOfFirst DEF s
<1>17. ASSUME \A i \in 1 .. k : E[i] # "[DONE]"
       PROVE  /\ words \in Seq(Events) /\ rp \o words \in Seq(Events)
              /\ \A t \in Seq(Events) : Follows(rp, E, t) => Follows(rp \o words, X, t)
  <2>1. words = SubSeq(E, 1, k)
    BY <1>16, <1>17
  <2>2. words \in Seq(Events)
    BY <1>2, <1>9, <2>1, FirstOf
  <2>3. rp \o words \in Seq(Events)
    BY <1>2, <2>2, EventsJoined
  <2>4. ASSUME NEW t \in Seq(Events), Follows(rp, E, t) PROVE Follows(rp \o words, X, t)
    <3>1. Follows(rp \o SubSeq(E, 1, k), SubSeq(E, k + 1, Len(E)), t)
      BY <1>2, <1>9, <2>4, FollowsOn
    <3> QED  BY <2>1, <3>1 DEF X
  <2> QED  BY <2>2, <2>3, <2>4
<1>18. CASE mo # "complete" /\ Follows(rp, E, m)
  <2>1. \A i \in 1 .. k : E[i] # "[DONE]"
    <3> SUFFICES ASSUME NEW i \in 1 .. k PROVE E[i] # "[DONE]"
      OBVIOUS
    <3>1. i \in 1 .. Len(E) /\ Len(rp) + i \in 1 .. Len(m) /\ m[Len(rp) + i] = E[i]
      BY <1>3, <1>9, <1>18 DEF Follows
    <3> QED  BY <1>2, <3>1, WordsAreEvents
  <2>2. words \in Seq(Events) /\ rp \o words \in Seq(Events) /\ Follows(rp \o words, X, m)
    BY <1>2, <1>17, <1>18, <2>1
  <2>3. UpstreamAt(m, mo, left, cut[2], rp \o words, C, X)
    BY <1>13, <1>14, <1>15, <1>18, <2>2 DEF UpstreamAt
  <2>4. Upstream(m, mo, left, cut[2], rp \o words)
    BY <1>2, <1>6, <1>9, <2>2, <2>3 DEF Upstream
  <2> QED  BY <2>2, <2>4
<1>19. CASE mo = "complete" /\ Len(E) >= 1 /\ Follows(rp, E, Append(m, "[DONE]"))
  <2>1. /\ E[Len(E)] = "[DONE]" /\ Len(m) = Len(rp) + (Len(E) - 1)
        /\ \A i \in 1 .. Len(E) - 1 : E[i] = m[Len(rp) + i]
        /\ rp \o SubSeq(E, 1, Len(E) - 1) = m
    <3>1. rp \in Seq(Events) /\ E \in Seq(Events)
      BY <1>2
    <3>2. m \in Seq(Events) /\ "[DONE]" \in Events
      BY <1>2, WordsAreEvents
    <3> QED  BY ONLY <1>19, <3>1, <3>2, FollowsLast
  <2>2. \A i \in 1 .. Len(E) - 1 : E[i] # "[DONE]"
    <3> SUFFICES ASSUME NEW i \in 1 .. Len(E) - 1 PROVE E[i] # "[DONE]"
      OBVIOUS
    <3>1. Len(rp) + i \in 1 .. Len(m) /\ m[Len(rp) + i] = E[i]
      BY <1>3, <2>1
    <3> QED  BY <1>2, <3>1, WordsAreEvents
  <2>3. CASE k < Len(E)
    <3>1. \A i \in 1 .. k : E[i] # "[DONE]"
      <4>1. \A i \in 1 .. k : i \in 1 .. Len(E) - 1
        BY <1>3, <2>3
      <4> QED  BY <2>2, <4>1
    <3>2. Append(m, "[DONE]") \in Seq(Events)
      BY <1>2, WordsAreEvents
    <3>3. /\ words \in Seq(Events) /\ rp \o words \in Seq(Events)
          /\ Follows(rp \o words, X, Append(m, "[DONE]"))
      BY <1>17, <1>19, <3>1, <3>2
    <3>4. Len(X) >= 1
      BY <1>3, <1>11, <2>3
    <3>5. UpstreamAt(m, mo, left, cut[2], rp \o words, C, X)
      BY <1>13, <1>14, <1>15, <1>19, <3>3, <3>4 DEF UpstreamAt
    <3>6. Upstream(m, mo, left, cut[2], rp \o words)
      BY <1>2, <1>6, <1>9, <3>3, <3>5 DEF Upstream
    <3> QED  BY <3>3, <3>6
  <2>4. CASE k = Len(E)
    <3> DEFINE c == Len(E) - 1
    <3>1. c \in Nat /\ c \in 0 .. Len(s) /\ c <= k
      BY <1>3, <1>12, <1>19, <2>4
    <3>2. \A i \in 1 .. Len(s) : s[i] # "[DONE]" <=> i \in 1 .. c
      <4> SUFFICES ASSUME NEW i \in 1 .. Len(s) PROVE s[i] # "[DONE]" <=> i \in 1 .. c
        OBVIOUS
      <4>1. CASE i = Len(E)
        <5>1. i \notin 1 .. c
          BY <4>1, <1>3
        <5> QED  BY <4>1, <5>1, <1>12, <2>1, <2>4
      <4>2. CASE i # Len(E)
        <5>1. i \in 1 .. c
          BY <4>2, <1>3, <1>12, <2>4
        <5> QED  BY <4>2, <5>1, <1>12, <2>2, <2>4
      <4> QED  BY <4>1, <4>2
    <3>3. words = SubSeq(s, 1, c)
      <4>1. words = Stream!Without(s, "[DONE]")
        BY <1>10
      <4> HIDE DEF c
      <4> QED  BY <1>12, <3>1, <3>2, <4>1, WithoutIs
    <3>4. words = SubSeq(E, 1, c)
      <4> HIDE DEF c
      <4> QED  BY <1>2, <1>9, <3>1, <3>3, FirstOfFirst DEF s
    <3>5. words \in Seq(Events)
      <4>1. c <= Len(E)
        BY <1>3
      <4> HIDE DEF c
      <4> QED  BY <1>2, <3>1, <3>4, <4>1, FirstOf
    <3>6. rp \o words = m
      BY <2>1, <3>4
    <3>7. Len(X) = 0
      BY <1>3, <1>11, <2>4
    <3>8. UpstreamAt(m, mo, left, cut[2], rp \o words, C, X)
      BY <1>13, <1>14, <1>15, <1>19, <3>6, <3>7 DEF UpstreamAt
    <3>9. Upstream(m, mo, left, cut[2], rp \o words)
      BY <1>2, <1>6, <1>9, <3>6, <3>8 DEF Upstream
    <3> QED  BY <3>5, <3>9
  <2> QED  BY <1>3, <1>9, <2>3, <2>4
<1>20. CASE mo = "complete" /\ Len(E) = 0
  <2>1. Len(B) = 0
    BY <1>2, <1>20 DEF IsLines
  <2>2. Len(ur \o u) = Len(ur) + Len(u)
    BY <1>2, Joined
  <2>3. Len(ur \o u) <= Len(B)
    BY <1>2 DEF Begins
  <2> QED  BY <1>3, <2>1, <2>2, <2>3
<1> QED  BY <1>1, <1>18, <1>19, <1>20 DEF UpstreamAt


-----------------------------------------------------------------------------
(* From the reply to the visitor.                                            *)

\* What chat() makes of events.
ErrorIn(events) == Stream!SelectInSeq(events, LAMBDA event : event = "error")
BeforeError(events) == IF ErrorIn(events) = 0 THEN events ELSE SubSeq(events, 1, ErrorIn(events) - 1)
NextShown(sh, events) == sh \o Stream!Without(BeforeError(events), "done")
NextClient(cl, events) ==
    IF ErrorIn(events) # 0 THEN "error"
    ELSE IF Stream!Contains(BeforeError(events), "done") THEN "done" ELSE cl

\* All of a sequence.
LEMMA AllOf ==
    ASSUME NEW s \in Seq(Events)
    PROVE  SubSeq(s, 1, Len(s)) = s
<1> DEFINE t == SubSeq(s, 1, Len(s))
<1>1. Len(s) \in Nat /\ Len(s) <= Len(s)
  OBVIOUS
<1>2. t \in Seq(Events) /\ Len(t) = Len(s) /\ \A i \in 1 .. Len(s) : t[i] = s[i]
  BY <1>1, FirstOf
<1> HIDE DEF t
<1>3. t = s
  BY <1>2, SeqEqual
<1> QED  BY <1>3 DEF t

\* Where an error is.
LEMMA ErrorAt ==
    ASSUME NEW s \in Seq(Events)
    PROVE  /\ (\A i \in 1 .. Len(s) : s[i] # "error") => ErrorIn(s) = 0
           /\ \A k \in 1 .. Len(s) : s[k] = "error" /\ (\A i \in 1 .. Len(s) : i # k => s[i] # "error")
                  => ErrorIn(s) = k
<1> DEFINE I == {i \in 1 .. Len(s) : s[i] = "error"}
<1>1. ErrorIn(s) = IF I # {} THEN Stream!Min(I) ELSE 0
  BY DEF ErrorIn, Stream!SelectInSeq
<1>2. (\A i \in 1 .. Len(s) : s[i] # "error") => I = {}
  OBVIOUS
<1>3. ASSUME NEW k \in 1 .. Len(s), s[k] = "error", \A i \in 1 .. Len(s) : i # k => s[i] # "error"
      PROVE  Stream!Min(I) = k /\ I # {}
  <2>1. I = {k}
    BY <1>3
  <2> HIDE DEF I
  <2>2. \A x \in I : x = k /\ k <= k
    BY <2>1
  <2>3. Stream!Min(I) = CHOOSE x \in I : \A y \in I : x <= y
    BY DEF Stream!Min
  <2>4. k \in I /\ \A y \in I : k <= y
    BY <2>1, <2>2
  <2>5. Stream!Min(I) \in I
    BY <2>3, <2>4
  <2> QED  BY <2>1, <2>2, <2>5
<1> HIDE DEF I
<1> QED  BY <1>1, <1>2, <1>3

\* Events of which none is the last are all handed over.
LEMMA PlainEvents ==
    ASSUME NEW s \in Seq(Events), \A i \in 1 .. Len(s) : s[i] # "done" /\ s[i] # "error",
           NEW sh, NEW cl
    PROVE  NextShown(sh, s) = sh \o s /\ NextClient(cl, s) = cl
<1>1. ErrorIn(s) = 0
  BY ErrorAt
<1>2. BeforeError(s) = s
  BY <1>1 DEF BeforeError
<1>3. Stream!Without(s, "done") = s
  <2>1. Len(s) \in 0 .. Len(s) /\ \A n \in 1 .. Len(s) : s[n] # "done" <=> n \in 1 .. Len(s)
    OBVIOUS
  <2>2. Stream!Without(s, "done") = SubSeq(s, 1, Len(s))
    BY <2>1, WithoutIs
  <2> QED  BY <2>2, AllOf
<1>4. ~ Stream!Contains(s, "done")
  BY DEF Stream!Contains
<1> QED  BY <1>1, <1>2, <1>3, <1>4 DEF NextShown, NextClient

\* The last event is not shown, and tells how the reply ends.
LEMMA LastEvent ==
    ASSUME NEW s \in Seq(Events), NEW c \in Nat, Len(s) = c + 1,
           NEW x \in {"done", "error"}, s[Len(s)] = x,
           \A i \in 1 .. c : s[i] # "done" /\ s[i] # "error", NEW sh, NEW cl
    PROVE  NextShown(sh, s) = sh \o SubSeq(s, 1, c) /\ NextClient(cl, s) = x
<1> DEFINE D == SubSeq(s, 1, c)
<1>0. Len(s) \in Nat /\ c <= Len(s) /\ Len(s) \in 1 .. Len(s) /\ \A i \in 1 .. Len(s) : i # Len(s) => i \in 1 .. c
  OBVIOUS
<1>1. D \in Seq(Events) /\ Len(D) = c /\ \A i \in 1 .. c : D[i] = s[i]
  BY <1>0, FirstOf
<1>2. CASE x = "error"
  <2>1. ErrorIn(s) = Len(s)
    BY <1>0, <1>2, ErrorAt
  <2>2. BeforeError(s) = D
    <3>1. Len(s) # 0 /\ Len(s) - 1 = c
      BY <1>0
    <3> QED  BY <2>1, <3>1 DEF BeforeError
  <2> HIDE DEF D
  <2>3. Stream!Without(D, "done") = D
    <3>1. Len(D) \in 0 .. Len(D) /\ \A n \in 1 .. Len(D) : D[n] # "done" <=> n \in 1 .. Len(D)
      BY <1>1
    <3>2. Stream!Without(D, "done") = SubSeq(D, 1, Len(D))
      BY <1>1, <3>1, WithoutIs
    <3> QED  BY <1>1, <3>2, AllOf
  <2>4. NextShown(sh, s) = sh \o D
    BY <2>2, <2>3 DEF NextShown
  <2>5. NextClient(cl, s) = "error"
    <3>1. ErrorIn(s) # 0
      BY <2>1, <1>0
    <3> QED  BY <3>1 DEF NextClient
  <2> QED  BY <1>2, <2>4, <2>5 DEF D
<1>3. CASE x = "done"
  <2>1. ErrorIn(s) = 0
    <3>1. \A i \in 1 .. Len(s) : s[i] # "error"
      BY <1>0, <1>3
    <3> QED  BY <3>1, ErrorAt
  <2>2. BeforeError(s) = s
    BY <2>1 DEF BeforeError
  <2>3. Stream!Without(s, "done") = D
    <3>1. c \in 0 .. Len(s) /\ \A n \in 1 .. Len(s) : s[n] # "done" <=> n \in 1 .. c
      <4>1. \A n \in 1 .. Len(s) : n \in 1 .. c \/ n = Len(s)
        BY <1>0
      <4>2. Len(s) \notin 1 .. c
        BY <1>0
      <4> QED  BY <1>0, <1>3, <4>1, <4>2
    <3> QED  BY <3>1, WithoutIs
  <2>4. Stream!Contains(s, "done")
    BY <1>0, <1>3 DEF Stream!Contains
  <2>5. NextShown(sh, s) = sh \o D
    BY <2>2, <2>3 DEF NextShown
  <2>6. NextClient(cl, s) = "done"
    BY <2>1, <2>2, <2>4 DEF NextClient
  <2> QED  BY <1>3, <2>5, <2>6
<1> QED  BY <1>2, <1>3


\* What is written to the client and not shown yet: tokens of the reply and, when the
\* server is through, the event that ends it.
ToShow(ends, ap, rp, D, sh) ==
    \/ ap \in {"streaming", "cut"} /\ Follows(sh, D, rp)
    \/ ap # "streaming" /\ Len(D) >= 1 /\ \E x \in ends : Follows(sh, D, Append(rp, x))

\* What is written and not read are the frames of the events D, of which a cut response
\* lost some.
DownstreamAt(ends, ap, rp, d, dr, sh, F, D) ==
    /\ IsFrames(F, D) /\ Begins(dr \o d, F) /\ Len(dr) <= 3
    /\ ap # "cut" => Len(dr \o d) = Len(F)
    /\ ToShow(ends, ap, rp, D, sh)
Downstream(ends, ap, rp, d, dr, sh, cl) ==
    /\ d \in Seq(Symbols) /\ dr \in Seq(Symbols) /\ sh \in Seq(Events) /\ rp \in Seq(Words)
    /\ ends \subseteq {"done", "error"}
    /\ cl = "reading" => \E F, D : DownstreamAt(ends, ap, rp, d, dr, sh, F, D)
    /\ cl # "reading" => sh = rp /\ ap # "streaming" /\ d = <<>> /\ dr = <<>> /\ cl \in ends

\* The first k events of D are handed over: the others are still to be shown, or the
\* reply has ended.
HandedOver(ends, ap, rp, D, k, sh, cl) ==
    \/ /\ cl = "reading" /\ sh \in Seq(Events)
       /\ \E X : Later(X, D, k) /\ ToShow(ends, ap, rp, X, sh)
    \/ k = Len(D) /\ sh = rp /\ cl \in ends /\ ap # "streaming"

\* What is handed over is shown, and an event that ends the reply is the last.
LEMMA EventsHandedOver ==
    ASSUME NEW ends, ends \subseteq {"done", "error"}, NEW ap, NEW rp \in Seq(Words),
           NEW D \in Seq(Events), NEW sh \in Seq(Events), ToShow(ends, ap, rp, D, sh),
           NEW k \in Nat, k <= Len(D), NEW s, s = SubSeq(D, 1, k)
    PROVE  HandedOver(ends, ap, rp, D, k, NextShown(sh, s), NextClient("reading", s))
<1>1. /\ rp \in Seq(Events) /\ \A i \in 1 .. Len(rp) : rp[i] \in Words
      /\ Len(rp) \in Nat /\ Len(sh) \in Nat /\ Len(D) \in Nat
  BY WordsAreEvents
<1>2. s \in Seq(Events) /\ Len(s) = k /\ \A i \in 1 .. k : s[i] = D[i]
  BY FirstOf
<1> DEFINE X == SubSeq(D, k + 1, Len(D))
           new == NextShown(sh, s)
           next == NextClient("reading", s)
<1>3. Later(X, D, k)
  BY EventsLeft DEF Later
<1>4. ASSUME \A i \in 1 .. k : D[i] # "done" /\ D[i] # "error"
      PROVE  /\ new = sh \o s /\ next = "reading" /\ new \in Seq(Events)
             /\ \A t \in Seq(Events) : Follows(sh, D, t) => Follows(new, X, t)
  <2>1. \A i \in 1 .. Len(s) : s[i] # "done" /\ s[i] # "error"
    BY <1>2, <1>4
  <2>2. new = sh \o s /\ next = "reading"
    BY <1>2, <2>1, PlainEvents
  <2>3. new \in Seq(Events)
    BY <1>2, <2>2, EventsJoined
  <2>4. ASSUME NEW t \in Seq(Events), Follows(sh, D, t) PROVE Follows(new, X, t)
    <3>1. Follows(sh \o SubSeq(D, 1, k), SubSeq(D, k + 1, Len(D)), t)
      BY <2>4, FollowsOn
    <3> QED  BY <2>2, <3>1
  <2> QED  BY <2>2, <2>3, <2>4
<1>5. CASE ap \in {"streaming", "cut"} /\ Follows(sh, D, rp)
  <2>1. \A i \in 1 .. k : D[i] # "done" /\ D[i] # "error"
    <3> SUFFICES ASSUME NEW i \in 1 .. k PROVE D[i] # "done" /\ D[i] # "error"
      OBVIOUS
    <3>1. i \in 1 .. Len(D) /\ Len(sh) + i \in 1 .. Len(rp) /\ rp[Len(sh) + i] = D[i]
      BY <1>1, <1>5 DEF Follows
    <3> QED  BY <1>1, <3>1, WordsAreEvents
  <2>2. next = "reading" /\ new \in Seq(Events) /\ Follows(new, X, rp)
    BY <1>1, <1>4, <1>5, <2>1
  <2> HIDE DEF X, new, next
  <2>3. ToShow(ends, ap, rp, X, new)
    BY <1>5, <2>2 DEF ToShow
  <2>4. HandedOver(ends, ap, rp, D, k, new, next)
    BY <1>3, <2>2, <2>3 DEF HandedOver
  <2> QED  BY <2>4 DEF new, next
<1>6. CASE ap # "streaming" /\ Len(D) >= 1 /\ \E x \in ends : Follows(sh, D, Append(rp, x))
  <2>1. PICK x \in ends : Follows(sh, D, Append(rp, x))
    BY <1>6
  <2>2. x \in {"done", "error"} /\ x \in Events
    BY WordsAreEvents
  <2> DEFINE c == Len(D) - 1
  <2>3. /\ D[Len(D)] = x /\ Len(rp) = Len(sh) + c
        /\ \A i \in 1 .. c : D[i] = rp[Len(sh) + i]
        /\ sh \o SubSeq(D, 1, c) = rp
    BY <1>1, <1>6, <2>1, <2>2, FollowsLast
  <2>4. c \in Nat /\ Len(D) = c + 1
    BY <1>1, <1>6
  <2> HIDE DEF c
  <2>5. \A i \in 1 .. c : D[i] # "done" /\ D[i] # "error"
    <3> SUFFICES ASSUME NEW i \in 1 .. c PROVE D[i] # "done" /\ D[i] # "error"
      OBVIOUS
    <3>1. Len(sh) + i \in 1 .. Len(rp) /\ rp[Len(sh) + i] = D[i]
      BY <1>1, <2>3, <2>4
    <3> QED  BY <1>1, <3>1, WordsAreEvents
  <2>6. CASE k < Len(D)
    <3>1. \A i \in 1 .. k : D[i] # "done" /\ D[i] # "error"
      <4>1. \A i \in 1 .. k : i \in 1 .. c
        BY <1>1, <2>4, <2>6
      <4> QED  BY <2>5, <4>1
    <3>2. Append(rp, x) \in Seq(Events)
      BY <1>1, <2>2
    <3>3. next = "reading" /\ new \in Seq(Events) /\ Follows(new, X, Append(rp, x))
      BY <1>4, <2>1, <3>1, <3>2
    <3>4. Len(X) >= 1
      BY <1>1, <1>3, <2>6 DEF Later
    <3> HIDE DEF X, new, next
    <3>5. ToShow(ends, ap, rp, X, new)
      BY <1>6, <3>3, <3>4 DEF ToShow
    <3>6. HandedOver(ends, ap, rp, D, k, new, next)
      BY <1>3, <3>3, <3>5 DEF HandedOver
    <3> QED  BY <3>6 DEF new, next
  <2>7. CASE k = Len(D)
    <3>1. Len(s) = c + 1 /\ s[Len(s)] = x
      <4>1. Len(D) \in 1 .. k
        BY <1>1, <1>6, <2>7
      <4> QED  BY <1>2, <2>3, <2>4, <2>7, <4>1
    <3>2. \A i \in 1 .. c : s[i] # "done" /\ s[i] # "error"
      <4>1. \A i \in 1 .. c : i \in 1 .. k
        BY <1>1, <2>4, <2>7
      <4> QED  BY <1>2, <2>5, <4>1
    <3>3. new = sh \o SubSeq(s, 1, c) /\ next = x
      <4>1. /\ s \in Seq(Events) /\ c \in Nat /\ Len(s) = c + 1 /\ x \in {"done", "error"}
            /\ s[Len(s)] = x /\ \A i \in 1 .. c : s[i] # "done" /\ s[i] # "error"
        BY <1>2, <2>2, <2>4, <3>1, <3>2
      <4> QED  BY ONLY <4>1, LastEvent
    <3>4. SubSeq(s, 1, c) = SubSeq(D, 1, c)
      <4>1. c <= k
        BY <2>4, <2>7
      <4> QED  BY <2>4, <4>1, FirstOfFirst
    <3>5. new = rp /\ next = x
      BY <2>3, <3>3, <3>4
    <3> HIDE DEF new, next
    <3>6. HandedOver(ends, ap, rp, D, k, new, next)
      BY <1>6, <2>7, <3>5 DEF HandedOver
    <3> QED  BY <3>6 DEF new, next
  <2> QED  BY <1>1, <2>6, <2>7
<1> QED  BY <1>5, <1>6 DEF ToShow


\* At first nothing is written.
LEMMA DownstreamStarts ==
    Downstream({}, "streaming", <<>>, <<>>, <<>>, <<>>, "reading")
<1>1. /\ <<>> \in Seq(Words) /\ <<>> \in Seq(Symbols) /\ <<>> \in Seq(Events) /\ Len(<<>>) = 0
      /\ 1 .. 0 = {} /\ <<>> \o <<>> = <<>>
  OBVIOUS
<1>2. IsFrames(<<>>, <<>>)
  BY <1>1 DEF IsFrames
<1>3. Begins(<<>> \o <<>>, <<>>) /\ Follows(<<>>, <<>>, <<>>)
  BY <1>1 DEF Begins, Follows
<1>4. DownstreamAt({}, "streaming", <<>>, <<>>, <<>>, <<>>, <<>>, <<>>)
  BY <1>1, <1>2, <1>3 DEF DownstreamAt, ToShow
<1> QED  BY <1>1, <1>4 DEF Downstream

\* More ends are possible.
LEMMA DownstreamMore ==
    ASSUME NEW ends, NEW more, ends \subseteq more, more \subseteq {"done", "error"},
           NEW ap, NEW rp, NEW d, NEW dr, NEW sh, NEW cl, Downstream(ends, ap, rp, d, dr, sh, cl)
    PROVE  Downstream(more, ap, rp, d, dr, sh, cl)
<1>1. ASSUME NEW F, NEW D, DownstreamAt(ends, ap, rp, d, dr, sh, F, D)
      PROVE  DownstreamAt(more, ap, rp, d, dr, sh, F, D)
  BY <1>1 DEF DownstreamAt, ToShow
<1> QED  BY <1>1 DEF Downstream

\* Tokens of the reply are written.
LEMMA DownstreamGrows ==
    ASSUME NEW ends, NEW more, more \subseteq {"done", "error"},
           NEW rp, NEW d, NEW dr, NEW sh, NEW cl, Downstream(ends, "streaming", rp, d, dr, sh, cl),
           NEW words \in Seq(Events), rp \o words \in Seq(Words)
    PROVE  Downstream(more, "streaming", rp \o words, Stream!Loop(words, d, Stream!Write), dr, sh, cl)
<1>1. cl = "reading" /\ d \in Seq(Symbols) /\ dr \in Seq(Symbols) /\ sh \in Seq(Events) /\ rp \in Seq(Events)
  BY WordsAreEvents DEF Downstream
<1>2. PICK F, D : DownstreamAt(ends, "streaming", rp, d, dr, sh, F, D)
  BY <1>1 DEF Downstream
<1>3. /\ IsFrames(F, D) /\ Begins(dr \o d, F) /\ Len(dr) <= 3 /\ Len(dr \o d) = Len(F)
      /\ Follows(sh, D, rp) /\ D \in Seq(Events) /\ F \in Seq(Symbols)
  BY <1>2 DEF DownstreamAt, ToShow, IsFrames
<1>4. dr \o d = F
  <2>1. dr \o d \in Seq(Symbols)
    BY <1>1, Joined
  <2> QED  BY <1>3, <2>1, BeginsAll
<1> DEFINE new == Stream!Loop(words, d, Stream!Write)
           G == dr \o new
           X == D \o words
           t == rp \o words
<1>5. new \in Seq(Symbols) /\ IsFrames(G, X)
  <2>1. IsFrames(dr \o d, D)
    BY <1>3, <1>4
  <2> QED  BY <1>1, <2>1, AllWritten
<1>6. Follows(sh, X, t)
  BY <1>1, <1>3, FollowsMore
<1> HIDE DEF new, X, t
<1>7. G \in Seq(Symbols)
  BY <1>1, <1>5, Joined
<1>8. Begins(G, G)
  <2> HIDE DEF G
  <2> QED  BY <1>7 DEF Begins
<1>9. DownstreamAt(more, "streaming", t, new, dr, sh, G, X)
  BY <1>3, <1>5, <1>6, <1>8 DEF DownstreamAt, ToShow
<1>10. t \in Seq(Words)
  BY DEF t
<1>11. Downstream(more, "streaming", t, new, dr, sh, cl)
  BY <1>1, <1>5, <1>9, <1>10 DEF Downstream
<1> QED  BY <1>11 DEF t, new

\* The event that ends the reply is written.
LEMMA DownstreamEnds ==
    ASSUME NEW ends, ends \subseteq {"done", "error"}, NEW x \in ends, NEW ap, ap \notin {"streaming", "cut"},
           NEW rp, NEW d, NEW dr, NEW sh, NEW cl, Downstream(ends, "streaming", rp, d, dr, sh, cl)
    PROVE  Downstream(ends, ap, rp, Stream!Write(d, x), dr, sh, cl)
<1>1. /\ cl = "reading" /\ d \in Seq(Symbols) /\ dr \in Seq(Symbols) /\ sh \in Seq(Events)
      /\ rp \in Seq(Events) /\ rp \in Seq(Words) /\ x \in Events
  BY WordsAreEvents DEF Downstream
<1>2. PICK F, D : DownstreamAt(ends, "streaming", rp, d, dr, sh, F, D)
  BY <1>1 DEF Downstream
<1>3. /\ IsFrames(F, D) /\ Begins(dr \o d, F) /\ Len(dr) <= 3 /\ Len(dr \o d) = Len(F)
      /\ Follows(sh, D, rp) /\ D \in Seq(Events) /\ F \in Seq(Symbols)
  BY <1>2 DEF DownstreamAt, ToShow, IsFrames
<1>4. dr \o d = F
  <2>1. dr \o d \in Seq(Symbols)
    BY <1>1, Joined
  <2> QED  BY <1>3, <2>1, BeginsAll
<1> DEFINE frame == Stream!Frame(x)
           new == d \o frame
           X == Append(D, x)
           G == F \o frame
<1>5. IsFrames(G, X)
  BY <1>1, <1>3, FramesWritten
<1>6. Follows(sh, X, Append(rp, x))
  BY <1>1, <1>3, FollowsOne
<1>7. Len(X) >= 1
  BY <1>3
<1>8. frame \in Seq(Symbols)
  BY <1>1, FrameIs
<1>9. new = Stream!Write(d, x)
  BY DEF Stream!Write
<1> HIDE DEF frame, X
<1>10. new \in Seq(Symbols) /\ G \in Seq(Symbols)
  BY <1>1, <1>3, <1>8, Joined
<1>11. dr \o new = G
  <2>1. (dr \o d) \o frame = dr \o (d \o frame)
    BY <1>1, <1>8, Rejoined
  <2> QED  BY <1>4, <2>1
<1> HIDE DEF new, G
<1>12. Begins(G, G)
  BY <1>10 DEF Begins
<1>13. DownstreamAt(ends, ap, rp, new, dr, sh, G, X)
  BY <1>3, <1>5, <1>6, <1>7, <1>11, <1>12 DEF DownstreamAt, ToShow
<1>14. Downstream(ends, ap, rp, new, dr, sh, cl)
  BY <1>1, <1>10, <1>13 DEF Downstream
<1> QED  BY <1>9, <1>14

\* The response is cut.
LEMMA DownstreamCut ==
    ASSUME NEW ends, NEW ap, NEW rp, NEW d, NEW dr, NEW sh, Downstream(ends, ap, rp, d, dr, sh, "reading"),
           NEW n \in Nat, n <= Len(d), NEW v, Taken(v, d, n)
    PROVE  Downstream(ends, "cut", rp, v, dr, sh, "reading")
<1>1. d \in Seq(Symbols) /\ dr \in Seq(Symbols)
  BY DEF Downstream
<1>2. PICK F, D : DownstreamAt(ends, ap, rp, d, dr, sh, F, D)
  BY DEF Downstream
<1>3. F \in Seq(Symbols) /\ Begins(dr \o d, F)
  BY <1>2 DEF DownstreamAt, IsFrames
<1>4. v \in Seq(Symbols) /\ Begins(dr \o v, F)
  BY <1>1, <1>3, BeginsLess
<1>5. ToShow(ends, "cut", rp, D, sh)
  BY <1>2 DEF DownstreamAt, ToShow
<1>6. DownstreamAt(ends, "cut", rp, v, dr, sh, F, D)
  BY <1>2, <1>4, <1>5 DEF DownstreamAt
<1> QED  BY <1>4, <1>6 DEF Downstream


\* What is read of the events is shown, and the others are still on the way.
LEMMA DownstreamReads ==
    ASSUME NEW ends, NEW ap, NEW rp, NEW d, NEW dr, NEW sh, NEW cl,
           Downstream(ends, ap, rp, d, dr, sh, cl), NEW n \in 1 .. Len(d),
           NEW v, Taken(v, d, n), NEW left, Remain(left, d, n),
           NEW cut, cut = Stream!Frames(dr \o v),
           NEW events, events = Stream!Parsed(cut[1])
    PROVE  Downstream(ends, ap, rp, left, cut[2], NextShown(sh, events), NextClient(cl, events))
<1>1. /\ d \in Seq(Symbols) /\ dr \in Seq(Symbols) /\ sh \in Seq(Events) /\ rp \in Seq(Words)
      /\ ends \subseteq {"done", "error"} /\ cl = "reading"
  <2>1. d # <<>>
    OBVIOUS
  <2> QED  BY <2>1 DEF Downstream
<1>2. PICK F, D : DownstreamAt(ends, ap, rp, d, dr, sh, F, D)
  BY <1>1 DEF Downstream
<1>3. /\ IsFrames(F, D) /\ Begins(dr \o d, F) /\ D \in Seq(Events) /\ F \in Seq(Symbols)
      /\ Len(F) = 4 * Len(D) /\ ToShow(ends, ap, rp, D, sh)
      /\ ap # "cut" => Len(dr \o d) = Len(F)
  BY <1>2 DEF DownstreamAt, IsFrames
<1>4. n \in Nat /\ n <= Len(d) /\ n >= 1 /\ Len(d) \in Nat /\ Len(dr) \in Nat /\ Len(D) \in Nat
  BY <1>1, <1>3
<1> DEFINE b == dr \o v
<1>5. Begins(b, F) /\ Len(b) = Len(dr) + n
  BY <1>1, <1>3, <1>4, BeginsLess
<1>6. left \in Seq(Symbols)
  BY DEF Remain
<1>7. cut \in Cuts /\ CutFrames(cut, D, Len(b))
  <2>1. cut = Stream!Frames(b)
    OBVIOUS
  <2> HIDE DEF b
  <2> QED  BY <1>3, <1>5, <2>1, FramesRead
<1>8. PICK k \in Nat : CutFrameAt(cut, D, Len(dr) + n, k)
  BY <1>5, <1>7 DEF CutFrames
<1> HIDE DEF b
<1>9. /\ k <= Len(D) /\ PartsAre(cut[1], D, k) /\ cut[2] \in Seq(Symbols)
      /\ 4 * k <= Len(dr) + n /\ Len(dr) + n <= 4 * k + 3
  BY <1>7, <1>8 DEF CutFrameAt, Cuts
<1>10. events = SubSeq(D, 1, k)
  BY <1>3, <1>9, ParsedEvents
<1>11. ASSUME NEW X, Later(X, D, k)
       PROVE  \E C : /\ IsFrames(C, X) /\ Begins(cut[2] \o left, C)
                     /\ Len(C) = Len(F) - 4 * k /\ Len(cut[2] \o left) = Len(dr \o d) - 4 * k
  <2>1. /\ IsFrames(F, D) /\ dr \in Seq(Symbols) /\ d \in Seq(Symbols) /\ Begins(dr \o d, F)
        /\ n \in Nat /\ n <= Len(d) /\ k \in Nat /\ cut \in Cuts /\ CutFrameAt(cut, D, Len(dr) + n, k)
        /\ Remain(left, d, n) /\ Later(X, D, k)
    BY <1>1, <1>3, <1>4, <1>7, <1>8, <1>11
  <2>2. FramesStill(X, cut[2] \o left, Len(dr \o d), Len(F), k)
    BY ONLY <2>1, StillFrames
  <2> QED  BY <2>2 DEF FramesStill
<1>12. Len(cut[2]) <= 3
  <2>1. RestBetween(cut[2], F, 4 * k, Len(b))
    <3>1. Len(b) \in Nat /\ Len(b) <= Len(F) /\ CutFrameAt(cut, D, Len(b), k)
      BY <1>4, <1>5, <1>8 DEF Begins
    <3> QED  BY <1>3, <1>7, <3>1, FrameRests
  <2>2. Len(cut[2]) = Len(b) - 4 * k
    BY <2>1 DEF RestBetween
  <2>3. Len(b) <= 4 * k + 3 /\ Len(b) \in Nat /\ 4 * k \in Nat
    BY <1>4, <1>5, <1>9
  <2> QED  BY ONLY <2>2, <2>3
<1> DEFINE new == NextShown(sh, events)
           next == NextClient(cl, events)
<1>13. HandedOver(ends, ap, rp, D, k, new, next)
  <2>1. HandedOver(ends, ap, rp, D, k, NextShown(sh, events), NextClient("reading", events))
    <3>1. k \in Nat /\ k <= Len(D) /\ events = SubSeq(D, 1, k)
      BY <1>9, <1>10
    <3> QED  BY <1>1, <1>3, <3>1, EventsHandedOver
  <2>2. new = NextShown(sh, events) /\ next = NextClient("reading", events)
    <3>1. cl = "reading"
      BY <1>1
    <3> QED  BY ONLY <3>1 DEF new, next
  <2> HIDE DEF new, next
  <2> QED  BY <2>1, <2>2
<1> HIDE DEF new, next
<1>14. CASE next = "reading" /\ new \in Seq(Events) /\ \E X : Later(X, D, k) /\ ToShow(ends, ap, rp, X, new)
  <2>1. PICK X : Later(X, D, k) /\ ToShow(ends, ap, rp, X, new)
    BY <1>14
  <2>2. PICK C : /\ IsFrames(C, X) /\ Begins(cut[2] \o left, C)
                 /\ Len(C) = Len(F) - 4 * k /\ Len(cut[2] \o left) = Len(dr \o d) - 4 * k
    BY <1>11, <2>1
  <2>3. ap # "cut" => Len(cut[2] \o left) = Len(C)
    BY <1>3, <2>2
  <2>4. DownstreamAt(ends, ap, rp, left, cut[2], new, C, X)
    BY <1>12, <2>1, <2>2, <2>3 DEF DownstreamAt
  <2>5. Downstream(ends, ap, rp, left, cut[2], new, next)
    BY <1>1, <1>6, <1>9, <1>14, <2>4 DEF Downstream
  <2> QED  BY <2>5 DEF new, next
<1>15. CASE k = Len(D) /\ new = rp /\ next \in ends /\ ap # "streaming"
  <2>1. PICK X : Later(X, D, k)
    <3>1. Later(SubSeq(D, k + 1, Len(D)), D, k)
      BY <1>3, <1>9, EventsLeft DEF Later
    <3> QED  BY <3>1
  <2>2. PICK C : /\ IsFrames(C, X) /\ Begins(cut[2] \o left, C)
                 /\ Len(C) = Len(F) - 4 * k /\ Len(cut[2] \o left) = Len(dr \o d) - 4 * k
    BY <1>11, <2>1
  <2>3. /\ cut[2] \o left \in Seq(Symbols) /\ Len(cut[2] \o left) = Len(cut[2]) + Len(left)
        /\ Len(cut[2]) \in Nat /\ Len(left) \in Nat
    BY <1>6, <1>9, Joined
  <2>4. Len(cut[2] \o left) <= Len(C) /\ Len(C) = 0
    BY <1>3, <1>4, <1>15, <2>2 DEF Begins
  <2>5. Len(cut[2]) = 0 /\ Len(left) = 0
    BY <2>3, <2>4
  <2>6. cut[2] = <<>> /\ left = <<>>
    BY <1>6, <1>9, <2>5, EmptySeq
  <2>7. next # "reading" /\ new \in Seq(Events)
    BY <1>1, <1>15, WordsAreEvents
  <2>8. <<>> \in Seq(Symbols)
    BY EmptySeq
  <2>9. Downstream(ends, ap, rp, left, cut[2], new, next)
    BY <1>1, <1>15, <2>6, <2>7, <2>8 DEF Downstream
  <2> QED  BY <2>9 DEF new, next
<1> QED  BY <1>13, <1>14, <1>15 DEF HandedOver


\* What is left when the response ends is read as a frame: two or more of its symbols
\* are its event, and one is nothing.
LEMMA DownstreamEndsEarly ==
    ASSUME NEW ends, NEW ap, ap # "streaming", NEW rp, NEW dr, dr # <<>>, NEW sh, NEW cl,
           Downstream(ends, ap, rp, <<>>, dr, sh, cl),
           NEW events, events = Stream!Parsed(Stream!Frames(dr \o <<Stream!Newline, Stream!Newline>>)[1])
    PROVE  Downstream(ends, ap, rp, <<>>, <<>>, NextShown(sh, events), NextClient(cl, events))
<1>1. /\ dr \in Seq(Symbols) /\ sh \in Seq(Events) /\ rp \in Seq(Words)
      /\ ends \subseteq {"done", "error"}
  BY DEF Downstream
<1>c. cl = "reading"
  BY DEF Downstream
<1>2. PICK F, D : DownstreamAt(ends, ap, rp, <<>>, dr, sh, F, D)
  BY <1>c DEF Downstream
<1>3. dr \o <<>> = dr
  BY <1>1
<1>4. /\ IsFrames(F, D) /\ Begins(dr, F) /\ D \in Seq(Events) /\ F \in Seq(Symbols)
      /\ Len(F) = 4 * Len(D) /\ ToShow(ends, ap, rp, D, sh) /\ Len(dr) <= 3
      /\ ap # "cut" => Len(dr) = Len(F)
  BY <1>2, <1>3 DEF DownstreamAt, IsFrames
<1>5. Len(dr) \in Nat /\ Len(D) \in Nat /\ Len(dr) <= Len(F) /\ Len(dr) # 0
  <2>1. Len(dr) # 0
    BY <1>1, EmptySeq
  <2> QED  BY <1>1, <1>4, <2>1 DEF Begins
<1>6. Len(D) >= 1 /\ Len(dr) \in 1 .. 3
  <2>1. /\ Len(dr) \in Nat /\ Len(D) \in Nat /\ Len(dr) <= 4 * Len(D) /\ Len(dr) # 0
        /\ Len(dr) <= 3
    BY <1>4, <1>5
  <2>2. \A m, l \in Nat : m <= 4 * l /\ m # 0 /\ m <= 3 => l >= 1 /\ m >= 1
    OBVIOUS
  <2>3. Len(D) >= 1 /\ Len(dr) >= 1
    BY ONLY <2>1, <2>2
  <2>4. \A m \in Nat : m >= 1 /\ m <= 3 => m \in 1 .. 3
    OBVIOUS
  <2> QED  BY ONLY <2>1, <2>3, <2>4
<1>7. ap = "cut"
  BY <1>4, <1>6
<1> DEFINE e == D[1]
           a == <<e, 1>>
           c == <<e, 2>>
<1>8. e \in Events
  BY <1>4, <1>6
<1>9. a \in Symbols /\ c \in Symbols /\ a # Stream!Newline /\ c # Stream!Newline
  BY <1>8, BytesOfEvents DEF Symbols
<1>10. /\ dr[1] = a
       /\ Len(dr) >= 2 => dr[2] = c
       /\ Len(dr) = 3 => dr[3] = Stream!Newline
  <2>1. 1 \in 1 .. Len(D)
    BY <1>5, <1>6
  <2>2. F[4 * 1 - 3] = <<D[1], 1>> /\ F[4 * 1 - 2] = <<D[1], 2>> /\ F[4 * 1 - 1] = Stream!Newline
    BY <1>4, <2>1 DEF IsFrames
  <2>3. F[1] = a /\ F[2] = c /\ F[3] = Stream!Newline
    BY <2>2
  <2>4. \A i \in 1 .. Len(dr) : dr[i] = F[i]
    BY <1>4 DEF Begins
  <2> HIDE DEF a, c, e
  <2>5. 1 \in 1 .. Len(dr)
    BY <1>6
  <2>6. Len(dr) >= 2 => 2 \in 1 .. Len(dr)
    BY <1>5
  <2>7. Len(dr) = 3 => 3 \in 1 .. Len(dr)
    OBVIOUS
  <2> QED  BY <2>3, <2>4, <2>5, <2>6, <2>7
<1> HIDE DEF a, c
<1> DEFINE t == <<Stream!Newline, Stream!Newline>>
           b == dr \o t
<1>11. Stream!Newline \in Symbols
  BY DEF Symbols
<1>12. t \in Seq(Symbols) /\ Len(t) = 2 /\ t[1] = Stream!Newline /\ t[2] = Stream!Newline
  <2>1. t \in Seq(Symbols)
    BY <1>11, Short
  <2> QED  BY <2>1
<1> HIDE DEF t
<1>13. /\ b \in Seq(Symbols) /\ Len(b) = Len(dr) + 2
       /\ \A i \in 1 .. Len(dr) : b[i] = dr[i]
       /\ b[Len(dr) + 1] = Stream!Newline /\ b[Len(dr) + 2] = Stream!Newline
  <2>1. /\ b \in Seq(Symbols) /\ Len(b) = Len(dr) + Len(t)
        /\ \A i \in 1 .. Len(dr) : b[i] = dr[i]
        /\ \A i \in 1 .. Len(t) : b[Len(dr) + i] = t[i]
    BY <1>1, <1>12, Joined
  <2>2. 1 \in 1 .. Len(t) /\ 2 \in 1 .. Len(t)
    BY <1>12
  <2> QED  BY <1>12, <2>1, <2>2
<1>14. events = Stream!Parsed(Stream!Frames(b)[1])
  BY DEF b, t
<1> HIDE DEF b
<1>15. /\ Len(b) \in 3 .. 5 /\ b[1] = a
       /\ Len(b) # 3 => b[2] = c
       /\ Len(b) = 3 => b[2] = Stream!Newline
       /\ \A i \in 3 .. Len(b) : b[i] = Stream!Newline
  <2>1. CASE Len(dr) = 1
    <3>1. 1 \in 1 .. Len(dr) /\ Len(b) = 3 /\ 3 .. 3 = {3}
      BY <1>13, <2>1
    <3>2. b[2] = Stream!Newline /\ b[3] = Stream!Newline /\ b[1] = a
      BY <1>10, <1>13, <2>1, <3>1
    <3> QED  BY <3>1, <3>2
  <2>2. CASE Len(dr) = 2
    <3>1. 1 \in 1 .. Len(dr) /\ 2 \in 1 .. Len(dr) /\ Len(b) = 4 /\ 3 .. 4 = {3, 4}
      BY <1>13, <2>2
    <3>2. b[3] = Stream!Newline /\ b[4] = Stream!Newline /\ b[1] = a /\ b[2] = c
      BY <1>10, <1>13, <2>2, <3>1
    <3> QED  BY <3>1, <3>2
  <2>3. CASE Len(dr) = 3
    <3>1. 1 \in 1 .. Len(dr) /\ 2 \in 1 .. Len(dr) /\ 3 \in 1 .. Len(dr) /\ Len(b) = 5 /\ 3 .. 5 = {3, 4, 5}
      BY <1>13, <2>3
    <3>2. /\ b[3] = Stream!Newline /\ b[4] = Stream!Newline /\ b[5] = Stream!Newline
          /\ b[1] = a /\ b[2] = c
      BY <1>10, <1>13, <2>3, <3>1
    <3> QED  BY <3>1, <3>2
  <2> QED  BY <1>6, <2>1, <2>2, <2>3
<1>16. Stream!Frames(b)[1] = IF Len(b) = 3 THEN <<<<a>>>> ELSE <<<<a, c>>>>
  BY ONLY <1>9, <1>13, <1>15, LastFrame
<1> DEFINE new == NextShown(sh, events)
           next == NextClient("reading", events)
<1>17. <<>> \in Seq(Symbols) /\ <<>> \in Seq(Events) /\ Len(<<>>) = 0 /\ 1 .. 0 = {} /\ <<>> \o <<>> = <<>>
  OBVIOUS
<1>18. ASSUME NEW C \in Seq(Symbols) PROVE Begins(<<>> \o <<>>, C)
  BY <1>17 DEF Begins
<1>19. CASE Len(dr) = 1
  <2>1. events = <<>>
    <3>1. Stream!Frames(b)[1] = <<<<a>>>>
      BY <1>13, <1>16, <1>19
    <3> QED  BY <1>9, <1>14, <3>1, ParsedNothing
  <2>2. new = sh \o <<>> /\ next = "reading"
    <3>1. \A i \in 1 .. Len(events) : events[i] # "done" /\ events[i] # "error"
      BY <1>17, <2>1
    <3>2. events \in Seq(Events)
      BY <1>17, <2>1
    <3>3. NextShown(sh, events) = sh \o events /\ NextClient("reading", events) = "reading"
      BY ONLY <3>1, <3>2, PlainEvents
    <3> QED  BY <2>1, <3>3
  <2>3. sh \o <<>> = sh
    BY <1>1
  <2> HIDE DEF new, next
  <2>4. Begins(<<>> \o <<>>, F)
    BY <1>4, <1>18
  <2>5. DownstreamAt(ends, ap, rp, <<>>, <<>>, new, F, D)
    BY <1>4, <1>7, <1>17, <2>2, <2>3, <2>4 DEF DownstreamAt
  <2>6. Downstream(ends, ap, rp, <<>>, <<>>, new, next)
    BY <1>1, <1>17, <2>2, <2>3, <2>5 DEF Downstream
  <2> QED  BY <1>c, <2>6 DEF new, next
<1>20. CASE Len(dr) # 1
  <2>1. events = SubSeq(D, 1, 1)
    <3>1. Stream!Frames(b)[1] = <<<<a, c>>>>
      <4>1. Len(b) # 3
        <5>1. Len(b) = Len(dr) + 2
          BY <1>13
        <5>2. Len(dr) \in Nat
          BY <1>6
        <5>3. \A x \in Nat : x # 1 => x + 2 # 3
          OBVIOUS
        <5> QED  BY ONLY <5>1, <5>2, <5>3, <1>20
      <4> QED  BY <1>16, <4>1
    <3>2. <<a, c>> = Stream!Bytes(D[1])
      BY DEF a, c, Stream!Bytes
    <3> DEFINE parts == <<<<a, c>>>>
    <3>3. PartsAre(parts, D, 1)
      <4>1. <<a, c>> \in Seq(Symbols)
        BY <1>9, Short
      <4>2. /\ parts \in Seq(Seq(Symbols)) /\ Len(parts) = 1 /\ parts[1] = <<a, c>> /\ 1 .. 1 = {1}
        BY <4>1
      <4> QED  BY <3>2, <4>2 DEF PartsAre
    <3>4. Stream!Parsed(parts) = SubSeq(D, 1, 1)
      <4> HIDE DEF parts
      <4>1. 1 \in Nat /\ 1 <= Len(D)
        BY <1>6
      <4> QED  BY <1>4, <3>3, <4>1, ParsedEvents
    <3> QED  BY <1>14, <3>1, <3>4
  <2>2. HandedOver(ends, ap, rp, D, 1, new, next)
    <3>1. 1 \in Nat /\ 1 <= Len(D)
      BY <1>6
    <3>2. HandedOver(ends, ap, rp, D, 1, NextShown(sh, events), NextClient("reading", events))
      BY ONLY <1>1, <1>4, <2>1, <3>1, EventsHandedOver
    <3> QED  BY <3>2
  <2> HIDE DEF new, next
  <2>3. CASE next = "reading" /\ new \in Seq(Events) /\ \E X : Later(X, D, 1) /\ ToShow(ends, ap, rp, X, new)
    <3>1. PICK X : Later(X, D, 1) /\ ToShow(ends, ap, rp, X, new)
      BY <2>3
    <3>2. PICK C : IsFrames(C, X)
      <4>1. 1 \in Nat /\ 1 <= Len(D)
        BY <1>6
      <4>2. IsFrames(SubSeq(F, 4 * 1 + 1, Len(F)), X)
        BY <1>4, <3>1, <4>1, FramesLeft
      <4> QED  BY <4>2
    <3>3. Begins(<<>> \o <<>>, C)
      BY <1>18, <3>2 DEF IsFrames
    <3>4. DownstreamAt(ends, ap, rp, <<>>, <<>>, new, C, X)
      BY <1>7, <1>17, <3>1, <3>2, <3>3 DEF DownstreamAt
    <3>5. Downstream(ends, ap, rp, <<>>, <<>>, new, next)
      BY <1>1, <1>17, <2>3, <3>4 DEF Downstream
    <3> QED  BY <1>c, <3>5 DEF new, next
  <2>4. CASE new = rp /\ next \in ends /\ ap # "streaming"
    <3>1. next # "reading" /\ new \in Seq(Events)
      BY <1>1, <2>4, WordsAreEvents
    <3>2. Downstream(ends, ap, rp, <<>>, <<>>, new, next)
      BY <1>1, <1>17, <2>4, <3>1 DEF Downstream
    <3> QED  BY <1>c, <3>2 DEF new, next
  <2> QED  BY <2>2, <2>3, <2>4 DEF HandedOver
<1> QED  BY <1>19, <1>20


-----------------------------------------------------------------------------
(* The states of a reply.                                                    *)

\* The response was given the tokens of the reply until it was cut, and an end once the
\* reply had ended: done, when it was all that the model wrote.
Carries(m, mo, rp, ap, w) ==
    /\ w \in [tokens : Seq(Words), end : {"none", "done", "error"}, cut : BOOLEAN]
    /\ Len(w.tokens) <= Len(rp) /\ \A i \in 1 .. Len(w.tokens) : w.tokens[i] = rp[i]
    /\ ~ w.cut => w.tokens = rp /\ (w.end = "none" <=> ap = "streaming")
    /\ w.end # "none" => ap # "streaming" /\ w.tokens = rp
    /\ w.end = "done" => mo = "complete" /\ rp = m
    /\ ap \in {"streaming", "saved", "failed"}
EndsOf(w) == IF w.end = "none" THEN {} ELSE {w.end}
StateOf(ap, w) == IF w.cut THEN "cut" ELSE ap
StreamInv ==
    part = "stream" =>
        /\ Upstream(made, model, up, upRest, reply)
        /\ Carries(made, model, reply, api, response)
        /\ Downstream(EndsOf(response), StateOf(api, response), response.tokens, down, downRest, shown, client)

\* The reply is made of tokens.
LEMMA ReplyIsWords ==
    ASSUME NEW m, NEW mo, NEW u, NEW ur, NEW rp, Upstream(m, mo, u, ur, rp)
    PROVE  m \in Seq(Words) /\ rp \in Seq(Words)
<1>1. Len(rp) <= Len(m) /\ \A i \in 1 .. Len(rp) : rp[i] = m[i]
  BY ReplyBegins
<1>2. m \in Seq(Words) /\ rp \in Seq(Events) /\ Len(rp) \in Nat /\ Len(m) \in Nat
  BY DEF Upstream
<1>3. \A i \in 1 .. Len(rp) : rp[i] \in Words
  <2>1. \A i \in 1 .. Len(m) : m[i] \in Words
    BY <1>2, WordsAreEvents
  <2>2. \A i \in 1 .. Len(rp) : i \in 1 .. Len(m)
    BY <1>1, <1>2
  <2> QED  BY <1>1, <2>1, <2>2
<1>4. rp \in Seq(Words)
  <2>1. rp = [i \in 1 .. Len(rp) |-> rp[i]]
    BY <1>2
  <2>2. rp \in [1 .. Len(rp) -> Words]
    BY <1>3, <2>1
  <2> QED  BY <1>2, <2>2, SeqDef
<1> QED  BY <1>2, <1>4

\* At the start.
LEMMA StreamInitially == ServicesInit => StreamInv
<1> SUFFICES ASSUME ServicesInit, part = "stream"
             PROVE  /\ Upstream(made, model, up, upRest, reply)
                    /\ Carries(made, model, reply, api, response)
                    /\ Downstream(EndsOf(response), StateOf(api, response), response.tokens,
                                  down, downRest, shown, client)
  BY DEF StreamInv
<1>1. /\ made = <<>> /\ model = "writing" /\ up = <<>> /\ upRest = <<>> /\ reply = <<>>
      /\ api = "streaming" /\ down = <<>> /\ downRest = <<>> /\ shown = <<>> /\ client = "reading"
      /\ response = [tokens |-> <<>>, end |-> "none", cut |-> FALSE]
  BY DEF ServicesInit, Stream!StreamInit
<1>2. EndsOf(response) = {} /\ StateOf(api, response) = "streaming" /\ response.tokens = <<>>
  BY <1>1 DEF EndsOf, StateOf
<1>3. Carries(made, model, reply, api, response)
  BY <1>1 DEF Carries
<1> QED  BY <1>1, <1>2, <1>3, UpstreamStarts, DownstreamStarts

\* The provider writes, or its connection breaks.
LEMMA ProviderKeepsInv ==
    ASSUME StreamInv, part = "stream", part' = part,
           (\E word \in Words : Stream!Generate(word)) \/ Stream!Complete \/ Stream!Break
    PROVE  StreamInv'
<1>1. /\ Upstream(made, model, up, upRest, reply)
      /\ Carries(made, model, reply, api, response)
      /\ Downstream(EndsOf(response), StateOf(api, response), response.tokens, down, downRest, shown, client)
  BY DEF StreamInv
<1>2. /\ model = "writing" /\ upRest' = upRest /\ reply' = reply /\ api' = api /\ down' = down
      /\ response' = response /\ downRest' = downRest /\ shown' = shown /\ client' = client
  BY DEF Stream!Generate, Stream!Complete, Stream!Break, Stream!downstream
<1>3. Upstream(made, "writing", up, upRest, reply)
  BY <1>1, <1>2
<1>4. Upstream(made', model', up', upRest', reply')
  <2>1. CASE \E word \in Words : Stream!Generate(word)
    <3>1. PICK word \in Words : Stream!Generate(word)
      BY <2>1
    <3>2. made' = Append(made, word) /\ model' = "writing" /\ up' = up \o Stream!Line(word)
      BY <1>2, <3>1 DEF Stream!Generate
    <3>3. Upstream(Append(made, word), "writing", up \o Stream!Line(word), upRest, reply)
      BY ONLY <1>3, <3>1, UpstreamWrites
    <3> QED  BY <1>2, <3>2, <3>3
  <2>2. CASE Stream!Complete
    <3>1. /\ made' = made /\ model' = "complete"
          /\ up' = up \o Stream!Line("[DONE]") \/ up' = up \o Stream!Bytes("[DONE]")
      BY <2>2 DEF Stream!Complete
    <3>2. /\ Upstream(made, "complete", up \o Stream!Line("[DONE]"), upRest, reply)
          /\ Upstream(made, "complete", up \o Stream!Bytes("[DONE]"), upRest, reply)
      BY ONLY <1>3, UpstreamWrites
    <3> QED  BY <1>2, <3>1, <3>2
  <2>3. CASE Stream!Break
    <3>1. made' = made /\ model' = "broken" /\ up' = <<>>
      BY <2>3 DEF Stream!Break
    <3>2. Upstream(made, "broken", <<>>, upRest, reply)
      BY ONLY <1>3, UpstreamBreaks
    <3> QED  BY <1>2, <3>1, <3>2
  <2> QED  BY <2>1, <2>2, <2>3
<1>5. Carries(made', model', reply', api', response')
  BY <1>1, <1>2 DEF Carries
<1> QED  BY <1>1, <1>2, <1>4, <1>5 DEF StreamInv

\* More tokens of the reply, which a response that was not cut is given.
LEMMA CarriesMore ==
    ASSUME NEW m, NEW mo, NEW rp \in Seq(Words), NEW w, NEW t \in Seq(Events),
           rp \o t \in Seq(Words), Carries(m, mo, rp, "streaming", w)
    PROVE  /\ w.cut => Carries(m, mo, rp \o t, "streaming", w)
           /\ ~ w.cut => w.end = "none" /\ w.tokens = rp
<1>1. rp \in Seq(Events)
  BY WordsAreEvents
<1>2. /\ Len(rp \o t) = Len(rp) + Len(t) /\ Len(rp) \in Nat /\ Len(t) \in Nat
      /\ \A i \in 1 .. Len(rp) : (rp \o t)[i] = rp[i]
  BY <1>1
<1>3. w.tokens \in Seq(Words) /\ Len(w.tokens) \in Nat /\ Len(w.tokens) <= Len(rp)
      /\ \A i \in 1 .. Len(w.tokens) : w.tokens[i] = rp[i]
  BY DEF Carries
<1>4. Len(w.tokens) <= Len(rp \o t) /\ \A i \in 1 .. Len(w.tokens) : w.tokens[i] = (rp \o t)[i]
  <2> DEFINE all == rp \o t
  <2> HIDE DEF all
  <2>1. \A i \in 1 .. Len(w.tokens) : i \in 1 .. Len(rp)
    BY <1>2, <1>3
  <2> QED  BY <1>2, <1>3, <2>1 DEF all
<1>5. w.end = "none"
  BY DEF Carries
<1> DEFINE all == rp \o t
<1> HIDE DEF all
<1>6. w.cut => Carries(m, mo, all, "streaming", w)
  BY <1>3, <1>4, <1>5 DEF Carries, all
<1> QED  BY <1>5, <1>6 DEF Carries, all

\* The server reads.
LEMMA ReadUpKeepsInv ==
    ASSUME StreamInv, part = "stream", part' = part, NEW n \in 1 .. Len(up), Stream!ReadUp(n)
    PROVE  StreamInv'
<1>1. /\ Upstream(made, model, up, upRest, reply)
      /\ Carries(made, model, reply, "streaming", response)
      /\ Downstream(EndsOf(response), StateOf("streaming", response), response.tokens,
                    down, downRest, shown, client)
  BY DEF StreamInv, Stream!ReadUp
<1> DEFINE v == SubSeq(up, 1, n)
           left == SubSeq(up, n + 1, Len(up))
           cut == Stream!Lines(upRest \o v)
           words == Stream!Without(Stream!Parsed(cut[1]), "[DONE]")
<1>2. /\ up' = left /\ upRest' = cut[2] /\ Stream!Pass(words)
      /\ made' = made /\ model' = model /\ api = "streaming" /\ api' = api
      /\ downRest' = downRest /\ shown' = shown /\ client' = client
  BY DEF Stream!ReadUp, Stream!downstream
<1>3. Taken(v, up, n) /\ Remain(left, up, n)
  <2>1. up \in Seq(Symbols)
    BY <1>1 DEF Upstream
  <2>2. n \in Nat /\ n <= Len(up)
    BY <2>1
  <2> QED  BY <2>1, <2>2, ReadIs
<1> HIDE DEF v, left
<1>4. cut = Stream!Lines(upRest \o v)
  OBVIOUS
<1> HIDE DEF cut
<1>5. words = Stream!Without(Stream!Parsed(cut[1]), "[DONE]")
  OBVIOUS
<1> HIDE DEF words
<1>6. n \in 1 .. Len(up)
  OBVIOUS
<1>7. words \in Seq(Events) /\ Upstream(made, model, left, cut[2], reply \o words)
  BY ONLY <1>1, <1>3, <1>4, <1>5, <1>6, UpstreamReads
<1>8. reply \o words \in Seq(Words) /\ reply \in Seq(Words)
  BY <1>1, <1>7, ReplyIsWords
<1>9. reply' = reply \o words
  BY <1>2 DEF Stream!Pass
<1>10. /\ response.cut => Carries(made, model, reply \o words, "streaming", response)
       /\ ~ response.cut => response.end = "none" /\ response.tokens = reply
  BY ONLY <1>1, <1>7, <1>8, CarriesMore
<1>11. CASE response.cut
  <2>1. response' = response /\ down' = down
    BY <1>2, <1>11 DEF Stream!Pass
  <2> QED  BY <1>1, <1>2, <1>7, <1>9, <1>10, <1>11, <2>1 DEF StreamInv
<1>12. CASE ~ response.cut
  <2> DEFINE all == reply \o words
             given == [response EXCEPT !.tokens = all]
  <2>1. response' = given /\ down' = Stream!Loop(words, down, Stream!Write)
    BY <1>2, <1>10, <1>12 DEF Stream!Pass
  <2>2. all \in Seq(Words) /\ reply' = all
    BY <1>8, <1>9
  <2>3. Downstream({}, "streaming", reply, down, downRest, shown, client)
    BY <1>1, <1>10, <1>12 DEF EndsOf, StateOf
  <2>4. {} \subseteq {"done", "error"}
    OBVIOUS
  <2>5. Downstream({}, "streaming", reply \o words, Stream!Loop(words, down, Stream!Write),
                   downRest, shown, client)
    BY ONLY <1>7, <1>8, <2>3, <2>4, DownstreamGrows
  <2> HIDE DEF all
  <2>6. /\ given \in [tokens : Seq(Words), end : {"none", "done", "error"}, cut : BOOLEAN]
        /\ given.tokens = all /\ given.end = "none" /\ given.cut = FALSE
    BY <1>1, <1>10, <1>12, <2>2 DEF Carries
  <2> HIDE DEF given
  <2>7. Carries(made, model, all, "streaming", given)
    BY <2>2, <2>6 DEF Carries
  <2>8. EndsOf(given) = {} /\ StateOf("streaming", given) = "streaming"
    BY <2>6 DEF EndsOf, StateOf
  <2>9. Downstream(EndsOf(given), StateOf("streaming", given), given.tokens, down', downRest, shown, client)
    BY <2>1, <2>5, <2>6, <2>8 DEF all
  <2> QED  BY <1>1, <1>2, <1>7, <1>9, <2>1, <2>2, <2>7, <2>9 DEF StreamInv
<1> QED  BY <1>11, <1>12

\* The server ends.
LEMMA EndUpKeepsInv ==
    ASSUME StreamInv, part = "stream", part' = part, Stream!EndUp
    PROVE  StreamInv'
<1>1. /\ Upstream(made, model, up, upRest, reply)
      /\ Carries(made, model, reply, "streaming", response)
      /\ Downstream(EndsOf(response), StateOf("streaming", response), response.tokens,
                    down, downRest, shown, client)
  BY DEF StreamInv, Stream!EndUp
<1> DEFINE x == IF model = "complete" THEN "done" ELSE "error"
<1>2. /\ up = <<>> /\ api' \in {"saved", "failed"}
      /\ IF response.cut THEN response' = response /\ down' = down
         ELSE response' = [response EXCEPT !.end = x] /\ down' = Stream!Write(down, x)
      /\ made' = made /\ model' = model /\ up' = up /\ upRest' = upRest /\ reply' = reply
      /\ downRest' = downRest /\ shown' = shown /\ client' = client
  BY DEF Stream!EndUp, Stream!upstream, Stream!downstream
<1>3. model = "complete" => reply = made
  BY <1>1, <1>2, ReplyIsAll
<1>4. x \in {"done", "error"} /\ (x = "done" => model = "complete" /\ reply = made)
  BY <1>3
<1> HIDE DEF x
<1>5. CASE response.cut
  <2>1. response' = response /\ down' = down
    BY <1>2, <1>5
  <2>2. Carries(made, model, reply, api', response)
    BY <1>1, <1>2, <1>5 DEF Carries
  <2>3. StateOf(api', response) = StateOf("streaming", response)
    BY <1>5 DEF StateOf
  <2> QED  BY <1>1, <1>2, <2>1, <2>2, <2>3 DEF StreamInv
<1>6. CASE ~ response.cut
  <2> DEFINE given == [response EXCEPT !.end = x]
  <2>1. response' = given /\ down' = Stream!Write(down, x)
    BY <1>2, <1>6
  <2>2. response.end = "none" /\ response.tokens = reply
    BY <1>1, <1>6 DEF Carries
  <2>3. /\ given \in [tokens : Seq(Words), end : {"none", "done", "error"}, cut : BOOLEAN]
        /\ given.tokens = reply /\ given.end = x /\ given.cut = FALSE
    BY <1>1, <1>4, <1>6, <2>2 DEF Carries
  <2> HIDE DEF given
  <2>4. Downstream({}, "streaming", reply, down, downRest, shown, client)
    BY <1>1, <1>6, <2>2 DEF EndsOf, StateOf
  <2>5. Downstream({x}, "streaming", reply, down, downRest, shown, client)
    <3>1. {} \subseteq {x} /\ {x} \subseteq {"done", "error"}
      BY <1>4
    <3> QED  BY ONLY <2>4, <3>1, DownstreamMore
  <2>6. Downstream({x}, api', reply, Stream!Write(down, x), downRest, shown, client)
    <3>1. x \in {x} /\ {x} \subseteq {"done", "error"} /\ api' \notin {"streaming", "cut"}
      BY <1>2, <1>4
    <3> QED  BY ONLY <2>5, <3>1, DownstreamEnds
  <2>7. EndsOf(given) = {x} /\ StateOf(api', given) = api'
    BY <1>4, <2>3 DEF EndsOf, StateOf
  <2>8. Carries(made, model, reply, api', given)
    <3>1. reply \in Seq(Words)
      BY <1>1, ReplyIsWords
    <3> QED  BY <1>2, <1>4, <2>3, <3>1 DEF Carries
  <2> QED  BY <1>1, <1>2, <2>1, <2>3, <2>6, <2>7, <2>8 DEF StreamInv
<1> QED  BY <1>5, <1>6

\* The response is cut.
LEMMA CutDownKeepsInv ==
    ASSUME StreamInv, part = "stream", part' = part, Stream!CutDown
    PROVE  StreamInv'
<1>1. /\ Upstream(made, model, up, upRest, reply)
      /\ Carries(made, model, reply, api, response)
      /\ Downstream(EndsOf(response), api, response.tokens, down, downRest, shown, "reading")
  BY DEF StreamInv, StateOf, Stream!CutDown
<1> DEFINE given == [response EXCEPT !.cut = TRUE]
<1>2. /\ client = "reading" /\ response' = given /\ api' = api
      /\ made' = made /\ model' = model /\ up' = up /\ upRest' = upRest /\ reply' = reply
      /\ downRest' = downRest /\ shown' = shown /\ client' = client
  BY DEF Stream!CutDown, Stream!upstream, Stream!downstream
<1>3. PICK n \in 0 .. Len(down) : down' = SubSeq(down, 1, n)
  BY DEF Stream!CutDown
<1>4. down \in Seq(Symbols)
  BY <1>1 DEF Downstream
<1>5. n \in Nat /\ n <= Len(down)
  BY <1>4
<1>6. Taken(down', down, n)
  BY <1>3, <1>4, <1>5, ReadIs
<1>7. Downstream(EndsOf(response), "cut", response.tokens, down', downRest, shown, "reading")
  BY ONLY <1>1, <1>5, <1>6, DownstreamCut
<1>8. /\ given \in [tokens : Seq(Words), end : {"none", "done", "error"}, cut : BOOLEAN]
      /\ given.tokens = response.tokens /\ given.end = response.end /\ given.cut = TRUE
  BY <1>1 DEF Carries
<1> HIDE DEF given
<1>9. EndsOf(given) = EndsOf(response) /\ StateOf(api, given) = "cut"
  BY <1>8 DEF EndsOf, StateOf
<1>10. Carries(made, model, reply, api, given)
  BY <1>1, <1>8 DEF Carries
<1> QED  BY <1>1, <1>2, <1>7, <1>8, <1>9, <1>10 DEF StreamInv

\* What the client makes of events.
LEMMA ReceivedIs ==
    ASSUME NEW events, Stream!Received(events)
    PROVE  shown' = NextShown(shown, events) /\ client' = NextClient(client, events)
BY DEF Stream!Received, NextShown, NextClient, BeforeError, ErrorIn

\* The client reads.
LEMMA ReadDownKeepsInv ==
    ASSUME StreamInv, part = "stream", part' = part, NEW n \in 1 .. Len(down), Stream!ReadDown(n)
    PROVE  StreamInv'
<1> DEFINE ends == EndsOf(response)
           ap == StateOf(api, response)
           rp == response.tokens
<1>1. /\ Upstream(made, model, up, upRest, reply)
      /\ Carries(made, model, reply, api, response)
      /\ Downstream(ends, ap, rp, down, downRest, shown, client)
  BY DEF StreamInv
<1> HIDE DEF ends, ap, rp
<1> DEFINE v == SubSeq(down, 1, n)
           left == SubSeq(down, n + 1, Len(down))
           cut == Stream!Frames(downRest \o v)
           events == Stream!Parsed(cut[1])
<1>2. /\ down' = left /\ downRest' = cut[2] /\ Stream!Received(events) /\ response' = response
      /\ made' = made /\ model' = model /\ up' = up /\ upRest' = upRest /\ reply' = reply /\ api' = api
  BY DEF Stream!ReadDown, Stream!upstream
<1>3. Taken(v, down, n) /\ Remain(left, down, n)
  <2>1. down \in Seq(Symbols)
    BY <1>1 DEF Downstream
  <2>2. n \in Nat /\ n <= Len(down)
    BY <2>1
  <2> QED  BY <2>1, <2>2, ReadIs
<1> HIDE DEF v, left
<1>4. cut = Stream!Frames(downRest \o v)
  OBVIOUS
<1> HIDE DEF cut
<1>5. events = Stream!Parsed(cut[1])
  OBVIOUS
<1> HIDE DEF events
<1>6. n \in 1 .. Len(down)
  OBVIOUS
<1>7. Downstream(ends, ap, rp, left, cut[2], NextShown(shown, events), NextClient(client, events))
  BY ONLY <1>1, <1>3, <1>4, <1>5, <1>6, DownstreamReads
<1>8. shown' = NextShown(shown, events) /\ client' = NextClient(client, events)
  BY <1>2, ReceivedIs
<1> QED  BY <1>1, <1>2, <1>7, <1>8 DEF StreamInv, ends, ap, rp

\* The client comes to the end of the response.
LEMMA EndDownKeepsInv ==
    ASSUME StreamInv, part = "stream", part' = part, Stream!EndDown
    PROVE  StreamInv'
<1> DEFINE ends == EndsOf(response)
           ap == StateOf(api, response)
           rp == response.tokens
<1>1. /\ Upstream(made, model, up, upRest, reply)
      /\ Carries(made, model, reply, api, response)
      /\ Downstream(ends, ap, rp, <<>>, downRest, shown, client)
  BY DEF StreamInv, Stream!EndDown
<1>4. ap # "streaming" /\ downRest # <<>>
  BY DEF Stream!EndDown, StateOf
<1> HIDE DEF ends, ap, rp
<1> DEFINE events == Stream!Parsed(Stream!Frames(downRest \o <<Stream!Newline, Stream!Newline>>)[1])
<1>2. /\ down = <<>> /\ Stream!Received(events) /\ downRest' = <<>> /\ down' = down /\ response' = response
      /\ made' = made /\ model' = model /\ up' = up /\ upRest' = upRest /\ reply' = reply /\ api' = api
  BY DEF Stream!EndDown, Stream!upstream
<1>3. events = Stream!Parsed(Stream!Frames(downRest \o <<Stream!Newline, Stream!Newline>>)[1])
  OBVIOUS
<1> HIDE DEF events
<1>5. Downstream(ends, ap, rp, <<>>, <<>>, NextShown(shown, events), NextClient(client, events))
  BY ONLY <1>1, <1>3, <1>4, DownstreamEndsEarly
<1>6. shown' = NextShown(shown, events) /\ client' = NextClient(client, events)
  BY <1>2, ReceivedIs
<1> QED  BY <1>1, <1>2, <1>5, <1>6 DEF StreamInv, ends, ap, rp

\* A step of the run keeps it,
LEMMA StreamStep == StreamInv /\ [ServicesNext]_services => StreamInv'
<1> SUFFICES ASSUME StreamInv, [ServicesNext]_services PROVE StreamInv'
  OBVIOUS
<1>1. CASE part # "stream" /\ part' = part
  BY <1>1 DEF StreamInv
<1>2. CASE UNCHANGED services
  BY <1>2 DEF StreamInv, services, tokenStream
<1>3. CASE ServicesNext /\ part = "stream"
  <2>1. part' = part /\ Stream!StreamNext
    BY <1>3 DEF ServicesNext
  <2>2. CASE (\E word \in Words : Stream!Generate(word)) \/ Stream!Complete \/ Stream!Break
    BY <2>1, <2>2, <1>3, ProviderKeepsInv
  <2>3. CASE Stream!EndUp
    BY <2>1, <2>3, <1>3, EndUpKeepsInv
  <2>4. CASE Stream!CutDown
    BY <2>1, <2>4, <1>3, CutDownKeepsInv
  <2>5. CASE Stream!EndDown
    BY <2>1, <2>5, <1>3, EndDownKeepsInv
  <2>6. CASE \E n \in 1 .. Len(up) : Stream!ReadUp(n)
    BY <2>1, <2>6, <1>3, ReadUpKeepsInv
  <2>7. CASE \E n \in 1 .. Len(down) : Stream!ReadDown(n)
    BY <2>1, <2>7, <1>3, ReadDownKeepsInv
  <2> QED  BY <2>1, <2>2, <2>3, <2>4, <2>5, <2>6, <2>7 DEF Stream!StreamNext
<1> QED  BY <1>1, <1>2, <1>3 DEF ServicesNext, services

\* so that every state has it.
LEMMA StreamAlways == ServicesSpec => []StreamInv
<1>1. ServicesInit => StreamInv
  BY StreamInitially
<1>2. StreamInv /\ [ServicesNext]_services => StreamInv'
  BY StreamStep
<1> QED  BY <1>1, <1>2, PTL DEF ServicesSpec

\* What begins a sequence is a prefix of it.
LEMMA PrefixIs ==
    ASSUME NEW s \in Seq(Events), NEW t \in Seq(Events), Len(s) <= Len(t),
           \A i \in 1 .. Len(s) : s[i] = t[i]
    PROVE  Stream!IsPrefix(s, t)
<1> DEFINE a == SubSeq(t, 1, Len(s))
<1>1. Len(s) \in Nat
  OBVIOUS
<1>2. a \in Seq(Events) /\ Len(a) = Len(s) /\ \A i \in 1 .. Len(s) : a[i] = t[i]
  BY <1>1, FirstOf
<1> HIDE DEF a
<1>3. a = s
  BY <1>2, SeqEqual
<1>4. SubSeq(s, 1, Len(s)) = s
  BY AllOf
<1> QED  BY <1>3, <1>4 DEF a, Stream!IsPrefix

\* What is shown begins the reply.
LEMMA ShownBegins ==
    ASSUME NEW ends, NEW ap, NEW rp, NEW d, NEW dr, NEW sh, NEW cl,
           Downstream(ends, ap, rp, d, dr, sh, cl)
    PROVE  sh \in Seq(Events) /\ Len(sh) <= Len(rp) /\ \A i \in 1 .. Len(sh) : sh[i] = rp[i]
<1>1. sh \in Seq(Events) /\ rp \in Seq(Words) /\ rp \in Seq(Events) /\ ends \subseteq {"done", "error"}
  BY WordsAreEvents DEF Downstream
<1>2. Len(sh) \in Nat /\ Len(rp) \in Nat
  BY <1>1
<1>3. CASE cl = "reading"
  <2>1. PICK F, D : DownstreamAt(ends, ap, rp, d, dr, sh, F, D)
    BY <1>3 DEF Downstream
  <2>2. D \in Seq(Events) /\ ToShow(ends, ap, rp, D, sh) /\ Len(D) \in Nat
    BY <2>1 DEF DownstreamAt, IsFrames
  <2>3. CASE Follows(sh, D, rp)
    BY <1>1, <1>2, <2>2, <2>3 DEF Follows
  <2>4. CASE Len(D) >= 1 /\ \E x \in ends : Follows(sh, D, Append(rp, x))
    <3>1. PICK x \in ends : Follows(sh, D, Append(rp, x))
      BY <2>4
    <3>2. x \in Events
      BY <1>1, WordsAreEvents
    <3>3. Len(rp) = Len(sh) + (Len(D) - 1) /\ \A i \in 1 .. Len(sh) : sh[i] = rp[i]
      BY <1>1, <2>2, <2>4, <3>1, <3>2, FollowsLast
    <3> QED  BY <1>1, <1>2, <2>2, <2>4, <3>3
  <2> QED  BY <2>2, <2>3, <2>4 DEF ToShow
<1>4. CASE cl # "reading"
  <2>1. sh = rp
    BY <1>4 DEF Downstream
  <2> QED  BY <1>1, <1>2, <2>1
<1> QED  BY <1>3, <1>4

\* A response that was not cut ends with an event, which is read or on its way.
LEMMA EndIsRead ==
    ASSUME NEW ends, NEW ap, ap \notin {"streaming", "cut"}, NEW rp, NEW d, NEW dr, NEW sh,
           Downstream(ends, ap, rp, d, dr, sh, "reading")
    PROVE  d # <<>> \/ dr # <<>>
<1> SUFFICES ASSUME d = <<>>, dr = <<>> PROVE FALSE
  OBVIOUS
<1>1. PICK F, D : DownstreamAt(ends, ap, rp, <<>>, <<>>, sh, F, D)
  BY DEF Downstream
<1>2. Len(<<>> \o <<>>) = 0
  OBVIOUS
<1>3. Len(F) = 0 /\ Len(F) = 4 * Len(D) /\ D \in Seq(Events) /\ Len(D) >= 1
  BY <1>1, <1>2 DEF DownstreamAt, IsFrames, ToShow
<1> QED  BY <1>3

\* However the bytes of a reply are cut into pieces at both ends (GroqProvider.stream and
\* chat of the client), what the visitor sees and what is saved begin what the model
\* wrote, nothing is missing when the done event arrives, what the client was shown when
\* it stops is the reply of the server, and a response that was not cut tells its end.
THEOREM ReplyArrivesWhole == ServicesSpec => []ReplyIsWhole
<1>1. StreamInv => ReplyIsWhole
  <2> SUFFICES ASSUME StreamInv, part = "stream" PROVE Stream!ReplyIsWhole
    BY DEF ReplyIsWhole
  <2> DEFINE ends == EndsOf(response)
             ap == StateOf(api, response)
             rp == response.tokens
  <2>1. /\ Upstream(made, model, up, upRest, reply)
        /\ Carries(made, model, reply, api, response)
        /\ Downstream(ends, ap, rp, down, downRest, shown, client)
    BY DEF StreamInv
  <2>2. /\ made \in Seq(Events) /\ reply \in Seq(Events) /\ Len(made) \in Nat /\ Len(reply) \in Nat
    BY <2>1, ReplyIsWords, WordsAreEvents
  <2>3. Len(reply) <= Len(made) /\ \A i \in 1 .. Len(reply) : reply[i] = made[i]
    BY <2>1, ReplyBegins
  <2>4. /\ shown \in Seq(Events) /\ Len(shown) <= Len(rp)
        /\ \A i \in 1 .. Len(shown) : shown[i] = rp[i]
    <3> HIDE DEF ends, ap, rp
    <3> QED  BY <2>1, ShownBegins
  <2>a. /\ rp \in Seq(Words) /\ Len(rp) \in Nat /\ Len(rp) <= Len(reply)
        /\ \A i \in 1 .. Len(rp) : rp[i] = reply[i]
    BY <2>1 DEF Carries
  <2>5. Len(shown) \in Nat /\ Len(shown) <= Len(made) /\ \A i \in 1 .. Len(shown) : shown[i] = made[i]
    <3> HIDE DEF rp
    <3>1. Len(shown) \in Nat /\ Len(shown) <= Len(made)
      BY <2>2, <2>3, <2>4, <2>a
    <3>2. \A i \in 1 .. Len(shown) : i \in 1 .. Len(rp) /\ i \in 1 .. Len(reply)
      BY <2>2, <2>4, <2>a, <3>1
    <3> QED  BY <2>3, <2>4, <2>a, <3>1, <3>2
  <2>6. Stream!IsPrefix(reply, made) /\ Stream!IsPrefix(shown, made)
    BY <2>2, <2>3, <2>4, <2>5, PrefixIs
  <2>7. client # "reading" => shown = rp /\ client \in ends
    BY <2>1 DEF Downstream
  <2>8. client # "reading" => /\ shown = reply
                              /\ client = "done" => reply = made
    BY <2>1, <2>7 DEF EndsOf, Carries
  <2>9. client = "reading" /\ api # "streaming" /\ ~ response.cut => down # <<>> \/ downRest # <<>>
    <3> SUFFICES ASSUME client = "reading", api # "streaming", ~ response.cut
                 PROVE  down # <<>> \/ downRest # <<>>
      OBVIOUS
    <3>1. ap = api /\ ap \notin {"streaming", "cut"}
      BY <2>1 DEF StateOf, Carries
    <3> HIDE DEF ends, ap, rp
    <3> QED  BY <2>1, <3>1, EndIsRead
  <2> QED  BY <2>6, <2>8, <2>9 DEF Stream!ReplyIsWhole
<1> QED  BY <1>1, StreamAlways, PTL
=============================================================================
