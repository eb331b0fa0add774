----------------------------- MODULE CatalogProofs -----------------------------
(***************************************************************************)
(* What holds of Catalog, crawls and clients, for every configuration.     *)
(***************************************************************************)
EXTENDS Catalog, FiniteSetTheorems, FunctionTheorems, WellFoundedInduction,
        NaturalsInduction, SequenceTheorems, TLAPS

-------------------------------------------------------------------------------
(* Sequences.                                                              *)

LEMMA Smallest ==
    ASSUME NEW S, S \subseteq Nat, S # {}
    PROVE  \E x \in S : \A y \in S : x <= y
<1>1. PICK x \in S : \A y \in S : ~ (<<y, x>> \in OpToRel(<, Nat))
  BY WFMin, NatLessThanWellFounded
<1>2. \A y \in S : ~ (y < x)
  BY <1>1 DEF OpToRel
<1>3. QED
  BY <1>2

(* What a loop over 1..m works out, from what it begins with.              *)
IsStep(X, m, step) == step \in [(1..m) \X X -> X]
Runs(X, m, first, step, f) ==
    /\ f \in [0..m -> X] /\ f[0] = first
    /\ \A n \in 1..m : f[n] = step[<<n, f[n - 1]>>]

LEMMA LoopRuns ==
    ASSUME NEW X, NEW m \in Nat, NEW first \in X, NEW step, IsStep(X, m, step)
    PROVE  \E f : Runs(X, m, first, step, f)
<1> DEFINE Has(k) == \E f \in [0..k -> X] : /\ f[0] = first
                                            /\ \A n \in 1..k : f[n] = step[<<n, f[n - 1]>>]
           Bad == {k \in 0..m : ~Has(k)}
<1>1. Has(0)
  <2> DEFINE h == [n \in 0..0 |-> first]
  <2>1. h \in [0..0 -> X] /\ h[0] = first /\ 1..0 = {}
    OBVIOUS
  <2> HIDE DEF h
  <2>2. QED
    BY <2>1
<1>2. ASSUME NEW k \in 1..m, Has(k - 1)
      PROVE  Has(k)
  <2>1. PICK f \in [0..(k - 1) -> X] :
          f[0] = first /\ \A n \in 1..(k - 1) : f[n] = step[<<n, f[n - 1]>>]
    BY <1>2
  <2>2. k - 1 \in 0..(k - 1) /\ f[k - 1] \in X
    BY <2>1
  <2> DEFINE next == step[<<k, f[k - 1]>>]
             h == [n \in 0..k |-> IF n = k THEN next ELSE f[n]]
  <2>3. next \in X
    BY <2>2 DEF IsStep
  <2>4. h \in [0..k -> X]
    BY <2>1, <2>3
  <2>5. h[0] = first
    BY <2>1
  <2>6. ASSUME NEW n \in 1..k
        PROVE  h[n] = step[<<n, h[n - 1]>>]
    <3>1. n - 1 \in 0..k /\ n - 1 # k /\ h[n - 1] = f[n - 1]
      OBVIOUS
    <3>2. CASE n = k
      BY <3>1, <3>2
    <3>3. CASE n # k
      BY <2>1, <3>1, <3>3
    <3>4. QED
      BY <3>2, <3>3
  <2>7. QED
    BY <2>4, <2>5, <2>6
<1> HIDE DEF Has
<1>3. ASSUME Bad # {}
      PROVE  FALSE
  <2>1. PICK k \in Bad : \A n \in Bad : k <= n
    <3>1. Bad \subseteq Nat
      OBVIOUS
    <3>2. QED
      BY <1>3, <3>1, Smallest
  <2>2. k # 0
    BY <1>1
  <2>3. k \in 1..m /\ k - 1 \in 0..m /\ k - 1 \notin Bad
    BY <2>1, <2>2
  <2>4. QED
    BY <1>2, <2>3
<1>4. Has(m)
  BY <1>3
<1>5. QED
  BY <1>4 DEF Has, Runs

(* Those, as it is worked out: what of s is taken up to its nth element.   *)
LEMMA ThoseArePicked ==
    ASSUME NEW T, NEW s \in Seq(T), NEW S
    PROVE  \E f : /\ f[0] = <<>> /\ Those(s, S) = f[Len(s)]
                  /\ \A n \in 0..Len(s) : f[n] \in Seq(T)
                  /\ \A n \in 1..Len(s) :
                       f[n] = IF s[n] \in S THEN Append(f[n - 1], s[n]) ELSE f[n - 1]
<1> DEFINE Step(f, n) == IF n = 0 THEN <<>>
                         ELSE IF s[n] \in S THEN Append(f[n - 1], s[n]) ELSE f[n - 1]
           so == CHOOSE f : f = [n \in 0..Len(s) |-> Step(f, n)]
           step == [p \in (1..Len(s)) \X Seq(T) |->
                      IF s[p[1]] \in S THEN Append(p[2], s[p[1]]) ELSE p[2]]
<1>1. step \in [(1..Len(s)) \X Seq(T) -> Seq(T)]
  BY ElementOfSeq, AppendProperties
<1>2. \A n \in 1..Len(s), t \in Seq(T) :
        step[<<n, t>>] = IF s[n] \in S THEN Append(t, s[n]) ELSE t
  OBVIOUS
<1> HIDE DEF step
<1>3. PICK f : Runs(Seq(T), Len(s), <<>>, step, f)
  <2>1. Len(s) \in Nat /\ <<>> \in Seq(T) /\ IsStep(Seq(T), Len(s), step)
    BY <1>1 DEF IsStep
  <2>2. QED
    BY <2>1, LoopRuns
<1>4. ASSUME NEW n \in 1..Len(s)
      PROVE  f[n] = IF s[n] \in S THEN Append(f[n - 1], s[n]) ELSE f[n - 1]
  <2>1. n - 1 \in 0..Len(s)
    OBVIOUS
  <2>2. QED
    BY <1>2, <1>3, <2>1 DEF Runs
<1>5. f = [n \in 0..Len(s) |-> Step(f, n)]
  <2>1. \A n \in 0..Len(s) : n = 0 \/ n \in 1..Len(s)
    OBVIOUS
  <2>2. \A n \in 0..Len(s) : f[n] = Step(f, n)
    BY <1>3, <1>4, <2>1 DEF Runs
  <2>3. f \in [0..Len(s) -> Seq(T)]
    BY <1>3 DEF Runs
  <2> HIDE DEF Step
  <2>4. QED
    BY <2>2, <2>3
<1>6. so = [n \in 0..Len(s) |-> Step(so, n)]
  BY <1>5
<1>7. Those(s, S) = so[Len(s)]
  BY DEF Those
<1>8. ASSUME NEW n \in 0..Len(s)
      PROVE  so[n] = Step(so, n)
  BY <1>6
<1> HIDE DEF so, Step
<1>9. \A n \in 0..Len(s) : so[n] \in Seq(T)
  <2> DEFINE Bad == {n \in 0..Len(s) : so[n] \notin Seq(T)}
  <2>1. SUFFICES ASSUME Bad # {} PROVE FALSE
    OBVIOUS
  <2>2. PICK k \in Bad : \A n \in Bad : k <= n
    <3>1. Bad \subseteq Nat
      OBVIOUS
    <3>2. QED
      BY <2>1, <3>1, Smallest
  <2>3. k > 0 => k - 1 \in 0..Len(s) /\ k - 1 \notin Bad /\ s[k] \in T
    BY <2>2
  <2>4. so[k] = IF k = 0 THEN <<>>
                ELSE IF s[k] \in S THEN Append(so[k - 1], s[k]) ELSE so[k - 1]
    BY <1>8, <2>2 DEF Step
  <2>5. k > 0 => so[k - 1] \in Seq(T)
    BY <2>3
  <2>6. k \in Nat /\ so[k] \notin Seq(T)
    BY <2>2
  <2>7. CASE k = 0
    BY <2>4, <2>6, <2>7
  <2>8. CASE k > 0
    BY <2>3, <2>4, <2>5, <2>6, <2>8
  <2>9. QED
    BY <2>6, <2>7, <2>8
<1>10. QED
  BY <1>7, <1>8, <1>9 DEF Step

(* Where each of the elements kept was: in order, and none left out.       *)
Placing(s, S, n, t, p) ==
    /\ p \in Seq(1..n) /\ Len(p) = Len(t)
    /\ \A i \in DOMAIN p : t[i] = s[p[i]] /\ s[p[i]] \in S
    /\ \A i, j \in DOMAIN p : i < j => p[i] < p[j]
    /\ \A m \in 1..n : s[m] \in S => \E i \in DOMAIN p : p[i] = m

LEMMA PlacingGoesOn ==
    ASSUME NEW T, NEW s \in Seq(T), NEW S, NEW n \in 1..Len(s), NEW t \in Seq(T), NEW p,
           Placing(s, S, n - 1, t, p)
    PROVE  /\ s[n] \in S => Placing(s, S, n, Append(t, s[n]), Append(p, n))
           /\ s[n] \notin S => Placing(s, S, n, t, p)
<1>1. /\ p \in Seq(1..(n - 1)) /\ Len(p) = Len(t) /\ Len(p) \in Nat
      /\ DOMAIN p = 1..Len(p) /\ DOMAIN t = 1..Len(p)
      /\ n \in Nat /\ \A i \in DOMAIN p : p[i] \in 1..(n - 1)
  BY ElementOfSeq DEF Placing
<1>2. p \in Seq(1..n)
  <2>1. 1..(n - 1) \subseteq 1..n
    BY <1>1
  <2>2. QED
    BY <1>1, <2>1, SeqMonotonic
<1>3. ASSUME s[n] \notin S
      PROVE  Placing(s, S, n, t, p)
  <2>1. \A m \in 1..n : s[m] \in S => \E i \in DOMAIN p : p[i] = m
    BY <1>1, <1>3 DEF Placing
  <2>2. QED
    BY <1>2, <2>1 DEF Placing
<1>4. ASSUME s[n] \in S
      PROVE  Placing(s, S, n, Append(t, s[n]), Append(p, n))
  <2> DEFINE q == Append(p, n)
             u == Append(t, s[n])
  <2>1. /\ q \in Seq(1..n) /\ Len(q) = Len(p) + 1 /\ Len(u) = Len(p) + 1
        /\ DOMAIN q = 1..(Len(p) + 1)
        /\ \A i \in 1..Len(p) : q[i] = p[i] /\ u[i] = t[i]
        /\ q[Len(p) + 1] = n /\ u[Len(p) + 1] = s[n]
    <3>1. n \in 1..n /\ s[n] \in T
      BY <1>1
    <3>2. QED
      BY <1>1, <1>2, <3>1, AppendProperties
  <2>2. \A i \in DOMAIN q : u[i] = s[q[i]] /\ s[q[i]] \in S
    BY <1>1, <1>4, <2>1 DEF Placing
  <2>3. \A i, j \in DOMAIN q : i < j => q[i] < q[j]
    BY <1>1, <2>1 DEF Placing
  <2>4. ASSUME NEW m \in 1..n, s[m] \in S
        PROVE  \E i \in DOMAIN q : q[i] = m
    <3>1. CASE m = n
      <4>1. Len(p) + 1 \in DOMAIN q /\ q[Len(p) + 1] = m
        BY <1>1, <2>1, <3>1
      <4>2. QED
        BY <4>1
    <3>2. CASE m # n
      <4>1. PICK i \in DOMAIN p : p[i] = m
        BY <1>1, <2>4, <3>2 DEF Placing
      <4>2. QED
        BY <1>1, <2>1, <4>1
    <3>3. QED
      BY <3>1, <3>2
  <2>5. QED
    BY <2>1, <2>2, <2>3, <2>4 DEF Placing
<1>5. QED
  BY <1>3, <1>4

LEMMA ThoseAre ==
    ASSUME NEW T, NEW s \in Seq(T), NEW S
    PROVE  /\ Those(s, S) \in Seq(T)
           /\ \E p : Placing(s, S, Len(s), Those(s, S), p)
<1>1. PICK f : /\ f[0] = <<>> /\ Those(s, S) = f[Len(s)]
               /\ \A n \in 0..Len(s) : f[n] \in Seq(T)
               /\ \A n \in 1..Len(s) :
                    f[n] = IF s[n] \in S THEN Append(f[n - 1], s[n]) ELSE f[n - 1]
  BY ThoseArePicked
<1> DEFINE Good(n) == \E p : Placing(s, S, n, f[n], p)
           Bad == {n \in 0..Len(s) : ~Good(n)}
<1>2. Good(0)
  <2>1. Placing(s, S, 0, <<>>, <<>>)
    BY DEF Placing
  <2>2. QED
    BY <1>1, <2>1
<1>3. ASSUME NEW n \in 1..Len(s), Good(n - 1)
      PROVE  Good(n)
  <2>1. PICK p : Placing(s, S, n - 1, f[n - 1], p)
    BY <1>3
  <2>2. n - 1 \in 0..Len(s) /\ f[n - 1] \in Seq(T)
    BY <1>1
  <2>3. /\ s[n] \in S => Placing(s, S, n, Append(f[n - 1], s[n]), Append(p, n))
        /\ s[n] \notin S => Placing(s, S, n, f[n - 1], p)
    BY <2>1, <2>2, PlacingGoesOn
  <2>4. f[n] = IF s[n] \in S THEN Append(f[n - 1], s[n]) ELSE f[n - 1]
    BY <1>1
  <2>5. QED
    BY <2>3, <2>4
<1> HIDE DEF Good
<1>4. ASSUME Bad # {}
      PROVE  FALSE
  <2>1. PICK k \in Bad : \A n \in Bad : k <= n
    <3>1. Bad \subseteq Nat
      OBVIOUS
    <3>2. QED
      BY <1>4, <3>1, Smallest
  <2>2. k # 0
    BY <1>2
  <2>3. k \in 1..Len(s) /\ k - 1 \in 0..Len(s) /\ k - 1 \notin Bad
    BY <2>1, <2>2
  <2>4. QED
    BY <1>3, <2>3
<1>5. Good(Len(s))
  BY <1>4
<1>6. QED
  BY <1>1, <1>5 DEF Good

-------------------------------------------------------------------------------
(* Orders: in a finite set in order there is one at every place.           *)

LinearOn(R, S) ==
    /\ \A i \in S : <<i, i>> \notin R
    /\ \A i, j, k \in S : <<i, j>> \in R /\ <<j, k>> \in R => <<i, k>> \in R
    /\ \A i, j \in S : i # j => <<i, j>> \in R \/ <<j, i>> \in R
Preceding(R, S, i) == {j \in S : <<j, i>> \in R}

LEMMA PrecedingIs ==
    ASSUME NEW S, IsFiniteSet(S), NEW R, LinearOn(R, S), NEW i \in S
    PROVE  /\ IsFiniteSet(Preceding(R, S, i))
           /\ Cardinality(S) \in Nat /\ Cardinality(S) >= 1
           /\ Cardinality(Preceding(R, S, i)) \in 0..(Cardinality(S) - 1)
<1> DEFINE P == Preceding(R, S, i)
<1>1. P \subseteq S /\ i \notin P
  BY DEF Preceding, LinearOn
<1>2. IsFiniteSet(P) /\ Cardinality(P) <= Cardinality(S)
      /\ (Cardinality(S) = Cardinality(P) => S = P)
  BY <1>1, FS_Subset
<1>3. Cardinality(P) \in Nat /\ Cardinality(S) \in Nat
  BY <1>2, FS_CardinalityType
<1>4. Cardinality(P) # Cardinality(S)
  BY <1>1, <1>2
<1>5. QED
  BY <1>2, <1>3, <1>4

LEMMA Ranked ==
    ASSUME NEW S, IsFiniteSet(S), NEW R, LinearOn(R, S)
    PROVE  /\ \A i, j \in S : Cardinality(Preceding(R, S, i)) = Cardinality(Preceding(R, S, j))
                              => i = j
           /\ \A n \in 1..Cardinality(S) :
                \E i \in S : Cardinality(Preceding(R, S, i)) = n - 1
<1> DEFINE rank == [i \in S |-> Cardinality(Preceding(R, S, i))]
           last == Cardinality(S) - 1
<1>1. Cardinality(S) \in Nat
  BY FS_CardinalityType
<1>2. \A i \in S : rank[i] \in 0..last
  BY PrecedingIs
<1>3. ASSUME NEW i \in S, NEW j \in S, <<i, j>> \in R
      PROVE  rank[i] # rank[j]
  <2> DEFINE P == Preceding(R, S, i)
             Q == Preceding(R, S, j)
  <2>1. P \subseteq Q /\ i \in Q /\ i \notin P
    BY <1>3 DEF Preceding, LinearOn
  <2>2. IsFiniteSet(Q)
    BY PrecedingIs
  <2>3. Cardinality(Q) = Cardinality(P) => Q = P
    BY <2>1, <2>2, FS_Subset
  <2>4. QED
    BY <2>1, <2>3
<1>4. \A i, j \in S : rank[i] = rank[j] => i = j
  BY <1>3 DEF LinearOn
<1>5. rank \in Injection(S, 0..last)
  BY <1>2, <1>4 DEF Injection, IsInjective
<1>6. IsFiniteSet(0..last) /\ Cardinality(0..last) = Cardinality(S)
  BY <1>1, FS_Interval
<1>7. rank \in Surjection(S, 0..last)
  BY <1>5, <1>6, FS_Injection
<1>8. ASSUME NEW n \in 1..Cardinality(S)
      PROVE  \E i \in S : rank[i] = n - 1
  <2>1. n - 1 \in 0..last
    BY <1>1
  <2>2. QED
    BY <1>7, <2>1 DEF Surjection
<1>9. QED
  BY <1>4, <1>8

(* A sequence that lists a set in order has each of its elements once.     *)
HasAt(R, S, i, k) == Cardinality(Preceding(R, S, i)) = k - 1
InOrder(R, S, s) ==
    /\ DOMAIN s = 1..Cardinality(S) /\ s = [k \in DOMAIN s |-> s[k]]
    /\ \A k \in DOMAIN s : \A i \in S : HasAt(R, S, i, k) => s[k] \in S /\ HasAt(R, S, s[k], k)

LEMMA ListedInOrder ==
    ASSUME NEW S, IsFiniteSet(S), NEW R, LinearOn(R, S),
           NEW s, InOrder(R, S, s)
    PROVE  /\ s \in Seq(S) /\ \A i \in S : \E k \in DOMAIN s : s[k] = i
           /\ \A j, k \in DOMAIN s : s[j] = s[k] => j = k
<1>1. Cardinality(S) \in Nat /\ DOMAIN s = 1..Cardinality(S) /\ s = [k \in DOMAIN s |-> s[k]]
  BY FS_CardinalityType DEF InOrder
<1>2. ASSUME NEW k \in DOMAIN s
      PROVE  s[k] \in S /\ Cardinality(Preceding(R, S, s[k])) = k - 1
  <2>1. \E i \in S : Cardinality(Preceding(R, S, i)) = k - 1
    BY <1>1, Ranked
  <2>2. QED
    BY <2>1 DEF InOrder, HasAt
<1>3. s \in Seq(S)
  <2>1. s \in [1..Cardinality(S) -> S]
    BY <1>1, <1>2
  <2>2. QED
    BY <1>1, <2>1, SeqDef
<1>4. ASSUME NEW i \in S
      PROVE  \E k \in DOMAIN s : s[k] = i
  <2>1. Cardinality(Preceding(R, S, i)) \in 0..(Cardinality(S) - 1)
    BY PrecedingIs
  <2> DEFINE k == Cardinality(Preceding(R, S, i)) + 1
  <2>2. k \in DOMAIN s /\ k - 1 = Cardinality(Preceding(R, S, i))
    BY <1>1, <2>1
  <2> HIDE DEF k
  <2>3. s[k] \in S /\ Cardinality(Preceding(R, S, s[k])) = Cardinality(Preceding(R, S, i))
    BY <1>2, <2>2
  <2>4. s[k] = i
    BY <2>3, Ranked
  <2>5. QED
    BY <2>2, <2>4
<1>5. ASSUME NEW j \in DOMAIN s, NEW k \in DOMAIN s, s[j] = s[k]
      PROVE  j = k
  <2>1. j - 1 = k - 1 /\ j \in Int /\ k \in Int
    BY <1>1, <1>2, <1>5
  <2>2. QED
    BY <2>1
<1>6. QED
  BY <1>3, <1>4, <1>5

-------------------------------------------------------------------------------
(* URLs are in order.                                                      *)

LEMMA PositionIs ==
    ASSUME NEW s, OnceEach(s), NEW a \in ToSet(s), NEW b \in ToSet(s)
    PROVE  /\ Position(s, a) \in Nat \ {0} /\ Position(s, b) \in Nat \ {0}
           /\ Position(s, a) = Position(s, b) => a = b
<1>1. \E i \in DOMAIN s : s[i] = a
  BY DEF ToSet
<1>2. \E i \in DOMAIN s : s[i] = b
  BY DEF ToSet
<1>3. DOMAIN s = 1..Len(s) /\ Len(s) \in Nat
  BY DEF OnceEach
<1>4. Position(s, a) \in DOMAIN s /\ s[Position(s, a)] = a
  BY <1>1 DEF Position
<1>5. Position(s, b) \in DOMAIN s /\ s[Position(s, b)] = b
  BY <1>2 DEF Position
<1>6. QED
  BY <1>3, <1>4, <1>5

Letter(url, i) == IF i \in DOMAIN url.path THEN Position(Words, url.path[i]) ELSE 0
HostOf(url) == Position(Hosts, url.host)
SoonerAt(u, v, i) == Letter(u, i) < Letter(v, i) /\ \A j \in 1..(i - 1) : Letter(u, j) = Letter(v, j)

LEMMA LettersAre ==
    ASSUME NEW u \in Urls, NEW v \in Urls
    PROVE  /\ HostOf(u) \in Nat /\ HostOf(v) \in Nat
           /\ HostOf(u) = HostOf(v) => u.host = v.host
           /\ \A i \in Nat \ {0} : /\ Letter(u, i) \in Nat
                                   /\ Letter(u, i) > 0 <=> i \in DOMAIN u.path
           /\ (\A i \in Nat \ {0} : Letter(u, i) = Letter(v, i)) => u.path = v.path
<1>1. /\ u.host \in ToSet(Hosts) /\ v.host \in ToSet(Hosts)
      /\ u.path \in Seq(ToSet(Words)) /\ v.path \in Seq(ToSet(Words))
  BY DEF Urls
<1>2. OnceEach(Words) /\ OnceEach(Hosts)
  BY NamesAssumption
<1>3. /\ HostOf(u) \in Nat /\ HostOf(v) \in Nat
      /\ HostOf(u) = HostOf(v) => u.host = v.host
  BY <1>1, <1>2, PositionIs DEF HostOf
<1>4. ASSUME NEW w \in Urls, NEW i \in Nat \ {0}
      PROVE  Letter(w, i) \in Nat /\ (Letter(w, i) > 0 <=> i \in DOMAIN w.path)
  <2>1. w.path \in Seq(ToSet(Words))
    BY DEF Urls
  <2>2. i \in DOMAIN w.path => w.path[i] \in ToSet(Words)
    BY <2>1, ElementOfSeq
  <2>3. QED
    BY <1>2, <2>2, PositionIs DEF Letter
<1>5. ASSUME \A i \in Nat \ {0} : Letter(u, i) = Letter(v, i)
      PROVE  u.path = v.path
  <2>1. /\ DOMAIN u.path = 1..Len(u.path) /\ Len(u.path) \in Nat
        /\ DOMAIN v.path = 1..Len(v.path) /\ Len(v.path) \in Nat
    BY <1>1
  <2>2. \A i \in Nat \ {0} : i \in DOMAIN u.path <=> i \in DOMAIN v.path
    BY <1>4, <1>5
  <2>3. DOMAIN u.path = DOMAIN v.path
    BY <2>1, <2>2
  <2>4. ASSUME NEW i \in DOMAIN u.path
        PROVE  u.path[i] = v.path[i]
    <3>1. u.path[i] \in ToSet(Words) /\ v.path[i] \in ToSet(Words)
      BY <1>1, <2>1, <2>3, ElementOfSeq
    <3>2. i \in Nat \ {0}
      BY <2>1
    <3>3. Position(Words, u.path[i]) = Position(Words, v.path[i])
      BY <1>5, <2>3, <3>2 DEF Letter
    <3>4. QED
      BY <1>2, <3>1, <3>3, PositionIs
  <2>5. QED
    BY <1>1, <2>3, <2>4
<1>6. QED
  BY <1>3, <1>4, <1>5

LEMMA SoonerIs ==
    ASSUME NEW u \in Urls, NEW v \in Urls
    PROVE  Sooner(u, v) <=>
             \/ HostOf(u) < HostOf(v)
             \/ u.host = v.host /\ \E i \in Nat \ {0} : SoonerAt(u, v, i)
             \/ u.host = v.host /\ u.path = v.path /\ ~u.slash /\ v.slash
<1>1. DOMAIN v.path \subseteq Nat \ {0}
  BY DEF Urls
<1>2. ASSUME NEW i \in Nat \ {0}, SoonerAt(u, v, i)
      PROVE  i \in DOMAIN v.path
  BY <1>2, LettersAre DEF SoonerAt
<1>3. (\E i \in DOMAIN v.path : SoonerAt(u, v, i)) <=> \E i \in Nat \ {0} : SoonerAt(u, v, i)
  BY <1>1, <1>2
<1>4. Sooner(u, v) <=>
         \/ HostOf(u) < HostOf(v)
         \/ u.host = v.host /\ \E i \in DOMAIN v.path : SoonerAt(u, v, i)
         \/ u.host = v.host /\ u.path = v.path /\ ~u.slash /\ v.slash
  BY DEF Sooner, SoonerAt, Letter, HostOf
<1>5. QED
  BY <1>3, <1>4

LEMMA SoonerGoesOn ==
    ASSUME NEW u \in Urls, NEW v \in Urls, NEW w \in Urls, Sooner(u, v), Sooner(v, w)
    PROVE  Sooner(u, w)
<1>1. /\ HostOf(u) \in Nat /\ HostOf(v) \in Nat /\ HostOf(w) \in Nat
      /\ u.host = v.host => HostOf(u) = HostOf(v)
      /\ v.host = w.host => HostOf(v) = HostOf(w)
  BY LettersAre DEF HostOf
<1>2. CASE HostOf(u) < HostOf(v) \/ HostOf(v) < HostOf(w)
  <2>1. HostOf(u) < HostOf(w)
    BY <1>1, <1>2, SoonerIs
  <2>2. QED
    BY <2>1, SoonerIs
<1>3. CASE ~(HostOf(u) < HostOf(v) \/ HostOf(v) < HostOf(w))
  <2>1. u.host = v.host /\ v.host = w.host
    BY <1>3, SoonerIs
  <2>2. ASSUME NEW x \in Urls, NEW y \in Urls, x.path = y.path, NEW i
        PROVE  Letter(x, i) = Letter(y, i)
    BY <2>2 DEF Letter
  <2>3. ASSUME NEW i \in Nat \ {0}, SoonerAt(u, v, i), NEW j \in Nat \ {0}, SoonerAt(v, w, j)
        PROVE  \E k \in Nat \ {0} : SoonerAt(u, w, k)
    <3>1. \A x \in {u, v, w}, k \in Nat \ {0} : Letter(x, k) \in Nat
      BY LettersAre
    <3>2. CASE i <= j
      <4>1. /\ Letter(u, i) <= Letter(v, i) /\ Letter(v, i) <= Letter(w, i)
            /\ Letter(u, i) < Letter(v, i) \/ Letter(v, i) < Letter(w, i)
        <5>1. Letter(u, i) < Letter(v, i)
          BY <2>3 DEF SoonerAt
        <5>2. CASE i = j
          BY <2>3, <3>1, <5>1, <5>2 DEF SoonerAt
        <5>3. CASE i \in 1..(j - 1)
          BY <2>3, <3>1, <5>1, <5>3 DEF SoonerAt
        <5>4. QED
          BY <2>3, <3>2, <5>2, <5>3
      <4>2. Letter(u, i) < Letter(w, i)
        BY <3>1, <4>1
      <4>3. \A k \in 1..(i - 1) : Letter(u, k) = Letter(v, k) /\ Letter(v, k) = Letter(w, k)
        BY <2>3, <3>2 DEF SoonerAt
      <4>4. SoonerAt(u, w, i)
        BY <4>2, <4>3 DEF SoonerAt
      <4>5. QED
        BY <4>4
    <3>3. CASE j < i
      <4>1. /\ Letter(u, j) <= Letter(v, j) /\ Letter(v, j) <= Letter(w, j)
            /\ Letter(u, j) < Letter(v, j) \/ Letter(v, j) < Letter(w, j)
        BY <2>3, <3>1, <3>3 DEF SoonerAt
      <4>2. Letter(u, j) < Letter(w, j)
        BY <3>1, <4>1
      <4>3. \A k \in 1..(j - 1) : Letter(u, k) = Letter(v, k) /\ Letter(v, k) = Letter(w, k)
        BY <2>3, <3>3 DEF SoonerAt
      <4>4. SoonerAt(u, w, j)
        BY <4>2, <4>3 DEF SoonerAt
      <4>5. QED
        BY <4>4
    <3>4. QED
      BY <3>2, <3>3
  <2>4. CASE v.path = w.path /\ ~v.slash /\ w.slash
    <3>1. \A i : SoonerAt(u, v, i) => SoonerAt(u, w, i)
      BY <2>2, <2>4 DEF SoonerAt
    <3>2. QED
      BY <1>3, <2>1, <2>4, <3>1, SoonerIs
  <2>5. CASE u.path = v.path /\ ~u.slash /\ v.slash
    <3>1. \A i : SoonerAt(v, w, i) => SoonerAt(u, w, i)
      BY <2>2, <2>5 DEF SoonerAt
    <3>2. QED
      BY <1>3, <2>1, <2>5, <3>1, SoonerIs
  <2>6. CASE (\E i \in Nat \ {0} : SoonerAt(u, v, i)) /\ \E j \in Nat \ {0} : SoonerAt(v, w, j)
    BY <2>1, <2>3, <2>6, SoonerIs
  <2>7. QED
    BY <1>3, <2>4, <2>5, <2>6, SoonerIs
<1>4. QED
  BY <1>2, <1>3

LEMMA OneIsSooner ==
    ASSUME NEW u \in Urls, NEW v \in Urls, u # v
    PROVE  Sooner(u, v) \/ Sooner(v, u)
<1>1. /\ HostOf(u) \in Nat /\ HostOf(v) \in Nat
      /\ HostOf(u) = HostOf(v) => u.host = v.host
      /\ \A i \in Nat \ {0} : Letter(u, i) \in Nat
  BY LettersAre
<1>0. \A i \in Nat \ {0} : Letter(v, i) \in Nat
  BY LettersAre
<1>2. CASE u.host # v.host
  <2>1. HostOf(u) < HostOf(v) \/ HostOf(v) < HostOf(u)
    BY <1>1, <1>2
  <2>2. QED
    BY <2>1, SoonerIs
<1>3. CASE u.host = v.host /\ u.path # v.path
  <2> DEFINE D == {i \in Nat \ {0} : Letter(u, i) # Letter(v, i)}
  <2>1. D # {}
    BY <1>3, LettersAre
  <2>2. PICK i \in D : \A j \in D : i <= j
    BY <2>1, Smallest
  <2>3. \A j \in 1..(i - 1) : Letter(u, j) = Letter(v, j)
    BY <2>2
  <2>4. SoonerAt(u, v, i) \/ SoonerAt(v, u, i)
    BY <1>0, <1>1, <2>3 DEF SoonerAt
  <2>5. QED
    BY <1>3, <2>4, SoonerIs
<1>4. CASE u.host = v.host /\ u.path = v.path
  <2>1. u.slash # v.slash /\ u.slash \in BOOLEAN /\ v.slash \in BOOLEAN
    BY <1>4 DEF Urls
  <2>2. QED
    BY <1>4, <2>1, SoonerIs
<1>5. QED
  BY <1>2, <1>3, <1>4

LEMMA NoneIsSoonerThanItself ==
    ASSUME NEW u \in Urls
    PROVE  ~Sooner(u, u)
<1>1. HostOf(u) \in Nat /\ \A i \in Nat \ {0} : Letter(u, i) \in Nat
  BY LettersAre
<1>2. QED
  BY <1>1, SoonerIs DEF SoonerAt

LEMMA AlphabeticalIs ==
    ASSUME NEW S, S \subseteq Urls, IsFiniteSet(S)
    PROVE  /\ Alphabetical(S) \in Seq(S)
           /\ \A u \in S : \E k \in DOMAIN Alphabetical(S) : Alphabetical(S)[k] = u
<1> DEFINE R == {p \in S \X S : Sooner(p[1], p[2])}
<1>1. LinearOn(R, S)
  <2>1. \A u, v \in S : <<u, v>> \in R <=> Sooner(u, v)
    OBVIOUS
  <2>2. QED
    BY <2>1, SoonerGoesOn, OneIsSooner, NoneIsSoonerThanItself DEF LinearOn
<1>2. \A u \in S : Preceding(R, S, u) = {v \in S : Sooner(v, u)}
  BY DEF Preceding
<1> HIDE DEF R
<1> DEFINE s == Alphabetical(S)
           chosen(k) == CHOOSE u \in S : Cardinality({v \in S : Sooner(v, u)}) = k - 1
<1>3. s = [k \in 1..Cardinality(S) |-> chosen(k)]
  BY DEF Alphabetical
<1>4. ASSUME NEW k \in 1..Cardinality(S), NEW i \in S, Cardinality(Preceding(R, S, i)) = k - 1
      PROVE  chosen(k) \in S /\ Cardinality(Preceding(R, S, chosen(k))) = k - 1
  <2>1. Cardinality({v \in S : Sooner(v, i)}) = k - 1
    BY <1>2, <1>4
  <2>2. chosen(k) \in S /\ Cardinality({v \in S : Sooner(v, chosen(k))}) = k - 1
    BY <2>1
  <2>3. QED
    BY <1>2, <2>2
<1> HIDE DEF s, chosen
<1>5. InOrder(R, S, s)
  BY <1>3, <1>4 DEF InOrder, HasAt
<1>6. s \in Seq(S) /\ \A u \in S : \E k \in DOMAIN s : s[k] = u
  BY <1>1, <1>5, ListedInOrder
<1>7. QED
  BY <1>6 DEF s

-------------------------------------------------------------------------------
(* What a level claims.                                                    *)

Claims == [seen : SUBSET Urls, asked : Nat, level : Seq(Urls)]

LEMMA NormaliseIs ==
    ASSUME NEW u \in Urls
    PROVE  /\ Normalise(u) \in Urls /\ Normalise(u).host = u.host
           /\ Normalise(u).path = u.path /\ Normalise(u).slash = FALSE
BY DEF Normalise, Urls

LEMMA ClaimOfIs ==
    ASSUME NEW u \in Urls, NEW so \in Claims, NEW most \in Nat
    PROVE  ClaimOf(u, so, most) \in Claims
<1>1. so.seen \in SUBSET Urls /\ so.asked \in Nat /\ so.level \in Seq(Urls)
  BY DEF Claims
<1>2. Normalise(u) \in Urls
  BY NormaliseIs
<1>3. so.seen \cup {Normalise(u)} \in SUBSET Urls /\ so.asked + 1 \in Nat
  BY <1>1, <1>2
<1>4. Append(so.level, u) \in Seq(Urls)
  BY <1>1
<1>5. QED
  BY <1>3, <1>4 DEF ClaimOf, Claims

LEMMA ClaimsRun ==
    ASSUME NEW urls \in Seq(Urls), NEW claimed \in SUBSET Urls, NEW count \in Nat,
           NEW most \in Nat
    PROVE  \E f : /\ f[0] = [seen |-> claimed, asked |-> count, level |-> <<>>]
                  /\ ClaimAll(urls, claimed, count, most) = f[Len(urls)]
                  /\ \A n \in 0..Len(urls) : f[n] \in Claims
                  /\ \A n \in 1..Len(urls) : f[n] = ClaimOf(urls[n], f[n - 1], most)
<1> DEFINE none == [seen |-> claimed, asked |-> count, level |-> <<>>]
           Step(f, n) == IF n = 0 THEN none ELSE ClaimOf(urls[n], f[n - 1], most)
           so == CHOOSE f : f = [n \in 0..Len(urls) |-> Step(f, n)]
           step == [p \in (1..Len(urls)) \X Claims |-> ClaimOf(urls[p[1]], p[2], most)]
<1>1. none \in Claims /\ Len(urls) \in Nat /\ \A n \in 1..Len(urls) : urls[n] \in Urls
  BY ElementOfSeq DEF Claims
<1>2. IsStep(Claims, Len(urls), step)
  <2>1. \A p \in (1..Len(urls)) \X Claims : ClaimOf(urls[p[1]], p[2], most) \in Claims
    BY <1>1, ClaimOfIs
  <2>2. QED
    BY <2>1 DEF IsStep
<1>3. \A n \in 1..Len(urls), c \in Claims : step[<<n, c>>] = ClaimOf(urls[n], c, most)
  OBVIOUS
<1>4. ClaimAll(urls, claimed, count, most) = so[Len(urls)]
  BY DEF ClaimAll
<1> HIDE DEF step, none
<1>5. PICK f : Runs(Claims, Len(urls), none, step, f)
  BY <1>1, <1>2, LoopRuns
<1>6. f = [n \in 0..Len(urls) |-> Step(f, n)]
  <2>1. ASSUME NEW n \in 1..Len(urls)
        PROVE  f[n] = ClaimOf(urls[n], f[n - 1], most)
    <3>1. n - 1 \in 0..Len(urls)
      OBVIOUS
    <3>2. f[n - 1] \in Claims /\ f[n] = step[<<n, f[n - 1]>>]
      BY <1>5, <3>1 DEF Runs
    <3>3. QED
      BY <1>3, <3>2
  <2>2. \A n \in 0..Len(urls) : n = 0 \/ n \in 1..Len(urls)
    OBVIOUS
  <2>3. \A n \in 0..Len(urls) : f[n] = Step(f, n)
    BY <1>5, <2>1, <2>2 DEF Runs
  <2>4. f \in [0..Len(urls) -> Claims]
    BY <1>5 DEF Runs
  <2> HIDE DEF Step
  <2>5. QED
    BY <2>3, <2>4
<1>7. so = [n \in 0..Len(urls) |-> Step(so, n)]
  BY <1>6
<1>8. \A n \in 0..Len(urls) : so[n] = Step(so, n)
  BY <1>7
<1> HIDE DEF so
<1>9. so[0] = none /\ \A n \in 1..Len(urls) : so[n] = ClaimOf(urls[n], so[n - 1], most)
  <2>1. 0 \in 0..Len(urls) /\ \A n \in 1..Len(urls) : n \in 0..Len(urls) /\ n # 0
    BY <1>1
  <2>2. QED
    BY <1>8, <2>1
<1>10. \A n \in 0..Len(urls) : so[n] \in Claims
  <2> DEFINE Bad == {n \in 0..Len(urls) : so[n] \notin Claims}
  <2>1. SUFFICES ASSUME Bad # {} PROVE FALSE
    OBVIOUS
  <2>2. PICK k \in Bad : \A n \in Bad : k <= n
    <3>1. Bad \subseteq Nat
      BY <1>1
    <3>2. QED
      BY <2>1, <3>1, Smallest
  <2>3. k # 0
    BY <1>1, <1>9
  <2>4. k \in 1..Len(urls) /\ k - 1 \in 0..Len(urls) /\ k - 1 \notin Bad
    BY <1>1, <2>2, <2>3
  <2>5. so[k - 1] \in Claims /\ urls[k] \in Urls
    BY <1>1, <2>4
  <2>6. QED
    BY <1>9, <2>2, <2>4, <2>5, ClaimOfIs
<1>11. QED
  BY <1>4, <1>9, <1>10 DEF none

(* Of the URLs asked for, those claimed are new and different resources,   *)
(* counted; and where the budget was not the reason, none is left out.     *)
Claimed(urls, n, claimed, count, most, so) ==
    /\ so \in Claims
    /\ IsFiniteSet(so.seen) /\ Cardinality(so.seen) = so.asked
    /\ so.seen = claimed \cup {Normalise(so.level[i]) : i \in DOMAIN so.level}
    /\ \A i \in DOMAIN so.level :
         Normalise(so.level[i]) \notin claimed /\ \E j \in 1..n : so.level[i] = urls[j]
    /\ \A i, j \in DOMAIN so.level :
         Normalise(so.level[i]) = Normalise(so.level[j]) => i = j
    /\ so.asked <= most
    /\ so.asked < most => \A i \in 1..n : Normalise(urls[i]) \in so.seen

LEMMA ClaimedGoesOn ==
    ASSUME NEW urls \in Seq(Urls), NEW claimed \in SUBSET Urls, NEW count \in Nat,
           NEW most \in Nat, NEW n \in 1..Len(urls), NEW so,
           Claimed(urls, n - 1, claimed, count, most, so)
    PROVE  Claimed(urls, n, claimed, count, most, ClaimOf(urls[n], so, most))
<1> DEFINE u == urls[n]
           next == ClaimOf(u, so, most)
<1>1. so \in Claims /\ u \in Urls
  BY ElementOfSeq DEF Claimed
<1>2. /\ so.seen \in SUBSET Urls /\ so.asked \in Nat /\ so.level \in Seq(Urls)
      /\ DOMAIN so.level = 1..Len(so.level) /\ Len(so.level) \in Nat
      /\ n \in Nat /\ n > 0 /\ \A j \in 1..(n - 1) : j \in 1..n
      /\ \A j \in 1..n : j = n \/ j \in 1..(n - 1)
  BY <1>1 DEF Claims
<1>3. next \in Claims /\ Normalise(u) \in Urls
  BY <1>1, ClaimOfIs, NormaliseIs
<1>4. /\ Normalise(u) \in so.seen \/ so.asked >= most => next = so
      /\ ~(Normalise(u) \in so.seen \/ so.asked >= most) =>
           next = [seen |-> so.seen \cup {Normalise(u)}, asked |-> so.asked + 1,
                   level |-> Append(so.level, u)]
  BY DEF ClaimOf
<1>5. urls[n] = u
  OBVIOUS
<1> HIDE DEF u, next
<1>6. CASE Normalise(u) \in so.seen \/ so.asked >= most
  <2>1. \A i \in DOMAIN so.level : \E j \in 1..n : so.level[i] = urls[j]
    BY <1>2 DEF Claimed
  <2>2. ASSUME so.asked < most, NEW i \in 1..n
        PROVE  Normalise(urls[i]) \in so.seen
    <3>1. CASE i = n
      BY <1>2, <1>5, <1>6, <2>2, <3>1
    <3>2. CASE i \in 1..(n - 1)
      BY <2>2, <3>2 DEF Claimed
    <3>3. QED
      BY <1>2, <3>1, <3>2
  <2>3. Claimed(urls, n, claimed, count, most, so)
    BY <2>1, <2>2 DEF Claimed
  <2>4. QED
    BY <1>4, <1>6, <2>3 DEF next, u
<1>7. CASE ~(Normalise(u) \in so.seen \/ so.asked >= most)
  <2>1. /\ next.seen = so.seen \cup {Normalise(u)} /\ next.asked = so.asked + 1
        /\ next.level = Append(so.level, u)
    BY <1>4, <1>7
  <2> DEFINE m == Len(so.level)
             l == next.level
  <2>2. /\ DOMAIN l = 1..(m + 1) /\ l[m + 1] = u
        /\ \A i \in 1..m : l[i] = so.level[i]
    BY <1>1, <1>2, <2>1, AppendProperties
  <2>0. m \in Nat /\ DOMAIN so.level = 1..m
    BY <1>2
  <2> HIDE DEF m, l
  <2>3. /\ m + 1 \in DOMAIN l
        /\ \A i \in DOMAIN so.level : i \in DOMAIN l /\ l[i] = so.level[i]
        /\ \A i \in DOMAIN l : i = m + 1 \/ (i \in DOMAIN so.level /\ l[i] = so.level[i])
    <3>1. m + 1 \in 1..(m + 1) /\ \A i \in 1..m : i \in 1..(m + 1)
      BY <2>0
    <3>2. \A i \in 1..(m + 1) : i = m + 1 \/ i \in 1..m
      BY <2>0
    <3>3. m + 1 \in DOMAIN l
      BY <2>2, <3>1
    <3>4. \A i \in DOMAIN so.level : i \in DOMAIN l /\ l[i] = so.level[i]
      BY <2>0, <2>2, <3>1
    <3>5. \A i \in DOMAIN l : i = m + 1 \/ (i \in DOMAIN so.level /\ l[i] = so.level[i])
      BY <2>0, <2>2, <3>2
    <3>6. QED
      BY <3>3, <3>4, <3>5
  <2>4. IsFiniteSet(next.seen) /\ Cardinality(next.seen) = next.asked
    <3>1. IsFiniteSet(so.seen) /\ Cardinality(so.seen) = so.asked /\ Normalise(u) \notin so.seen
      BY <1>7 DEF Claimed
    <3>2. /\ IsFiniteSet(so.seen \cup {Normalise(u)})
          /\ Cardinality(so.seen \cup {Normalise(u)}) = Cardinality(so.seen) + 1
      BY <3>1, FS_AddElement
    <3>3. QED
      BY <2>1, <3>1, <3>2
  <2>5. next.seen = claimed \cup {Normalise(l[i]) : i \in DOMAIN l}
    <3>1. {Normalise(l[i]) : i \in DOMAIN l}
            = {Normalise(so.level[i]) : i \in DOMAIN so.level} \cup {Normalise(u)}
      BY <2>2, <2>3
    <3>2. QED
      BY <2>1, <3>1 DEF Claimed
  <2>6. \A i \in DOMAIN l : Normalise(l[i]) \notin claimed /\ \E j \in 1..n : l[i] = urls[j]
    <3>1. Normalise(u) \notin claimed
      BY <1>7 DEF Claimed
    <3>2. n \in 1..n
      BY <1>2
    <3>3. \A i \in DOMAIN so.level :
             Normalise(so.level[i]) \notin claimed /\ \E j \in 1..n : so.level[i] = urls[j]
      BY <1>2 DEF Claimed
    <3>4. QED
      BY <1>5, <2>2, <2>3, <3>1, <3>2, <3>3
  <2>7. \A i, j \in DOMAIN l : Normalise(l[i]) = Normalise(l[j]) => i = j
    <3>1. \A i \in DOMAIN so.level : Normalise(so.level[i]) # Normalise(u)
      BY <1>7 DEF Claimed
    <3>2. QED
      BY <2>2, <2>3, <3>1 DEF Claimed
  <2>8. /\ next.asked <= most
        /\ next.asked < most => \A i \in 1..n : Normalise(urls[i]) \in next.seen
    <3>1. so.asked < most
      BY <1>2, <1>7
    <3>2. \A i \in 1..n : Normalise(urls[i]) \in next.seen
      BY <1>2, <1>5, <2>1, <3>1 DEF Claimed
    <3>3. QED
      BY <1>2, <2>1, <3>1, <3>2
  <2>9. Claimed(urls, n, claimed, count, most, next)
    BY <1>3, <2>4, <2>5, <2>6, <2>7, <2>8 DEF Claimed, l
  <2>10. QED
    BY <2>9 DEF next, u
<1>8. QED
  BY <1>6, <1>7

LEMMA ClaimsAre ==
    ASSUME NEW urls \in Seq(Urls), NEW claimed \in SUBSET Urls, NEW count \in Nat,
           NEW most \in Nat, IsFiniteSet(claimed), Cardinality(claimed) = count,
           count <= most
    PROVE  Claimed(urls, Len(urls), claimed, count, most,
                   ClaimAll(urls, claimed, count, most))
<1>1. PICK f : /\ f[0] = [seen |-> claimed, asked |-> count, level |-> <<>>]
               /\ ClaimAll(urls, claimed, count, most) = f[Len(urls)]
               /\ \A n \in 0..Len(urls) : f[n] \in Claims
               /\ \A n \in 1..Len(urls) : f[n] = ClaimOf(urls[n], f[n - 1], most)
  BY ClaimsRun
<1> DEFINE Good(n) == Claimed(urls, n, claimed, count, most, f[n])
           Bad == {n \in 0..Len(urls) : ~Good(n)}
<1>2. Good(0)
  <2>1. f[0].seen = claimed /\ f[0].asked = count /\ f[0].level = <<>> /\ f[0] \in Claims
    BY <1>1
  <2>2. DOMAIN f[0].level = {} /\ 1..0 = {}
    BY <2>1
  <2>3. QED
    BY <2>1, <2>2 DEF Claimed
<1>3. ASSUME NEW n \in 1..Len(urls), Good(n - 1)
      PROVE  Good(n)
  <2>1. f[n] = ClaimOf(urls[n], f[n - 1], most)
    BY <1>1
  <2>2. QED
    BY <1>3, <2>1, ClaimedGoesOn
<1> HIDE DEF Good
<1>4. ASSUME Bad # {}
      PROVE  FALSE
  <2>1. PICK k \in Bad : \A n \in Bad : k <= n
    <3>1. Bad \subseteq Nat
      OBVIOUS
    <3>2. QED
      BY <1>4, <3>1, Smallest
  <2>2. k # 0
    BY <1>2
  <2>3. k \in 1..Len(urls) /\ k - 1 \in 0..Len(urls) /\ k - 1 \notin Bad
    BY <2>1, <2>2
  <2>4. QED
    BY <1>3, <2>3
<1>5. Good(Len(urls))
  BY <1>4
<1>6. QED
  BY <1>1, <1>5 DEF Good

-------------------------------------------------------------------------------
(* What a document leads to.                                               *)

LEMMA ThoseOf ==
    ASSUME NEW T, NEW s \in Seq(T), NEW S
    PROVE  /\ Those(s, S) \in Seq(T)
           /\ \A i \in DOMAIN Those(s, S) :
                Those(s, S)[i] \in S /\ \E j \in DOMAIN s : Those(s, S)[i] = s[j]
           /\ \A j \in DOMAIN s : s[j] \in S => \E i \in DOMAIN Those(s, S) : Those(s, S)[i] = s[j]
<1> DEFINE t == Those(s, S)
<1>1. t \in Seq(T)
  BY ThoseAre
<1>2. PICK p : Placing(s, S, Len(s), t, p)
  BY ThoseAre
<1> HIDE DEF t
<1>3. /\ DOMAIN s = 1..Len(s) /\ p \in Seq(1..Len(s)) /\ Len(p) = Len(t)
      /\ DOMAIN p = DOMAIN t
  BY <1>1, <1>2 DEF Placing
<1>4. \A i \in DOMAIN t : p[i] \in DOMAIN s /\ t[i] = s[p[i]] /\ s[p[i]] \in S
  BY <1>2, <1>3, ElementOfSeq DEF Placing
<1>5. \A j \in DOMAIN s : s[j] \in S => \E i \in DOMAIN t : t[i] = s[j]
  BY <1>2, <1>3, <1>4 DEF Placing
<1>6. \A i \in DOMAIN t : t[i] \in S /\ \E j \in DOMAIN s : t[i] = s[j]
  BY <1>4
<1>7. QED
  BY <1>1, <1>5, <1>6 DEF t

Links == [to : Urls, navigation : BOOLEAN]

LEMMA TargetsAre ==
    ASSUME NEW l \in Seq(Links)
    PROVE  [i \in DOMAIN l |-> l[i].to] \in Seq(Urls)
<1>1. \A i \in 1..Len(l) : l[i] \in Links
  BY ElementOfSeq
<1>2. \A i \in 1..Len(l) : l[i].to \in Urls
  BY <1>1 DEF Links
<1>3. DOMAIN l = 1..Len(l) /\ Len(l) \in Nat
  OBVIOUS
<1>4. QED
  BY <1>2, <1>3, IsASeq

LEMMA LinksAre ==
    ASSUME NEW d \in Documents
    PROVE  /\ LinksFrom(d) \in Seq(Urls)
           /\ \A i \in DOMAIN LinksFrom(d) : Within(LinksFrom(d)[i], surface.base)
<1> DEFINE onward == Those(d.links, {l \in ToSet(d.links) : Leads(l)})
<1>1. d.links \in Seq(Links)
  BY DEF Documents, Links
<1>2. onward \in Seq(Links) /\ \A i \in DOMAIN onward : Leads(onward[i])
  BY <1>1, ThoseOf
<1>3. LinksFrom(d) = IF d.kind = "description" THEN <<>>
                     ELSE [i \in DOMAIN onward |-> onward[i].to]
  BY DEF LinksFrom
<1> HIDE DEF onward
<1>4. [i \in DOMAIN onward |-> onward[i].to] \in Seq(Urls)
  BY <1>2, TargetsAre
<1>5. \A i \in DOMAIN onward : Within(onward[i].to, surface.base)
  BY <1>2 DEF Leads
<1>6. QED
  BY <1>3, <1>4, <1>5

LEMMA PathsAre ==
    ASSUME NEW d \in Documents
    PROVE  PathsFrom(d) \in Seq(Urls)
<1> DEFINE named == Those(d.links, {l \in ToSet(d.links) : WorthFetching(l.to)})
<1>1. d.links \in Seq(Links)
  BY DEF Documents, Links
<1>2. named \in Seq(Links)
  BY <1>1, ThoseOf
<1>3. PathsFrom(d) = IF d.kind # "description" THEN <<>>
                     ELSE [i \in DOMAIN named |-> named[i].to]
  BY DEF PathsFrom
<1> HIDE DEF named
<1>4. QED
  BY <1>2, <1>3, TargetsAre

LEMMA NamedAre ==
    ASSUME NEW u, heard[u] \in Documents
    PROVE  /\ Named(u) \in Seq(Urls)
           /\ \A i \in DOMAIN Named(u) :
                \/ Within(Named(u)[i], surface.base)
                \/ Within(u, surface.base) /\ Named(u)[i] \in ToSet(PathsFrom(heard[u]))
<1> DEFINE paths == PathsFrom(heard[u])
           within == Those(paths, {p \in ToSet(paths) : Within(p, surface.base)})
<1>1. paths \in Seq(Urls)
  BY PathsAre
<1>2. within \in Seq(Urls) /\ \A i \in DOMAIN within : Within(within[i], surface.base)
  BY <1>1, ThoseOf
<1>3. Named(u) = IF within # <<>> THEN within
                 ELSE IF Within(u, surface.base) THEN paths ELSE <<>>
  BY DEF Named
<1>4. \A i \in DOMAIN paths : paths[i] \in ToSet(paths)
  BY DEF ToSet
<1> HIDE DEF within, paths
<1>5. QED
  BY <1>1, <1>2, <1>3, <1>4 DEF paths

-------------------------------------------------------------------------------
(* What the answers of a level lead to, one after another.                 *)
LEMMA FlattenedRuns ==
    ASSUME NEW T, NEW s \in Seq(Seq(T)), Len(s) > 0
    PROVE  \E f : /\ FlattenSeq(s) = f[Len(s)] /\ f[1] = s[1]
                  /\ \A n \in 2..Len(s) : f[n] = f[n - 1] \o s[n]
<1> DEFINE Step(f, n) == IF n = 1 THEN s[n] ELSE f[n - 1] \o s[n]
           so == CHOOSE f : f = [n \in 1..Len(s) |-> Step(f, n)]
           step == [p \in (1..Len(s)) \X Seq(T) |->
                      IF p[1] = 1 THEN s[1] ELSE p[2] \o s[p[1]]]
<1>1. Len(s) \in Nat /\ <<>> \in Seq(T) /\ \A n \in 1..Len(s) : s[n] \in Seq(T)
  BY ElementOfSeq
<1>2. IsStep(Seq(T), Len(s), step)
  <2>1. \A p \in (1..Len(s)) \X Seq(T) : p[2] \o s[p[1]] \in Seq(T) /\ s[1] \in Seq(T)
    BY <1>1, ConcatProperties
  <2>2. QED
    BY <2>1 DEF IsStep
<1>3. \A n \in 1..Len(s), t \in Seq(T) : step[<<n, t>>] = IF n = 1 THEN s[1] ELSE t \o s[n]
  OBVIOUS
<1>4. FlattenSeq(s) = so[Len(s)]
  BY DEF FlattenSeq
<1> HIDE DEF step
<1>5. PICK f : Runs(Seq(T), Len(s), <<>>, step, f)
  BY <1>1, <1>2, LoopRuns
<1> DEFINE g == [n \in 1..Len(s) |-> f[n]]
<1>6. g = [n \in 1..Len(s) |-> Step(g, n)]
  <2>1. ASSUME NEW n \in 1..Len(s)
        PROVE  g[n] = Step(g, n)
    <3>1. n - 1 \in 0..Len(s) /\ f[n - 1] \in Seq(T)
      BY <1>5 DEF Runs
    <3>2. f[n] = IF n = 1 THEN s[1] ELSE f[n - 1] \o s[n]
      BY <1>3, <1>5, <3>1 DEF Runs
    <3>3. n # 1 => g[n - 1] = f[n - 1]
      OBVIOUS
    <3>4. QED
      BY <3>2, <3>3
  <2>2. g \in [1..Len(s) -> {f[n] : n \in 1..Len(s)}]
    OBVIOUS
  <2> HIDE DEF Step, g
  <2>3. QED
    BY <2>1, <2>2
<1>7. so = [n \in 1..Len(s) |-> Step(so, n)]
  BY <1>6
<1>8. \A n \in 1..Len(s) : so[n] = Step(so, n)
  BY <1>7
<1> HIDE DEF so
<1>9. so[1] = s[1] /\ \A n \in 2..Len(s) : so[n] = so[n - 1] \o s[n]
  <2>1. 1 \in 1..Len(s) /\ \A n \in 2..Len(s) : n \in 1..Len(s) /\ n # 1
    BY <1>1
  <2>2. QED
    BY <1>8, <2>1
<1>10. QED
  BY <1>4, <1>9

Gathers(s, n, t) ==
    /\ \A k \in DOMAIN t : \E i \in 1..n : \E j \in DOMAIN s[i] : t[k] = s[i][j]
    /\ \A i \in 1..n : \A j \in DOMAIN s[i] : \E k \in DOMAIN t : t[k] = s[i][j]

LEMMA GathersMore ==
    ASSUME NEW T, NEW s \in Seq(Seq(T)), NEW n \in 2..Len(s), NEW t \in Seq(T),
           Gathers(s, n - 1, t)
    PROVE  t \o s[n] \in Seq(T) /\ Gathers(s, n, t \o s[n])
<1> DEFINE r == s[n]
           u == t \o r
<1>1. r \in Seq(T) /\ Len(r) \in Nat /\ Len(t) \in Nat
      /\ DOMAIN r = 1..Len(r) /\ DOMAIN t = 1..Len(t)
  BY ElementOfSeq
<1>2. /\ u \in Seq(T) /\ DOMAIN u = 1..(Len(t) + Len(r))
      /\ \A k \in 1..(Len(t) + Len(r)) : u[k] = IF k <= Len(t) THEN t[k] ELSE r[k - Len(t)]
  BY <1>1, ConcatProperties
<1>3. n \in 1..n /\ \A i \in 1..(n - 1) : i \in 1..n
  OBVIOUS
<1>4. \A i \in 1..n : i = n \/ i \in 1..(n - 1)
  OBVIOUS
<1>5. r = s[n]
  OBVIOUS
<1> HIDE DEF u, r
<1>6. ASSUME NEW k \in DOMAIN u
      PROVE  \E i \in 1..n : \E j \in DOMAIN s[i] : u[k] = s[i][j]
  <2>1. CASE k <= Len(t)
    <3>1. k \in DOMAIN t /\ u[k] = t[k]
      BY <1>1, <1>2, <2>1
    <3>2. PICK i \in 1..(n - 1) : \E j \in DOMAIN s[i] : t[k] = s[i][j]
      BY <3>1 DEF Gathers
    <3>3. QED
      BY <1>3, <3>1, <3>2
  <2>2. CASE k > Len(t)
    <3>1. k - Len(t) \in DOMAIN r /\ u[k] = r[k - Len(t)]
      BY <1>1, <1>2, <2>2
    <3>2. QED
      BY <1>3, <1>5, <3>1
  <2>3. QED
    BY <1>1, <1>2, <2>1, <2>2
<1>7. ASSUME NEW i \in 1..n, NEW j \in DOMAIN s[i]
      PROVE  \E k \in DOMAIN u : u[k] = s[i][j]
  <2>1. CASE i = n
    <3>1. j \in DOMAIN r /\ s[i][j] = r[j]
      BY <1>5, <2>1
    <3>2. /\ Len(t) + j \in 1..(Len(t) + Len(r)) /\ ~(Len(t) + j <= Len(t))
          /\ (Len(t) + j) - Len(t) = j
      <4> DEFINE p == Len(t)
                 q == Len(r)
      <4>1. p \in Nat /\ q \in Nat /\ j \in 1..q
        BY <1>1, <3>1
      <4> HIDE DEF p, q
      <4>2. p + j \in 1..(p + q) /\ ~(p + j <= p) /\ (p + j) - p = j
        BY <4>1
      <4>3. QED
        BY <4>2 DEF p, q
    <3>3. Len(t) + j \in DOMAIN u /\ u[Len(t) + j] = r[j]
      BY <1>2, <3>2
    <3>4. QED
      BY <3>1, <3>3
  <2>2. CASE i \in 1..(n - 1)
    <3>1. PICK k \in DOMAIN t : t[k] = s[i][j]
      BY <2>2 DEF Gathers
    <3>2. k \in 1..(Len(t) + Len(r)) /\ k <= Len(t)
      BY <1>1, <3>1
    <3>3. k \in DOMAIN u /\ u[k] = t[k]
      BY <1>2, <3>2
    <3>4. QED
      BY <3>1, <3>3
  <2>3. QED
    BY <1>4, <2>1, <2>2
<1>8. Gathers(s, n, u)
  BY <1>6, <1>7 DEF Gathers
<1>9. QED
  BY <1>2, <1>8 DEF u, r

LEMMA FlattenedIs ==
    ASSUME NEW T, NEW s \in Seq(Seq(T))
    PROVE  FlattenSeq(s) \in Seq(T) /\ Gathers(s, Len(s), FlattenSeq(s))
<1>1. CASE Len(s) = 0
  <2>1. s = <<>>
    BY <1>1
  <2>2. FlattenSeq(s) = s
    BY <1>1 DEF FlattenSeq
  <2>3. 1..0 = {} /\ DOMAIN s = {}
    BY <2>1
  <2>4. Gathers(s, 0, s)
    BY <2>3 DEF Gathers
  <2>5. s \in Seq(T)
    BY <2>1, EmptySeq
  <2>6. QED
    BY <1>1, <2>2, <2>4, <2>5
<1>2. CASE Len(s) > 0
  <2>1. PICK f : /\ FlattenSeq(s) = f[Len(s)] /\ f[1] = s[1]
                 /\ \A n \in 2..Len(s) : f[n] = f[n - 1] \o s[n]
    BY <1>2, FlattenedRuns
  <2> DEFINE Good(n) == f[n] \in Seq(T) /\ Gathers(s, n, f[n])
             Bad == {n \in 1..Len(s) : ~Good(n)}
  <2>2. Good(1)
    <3>1. s[1] \in Seq(T) /\ 1 \in 1..1 /\ \A i \in 1..1 : i = 1
      BY <1>2, ElementOfSeq
    <3>2. Gathers(s, 1, s[1])
      BY <3>1 DEF Gathers
    <3>3. QED
      BY <2>1, <3>1, <3>2
  <2>3. ASSUME NEW n \in 2..Len(s), Good(n - 1)
        PROVE  Good(n)
    <3>1. f[n] = f[n - 1] \o s[n]
      BY <2>1
    <3>2. QED
      BY <2>3, <3>1, GathersMore
  <2> HIDE DEF Good
  <2>4. ASSUME Bad # {}
        PROVE  FALSE
    <3>1. PICK k \in Bad : \A n \in Bad : k <= n
      <4>1. Bad \subseteq Nat
        OBVIOUS
      <4>2. QED
        BY <2>4, <4>1, Smallest
    <3>2. k # 1
      BY <2>2
    <3>3. k \in 2..Len(s) /\ k - 1 \in 1..Len(s) /\ k - 1 \notin Bad
      BY <3>1, <3>2
    <3>4. QED
      BY <2>3, <3>3
  <2>5. Good(Len(s))
    BY <1>2, <2>4
  <2>6. QED
    BY <2>1, <2>5 DEF Good
<1>3. QED
  BY <1>1, <1>2

-------------------------------------------------------------------------------
(* What of the links is new, collections before records.                   *)

Fresh(urls) ==
    {i \in DOMAIN urls : /\ Normalise(urls[i]) \notin seen
                         /\ \A j \in 1..(i - 1) : Normalise(urls[j]) # Normalise(urls[i])}
Weight(url) == (IF IsRecordUrl(url) THEN 100 ELSE 0) + Length(url)
Lighter(urls, i, j) ==
    \/ Weight(urls[i]) < Weight(urls[j])
    \/ (Weight(urls[i]) = Weight(urls[j]) /\ i < j)

LEMMA FreshIs ==
    ASSUME NEW urls \in Seq(Urls)
    PROVE  /\ IsFiniteSet(Fresh(urls))
           /\ \A j \in DOMAIN urls : Normalise(urls[j]) \notin seen =>
                \E i \in Fresh(urls) : Normalise(urls[i]) = Normalise(urls[j])
<1>1. DOMAIN urls = 1..Len(urls) /\ Len(urls) \in Nat
  OBVIOUS
<1>2. IsFiniteSet(Fresh(urls))
  <2>1. IsFiniteSet(1..Len(urls))
    BY <1>1, FS_Interval
  <2>2. Fresh(urls) \subseteq 1..Len(urls)
    BY <1>1 DEF Fresh
  <2>3. QED
    BY <2>1, <2>2, FS_Subset
<1>3. ASSUME NEW j \in DOMAIN urls, Normalise(urls[j]) \notin seen
      PROVE  \E i \in Fresh(urls) : Normalise(urls[i]) = Normalise(urls[j])
  <2> DEFINE Same == {i \in DOMAIN urls : Normalise(urls[i]) = Normalise(urls[j])}
  <2>1. PICK i \in Same : \A k \in Same : i <= k
    <3>1. Same # {} /\ Same \subseteq Nat
      BY <1>1
    <3>2. QED
      BY <3>1, Smallest
  <2>2. \A k \in 1..(i - 1) : k \in DOMAIN urls /\ ~(i <= k)
    BY <1>1, <2>1
  <2>3. \A k \in 1..(i - 1) : Normalise(urls[k]) # Normalise(urls[i])
    BY <2>1, <2>2
  <2>4. i \in Fresh(urls)
    BY <1>3, <2>1, <2>3 DEF Fresh
  <2>5. QED
    BY <2>1, <2>4
<1>4. QED
  BY <1>2, <1>3

LEMMA LighterIsAnOrder ==
    ASSUME NEW urls \in Seq(Urls)
    PROVE  LinearOn({p \in Fresh(urls) \X Fresh(urls) : Lighter(urls, p[1], p[2])}, Fresh(urls))
<1> DEFINE S == Fresh(urls)
           R == {p \in S \X S : Lighter(urls, p[1], p[2])}
<1>1. \A i \in S : i \in Nat /\ Weight(urls[i]) \in Nat
  <2>1. ASSUME NEW u \in Urls
        PROVE  Weight(u) \in Nat
    <3>1. Len(u.path) \in Nat
      BY DEF Urls
    <3>2. Length(u) \in Nat
      <4>1. CASE u.slash
        BY <3>1, <4>1 DEF Length
      <4>2. CASE ~u.slash
        BY <3>1, <4>2 DEF Length
      <4>3. QED
        BY <4>1, <4>2
    <3>3. QED
      BY <3>2 DEF Weight
  <2>2. \A i \in S : i \in Nat /\ urls[i] \in Urls
    BY ElementOfSeq DEF Fresh
  <2>3. QED
    BY <2>1, <2>2
<1>2. \A i, j \in S : <<i, j>> \in R <=> Lighter(urls, i, j)
  OBVIOUS
<1> HIDE DEF S, R
<1>3. LinearOn(R, S)
  BY <1>1, <1>2 DEF LinearOn, Lighter
<1>4. QED
  BY <1>3 DEF R, S

LEMMA UnvisitedAre ==
    ASSUME NEW urls \in Seq(Urls)
    PROVE  /\ Unvisited(urls) \in Seq(Urls)
           /\ \A k \in DOMAIN Unvisited(urls) : \E j \in DOMAIN urls :
                Unvisited(urls)[k] = urls[j]
           /\ \A j \in DOMAIN urls : Normalise(urls[j]) \notin seen =>
                \E k \in DOMAIN Unvisited(urls) :
                  Normalise(Unvisited(urls)[k]) = Normalise(urls[j])
<1> DEFINE S == Fresh(urls)
           R == {p \in S \X S : Lighter(urls, p[1], p[2])}
           chosen(k) == CHOOSE i \in S : Cardinality({j \in S : Lighter(urls, j, i)}) = k - 1
           order == [k \in 1..Cardinality(S) |-> chosen(k)]
           v == Unvisited(urls)
<1>1. v = [k \in 1..Cardinality(S) |-> urls[chosen(k)]]
  BY DEF Unvisited, Fresh, Lighter, Weight
<1>2. IsFiniteSet(S) /\ LinearOn(R, S)
  BY FreshIs, LighterIsAnOrder
<1>3. \A i \in S : Preceding(R, S, i) = {j \in S : Lighter(urls, j, i)}
  BY DEF Preceding
<1>4. ASSUME NEW k \in 1..Cardinality(S), NEW i \in S, Cardinality(Preceding(R, S, i)) = k - 1
      PROVE  chosen(k) \in S /\ Cardinality(Preceding(R, S, chosen(k))) = k - 1
  <2>1. Cardinality({j \in S : Lighter(urls, j, i)}) = k - 1
    BY <1>3, <1>4
  <2>2. chosen(k) \in S /\ Cardinality({j \in S : Lighter(urls, j, chosen(k))}) = k - 1
    BY <2>1
  <2>3. QED
    BY <1>3, <2>2
<1>5. S \subseteq DOMAIN urls
  BY DEF Fresh
<1> HIDE DEF S, R, chosen, v
<1>6. InOrder(R, S, order)
  BY <1>4 DEF InOrder, HasAt
<1>7. order \in Seq(S) /\ \A i \in S : \E k \in DOMAIN order : order[k] = i
  <2> HIDE DEF order
  <2>1. QED
    BY <1>2, <1>6, ListedInOrder
<1>8. Cardinality(S) \in Nat /\ DOMAIN order = 1..Cardinality(S)
  BY <1>2, FS_CardinalityType
<1>9. v = [k \in 1..Cardinality(S) |-> urls[order[k]]]
  BY <1>1
<1> HIDE DEF order
<1>10. \A k \in 1..Cardinality(S) : order[k] \in S
  BY <1>7, <1>8, ElementOfSeq
<1>11. DOMAIN v = 1..Cardinality(S) /\ \A k \in DOMAIN v : order[k] \in S /\ v[k] = urls[order[k]]
  BY <1>9, <1>10
<1>12. v \in Seq(Urls)
  <2>1. \A k \in 1..Cardinality(S) : urls[order[k]] \in Urls
    BY <1>5, <1>10, ElementOfSeq
  <2>2. QED
    BY <1>8, <1>9, <2>1, IsASeq
<1>13. ASSUME NEW j \in DOMAIN urls, Normalise(urls[j]) \notin seen
       PROVE  \E k \in DOMAIN v : Normalise(v[k]) = Normalise(urls[j])
  <2>1. PICK i \in S : Normalise(urls[i]) = Normalise(urls[j])
    BY <1>13, FreshIs DEF S
  <2>2. PICK k \in DOMAIN order : order[k] = i
    BY <1>7
  <2>3. QED
    BY <1>8, <1>11, <2>1, <2>2
<1>14. QED
  BY <1>5, <1>11, <1>12, <1>13 DEF v

LEMMA HarvestIs ==
    ASSUME NEW urls \in Seq(Urls), \A i \in DOMAIN urls : heard[urls[i]] \in Documents
    PROVE  /\ Harvest(urls) \in Seq(Urls)
           /\ \A k \in DOMAIN Harvest(urls) : Within(Harvest(urls)[k], surface.base)
           /\ \A i \in DOMAIN urls : \A j \in DOMAIN LinksFrom(heard[urls[i]]) :
                \E k \in DOMAIN Harvest(urls) : Harvest(urls)[k] = LinksFrom(heard[urls[i]])[j]
<1> DEFINE s == [i \in DOMAIN urls |-> LinksFrom(heard[urls[i]])]
           h == Harvest(urls)
<1>1. DOMAIN urls = 1..Len(urls) /\ Len(urls) \in Nat
  OBVIOUS
<1>2. s \in Seq(Seq(Urls)) /\ Len(s) = Len(urls)
  <2>1. \A i \in 1..Len(urls) : LinksFrom(heard[urls[i]]) \in Seq(Urls)
    BY <1>1, LinksAre
  <2>2. QED
    BY <1>1, <2>1, IsASeq
<1>3. h = FlattenSeq(s)
  BY DEF Harvest
<1>4. \A i \in 1..Len(urls) : s[i] = LinksFrom(heard[urls[i]])
  BY <1>1
<1> HIDE DEF s, h
<1>5. h \in Seq(Urls) /\ Gathers(s, Len(urls), h)
  BY <1>2, <1>3, FlattenedIs
<1>6. \A k \in DOMAIN h : Within(h[k], surface.base)
  BY <1>1, <1>4, <1>5, LinksAre DEF Gathers
<1>7. \A i \in DOMAIN urls : \A j \in DOMAIN LinksFrom(heard[urls[i]]) :
         \E k \in DOMAIN h : h[k] = LinksFrom(heard[urls[i]])[j]
  BY <1>1, <1>4, <1>5 DEF Gathers
<1>8. QED
  BY <1>5, <1>6, <1>7 DEF h

-------------------------------------------------------------------------------
(* A crawl keeps its types, claims nothing twice, and stays on its surface. *)

CrawlTyped ==
    /\ IsSurface(surface)
    /\ level \in Seq(Urls)
    /\ flying \subseteq {i \in DOMAIN level : level[i] \notin DOMAIN heard}
    /\ DOMAIN heard \subseteq Urls /\ \A u \in DOMAIN heard : heard[u] \in Documents
    /\ seen \in SUBSET Urls /\ IsFiniteSet(seen) /\ asked \in Nat
    /\ Cardinality(seen) = asked /\ asked <= surface.maxRequests
    /\ DOMAIN found \subseteq Urls /\ IsFiniteSet(DOMAIN found)
    /\ \A u \in DOMAIN found : found[u].document \in Documents

Distinct ==
    /\ \A u \in DOMAIN heard : Normalise(u) \in seen
    /\ \A i \in DOMAIN level : Normalise(level[i]) \in seen
    /\ \A u, v \in DOMAIN heard : Normalise(u) = Normalise(v) => u = v
    /\ \A i \in DOMAIN level, u \in DOMAIN heard :
         Normalise(level[i]) = Normalise(u) => level[i] = u
    /\ \A i, j \in DOMAIN level : Normalise(level[i]) = Normalise(level[j]) => i = j

Permitted(u) ==
    \/ Within(u, surface.base)
    \/ \E n \in 1..2 : u \in ToSet(DescriptionWave(n, surface.base))
    \/ \E d \in DOMAIN heard : Within(d, surface.base) /\ u \in ToSet(PathsFrom(heard[d]))

OnTheSurface ==
    /\ \A u \in DOMAIN heard : Permitted(u)
    /\ \A i \in DOMAIN level : Permitted(level[i])

CrawlIsSound == CrawlTyped /\ Distinct /\ OnTheSurface

LEMMA BelowIs ==
    ASSUME NEW u \in Urls, NEW word \in ToSet(Words)
    PROVE  Below(u, word) \in Urls /\ Within(Below(u, word), u)
<1> DEFINE b == Below(u, word)
<1>1. u.path \in Seq(ToSet(Words)) /\ Len(u.path) \in Nat
  BY DEF Urls
<1>2. b.host = u.host /\ b.path = Append(u.path, word) /\ b.slash = FALSE
  BY DEF Below, Urls
<1>3. /\ Append(u.path, word) \in Seq(ToSet(Words)) /\ Len(b.path) = Len(u.path) + 1
      /\ \A i \in 1..Len(u.path) : b.path[i] = u.path[i]
  BY <1>1, <1>2, AppendProperties
<1>4. b \in Urls
  BY <1>1, <1>3 DEF Below, Urls
<1>5. SubSeq(u.path, 1, Len(u.path)) = SubSeq(b.path, 1, Len(u.path))
  BY <1>1, <1>2, <1>3
<1>6. QED
  BY <1>1, <1>2, <1>3, <1>4, <1>5 DEF Within, IsPrefix

LEMMA WithinItself == \A u \in Urls : Within(u, u)
<1> SUFFICES ASSUME NEW u \in Urls PROVE Within(u, u)
  OBVIOUS
<1>1. Len(u.path) \in Nat
  BY DEF Urls
<1>2. QED
  BY <1>1 DEF Within, IsPrefix

LEMMA WavesAre ==
    ASSUME NEW b \in Urls, NEW n \in 1..2
    PROVE  DescriptionWave(n, b) \in Seq(Urls)
<1> DEFINE name == IF n = 1 THEN "openapi" ELSE "api-docs"
           roots == IF b.path = <<>> THEN <<b>> ELSE <<b, Origin(b)>>
<1>1. name \in ToSet(Words)
  <2>1. "openapi" \in ToSet(Words) /\ "api-docs" \in ToSet(Words)
    BY NamesAssumption
  <2>2. CASE n = 1
    BY <2>1, <2>2
  <2>3. CASE n # 1
    BY <2>1, <2>3
  <2>4. QED
    BY <2>2, <2>3
<1>2. Origin(b) \in Urls
  <2>1. <<>> \in Seq(ToSet(Words))
    OBVIOUS
  <2>2. QED
    BY <2>1 DEF Origin, Urls
<1>3. roots \in Seq(Urls)
  BY <1>2
<1>4. DescriptionWave(n, b) = [i \in DOMAIN roots |-> Below(roots[i], name)]
  BY DEF DescriptionWave
<1> HIDE DEF roots, name
<1>5. \A i \in 1..Len(roots) : Below(roots[i], name) \in Urls
  BY <1>1, <1>3, ElementOfSeq, BelowIs
<1>6. DOMAIN roots = 1..Len(roots) /\ Len(roots) \in Nat
  BY <1>3
<1>7. QED
  BY <1>4, <1>5, <1>6, IsASeq

LEMMA AsksKeeps ==
    ASSUME CrawlTyped, Distinct, NEW urls \in Seq(Urls), NEW next, Asks(urls, next),
           UNCHANGED <<surface, heard>>
    PROVE  /\ level' \in Seq(Urls) /\ flying' = {} /\ seen' \in SUBSET Urls
           /\ IsFiniteSet(seen') /\ asked' \in Nat /\ Cardinality(seen') = asked'
           /\ asked' <= surface.maxRequests /\ Distinct'
           /\ \A i \in DOMAIN level' : \E j \in DOMAIN urls : level'[i] = urls[j]
<1> DEFINE c == ClaimAll(urls, seen, asked, surface.maxRequests)
<1>1. level' = c.level /\ seen' = c.seen /\ asked' = c.asked /\ flying' = {}
  BY DEF Asks
<1>2. /\ seen \in SUBSET Urls /\ asked \in Nat /\ surface.maxRequests \in Nat
      /\ IsFiniteSet(seen) /\ Cardinality(seen) = asked /\ asked <= surface.maxRequests
  BY DEF CrawlTyped, IsSurface
<1>3. Claimed(urls, Len(urls), seen, asked, surface.maxRequests, c)
  BY <1>2, ClaimsAre
<1> HIDE DEF c
<1>4. c.seen \in SUBSET Urls /\ c.asked \in Nat /\ c.level \in Seq(Urls)
  BY <1>3 DEF Claimed, Claims
<1>5. \A i \in DOMAIN level' : \E j \in DOMAIN urls : level'[i] = urls[j]
  BY <1>1, <1>3 DEF Claimed
<1>6. Distinct'
  <2>1. /\ \A u \in DOMAIN heard' : Normalise(u) \in seen /\ Normalise(u) \in seen'
        /\ \A i \in DOMAIN level' : Normalise(level'[i]) \in seen' /\ Normalise(level'[i]) \notin seen
    BY <1>1, <1>3 DEF Distinct, Claimed
  <2>2. \A u, v \in DOMAIN heard' : Normalise(u) = Normalise(v) => u = v
    BY DEF Distinct
  <2>3. \A i, j \in DOMAIN level' : Normalise(level'[i]) = Normalise(level'[j]) => i = j
    BY <1>1, <1>3 DEF Claimed
  <2>4. QED
    BY <2>1, <2>2, <2>3 DEF Distinct
<1>7. QED
  BY <1>1, <1>3, <1>4, <1>5, <1>6 DEF Claimed

LEMMA AnswersAre ==
    ASSUME CrawlTyped, AllHeard
    PROVE  /\ Answers \in Seq(Urls)
           /\ \A i \in DOMAIN Answers : Answers[i] \in DOMAIN heard /\ heard[Answers[i]] \in Documents
<1>1. level \in Seq(Urls)
  BY DEF CrawlTyped
<1> DEFINE S == {url \in ToSet(level) : heard[url] # Nothing}
<1>2. Answers = Those(level, S)
  BY DEF Answers
<1> HIDE DEF S
<1>3. Answers \in Seq(Urls) /\ \A i \in DOMAIN Answers : \E j \in DOMAIN level : Answers[i] = level[j]
  BY <1>1, <1>2, ThoseOf
<1>4. QED
  BY <1>3 DEF AllHeard, CrawlTyped

LEMMA KeepIs ==
    ASSUME CrawlTyped, NEW urls \in Seq(Urls), NEW route, found' = Keep(urls, route),
           \A i \in DOMAIN urls : heard[urls[i]] \in Documents
    PROVE  /\ DOMAIN found' \subseteq Urls /\ IsFiniteSet(DOMAIN found')
           /\ \A u \in DOMAIN found' : found'[u].document \in Documents
<1> DEFINE new == [url \in ToSet(urls) |-> [document |-> heard[url], route |-> route]]
<1>1. DOMAIN new = ToSet(urls) /\ \A u \in DOMAIN new : new[u].document \in Documents
  BY DEF ToSet
<1>2. /\ DOMAIN found' = DOMAIN found \cup DOMAIN new
      /\ \A u \in DOMAIN found' : found'[u] = IF u \in DOMAIN new THEN new[u] ELSE found[u]
  BY DEF Keep, Joined
<1> HIDE DEF new
<1>3. IsFiniteSet(ToSet(urls)) /\ ToSet(urls) \subseteq Urls
  <2>1. DOMAIN urls = 1..Len(urls) /\ Len(urls) \in Nat
    OBVIOUS
  <2>2. IsFiniteSet(1..Len(urls))
    BY <2>1, FS_Interval
  <2> DEFINE f == [i \in 1..Len(urls) |-> urls[i]]
  <2>3. f \in Surjection(1..Len(urls), ToSet(urls))
    BY <2>1 DEF Surjection, ToSet
  <2>4. IsFiniteSet(ToSet(urls))
    BY <2>2, <2>3, FS_Surjection
  <2>5. ToSet(urls) \subseteq Urls
    BY ElementOfSeq DEF ToSet
  <2>6. QED
    BY <2>4, <2>5
<1>4. IsFiniteSet(DOMAIN found')
  <2>1. IsFiniteSet(DOMAIN found) /\ IsFiniteSet(DOMAIN new)
    BY <1>1, <1>3 DEF CrawlTyped
  <2> HIDE DEF CrawlTyped
  <2>2. IsFiniteSet(DOMAIN found \cup DOMAIN new)
    BY <2>1, FS_Union
  <2>3. QED
    BY <1>2, <2>2
<1>5. DOMAIN found' \subseteq Urls
  BY <1>1, <1>2, <1>3 DEF CrawlTyped
<1>6. \A u \in DOMAIN found' : found'[u].document \in Documents
  <2>1. TAKE u \in DOMAIN found'
  <2>2. CASE u \in DOMAIN new
    BY <1>1, <1>2, <2>2
  <2>3. CASE u \notin DOMAIN new
    BY <1>2, <2>3 DEF CrawlTyped
  <2>4. QED
    BY <2>2, <2>3
<1>7. QED
  BY <1>4, <1>5, <1>6

LEMMA TablesAre ==
    ASSUME CrawlTyped, AllHeard
    PROVE  /\ Tables(Answers) \in Seq(Urls)
           /\ \A i \in DOMAIN Tables(Answers) : heard[Tables(Answers)[i]] \in Documents
<1> DEFINE S == {url \in ToSet(Answers) : ~IsIndex(heard[url])}
           t == Tables(Answers)
<1>1. t = Those(Answers, S) /\ Answers \in Seq(Urls)
  BY AnswersAre DEF Tables
<1> HIDE DEF S, t
<1>2. t \in Seq(Urls) /\ \A i \in DOMAIN t : \E j \in DOMAIN Answers : t[i] = Answers[j]
  BY <1>1, ThoseOf
<1>3. QED
  BY <1>2, AnswersAre DEF t


-------------------------------------------------------------------------------
(* Every step of a crawl keeps it so. *)

LEMMA NothingIs == Nothing \in Documents
<1> DEFINE K == {"map", "rows", "description", "rejection", "text", "nothing"}
           L == Seq([to : Urls, navigation : BOOLEAN])
           A == Seq(STRING)
           B == BOOLEAN
           no == FALSE
<1>1. "nothing" \in K /\ <<>> \in L /\ <<>> \in A /\ no \in B
  OBVIOUS
<1>2. /\ Documents = [kind : K, links : L, others : Nat, paged : B, arrays : A]
      /\ Nothing = [kind |-> "nothing", links |-> <<>>, others |-> 0, paged |-> no,
                    arrays |-> <<>>]
  BY DEF Documents, Nothing
<1> HIDE DEF K, L, A, B, no
<1>3. QED
  BY <1>1, <1>2

LEMMA AnswerIs ==
    ASSUME IsSurface(surface), NEW u
    PROVE  At(u) \in Documents
BY NothingIs DEF At, IsSurface

LEMMA AskedIsSound ==
    ASSUME CrawlIsSound, NEW urls \in Seq(Urls), NEW next, Asks(urls, next),
           UNCHANGED <<surface, heard>>,
           \A i \in DOMAIN urls : Permitted(urls[i]),
           DOMAIN found' \subseteq Urls, IsFiniteSet(DOMAIN found'),
           \A u \in DOMAIN found' : found'[u].document \in Documents
    PROVE  CrawlIsSound'
<1>1. CrawlTyped /\ Distinct
  BY DEF CrawlIsSound
<1>2. /\ level' \in Seq(Urls) /\ flying' = {} /\ seen' \in SUBSET Urls
      /\ IsFiniteSet(seen') /\ asked' \in Nat /\ Cardinality(seen') = asked'
      /\ asked' <= surface.maxRequests /\ Distinct'
      /\ \A i \in DOMAIN level' : \E j \in DOMAIN urls : level'[i] = urls[j]
  BY <1>1, AsksKeeps
<1>3. CrawlTyped'
  BY <1>1, <1>2 DEF CrawlTyped
<1>4. \A u : Permitted(u) => Permitted(u)'
  BY DEF Permitted
<1>5. OnTheSurface'
  <2>1. \A u \in DOMAIN heard' : Permitted(u)'
    BY <1>4 DEF CrawlIsSound, OnTheSurface
  <2>2. \A i \in DOMAIN level' : Permitted(level[i])'
    <3>1. TAKE i \in DOMAIN level'
    <3>2. PICK j \in DOMAIN urls : level'[i] = urls[j]
      BY <1>2, <3>1
    <3>3. Permitted(urls[j])'
      BY <1>4
    <3>4. QED
      BY <3>2, <3>3 DEF Permitted
  <2>3. QED
    BY <2>1, <2>2 DEF OnTheSurface
<1>6. QED
  BY <1>2, <1>3, <1>5 DEF CrawlIsSound

LEMMA SendKeeps == CrawlIsSound /\ Send => CrawlIsSound'
<1> SUFFICES ASSUME CrawlIsSound, Send PROVE CrawlIsSound'
  OBVIOUS
<1>1. UNCHANGED <<surface, level, heard, seen, asked, found>>
  BY DEF Send
<1>2. flying' \subseteq {i \in DOMAIN level : level[i] \notin DOMAIN heard}
  BY DEF Send, CrawlIsSound, CrawlTyped
<1>3. CrawlTyped'
  BY <1>1, <1>2 DEF CrawlIsSound, CrawlTyped
<1>4. Distinct'
  BY <1>1 DEF CrawlIsSound, Distinct
<1>5. OnTheSurface'
  BY <1>1 DEF CrawlIsSound, OnTheSurface, Permitted
<1>6. QED
  BY <1>3, <1>4, <1>5 DEF CrawlIsSound

LEMMA HearKeeps == CrawlIsSound /\ Hear => CrawlIsSound'
<1> SUFFICES ASSUME CrawlIsSound, Hear PROVE CrawlIsSound'
  OBVIOUS
<1>1. PICK i \in flying : \E isLost \in {FALSE, TRUE} :
        /\ heard' = Joined([url \in {level[i]} |-> IF isLost THEN Nothing ELSE At(url)], heard)
        /\ flying' = flying \ {i}
        /\ UNCHANGED <<surface, phase, level, seen, asked, found, depth, early>>
  BY DEF Hear
<1> DEFINE w == level[i]
<1>2. PICK isLost \in {FALSE, TRUE} :
        /\ heard' = Joined([url \in {w} |-> IF isLost THEN Nothing ELSE At(url)], heard)
        /\ flying' = flying \ {i}
        /\ UNCHANGED <<surface, phase, level, seen, asked, found, depth, early>>
  BY <1>1
<1>3. i \in DOMAIN level /\ w \notin DOMAIN heard /\ w \in Urls
  <2>1. i \in DOMAIN level /\ w \notin DOMAIN heard /\ level \in Seq(Urls)
    BY DEF CrawlIsSound, CrawlTyped
  <2>2. QED
    BY <2>1, ElementOfSeq
<1>4. /\ DOMAIN heard' = DOMAIN heard \cup {w}
      /\ \A u \in DOMAIN heard : heard'[u] = heard[u]
      /\ heard'[w] \in Documents
  <2>1. /\ DOMAIN heard' = DOMAIN heard \cup {w}
        /\ \A u \in DOMAIN heard : heard'[u] = heard[u]
        /\ heard'[w] = IF isLost THEN Nothing ELSE At(w)
    BY <1>2, <1>3 DEF Joined
  <2>2. heard'[w] \in Documents
    BY <2>1, AnswerIs, NothingIs DEF CrawlIsSound, CrawlTyped
  <2>3. QED
    BY <2>1, <2>2
<1>5. /\ level \in Seq(Urls) /\ flying \subseteq {j \in DOMAIN level : level[j] \notin DOMAIN heard}
      /\ \A j, k \in DOMAIN level : Normalise(level[j]) = Normalise(level[k]) => j = k
  BY DEF CrawlIsSound, CrawlTyped, Distinct
<1> HIDE DEF w
<1>6. CrawlTyped'
  <2>1. flying' \subseteq {j \in DOMAIN level : level[j] \notin DOMAIN heard'}
    <3>1. ASSUME NEW j \in flying', level[j] \in DOMAIN heard'
          PROVE  FALSE
      <4>1. j \in flying /\ j # i /\ j \in DOMAIN level /\ level[j] \notin DOMAIN heard
        BY <1>2, <1>5, <3>1
      <4>2. level[j] = level[i]
        BY <1>4, <3>1, <4>1 DEF w
      <4>3. QED
        BY <1>3, <1>5, <4>1, <4>2
    <3>2. QED
      BY <1>2, <1>5, <3>1
  <2>2. DOMAIN heard' \subseteq Urls /\ \A u \in DOMAIN heard' : heard'[u] \in Documents
    BY <1>3, <1>4 DEF CrawlIsSound, CrawlTyped
  <2>3. QED
    BY <1>2, <2>1, <2>2 DEF CrawlIsSound, CrawlTyped
<1>7. Distinct'
  <2>1. Normalise(w) \in seen
    BY <1>3 DEF CrawlIsSound, Distinct, w
  <2>2. \A j \in DOMAIN level : Normalise(level[j]) = Normalise(w) => level[j] = w
    BY <1>3, <1>5 DEF w
  <2>3. \A u \in DOMAIN heard : Normalise(u) = Normalise(w) => u = w
    BY <1>3 DEF CrawlIsSound, Distinct, w
  <2>4. QED
    BY <1>2, <1>4, <2>1, <2>2, <2>3 DEF CrawlIsSound, Distinct
<1>8. OnTheSurface'
  <2>1. ASSUME NEW u, Permitted(u)
        PROVE  Permitted(u)'
    <3>1. CASE \E d \in DOMAIN heard : Within(d, surface.base) /\ u \in ToSet(PathsFrom(heard[d]))
      <4>1. PICK d \in DOMAIN heard : Within(d, surface.base) /\ u \in ToSet(PathsFrom(heard[d]))
        BY <3>1
      <4>2. d \in DOMAIN heard' /\ heard'[d] = heard[d] /\ surface' = surface
        BY <1>2, <1>4
      <4>3. QED
        BY <4>1, <4>2 DEF Permitted
    <3>2. QED
      BY <1>2, <2>1, <3>1 DEF Permitted
  <2>2. Permitted(w)
    BY <1>3 DEF CrawlIsSound, OnTheSurface, w
  <2>3. QED
    BY <1>2, <1>4, <2>1, <2>2 DEF CrawlIsSound, OnTheSurface
<1>9. QED
  BY <1>6, <1>7, <1>8 DEF CrawlIsSound

LEMMA BaseIsAsked ==
    ASSUME CrawlIsSound, NEW next, Asks(<<surface.base>>, next), UNCHANGED <<surface, heard>>,
           DOMAIN found' \subseteq Urls, IsFiniteSet(DOMAIN found'),
           \A u \in DOMAIN found' : found'[u].document \in Documents
    PROVE  CrawlIsSound'
<1> DEFINE w == <<surface.base>>
<1>1. surface.base \in Urls
  BY DEF CrawlIsSound, CrawlTyped, IsSurface
<1>2. w \in Seq(Urls) /\ DOMAIN w = {1} /\ w[1] = surface.base
  BY <1>1
<1>3. Permitted(surface.base)
  BY <1>1, WithinItself DEF Permitted
<1> HIDE DEF w
<1>4. \A i \in DOMAIN w : Permitted(w[i])
  BY <1>2, <1>3
<1>5. Asks(w, next)
  BY DEF w
<1>6. QED
  BY <1>2, <1>4, <1>5, AskedIsSound

LEMMA DescribeKeeps == CrawlIsSound /\ Describe => CrawlIsSound'
<1> SUFFICES ASSUME CrawlIsSound, Describe PROVE CrawlIsSound'
  OBVIOUS
<1> DEFINE S == {url \in ToSet(Answers) : Named(url) # <<>>}
           naming == Those(level, S)
<1>1. /\ AllHeard /\ UNCHANGED <<surface, heard, found, depth, lost>>
      /\ IF naming # <<>> THEN Asks(Named(naming[1]), "described") /\ UNCHANGED early
         ELSE IF phase = "describe 1"
              THEN Asks(DescriptionWave(2, surface.base), "describe 2") /\ UNCHANGED early
              ELSE Asks(<<surface.base>>, "walk") /\ early' = seen
  BY DEF Describe
<1> HIDE DEF S
<1>2. CrawlTyped /\ level \in Seq(Urls) /\ surface.base \in Urls /\ OnTheSurface
  BY DEF CrawlIsSound, CrawlTyped, IsSurface
<1>3. /\ DOMAIN found' \subseteq Urls /\ IsFiniteSet(DOMAIN found')
      /\ \A u \in DOMAIN found' : found'[u].document \in Documents
  BY <1>1, <1>2 DEF CrawlTyped
<1>4. CASE naming # <<>>
  <2>1. naming \in Seq(Urls) /\ \A i \in DOMAIN naming : \E j \in DOMAIN level : naming[i] = level[j]
    BY <1>2, ThoseOf
  <2>2. 1 \in DOMAIN naming
    <3> HIDE DEF naming
    <3>1. QED
      BY <1>4, <2>1
  <2> DEFINE d == naming[1]
  <2>3. d \in DOMAIN heard /\ heard[d] \in Documents
    BY <1>1, <1>2, <2>1, <2>2 DEF AllHeard, CrawlTyped
  <2>4. Named(d) \in Seq(Urls) /\ \A i \in DOMAIN Named(d) :
              \/ Within(Named(d)[i], surface.base)
              \/ Within(d, surface.base) /\ Named(d)[i] \in ToSet(PathsFrom(heard[d]))
    BY <2>3, NamedAre
  <2>5. Asks(Named(d), "described")
    BY <1>1, <1>4
  <2> HIDE DEF d
  <2>6. \A i \in DOMAIN Named(d) : Permitted(Named(d)[i])
    BY <2>3, <2>4 DEF Permitted
  <2>7. QED
    BY <1>1, <1>3, <2>4, <2>5, <2>6, AskedIsSound
<1>5. CASE naming = <<>> /\ phase = "describe 1"
  <2> DEFINE w == DescriptionWave(2, surface.base)
  <2>1. w \in Seq(Urls) /\ 2 \in 1..2
    BY <1>2, WavesAre
  <2>2. \A i \in DOMAIN w : w[i] \in ToSet(DescriptionWave(2, surface.base))
    BY DEF ToSet
  <2>3. Asks(w, "describe 2")
    BY <1>1, <1>5
  <2>4. \A i \in DOMAIN w : Permitted(w[i])
    <3> HIDE DEF w
    <3>1. QED
      BY <2>1, <2>2 DEF Permitted
  <2> HIDE DEF w
  <2>5. QED
    BY <1>1, <1>3, <2>1, <2>3, <2>4, AskedIsSound
<1>6. CASE naming = <<>> /\ phase # "describe 1"
  <2>1. Asks(<<surface.base>>, "walk")
    BY <1>1, <1>6
  <2>2. QED
    BY <1>1, <1>3, <2>1, BaseIsAsked
<1>7. QED
  BY <1>4, <1>5, <1>6

LEMMA TakeDescribedKeeps == CrawlIsSound /\ TakeDescribed => CrawlIsSound'
<1> SUFFICES ASSUME CrawlIsSound, TakeDescribed PROVE CrawlIsSound'
  OBVIOUS
<1>1. /\ AllHeard /\ found' = Keep(Answers, "description")
      /\ Asks(<<surface.base>>, "walk") /\ UNCHANGED <<surface, heard>> /\ CrawlTyped
  BY DEF TakeDescribed, CrawlIsSound
<1>2. Answers \in Seq(Urls) /\ \A i \in DOMAIN Answers : heard[Answers[i]] \in Documents
  BY <1>1, AnswersAre
<1>3. /\ DOMAIN found' \subseteq Urls /\ IsFiniteSet(DOMAIN found')
      /\ \A u \in DOMAIN found' : found'[u].document \in Documents
  BY <1>1, <1>2, KeepIs
<1>4. QED
  BY <1>1, <1>3, BaseIsAsked

LEMMA GuessesAre ==
    ASSUME surface.base \in Urls
    PROVE  Guesses \in Seq(Urls) /\ \A i \in DOMAIN Guesses : Within(Guesses[i], surface.base)
<1>1. "users" \in ToSet(Words) /\ "posts" \in ToSet(Words)
  BY NamesAssumption
<1>2. /\ Below(surface.base, "users") \in Urls /\ Within(Below(surface.base, "users"), surface.base)
      /\ Below(surface.base, "posts") \in Urls /\ Within(Below(surface.base, "posts"), surface.base)
  BY <1>1, BelowIs
<1> DEFINE u == Below(surface.base, "users")
           v == Below(surface.base, "posts")
<1>3. Guesses = <<u, v>>
  BY DEF Guesses
<1> HIDE DEF u, v
<1>4. u \in Urls /\ v \in Urls /\ Within(u, surface.base) /\ Within(v, surface.base)
  BY <1>2 DEF u, v
<1>5. QED
  BY <1>3, <1>4

LEMMA WalkKeeps == CrawlIsSound /\ Walk => CrawlIsSound'
<1> SUFFICES ASSUME CrawlIsSound, Walk PROVE CrawlIsSound'
  OBVIOUS
<1> DEFINE h == Harvest(Answers)
           frontier == Unvisited(h)
<1>1. /\ AllHeard /\ found' = Keep(Tables(Answers), Route)
      /\ UNCHANGED <<surface, heard>> /\ CrawlTyped /\ surface.base \in Urls
      /\ \/ Asks(frontier, "walk")
         \/ Asks(Guesses, "guess")
         \/ phase' = "done" /\ UNCHANGED <<level, seen, asked, flying>>
  BY DEF Walk, CrawlIsSound, CrawlTyped, IsSurface
<1>2. /\ DOMAIN found' \subseteq Urls /\ IsFiniteSet(DOMAIN found')
      /\ \A u \in DOMAIN found' : found'[u].document \in Documents
  BY <1>1, TablesAre, KeepIs
<1>3. CASE Asks(frontier, "walk")
  <2>1. Answers \in Seq(Urls) /\ \A i \in DOMAIN Answers : heard[Answers[i]] \in Documents
    BY <1>1, AnswersAre
  <2>2. h \in Seq(Urls) /\ \A k \in DOMAIN h : Within(h[k], surface.base)
    BY <2>1, HarvestIs
  <2> HIDE DEF h
  <2>3. frontier \in Seq(Urls) /\ \A k \in DOMAIN frontier : \E j \in DOMAIN h : frontier[k] = h[j]
    BY <2>2, UnvisitedAre
  <2> HIDE DEF frontier
  <2>4. \A k \in DOMAIN frontier : Permitted(frontier[k])
    BY <2>2, <2>3 DEF Permitted
  <2>5. QED
    BY <1>1, <1>2, <1>3, <2>3, <2>4, AskedIsSound
<1>4. CASE Asks(Guesses, "guess")
  <2>1. Guesses \in Seq(Urls) /\ \A i \in DOMAIN Guesses : Within(Guesses[i], surface.base)
    BY <1>1, GuessesAre
  <2>2. \A i \in DOMAIN Guesses : Permitted(Guesses[i])
    BY <2>1 DEF Permitted
  <2>3. QED
    BY <1>1, <1>2, <1>4, <2>1, <2>2, AskedIsSound
<1>5. CASE UNCHANGED <<level, seen, asked, flying>>
  <2>1. CrawlTyped'
    BY <1>1, <1>2, <1>5 DEF CrawlTyped
  <2>2. Distinct' /\ OnTheSurface'
    BY <1>1, <1>5 DEF CrawlIsSound, Distinct, OnTheSurface, Permitted
  <2>3. QED
    BY <2>1, <2>2 DEF CrawlIsSound
<1>6. QED
  BY <1>1, <1>3, <1>4, <1>5

LEMMA TakeGuessesKeeps == CrawlIsSound /\ TakeGuesses => CrawlIsSound'
<1> SUFFICES ASSUME CrawlIsSound, TakeGuesses PROVE CrawlIsSound'
  OBVIOUS
<1>1. /\ AllHeard /\ found' = Keep(Tables(Answers), "guess") /\ CrawlTyped
      /\ UNCHANGED <<surface, level, flying, heard, seen, asked>>
  BY DEF TakeGuesses, CrawlIsSound
<1>2. /\ DOMAIN found' \subseteq Urls /\ IsFiniteSet(DOMAIN found')
      /\ \A u \in DOMAIN found' : found'[u].document \in Documents
  BY <1>1, TablesAre, KeepIs
<1>3. CrawlTyped'
  BY <1>1, <1>2 DEF CrawlTyped
<1>4. Distinct' /\ OnTheSurface'
  BY <1>1 DEF CrawlIsSound, Distinct, OnTheSurface, Permitted
<1>5. QED
  BY <1>3, <1>4 DEF CrawlIsSound

LEMMA StartsIsSound ==
    ASSUME NEW there, IsSurface(there), Starts(there)
    PROVE  CrawlIsSound'
<1> DEFINE w == DescriptionWave(1, there.base)
           c == ClaimAll(w, {}, 0, there.maxRequests)
<1>1. /\ surface' = there /\ level' = c.level /\ seen' = c.seen /\ asked' = c.asked
      /\ flying' = {} /\ heard' = <<>> /\ found' = <<>>
  BY DEF Starts
<1>2. there.base \in Urls /\ there.maxRequests \in Nat
  BY DEF IsSurface
<1>3. w \in Seq(Urls)
  BY <1>2, WavesAre
<1>4. \A i \in DOMAIN w : w[i] \in ToSet(DescriptionWave(1, there.base))
  BY DEF ToSet
<1> HIDE DEF w
<1>5. Claimed(w, Len(w), {}, 0, there.maxRequests, c)
  <2>1. IsFiniteSet({}) /\ Cardinality({}) = 0 /\ {} \in SUBSET Urls
    BY FS_EmptySet
  <2>2. QED
    BY <1>2, <1>3, <2>1, ClaimsAre
<1> HIDE DEF c
<1>6. c.seen \in SUBSET Urls /\ c.asked \in Nat /\ c.level \in Seq(Urls)
  BY <1>5 DEF Claimed, Claims
<1>7. DOMAIN heard' = {} /\ DOMAIN found' = {} /\ IsFiniteSet({})
  BY <1>1, FS_EmptySet
<1>8. CrawlTyped'
  BY <1>1, <1>5, <1>6, <1>7 DEF CrawlTyped, Claimed
<1>9. Distinct'
  BY <1>1, <1>5, <1>7 DEF Distinct, Claimed
<1>10. OnTheSurface'
  <2>1. \A i \in DOMAIN level' : Permitted(level[i])'
    <3>1. TAKE i \in DOMAIN level'
    <3>2. PICK j \in DOMAIN w : level'[i] = w[j]
      BY <1>1, <1>5, <3>1 DEF Claimed
    <3>3. level'[i] \in ToSet(DescriptionWave(1, surface'.base)) /\ 1 \in 1..2
      BY <1>1, <1>4, <3>2
    <3>4. QED
      BY <3>3 DEF Permitted
  <2>2. QED
    BY <1>7, <2>1 DEF OnTheSurface
<1>11. QED
  BY <1>8, <1>9, <1>10 DEF CrawlIsSound

-------------------------------------------------------------------------------
(* What the registry holds at each turn of load, and what the threads may    *)
(* do to it: a table the configuration names stays, a discovered one stays   *)
(* until a named one takes its name, and a child takes no name.              *)

IsSequence(s) == s \in Seq(ToSet(s))
OnceNamed(registry) ==
    \A i, j \in DOMAIN registry : registry[i].name = registry[j].name => i = j
Held(source) == /\ source.kind \in {"file", "http", "child"}
                /\ source.kind = "http" => source.arrays \in Seq(STRING)

Crawling == {"describe 1", "describe 2", "described", "walk", "guess", "done"}
TurnsAre ==
    /\ config \in Configurations /\ turn \in Nat
    /\ phase \in Crawling \cup {"idle", "registered", "refused"}
    /\ phase = "idle" => turn = 0
    /\ phase \in Crawling => turn \in 1..Len(config.discover)
    /\ \A t \in Clients : client[t] # Idle => Serving
RegistryIs ==
    /\ IsSequence(sources) /\ OnceNamed(sources)
    /\ \A i \in DOMAIN sources : Held(sources[i])
    /\ discovered \subseteq NamesIn(sources)
    /\ \A i \in DOMAIN sources : sources[i].name \in discovered => sources[i].kind = "http"
TablesKept ==
    \A i \in DOMAIN config.tables :
        Len(config.discover) + i <= turn /\ phase # "refused" =>
            /\ ToSet(config.tables[i]) \subseteq ToSet(sources)
            /\ NamesIn(config.tables[i]) \cap discovered = {}

LEMMA SequenceIs ==
    ASSUME NEW T, NEW s \in Seq(T)
    PROVE  /\ IsSequence(s) /\ Len(s) \in Nat /\ DOMAIN s = 1..Len(s)
           /\ \A i \in DOMAIN s : s[i] \in T
<1>1. Len(s) \in Nat /\ DOMAIN s = 1..Len(s) /\ s = [i \in 1..Len(s) |-> s[i]]
  OBVIOUS
<1>2. \A i \in 1..Len(s) : s[i] \in ToSet(s) /\ s[i] \in T
  BY <1>1, ElementOfSeq DEF ToSet
<1>3. s \in Seq(ToSet(s))
  BY <1>1, <1>2, IsASeq
<1>4. QED
  BY <1>1, <1>2, <1>3 DEF IsSequence

LEMMA SequenceHas ==
    ASSUME NEW s, IsSequence(s)
    PROVE  Len(s) \in Nat /\ DOMAIN s = 1..Len(s) /\ s \in Seq(ToSet(s))
BY DEF IsSequence

LEMMA TogetherAre ==
    ASSUME NEW s, NEW r, IsSequence(s), IsSequence(r)
    PROVE  /\ IsSequence(s \o r) /\ Len(s \o r) = Len(s) + Len(r)
           /\ \A i \in DOMAIN s : i \in DOMAIN (s \o r) /\ (s \o r)[i] = s[i]
           /\ \A i \in DOMAIN r : /\ Len(s) + i \in DOMAIN (s \o r)
                                  /\ (s \o r)[Len(s) + i] = r[i]
           /\ \A k \in DOMAIN (s \o r) :
                \/ k \in DOMAIN s
                \/ k - Len(s) \in DOMAIN r /\ k = Len(s) + (k - Len(s))
           /\ ToSet(s \o r) = ToSet(s) \cup ToSet(r)
<1> DEFINE T == ToSet(s) \cup ToSet(r)
           u == s \o r
<1>1. /\ s \in Seq(T) /\ r \in Seq(T) /\ Len(s) \in Nat /\ Len(r) \in Nat
      /\ DOMAIN s = 1..Len(s) /\ DOMAIN r = 1..Len(r)
  <2>1. /\ s \in Seq(ToSet(s)) /\ r \in Seq(ToSet(r))
        /\ ToSet(s) \subseteq T /\ ToSet(r) \subseteq T
    BY DEF IsSequence
  <2> HIDE DEF T
  <2>2. s \in Seq(T) /\ r \in Seq(T)
    BY <2>1, SeqMonotonic
  <2>3. QED
    BY <2>2
<1> HIDE DEF T
<1>2. /\ u \in Seq(T) /\ Len(u) = Len(s) + Len(r)
      /\ \A i \in 1..Len(s) + Len(r) : u[i] = IF i <= Len(s) THEN s[i] ELSE r[i - Len(s)]
  BY <1>1, ConcatProperties
<1> HIDE DEF u
<1>3. IsSequence(u) /\ DOMAIN u = 1..(Len(s) + Len(r))
  BY <1>2, SequenceIs
<1>4. \A i \in DOMAIN s : i \in DOMAIN u /\ u[i] = s[i]
  BY <1>1, <1>2, <1>3
<1>5. \A i \in DOMAIN r : Len(s) + i \in DOMAIN u /\ u[Len(s) + i] = r[i]
  <2>1. TAKE i \in DOMAIN r
  <2>2. /\ Len(s) + i \in 1..Len(s) + Len(r) /\ ~(Len(s) + i <= Len(s))
        /\ (Len(s) + i) - Len(s) = i
    BY <1>1
  <2>3. QED
    BY <1>2, <1>3, <2>2
<1>6. \A k \in DOMAIN u : \/ k \in DOMAIN s
                          \/ k - Len(s) \in DOMAIN r /\ k = Len(s) + (k - Len(s))
  BY <1>1, <1>3
<1>7. ToSet(u) = ToSet(s) \cup ToSet(r)
  <2>1. ASSUME NEW k \in DOMAIN u
        PROVE  u[k] \in ToSet(s) \cup ToSet(r)
    <3>1. CASE k \in DOMAIN s
      BY <1>4, <3>1 DEF ToSet
    <3>2. CASE k - Len(s) \in DOMAIN r /\ k = Len(s) + (k - Len(s))
      BY <1>5, <3>2 DEF ToSet
    <3>3. QED
      BY <1>6, <3>1, <3>2
  <2>2. QED
    BY <1>4, <1>5, <2>1 DEF ToSet
<1>8. QED
  BY <1>2, <1>3, <1>4, <1>5, <1>6, <1>7 DEF u

LEMMA EachOfTheTwo ==
    ASSUME NEW s, NEW r, IsSequence(s), IsSequence(r), NEW u, u = s \o r
    PROVE  \A k \in DOMAIN u : \/ k \in DOMAIN s /\ u[k] = s[k]
                               \/ k - Len(s) \in DOMAIN r /\ u[k] = r[k - Len(s)]
<1>1. /\ \A i \in DOMAIN s : u[i] = s[i]
      /\ \A i \in DOMAIN r : u[Len(s) + i] = r[i]
      /\ \A k \in DOMAIN u : \/ k \in DOMAIN s
                             \/ k - Len(s) \in DOMAIN r /\ k = Len(s) + (k - Len(s))
  <2> DEFINE v == s \o r
  <2>1. /\ \A i \in DOMAIN s : v[i] = s[i]
        /\ \A i \in DOMAIN r : v[Len(s) + i] = r[i]
        /\ \A k \in DOMAIN v : \/ k \in DOMAIN s
                               \/ k - Len(s) \in DOMAIN r /\ k = Len(s) + (k - Len(s))
    BY TogetherAre
  <2>2. u = v
    OBVIOUS
  <2> HIDE DEF v
  <2>3. QED
    BY <2>1, <2>2
<1>2. QED
  BY <1>1

LEMMA NamesTogether ==
    ASSUME NEW s, NEW r, IsSequence(s), IsSequence(r)
    PROVE  /\ NamesIn(s \o r) = NamesIn(s) \cup NamesIn(r)
           /\ (OnceNamed(s) /\ AllNew(s, r) => OnceNamed(s \o r))
<1> DEFINE u == s \o r
<1>1. /\ IsSequence(u) /\ Len(u) = Len(s) + Len(r)
      /\ \A i \in DOMAIN s : i \in DOMAIN u /\ u[i] = s[i]
      /\ \A i \in DOMAIN r : Len(s) + i \in DOMAIN u /\ u[Len(s) + i] = r[i]
  BY TogetherAre
<1>2. u = s \o r
  OBVIOUS
<1> HIDE DEF u
<1>3. \A k \in DOMAIN u : \/ k \in DOMAIN s /\ u[k] = s[k]
                          \/ k - Len(s) \in DOMAIN r /\ u[k] = r[k - Len(s)]
  BY <1>2, EachOfTheTwo
<1>4. DOMAIN u \subseteq Nat /\ Len(s) \in Nat /\ DOMAIN r \subseteq Nat
  BY <1>1, SequenceHas
<1>5. NamesIn(u) = NamesIn(s) \cup NamesIn(r)
  <2>1. ASSUME NEW k \in DOMAIN u
        PROVE  u[k].name \in NamesIn(s) \cup NamesIn(r)
    BY <1>3 DEF NamesIn
  <2>2. ASSUME NEW i \in DOMAIN s
        PROVE  s[i].name \in NamesIn(u)
    BY <1>1 DEF NamesIn
  <2>3. ASSUME NEW i \in DOMAIN r
        PROVE  r[i].name \in NamesIn(u)
    BY <1>1 DEF NamesIn
  <2>4. QED
    BY <2>1, <2>2, <2>3 DEF NamesIn
<1>6. ASSUME OnceNamed(s), AllNew(s, r)
      PROVE  OnceNamed(u)
  <2>1. ASSUME NEW j \in DOMAIN u, NEW k \in DOMAIN u, u[j].name = u[k].name
        PROVE  j = k
    <3>1. \A i \in DOMAIN s, m \in DOMAIN r : s[i].name # r[m].name
      BY <1>6 DEF AllNew, NamesIn
    <3>2. CASE j \in DOMAIN s /\ u[j] = s[j]
      BY <1>3, <1>6, <2>1, <3>1, <3>2 DEF OnceNamed
    <3>3. CASE j - Len(s) \in DOMAIN r /\ u[j] = r[j - Len(s)]
      <4>1. k - Len(s) \in DOMAIN r /\ u[k] = r[k - Len(s)]
        BY <1>3, <2>1, <3>1, <3>3
      <4>2. j - Len(s) = k - Len(s)
        BY <1>6, <2>1, <3>3, <4>1 DEF AllNew
      <4>3. QED
        BY <1>4, <4>2
    <3>4. QED
      BY <1>3, <3>2, <3>3
  <2>2. QED
    BY <2>1 DEF OnceNamed
<1>7. QED
  BY <1>5, <1>6 DEF u

LEMMA WithoutIs ==
    ASSUME NEW s, IsSequence(s), NEW names
    PROVE  /\ IsSequence(Without(s, names)) /\ ToSet(Without(s, names)) \subseteq ToSet(s)
           /\ \A i \in DOMAIN Without(s, names) : Without(s, names)[i].name \notin names
           /\ \A j \in DOMAIN s : s[j].name \notin names => s[j] \in ToSet(Without(s, names))
           /\ (OnceNamed(s) => OnceNamed(Without(s, names)))
<1> DEFINE S == {e \in ToSet(s) : e.name \notin names}
           t == Without(s, names)
<1>1. s \in Seq(ToSet(s)) /\ Len(s) \in Nat /\ DOMAIN s = 1..Len(s) /\ t = Those(s, S)
  BY SequenceHas DEF Without
<1>2. t \in Seq(ToSet(s))
  BY <1>1, ThoseAre
<1>3. PICK p : Placing(s, S, Len(s), t, p)
  BY <1>1, ThoseAre
<1>4. \A e \in S : e.name \notin names
  OBVIOUS
<1>5. \A j \in DOMAIN s : s[j].name \notin names => s[j] \in S
  BY DEF ToSet
<1> HIDE DEF S, t
<1>6. IsSequence(t) /\ Len(t) \in Nat /\ DOMAIN t = 1..Len(t) /\ \A i \in DOMAIN t : t[i] \in ToSet(s)
  BY <1>2, SequenceIs
<1>7. /\ DOMAIN p = DOMAIN t /\ \A i \in DOMAIN t : p[i] \in 1..Len(s)
  <2>1. p \in Seq(1..Len(s)) /\ Len(p) = Len(t)
    BY <1>3 DEF Placing
  <2>2. QED
    BY <1>6, <2>1, ElementOfSeq
<1>8. \A i \in DOMAIN t : t[i] = s[p[i]] /\ t[i] \in S
  BY <1>3, <1>7 DEF Placing
<1>9. \A j \in DOMAIN s : s[j].name \notin names => s[j] \in ToSet(t)
  <2>1. ASSUME NEW j \in DOMAIN s, s[j].name \notin names
        PROVE  s[j] \in ToSet(t)
    <3>1. PICK i \in DOMAIN p : p[i] = j
      BY <1>1, <1>3, <1>5, <2>1 DEF Placing
    <3>2. QED
      BY <1>7, <1>8, <3>1 DEF ToSet
  <2>2. QED
    BY <2>1
<1>10. OnceNamed(s) => OnceNamed(t)
  <2>1. ASSUME OnceNamed(s), NEW i \in DOMAIN t, NEW j \in DOMAIN t, t[i].name = t[j].name
        PROVE  i = j
    <3>1. p[i] = p[j]
      BY <1>1, <1>7, <1>8, <2>1 DEF OnceNamed
    <3>2. i \in Nat /\ j \in Nat /\ p[i] \in Nat /\ p[j] \in Nat
      BY <1>6, <1>7
    <3>3. ~(i < j) /\ ~(j < i)
      BY <1>3, <1>7, <3>1, <3>2 DEF Placing
    <3>4. QED
      BY <3>2, <3>3
  <2>2. QED
    BY <2>1 DEF OnceNamed
<1>11. ToSet(t) \subseteq ToSet(s)
  BY <1>6 DEF ToSet
<1>12. \A i \in DOMAIN t : t[i].name \notin names
  BY <1>4, <1>8
<1>13. QED
  BY <1>6, <1>9, <1>10, <1>11, <1>12 DEF t

LEMMA ConfigIs ==
    ASSUME NEW c \in Configurations
    PROVE  /\ Len(c.discover) \in Nat /\ DOMAIN c.discover = 1..Len(c.discover)
           /\ \A i \in 1..Len(c.discover) : IsSurface(c.discover[i].at)
           /\ Len(c.tables) \in Nat /\ DOMAIN c.tables = 1..Len(c.tables)
           /\ \A i \in DOMAIN c.tables :
                /\ IsSequence(c.tables[i])
                /\ \A k \in DOMAIN c.tables[i] : c.tables[i][k] \in Configured
<1> DEFINE At1 == [at : {s.at : s \in ToSet(c.discover)}, prefix : Seq(STRING)]
<1>1. /\ c.discover \in Seq(At1)
      /\ \A i \in DOMAIN c.discover : IsSurface(c.discover[i].at)
      /\ c.tables \in Seq(Seq(Configured))
  BY ConfigurationsAssumption
<1> HIDE DEF At1
<1>2. Len(c.discover) \in Nat /\ DOMAIN c.discover = 1..Len(c.discover)
  BY <1>1
<1>3. Len(c.tables) \in Nat /\ DOMAIN c.tables = 1..Len(c.tables)
  BY <1>1
<1>4. ASSUME NEW i \in DOMAIN c.tables
      PROVE  /\ IsSequence(c.tables[i])
             /\ \A k \in DOMAIN c.tables[i] : c.tables[i][k] \in Configured
  <2>1. c.tables[i] \in Seq(Configured)
    BY <1>1, <1>3, <1>4, ElementOfSeq
  <2>2. QED
    BY <2>1, SequenceIs
<1>5. QED
  BY <1>1, <1>2, <1>3, <1>4

LEMMA SourceIs ==
    ASSUME OnceNamed(sources), NEW i \in DOMAIN sources
    PROVE  Source(sources[i].name) = sources[i]
<1>1. \A j \in DOMAIN sources : sources[j].name = sources[i].name => j = i
  BY DEF OnceNamed
<1>2. (CHOOSE j \in DOMAIN sources : sources[j].name = sources[i].name) = i
  BY <1>1
<1>3. QED
  BY <1>2 DEF Source

LEMMA CollectedIs ==
    ASSUME CrawlTyped
    PROVE  \E n \in Nat : /\ DOMAIN Collected = 1..n
                          /\ \A i \in 1..n : Collected[i].arrays \in Seq(STRING)
<1> DEFINE S == {url \in DOMAIN found : IsTable(found[url].document)}
           urls == Alphabetical(S)
<1>1. S \subseteq Urls /\ IsFiniteSet(S) /\ \A u \in S : found[u].document \in Documents
  <2>1. S \subseteq DOMAIN found /\ IsFiniteSet(DOMAIN found)
    BY DEF CrawlTyped
  <2>2. IsFiniteSet(S)
    BY <2>1, FS_Subset
  <2>3. QED
    BY <2>1, <2>2 DEF CrawlTyped
<1>2. \E name : Collected = [k \in DOMAIN urls |->
          [name |-> name[k], url |-> urls[k], route |-> found[urls[k]].route,
           primed |-> ~found[urls[k]].document.paged,
           arrays |-> found[urls[k]].document.arrays]]
  BY Zenon DEF Collected
<1> HIDE DEF S
<1>3. urls \in Seq(S)
  BY <1>1, AlphabeticalIs
<1> HIDE DEF urls
<1>4. Len(urls) \in Nat /\ DOMAIN urls = 1..Len(urls) /\ \A k \in 1..Len(urls) : urls[k] \in S
  BY <1>3, SequenceIs
<1>5. \A k \in 1..Len(urls) : found[urls[k]].document.arrays \in Seq(STRING)
  <2>1. \A d \in Documents : d.arrays \in Seq(STRING)
    BY DEF Documents
  <2>2. QED
    BY <1>1, <1>4, <2>1
<1>6. DOMAIN Collected = 1..Len(urls) /\ \A i \in 1..Len(urls) : Collected[i].arrays \in Seq(STRING)
  BY <1>2, <1>4, <1>5
<1>7. QED
  BY <1>4, <1>6

LEMMA CrawledIs ==
    ASSUME CrawlTyped
    PROVE  /\ IsSequence(Crawled)
           /\ \A i \in DOMAIN Crawled : Held(Crawled[i]) /\ Crawled[i].kind = "http"
<1> DEFINE e(i) == [name |-> config.discover[turn].prefix \o Collected[i].name,
                    kind |-> "http", arrays |-> Collected[i].arrays]
<1>1. PICK n \in Nat : /\ DOMAIN Collected = 1..n
                       /\ \A i \in 1..n : Collected[i].arrays \in Seq(STRING)
  BY CollectedIs
<1>2. Crawled = [i \in 1..n |-> e(i)]
  BY <1>1 DEF Crawled
<1>3. \A i \in 1..n : e(i).kind = "http" /\ e(i).arrays \in Seq(STRING)
  BY <1>1
<1> HIDE DEF e
<1>4. DOMAIN Crawled = 1..n /\ \A i \in 1..n : Crawled[i] = e(i)
  BY <1>2
<1>5. [i \in 1..n |-> e(i)] \in Seq({e(i) : i \in 1..n})
  <2>1. \A i \in 1..n : e(i) \in {e(j) : j \in 1..n}
    OBVIOUS
  <2>2. QED
    BY <2>1, IsASeq
<1>6. IsSequence(Crawled)
  BY <1>2, <1>5, SequenceIs
<1>7. QED
  BY <1>3, <1>4, <1>6 DEF Held

LEMMA RegisterDiscoveredKeeps ==
    TurnsAre /\ RegistryIs /\ TablesKept /\ CrawlTyped /\ RegisterDiscovered
    => TurnsAre' /\ RegistryIs' /\ TablesKept'
<1> SUFFICES ASSUME TurnsAre, RegistryIs, TablesKept, CrawlTyped, RegisterDiscovered
             PROVE  TurnsAre' /\ RegistryIs' /\ TablesKept'
  OBVIOUS
<1> DEFINE c == Crawled
<1>1. /\ phase = "done" /\ UNCHANGED <<config, turn, client>>
      /\ \/ phase' = "refused" /\ UNCHANGED <<sources, discovered>>
         \/ /\ AllNew(sources, c) /\ phase' = "registered" /\ sources' = sources \o c
            /\ discovered' = discovered \cup NamesIn(c)
  BY DEF RegisterDiscovered
<1>2. turn \in 1..Len(config.discover) /\ Len(config.discover) \in Nat
  BY <1>1, ConfigIs DEF TurnsAre, Crawling
<1>3. ~Serving
  BY <1>1 DEF Serving
<1>4. TurnsAre'
  BY <1>1, <1>3 DEF TurnsAre, Crawling
<1>5. TablesKept'
  <2>1. \A i \in DOMAIN config.tables : ~(Len(config.discover) + i <= turn)
    BY <1>2, ConfigIs DEF TurnsAre
  <2>2. QED
    BY <1>1, <2>1 DEF TablesKept
<1>6. CASE UNCHANGED <<sources, discovered>>
  BY <1>4, <1>5, <1>6 DEF RegistryIs
<1>7. CASE AllNew(sources, c) /\ sources' = sources \o c /\ discovered' = discovered \cup NamesIn(c)
  <2>1. IsSequence(c) /\ \A i \in DOMAIN c : Held(c[i]) /\ c[i].kind = "http"
    BY CrawledIs
  <2> HIDE DEF c
  <2>2. IsSequence(sources) /\ OnceNamed(sources) /\ \A i \in DOMAIN sources : Held(sources[i])
    BY DEF RegistryIs
  <2>3. /\ IsSequence(sources') /\ OnceNamed(sources')
        /\ NamesIn(sources') = NamesIn(sources) \cup NamesIn(c)
    BY <1>7, <2>1, <2>2, TogetherAre, NamesTogether
  <2>4. \A k \in DOMAIN sources' : \/ k \in DOMAIN sources /\ sources'[k] = sources[k]
                                   \/ k - Len(sources) \in DOMAIN c /\ sources'[k] = c[k - Len(sources)]
    <3>1. IsSequence(sources) /\ IsSequence(c) /\ sources' = sources \o c
      BY <1>7, <2>1, <2>2
    <3>2. QED
      BY <3>1, EachOfTheTwo
  <2>5. \A k \in DOMAIN sources' : Held(sources'[k])
    BY <2>1, <2>2, <2>4
  <2>6. discovered' \subseteq NamesIn(sources')
    BY <1>7, <2>3 DEF RegistryIs
  <2>7. ASSUME NEW k \in DOMAIN sources', sources'[k].name \in discovered'
        PROVE  sources'[k].kind = "http"
    <3>1. CASE k \in DOMAIN sources /\ sources'[k] = sources[k]
      <4>1. sources[k].name \notin NamesIn(c)
        BY <1>7, <3>1 DEF AllNew, NamesIn
      <4>2. QED
        BY <1>7, <2>7, <3>1, <4>1 DEF RegistryIs
    <3>2. QED
      BY <2>1, <2>4, <3>1
  <2>8. QED
    BY <1>4, <1>5, <2>3, <2>5, <2>6, <2>7 DEF RegistryIs
<1>8. QED
  BY <1>1, <1>6, <1>7

LEMMA AddNamedKeeps ==
    TurnsAre /\ RegistryIs /\ TablesKept /\ AddNamed => TurnsAre' /\ RegistryIs' /\ TablesKept'
<1> SUFFICES ASSUME TurnsAre, RegistryIs, TablesKept, AddNamed
             PROVE  TurnsAre' /\ RegistryIs' /\ TablesKept'
  OBVIOUS
<1> DEFINE m == turn - Len(config.discover) + 1
           read == config.tables[m]
           kept == Without(sources, NamesIn(read) \cap discovered)
<1>0. /\ turn >= Len(config.discover) /\ turn < Len(config.discover) + Len(config.tables)
      /\ turn' = turn + 1 /\ UNCHANGED <<config, client>>
  BY DEF AddNamed
<1>1. /\ phase \in {"idle", "registered"}
      /\ \/ phase' = "refused" /\ UNCHANGED <<sources, discovered>>
         \/ /\ AllNew(kept, read) /\ phase' = "registered"
            /\ sources' = kept \o read /\ discovered' = discovered \ NamesIn(read)
  BY DEF AddNamed
<1>2. /\ Len(config.discover) \in Nat /\ Len(config.tables) \in Nat /\ turn \in Nat
      /\ DOMAIN config.tables = 1..Len(config.tables)
      /\ m \in DOMAIN config.tables /\ IsSequence(read)
      /\ \A k \in DOMAIN read : read[k] \in Configured
  <2>0. config \in Configurations /\ turn \in Nat
    BY DEF TurnsAre
  <2>1. /\ Len(config.discover) \in Nat /\ Len(config.tables) \in Nat
        /\ DOMAIN config.tables = 1..Len(config.tables)
    BY <2>0, ConfigIs
  <2> DEFINE d == Len(config.discover)
             n == Len(config.tables)
  <2>2. m \in DOMAIN config.tables
    <3>1. turn >= d /\ turn < d + n /\ d \in Nat /\ n \in Nat
      BY <1>0, <2>1
    <3> HIDE DEF d, n
    <3>2. turn - d + 1 \in 1..n
      BY <2>0, <3>1
    <3>3. QED
      BY <2>1, <3>2 DEF d, n
  <2>3. IsSequence(config.tables[m]) /\ \A k \in DOMAIN config.tables[m] : config.tables[m][k] \in Configured
    <3> HIDE DEF m
    <3>1. QED
      BY <2>0, <2>2, ConfigIs
  <2>4. QED
    BY <2>0, <2>1, <2>2, <2>3
<1>3. ~Serving
  <2> DEFINE d == Len(config.discover)
             n == Len(config.tables)
  <2>1. (Serving => turn = d + n) /\ turn < d + n
    BY <1>0 DEF Serving
  <2> HIDE DEF d, n
  <2>2. QED
    BY <1>2, <2>1
<1>4. TurnsAre'
  <2>1. turn' \in Nat
    BY <1>0, <1>2
  <2>2. phase' \in {"refused", "registered"}
    BY <1>1
  <2>3. QED
    BY <1>0, <1>3, <2>1, <2>2 DEF TurnsAre, Crawling
<1>5. CASE phase' = "refused" /\ UNCHANGED <<sources, discovered>>
  BY <1>4, <1>5 DEF RegistryIs, TablesKept
<1>6. CASE /\ AllNew(kept, read) /\ phase' = "registered"
           /\ sources' = kept \o read /\ discovered' = discovered \ NamesIn(read)
  <2>1. IsSequence(sources) /\ OnceNamed(sources) /\ \A i \in DOMAIN sources : Held(sources[i])
    BY DEF RegistryIs
  <2>2. /\ IsSequence(kept) /\ OnceNamed(kept) /\ ToSet(kept) \subseteq ToSet(sources)
        /\ \A i \in DOMAIN kept : kept[i].name \notin NamesIn(read) \cap discovered
        /\ \A j \in DOMAIN sources :
             sources[j].name \notin NamesIn(read) \cap discovered => sources[j] \in ToSet(kept)
    BY <2>1, WithoutIs
  <2>3. \A k \in DOMAIN read : Held(read[k])
    <3>1. \A s \in Configured : Held(s)
      BY DEF Configured, Held
    <3>2. QED
      BY <1>2, <3>1
  <2>4. \A i \in DOMAIN kept : \E j \in DOMAIN sources : kept[i] = sources[j]
    BY <2>2 DEF ToSet
  <2> HIDE DEF kept, read, m
  <2>5. /\ IsSequence(sources') /\ OnceNamed(sources')
        /\ NamesIn(sources') = NamesIn(kept) \cup NamesIn(read)
        /\ ToSet(sources') = ToSet(kept) \cup ToSet(read)
    BY <1>2, <1>6, <2>2, TogetherAre, NamesTogether
  <2>6. \A k \in DOMAIN sources' : \/ k \in DOMAIN kept /\ sources'[k] = kept[k]
                                   \/ k - Len(kept) \in DOMAIN read /\ sources'[k] = read[k - Len(kept)]
    <3>1. IsSequence(kept) /\ IsSequence(read) /\ sources' = kept \o read
      BY <1>2, <1>6, <2>2
    <3>2. QED
      BY <3>1, EachOfTheTwo
  <2>7. \A k \in DOMAIN sources' : Held(sources'[k])
    BY <2>1, <2>3, <2>4, <2>6
  <2>8. discovered' \subseteq NamesIn(sources')
    <3>1. ASSUME NEW name \in discovered, name \notin NamesIn(read)
          PROVE  name \in NamesIn(kept)
      <4>1. PICK j \in DOMAIN sources : sources[j].name = name
        BY <3>1 DEF RegistryIs, NamesIn
      <4>2. sources[j] \in ToSet(kept)
        BY <2>2, <3>1, <4>1
      <4>3. QED
        BY <4>1, <4>2 DEF ToSet, NamesIn
    <3>2. QED
      BY <1>6, <2>5, <3>1
  <2>9. ASSUME NEW k \in DOMAIN sources', sources'[k].name \in discovered'
        PROVE  sources'[k].kind = "http"
    <3>1. CASE k \in DOMAIN kept /\ sources'[k] = kept[k]
      BY <1>6, <2>4, <2>9, <3>1 DEF RegistryIs
    <3>2. CASE k - Len(kept) \in DOMAIN read /\ sources'[k] = read[k - Len(kept)]
      BY <1>6, <2>9, <3>2 DEF NamesIn
    <3>3. QED
      BY <2>6, <3>1, <3>2
  <2>10. TablesKept'
    <3>1. ASSUME NEW i \in DOMAIN config.tables, Len(config.discover) + i <= turn + 1
          PROVE  /\ ToSet(config.tables[i]) \subseteq ToSet(sources')
                 /\ NamesIn(config.tables[i]) \cap discovered' = {}
      <4>1. CASE i = m
        <5>1. config.tables[i] = read
          BY <4>1 DEF read
        <5>2. QED
          BY <1>6, <2>5, <5>1
      <4>2. CASE i # m
        <5>1. Len(config.discover) + i <= turn
          <6>1. i \in Nat /\ turn \in Nat /\ Len(config.discover) \in Nat
            BY <1>2
          <6> DEFINE d == Len(config.discover)
          <6>2. i # turn - d + 1 /\ d + i <= turn + 1 /\ d \in Nat
            BY <3>1, <4>2, <6>1 DEF m
          <6> HIDE DEF d
          <6>3. d + i <= turn
            BY <6>1, <6>2
          <6>4. QED
            BY <6>3 DEF d
        <5>2. /\ ToSet(config.tables[i]) \subseteq ToSet(sources)
              /\ NamesIn(config.tables[i]) \cap discovered = {}
          BY <1>1, <3>1, <5>1 DEF TablesKept
        <5>3. ASSUME NEW e \in ToSet(config.tables[i])
              PROVE  e \in ToSet(sources')
          <6>1. PICK j \in DOMAIN sources : sources[j] = e
            BY <5>2, <5>3 DEF ToSet
          <6>2. e.name \in NamesIn(config.tables[i])
            BY <5>3 DEF ToSet, NamesIn
          <6>3. sources[j] \in ToSet(kept)
            BY <2>2, <5>2, <6>1, <6>2
          <6>4. QED
            BY <2>5, <6>1, <6>3
        <5>4. QED
          BY <1>6, <5>2, <5>3
      <4>3. QED
        BY <4>1, <4>2
    <3>2. QED
      BY <1>0, <3>1 DEF TablesKept
  <2>11. QED
    BY <1>4, <2>5, <2>7, <2>8, <2>9, <2>10 DEF RegistryIs
<1>7. QED
  BY <1>1, <1>5, <1>6

LEMMA StartCrawlKeeps ==
    TurnsAre /\ RegistryIs /\ TablesKept /\ StartCrawl
    => TurnsAre' /\ RegistryIs' /\ TablesKept' /\ CrawlIsSound'
<1> SUFFICES ASSUME TurnsAre, RegistryIs, TablesKept, StartCrawl
             PROVE  TurnsAre' /\ RegistryIs' /\ TablesKept' /\ CrawlIsSound'
  OBVIOUS
<1>0. /\ turn < Len(config.discover) /\ turn' = turn + 1
      /\ UNCHANGED <<config, sources, discovered, client>>
  BY DEF StartCrawl, servedVars
<1>1. Starts(config.discover[turn + 1].at) /\ phase' = "describe 1"
  BY DEF StartCrawl, Starts
<1>2. /\ Len(config.discover) \in Nat /\ turn \in Nat /\ turn + 1 \in 1..Len(config.discover)
      /\ IsSurface(config.discover[turn + 1].at)
      /\ \A i \in DOMAIN config.tables : ~(Len(config.discover) + i <= turn + 1)
      /\ Len(config.tables) \in Nat
  <2>0. config \in Configurations /\ turn \in Nat
    BY DEF TurnsAre
  <2>1. /\ Len(config.discover) \in Nat /\ Len(config.tables) \in Nat
        /\ DOMAIN config.tables = 1..Len(config.tables)
    BY <2>0, ConfigIs
  <2>2. turn + 1 \in 1..Len(config.discover)
    BY <1>0, <2>0, <2>1
  <2>3. IsSurface(config.discover[turn + 1].at)
    BY <2>0, <2>2, ConfigIs
  <2>4. QED
    BY <2>0, <2>1, <2>2, <2>3
<1>3. ~Serving
  <2> DEFINE d == Len(config.discover)
             n == Len(config.tables)
  <2>1. (Serving => turn = d + n) /\ turn < d /\ d \in Nat /\ n \in Nat
    BY <1>0, <1>2 DEF Serving
  <2> HIDE DEF d, n
  <2>2. QED
    BY <2>1
<1>4. TurnsAre'
  <2>1. turn' \in Nat /\ turn' \in 1..Len(config'.discover)
    BY <1>0, <1>2
  <2>2. QED
    BY <1>0, <1>1, <1>3, <2>1 DEF TurnsAre, Crawling
<1>5. RegistryIs' /\ TablesKept'
  BY <1>0, <1>2 DEF RegistryIs, TablesKept
<1>6. QED
  BY <1>1, <1>2, <1>4, <1>5, StartsIsSound

-------------------------------------------------------------------------------
(* What a thread listing the registry holds, against the registry itself.    *)

Busy == {"reading", "children", "testing", "registering"}
NextName(c) == ChildName(c.snapshot[c.of], Head(c.left))
NamesOf(c) == NamesIn(c.snapshot) \cup NamesIn(c.added)
Awaited(c) == {ChildName(c.snapshot[c.of], a) : a \in ToSet(c.left)}
HasItsFields(c) ==
    c = [at |-> c.at, snapshot |-> c.snapshot, shaped |-> c.shaped, of |-> c.of,
         left |-> c.left, added |-> c.added, shown |-> c.shown, others |-> c.others]
IsList(c) ==
    /\ HasItsFields(c)
    /\ IsSequence(c.snapshot) /\ IsSequence(c.added) /\ c.left \in Seq(STRING)
    /\ c.of \in Nat \ {0}
    /\ \A i \in DOMAIN c.snapshot : Held(c.snapshot[i])
    /\ c.at \in {"reading", "children"} => c.left = <<>>
    /\ c.at = "registering" => c.left # <<>> /\ NextName(c) \notin NamesOf(c)
Lists(c, registry) ==
    /\ \A i \in DOMAIN c.snapshot :
         i \in DOMAIN registry /\ registry[i].name = c.snapshot[i].name
    /\ OnceNamed(c.added) /\ NamesIn(c.added) \cap NamesIn(c.snapshot) = {}
    /\ NamesIn(c.added) \subseteq NamesIn(registry)
    /\ NamesIn(registry) \subseteq NamesOf(c) \cup c.others
    /\ c.shown \subseteq NamesOf(c) \cup c.others \cup Awaited(c)
    /\ c.others = {} =>
         /\ Len(registry) = Len(c.snapshot) + Len(c.added)
         /\ \A i \in DOMAIN c.added : registry[Len(c.snapshot) + i].name = c.added[i].name
    /\ c.at = "registering" =>
         \A i \in DOMAIN registry : registry[i].name = NextName(c) => registry[i].kind = "child"
IsListed(c, registry) ==
    /\ c.at \in {"listed", "missing"} =>
         c = [at |-> c.at, names |-> c.names, shown |-> c.shown, others |-> c.others,
              total |-> c.total]
    /\ IsSequence(c.names) /\ \A i, j \in DOMAIN c.names : c.names[i] = c.names[j] => i = j
    /\ ToSet(c.names) \subseteq NamesIn(registry)
    /\ c.at = "listed" =>
         /\ c.shown \subseteq ToSet(c.names) \cup c.others
         /\ c.others = {} => \A i \in DOMAIN c.names : 
              i \in DOMAIN registry /\ registry[i].name = c.names[i]
    /\ c.at = "missing" => Nameless \notin ToSet(c.names)
    /\ c.at = "answered" => (c.name \in ToSet(c.names) => c.reply \in {"rows", "50001"})
ClientsAre ==
    /\ client = [t \in Clients |-> client[t]]
    /\ \A t \in Clients :
         /\ client[t].at \in Busy \cup {"idle", "listed", "missing", "answered"}
         /\ client[t].at = "idle" => client[t] = Idle
         /\ client[t].at \in Busy => IsList(client[t]) /\ Lists(client[t], sources)
         /\ client[t].at \in {"listed", "missing", "answered"} => IsListed(client[t], sources)

LEMMA ListIs ==
    ASSUME NEW c, IsList(c)
    PROVE  /\ IsSequence(c.snapshot) /\ IsSequence(c.added) /\ c.left \in Seq(STRING)
           /\ Len(c.snapshot) \in Nat /\ DOMAIN c.snapshot = 1..Len(c.snapshot)
           /\ Len(c.added) \in Nat /\ DOMAIN c.added = 1..Len(c.added)
BY SequenceHas DEF IsList

(* A list that keeps its snapshot and what it added keeps what it says.     *)
LEMMA StillLists ==
    ASSUME NEW c, IsList(c), Lists(c, sources), NEW d,
           HasItsFields(d), d.snapshot = c.snapshot, d.added = c.added, d.others = c.others,
           d.left \in Seq(STRING), d.of \in Nat \ {0},
           d.at \in {"reading", "children"} => d.left = <<>>,
           d.at # "registering",
           d.shown \subseteq NamesOf(c) \cup c.others \cup Awaited(d)
    PROVE  IsList(d) /\ Lists(d, sources)
<1>1. NamesOf(d) = NamesOf(c)
  BY DEF NamesOf
<1>2. IsList(d)
  BY <1>1 DEF IsList
<1>3. Lists(d, sources)
  BY <1>1 DEF Lists
<1>4. QED
  BY <1>2, <1>3

LEMMA EmptyIs == /\ IsSequence(<<>>) /\ <<>> \in Seq(STRING)
                 /\ NamesIn(<<>>) = {} /\ ToSet(<<>>) = {} /\ OnceNamed(<<>>)
<1>1. <<>> \in Seq(ToSet(<<>>)) /\ <<>> \in Seq(STRING) /\ DOMAIN <<>> = {}
  OBVIOUS
<1>2. QED
  BY <1>1 DEF IsSequence, NamesIn, ToSet, OnceNamed

LEMMA ListBegins ==
    ASSUME RegistryIs, NEW d,
           d = [at |-> "reading", snapshot |-> sources, shaped |-> <<>>, of |-> 1,
                left |-> <<>>, added |-> <<>>, shown |-> {}, others |-> {}]
    PROVE  IsList(d) /\ Lists(d, sources)
<1>1. /\ d.at = "reading" /\ d.snapshot = sources /\ d.left = <<>> /\ d.added = <<>>
      /\ d.shown = {} /\ d.others = {} /\ d.of = 1 /\ HasItsFields(d)
  BY DEF HasItsFields
<1>2. IsSequence(sources) /\ \A i \in DOMAIN sources : Held(sources[i])
  BY DEF RegistryIs
<1>3. IsList(d)
  BY <1>1, <1>2, EmptyIs DEF IsList
<1>4. Lists(d, sources)
  <2>1. NamesOf(d) = NamesIn(sources)
    BY <1>1, EmptyIs DEF NamesOf
  <2>2. Len(sources) = Len(d.snapshot) + Len(d.added) /\ DOMAIN d.added = {}
    BY <1>1, <1>2, SequenceHas
  <2>3. OnceNamed(d.added) /\ NamesIn(d.added) = {}
    BY <1>1, EmptyIs
  <2>4. QED
    BY <1>1, <2>1, <2>2, <2>3 DEF Lists
<1>5. QED
  BY <1>3, <1>4

(* The client t changes and nothing of the registry does. *)
LEMMA OneMoves ==
    ASSUME ClientsAre, UNCHANGED sources, NEW t \in Clients, NEW d,
           client' = [client EXCEPT ![t] = d],
           /\ d.at \in Busy \cup {"listed", "missing", "answered"}
           /\ d.at \in Busy => IsList(d) /\ Lists(d, sources)
           /\ d.at \in {"listed", "missing", "answered"} => IsListed(d, sources)
    PROVE  ClientsAre'
<1>1. client = [u \in Clients |-> client[u]]
  BY DEF ClientsAre
<1>2. client' = [u \in Clients |-> client'[u]] /\ client'[t] = d
      /\ \A u \in Clients : u # t => client'[u] = client[u]
  BY <1>1
<1>3. ASSUME NEW u \in Clients
      PROVE  /\ client'[u].at \in Busy \cup {"idle", "listed", "missing", "answered"}
             /\ client'[u].at = "idle" => client'[u] = Idle
             /\ client'[u].at \in Busy => IsList(client'[u])
             /\ client'[u].at \in Busy => Lists(client'[u], sources')
             /\ client'[u].at \in {"listed", "missing", "answered"} => IsListed(client'[u], sources')
  <2>1. CASE u = t
    <3>1. d.at # "idle" /\ client'[u] = d
      BY <1>2, <2>1 DEF Busy
    <3>2. QED
      BY <3>1
  <2>2. CASE u # t
    <3>1. client'[u] = client[u]
      BY <1>2, <2>2
    <3>2. QED
      BY <3>1 DEF ClientsAre
  <2>3. QED
    BY <2>1, <2>2
<1>4. QED
  BY <1>2, <1>3 DEF ClientsAre

LEMMA NoneAwaited ==
    ASSUME NEW c, c.left = <<>>
    PROVE  Awaited(c) = {}
BY EmptyIs DEF Awaited

LEMMA AwaitedAre ==
    ASSUME NEW c, c.left \in Seq(STRING), c.left # <<>>
    PROVE  Awaited(c) = {NextName(c)}
                          \cup {ChildName(c.snapshot[c.of], a) : a \in ToSet(Tail(c.left))}
<1> DEFINE l == c.left
           r == Tail(l)
<1>1. l \in Seq(STRING) /\ l # <<>>
  OBVIOUS
<1>2. /\ DOMAIN l = 1..Len(l) /\ Len(l) \in Nat \ {0} /\ Head(l) = l[1]
      /\ DOMAIN r = 1..(Len(l) - 1) /\ \A i \in 1..(Len(l) - 1) : r[i] = l[i + 1]
  <2> HIDE DEF l
  <2>1. QED
    BY <1>1, HeadTailProperties
<1>3. Awaited(c) = {ChildName(c.snapshot[c.of], a) : a \in ToSet(l)}
  BY DEF Awaited
<1>4. NextName(c) = ChildName(c.snapshot[c.of], Head(l))
  BY DEF NextName
<1> HIDE DEF r, l
<1>5. \A i \in 1..Len(l) : i = 1 \/ (i - 1 \in 1..(Len(l) - 1) /\ i = (i - 1) + 1)
  BY <1>2
<1>6. ASSUME NEW i \in DOMAIN l, i # 1
      PROVE  l[i] \in ToSet(r)
  <2> DEFINE k == i - 1
  <2>1. k \in 1..(Len(l) - 1) /\ i = k + 1
    BY <1>2, <1>5, <1>6
  <2> HIDE DEF k
  <2>2. k \in DOMAIN r /\ r[k] = l[i]
    BY <1>2, <2>1
  <2>3. QED
    BY <2>2 DEF ToSet
<1>7. ASSUME NEW i \in DOMAIN r
      PROVE  r[i] \in ToSet(l)
  <2>1. i + 1 \in DOMAIN l /\ i \in 1..(Len(l) - 1)
    BY <1>2, <1>7
  <2>2. l[i + 1] \in ToSet(l)
    BY <2>1 DEF ToSet
  <2>3. r[i] = l[i + 1]
    BY <1>2, <2>1
  <2>4. QED
    BY <2>2, <2>3
<1>8. Head(l) \in ToSet(l)
  <2>1. 1 \in DOMAIN l
    BY <1>2
  <2>2. l[1] \in ToSet(l)
    BY <2>1 DEF ToSet
  <2>3. QED
    BY <1>2, <2>2
<1>9. ToSet(l) = {Head(l)} \cup ToSet(r)
  <2>1. \A i \in DOMAIN l : l[i] = Head(l) \/ l[i] \in ToSet(r)
    BY <1>2, <1>6
  <2>2. ToSet(r) \subseteq ToSet(l)
    BY <1>7 DEF ToSet
  <2>3. ToSet(l) \subseteq {Head(l)} \cup ToSet(r)
    BY <2>1 DEF ToSet
  <2>4. QED
    BY <1>8, <2>2, <2>3
<1>10. Awaited(c) = {NextName(c)} \cup {ChildName(c.snapshot[c.of], a) : a \in ToSet(r)}
  BY <1>3, <1>4, <1>9
<1>11. QED
  BY <1>10 DEF r, l

LEMMA ListKeeps ==
    ASSUME RegistryIs, ClientsAre, NEW t \in Clients, List(t)
    PROVE  ClientsAre'
<1> DEFINE d == [at |-> "reading", snapshot |-> sources, shaped |-> <<>>, of |-> 1,
                 left |-> <<>>, added |-> <<>>, shown |-> {}, others |-> {}]
<1>1. client' = [client EXCEPT ![t] = d] /\ UNCHANGED sources
  BY DEF List
<1>2. IsList(d) /\ Lists(d, sources)
  BY ListBegins
<1>3. d.at = "reading"
  OBVIOUS
<1> HIDE DEF d
<1>4. QED
  BY <1>1, <1>2, <1>3, OneMoves DEF Busy

LEMMA ShapeKeeps ==
    ASSUME ClientsAre, NEW t \in Clients, Shape(t)
    PROVE  ClientsAre'
<1> DEFINE c == client[t]
<1>1. /\ c.at = "reading" /\ UNCHANGED sources
      /\ \/ client' = [client EXCEPT ![t].at = "children"]
         \/ \E isLost \in {FALSE, TRUE} : client' = [client EXCEPT ![t].shaped = Append(@, ~isLost)]
  BY DEF Shape
<1>2. IsList(c) /\ Lists(c, sources) /\ client = [u \in Clients |-> client[u]] /\ HasItsFields(c)
  BY <1>1 DEF ClientsAre, Busy, IsList
<1>3. \E d : /\ client' = [client EXCEPT ![t] = d] /\ HasItsFields(d)
             /\ d.snapshot = c.snapshot /\ d.of = c.of /\ d.left = c.left /\ d.added = c.added
             /\ d.shown = c.shown /\ d.others = c.others /\ d.at \in {"reading", "children"}
  <2>1. CASE client' = [client EXCEPT ![t].at = "children"]
    <3> DEFINE d == [c EXCEPT !.at = "children"]
    <3>1. client' = [client EXCEPT ![t] = d]
      BY <1>2, <2>1
    <3>2. /\ HasItsFields(d) /\ d.snapshot = c.snapshot /\ d.of = c.of /\ d.left = c.left
          /\ d.added = c.added /\ d.shown = c.shown /\ d.others = c.others /\ d.at = "children"
      BY <1>2 DEF HasItsFields
    <3> HIDE DEF d
    <3>3. QED
      BY <3>1, <3>2
  <2>2. ASSUME NEW isLost \in {FALSE, TRUE}, client' = [client EXCEPT ![t].shaped = Append(@, ~isLost)]
        PROVE  \E d : /\ client' = [client EXCEPT ![t] = d] /\ HasItsFields(d)
                      /\ d.snapshot = c.snapshot /\ d.of = c.of /\ d.left = c.left
                      /\ d.added = c.added /\ d.shown = c.shown /\ d.others = c.others
                      /\ d.at \in {"reading", "children"}
    <3> DEFINE shaped == Append(c.shaped, ~isLost)
               d == [c EXCEPT !.shaped = shaped]
    <3>1. client' = [client EXCEPT ![t] = d]
      BY <1>2, <2>2
    <3> HIDE DEF shaped
    <3>2. /\ HasItsFields(d) /\ d.snapshot = c.snapshot /\ d.of = c.of /\ d.left = c.left
          /\ d.added = c.added /\ d.shown = c.shown /\ d.others = c.others /\ d.at = c.at
      BY <1>2 DEF HasItsFields
    <3> HIDE DEF d
    <3>3. QED
      BY <1>1, <3>1, <3>2
  <2>3. QED
    BY <1>1, <2>1, <2>2
<1>4. PICK d : /\ client' = [client EXCEPT ![t] = d] /\ HasItsFields(d)
               /\ d.snapshot = c.snapshot /\ d.of = c.of /\ d.left = c.left /\ d.added = c.added
               /\ d.shown = c.shown /\ d.others = c.others /\ d.at \in {"reading", "children"}
  BY <1>3
<1>5. /\ c.left = <<>> /\ c.of \in Nat \ {0} /\ c.left \in Seq(STRING)
      /\ c.shown \subseteq NamesOf(c) \cup c.others
  <2>1. /\ c.left = <<>> /\ c.of \in Nat \ {0} /\ c.left \in Seq(STRING)
        /\ c.shown \subseteq NamesOf(c) \cup c.others \cup Awaited(c)
    BY <1>1, <1>2 DEF IsList, Lists
  <2> HIDE DEF c
  <2>2. Awaited(c) = {}
    BY <2>1, NoneAwaited
  <2>3. QED
    BY <2>1, <2>2
<1> HIDE DEF c
<1>6. IsList(d) /\ Lists(d, sources)
  BY <1>2, <1>4, <1>5, StillLists
<1>7. QED
  BY <1>1, <1>4, <1>6, OneMoves DEF Busy

LEMMA AskForChildrenKeeps ==
    ASSUME ClientsAre, NEW t \in Clients, AskForChildren(t)
    PROVE  ClientsAre'
<1> DEFINE c == client[t]
           source == c.snapshot[c.of]
<1>1. /\ c.at = "children" /\ c.of <= Len(c.snapshot) /\ UNCHANGED sources
      /\ \E isLost \in {FALSE, TRUE} :
           \E arrays \in {IF isLost THEN <<>> ELSE Shown(source, cache')} :
             client' = [client EXCEPT ![t].left = arrays, ![t].at = "testing",
                          ![t].shown = @ \cup {ChildName(source, a) : a \in ToSet(arrays)}]
  BY DEF AskForChildren
<1>2. IsList(c) /\ Lists(c, sources) /\ client = [u \in Clients |-> client[u]] /\ HasItsFields(c)
  BY <1>1 DEF ClientsAre, Busy, IsList
<1>3. PICK isLost \in {FALSE, TRUE} :
           \E arrays \in {IF isLost THEN <<>> ELSE Shown(source, cache')} :
             client' = [client EXCEPT ![t].left = arrays, ![t].at = "testing",
                          ![t].shown = @ \cup {ChildName(source, a) : a \in ToSet(arrays)}]
  BY <1>1
<1> DEFINE arrays == IF isLost THEN <<>> ELSE Shown(source, cache')
           shown == c.shown \cup {ChildName(source, a) : a \in ToSet(arrays)}
           testing == "testing"
<1>4. PICK d : /\ d = [c EXCEPT !.left = arrays, !.at = testing, !.shown = shown]
               /\ client' = [client EXCEPT ![t] = d]
  <2>1. client' = [client EXCEPT ![t] = [c EXCEPT !.left = arrays, !.at = testing, !.shown = shown]]
    BY <1>2, <1>3
  <2> HIDE DEF c, arrays, testing, shown
  <2>2. QED
    BY <2>1
<1>5. arrays \in Seq(STRING)
  <2>1. c.of \in DOMAIN c.snapshot
    <3>1. c.of \in Nat \ {0} /\ Len(c.snapshot) \in Nat /\ DOMAIN c.snapshot = 1..Len(c.snapshot)
      BY <1>2, ListIs DEF IsList
    <3>2. c.of <= Len(c.snapshot)
      BY <1>1
    <3>3. QED
      BY <3>1, <3>2
  <2>2. source.kind = "http" => source.arrays \in Seq(STRING)
    BY <1>2, <2>1 DEF IsList, Held
  <2> HIDE DEF source
  <2>3. Shown(source, cache') \in Seq(STRING)
    BY <2>2, EmptyIs DEF Shown
  <2>4. QED
    BY <2>3, EmptyIs
<1> HIDE DEF arrays
<1>6. /\ HasItsFields(d) /\ d.snapshot = c.snapshot /\ d.of = c.of /\ d.left = arrays
      /\ d.added = c.added /\ d.shown = shown /\ d.others = c.others /\ d.at = testing
  <2> HIDE DEF c, shown, testing
  <2>1. QED
    BY <1>2, <1>4 DEF HasItsFields
<1>7. d.shown \subseteq NamesOf(c) \cup c.others \cup Awaited(d)
  <2>1. c.left = <<>> /\ c.shown \subseteq NamesOf(c) \cup c.others \cup Awaited(c)
    BY <1>1, <1>2 DEF IsList, Lists
  <2>2. Awaited(d) = {ChildName(source, a) : a \in ToSet(arrays)}
    BY <1>6 DEF Awaited
  <2> HIDE DEF c
  <2>3. Awaited(c) = {}
    BY <2>1, NoneAwaited
  <2>4. d.shown = c.shown \cup Awaited(d)
    BY <1>6, <2>2 DEF shown, c
  <2>5. QED
    BY <2>1, <2>3, <2>4
<1>8. d.of \in Nat \ {0}
  <2>1. c.of \in Nat \ {0}
    BY <1>2 DEF IsList
  <2>2. QED
    BY <1>6, <2>1
<1>9. d.at = "testing"
  BY <1>6 DEF testing
<1> HIDE DEF c, shown
<1>10. IsList(d) /\ Lists(d, sources)
  BY <1>2, <1>5, <1>6, <1>7, <1>8, <1>9, StillLists
<1>11. QED
  BY <1>1, <1>4, <1>9, <1>10, OneMoves DEF Busy

LEMMA TestNameKeeps ==
    ASSUME ClientsAre, NEW t \in Clients, TestName(t)
    PROVE  ClientsAre'
<1> DEFINE c == client[t]
<1>1. /\ c.at = "testing" /\ UNCHANGED sources
      /\ client' =
           IF c.left = <<>>
           THEN [client EXCEPT ![t].at = "children", ![t].of = @ + 1]
           ELSE IF IsTaken(Offered(t).name) THEN [client EXCEPT ![t].left = Tail(@)]
           ELSE [client EXCEPT ![t].at = "registering"]
  BY DEF TestName
<1>2. IsList(c) /\ Lists(c, sources) /\ client = [u \in Clients |-> client[u]] /\ HasItsFields(c)
  BY <1>1 DEF ClientsAre, Busy, IsList
<1>3. /\ c.of \in Nat \ {0} /\ c.left \in Seq(STRING)
      /\ c.shown \subseteq NamesOf(c) \cup c.others \cup Awaited(c)
      /\ NamesIn(sources) \subseteq NamesOf(c) \cup c.others
      /\ NamesOf(c) \subseteq NamesIn(sources)
  <2>1. /\ c.of \in Nat \ {0} /\ c.left \in Seq(STRING)
        /\ c.shown \subseteq NamesOf(c) \cup c.others \cup Awaited(c)
        /\ NamesIn(sources) \subseteq NamesOf(c) \cup c.others
        /\ NamesIn(c.added) \subseteq NamesIn(sources)
    BY <1>2 DEF IsList, Lists
  <2>2. NamesIn(c.snapshot) \subseteq NamesIn(sources)
    BY <1>2 DEF Lists, NamesIn
  <2>3. QED
    BY <2>1, <2>2 DEF NamesOf
<1>4. Offered(t).name = NextName(c)
  BY DEF Offered, NextName
<1>5. CASE c.left = <<>>
  <2> DEFINE of == c.of + 1
             children == "children"
  <2>1. PICK d : /\ d = [c EXCEPT !.at = children, !.of = of]
                 /\ client' = [client EXCEPT ![t] = d]
    <3>1. client' = [client EXCEPT ![t] = [c EXCEPT !.at = children, !.of = of]]
      BY <1>1, <1>2, <1>5
    <3> HIDE DEF c, children, of
    <3>2. QED
      BY <3>1
  <2>2. of \in Nat \ {0}
    BY <1>3
  <2> HIDE DEF of
  <2>3. /\ HasItsFields(d) /\ d.snapshot = c.snapshot /\ d.of = of /\ d.left = c.left
        /\ d.added = c.added /\ d.shown = c.shown /\ d.others = c.others /\ d.at = children
    <3> HIDE DEF c, children
    <3>1. QED
      BY <1>2, <2>1 DEF HasItsFields
  <2>4. d.at = "children"
    BY <2>3
  <2> HIDE DEF c, children
  <2>5. Awaited(c) = {}
    BY <1>5, NoneAwaited
  <2>6. IsList(d) /\ Lists(d, sources)
    BY <1>2, <1>3, <1>5, <2>2, <2>3, <2>4, <2>5, StillLists
  <2>7. QED
    BY <1>1, <2>1, <2>4, <2>6, OneMoves DEF Busy
<1>6. CASE c.left # <<>> /\ IsTaken(Offered(t).name)
  <2> DEFINE left == Tail(c.left)
             d == [c EXCEPT !.left = left]
  <2>1. client' = [client EXCEPT ![t] = d]
    BY <1>1, <1>2, <1>6
  <2>2. left \in Seq(STRING)
    BY <1>3, <1>6, HeadTailProperties
  <2> HIDE DEF left
  <2>3. /\ HasItsFields(d) /\ d.snapshot = c.snapshot /\ d.of = c.of /\ d.left = left
        /\ d.added = c.added /\ d.shown = c.shown /\ d.others = c.others /\ d.at = c.at
    BY <1>2 DEF HasItsFields
  <2>4. d.at = "testing"
    BY <1>1, <2>3
  <2> HIDE DEF d
  <2>5. Awaited(d) = {ChildName(c.snapshot[c.of], a) : a \in ToSet(left)}
    BY <2>3 DEF Awaited
  <2>6. NextName(c) \in NamesIn(sources)
    BY <1>4, <1>6 DEF IsTaken
  <2> HIDE DEF c
  <2>7. Awaited(c) = {NextName(c)} \cup {ChildName(c.snapshot[c.of], a) : a \in ToSet(left)}
    BY <1>3, <1>6, AwaitedAre DEF left
  <2>8. c.shown \subseteq NamesOf(c) \cup c.others \cup Awaited(d)
    BY <1>3, <2>5, <2>6, <2>7
  <2>9. IsList(d) /\ Lists(d, sources)
    BY <1>2, <1>3, <2>2, <2>3, <2>4, <2>8, StillLists
  <2>10. QED
    BY <1>1, <2>1, <2>4, <2>9, OneMoves DEF Busy
<1>7. CASE c.left # <<>> /\ ~IsTaken(Offered(t).name)
  <2> DEFINE registering == "registering"
             d == [c EXCEPT !.at = registering]
  <2>1. client' = [client EXCEPT ![t] = d]
    BY <1>1, <1>2, <1>7
  <2>2. /\ HasItsFields(d) /\ d.snapshot = c.snapshot /\ d.of = c.of /\ d.left = c.left
        /\ d.added = c.added /\ d.shown = c.shown /\ d.others = c.others /\ d.at = registering
    <3> HIDE DEF registering
    <3>1. QED
      BY <1>2 DEF HasItsFields
  <2>3. d.at = "registering"
    BY <2>2
  <2>4. NextName(c) \notin NamesIn(sources) /\ NextName(c) \notin NamesOf(c)
    BY <1>3, <1>4, <1>7 DEF IsTaken
  <2> HIDE DEF c, d, registering
  <2>5. NextName(d) = NextName(c) /\ NamesOf(d) = NamesOf(c) /\ Awaited(d) = Awaited(c)
    BY <2>2 DEF NextName, NamesOf, Awaited
  <2>6. IsList(d)
    BY <1>2, <1>7, <2>2, <2>3, <2>4, <2>5 DEF IsList
  <2>7. \A i \in DOMAIN sources : sources[i].name # NextName(d)
    BY <2>4, <2>5 DEF NamesIn
  <2>8. Lists(d, sources)
    BY <1>2, <2>2, <2>5, <2>7 DEF Lists
  <2>9. QED
    BY <1>1, <2>1, <2>3, <2>6, <2>8, OneMoves DEF Busy
<1>8. QED
  BY <1>5, <1>6, <1>7

(* What a list finds, and its names.                                        *)
AreListed(c, u, names) ==
    u = c.snapshot \o c.added /\ names = [i \in DOMAIN u |-> u[i].name]

LEMMA ListedIs ==
    ASSUME NEW c, IsList(c), Lists(c, sources), OnceNamed(sources), IsSequence(sources),
           NEW u, NEW names, AreListed(c, u, names)
    PROVE  /\ IsSequence(names) /\ ToSet(names) = NamesOf(c)
           /\ \A i, j \in DOMAIN names : names[i] = names[j] => i = j
           /\ c.others = {} => \A i \in DOMAIN names :
                                 i \in DOMAIN sources /\ sources[i].name = names[i]
<1> DEFINE s == c.snapshot
           r == c.added
<1>1. /\ IsSequence(s) /\ IsSequence(r) /\ Len(s) \in Nat /\ DOMAIN s = 1..Len(s)
      /\ Len(r) \in Nat /\ DOMAIN r = 1..Len(r)
  BY ListIs
<1>2. /\ \A i \in DOMAIN s : i \in DOMAIN sources /\ sources[i].name = s[i].name
      /\ OnceNamed(r) /\ NamesIn(r) \cap NamesIn(s) = {}
      /\ c.others = {} =>
           /\ Len(sources) = Len(s) + Len(r)
           /\ \A i \in DOMAIN r : sources[Len(s) + i].name = r[i].name
  BY DEF Lists
<1>3. NamesOf(c) = NamesIn(s) \cup NamesIn(r)
  BY DEF NamesOf
<1>4. u = s \o r
  BY DEF AreListed
<1> HIDE DEF s, r
<1>5. OnceNamed(s)
  <2>1. ASSUME NEW i \in DOMAIN s, NEW j \in DOMAIN s, s[i].name = s[j].name
        PROVE  i = j
    <3>1. sources[i].name = sources[j].name /\ i \in DOMAIN sources /\ j \in DOMAIN sources
      BY <1>2, <2>1
    <3>2. QED
      BY <3>1 DEF OnceNamed
  <2>2. QED
    BY <2>1 DEF OnceNamed
<1>6. AllNew(s, r)
  BY <1>2 DEF AllNew, OnceNamed
<1>7. /\ IsSequence(u) /\ Len(u) = Len(s) + Len(r)
      /\ NamesIn(u) = NamesIn(s) \cup NamesIn(r) /\ OnceNamed(u)
  <2> DEFINE v == s \o r
  <2>1. IsSequence(v) /\ Len(v) = Len(s) + Len(r)
    BY <1>1, TogetherAre
  <2>2. NamesIn(v) = NamesIn(s) \cup NamesIn(r) /\ OnceNamed(v)
    BY <1>1, <1>5, <1>6, NamesTogether
  <2>3. u = v
    BY <1>4
  <2> HIDE DEF v
  <2>4. QED
    BY <2>1, <2>2, <2>3
<1>8. Len(u) \in Nat /\ DOMAIN u = 1..Len(u)
  BY <1>7, SequenceHas
<1>9. DOMAIN names = DOMAIN u /\ \A i \in DOMAIN u : names[i] = u[i].name
  BY DEF AreListed
<1>10. ToSet(names) = NamesIn(u)
  BY <1>9 DEF ToSet, NamesIn
<1>11. IsSequence(names)
  <2> DEFINE m == Len(u)
             S == NamesIn(u)
             name(i) == u[i].name
  <2>1. \A i \in 1..m : name(i) \in S
    BY <1>8 DEF NamesIn
  <2>2. names = [i \in 1..m |-> name(i)] /\ m \in Nat
    BY <1>8 DEF AreListed
  <2> HIDE DEF m, S, name
  <2>3. [i \in 1..m |-> name(i)] \in Seq(S)
    BY <2>1, <2>2, IsASeq
  <2>4. names \in Seq(S)
    BY <2>2, <2>3
  <2>5. QED
    BY <2>4, SequenceIs
<1>12. \A i, j \in DOMAIN names : names[i] = names[j] => i = j
  BY <1>7, <1>9 DEF OnceNamed
<1>13. ASSUME c.others = {}, NEW i \in DOMAIN names
       PROVE  i \in DOMAIN sources /\ sources[i].name = names[i]
  <2>1. \/ i \in DOMAIN s /\ u[i] = s[i]
        \/ i - Len(s) \in DOMAIN r /\ u[i] = r[i - Len(s)]
    BY <1>1, <1>4, <1>9, <1>13, EachOfTheTwo
  <2>2. CASE i \in DOMAIN s /\ u[i] = s[i]
    BY <1>2, <1>9, <1>13, <2>2
  <2>3. CASE i - Len(s) \in DOMAIN r /\ u[i] = r[i - Len(s)]
    <3> DEFINE k == i - Len(s)
    <3>1. i = Len(s) + k /\ i \in 1..(Len(s) + Len(r))
      BY <1>1, <1>7, <1>8, <1>9, <1>13
    <3>2. k \in DOMAIN r /\ u[i] = r[k]
      BY <2>3
    <3> HIDE DEF k
    <3>3. Len(sources) = Len(s) + Len(r) /\ sources[Len(s) + k].name = r[k].name
      BY <1>2, <1>13, <3>2
    <3>4. i \in DOMAIN sources
      BY <3>1, <3>3, SequenceHas
    <3>5. sources[i].name = r[k].name
      BY <3>1, <3>3
    <3>6. names[i] = u[i].name
      BY <1>9, <1>13
    <3>7. QED
      BY <3>2, <3>4, <3>5, <3>6
  <2>4. QED
    BY <2>1, <2>2, <2>3
<1>14. QED
  BY <1>3, <1>7, <1>10, <1>11, <1>12, <1>13

LEMMA FinishListKeeps ==
    ASSUME RegistryIs, ClientsAre, NEW t \in Clients, FinishList(t)
    PROVE  ClientsAre'
<1> DEFINE c == client[t]
           u == c.snapshot \o c.added
           names == [i \in DOMAIN u |-> u[i].name]
           d == [at |-> "listed", names |-> names, shown |-> c.shown, others |-> c.others, total |-> 0]
<1>1. c.at = "children" /\ UNCHANGED sources /\ client' = [client EXCEPT ![t] = d]
  BY DEF FinishList, Listed
<1>2. IsList(c) /\ Lists(c, sources)
  BY <1>1 DEF ClientsAre, Busy
<1>3. OnceNamed(sources) /\ IsSequence(sources)
  BY DEF RegistryIs
<1>4. c.shown \subseteq NamesOf(c) \cup c.others
  <2>1. c.left = <<>> /\ c.shown \subseteq NamesOf(c) \cup c.others \cup Awaited(c)
    BY <1>1, <1>2 DEF IsList, Lists
  <2> HIDE DEF c
  <2>2. Awaited(c) = {}
    BY <2>1, NoneAwaited
  <2>3. QED
    BY <2>1, <2>2
<1>5. NamesOf(c) \subseteq NamesIn(sources)
  <2>1. NamesIn(c.snapshot) \subseteq NamesIn(sources)
    BY <1>2 DEF Lists, NamesIn
  <2>2. NamesIn(c.added) \subseteq NamesIn(sources)
    BY <1>2 DEF Lists
  <2>3. QED
    BY <2>1, <2>2 DEF NamesOf
<1>6. AreListed(c, u, names)
  BY DEF AreListed
<1>7. /\ d.at = "listed" /\ d.names = names /\ d.shown = c.shown /\ d.others = c.others
      /\ d = [at |-> d.at, names |-> d.names, shown |-> d.shown, others |-> d.others,
              total |-> d.total]
  OBVIOUS
<1> HIDE DEF d, names, u, c
<1>8. /\ IsSequence(names) /\ ToSet(names) = NamesOf(c)
      /\ \A i, j \in DOMAIN names : names[i] = names[j] => i = j
      /\ c.others = {} => \A i \in DOMAIN names :
                            i \in DOMAIN sources /\ sources[i].name = names[i]
  BY <1>2, <1>3, <1>6, ListedIs
<1>9. IsListed(d, sources)
  BY <1>4, <1>5, <1>7, <1>8 DEF IsListed
<1>10. QED
  BY <1>1, <1>7, <1>9, OneMoves DEF Busy

LEMMA GetKeeps ==
    ASSUME RegistryIs, ClientsAre, NEW t \in Clients, NEW name \in NamesIn(sources) \cup {Nameless},
           Get(t, name)
    PROVE  ClientsAre'
<1> DEFINE c == client[t]
<1>1. /\ c.at = "listed" /\ UNCHANGED sources
      /\ \/ /\ name \notin NamesIn(sources)
            /\ client' = [client EXCEPT ![t].at = "missing", ![t].total = Len(sources)]
         \/ \E isLost \in {FALSE, TRUE}, isThere \in BOOLEAN :
              client' = [client EXCEPT ![t] =
                [at |-> "answered", name |-> name, names |-> c.names,
                 reply |-> IF isLost \/ ~isThere THEN "50001" ELSE "rows"]]
  <2>1. CASE name \notin NamesIn(sources)
    BY <2>1 DEF Get
  <2>2. CASE name \in NamesIn(sources)
    <3> DEFINE source == Source(name)
               isThere == source.kind # "child" \/ cache[Asked(source)] # "crawled"
    <3>1. c.at = "listed" /\ UNCHANGED sources
      BY DEF Get
    <3>2. \E isLost \in {FALSE, TRUE} :
            client' = [client EXCEPT ![t] =
                [at |-> "answered", name |-> name, names |-> c.names,
                 reply |-> IF isLost \/ ~isThere THEN "50001" ELSE "rows"]]
      BY <2>2 DEF Get
    <3>3. isThere \in BOOLEAN
      OBVIOUS
    <3> HIDE DEF isThere, c
    <3>4. QED
      BY <3>1, <3>2, <3>3
  <2>3. QED
    BY <2>1, <2>2
<1>2. IsListed(c, sources) /\ client = [u \in Clients |-> client[u]]
  BY <1>1 DEF ClientsAre
<1>3. CASE /\ name \notin NamesIn(sources)
           /\ client' = [client EXCEPT ![t].at = "missing", ![t].total = Len(sources)]
  <2> DEFINE missing == "missing"
             total == Len(sources)
  <2>1. PICK d : /\ d = [c EXCEPT !.at = missing, !.total = total]
                 /\ client' = [client EXCEPT ![t] = d]
    <3>1. client' = [client EXCEPT ![t] = [c EXCEPT !.at = missing, !.total = total]]
      BY <1>2, <1>3
    <3> HIDE DEF c, missing, total
    <3>2. QED
      BY <3>1
  <2>2. c = [at |-> c.at, names |-> c.names, shown |-> c.shown, others |-> c.others,
             total |-> c.total]
    BY <1>1, <1>2 DEF IsListed
  <2>3. /\ d.at = missing /\ d.names = c.names
        /\ d = [at |-> d.at, names |-> d.names, shown |-> d.shown, others |-> d.others,
                total |-> d.total]
    <3> HIDE DEF c, missing, total
    <3>1. QED
      BY <2>1, <2>2
  <2>4. d.at = "missing"
    BY <2>3
  <2>5. Nameless \notin NamesIn(sources)
    BY <1>3
  <2> HIDE DEF c, missing, total
  <2>6. IsListed(d, sources)
    BY <1>2, <2>3, <2>4, <2>5 DEF IsListed
  <2>7. QED
    BY <1>1, <2>1, <2>4, <2>6, OneMoves DEF Busy
<1>4. ASSUME NEW isLost \in {FALSE, TRUE}, NEW isThere \in BOOLEAN,
             client' = [client EXCEPT ![t] =
                [at |-> "answered", name |-> name, names |-> c.names,
                 reply |-> IF isLost \/ ~isThere THEN "50001" ELSE "rows"]]
      PROVE  ClientsAre'
  <2> DEFINE reply == IF isLost \/ ~isThere THEN "50001" ELSE "rows"
             d == [at |-> "answered", name |-> name, names |-> c.names, reply |-> reply]
  <2>1. client' = [client EXCEPT ![t] = d]
    BY <1>4
  <2>2. d.at = "answered" /\ d.names = c.names /\ d.reply \in {"rows", "50001"}
    OBVIOUS
  <2> HIDE DEF c, d
  <2>3. IsListed(d, sources)
    BY <1>2, <2>2 DEF IsListed
  <2>4. QED
    BY <1>1, <2>1, <2>2, <2>3, OneMoves DEF Busy
<1>5. QED
  BY <1>1, <1>3, <1>4

LEMMA NameWhatIsServedKeeps ==
    ASSUME ClientsAre, NEW t \in Clients, NameWhatIsServed(t, Nameless)
    PROVE  ClientsAre'
<1> DEFINE c == client[t]
           reply == IF Len(sources) = c.total THEN "208" ELSE "broken"
           d == [at |-> "answered", name |-> Nameless, names |-> c.names, reply |-> reply]
<1>1. c.at = "missing" /\ UNCHANGED sources /\ client' = [client EXCEPT ![t] = d]
  BY DEF NameWhatIsServed
<1>2. IsListed(c, sources)
  BY <1>1 DEF ClientsAre
<1>3. d.at = "answered" /\ d.names = c.names /\ d.name = Nameless
  OBVIOUS
<1>4. Nameless \notin ToSet(c.names)
  BY <1>1, <1>2 DEF IsListed
<1> HIDE DEF c, d, reply
<1>5. IsListed(d, sources)
  BY <1>2, <1>3, <1>4 DEF IsListed
<1>6. QED
  BY <1>1, <1>3, <1>5, OneMoves DEF Busy

LEMMA AppendedIs ==
    ASSUME NEW s, IsSequence(s), NEW x
    PROVE  /\ IsSequence(Append(s, x)) /\ Len(Append(s, x)) = Len(s) + 1
           /\ \A i \in DOMAIN s : i \in DOMAIN Append(s, x) /\ Append(s, x)[i] = s[i]
           /\ Len(s) + 1 \in DOMAIN Append(s, x) /\ Append(s, x)[Len(s) + 1] = x
           /\ \A i \in DOMAIN Append(s, x) : i = Len(s) + 1 \/ i \in DOMAIN s
           /\ NamesIn(Append(s, x)) = NamesIn(s) \cup {x.name}
           /\ OnceNamed(s) /\ x.name \notin NamesIn(s) => OnceNamed(Append(s, x))
<1> DEFINE S == ToSet(s) \cup {x}
           r == Append(s, x)
           n == Len(s)
<1>1. n \in Nat /\ DOMAIN s = 1..n /\ s \in Seq(ToSet(s))
  BY SequenceHas
<1>2. s \in Seq(S)
  <2>1. \A i \in 1..n : s[i] \in S
    BY <1>1 DEF ToSet
  <2> HIDE DEF S
  <2>2. QED
    BY <1>1, <2>1
<1>3. r \in Seq(S) /\ Len(r) = n + 1 /\ DOMAIN r = 1..(n + 1) /\ r[n + 1] = x
      /\ \A i \in 1..n : r[i] = s[i]
  <2>1. x \in S
    OBVIOUS
  <2> HIDE DEF S
  <2>2. QED
    BY <1>1, <1>2, <2>1
<1> HIDE DEF r, n, S
<1>4. IsSequence(r)
  BY <1>3, SequenceIs
<1>5. \A i \in DOMAIN r : i = n + 1 \/ i \in DOMAIN s
  BY <1>1, <1>3
<1>6. n + 1 \in DOMAIN r /\ \A i \in DOMAIN s : i \in DOMAIN r /\ r[i] = s[i]
  BY <1>1, <1>3
<1>7. NamesIn(r) = NamesIn(s) \cup {x.name}
  <2>1. NamesIn(r) \subseteq NamesIn(s) \cup {x.name}
    BY <1>3, <1>5, <1>6 DEF NamesIn
  <2>2. x.name \in NamesIn(r)
    BY <1>3, <1>6 DEF NamesIn
  <2>3. NamesIn(s) \subseteq NamesIn(r)
    BY <1>6 DEF NamesIn
  <2>4. QED
    BY <2>1, <2>2, <2>3
<1>8. ASSUME OnceNamed(s), x.name \notin NamesIn(s) PROVE OnceNamed(r)
  <2>1. ASSUME NEW i \in DOMAIN r, NEW j \in DOMAIN r, r[i].name = r[j].name
        PROVE  i = j
    <3>1. CASE i \in DOMAIN s /\ j \in DOMAIN s
      BY <1>6, <1>8, <2>1, <3>1 DEF OnceNamed
    <3>2. CASE i \in DOMAIN s /\ j = n + 1
      BY <1>3, <1>6, <1>8, <2>1, <3>2 DEF NamesIn
    <3>3. CASE i = n + 1 /\ j \in DOMAIN s
      BY <1>3, <1>6, <1>8, <2>1, <3>3 DEF NamesIn
    <3>4. QED
      BY <1>5, <2>1, <3>1, <3>2, <3>3
  <2>2. QED
    BY <2>1 DEF OnceNamed
<1>9. QED
  BY <1>3, <1>4, <1>5, <1>6, <1>7, <1>8 DEF r, n

LEMMA SettingIs ==
    ASSUME NEW s, IsSequence(s), NEW x
    PROVE  /\ IsSequence(Setting(s, x))
           /\ \A i \in DOMAIN s : /\ i \in DOMAIN Setting(s, x)
                                  /\ Setting(s, x)[i].name = s[i].name
                                  /\ s[i].name # x.name => Setting(s, x)[i] = s[i]
           /\ \A i \in DOMAIN Setting(s, x) :
                \/ Setting(s, x)[i] = x
                \/ i \in DOMAIN s /\ Setting(s, x)[i] = s[i] /\ s[i].name # x.name
           /\ NamesIn(Setting(s, x)) = NamesIn(s) \cup {x.name}
           /\ OnceNamed(s) => OnceNamed(Setting(s, x))
           /\ x.name \notin NamesIn(s) => /\ Len(Setting(s, x)) = Len(s) + 1
                                          /\ Setting(s, x)[Len(s) + 1] = x
<1>1. Len(s) \in Nat /\ DOMAIN s = 1..Len(s)
  BY SequenceHas
<1>2. CASE x.name \notin NamesIn(s)
  <2> DEFINE r == Append(s, x)
  <2>1. Setting(s, x) = r
    BY <1>2 DEF Setting
  <2>2. /\ IsSequence(r) /\ Len(r) = Len(s) + 1
        /\ \A i \in DOMAIN s : i \in DOMAIN r /\ r[i] = s[i]
        /\ Len(s) + 1 \in DOMAIN r /\ r[Len(s) + 1] = x
        /\ \A i \in DOMAIN r : i = Len(s) + 1 \/ i \in DOMAIN s
        /\ NamesIn(r) = NamesIn(s) \cup {x.name}
        /\ OnceNamed(s) /\ x.name \notin NamesIn(s) => OnceNamed(r)
    BY AppendedIs, Zenon
  <2>3. \A i \in DOMAIN s : s[i].name # x.name
    BY <1>2 DEF NamesIn
  <2> HIDE DEF r
  <2>4. \A i \in DOMAIN r : r[i] = x \/ (i \in DOMAIN s /\ r[i] = s[i] /\ s[i].name # x.name)
    BY <2>2, <2>3
  <2>5. QED
    BY <1>2, <2>1, <2>2, <2>3, <2>4
<1>3. CASE x.name \in NamesIn(s)
  <2> DEFINE at(i) == IF s[i].name = x.name THEN x ELSE s[i]
             r == [i \in DOMAIN s |-> at(i)]
             m == Len(s)
             S == ToSet(s) \cup {x}
  <2>1. Setting(s, x) = r
    BY <1>3 DEF Setting
  <2>2. \A i \in DOMAIN s : /\ at(i).name = s[i].name
                            /\ s[i].name # x.name => at(i) = s[i]
                            /\ at(i) = x \/ (at(i) = s[i] /\ s[i].name # x.name)
                            /\ at(i) \in S
    BY DEF ToSet
  <2>3. m \in Nat /\ DOMAIN s = 1..m
    BY <1>1
  <2> HIDE DEF at, m, S
  <2>4. DOMAIN r = DOMAIN s /\ \A i \in DOMAIN s : r[i] = at(i)
    OBVIOUS
  <2>5. [i \in 1..m |-> at(i)] \in Seq(S)
    BY <2>2, <2>3, IsASeq
  <2>6. r \in Seq(S)
    BY <2>3, <2>5
  <2> HIDE DEF r
  <2>7. IsSequence(r)
    BY <2>6, SequenceIs
  <2>8. NamesIn(r) = NamesIn(s)
    BY <2>2, <2>4 DEF NamesIn
  <2>9. OnceNamed(s) => OnceNamed(r)
    BY <2>2, <2>4 DEF OnceNamed
  <2>10. QED
    BY <1>3, <2>1, <2>2, <2>4, <2>7, <2>8, <2>9
<1>4. QED
  BY <1>2, <1>3

(* What putting a child into the registry changes.                          *)
IsSetIn(s, x, r) ==
    /\ IsSequence(r)
    /\ \A i \in DOMAIN s : /\ i \in DOMAIN r /\ r[i].name = s[i].name
                           /\ s[i].name # x.name => r[i] = s[i]
    /\ \A i \in DOMAIN r : \/ r[i] = x
                           \/ i \in DOMAIN s /\ r[i] = s[i] /\ s[i].name # x.name
    /\ NamesIn(r) = NamesIn(s) \cup {x.name}
    /\ OnceNamed(s) => OnceNamed(r)
    /\ x.name \notin NamesIn(s) => Len(r) = Len(s) + 1 /\ r[Len(s) + 1] = x

LEMMA SetIs ==
    ASSUME NEW s, IsSequence(s), NEW x
    PROVE  IsSetIn(s, x, Setting(s, x))
BY SettingIs DEF IsSetIn

(* A child is registered: the lists of the other threads know of it.        *)
LEMMA OtherStillLists ==
    ASSUME NEW c, IsList(c), Lists(c, sources), NEW x, x.kind = "child",
           IsSequence(sources), sources' = Setting(sources, x),
           NEW d, HasItsFields(d), d.at = c.at, d.snapshot = c.snapshot, d.of = c.of,
           d.left = c.left, d.added = c.added, d.shown = c.shown,
           d.others = c.others \cup {x.name}
    PROVE  IsList(d) /\ Lists(d, sources')
<1>1. /\ NamesOf(d) = NamesOf(c) /\ Awaited(d) = Awaited(c) /\ NextName(d) = NextName(c)
  BY DEF NamesOf, Awaited, NextName
<1>2. IsList(d)
  BY <1>1 DEF IsList
<1>3. /\ \A i \in DOMAIN sources :
           i \in DOMAIN sources' /\ sources'[i].name = sources[i].name
      /\ \A i \in DOMAIN sources' :
           sources'[i] = x \/ (i \in DOMAIN sources /\ sources'[i] = sources[i])
      /\ NamesIn(sources)' = NamesIn(sources) \cup {x.name}
  <2> DEFINE s == sources
             r == sources'
  <2>1. s = sources /\ r = Setting(s, x) /\ IsSequence(s) /\ NamesIn(r) = NamesIn(sources)'
    BY DEF NamesIn
  <2> HIDE DEF s, r
  <2>2. /\ \A i \in DOMAIN s : i \in DOMAIN r /\ r[i].name = s[i].name
        /\ \A i \in DOMAIN r : r[i] = x \/ (i \in DOMAIN s /\ r[i] = s[i])
        /\ NamesIn(r) = NamesIn(s) \cup {x.name}
    <3>1. IsSetIn(s, x, r)
      BY <2>1, SetIs
    <3>2. QED
      BY <3>1 DEF IsSetIn
  <2>3. QED
    BY <2>1, <2>2 DEF s, r
<1>4. NamesIn(sources') = NamesIn(sources) \cup {x.name}
  BY <1>3 DEF NamesIn
<1>5. d.at = "registering" =>
        \A i \in DOMAIN sources' : sources'[i].name = NextName(d) => sources'[i].kind = "child"
  BY <1>1, <1>3 DEF Lists
<1>6. d.others # {}
  OBVIOUS
<1>7. /\ \A i \in DOMAIN d.snapshot :
           i \in DOMAIN sources' /\ sources'[i].name = d.snapshot[i].name
      /\ OnceNamed(d.added) /\ NamesIn(d.added) \cap NamesIn(d.snapshot) = {}
      /\ NamesIn(d.added) \subseteq NamesIn(sources')
      /\ NamesIn(sources') \subseteq NamesOf(d) \cup d.others
      /\ d.shown \subseteq NamesOf(d) \cup d.others \cup Awaited(d)
  BY <1>1, <1>3, <1>4 DEF Lists
<1>8. QED
  BY <1>2, <1>5, <1>6, <1>7 DEF Lists

LEMMA TheOneStillLists ==
    ASSUME NEW c, IsList(c), Lists(c, sources), c.at = "registering",
           IsSequence(sources), NEW x, x.name = NextName(c),
           NEW r, r = Setting(sources, x),
           NEW d, HasItsFields(d), d.at = "testing", d.snapshot = c.snapshot, d.of = c.of,
           d.left = Tail(c.left), d.added = Append(c.added, x), d.shown = c.shown,
           d.others = c.others
    PROVE  IsList(d) /\ Lists(d, r)
<1> DEFINE a == c.added
           b == Append(a, x)
           left == Tail(c.left)
           s == sources
<1>1. /\ IsSequence(a) /\ c.left \in Seq(STRING) /\ c.left # <<>>
      /\ NextName(c) \notin NamesOf(c) /\ c.of \in Nat \ {0}
      /\ Len(c.snapshot) \in Nat /\ Len(a) \in Nat /\ DOMAIN a = 1..Len(a)
  BY ListIs DEF IsList
<1>2. d.left = left /\ d.added = b /\ IsSequence(s) /\ r = Setting(s, x)
  OBVIOUS
<1>3. left \in Seq(STRING)
  BY <1>1, HeadTailProperties
<1>4. Awaited(c) = {NextName(c)} \cup {ChildName(c.snapshot[c.of], z) : z \in ToSet(left)}
  BY <1>1, AwaitedAre
<1>5. /\ IsSequence(b) /\ Len(b) = Len(a) + 1
      /\ \A i \in DOMAIN a : i \in DOMAIN b /\ b[i] = a[i]
      /\ Len(a) + 1 \in DOMAIN b /\ b[Len(a) + 1] = x
      /\ \A i \in DOMAIN b : i = Len(a) + 1 \/ i \in DOMAIN a
      /\ NamesIn(b) = NamesIn(a) \cup {x.name}
      /\ OnceNamed(a) /\ x.name \notin NamesIn(a) => OnceNamed(b)
  BY <1>1, AppendedIs, Zenon
<1>6. /\ \A i \in DOMAIN c.snapshot : i \in DOMAIN s /\ s[i].name = c.snapshot[i].name
      /\ OnceNamed(a) /\ NamesIn(a) \cap NamesIn(c.snapshot) = {}
      /\ NamesIn(a) \subseteq NamesIn(s)
      /\ NamesIn(s) \subseteq NamesOf(c) \cup c.others
      /\ c.shown \subseteq NamesOf(c) \cup c.others \cup Awaited(c)
      /\ c.others = {} =>
           /\ Len(s) = Len(c.snapshot) + Len(a)
           /\ \A i \in DOMAIN a : s[Len(c.snapshot) + i].name = a[i].name
  BY DEF Lists
<1>7. NamesOf(c) = NamesIn(c.snapshot) \cup NamesIn(a)
  BY DEF NamesOf
<1> HIDE DEF a, b, left, s
<1>8. /\ \A i \in DOMAIN s : i \in DOMAIN r /\ r[i].name = s[i].name
      /\ NamesIn(r) = NamesIn(s) \cup {x.name}
      /\ x.name \notin NamesIn(s) => Len(r) = Len(s) + 1 /\ r[Len(s) + 1] = x
  <2>1. IsSetIn(s, x, r)
    BY <1>2, SetIs
  <2>2. QED
    BY <2>1 DEF IsSetIn
<1>9. Awaited(d) = {ChildName(c.snapshot[c.of], z) : z \in ToSet(left)}
  BY <1>2 DEF Awaited
<1>10. NamesOf(d) = NamesOf(c) \cup {x.name}
  BY <1>2, <1>5, <1>7 DEF NamesOf
<1>11. d.at = "testing" /\ d.snapshot = c.snapshot /\ d.of = c.of /\ d.others = c.others
       /\ d.shown = c.shown /\ HasItsFields(d)
  OBVIOUS
<1>12. IsList(d)
  <2>1. \A i \in DOMAIN c.snapshot : Held(c.snapshot[i])
    BY DEF IsList
  <2>2. IsSequence(c.snapshot)
    BY ListIs
  <2>3. QED
    BY <1>1, <1>2, <1>3, <1>5, <1>11, <2>1, <2>2 DEF IsList
<1>13. d.others = {} =>
         /\ Len(r) = Len(d.snapshot) + Len(d.added)
         /\ \A i \in DOMAIN d.added : r[Len(d.snapshot) + i].name = d.added[i].name
  <2> SUFFICES ASSUME c.others = {}
               PROVE  /\ Len(r) = Len(c.snapshot) + Len(b)
                      /\ \A i \in DOMAIN b : r[Len(c.snapshot) + i].name = b[i].name
    BY <1>2, <1>11
  <2> DEFINE n == Len(c.snapshot)
             m == Len(a)
  <2>1. x.name \notin NamesIn(s)
    BY <1>1, <1>6
  <2>2. /\ Len(s) = n + m /\ Len(r) = Len(s) + 1 /\ r[Len(s) + 1] = x
        /\ \A i \in DOMAIN a : s[n + i].name = a[i].name
        /\ n \in Nat /\ m \in Nat /\ DOMAIN a = 1..m
        /\ Len(b) = m + 1 /\ b[m + 1] = x
        /\ \A i \in DOMAIN a : b[i] = a[i]
    BY <1>1, <1>5, <1>6, <1>8, <2>1
  <2>3. DOMAIN s = 1..Len(s)
    BY <1>2, SequenceHas
  <2> HIDE DEF n, m
  <2>4. Len(r) = n + Len(b)
    BY <2>2
  <2>5. ASSUME NEW i \in DOMAIN b
        PROVE  r[n + i].name = b[i].name
    <3>1. CASE i = m + 1
      <4>1. n + i = Len(s) + 1
        BY <2>2, <3>1
      <4>2. QED
        BY <2>2, <3>1, <4>1
    <3>2. CASE i \in DOMAIN a
      <4>1. n + i \in DOMAIN s
        BY <2>2, <2>3, <3>2
      <4>2. r[n + i].name = s[n + i].name
        BY <1>8, <4>1
      <4>3. QED
        BY <2>2, <3>2, <4>2
    <3>3. QED
      BY <1>5, <2>5, <3>1, <3>2 DEF m
  <2>6. QED
    BY <2>4, <2>5 DEF n
<1>14. Lists(d, r)
  <2>1. \A i \in DOMAIN d.snapshot : i \in DOMAIN r /\ r[i].name = d.snapshot[i].name
    BY <1>6, <1>8, <1>11
  <2>2. OnceNamed(d.added) /\ NamesIn(d.added) \cap NamesIn(d.snapshot) = {}
    BY <1>1, <1>2, <1>5, <1>6, <1>7, <1>11
  <2>3. NamesIn(d.added) \subseteq NamesIn(r)
    BY <1>2, <1>5, <1>6, <1>8
  <2>4. NamesIn(r) \subseteq NamesOf(d) \cup d.others
    BY <1>6, <1>8, <1>10, <1>11
  <2>5. d.shown \subseteq NamesOf(d) \cup d.others \cup Awaited(d)
    BY <1>4, <1>6, <1>9, <1>10, <1>11
  <2>6. d.at # "registering"
    BY <1>11
  <2>7. QED
    BY <1>13, <2>1, <2>2, <2>3, <2>4, <2>5, <2>6 DEF Lists
<1>15. QED
  BY <1>12, <1>14

LEMMA RegisterChildKeeps ==
    ASSUME TurnsAre, RegistryIs, TablesKept, ClientsAre, NEW t \in Clients, RegisterChild(t)
    PROVE  RegistryIs' /\ TablesKept' /\ ClientsAre'
<1> DEFINE c == client[t]
           x == Offered(t)
           s == sources
           r == sources'
           Knowing(u) == [client[u] EXCEPT !.others = @ \cup {x.name}]
           Added == [c EXCEPT !.at = "testing", !.left = Tail(@), !.added = Append(@, x)]
           Moved(u) == IF u = t THEN Added
                       ELSE IF client[u].at \in Busy THEN Knowing(u) ELSE client[u]
<1>1. /\ c.at = "registering" /\ r = Setting(s, x)
      /\ client' = [u \in Clients |-> Moved(u)]
      /\ UNCHANGED <<config, turn, phase, discovered>>
  BY DEF RegisterChild, Busy
<1>2. IsList(c) /\ Lists(c, sources)
  BY <1>1 DEF ClientsAre, Busy
<1>3. x.name = NextName(c) /\ x.kind = "child"
  BY DEF Offered, NextName
<1>4. \A i \in DOMAIN s : s[i].name = x.name => s[i].kind = "child"
  BY <1>1, <1>2, <1>3 DEF Lists
<1>5. IsSequence(s) /\ OnceNamed(s) /\ (\A i \in DOMAIN s : Held(s[i]))
      /\ discovered \subseteq NamesIn(s)
      /\ \A i \in DOMAIN s : s[i].name \in discovered => s[i].kind = "http"
  BY DEF RegistryIs
<1>6. \A u \in Clients :
        /\ client[u].at \in Busy \cup {"idle", "listed", "missing", "answered"}
        /\ client[u].at = "idle" => client[u] = Idle
        /\ client[u].at \in Busy => IsList(client[u]) /\ Lists(client[u], sources)
        /\ client[u].at \in {"listed", "missing", "answered"} => IsListed(client[u], sources)
  BY DEF ClientsAre
<1>7. NamesIn(sources)' = NamesIn(r)
  BY DEF NamesIn
<1>8. Held(x)
  BY <1>3 DEF Held
<1>9. TablesKept
  OBVIOUS
<1> HIDE DEF x, r, s
<1>10. IsSetIn(s, x, r)
  BY <1>1, <1>5, SetIs
<1>11. RegistryIs'
  <2>1. IsSequence(r) /\ OnceNamed(r)
    BY <1>5, <1>10 DEF IsSetIn
  <2>2. \A i \in DOMAIN r : Held(r[i])
    BY <1>5, <1>8, <1>10 DEF IsSetIn
  <2>3. discovered \subseteq NamesIn(r)
    BY <1>5, <1>10 DEF IsSetIn
  <2>4. x.name \notin discovered
    BY <1>4, <1>5 DEF NamesIn
  <2>5. \A i \in DOMAIN r : r[i].name \in discovered => r[i].kind = "http"
    BY <1>5, <1>10, <2>4 DEF IsSetIn
  <2>6. QED
    BY <1>1, <2>1, <2>2, <2>3, <2>5 DEF RegistryIs, NamesIn, OnceNamed, IsSequence, ToSet, Held, r
<1>12. TablesKept'
  <2>1. ASSUME NEW i \in DOMAIN config.tables, Len(config.discover) + i <= turn,
               phase # "refused"
        PROVE  ToSet(config.tables[i]) \subseteq ToSet(r)
    <3>1. ToSet(config.tables[i]) \subseteq ToSet(s)
      BY <1>9, <2>1 DEF TablesKept, s
    <3>2. \A k \in DOMAIN config.tables[i] : config.tables[i][k].kind \in {"file", "http"}
      BY <2>1, ConfigIs DEF TurnsAre, Configured
    <3>3. \A y \in ToSet(config.tables[i]) : y.kind \in {"file", "http"}
      BY <3>2 DEF ToSet
    <3>4. ASSUME NEW y \in ToSet(config.tables[i])
          PROVE  y \in ToSet(r)
      <4>1. PICK j \in DOMAIN s : y = s[j]
        BY <3>1, <3>4 DEF ToSet
      <4>2. s[j].name # x.name
        BY <1>4, <3>3, <3>4, <4>1
      <4>3. j \in DOMAIN r /\ r[j] = s[j]
        BY <1>10, <4>2 DEF IsSetIn
      <4>4. QED
        BY <4>1, <4>3 DEF ToSet
    <3>5. QED
      BY <3>4
  <2>2. ToSet(sources)' = ToSet(r)
    BY DEF r, ToSet
  <2>3. \A i \in DOMAIN config.tables : ToSet(config.tables[i])' = ToSet(config.tables[i])
                                        /\ NamesIn(config.tables[i])' = NamesIn(config.tables[i])
    BY <1>1 DEF ToSet, NamesIn
  <2>4. QED
    BY <1>1, <1>9, <2>1, <2>2, <2>3 DEF TablesKept
<1>13. ClientsAre'
  <2>1. ASSUME NEW u \in Clients
        PROVE  /\ Moved(u).at \in Busy \cup {"idle", "listed", "missing", "answered"}
               /\ Moved(u).at = "idle" => Moved(u) = Idle
               /\ Moved(u).at \in Busy => IsList(Moved(u)) /\ Lists(Moved(u), r)
               /\ Moved(u).at \in {"listed", "missing", "answered"} => IsListed(Moved(u), r)
    <3>1. CASE u = t
      <4> DEFINE testing == "testing"
                 left == Tail(c.left)
                 added == Append(c.added, x)
      <4>1. PICK d : d = [c EXCEPT !.at = testing, !.left = left, !.added = added]
        OBVIOUS
      <4>2. Moved(u) = d
        BY <3>1, <4>1
      <4>3. HasItsFields(c)
        BY <1>2 DEF IsList
      <4>4. /\ HasItsFields(d) /\ d.at = testing /\ d.snapshot = c.snapshot /\ d.of = c.of
            /\ d.left = left /\ d.added = added /\ d.shown = c.shown /\ d.others = c.others
        <5> HIDE DEF c, testing, left, added
        <5>1. QED
          BY <4>1, <4>3 DEF HasItsFields
      <4> HIDE DEF Moved, Added
      <4>5. IsList(d) /\ Lists(d, r)
        <5>1. IsSequence(sources) /\ r = Setting(sources, x)
          BY <1>1, <1>5 DEF s
        <5>2. d.at = "testing" /\ d.left = Tail(c.left) /\ d.added = Append(c.added, x)
          BY <4>4
        <5> HIDE DEF c
        <5>3. QED
          BY <1>1, <1>2, <1>3, <4>4, <5>1, <5>2, TheOneStillLists
      <4>6. d.at = "testing"
        BY <4>4
      <4>7. QED
        BY <4>2, <4>5, <4>6 DEF Busy
    <3>2. CASE u # t /\ client[u].at \in Busy
      <4> DEFINE e == client[u]
                 others == e.others \cup {x.name}
                 d == [e EXCEPT !.others = others]
      <4>1. Moved(u) = d
        BY <3>2
      <4>2. IsList(e) /\ Lists(e, sources) /\ HasItsFields(e) /\ e.at \in Busy
        BY <1>6, <3>2 DEF IsList
      <4> HIDE DEF Moved, e, others
      <4>3. /\ HasItsFields(d) /\ d.at = e.at /\ d.snapshot = e.snapshot /\ d.of = e.of
            /\ d.left = e.left /\ d.added = e.added /\ d.shown = e.shown /\ d.others = others
        BY <4>2 DEF HasItsFields
      <4> HIDE DEF d
      <4>4. IsSequence(sources) /\ sources' = Setting(sources, x)
        BY <1>1, <1>5 DEF s, r
      <4>5. d.others = e.others \cup {x.name}
        BY <4>3 DEF others
      <4>6. IsList(d) /\ Lists(d, sources')
        BY <1>3, <4>2, <4>3, <4>4, <4>5, OtherStillLists
      <4>7. QED
        BY <4>1, <4>2, <4>3, <4>6 DEF Busy, r
    <3>3. CASE u # t /\ client[u].at \notin Busy
      <4>1. Moved(u) = client[u]
        BY <3>3
      <4> HIDE DEF Moved
      <4>2. ASSUME client[u].at \in {"listed", "missing", "answered"}
            PROVE  IsListed(client[u], r)
        <5>1. IsListed(client[u], s)
          BY <1>6, <4>2 DEF s
        <5>2. /\ NamesIn(s) \subseteq NamesIn(r)
              /\ \A i \in DOMAIN s : i \in DOMAIN r /\ r[i].name = s[i].name
          BY <1>10 DEF IsSetIn
        <5>3. QED
          BY <5>1, <5>2 DEF IsListed
      <4>3. QED
        BY <1>6, <3>3, <4>1, <4>2
    <3>4. QED
      BY <3>1, <3>2, <3>3
  <2> HIDE DEF Moved
  <2>2. client' = [u \in Clients |-> client'[u]] /\ \A u \in Clients : client'[u] = Moved(u)
    BY <1>1
  <2>3. \A u \in Clients : /\ client'[u].at \in Busy \cup {"idle", "listed", "missing", "answered"}
                           /\ client'[u].at = "idle" => client'[u] = Idle
                           /\ client'[u].at \in Busy => IsList(client'[u]) /\ Lists(client'[u], r)
                           /\ client'[u].at \in {"listed", "missing", "answered"}
                                => IsListed(client'[u], r)
    BY <2>1, <2>2
  <2>4. QED
    BY <2>2, <2>3 DEF ClientsAre, r
<1>14. QED
  BY <1>11, <1>12, <1>13

(* ---- every step ---------------------------------------------------------*)

IsSound == CrawlIsSound /\ TurnsAre /\ RegistryIs /\ TablesKept /\ ClientsAre

LEMMA CrawlStays ==
    ASSUME CrawlIsSound, UNCHANGED <<surface, level, flying, heard, seen, asked, found>>
    PROVE  CrawlIsSound'
<1>1. CrawlTyped'
  BY DEF CrawlIsSound, CrawlTyped
<1>2. Distinct'
  BY DEF CrawlIsSound, Distinct
<1>3. \A u : Permitted(u)' = Permitted(u)
  BY DEF Permitted
<1>4. OnTheSurface'
  BY <1>3 DEF CrawlIsSound, OnTheSurface
<1>5. QED
  BY <1>1, <1>2, <1>4 DEF CrawlIsSound

LEMMA RegistryStays ==
    ASSUME RegistryIs, TablesKept, UNCHANGED <<sources, discovered, config, turn>>,
           phase = "refused" => phase' = "refused"
    PROVE  RegistryIs' /\ TablesKept'
<1>1. RegistryIs'
  BY DEF RegistryIs, OnceNamed, NamesIn, IsSequence, ToSet, Held
<1>2. TablesKept'
  <2> DEFINE Due(i) == Len(config.discover) + i <= turn
  <2>1. \A i \in DOMAIN config.tables :
          Due(i) /\ phase # "refused" =>
            /\ ToSet(config.tables[i]) \subseteq ToSet(sources)
            /\ NamesIn(config.tables[i]) \cap discovered = {}
    BY DEF TablesKept
  <2>2. \A i : Due(i)' <=> Due(i)
    OBVIOUS
  <2> HIDE DEF Due
  <2>3. \A i \in DOMAIN config'.tables :
          Due(i)' /\ phase' # "refused" =>
            /\ ToSet(config.tables[i])' \subseteq ToSet(sources)'
            /\ NamesIn(config.tables[i])' \cap discovered' = {}
    BY <2>1, <2>2 DEF NamesIn, ToSet
  <2>4. QED
    BY <2>3 DEF TablesKept, Due
<1>3. QED
  BY <1>1, <1>2

LEMMA ClientsStay ==
    ASSUME ClientsAre, UNCHANGED <<sources, client>>
    PROVE  ClientsAre'
BY DEF ClientsAre

LEMMA NoneAsks ==
    ASSUME TurnsAre, ~Serving, NEW t \in Clients
    PROVE  client[t] = Idle
BY DEF TurnsAre

(* While load is at work nobody asks, so nothing is listed.                  *)
LEMMA LoadKeepsClients ==
    ASSUME TurnsAre, ClientsAre, ~Serving, UNCHANGED client
    PROVE  ClientsAre'
<1>1. \A t \in Clients : client'[t] = Idle
  BY NoneAsks
<1>2. Idle.at = "idle"
  BY DEF Idle
<1>3. client' = [t \in Clients |-> client'[t]]
  BY DEF ClientsAre
<1>4. \A t \in Clients : client'[t].at = "idle"
  BY <1>1, <1>2
<1>5. QED
  BY <1>1, <1>3, <1>4 DEF ClientsAre, Busy

LEMMA CrawlKeeps ==
    ASSUME IsSound, Crawl, UNCHANGED <<config, turn, sources, discovered, client>>
    PROVE  IsSound'
<1>1. CrawlIsSound'
  BY SendKeeps, HearKeeps, DescribeKeeps, TakeDescribedKeeps, WalkKeeps, TakeGuessesKeeps
  DEF Crawl, IsSound
<1>2. phase' = phase \/ (phase \in Crawling /\ phase' \in Crawling)
  <2>1. CASE Send \/ Hear
    BY <2>1 DEF Send, Hear
  <2>2. CASE Describe
    BY <2>2 DEF Describe, Asks, Crawling
  <2>3. CASE TakeDescribed
    BY <2>3 DEF TakeDescribed, Asks, Crawling
  <2>4. CASE Walk
    BY <2>4 DEF Walk, Asks, Crawling
  <2>5. CASE TakeGuesses
    BY <2>5 DEF TakeGuesses, Crawling
  <2>6. QED
    BY <2>1, <2>2, <2>3, <2>4, <2>5 DEF Crawl
<1>3. TurnsAre'
  <2>1. CASE phase' = phase
    BY <2>1 DEF IsSound, TurnsAre, Serving
  <2>2. CASE phase \in Crawling /\ phase' \in Crawling
    <3>1. phase' # "idle" /\ phase # "registered"
      BY <2>2 DEF Crawling
    <3>2. \A t \in Clients : client'[t] = Idle
      BY <3>1 DEF IsSound, TurnsAre, Serving
    <3>3. QED
      BY <2>2, <3>1, <3>2 DEF IsSound, TurnsAre
  <2>3. QED
    BY <1>2, <2>1, <2>2
<1>4. RegistryIs' /\ TablesKept'
  BY <1>2, RegistryStays DEF IsSound, Crawling
<1>5. ClientsAre'
  BY ClientsStay DEF IsSound
<1>6. QED
  BY <1>1, <1>3, <1>4, <1>5 DEF IsSound

LEMMA LoadKeeps ==
    ASSUME IsSound, StartCrawl \/ RegisterDiscovered \/ AddNamed
    PROVE  IsSound'
<1>1. ~Serving /\ UNCHANGED client
  <2>1. turn \in Nat /\ config \in Configurations
    BY DEF IsSound, TurnsAre
  <2>2. Len(config.discover) \in Nat /\ Len(config.tables) \in Nat
    BY <2>1, ConfigIs
  <2>3. CASE StartCrawl
    <3>1. turn < Len(config.discover) /\ UNCHANGED client
      BY <2>3 DEF StartCrawl, servedVars
    <3> DEFINE n == Len(config.discover)
               m == Len(config.tables)
    <3>2. turn # n + m
      <4>1. n \in Nat /\ m \in Nat /\ turn \in Nat /\ (turn < n \/ turn < n + m)
        BY <2>1, <2>2, <3>1
      <4> HIDE DEF n, m
      <4>2. QED
        BY <4>1
    <3>3. QED
      BY <3>1, <3>2 DEF Serving
  <2>4. CASE RegisterDiscovered
    BY <2>4 DEF RegisterDiscovered, Serving
  <2>5. CASE AddNamed
    <3>1. turn < Len(config.discover) + Len(config.tables) /\ UNCHANGED client
      BY <2>5 DEF AddNamed
    <3> DEFINE n == Len(config.discover)
               m == Len(config.tables)
    <3>2. turn # n + m
      <4>1. n \in Nat /\ m \in Nat /\ turn \in Nat /\ (turn < n \/ turn < n + m)
        BY <2>1, <2>2, <3>1
      <4> HIDE DEF n, m
      <4>2. QED
        BY <4>1
    <3>3. QED
      BY <3>1, <3>2 DEF Serving
  <2>6. QED
    BY <2>3, <2>4, <2>5
<1>2. ClientsAre'
  BY <1>1, LoadKeepsClients DEF IsSound
<1>3. CASE StartCrawl
  BY <1>2, <1>3, StartCrawlKeeps DEF IsSound
<1>4. CASE RegisterDiscovered
  <2>1. CrawlIsSound'
    BY <1>4, CrawlStays DEF RegisterDiscovered, IsSound
  <2>2. CrawlTyped
    BY DEF IsSound, CrawlIsSound
  <2>3. QED
    BY <1>2, <1>4, <2>1, <2>2, RegisterDiscoveredKeeps DEF IsSound
<1>5. CASE AddNamed
  <2>1. CrawlIsSound'
    BY <1>5, CrawlStays DEF AddNamed, IsSound
  <2>2. QED
    BY <1>2, <1>5, <2>1, AddNamedKeeps DEF IsSound
<1>6. QED
  BY <1>3, <1>4, <1>5

(* What a thread does while the registry is served changes nothing else.    *)
LEMMA ServingKeeps ==
    ASSUME IsSound, Serving, ClientsAre',
           UNCHANGED <<surface, phase, level, flying, heard, seen, asked, found, config, turn>>
    PROVE  CrawlIsSound' /\ TurnsAre'
<1>1. CrawlIsSound'
  BY CrawlStays DEF IsSound
<1>2. TurnsAre'
  BY DEF IsSound, TurnsAre, Serving
<1>3. QED
  BY <1>1, <1>2

LEMMA AsksWhileServing ==
    ASSUME TurnsAre, NEW t \in Clients, client[t].at # "idle"
    PROVE  Serving
BY DEF TurnsAre, Idle

LEMMA ClientKeeps ==
    ASSUME IsSound, NEW t \in Clients,
           \/ List(t) \/ Shape(t) \/ AskForChildren(t) \/ TestName(t) \/ RegisterChild(t)
           \/ FinishList(t)
           \/ \E name \in NamesIn(sources) \cup {Nameless} : Get(t, name)
           \/ NameWhatIsServed(t, Nameless)
    PROVE  IsSound'
<1>1. TurnsAre /\ RegistryIs /\ TablesKept /\ ClientsAre
  BY DEF IsSound
<1>2. CASE RegisterChild(t)
  <2>1. RegistryIs' /\ TablesKept' /\ ClientsAre'
    BY <1>1, <1>2, RegisterChildKeeps
  <2>2. client[t].at = "registering"
        /\ UNCHANGED <<surface, phase, level, flying, heard, seen, asked, found, config, turn>>
    BY <1>2 DEF RegisterChild
  <2>3. Serving
    BY <1>1, <2>2, AsksWhileServing
  <2>4. QED
    BY <2>1, <2>2, <2>3, ServingKeeps DEF IsSound
<1>3. CASE \/ List(t) \/ Shape(t) \/ AskForChildren(t) \/ TestName(t) \/ FinishList(t)
           \/ \E name \in NamesIn(sources) \cup {Nameless} : Get(t, name)
           \/ NameWhatIsServed(t, Nameless)
  <2>1. ClientsAre'
    BY <1>1, <1>3, ListKeeps, ShapeKeeps, AskForChildrenKeeps, TestNameKeeps, FinishListKeeps,
       GetKeeps, NameWhatIsServedKeeps
  <2>2. /\ UNCHANGED <<surface, phase, level, flying, heard, seen, asked, found, config, turn,
                       sources, discovered>>
        /\ Serving \/ client[t].at # "idle"
    <3>1. CASE List(t)
      BY <3>1 DEF List
    <3>2. CASE Shape(t)
      BY <3>2 DEF Shape
    <3>3. CASE AskForChildren(t)
      BY <3>3 DEF AskForChildren
    <3>4. CASE TestName(t)
      BY <3>4 DEF TestName
    <3>5. CASE FinishList(t)
      BY <3>5 DEF FinishList
    <3>6. CASE \E name \in NamesIn(sources) \cup {Nameless} : Get(t, name)
      BY <3>6 DEF Get
    <3>7. CASE NameWhatIsServed(t, Nameless)
      BY <3>7 DEF NameWhatIsServed
    <3>8. QED
      BY <1>3, <3>1, <3>2, <3>3, <3>4, <3>5, <3>6, <3>7
  <2>3. Serving
    BY <1>1, <2>2, AsksWhileServing
  <2>4. CrawlIsSound' /\ TurnsAre'
    BY <2>1, <2>2, <2>3, ServingKeeps
  <2>5. RegistryIs' /\ TablesKept'
    BY <1>1, <2>2, RegistryStays
  <2>6. QED
    BY <2>1, <2>4, <2>5 DEF IsSound
<1>4. QED
  BY <1>2, <1>3

LEMMA ExpireKeeps ==
    ASSUME IsSound, NEW name, Expire(name)
    PROVE  IsSound'
<1>1. Serving /\ UNCHANGED <<surface, phase, level, flying, heard, seen, asked, found, config,
                             turn, sources, discovered, client>>
  BY DEF Expire
<1>2. ClientsAre'
  BY <1>1, ClientsStay DEF IsSound
<1>3. CrawlIsSound' /\ TurnsAre'
  BY <1>1, <1>2, ServingKeeps
<1>4. RegistryIs' /\ TablesKept'
  BY <1>1, RegistryStays DEF IsSound
<1>5. QED
  BY <1>2, <1>3, <1>4 DEF IsSound

-------------------------------------------------------------------------------
(* What is reachable is asked for.  While the walk is at a depth there are  *)
(* sets of URLs, one to a depth, of which each holds the one before and     *)
(* where what was read of that leads, up to what has been claimed; what     *)
(* this level has still to hear is in none of those before.                 *)

LeadsInto(S, T) ==
    \A u \in DOMAIN heard : Normalise(u) \in S \ early =>
        \A i \in DOMAIN LinksFrom(heard[u]) : Normalise(LinksFrom(heard[u])[i]) \in T
IsChain(L, m) ==
    /\ Normalise(surface.base) \in L[0]
    /\ \A n \in 0..m : L[n] \subseteq Urls /\ L[n] \subseteq seen
    /\ \A n \in 1..m : L[n - 1] \subseteq L[n] /\ LeadsInto(L[n - 1], L[n])
NotYetHeard(S) ==
    \A i \in DOMAIN level : level[i] \notin DOMAIN heard => Normalise(level[i]) \notin S
IsWalked(L) ==
    /\ IsChain(L, depth) /\ L[depth] = seen
    /\ \A n \in 0..(depth - 1) : NotYetHeard(L[n])
    /\ \A u \in DOMAIN heard :
         \/ u \in ToSet(level) \/ Normalise(u) \in early
         \/ \E n \in 0..(depth - 1) : Normalise(u) \in L[n]
IsEnded(L) == IsChain(L, MaxDepth) /\ \A n \in 0..MaxDepth : NotYetHeard(L[n])
InTime == asked < surface.maxRequests
Describing == {"describe 1", "describe 2", "described"}
Reaching ==
    /\ phase \in Describing => depth = 0
    /\ phase = "walk" => depth \in 0..MaxDepth
    /\ phase = "walk" /\ InTime => \E L : IsWalked(L)
    /\ phase \in {"guess", "done"} /\ InTime => \E L : IsEnded(L)
    /\ phase = "done" => \A i \in DOMAIN level : level[i] \in DOMAIN heard

(* What was read and is a table is kept, or will be with its level.         *)
InAWave(u) == \E n \in 1..2 : u \in ToSet(DescriptionWave(n, surface.base))
IsKept(u) ==
    IsTable(heard[u]) /\ ~IsIndex(heard[u]) => u \in DOMAIN found /\ found[u].document = heard[u]
Keeping ==
    /\ phase \in {"describe 1", "describe 2"} => \A i \in DOMAIN level : InAWave(level[i])
    /\ phase \in Crawling => \A u \in DOMAIN heard :
         InAWave(u) \/ (u \in ToSet(level) /\ phase # "done") \/ IsKept(u)

LEMMA ChainReaches ==
    ASSUME CrawlTyped, NEW L, IsChain(L, MaxDepth)
    PROVE  Reachable \subseteq L[MaxDepth]
<1> DEFINE base == {Normalise(surface.base)}
           Onward(S) == S \cup {Normalise(l) :
                          l \in UNION {ToSet(LinksFrom(heard[u])) :
                            u \in {u \in DOMAIN heard : Normalise(u) \in S \ early}}}
           Step(f, n) == IF n = 0 THEN base ELSE Onward(f[n - 1])
           within == CHOOSE f : f = [n \in 0..MaxDepth |-> Step(f, n)]
           X == SUBSET Urls
           step == [p \in (1..MaxDepth) \X X |-> Onward(p[2])]
<1>1. MaxDepth \in Nat
  BY LimitsAssumption
<1>2. base \in X
  BY NormaliseIs DEF CrawlTyped, IsSurface
<1>3. Reachable = within[MaxDepth]
  BY DEF Reachable
<1>4. \A S, x : x \in Onward(S) =>
        \/ x \in S
        \/ \E u \in DOMAIN heard : /\ Normalise(u) \in S \ early
                                   /\ \E i \in DOMAIN LinksFrom(heard[u]) :
                                        x = Normalise(LinksFrom(heard[u])[i])
  BY DEF ToSet
<1>5. \A S \in X : Onward(S) \in X
  <2>1. ASSUME NEW u \in DOMAIN heard, NEW i \in DOMAIN LinksFrom(heard[u])
        PROVE  Normalise(LinksFrom(heard[u])[i]) \in Urls
    <3>1. LinksFrom(heard[u]) \in Seq(Urls)
      BY LinksAre DEF CrawlTyped
    <3>2. LinksFrom(heard[u])[i] \in Urls
      BY <3>1, ElementOfSeq
    <3>3. QED
      BY <3>2, NormaliseIs
  <2> HIDE DEF Onward
  <2>2. QED
    BY <1>4, <2>1
<1> HIDE DEF Onward, base
<1>6. IsStep(X, MaxDepth, step)
  BY <1>5 DEF IsStep
<1>7. \A n \in 1..MaxDepth, S \in X : step[<<n, S>>] = Onward(S)
  OBVIOUS
<1> HIDE DEF step, X
<1>8. PICK f : Runs(X, MaxDepth, base, step, f)
  BY <1>1, <1>2, <1>6, LoopRuns
<1>9. \A n \in 0..MaxDepth : f[n] = Step(f, n)
  <2>1. ASSUME NEW n \in 1..MaxDepth
        PROVE  f[n] = Onward(f[n - 1])
    <3>1. n - 1 \in 0..MaxDepth
      BY <1>1
    <3>2. f[n - 1] \in X /\ f[n] = step[<<n, f[n - 1]>>]
      BY <1>8, <3>1 DEF Runs
    <3>3. QED
      BY <1>7, <3>2
  <2>2. \A n \in 0..MaxDepth : n = 0 \/ n \in 1..MaxDepth
    BY <1>1
  <2>3. QED
    BY <1>8, <2>1, <2>2 DEF Runs
<1>10. f = [n \in 0..MaxDepth |-> Step(f, n)]
  <2>1. f \in [0..MaxDepth -> X]
    BY <1>8 DEF Runs
  <2> HIDE DEF Step
  <2>2. QED
    BY <1>9, <2>1
<1>11. within = [n \in 0..MaxDepth |-> Step(within, n)]
  BY <1>10
<1>12. \A n \in 0..MaxDepth : within[n] = Step(within, n)
  BY <1>11
<1> HIDE DEF within
<1>13. \A n \in 0..MaxDepth : within[n] \subseteq L[n]
  <2> DEFINE Bad == {n \in 0..MaxDepth : ~(within[n] \subseteq L[n])}
  <2>1. SUFFICES ASSUME Bad # {} PROVE FALSE
    OBVIOUS
  <2>2. PICK k \in Bad : \A n \in Bad : k <= n
    <3>1. Bad \subseteq Nat
      BY <1>1
    <3>2. QED
      BY <2>1, <3>1, Smallest
  <2>3. k # 0
    <3>1. within[0] = base
      BY <1>1, <1>12
    <3>2. base \subseteq L[0]
      BY DEF IsChain, base
    <3>3. QED
      BY <2>2, <3>1, <3>2
  <2>4. k \in 1..MaxDepth /\ k \in 0..MaxDepth /\ k - 1 \in 0..MaxDepth /\ k - 1 \notin Bad
    BY <1>1, <2>2, <2>3
  <2>5. within[k] = Onward(within[k - 1]) /\ within[k - 1] \subseteq L[k - 1]
    BY <1>12, <2>3, <2>4
  <2>6. L[k - 1] \subseteq L[k] /\ LeadsInto(L[k - 1], L[k])
    BY <2>4 DEF IsChain
  <2>7. within[k] \subseteq L[k]
    <3> DEFINE A == within[k - 1]
               B == within[k]
    <3>1. B = Onward(A) /\ A \subseteq L[k - 1]
      BY <2>5
    <3> HIDE DEF A, B
    <3>2. B \subseteq L[k]
      BY <1>4, <2>6, <3>1 DEF LeadsInto
    <3>3. QED
      BY <3>2 DEF B
  <2>8. QED
    BY <2>2, <2>7
<1>14. QED
  BY <1>1, <1>3, <1>13

LEMMA AsksClaims ==
    ASSUME CrawlTyped, NEW urls \in Seq(Urls), NEW next, Asks(urls, next), UNCHANGED surface
    PROVE  /\ phase' = next /\ seen \subseteq seen' /\ seen' \subseteq Urls
           /\ InTime' => /\ InTime
                         /\ \A i \in DOMAIN urls : Normalise(urls[i]) \in seen'
           /\ \A i \in DOMAIN level' : /\ Normalise(level'[i]) \notin seen
                                       /\ \E j \in DOMAIN urls : level'[i] = urls[j]
<1> DEFINE most == surface.maxRequests
           c == ClaimAll(urls, seen, asked, most)
<1>1. level' = c.level /\ seen' = c.seen /\ asked' = c.asked /\ phase' = next
  BY DEF Asks
<1>2. /\ seen \in SUBSET Urls /\ asked \in Nat /\ most \in Nat
      /\ IsFiniteSet(seen) /\ Cardinality(seen) = asked /\ asked <= most
  BY DEF CrawlTyped, IsSurface
<1>3. Claimed(urls, Len(urls), seen, asked, most, c)
  BY <1>2, ClaimsAre
<1>4. InTime <=> asked < most
  BY DEF InTime
<1>5. InTime' <=> asked' < most
  BY DEF InTime
<1> HIDE DEF c, most
<1>6. /\ c.seen \in SUBSET Urls /\ c.asked \in Nat /\ seen \subseteq c.seen
      /\ IsFiniteSet(c.seen) /\ Cardinality(c.seen) = c.asked
  BY <1>3 DEF Claimed, Claims
<1>7. asked <= asked'
  BY <1>1, <1>2, <1>6, FS_Subset
<1>8. asked' < most => asked < most
  BY <1>1, <1>2, <1>6, <1>7
<1>9. DOMAIN urls = 1..Len(urls)
  OBVIOUS
<1>10. asked' < most => \A i \in DOMAIN urls : Normalise(urls[i]) \in seen'
  BY <1>1, <1>3, <1>9 DEF Claimed
<1>11. \A i \in DOMAIN level' : /\ Normalise(level'[i]) \notin seen
                                /\ \E j \in DOMAIN urls : level'[i] = urls[j]
  BY <1>1, <1>3, <1>9 DEF Claimed
<1>12. QED
  BY <1>1, <1>4, <1>5, <1>6, <1>8, <1>10, <1>11

LEMMA FullStays ==
    ASSUME Reaching, Keeping,
           UNCHANGED <<surface, phase, level, heard, seen, asked, found, depth, early>>
    PROVE  Reaching' /\ Keeping'
<1>1. UNCHANGED <<surface, phase, level, heard, seen, asked, found, depth, early>>
  OBVIOUS
<1>2. \A L : IsWalked(L)' <=> IsWalked(L)
  BY <1>1 DEF IsWalked, IsChain, LeadsInto, NotYetHeard, LinksFrom, Leads
<1>3. \A L : IsEnded(L)' <=> IsEnded(L)
  BY <1>1 DEF IsEnded, IsChain, LeadsInto, NotYetHeard, LinksFrom, Leads
<1>4. Reaching'
  BY <1>1, <1>2, <1>3 DEF Reaching, InTime
<1>5. Keeping'
  BY <1>1 DEF Keeping, InAWave, IsKept, IsIndex
<1>6. QED
  BY <1>4, <1>5

(* One more has been heard, of this level.                                  *)
LEMMA LeadStill ==
    ASSUME NEW L, NEW m, \A n \in 1..m : LeadsInto(L[n - 1], L[n]), UNCHANGED <<surface, early>>,
           NEW w \in Urls, \A n \in 1..m : Normalise(w) \notin L[n - 1],
           DOMAIN heard' = DOMAIN heard \cup {w}, \A u \in DOMAIN heard : heard'[u] = heard[u]
    PROVE  \A n \in 1..m : LeadsInto(L[n - 1], L[n])'
<1> SUFFICES ASSUME NEW n \in 1..m, NEW u \in DOMAIN heard', Normalise(u) \in L[n - 1] \ early,
                    NEW i \in DOMAIN LinksFrom(heard[u])'
             PROVE  Normalise(LinksFrom(heard[u])[i])' \in L[n]
  BY DEF LeadsInto
<1>1. u \in DOMAIN heard /\ heard'[u] = heard[u]
  OBVIOUS
<1>2. LinksFrom(heard[u])' = LinksFrom(heard[u])
  BY <1>1 DEF LinksFrom, Leads
<1>3. LeadsInto(L[n - 1], L[n])
  OBVIOUS
<1>4. QED
  BY <1>1, <1>2, <1>3 DEF LeadsInto

LEMMA HearIsFull ==
    ASSUME CrawlIsSound, Reaching, Keeping, Hear
    PROVE  Reaching' /\ Keeping'
<1>1. PICK i \in flying : \E isLost \in {FALSE, TRUE} :
        /\ heard' = Joined([url \in {level[i]} |-> IF isLost THEN Nothing ELSE At(url)], heard)
        /\ flying' = flying \ {i}
        /\ UNCHANGED <<surface, phase, level, seen, asked, found, depth, early>>
  BY DEF Hear
<1> DEFINE w == level[i]
<1>2. PICK isLost \in {FALSE, TRUE} :
        /\ heard' = Joined([url \in {w} |-> IF isLost THEN Nothing ELSE At(url)], heard)
        /\ UNCHANGED <<surface, phase, level, seen, asked, found, depth, early>>
  BY <1>1
<1>3. i \in DOMAIN level /\ w \notin DOMAIN heard /\ w \in Urls
  <2>1. i \in DOMAIN level /\ w \notin DOMAIN heard /\ level \in Seq(Urls)
    BY DEF CrawlIsSound, CrawlTyped
  <2>2. QED
    BY <2>1, ElementOfSeq
<1>4. DOMAIN heard' = DOMAIN heard \cup {w} /\ \A u \in DOMAIN heard : heard'[u] = heard[u]
  BY <1>2, <1>3 DEF Joined
<1>5. \A S : NotYetHeard(S) => NotYetHeard(S)' /\ Normalise(w) \notin S
  BY <1>2, <1>3, <1>4 DEF NotYetHeard
<1>6. w \in ToSet(level) /\ ToSet(level)' = ToSet(level)
  BY <1>2, <1>3 DEF ToSet
<1> HIDE DEF w
<1>7. ASSUME NEW L, IsWalked(L), depth \in 0..MaxDepth
      PROVE  IsWalked(L)'
  <2>1. depth \in Nat
    BY <1>7, LimitsAssumption
  <2>2. \A n \in 0..(depth - 1) : NotYetHeard(L[n])' /\ Normalise(w) \notin L[n]
    BY <1>5, <1>7 DEF IsWalked
  <2>3. \A n \in 1..depth : n - 1 \in 0..(depth - 1)
    BY <2>1
  <2>4. IsChain(L, depth)
    BY <1>7 DEF IsWalked
  <2>5. \A n \in 1..depth : Normalise(w) \notin L[n - 1]
    BY <2>2, <2>3
  <2>6. IsChain(L, depth)'
    <3>1. IsChain(L, depth)' <=> /\ Normalise(surface.base) \in L[0]
                                 /\ \A n \in 0..depth : L[n] \subseteq Urls /\ L[n] \subseteq seen
                                 /\ \A n \in 1..depth : L[n - 1] \subseteq L[n] /\ LeadsInto(L[n - 1], L[n])'
      BY <1>2 DEF IsChain
    <3>2. \A n \in 1..depth : LeadsInto(L[n - 1], L[n])'
      BY <1>2, <1>3, <1>4, <2>4, <2>5, LeadStill DEF IsChain
    <3>3. QED
      BY <2>4, <3>1, <3>2 DEF IsChain
  <2>7. \A u \in DOMAIN heard' :
          \/ u \in ToSet(level)' \/ Normalise(u) \in early'
          \/ \E n \in 0..(depth - 1) : Normalise(u) \in L[n]
    BY <1>2, <1>4, <1>6, <1>7 DEF IsWalked
  <2>8. L[depth'] = seen'
    BY <1>2, <1>7 DEF IsWalked
  <2>9. QED
    BY <1>2, <2>2, <2>6, <2>7, <2>8 DEF IsWalked
<1>8. ASSUME NEW L, IsEnded(L)
      PROVE  IsEnded(L)'
  <2>1. MaxDepth \in Nat
    BY LimitsAssumption
  <2>2. \A n \in 0..MaxDepth : NotYetHeard(L[n])' /\ Normalise(w) \notin L[n]
    BY <1>5, <1>8 DEF IsEnded
  <2>3. \A n \in 1..MaxDepth : n - 1 \in 0..MaxDepth
    BY <2>1
  <2>4. \A n \in 1..MaxDepth : Normalise(w) \notin L[n - 1]
    BY <2>2, <2>3
  <2>5. IsChain(L, MaxDepth)
    BY <1>8 DEF IsEnded
  <2>6. IsChain(L, MaxDepth)'
    <3>1. \A n \in 1..MaxDepth : LeadsInto(L[n - 1], L[n])'
      BY <1>2, <1>3, <1>4, <2>4, <2>5, LeadStill DEF IsChain
    <3>2. QED
      BY <1>2, <2>5, <3>1 DEF IsChain
  <2>7. QED
    BY <2>2, <2>6 DEF IsEnded
<1>9. phase # "done"
  BY <1>3 DEF Reaching, w
<1>10. Reaching'
  BY <1>2, <1>7, <1>8, <1>9 DEF Reaching, InTime
<1>11. Keeping'
  <2>1. \A u \in DOMAIN heard : IsKept(u) => IsKept(u)'
    BY <1>2, <1>4 DEF IsKept, IsIndex
  <2>2. \A u : InAWave(u)' <=> InAWave(u)
    BY <1>2 DEF InAWave
  <2>3. QED
    BY <1>2, <1>4, <1>6, <1>9, <2>1, <2>2 DEF Keeping
<1>12. QED
  BY <1>10, <1>11

(* The walk begins: the base, and no document read before it is followed.   *)
LEMMA WalkBegins ==
    ASSUME CrawlIsSound, Asks(<<surface.base>>, "walk"), early' = seen, depth = 0,
           UNCHANGED <<surface, heard, depth>>
    PROVE  Reaching'
<1> DEFINE urls == <<surface.base>>
<1>1. CrawlTyped /\ surface.base \in Urls
  BY DEF CrawlIsSound, CrawlTyped, IsSurface
<1>2. urls \in Seq(Urls) /\ DOMAIN urls = {1} /\ urls[1] = surface.base
  BY <1>1
<1> HIDE DEF urls
<1>3. Asks(urls, "walk")
  BY DEF urls
<1>4. /\ phase' = "walk" /\ seen \subseteq seen' /\ seen' \subseteq Urls
      /\ InTime' => \A i \in DOMAIN urls : Normalise(urls[i]) \in seen'
  BY <1>1, <1>2, <1>3, AsksClaims
<1>5. MaxDepth \in Nat
  BY LimitsAssumption
<1>6. ASSUME InTime'
      PROVE  \E L : IsWalked(L)'
  <2>1. PICK T : T = seen'
    OBVIOUS
  <2> DEFINE L == [n \in 0..0 |-> T]
  <2>2. L[0] = T /\ 0..depth' = {0} /\ 1..depth' = {} /\ 0..(depth' - 1) = {} /\ depth' = 0
    OBVIOUS
  <2> HIDE DEF L
  <2>3. Normalise(surface'.base) \in T
    BY <1>2, <1>4, <1>6, <2>1
  <2>4. IsChain(L, depth)'
    BY <1>4, <2>1, <2>2, <2>3 DEF IsChain
  <2>5. \A u \in DOMAIN heard' : Normalise(u) \in early'
    BY DEF CrawlIsSound, Distinct
  <2>6. IsWalked(L)'
    BY <2>1, <2>2, <2>4, <2>5 DEF IsWalked
  <2>7. QED
    BY <2>6
<1>7. phase' = "walk" /\ depth' \in 0..MaxDepth
  BY <1>4, <1>5
<1>8. QED
  BY <1>6, <1>7 DEF Reaching, Describing

(* What a level read and is a table is kept with it.                        *)
LEMMA AnswerIsAmong ==
    ASSUME CrawlTyped, NEW u \in ToSet(level), heard[u] # Nothing
    PROVE  Answers \in Seq(Urls) /\ u \in ToSet(Answers)
<1> DEFINE S == {url \in ToSet(level) : heard[url] # Nothing}
<1>1. level \in Seq(Urls) /\ Answers = Those(level, S)
  BY DEF CrawlTyped, Answers
<1>2. PICK j \in DOMAIN level : level[j] = u
  BY DEF ToSet
<1>3. level[j] \in S
  BY <1>2
<1> HIDE DEF S
<1>4. Answers \in Seq(Urls) /\ \E i \in DOMAIN Answers : Answers[i] = level[j]
  BY <1>1, <1>3, ThoseOf
<1>5. QED
  BY <1>2, <1>4 DEF ToSet

LEMMA KeptAre ==
    ASSUME NEW urls, NEW route, found' = Keep(urls, route), UNCHANGED <<surface, heard>>, NEW u,
           u \in ToSet(urls) \/ IsKept(u)
    PROVE  IsKept(u)'
<1>1. ASSUME u \in ToSet(urls)
      PROVE  u \in DOMAIN found' /\ found'[u].document = heard[u]
  BY <1>1 DEF Keep, Joined
<1>2. ASSUME u \notin ToSet(urls), u \in DOMAIN found
      PROVE  u \in DOMAIN found' /\ found'[u] = found[u]
  BY <1>2 DEF Keep, Joined
<1>3. QED
  BY <1>1, <1>2 DEF IsKept, IsIndex

LEMMA TablesAreKept ==
    ASSUME CrawlTyped, NEW route, found' = Keep(Tables(Answers), route), UNCHANGED <<surface, heard>>,
           NEW u \in ToSet(level)
    PROVE  IsKept(u)'
<1>1. CASE heard[u] = Nothing
  BY <1>1 DEF IsKept, IsTable, Nothing
<1>2. CASE IsIndex(heard[u])
  BY <1>2 DEF IsKept, IsIndex
<1>3. CASE heard[u] # Nothing /\ ~IsIndex(heard[u])
  <2>1. u \in ToSet(Answers) /\ Answers \in Seq(Urls)
    BY <1>3, AnswerIsAmong
  <2> DEFINE S == {url \in ToSet(Answers) : ~IsIndex(heard[url])}
             t == Tables(Answers)
  <2>2. PICK j \in DOMAIN Answers : Answers[j] = u
    BY <2>1 DEF ToSet
  <2>3. Answers[j] \in S /\ t = Those(Answers, S)
    BY <1>3, <2>1, <2>2 DEF Tables
  <2> HIDE DEF S, t
  <2>4. \E i \in DOMAIN t : t[i] = Answers[j]
    BY <2>1, <2>3, ThoseOf
  <2>5. u \in ToSet(t) /\ found' = Keep(t, route)
    BY <2>2, <2>4 DEF ToSet, t
  <2>6. QED
    BY <2>5, KeptAre
<1>4. QED
  BY <1>1, <1>2, <1>3

LEMMA DescribeIsFull ==
    ASSUME CrawlIsSound, Reaching, Keeping, Describe
    PROVE  Reaching' /\ Keeping'
<1> DEFINE S == {url \in ToSet(Answers) : Named(url) # <<>>}
           naming == Those(level, S)
           wave == DescriptionWave(2, surface.base)
<1>1. /\ AllHeard /\ UNCHANGED <<surface, heard, found, depth>>
      /\ phase \in {"describe 1", "describe 2"} /\ depth = 0
      /\ IF naming # <<>> THEN Asks(Named(naming[1]), "described")
         ELSE IF phase = "describe 1" THEN Asks(wave, "describe 2")
              ELSE Asks(<<surface.base>>, "walk") /\ early' = seen
  BY DEF Describe, Reaching, Describing
<1>2. \A u \in DOMAIN heard : InAWave(u)' \/ IsKept(u)'
  <2>1. \A u \in DOMAIN heard : InAWave(u) \/ u \in ToSet(level) \/ IsKept(u)
    BY <1>1 DEF Keeping, Crawling
  <2>2. \A u \in ToSet(level) : InAWave(u)
    BY <1>1 DEF Keeping, ToSet
  <2>3. \A u : (InAWave(u) => InAWave(u)') /\ (IsKept(u) => IsKept(u)')
    BY <1>1 DEF InAWave, IsKept, IsIndex
  <2>4. QED
    BY <2>1, <2>2, <2>3
<1>3. CASE Asks(Named(naming[1]), "described")
  <2>1. phase' = "described"
    BY <1>3 DEF Asks
  <2>2. Reaching'
    BY <1>1, <2>1 DEF Reaching, Describing
  <2>3. Keeping'
    BY <1>1, <1>2, <2>1 DEF Keeping
  <2>4. QED
    BY <2>2, <2>3
<1>4. CASE Asks(wave, "describe 2")
  <2>1. CrawlTyped /\ wave \in Seq(Urls) /\ 2 \in 1..2
    BY WavesAre DEF CrawlIsSound, CrawlTyped, IsSurface
  <2>2. \A j \in DOMAIN wave : wave[j] \in ToSet(DescriptionWave(2, surface.base))
    BY DEF ToSet
  <2> HIDE DEF wave, naming
  <2>3. phase' = "describe 2" /\ \A i \in DOMAIN level' : \E j \in DOMAIN wave : level'[i] = wave[j]
    BY <1>1, <1>4, <2>1, AsksClaims
  <2>4. Reaching'
    BY <1>1, <2>3 DEF Reaching, Describing
  <2>5. \A i \in DOMAIN level' : InAWave(level'[i])
    BY <2>1, <2>2, <2>3 DEF InAWave
  <2>6. \A u : InAWave(u)' <=> InAWave(u)
    BY <1>1 DEF InAWave
  <2>7. \A i \in DOMAIN level' : InAWave(level[i])'
    BY <1>1, <2>5 DEF InAWave
  <2>8. Keeping'
    BY <1>1, <1>2, <2>3, <2>7 DEF Keeping
  <2>9. QED
    BY <2>4, <2>8
<1>5. CASE Asks(<<surface.base>>, "walk") /\ early' = seen
  <2>1. phase' = "walk"
    BY <1>5 DEF Asks
  <2>2. Reaching'
    BY <1>1, <1>5, WalkBegins
  <2>3. Keeping'
    BY <1>1, <1>2, <2>1 DEF Keeping
  <2>4. QED
    BY <2>2, <2>3
<1> HIDE DEF naming, wave
<1>6. QED
  BY <1>1, <1>3, <1>4, <1>5

LEMMA TakeDescribedIsFull ==
    ASSUME CrawlIsSound, Reaching, Keeping, TakeDescribed
    PROVE  Reaching' /\ Keeping'
<1>1. /\ phase = "described" /\ depth = 0 /\ found' = Keep(Answers, "description")
      /\ Asks(<<surface.base>>, "walk") /\ early' = seen /\ UNCHANGED <<surface, heard, depth>>
      /\ CrawlTyped /\ phase' = "walk"
  BY DEF TakeDescribed, Reaching, Describing, CrawlIsSound, Asks
<1>2. Reaching'
  BY <1>1, WalkBegins
<1>3. ASSUME NEW u \in DOMAIN heard
      PROVE  InAWave(u)' \/ IsKept(u)'
  <2>1. CASE InAWave(u)
    BY <1>1, <2>1 DEF InAWave
  <2>2. CASE IsKept(u)
    BY <1>1, <2>2, KeptAre
  <2>3. CASE u \in ToSet(level) /\ heard[u] = Nothing
    BY <1>1, <2>3 DEF IsKept, IsTable, Nothing
  <2>4. CASE u \in ToSet(level) /\ heard[u] # Nothing
    <3>1. u \in ToSet(Answers)
      BY <1>1, <2>4, AnswerIsAmong
    <3>2. QED
      BY <1>1, <3>1, KeptAre
  <2>5. QED
    BY <1>1, <2>1, <2>2, <2>3, <2>4 DEF Keeping, Crawling
<1>4. Keeping'
  BY <1>1, <1>3 DEF Keeping
<1>5. QED
  BY <1>2, <1>4

LEMMA StartsIsFull ==
    ASSUME NEW there, IsSurface(there), Starts(there)
    PROVE  Reaching' /\ Keeping'
<1> DEFINE w == DescriptionWave(1, there.base)
           most == there.maxRequests
           c == ClaimAll(w, {}, 0, most)
<1>1. surface' = there /\ level' = c.level /\ phase' = "describe 1" /\ depth' = 0 /\ heard' = <<>>
  BY DEF Starts
<1>2. there.base \in Urls /\ most \in Nat
  BY DEF IsSurface
<1>3. w \in Seq(Urls)
  BY <1>2, WavesAre
<1>4. \A i \in DOMAIN w : w[i] \in ToSet(DescriptionWave(1, there.base))
  BY DEF ToSet
<1> HIDE DEF w, most
<1>5. Claimed(w, Len(w), {}, 0, most, c)
  <2>1. IsFiniteSet({}) /\ Cardinality({}) = 0 /\ {} \in SUBSET Urls
    BY FS_EmptySet
  <2>2. QED
    BY <1>2, <1>3, <2>1, ClaimsAre
<1> HIDE DEF c
<1>6. Reaching'
  BY <1>1 DEF Reaching, Describing
<1>7. \A i \in DOMAIN level' : InAWave(level[i])'
  <2>1. DOMAIN w = 1..Len(w) /\ 1 \in 1..2
    BY <1>3
  <2>2. TAKE i \in DOMAIN level'
  <2>3. PICK j \in DOMAIN w : level'[i] = w[j]
    BY <1>1, <1>5, <2>1, <2>2 DEF Claimed
  <2>4. level'[i] \in ToSet(DescriptionWave(1, surface'.base))
    BY <1>1, <1>4, <2>3
  <2>5. QED
    BY <2>1, <2>4 DEF InAWave
<1>8. DOMAIN heard' = {}
  <2>1. heard' = <<>>
    BY <1>1
  <2>2. QED
    BY <2>1
<1>9. Keeping'
  BY <1>1, <1>7, <1>8 DEF Keeping
<1>10. QED
  BY <1>6, <1>9

(* A level of the walk is behind: its links are claimed, or are to be.      *)
LinksClaimed(S, T) ==
    \A u \in S : \A i \in DOMAIN LinksFrom(heard[u]) : Normalise(LinksFrom(heard[u])[i]) \in T

LEMMA LevelLeads ==
    ASSUME CrawlIsSound, AllHeard
    PROVE  /\ Unvisited(Harvest(Answers)) \in Seq(Urls)
           /\ \A T : seen \subseteq T
                     /\ (\A k \in DOMAIN Unvisited(Harvest(Answers)) :
                           Normalise(Unvisited(Harvest(Answers))[k]) \in T)
                     => LinksClaimed(ToSet(level), T)
<1> DEFINE h == Harvest(Answers)
           frontier == Unvisited(h)
<1>1. CrawlTyped
  BY DEF CrawlIsSound
<1>2. /\ Answers \in Seq(Urls)
      /\ \A i \in DOMAIN Answers : heard[Answers[i]] \in Documents
  BY <1>1, AnswersAre
<1>3. /\ h \in Seq(Urls)
      /\ \A i \in DOMAIN Answers : \A j \in DOMAIN LinksFrom(heard[Answers[i]]) :
           \E k \in DOMAIN h : h[k] = LinksFrom(heard[Answers[i]])[j]
  BY <1>2, HarvestIs
<1> HIDE DEF h
<1>4. /\ frontier \in Seq(Urls)
      /\ \A j \in DOMAIN h : Normalise(h[j]) \notin seen =>
           \E k \in DOMAIN frontier : Normalise(frontier[k]) = Normalise(h[j])
  BY <1>3, UnvisitedAre
<1> HIDE DEF frontier
<1>5. ASSUME NEW u \in ToSet(level), NEW j \in DOMAIN LinksFrom(heard[u])
      PROVE  heard[u] # Nothing
  <2>1. LinksFrom(Nothing) = <<>>
    <3> DEFINE none == <<>>
               onward == Those(none, {l \in ToSet(none) : Leads(l)})
    <3>1. none \in Seq(Links) /\ DOMAIN none = {}
      OBVIOUS
    <3>2. onward \in Seq(Links) /\ DOMAIN onward = {}
      <4> DEFINE S == {l \in ToSet(none) : Leads(l)}
      <4> HIDE DEF none, S
      <4>1. Those(none, S) \in Seq(Links) /\ \A i \in DOMAIN Those(none, S) : \E k \in DOMAIN none : TRUE
        BY <3>1, ThoseOf
      <4>2. QED
        BY <3>1, <4>1 DEF S
    <3>3. Nothing.links = none /\ Nothing.kind = "nothing"
      BY DEF Nothing
    <3>4. LinksFrom(Nothing) = [i \in DOMAIN onward |-> onward[i].to]
      BY <3>3 DEF LinksFrom
    <3> HIDE DEF onward
    <3>5. QED
      BY <3>2, <3>4
  <2>2. QED
    BY <1>5, <2>1
<1>6. ASSUME NEW T, seen \subseteq T, \A k \in DOMAIN frontier : Normalise(frontier[k]) \in T,
             NEW u \in ToSet(level), NEW j \in DOMAIN LinksFrom(heard[u])
      PROVE  Normalise(LinksFrom(heard[u])[j]) \in T
  <2>1. u \in ToSet(Answers)
    BY <1>1, <1>5, AnswerIsAmong
  <2>2. PICK i \in DOMAIN Answers : Answers[i] = u
    BY <2>1 DEF ToSet
  <2>3. PICK k \in DOMAIN h : h[k] = LinksFrom(heard[u])[j]
    BY <1>3, <2>2
  <2>4. QED
    BY <1>4, <1>6, <2>3
<1>7. QED
  BY <1>4, <1>6 DEF LinksClaimed, frontier, h

(* With a chain to this depth, one a level longer; and one to the end when  *)
(* there is nothing new.                                                    *)
LEMMA WalkLeads ==
    ASSUME CrawlIsSound, NEW L, depth \in Nat, IsWalked(L),
           NEW T, seen \subseteq T, LinksClaimed(ToSet(level), T)
    PROVE  LeadsInto(seen, T)
<1> SUFFICES ASSUME NEW u \in DOMAIN heard, Normalise(u) \in seen \ early,
                    NEW i \in DOMAIN LinksFrom(heard[u])
             PROVE  Normalise(LinksFrom(heard[u])[i]) \in T
  BY DEF LeadsInto
<1>1. CASE u \in ToSet(level)
  BY <1>1 DEF LinksClaimed
<1>2. CASE \E n \in 0..(depth - 1) : Normalise(u) \in L[n]
  <2>1. PICK n \in 0..(depth - 1) : Normalise(u) \in L[n]
    BY <1>2
  <2>2. IsChain(L, depth)
    BY DEF IsWalked
  <2>3. n + 1 \in 1..depth /\ n + 1 \in 0..depth /\ (n + 1) - 1 = n
    OBVIOUS
  <2>4. LeadsInto(L[n], L[n + 1]) /\ L[n + 1] \subseteq seen
    BY <2>2, <2>3 DEF IsChain
  <2>5. QED
    BY <2>1, <2>4 DEF LeadsInto
<1>3. QED
  BY <1>1, <1>2 DEF IsWalked

(* A chain goes on, through what nothing more is read for.                  *)
Onto(L, m, n, T) == [k \in 0..n |-> IF k \in 0..m THEN L[k] ELSE T]

LEMMA ChainGoesOn ==
    ASSUME NEW L, NEW m \in Nat, NEW n \in Nat, NEW T, IsChain(L, m), L[m] \subseteq T,
           m < n => LeadsInto(L[m], T), m + 1 < n => LeadsInto(T, T),
           T \subseteq Urls, seen \subseteq seen', T \subseteq seen', m <= n,
           UNCHANGED <<surface, heard, early>>
    PROVE  IsChain(Onto(L, m, n, T), n)'
<1>0. PICK M : M = Onto(L, m, n, T)
  OBVIOUS
<1>1. /\ \A k \in 0..m : M[k] = L[k] /\ k \in 0..n
      /\ \A k \in (m + 1)..n : M[k] = T /\ k \in 1..n
      /\ \A k \in 0..n : k \in 0..m \/ k \in (m + 1)..n
      /\ \A k \in 1..n : k \in 1..m \/ k = m + 1 \/ k \in (m + 2)..n
      /\ \A k \in 1..m : k \in 0..m /\ k - 1 \in 0..m
      /\ \A k \in (m + 2)..n : k \in (m + 1)..n /\ k - 1 \in (m + 1)..n /\ m + 1 < n
      /\ 0 \in 0..m /\ m \in 0..m /\ (m + 1) - 1 = m
      /\ m < n => m + 1 \in (m + 1)..n
      /\ m + 1 \in 1..n => m < n
  BY <1>0 DEF Onto
<1>2. /\ Normalise(surface.base) \in L[0]
      /\ \A k \in 0..m : L[k] \subseteq Urls /\ L[k] \subseteq seen
      /\ \A k \in 1..m : L[k - 1] \subseteq L[k] /\ LeadsInto(L[k - 1], L[k])
  BY DEF IsChain
<1>3. \A k \in 0..n : M[k] \subseteq Urls /\ M[k] \subseteq seen'
  BY <1>1, <1>2
<1>4. \A k \in 1..n : M[k - 1] \subseteq M[k] /\ LeadsInto(M[k - 1], M[k])
  <2>1. TAKE k \in 1..n
  <2>2. CASE k \in 1..m
    BY <1>1, <1>2, <2>2
  <2>3. CASE k = m + 1
    <3>1. m < n /\ M[k - 1] = L[m] /\ M[k] = T
      BY <1>1, <2>1, <2>3
    <3>2. QED
      BY <3>1
  <2>4. CASE k \in (m + 2)..n
    <3>1. M[k - 1] = T /\ M[k] = T /\ m + 1 < n
      BY <1>1, <2>4
    <3>2. QED
      BY <3>1
  <2>5. QED
    BY <1>1, <2>1, <2>2, <2>3, <2>4
<1>5. \A k \in 1..n : LeadsInto(M[k - 1], M[k])'
  <2>1. TAKE k \in 1..n
  <2>2. PICK A, B : A = M[k - 1] /\ B = M[k]
    OBVIOUS
  <2>3. LeadsInto(A, B)
    BY <1>4, <2>2
  <2>4. surface' = surface /\ heard' = heard /\ early' = early
    OBVIOUS
  <2>5. \A d : LinksFrom(d)' = LinksFrom(d)
    BY <2>4 DEF LinksFrom, Leads
  <2>6. LeadsInto(A, B)'
    BY <2>3, <2>4, <2>5 DEF LeadsInto
  <2>7. QED
    BY <2>2, <2>6 DEF LeadsInto
<1>6. Normalise(surface'.base) \in M[0]
  BY <1>1, <1>2
<1>7. IsChain(M, n)'
  BY <1>3, <1>4, <1>5, <1>6 DEF IsChain
<1>8. QED
  BY <1>0, <1>7

LEMMA WalkIsFull ==
    ASSUME CrawlIsSound, CrawlIsSound', Reaching, Keeping, Walk
    PROVE  Reaching' /\ Keeping'
<1> DEFINE frontier == Unvisited(Harvest(Answers))
<1>1. /\ phase = "walk" /\ AllHeard /\ found' = Keep(Tables(Answers), Route)
      /\ depth' = depth + 1 /\ UNCHANGED <<surface, heard, early>> /\ CrawlTyped
      /\ \/ frontier # <<>> /\ depth + 1 <= MaxDepth /\ Asks(frontier, "walk")
         \/ /\ frontier = <<>> \/ ~(depth + 1 <= MaxDepth)
            /\ \/ Asks(Guesses, "guess")
               \/ phase' = "done" /\ UNCHANGED <<level, seen, asked>>
  BY DEF Walk, CrawlIsSound
<1>2. MaxDepth \in Nat /\ depth \in Nat /\ depth \in 0..MaxDepth
  BY <1>1, LimitsAssumption DEF Reaching
<1>3. /\ frontier \in Seq(Urls)
      /\ \A T : seen \subseteq T /\ (\A k \in DOMAIN frontier : Normalise(frontier[k]) \in T)
                => LinksClaimed(ToSet(level), T)
  BY <1>1, LevelLeads
<1> HIDE DEF frontier
<1>4. seen \subseteq Urls /\ \A u \in DOMAIN heard : Normalise(u) \in seen
  BY DEF CrawlIsSound, CrawlTyped, Distinct
<1>5. \A L, m : IsChain(L, m) => \A k \in 0..m : L[k] \subseteq seen
  BY DEF IsChain
<1>6. ASSUME depth + 1 <= MaxDepth, Asks(frontier, "walk")
      PROVE  Reaching'
  <2>1. /\ phase' = "walk" /\ seen \subseteq seen' /\ seen' \subseteq Urls
        /\ InTime' => InTime /\ \A k \in DOMAIN frontier : Normalise(frontier[k]) \in seen'
        /\ \A i \in DOMAIN level' : Normalise(level'[i]) \notin seen
    BY <1>1, <1>3, <1>6, AsksClaims
  <2>2. depth' \in 0..MaxDepth
    BY <1>1, <1>2, <1>6
  <2>3. ASSUME InTime'
        PROVE  \E M : IsWalked(M)'
    <3>1. PICK T : T = seen'
      OBVIOUS
    <3>2. PICK L : IsWalked(L)
      BY <1>1, <2>1, <2>3 DEF Reaching
    <3>3. LinksClaimed(ToSet(level), T)
      BY <1>3, <2>1, <2>3, <3>1
    <3>4. IsChain(L, depth) /\ L[depth] = seen /\ LeadsInto(seen, T)
      BY <1>2, <2>1, <3>1, <3>2, <3>3, WalkLeads DEF IsWalked
    <3>5. PICK m, n : m = depth /\ n = depth'
      OBVIOUS
    <3>6. m \in Nat /\ n \in Nat /\ m + 1 = n /\ m < n /\ m <= n /\ ~(m + 1 < n)
      BY <1>1, <1>2, <3>5
    <3>7. PICK M : M = Onto(L, m, n, T)
      OBVIOUS
    <3>8. IsChain(M, depth)'
      <4>1. IsChain(L, m) /\ L[m] = seen
        BY <3>4, <3>5
      <4>2. IsChain(Onto(L, m, n, T), n)'
        BY <1>1, <2>1, <3>1, <3>4, <3>6, <4>1, ChainGoesOn
      <4>3. QED
        BY <3>5, <3>7, <4>2 DEF IsChain
    <3>9. /\ \A k \in 0..m : M[k] = L[k]
          /\ M[n] = T /\ M[m] = seen /\ m \in 0..m /\ n - 1 = m
      <4>1. /\ m \in 0..m /\ n - 1 = m /\ n \in 0..n /\ n \notin 0..m /\ \A k \in 0..m : k \in 0..n
        BY <3>6
      <4>2. L[m] = seen
        BY <3>4, <3>5
      <4>3. QED
        BY <3>7, <4>1, <4>2 DEF Onto
    <3>10. \A k \in 0..(depth' - 1) : NotYetHeard(M[k])'
      <4>1. \A k \in 0..m : M[k] \subseteq seen
        BY <1>5, <3>4, <3>5, <3>9
      <4>2. QED
        BY <2>1, <3>5, <3>9, <4>1 DEF NotYetHeard
    <3>11. \A u \in DOMAIN heard' : \E k \in 0..(depth' - 1) : Normalise(u) \in M[k]
      BY <1>1, <1>4, <3>5, <3>9
    <3>12. IsWalked(M)'
      BY <3>1, <3>5, <3>8, <3>9, <3>10, <3>11 DEF IsWalked
    <3>13. QED
      BY <3>12
  <2>4. QED
    BY <2>1, <2>2, <2>3 DEF Reaching, Describing
<1>7. ASSUME InTime, frontier = <<>> \/ ~(depth + 1 <= MaxDepth), seen \subseteq seen',
             \A i \in DOMAIN level' :
                level'[i] \in DOMAIN heard \/ Normalise(level'[i]) \notin seen
      PROVE  \E M : IsEnded(M)'
  <2>1. PICK T : T = seen
    OBVIOUS
  <2>2. PICK L : IsWalked(L)
    BY <1>1, <1>7 DEF Reaching
  <2>3. PICK m, n : m = depth /\ n = MaxDepth
    OBVIOUS
  <2>4. m \in Nat /\ n \in Nat /\ m <= n /\ (m < n => frontier = <<>>) /\ (m + 1 < n => m < n)
    BY <1>2, <1>7, <2>3
  <2>5. IsChain(L, m) /\ L[m] = T
    BY <2>1, <2>2, <2>3 DEF IsWalked
  <2>6. m < n => LeadsInto(T, T)
    <3>1. ASSUME m < n
          PROVE  LinksClaimed(ToSet(level), T)
      <4>1. DOMAIN frontier = {}
        BY <2>4, <3>1
      <4>2. QED
        BY <1>3, <2>1, <4>1
    <3>2. QED
      BY <1>2, <2>1, <2>2, <3>1, WalkLeads
  <2>7. PICK M : M = Onto(L, m, n, T)
    OBVIOUS
  <2>8. IsChain(M, n)'
    <3>1. IsChain(Onto(L, m, n, T), n)'
      BY <1>1, <1>4, <1>7, <2>1, <2>4, <2>5, <2>6, ChainGoesOn
    <3>2. QED
      BY <2>7, <3>1 DEF IsChain
  <2>9. \A k \in 0..n : M[k] \subseteq seen
    <3>1. \A k \in 0..m : L[k] \subseteq seen
      BY <1>5, <2>5
    <3>2. QED
      BY <2>1, <2>7, <3>1 DEF Onto
  <2>10. \A k \in 0..MaxDepth : NotYetHeard(M[k])'
    BY <1>1, <1>7, <2>3, <2>9 DEF NotYetHeard
  <2>11. IsEnded(M)'
    BY <2>3, <2>8, <2>10 DEF IsEnded
  <2>12. QED
    BY <2>11
<1>8. ASSUME frontier = <<>> \/ ~(depth + 1 <= MaxDepth), Asks(Guesses, "guess")
      PROVE  Reaching'
  <2>1. Guesses \in Seq(Urls)
    BY <1>1, GuessesAre DEF CrawlTyped, IsSurface
  <2> DEFINE g == Guesses
  <2>0. Asks(g, "guess") /\ g \in Seq(Urls)
    BY <1>8, <2>1
  <2> HIDE DEF g
  <2>2. /\ phase' = "guess" /\ seen \subseteq seen'
        /\ InTime' => InTime
        /\ \A i \in DOMAIN level' : Normalise(level'[i]) \notin seen
    BY <1>1, <2>0, AsksClaims
  <2>3. InTime' => \E M : IsEnded(M)'
    BY <1>7, <1>8, <2>2
  <2>4. QED
    BY <2>2, <2>3 DEF Reaching, Describing
<1>9. ASSUME frontier = <<>> \/ ~(depth + 1 <= MaxDepth),
             phase' = "done", UNCHANGED <<level, seen, asked>>
      PROVE  Reaching'
  <2>1. \A i \in DOMAIN level' : level'[i] \in DOMAIN heard
    BY <1>1, <1>9 DEF AllHeard
  <2>2. InTime' => InTime
    BY <1>1, <1>9 DEF InTime
  <2>3. InTime' => \E M : IsEnded(M)'
    BY <1>7, <1>9, <2>1, <2>2
  <2>4. QED
    BY <1>1, <1>9, <2>1, <2>3 DEF Reaching, Describing
<1>10. phase' \in {"walk", "guess", "done"}
  BY <1>1 DEF Asks
<1>11. ASSUME NEW u \in DOMAIN heard
       PROVE  InAWave(u)' \/ IsKept(u)'
  <2>1. CASE InAWave(u)
    BY <1>1, <2>1 DEF InAWave
  <2>2. CASE IsKept(u)
    BY <1>1, <2>2, KeptAre
  <2>3. CASE u \in ToSet(level)
    BY <1>1, <2>3, TablesAreKept
  <2>4. QED
    BY <1>1, <2>1, <2>2, <2>3 DEF Keeping, Crawling
<1>12. Keeping'
  BY <1>1, <1>10, <1>11 DEF Keeping
<1>13. QED
  BY <1>1, <1>6, <1>8, <1>9, <1>12

LEMMA TakeGuessesIsFull ==
    ASSUME CrawlIsSound, Reaching, Keeping, TakeGuesses
    PROVE  Reaching' /\ Keeping'
<1>1. /\ phase = "guess" /\ phase' = "done" /\ AllHeard /\ CrawlTyped
      /\ found' = Keep(Tables(Answers), "guess")
      /\ UNCHANGED <<surface, level, heard, seen, asked, depth, early>>
  BY DEF TakeGuesses, CrawlIsSound
<1>2. \A L : IsEnded(L)' <=> IsEnded(L)
  BY <1>1 DEF IsEnded, IsChain, LeadsInto, NotYetHeard, LinksFrom, Leads
<1>3. Reaching'
  BY <1>1, <1>2 DEF Reaching, InTime, AllHeard, Describing
<1>4. ASSUME NEW u \in DOMAIN heard
      PROVE  InAWave(u)' \/ IsKept(u)'
  <2>1. CASE InAWave(u)
    BY <1>1, <2>1 DEF InAWave
  <2>2. CASE IsKept(u)
    BY <1>1, <2>2, KeptAre
  <2>3. CASE u \in ToSet(level)
    BY <1>1, <2>3, TablesAreKept
  <2>4. QED
    BY <1>1, <2>1, <2>2, <2>3 DEF Keeping, Crawling
<1>5. Keeping'
  BY <1>1, <1>4 DEF Keeping
<1>6. QED
  BY <1>3, <1>5

(* How many things a list that repeats none holds.                          *)
LEMMA CountedOnce ==
    ASSUME NEW n \in Nat, NEW S, NEW f \in [1..n -> S],
           \A i, j \in 1..n : f[i] = f[j] => i = j,
           \A x \in S : \E i \in 1..n : f[i] = x
    PROVE  Cardinality(S) = n
<1>1. f \in Bijection(1..n, S)
  BY Fun_IsBij
<1>2. ExistsBijection(1..n, S)
  BY <1>1 DEF ExistsBijection
<1>3. QED
  BY <1>2, FS_CountingElements

LEMMA InitIsSound == Init => IsSound
<1> SUFFICES ASSUME Init PROVE IsSound
  OBVIOUS
<1>1. IsSurface(NoSurface)
  <2> DEFINE base == [host |-> Hosts[1], path |-> <<>>, slash |-> FALSE]
             none == <<>>
  <2>1. Hosts \in Seq(STRING) /\ Hosts # <<>>
    BY NamesAssumption DEF OnceEach
  <2>2. 1 \in DOMAIN Hosts
    BY <2>1
  <2>3. Hosts[1] \in ToSet(Hosts)
    BY <2>2 DEF ToSet
  <2>4. <<>> \in Seq(ToSet(Words))
    OBVIOUS
  <2>5. base \in Urls
    BY <2>3, <2>4 DEF Urls
  <2>6. DOMAIN none = {}
    OBVIOUS
  <2>7. NoSurface.base = base /\ NoSurface.maxRequests = 0 /\ NoSurface.serves = none
    BY DEF NoSurface
  <2> HIDE DEF base, none
  <2>8. QED
    BY <2>5, <2>6, <2>7 DEF IsSurface
<1>2. CrawlIsSound
  <2>1. IsFiniteSet({}) /\ Cardinality({}) = 0
    BY FS_EmptySet
  <2>2. NoSurface.maxRequests = 0
    BY DEF NoSurface
  <2>3. /\ surface = NoSurface /\ level = <<>> /\ flying = {} /\ heard = <<>>
        /\ seen = {} /\ asked = 0 /\ found = <<>>
    BY DEF Init
  <2>4. DOMAIN heard = {} /\ DOMAIN found = {} /\ DOMAIN level = {} /\ level \in Seq(Urls)
    BY <2>3
  <2>5. CrawlTyped
    BY <1>1, <2>1, <2>2, <2>3, <2>4 DEF CrawlTyped
  <2>6. Distinct
    BY <2>4 DEF Distinct
  <2>7. OnTheSurface
    BY <2>4 DEF OnTheSurface
  <2>8. QED
    BY <2>5, <2>6, <2>7 DEF CrawlIsSound
<1>3. \A t \in Clients : client[t] = Idle
  BY DEF Init
<1>4. TurnsAre
  <2>1. turn = 0 /\ config \in Configurations
    BY DEF Init
  <2>2. turn \in Nat
    BY <2>1
  <2>3. phase = "idle"
    BY DEF Init
  <2>4. phase \in Crawling \cup {"idle", "registered", "refused"} /\ phase \notin Crawling
    BY <2>3 DEF Crawling
  <2>5. QED
    BY <1>3, <2>1, <2>2, <2>4 DEF TurnsAre
<1>5. RegistryIs
  <2>1. sources = <<>> /\ discovered = {}
    BY DEF Init
  <2>2. DOMAIN sources = {} /\ IsSequence(sources)
    BY <2>1, EmptyIs
  <2>3. QED
    BY <2>1, <2>2 DEF RegistryIs, OnceNamed
<1>6. TablesKept
  <2>1. turn = 0 /\ config \in Configurations
    BY DEF Init
  <2> DEFINE n == Len(config.discover)
             m == Len(config.tables)
  <2>2. n \in Nat /\ m \in Nat /\ DOMAIN config.tables = 1..m
    BY <2>1, ConfigIs
  <2>3. \A i \in DOMAIN config.tables : ~(n + i <= turn)
    <3> HIDE DEF n, m
    <3>1. QED
      BY <2>1, <2>2
  <2>4. QED
    BY <2>3 DEF TablesKept
<1>7. ClientsAre
  <2>1. client = [t \in Clients |-> client[t]]
    BY DEF Init
  <2>2. \A t \in Clients : client[t].at = "idle"
    BY <1>3 DEF Idle
  <2>3. QED
    BY <1>3, <2>1, <2>2 DEF ClientsAre, Busy
<1>8. QED
  BY <1>2, <1>4, <1>5, <1>6, <1>7 DEF IsSound

LEMMA NextIsSound == IsSound /\ [Next]_vars => IsSound'
<1> SUFFICES ASSUME IsSound, [Next]_vars PROVE IsSound'
  OBVIOUS
<1>1. CASE Crawl /\ UNCHANGED <<config, turn, sources, discovered, servedVars>>
  BY <1>1, CrawlKeeps DEF servedVars
<1>2. CASE StartCrawl \/ RegisterDiscovered \/ AddNamed
  BY <1>2, LoadKeeps
<1>3. ASSUME NEW t \in Clients,
             \/ List(t) \/ Shape(t) \/ AskForChildren(t) \/ TestName(t) \/ RegisterChild(t)
             \/ FinishList(t)
             \/ \E name \in NamesIn(sources) \cup {Nameless} : Get(t, name)
             \/ NameWhatIsServed(t, Nameless)
      PROVE  IsSound'
  BY <1>3, ClientKeeps
<1>4. ASSUME NEW name \in NamesIn(sources), Expire(name)
      PROVE  IsSound'
  BY <1>4, ExpireKeeps
<1>5. CASE UNCHANGED vars
  <2>1. UNCHANGED <<surface, phase, level, flying, heard, seen, asked, found, config, turn,
                    sources, discovered, client>>
    BY <1>5 DEF vars
  <2>2. CrawlIsSound'
    BY <2>1, CrawlStays DEF IsSound
  <2>3. TurnsAre'
    BY <2>1 DEF IsSound, TurnsAre, Serving
  <2>4. RegistryIs' /\ TablesKept'
    BY <2>1, RegistryStays DEF IsSound
  <2>5. ClientsAre'
    BY <2>1, ClientsStay DEF IsSound
  <2>6. QED
    BY <2>2, <2>3, <2>4, <2>5 DEF IsSound
<1>6. QED
  BY <1>1, <1>2, <1>3, <1>4, <1>5 DEF Next

(* Whatever is configured, served and asked, in whatever order: the crawl   *)
(* claims each resource once within its budget, the registry holds one      *)
(* source to a name with the tables named among them, and what each thread  *)
(* has listed so far follows the registry.                                  *)
THEOREM Sound == Spec => []IsSound
<1>1. Init => IsSound
  BY InitIsSound
<1>2. IsSound /\ [Next]_vars => IsSound'
  BY NextIsSound
<1>3. QED
  BY <1>1, <1>2, PTL DEF Spec

(* The crawl asks for no resource twice, however it is written, keeps to    *)
(* its budget of requests, and leaves the surface only for what describes   *)
(* it.                                                                      *)
THEOREM AskedOnceOnTheSurface == Spec => []AsksOnceOnTheSurface
<1>1. ASSUME CrawlIsSound PROVE AsksOnceOnTheSurface
  <2>1. DOMAIN heard \subseteq Urls
    BY <1>1 DEF CrawlIsSound, CrawlTyped
  <2>2. \A u, v \in DOMAIN heard : Normalise(u) = Normalise(v) => u = v
    BY <1>1 DEF CrawlIsSound, Distinct
  <2>3. ASSUME NEW u \in DOMAIN heard, NEW v \in DOMAIN heard, u.host = v.host, u.path = v.path
        PROVE  u = v
    <3>1. u \in Urls /\ v \in Urls
      BY <2>1
    <3>2. Normalise(u) = Normalise(v)
      BY <2>3, <3>1 DEF Normalise, Urls
    <3>3. QED
      BY <2>2, <3>2
  <2>4. Cardinality(DOMAIN heard) <= surface.maxRequests
    <3> DEFINE S == DOMAIN heard
               f == [u \in S |-> Normalise(u)]
    <3>1. IsFiniteSet(seen) /\ Cardinality(seen) = asked /\ asked <= surface.maxRequests
          /\ asked \in Nat /\ surface.maxRequests \in Nat
      BY <1>1 DEF CrawlIsSound, CrawlTyped, IsSurface
    <3>2. \A u \in S : Normalise(u) \in seen
      BY <1>1 DEF CrawlIsSound, Distinct
    <3>3. f \in [S -> seen] /\ \A u, v \in S : f[u] = f[v] => u = v
      BY <2>2, <3>2
    <3>4. f \in Injection(S, seen)
      BY <3>3 DEF Injection, IsInjective
    <3>5. IsFiniteSet(S) /\ Cardinality(S) <= Cardinality(seen)
      BY <3>1, <3>4, FS_Injection
    <3>6. Cardinality(S) \in Nat
      BY <3>5, FS_CardinalityType
    <3> HIDE DEF S
    <3>7. Cardinality(S) <= surface.maxRequests
      BY <3>1, <3>5, <3>6
    <3>8. QED
      BY <3>7 DEF S
  <2>5. \A u \in DOMAIN heard : Permitted(u)
    BY <1>1 DEF CrawlIsSound, OnTheSurface
  <2>6. QED
    BY <2>3, <2>4, <2>5 DEF AsksOnceOnTheSurface, Permitted
<1>2. IsSound => AsksOnceOnTheSurface
  BY <1>1 DEF IsSound
<1>3. QED
  BY <1>2, Sound, PTL

(* A table the configuration names is served as it was named, whatever was  *)
(* discovered before it and whatever children the threads register while    *)
(* they list: one source to a name, and no child takes a discovered one.    *)
THEOREM NamesWon == Spec => []NamesWin
<1>1. ASSUME TurnsAre, RegistryIs, TablesKept PROVE NamesWin
  <2>1. ASSUME Serving, NEW i \in DOMAIN config.tables
        PROVE  ToSet(config.tables[i]) \subseteq ToSet(sources)
    <3> DEFINE n == Len(config.discover)
               m == Len(config.tables)
    <3>1. n \in Nat /\ m \in Nat /\ DOMAIN config.tables = 1..m
      BY <1>1, ConfigIs DEF TurnsAre
    <3>2. turn = n + m /\ phase # "refused"
      BY <2>1 DEF Serving
    <3>3. n + i <= turn
      <4>1. turn = n + m
        BY <3>2
      <4> HIDE DEF n, m
      <4>2. QED
        BY <2>1, <3>1, <4>1
    <3>4. QED
      BY <1>1, <3>2, <3>3 DEF TablesKept
  <2>2. ASSUME NEW name \in discovered
        PROVE  name \in NamesIn(sources) /\ Source(name).kind = "http"
    <3>1. name \in NamesIn(sources)
      BY <1>1 DEF RegistryIs
    <3>2. PICK i \in DOMAIN sources : name = sources[i].name
      BY <3>1 DEF NamesIn
    <3>3. sources[i].kind = "http"
      BY <1>1, <3>2 DEF RegistryIs
    <3>4. Source(name) = sources[i]
      BY <1>1, <3>2, SourceIs DEF RegistryIs
    <3>5. QED
      BY <3>1, <3>3, <3>4
  <2>3. Cardinality(NamesIn(sources)) = Len(sources)
    <3> DEFINE n == Len(sources)
               S == NamesIn(sources)
               f == [i \in 1..n |-> sources[i].name]
    <3>1. n \in Nat /\ DOMAIN sources = 1..n
      BY <1>1, SequenceHas DEF RegistryIs
    <3>2. (\A i \in 1..n : sources[i].name \in S)
          /\ \A x \in S : \E i \in 1..n : sources[i].name = x
      BY <3>1 DEF NamesIn
    <3>3. \A i, j \in 1..n : sources[i].name = sources[j].name => i = j
      BY <1>1, <3>1 DEF RegistryIs, OnceNamed
    <3> HIDE DEF n, S
    <3>4. f \in [1..n -> S] /\ (\A i, j \in 1..n : f[i] = f[j] => i = j)
          /\ \A x \in S : \E i \in 1..n : f[i] = x
      BY <3>2, <3>3
    <3> HIDE DEF f
    <3>5. Cardinality(S) = n
      BY <3>1, <3>4, CountedOnce
    <3>6. QED
      BY <3>5 DEF S, n
  <2>4. QED
    BY <2>1, <2>2, <2>3 DEF NamesWin
<1>2. IsSound => NamesWin
  BY <1>1 DEF IsSound
<1>3. QED
  BY <1>2, Sound, PTL

(* A list names each source once and leaves out of what its sources showed  *)
(* only what another thread registered meanwhile; what it names is never    *)
(* answered 208, however long ago it was listed.                            *)
THEOREM EveryTableListed == Spec => []ListsEveryTable
<1>1. ASSUME ClientsAre, NEW t \in Clients
      PROVE  /\ client[t].at = "listed" =>
                  LET names == client[t].names
                  IN /\ Cardinality(ToSet(names)) = Len(names)
                     /\ client[t].shown \subseteq ToSet(names) \cup client[t].others
                     /\ client[t].others = {} =>
                          \A i \in DOMAIN names : sources[i].name = names[i]
             /\ client[t].at \in {"listed", "answered"} =>
                  ToSet(client[t].names) \subseteq NamesIn(sources)
             /\ client[t].at = "answered" =>
                  (client[t].name \in ToSet(client[t].names)
                     => client[t].reply \in {"rows", "50001"})
  <2> DEFINE c == client[t]
             names == c.names
  <2>1. c.at \in {"listed", "answered"} => IsListed(c, sources)
    BY <1>1 DEF ClientsAre
  <2>2. ASSUME c.at = "listed"
        PROVE  Cardinality(ToSet(names)) = Len(names)
    <3> DEFINE n == Len(names)
               S == ToSet(names)
    <3>1. IsSequence(names) /\ \A i, j \in DOMAIN names : names[i] = names[j] => i = j
      BY <2>1, <2>2 DEF IsListed
    <3> HIDE DEF names
    <3>2. n \in Nat /\ DOMAIN names = 1..n /\ names \in Seq(S)
      BY <3>1, SequenceHas
    <3>3. \A x \in S : \E i \in 1..n : names[i] = x
      BY <3>2 DEF ToSet
    <3> HIDE DEF n, S
    <3>4. names \in [1..n -> S]
      BY <3>2
    <3>5. Cardinality(S) = n
      BY <3>1, <3>2, <3>3, <3>4, CountedOnce
    <3>6. QED
      BY <3>5 DEF S, n
  <2>3. c.at = "listed" =>
          /\ c.shown \subseteq ToSet(names) \cup c.others
          /\ c.others = {} => \A i \in DOMAIN names : sources[i].name = names[i]
    BY <2>1 DEF IsListed
  <2>4. c.at \in {"listed", "answered"} => ToSet(names) \subseteq NamesIn(sources)
    BY <2>1 DEF IsListed
  <2>5. c.at = "answered" => (c.name \in ToSet(names) => c.reply \in {"rows", "50001"})
    BY <2>1 DEF IsListed
  <2>6. QED
    BY <2>2, <2>3, <2>4, <2>5
<1>2. IsSound => ListsEveryTable
  BY <1>1 DEF IsSound, ListsEveryTable
<1>3. QED
  BY <1>2, Sound, PTL

(* What is reachable is claimed and what was read is kept, at every step.   *)
IsFull == Reaching /\ Keeping

LEMMA InitIsFull == Init => IsFull
<1> SUFFICES ASSUME Init PROVE IsFull
  OBVIOUS
<1>1. phase = "idle"
  BY DEF Init
<1>2. QED
  BY <1>1 DEF IsFull, Reaching, Keeping, Describing, Crawling

LEMMA StepIsFull ==
    ASSUME IsSound, IsSound', IsFull, Next
    PROVE  IsFull'
<1>1. Reaching /\ Keeping /\ CrawlIsSound /\ CrawlIsSound'
  BY DEF IsFull, IsSound
<1>2. CASE Crawl
  <2>1. CASE Send
    <3>1. UNCHANGED <<surface, phase, level, heard, seen, asked, found, depth, early>>
      BY <2>1 DEF Send
    <3>2. QED
      BY <1>1, <3>1, FullStays DEF IsFull
  <2>2. CASE Hear
    BY <1>1, <2>2, HearIsFull DEF IsFull
  <2>3. CASE Describe
    BY <1>1, <2>3, DescribeIsFull DEF IsFull
  <2>4. CASE TakeDescribed
    BY <1>1, <2>4, TakeDescribedIsFull DEF IsFull
  <2>5. CASE Walk
    BY <1>1, <2>5, WalkIsFull DEF IsFull
  <2>6. CASE TakeGuesses
    BY <1>1, <2>6, TakeGuessesIsFull DEF IsFull
  <2>7. QED
    BY <1>2, <2>1, <2>2, <2>3, <2>4, <2>5, <2>6 DEF Crawl
<1>3. CASE StartCrawl
  <2>1. turn < Len(config.discover) /\ Starts(config.discover[turn + 1].at)
    BY <1>3 DEF StartCrawl
  <2>2. turn \in Nat /\ config \in Configurations
    BY DEF IsSound, TurnsAre
  <2>3. turn + 1 \in 1..Len(config.discover)
    <3>1. Len(config.discover) \in Nat
      BY <2>2, ConfigIs
    <3>2. QED
      BY <2>1, <2>2, <3>1
  <2>4. IsSurface(config.discover[turn + 1].at)
    BY <2>2, <2>3, ConfigIs
  <2>5. QED
    BY <2>1, <2>4, StartsIsFull DEF IsFull
<1>4. CASE RegisterDiscovered \/ AddNamed
  <2>1. phase' \in {"registered", "refused"}
    BY <1>4 DEF RegisterDiscovered, AddNamed
  <2>2. QED
    BY <2>1 DEF IsFull, Reaching, Keeping, Describing, Crawling
<1>5. ASSUME UNCHANGED <<surface, phase, level, heard, seen, asked, found, depth, early>>
      PROVE  IsFull'
  BY <1>1, <1>5, FullStays DEF IsFull
<1>6. ASSUME NEW t \in Clients,
             \/ List(t) \/ Shape(t) \/ AskForChildren(t) \/ TestName(t) \/ RegisterChild(t)
             \/ FinishList(t)
             \/ \E name \in NamesIn(sources) \cup {Nameless} : Get(t, name)
             \/ NameWhatIsServed(t, Nameless)
      PROVE  UNCHANGED <<surface, phase, level, heard, seen, asked, found, depth, early>>
  <2>1. CASE List(t)
    BY <2>1 DEF List
  <2>2. CASE Shape(t)
    BY <2>2 DEF Shape
  <2>3. CASE AskForChildren(t)
    BY <2>3 DEF AskForChildren
  <2>4. CASE TestName(t)
    BY <2>4 DEF TestName
  <2>5. CASE RegisterChild(t)
    BY <2>5 DEF RegisterChild
  <2>6. CASE FinishList(t)
    BY <2>6 DEF FinishList
  <2>7. CASE \E name \in NamesIn(sources) \cup {Nameless} : Get(t, name)
    BY <2>7 DEF Get
  <2>8. CASE NameWhatIsServed(t, Nameless)
    BY <2>8 DEF NameWhatIsServed
  <2>9. QED
    BY <1>6, <2>1, <2>2, <2>3, <2>4, <2>5, <2>6, <2>7, <2>8
<1>7. ASSUME NEW name \in NamesIn(sources), Expire(name)
      PROVE  IsFull'
  BY <1>5, <1>7 DEF Expire
<1>8. QED
  BY <1>2, <1>3, <1>4, <1>5, <1>6, <1>7 DEF Next

LEMMA NextIsFull == IsSound /\ IsSound' /\ IsFull /\ [Next]_vars => IsFull'
<1>1. ASSUME IsFull, UNCHANGED vars
      PROVE  IsFull'
  BY <1>1, FullStays DEF IsFull, vars
<1>2. QED
  BY <1>1, StepIsFull

(* What was read is a table of the registry's, by its URL.                  *)
LEMMA KeptIsCollected ==
    ASSUME CrawlTyped, NEW u \in DOMAIN found, IsTable(found[u].document)
    PROVE  \E r \in ToSet(Collected) : r.url = u
<1> DEFINE S == {url \in DOMAIN found : IsTable(found[url].document)}
           urls == Alphabetical(S)
<1>1. S \subseteq Urls /\ IsFiniteSet(S) /\ u \in S
  <2>1. S \subseteq DOMAIN found /\ IsFiniteSet(DOMAIN found) /\ u \in S
    BY DEF CrawlTyped
  <2>2. IsFiniteSet(S)
    BY <2>1, FS_Subset
  <2>3. QED
    BY <2>1, <2>2 DEF CrawlTyped
<1>2. PICK name : Collected = [k \in DOMAIN urls |->
          [name |-> name[k], url |-> urls[k], route |-> found[urls[k]].route,
           primed |-> ~found[urls[k]].document.paged,
           arrays |-> found[urls[k]].document.arrays]]
  BY Zenon DEF Collected
<1> HIDE DEF S
<1>3. PICK k \in DOMAIN urls : urls[k] = u
  BY <1>1, AlphabeticalIs
<1> HIDE DEF urls
<1>4. k \in DOMAIN Collected /\ Collected[k].url = u
  BY <1>2, <1>3
<1>5. QED
  BY <1>4 DEF ToSet

(* A crawl that ends with requests to spare has claimed all it could reach  *)
(* within its depth and registers every table it read: the order of the     *)
(* answers, a read that failed and what a description claimed first take    *)
(* nothing else away.                                                       *)
THEOREM EverythingReachableAsked == Spec => []ReachableIsAsked
<1>1. Init => IsSound /\ IsFull
  BY InitIsSound, InitIsFull
<1>2. IsSound /\ IsFull /\ [Next]_vars => IsSound' /\ IsFull'
  BY NextIsSound, NextIsFull
<1>3. ASSUME CrawlIsSound, Reaching, Keeping PROVE ReachableIsAsked
  <2> SUFFICES ASSUME phase = "done", InTime
               PROVE  /\ Reachable \subseteq seen
                      /\ \A u \in DOMAIN heard :
                           (IsTable(heard[u]) /\ ~IsIndex(heard[u])
                              /\ \A n \in 1..2 : u \notin ToSet(DescriptionWave(n, surface.base)))
                           => \E r \in ToSet(Collected) : r.url = u
    BY DEF ReachableIsAsked, InTime
  <2>1. CrawlTyped
    BY <1>3 DEF CrawlIsSound
  <2>2. Reachable \subseteq seen
    <3>1. PICK L : IsEnded(L)
      BY <1>3 DEF Reaching
    <3>2. IsChain(L, MaxDepth) /\ MaxDepth \in 0..MaxDepth
      BY <3>1, LimitsAssumption DEF IsEnded
    <3>3. L[MaxDepth] \subseteq seen
      BY <3>2 DEF IsChain
    <3>4. QED
      BY <2>1, <3>2, <3>3, ChainReaches
  <2>3. ASSUME NEW u \in DOMAIN heard, IsTable(heard[u]), ~IsIndex(heard[u]),
               \A n \in 1..2 : u \notin ToSet(DescriptionWave(n, surface.base))
        PROVE  \E r \in ToSet(Collected) : r.url = u
    <3>1. IsKept(u)
      BY <1>3, <2>3 DEF Keeping, Crawling, InAWave
    <3>2. u \in DOMAIN found /\ IsTable(found[u].document)
      BY <2>3, <3>1 DEF IsKept
    <3>3. QED
      BY <2>1, <3>2, KeptIsCollected
  <2>4. QED
    BY <2>2, <2>3
<1>4. IsSound /\ IsFull => ReachableIsAsked
  BY <1>3 DEF IsSound, IsFull
<1>5. QED
  BY <1>1, <1>2, <1>4, PTL DEF Spec
=============================================================================
