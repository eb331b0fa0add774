------------------------------ MODULE PagingProofs ------------------------------
(***************************************************************************)
(* What holds of HttpPaging for every collection, every number of mirrors, *)
(* permits, page workers and failures, and every limit on pages and rows:  *)
(* a read is a read of the collection, and reading ahead does it no harm.  *)
(***************************************************************************)
EXTENDS HttpPaging, WellFoundedInduction, NaturalsInduction, SequenceTheorems,
        TLAPS

-------------------------------------------------------------------------------
(* The pages from the first on.                                            *)

FirstPages(n) == [i \in 1 .. n |-> i]

LEMMA FirstPagesAre ==
    ASSUME NEW n \in Nat
    PROVE  /\ FirstPages(n) \in Seq(Nat \ {0}) /\ Len(FirstPages(n)) = n
           /\ n > 0 => FirstPages(n)[n] = n
           /\ n > 0 <=> FirstPages(n) # <<>>
           /\ Append(FirstPages(n), n + 1) = FirstPages(n + 1)
           /\ FirstPages(0) = <<>> /\ FirstPages(1) = <<1>>
<1>1. FirstPages(n) \in Seq(Nat \ {0}) /\ Len(FirstPages(n)) = n
  BY DEF FirstPages
<1>2. (n > 0 => FirstPages(n)[n] = n) /\ (n > 0 <=> FirstPages(n) # <<>>)
  BY <1>1 DEF FirstPages
<1>3. Append(FirstPages(n), n + 1) = FirstPages(n + 1)
  BY <1>1 DEF FirstPages
<1>4. FirstPages(0) = <<>> /\ FirstPages(1) = <<1>>
  BY DEF FirstPages
<1>5. QED
  BY <1>1, <1>2, <1>3, <1>4

LEMMA ConcatenationIs ==
    ASSUME NEW f \in Seq(Nat), NEW g \in Seq(Nat), NEW h \in Seq(Nat),
           Len(h) = Len(f) + Len(g),
           \A i \in 1 .. Len(h) : h[i] = IF i <= Len(f) THEN f[i] ELSE g[i - Len(f)]
    PROVE  f \o g = h
<1>1. /\ f \o g \in Seq(Nat) /\ Len(f \o g) = Len(f) + Len(g)
      /\ \A i \in 1 .. Len(f) + Len(g) :
            (f \o g)[i] = IF i <= Len(f) THEN f[i] ELSE g[i - Len(f)]
  BY ConcatProperties
<1>2. Len(f \o g) = Len(h) /\ \A i \in 1 .. Len(h) : (f \o g)[i] = h[i]
  BY <1>1
<1>3. QED
  BY <1>1, <1>2, SeqEqual

LEMMA FurtherPages ==
    ASSUME NEW n \in Nat, NEW k \in Nat, NEW further, further = [i \in 1 .. k |-> n + i]
    PROVE  FirstPages(n) \o further = FirstPages(n + k)
<1>1. further \in Seq(Nat) /\ Len(further) = k /\ \A i \in 1 .. k : further[i] = n + i
  OBVIOUS
<1>2. \A m \in Nat : /\ FirstPages(m) \in Seq(Nat) /\ Len(FirstPages(m)) = m
                     /\ \A i \in 1 .. m : FirstPages(m)[i] = i
  BY DEF FirstPages
<1>3. n + k \in Nat
  OBVIOUS
<1>4. \A i \in 1 .. n + k :
         FirstPages(n + k)[i] = IF i <= n THEN FirstPages(n)[i] ELSE further[i - n]
  <2>1. SUFFICES ASSUME NEW i \in 1 .. n + k
                 PROVE  i = IF i <= n THEN FirstPages(n)[i] ELSE further[i - n]
    BY <1>2, <1>3
  <2>2. CASE i <= n
    BY <1>2, <2>2
  <2>3. CASE i > n
    <3>1. i - n \in 1 .. k
      BY <2>3
    <3>2. QED
      BY <1>1, <2>3, <3>1
  <2>4. QED
    BY <2>2, <2>3
<1>5. /\ FirstPages(n) \in Seq(Nat) /\ FirstPages(n + k) \in Seq(Nat)
      /\ Len(FirstPages(n + k)) = Len(FirstPages(n)) + Len(further)
      /\ \A i \in 1 .. Len(FirstPages(n + k)) :
            FirstPages(n + k)[i] = IF i <= Len(FirstPages(n)) THEN FirstPages(n)[i]
                                   ELSE further[i - Len(FirstPages(n))]
  BY <1>1, <1>2, <1>3, <1>4
<1> HIDE DEF FirstPages
<1>6. QED
  BY <1>1, <1>5, ConcatenationIs, Zenon

(* Multiplication, by which rows are counted.                              *)
LEMMA TimesGrows ==
    ASSUME NEW r \in Nat, NEW a \in Nat, NEW b \in Nat, a <= b
    PROVE  a * r <= b * r /\ a * r \in Nat /\ b * r \in Nat
<1>1. PICK d \in Nat : b = a + d
  <2>1. b - a \in Nat /\ b = a + (b - a)
    OBVIOUS
  <2>2. QED
    BY <2>1
<1>2. b * r = a * r + d * r /\ d * r \in Nat /\ a * r \in Nat
  BY <1>1
<1>3. QED
  BY <1>2

LEMMA DividingIsPositive ==
    ASSUME NEW a \in Nat, NEW b \in Nat, b > 0, a >= b
    PROVE  a \div b # 0
  OBVIOUS

LEMMA CeilIsPositive ==
    ASSUME NEW a \in Nat, a > 0, NEW b \in Nat, b > 0
    PROVE  Ceil(a, b) # 0
<1>1. a + b - 1 \in Nat /\ a + b - 1 >= b
  OBVIOUS
<1>2. QED
  BY <1>1, DividingIsPositive DEF Ceil

LEMMA CeilIsNatural ==
    ASSUME NEW a \in Nat, NEW b \in Nat, b > 0
    PROVE  Ceil(a, b) \in Nat
<1>1. a + b - 1 \in Nat
  OBVIOUS
<1>2. QED
  BY <1>1 DEF Ceil

-------------------------------------------------------------------------------
(* The inductive invariant: what is read is the first pages, the next URL  *)
(* is that of the page after them, and the requests are for those that     *)
(* follow, each failed for a reason.                                       *)

Stages == {"race", "serial", "ahead"} \cup Ended
States == Asked \cup Closed \cup {"cancelled"}
Going(s) == stage[s] \in {"serial", "ahead"}

Call == [page : Nat, at : Asked \cup Closed]

Typed ==
    /\ api \in [Sources -> Api] /\ \A s \in Sources : api[s].last <= api[s].rows
    /\ stage \in [Sources -> Stages]
    /\ race = [s \in Sources |-> race[s]]
    /\ \A s \in Sources : race[s] \in [Urls[s] -> States]
    /\ read \in [Sources -> Seq(Nat \ {0})]
    /\ following \in [Sources -> Nat]
    /\ calls \in [Sources -> Seq(Call)]
    /\ warned \in [Sources -> BOOLEAN] /\ missed \in [Sources -> BOOLEAN]
    /\ faults \in Nat

InOrder(s) ==
    /\ Len(read[s]) <= api[s].pages
    /\ read[s] = FirstPages(Len(read[s]))
    /\ stage[s] = "race" => Len(read[s]) = 0
    /\ Going(s) => Len(read[s]) > 0 /\ following[s] = Follow(s, Len(read[s]))
    /\ stage[s] = "serial" /\ Strided(s) => Len(read[s]) = 1

(* Why a request for a page may have failed.                               *)
Excused(s, call) ==
    /\ call.at = "failed" =>
         \/ faults > 0 /\ (stage[s] = "ahead" /\ Exists(s, call.page) => missed[s])
         \/ ~Exists(s, call.page) /\ api[s].past = "refused"
    /\ call.at = "odd" => ~Exists(s, call.page) /\ api[s].past = "odd"

Fetching(s) ==
    /\ calls[s] # <<>> => Going(s) /\ following[s] # NoPage
    /\ stage[s] = "serial" => Len(calls[s]) <= 1
    /\ \A i \in DOMAIN calls[s] :
         calls[s][i].page = Len(read[s]) + i /\ Excused(s, calls[s][i])

Racing(s) == \A h \in Urls[s] : race[s][h] \in {"failed", "odd"} => faults > 0

Harmless(s) ==
    stage[s] = "error" =>
        \/ faults > 0
        \/ AllRows(s) > MaxRows
        \/ api[s].past = "odd"
        \/ api[s].pages = 1 /\ api[s].link = "echoed" /\ api[s].past = "refused"

SourceInv(s) == InOrder(s) /\ Fetching(s) /\ Racing(s) /\ Harmless(s)

IInv == Typed /\ \A s \in Sources : SourceInv(s)

(* What a step of one source leaves of another.                            *)
Same(s) ==
    /\ stage'[s] = stage[s] /\ race'[s] = race[s] /\ read'[s] = read[s]
    /\ following'[s] = following[s] /\ calls'[s] = calls[s]
    /\ warned'[s] = warned[s] /\ missed'[s] = missed[s]

LEMMA SameIsSafe ==
    ASSUME IInv, NEW s \in Sources, Same(s), api' = api, faults' \in Nat, faults' >= faults
    PROVE  SourceInv(s)'
<1>1. faults \in Nat
  BY DEF IInv, Typed
<1>2. InOrder(s)'
  BY DEF IInv, SourceInv, Same, InOrder, Going, Follow, Strided
<1>3. Fetching(s)'
  BY <1>1 DEF IInv, SourceInv, Same, Fetching, Going, Excused, Exists
<1>4. Racing(s)'
  BY <1>1 DEF IInv, SourceInv, Same, Racing
<1>5. Harmless(s)'
  <2>1. AllRows(s)' = AllRows(s)
    BY DEF AllRows
  <2>2. faults > 0 => faults' > 0
    BY <1>1
  <2>3. QED
    BY <2>1, <2>2 DEF IInv, SourceInv, Same, Harmless
<1>6. QED
  BY <1>2, <1>3, <1>4, <1>5 DEF SourceInv

LEMMA OneSource ==
    ASSUME IInv, NEW s \in Sources, Typed', api' = api, faults' >= faults,
           \A t \in Sources \ {s} : Same(t), SourceInv(s)'
    PROVE  IInv'
<1>1. faults' \in Nat
  BY DEF Typed
<1>2. \A t \in Sources : SourceInv(t)'
  BY <1>1, SameIsSafe
<1>3. QED
  BY <1>2 DEF IInv

(* The rows of the first pages, and of all of them.                        *)
LEMMA RowsFit ==
    ASSUME IInv, NEW s \in Sources, NEW m \in Nat, m > 0, m <= api[s].pages
    PROVE  /\ Rows(s, FirstPages(m)) \in Nat /\ AllRows(s) \in Nat
           /\ Rows(s, FirstPages(m)) <= AllRows(s)
           /\ m < api[s].pages => Rows(s, FirstPages(m)) < AllRows(s)
           /\ Rows(s, FirstPages(m)) > 0
<1> DEFINE r == api[s].rows
           l == api[s].last
           p == api[s].pages
<1>1. r \in Nat /\ l \in Nat /\ p \in Nat /\ p > 0 /\ l > 0 /\ l <= r
  BY PagingAssumption DEF IInv, Typed, Api
<1>2. Rows(s, FirstPages(m)) = (m - 1) * r + (IF m = p THEN l ELSE r)
  BY FirstPagesAre DEF Rows
<1>3. AllRows(s) = (p - 1) * r + l
  BY DEF AllRows
<1> HIDE DEF r, l, p
<1>4. m - 1 \in Nat /\ p - 1 \in Nat /\ m <= p
  BY <1>1 DEF p
<1>5. (m - 1) * r \in Nat /\ (p - 1) * r \in Nat
  BY <1>1, <1>4, TimesGrows
<1>6. CASE m = p
  <2>1. Rows(s, FirstPages(m)) = (p - 1) * r + l
    BY <1>2, <1>6
  <2>2. QED
    BY <1>1, <1>3, <1>5, <1>6, <2>1 DEF p
<1>7. CASE m < p
  <2>1. m * r <= (p - 1) * r /\ m * r \in Nat
    BY <1>1, <1>4, <1>7, TimesGrows
  <2>2. m * r = (m - 1) * r + r
    BY <1>1
  <2>3. QED
    BY <1>1, <1>2, <1>3, <1>5, <1>7, <2>1, <2>2 DEF p
<1>8. QED
  BY <1>1, <1>4, <1>6, <1>7

(* A declared total leaves room for a page while there is one.             *)
LEMMA RoomForMore ==
    ASSUME IInv, NEW s \in Sources, Going(s), More(s), Len(read[s]) < api[s].pages
    PROVE  Room(s) # 0
<1> DEFINE n == Len(read[s])
<1>1. n \in Nat /\ n > 0 /\ read[s] = FirstPages(n) /\ n < MaxPages /\ api[s].pages \in Nat
  BY DEF IInv, Typed, SourceInv, InOrder, More, Api
<1>2. Rows(s, FirstPages(n)) \in Nat /\ AllRows(s) \in Nat /\ Rows(s, FirstPages(n)) < AllRows(s)
  BY <1>1, RowsFit
<1>3. Rows(s, <<1>>) \in Nat /\ Rows(s, <<1>>) > 0
  <2>1. 1 \in Nat /\ 1 <= api[s].pages /\ 1 > 0
    BY <1>1
  <2>2. Rows(s, FirstPages(1)) \in Nat /\ Rows(s, FirstPages(1)) > 0
    BY <2>1, RowsFit
  <2>3. FirstPages(1) = <<1>>
    BY FirstPagesAre, <2>1
  <2>4. QED
    BY <2>2, <2>3
<1> HIDE DEF n
<1>4. AllRows(s) - Rows(s, read[s]) \in Nat /\ AllRows(s) - Rows(s, read[s]) > 0
      /\ AllRows(s) > Rows(s, read[s])
  BY <1>1, <1>2
<1>5. Ceil(AllRows(s) - Rows(s, read[s]), Rows(s, <<1>>)) # 0
  BY <1>3, <1>4, CeilIsPositive
<1>6. MaxPages - n # 0
  BY <1>1, PagingAssumption
<1>7. QED
  BY <1>4, <1>5, <1>6 DEF Room, n

LEMMA RoomIsANumber ==
    ASSUME IInv, NEW s \in Sources, Going(s), More(s)
    PROVE  Room(s) \in Nat
<1> DEFINE n == Len(read[s])
<1>1. /\ n \in Nat /\ n > 0 /\ n <= api[s].pages /\ read[s] = FirstPages(n)
      /\ n < MaxPages /\ api[s].pages \in Nat
  BY DEF IInv, Typed, SourceInv, InOrder, More, Api
<1>2. /\ Rows(s, FirstPages(n)) \in Nat /\ AllRows(s) \in Nat
      /\ Rows(s, FirstPages(n)) <= AllRows(s)
  BY <1>1, RowsFit
<1>3. Rows(s, <<1>>) \in Nat /\ Rows(s, <<1>>) > 0
  <2>1. 1 \in Nat /\ 1 <= api[s].pages /\ 1 > 0
    BY <1>1
  <2>2. Rows(s, FirstPages(1)) \in Nat /\ Rows(s, FirstPages(1)) > 0
    BY <2>1, RowsFit
  <2>3. FirstPages(1) = <<1>>
    BY FirstPagesAre, <2>1
  <2>4. QED
    BY <2>2, <2>3
<1> DEFINE left == IF AllRows(s) > Rows(s, read[s]) THEN AllRows(s) - Rows(s, read[s])
                   ELSE 0
<1>4. left \in Nat
  BY <1>1, <1>2
<1> HIDE DEF left, n
<1>5. Ceil(left, Rows(s, <<1>>)) \in Nat
  BY <1>3, <1>4, CeilIsNatural
<1>6. MaxPages - n \in Nat
  BY <1>1, PagingAssumption
<1>7. QED
  BY <1>5, <1>6 DEF Room, n, left

-------------------------------------------------------------------------------
(* What is taken of a batch: the pages that follow those read, up to the   *)
(* first that is not one.                                                  *)

TakenUpTo(s, n) ==
    /\ n \in 0 .. Len(calls[s])
    /\ \A i \in 1 .. n : New(s, i)
    /\ \A i \in 1 .. n - 1 : Follow(s, calls[s][i].page) # NoPage
    /\ \/ n = Len(calls[s])
       \/ ~New(s, n + 1)
       \/ n > 0 /\ Follow(s, calls[s][n].page) = NoPage

LEMMA SmallestNumber ==
    ASSUME NEW S, S \subseteq Nat, NEW x \in S
    PROVE  \E m \in S : \A k \in Nat : k < m => k \notin S
<1>1. PICK m \in S : \A y \in S : ~(<<y, m>> \in OpToRel(<, Nat))
  BY NatLessThanWellFounded, WFMin
<1>2. \A k \in Nat : k < m => k \notin S
  BY <1>1 DEF OpToRel
<1>3. QED
  BY <1>2

LEMMA TakenIs ==
    ASSUME IInv, NEW s \in Sources
    PROVE  TakenUpTo(s, Taken(s))
<1> DEFINE len == Len(calls[s])
           Stops(n) == \/ n = len
                       \/ ~New(s, n + 1)
                       \/ n > 0 /\ Follow(s, calls[s][n].page) = NoPage
           S == {n \in 0 .. len : Stops(n)}
<1>1. len \in Nat
  BY DEF IInv, Typed
<1>2. len \in S /\ S \subseteq Nat
  BY <1>1
<1> HIDE DEF S
<1>3. PICK m \in S : \A k \in Nat : k < m => k \notin S
  BY <1>2, SmallestNumber
<1>4. m \in 0 .. len /\ Stops(m) /\ \A k \in 0 .. len : k < m => ~Stops(k)
  BY <1>1, <1>3 DEF S
<1> HIDE DEF len
<1>5. \A i \in 1 .. m : New(s, i)
  <2>1. SUFFICES ASSUME NEW i \in 1 .. m PROVE New(s, i)
    OBVIOUS
  <2>2. i - 1 \in 0 .. len /\ i - 1 < m /\ (i - 1) + 1 = i
    BY <1>1, <1>4
  <2>3. QED
    BY <1>4, <2>2
<1>6. \A i \in 1 .. m - 1 : Follow(s, calls[s][i].page) # NoPage
  <2>1. SUFFICES ASSUME NEW i \in 1 .. m - 1
                 PROVE  Follow(s, calls[s][i].page) # NoPage
    OBVIOUS
  <2>2. i \in 0 .. len /\ i < m /\ i > 0
    BY <1>1, <1>4
  <2>3. QED
    BY <1>4, <2>2
<1>7. TakenUpTo(s, m)
  BY <1>4, <1>5, <1>6 DEF TakenUpTo, len
<1>8. QED
  BY <1>7 DEF TakenUpTo, Taken

(* A new page of a batch is the next one of the collection.                *)
LEMMA BatchIs ==
    ASSUME IInv, NEW s \in Sources, stage[s] = "ahead", NEW n \in Nat,
           n <= Len(calls[s]), \A i \in 1 .. n : New(s, i),
           \A i \in DOMAIN calls[s] : calls[s][i].at \in {"answered", "failed"}
    PROVE  /\ \A i \in 1 .. n : Page(s, i) = Len(read[s]) + i
           /\ Len(read[s]) + n <= api[s].pages
<1> DEFINE len == Len(read[s])
           p == api[s].pages
<1>1. /\ len \in Nat /\ len > 0 /\ len <= p /\ p \in Nat /\ read[s][len] = len
      /\ Len(calls[s]) \in Nat /\ DOMAIN calls[s] = 1 .. Len(calls[s])
      /\ \A i \in 1 .. n : i \in DOMAIN calls[s] /\ calls[s][i].page = len + i
  <2>1. len \in Nat /\ len > 0 /\ read[s] = FirstPages(len) /\ p \in Nat /\ len <= p
    BY DEF IInv, Typed, SourceInv, InOrder, Going, Api
  <2>2. read[s][len] = len
    BY <2>1, FirstPagesAre
  <2>3. Len(calls[s]) \in Nat /\ DOMAIN calls[s] = 1 .. Len(calls[s])
    BY DEF IInv, Typed
  <2>4. \A i \in DOMAIN calls[s] : calls[s][i].page = len + i
    BY DEF IInv, SourceInv, Fetching
  <2>5. QED
    BY <2>1, <2>2, <2>3, <2>4
<1> HIDE DEF len, p
<1>2. \A i \in 1 .. n : Page(s, i) = Content(s, len + i)
  BY <1>1 DEF New, Page
<1>3. \A i \in 1 .. n : Before(s, i) = IF i = 1 THEN len ELSE Content(s, len + (i - 1))
  <2>1. SUFFICES ASSUME NEW i \in 1 .. n, i # 1
                 PROVE  Page(s, i - 1) = Content(s, len + (i - 1))
    BY <1>1 DEF Before, len
  <2>2. i - 1 \in 1 .. n
    BY <2>1
  <2>3. QED
    BY <1>2, <2>2
<1>4. \A i \in 1 .. n : len + i <= p
  <2>1. SUFFICES ASSUME NEW i \in 1 .. n, ~(len + i <= p) PROVE FALSE
    OBVIOUS
  <2>2. Content(s, len + i) # NoPage
    BY <1>2 DEF New
  <2>3. api[s].past = "repeated"
    BY <1>1, <2>1, <2>2 DEF Content, Exists, p
  <2> DEFINE j == p - len + 1
  <2>4. j \in 1 .. n /\ len + j = p + 1
    BY <1>1, <2>1
  <2>5. Page(s, j) = p
    <3>1. Content(s, len + j) = p
      BY <1>1, <2>3, <2>4 DEF Content, Exists, p
    <3>2. QED
      BY <1>2, <2>4, <3>1
  <2>6. Before(s, j) = p
    <3>1. CASE j = 1
      BY <1>1, <1>3, <2>4, <3>1
    <3>2. CASE j # 1
      <4>1. len + (j - 1) = p
        BY <1>1
      <4>2. Content(s, p) = p
        BY <1>1 DEF Content, Exists, p
      <4>3. QED
        BY <1>3, <2>4, <3>2, <4>1, <4>2
    <3>3. QED
      BY <3>1, <3>2
  <2>7. QED
    BY <2>4, <2>5, <2>6 DEF New
<1>5. \A i \in 1 .. n : Page(s, i) = len + i
  BY <1>2, <1>4 DEF Content, Exists, p
<1>6. len + n <= p
  BY <1>1, <1>4
<1>7. QED
  BY <1>5, <1>6 DEF len, p

-------------------------------------------------------------------------------
(* The four ways a source's reader moves on, each a step of CollectionRead.*)

Kept == UNCHANGED <<api, race, faults, missed>>

LEMMA NothingAsked ==
    ASSUME NEW R, NEW f \in [Sources -> Seq(R)], NEW s \in Sources
    PROVE  [f EXCEPT ![s] = <<>>] \in [Sources -> Seq(R)]
<1>1. <<>> \in Seq(R)
  OBVIOUS
<1>2. QED
  BY <1>1

LEMMA Finishing ==
    ASSUME IInv, NEW s \in Sources, Going(s), NEW n \in Nat, Len(read[s]) <= n,
           n <= api[s].pages, NEW more \in BOOLEAN, Finish(s, FirstPages(n), more),
           ~more /\ ~missed[s] => n = api[s].pages, Kept,
           calls' = [calls EXCEPT ![s] = <<>>]
    PROVE  IInv' /\ Abstract!Read(s)
<1>1. /\ api[s].pages \in Nat /\ Len(read[s]) \in Nat /\ Len(read[s]) > 0 /\ n > 0
      /\ FirstPages(n) \in Seq(Nat \ {0}) /\ Len(FirstPages(n)) = n
  <2>1. api[s].pages \in Nat /\ Len(read[s]) \in Nat /\ Len(read[s]) > 0 /\ n > 0
    BY DEF IInv, Typed, Api, SourceInv, InOrder
  <2>2. FirstPages(n) \in Seq(Nat \ {0}) /\ Len(FirstPages(n)) = n
    BY FirstPagesAre
  <2>3. QED
    BY <2>1, <2>2
<1>2. Typed'
  <2>1. stage' \in [Sources -> Stages] /\ read' \in [Sources -> Seq(Nat \ {0})]
    BY <1>1 DEF IInv, Typed, Finish, Becomes, Stages, Ended
  <2>2. following' \in [Sources -> Nat] /\ warned' \in [Sources -> BOOLEAN]
    BY DEF IInv, Typed, Finish
  <2>3. calls' \in [Sources -> Seq(Call)]
    BY NothingAsked DEF IInv, Typed
  <2>4. QED
    BY <2>1, <2>2, <2>3 DEF IInv, Typed, Kept
<1>3. /\ read'[s] = FirstPages(n) /\ calls'[s] = <<>> /\ warned'[s] = more
      /\ stage'[s] = IF Rows(s, FirstPages(n)) > MaxRows THEN "error" ELSE "table"
  BY DEF IInv, Typed, Finish, Becomes
<1>4. SourceInv(s)'
  <2>1. InOrder(s)'
    BY <1>1, <1>3 DEF InOrder, Going, Kept
  <2>2. Fetching(s)'
    BY <1>3 DEF Fetching, Going
  <2>3. Racing(s)'
    BY DEF IInv, SourceInv, Racing, Kept
  <2>4. Harmless(s)'
    <3>1. AllRows(s)' = AllRows(s)
      BY DEF AllRows, Kept
    <3>2. /\ Rows(s, FirstPages(n)) \in Nat /\ AllRows(s) \in Nat
          /\ Rows(s, FirstPages(n)) <= AllRows(s)
      BY <1>1, RowsFit
    <3>3. Rows(s, FirstPages(n)) > MaxRows => AllRows(s) > MaxRows
      BY <3>2, PagingAssumption
    <3>4. QED
      BY <1>3, <3>1, <3>3 DEF Harmless
  <2>5. QED
    BY <2>1, <2>2, <2>3, <2>4 DEF SourceInv
<1>5. IInv'
  <2>1. \A t \in Sources \ {s} : Same(t)
    BY DEF IInv, Typed, Finish, Becomes, Same, Kept
  <2>2. api' = api /\ faults' >= faults
    BY DEF IInv, Typed, Kept
  <2>3. QED
    BY <1>2, <1>4, <2>1, <2>2, OneSource
<1>6. Abstract!Read(s)
  <2>1. Outcome(s) = "reading"
    BY DEF Going, Outcome
  <2>2. /\ Outcome(s)' \in {"whole", "part", "failed"}
        /\ Outcome(s)' = "whole" => n = api[s].pages
    BY <1>3 DEF Outcome, Kept
  <2>3. \A t \in Sources \ {s} : Outcome(t)' = Outcome(t)
    BY DEF IInv, Typed, Finish, Becomes, Outcome, Kept
  <2>4. [t \in Sources |-> Outcome(t)]' =
           [[t \in Sources |-> Outcome(t)] EXCEPT ![s] = Outcome(s)']
    BY <2>3
  <2>5. read' = [read EXCEPT ![s] = [i \in 1 .. n |-> i]]
    BY DEF Finish, FirstPages
  <2>6. [t \in Sources |-> api[t].pages]' = [t \in Sources |-> api[t].pages]
    BY DEF Kept
  <2>7. n \in Len(read[s]) .. [t \in Sources |-> api[t].pages][s]
    BY <1>1
  <2>8. QED
    BY <2>1, <2>2, <2>4, <2>5, <2>6, <2>7
       DEF Abstract!Read, Abstract!FirstPages
<1>7. QED
  BY <1>5, <1>6

LEMMA GoingOn ==
    ASSUME IInv, NEW s \in Sources, Going(s), NEW n \in Nat, Len(read[s]) <= n,
           n <= api[s].pages, NEW mode \in {"serial", "ahead"},
           GoOn(s, FirstPages(n), Follow(s, n), mode),
           mode = "serial" /\ Strided(s) => n = 1, Kept,
           calls' = [calls EXCEPT ![s] = <<>>]
    PROVE  IInv' /\ Abstract!Read(s)
<1>1. /\ api[s].pages \in Nat /\ Len(read[s]) \in Nat /\ Len(read[s]) > 0 /\ n > 0
      /\ FirstPages(n) \in Seq(Nat \ {0}) /\ Len(FirstPages(n)) = n
      /\ Follow(s, n) \in Nat
  <2>1. api[s].pages \in Nat /\ Len(read[s]) \in Nat /\ Len(read[s]) > 0 /\ n > 0
    BY DEF IInv, Typed, Api, SourceInv, InOrder
  <2>2. FirstPages(n) \in Seq(Nat \ {0}) /\ Len(FirstPages(n)) = n
    BY FirstPagesAre
  <2>3. Follow(s, n) \in Nat
    BY DEF Follow, NoPage
  <2>4. QED
    BY <2>1, <2>2, <2>3
<1>2. Typed'
  <2>1. stage' \in [Sources -> Stages] /\ read' \in [Sources -> Seq(Nat \ {0})]
    BY <1>1 DEF IInv, Typed, GoOn, Becomes, Stages, Ended
  <2>2. following' \in [Sources -> Nat] /\ warned' \in [Sources -> BOOLEAN]
    BY <1>1 DEF IInv, Typed, GoOn
  <2>3. calls' \in [Sources -> Seq(Call)]
    BY NothingAsked DEF IInv, Typed
  <2>4. QED
    BY <2>1, <2>2, <2>3 DEF IInv, Typed, Kept
<1>3. /\ read'[s] = FirstPages(n) /\ calls'[s] = <<>> /\ stage'[s] = mode
      /\ following'[s] = Follow(s, n)
  BY DEF IInv, Typed, GoOn, Becomes
<1>4. SourceInv(s)'
  <2>1. InOrder(s)'
    BY <1>1, <1>3 DEF InOrder, Going, Kept, Follow, Strided
  <2>2. Fetching(s)'
    BY <1>3 DEF Fetching, Going
  <2>3. Racing(s)'
    BY DEF IInv, SourceInv, Racing, Kept
  <2>4. Harmless(s)'
    BY <1>3 DEF Harmless
  <2>5. QED
    BY <2>1, <2>2, <2>3, <2>4 DEF SourceInv
<1>5. IInv'
  <2>1. \A t \in Sources \ {s} : Same(t)
    BY DEF IInv, Typed, GoOn, Becomes, Same, Kept
  <2>2. api' = api /\ faults' >= faults
    BY DEF IInv, Typed, Kept
  <2>3. QED
    BY <1>2, <1>4, <2>1, <2>2, OneSource
<1>6. Abstract!Read(s)
  <2>1. Outcome(s) = "reading" /\ Outcome(s)' = "reading"
    BY <1>3 DEF Going, Outcome
  <2>2. \A t \in Sources \ {s} : Outcome(t)' = Outcome(t)
    BY DEF IInv, Typed, GoOn, Becomes, Outcome, Kept
  <2>3. [t \in Sources |-> Outcome(t)]' =
           [[t \in Sources |-> Outcome(t)] EXCEPT ![s] = "reading"]
    BY <2>1, <2>2
  <2>4. read' = [read EXCEPT ![s] = [i \in 1 .. n |-> i]]
    BY DEF GoOn, FirstPages
  <2>5. [t \in Sources |-> api[t].pages]' = [t \in Sources |-> api[t].pages]
    BY DEF Kept
  <2>6. n \in Len(read[s]) .. [t \in Sources |-> api[t].pages][s]
    BY <1>1
  <2>7. QED
    BY <2>1, <2>3, <2>4, <2>5, <2>6
       DEF Abstract!Read, Abstract!FirstPages
<1>7. QED
  BY <1>5, <1>6

(* A read that fails keeps its pages to itself.                            *)
LEMMA Failing ==
    ASSUME IInv, NEW s \in Sources, stage[s] \notin Ended, Fail(s), Kept,
           \/ faults > 0
           \/ api[s].past = "odd"
           \/ api[s].pages = 1 /\ api[s].link = "echoed" /\ api[s].past = "refused",
           calls' = [calls EXCEPT ![s] = <<>>]
    PROVE  IInv' /\ Abstract!Read(s)
<1>1. /\ api[s].pages \in Nat /\ Len(read[s]) \in Nat /\ Len(read[s]) <= api[s].pages
      /\ read[s] = FirstPages(Len(read[s]))
  BY DEF IInv, Typed, Api, SourceInv, InOrder
<1>2. Typed'
  <2>1. stage' \in [Sources -> Stages]
    BY DEF IInv, Typed, Fail, Becomes, Stages, Ended
  <2>2. calls' \in [Sources -> Seq(Call)]
    BY NothingAsked DEF IInv, Typed
  <2>3. QED
    BY <2>1, <2>2 DEF IInv, Typed, Kept, Fail
<1>3. /\ read'[s] = read[s] /\ calls'[s] = <<>> /\ stage'[s] = "error"
  BY DEF IInv, Typed, Fail, Becomes
<1>4. SourceInv(s)'
  <2>1. InOrder(s)'
    BY <1>1, <1>3 DEF InOrder, Going, Kept
  <2>2. Fetching(s)'
    BY <1>3 DEF Fetching, Going
  <2>3. Racing(s)'
    BY DEF IInv, SourceInv, Racing, Kept
  <2>4. Harmless(s)'
    BY <1>3 DEF Harmless, Kept
  <2>5. QED
    BY <2>1, <2>2, <2>3, <2>4 DEF SourceInv
<1>5. IInv'
  <2>1. \A t \in Sources \ {s} : Same(t)
    BY DEF IInv, Typed, Fail, Becomes, Same, Kept
  <2>2. api' = api /\ faults' >= faults
    BY DEF IInv, Typed, Kept
  <2>3. QED
    BY <1>2, <1>4, <2>1, <2>2, OneSource
<1>6. Abstract!Read(s)
  <2>1. Outcome(s) = "reading" /\ Outcome(s)' = "failed"
    BY <1>3 DEF Outcome, Ended
  <2>2. \A t \in Sources \ {s} : Outcome(t)' = Outcome(t)
    BY DEF IInv, Typed, Fail, Becomes, Outcome, Kept
  <2>3. [t \in Sources |-> Outcome(t)]' =
           [[t \in Sources |-> Outcome(t)] EXCEPT ![s] = "failed"]
    BY <2>1, <2>2
  <2>4. read' = [read EXCEPT ![s] = [i \in 1 .. Len(read[s]) |-> i]]
    BY <1>1 DEF IInv, Typed, Fail, FirstPages
  <2>5. [t \in Sources |-> api[t].pages]' = [t \in Sources |-> api[t].pages]
    BY DEF Kept
  <2>6. Len(read[s]) \in Len(read[s]) .. [t \in Sources |-> api[t].pages][s]
    BY <1>1
  <2>7. QED
    BY <2>1, <2>3, <2>4, <2>5, <2>6
       DEF Abstract!Read, Abstract!FirstPages
<1>7. QED
  BY <1>5, <1>6

(* What neither moves a reader on nor adds to its pages.                   *)
LEMMA Stuttering ==
    ASSUME UNCHANGED <<api, stage, read, warned>>,
           \A s \in Sources : missed'[s] # missed[s] => Going(s)
    PROVE  UNCHANGED Abstract!vars
<1>1. \A s \in Sources : Outcome(s)' = Outcome(s)
  <2>1. SUFFICES ASSUME NEW s \in Sources PROVE Outcome(s)' = Outcome(s)
    OBVIOUS
  <2>2. CASE Going(s)
    BY <2>2 DEF Outcome, Going
  <2>3. CASE ~Going(s)
    <3>1. missed'[s] = missed[s]
      BY <2>3
    <3>2. QED
      BY <3>1 DEF Outcome
  <2>4. QED
    BY <2>2, <2>3
<1>2. [t \in Sources |-> Outcome(t)]' = [t \in Sources |-> Outcome(t)]
  BY <1>1
<1>3. [t \in Sources |-> api[t].pages]' = [t \in Sources |-> api[t].pages]
  OBVIOUS
<1>4. QED
  BY <1>2, <1>3 DEF Abstract!vars

-------------------------------------------------------------------------------
(* The steps of the network.                                               *)

LEMMA MirrorsAreSafe ==
    ASSUME IInv, NEW s \in Sources, NEW h \in Urls[s],
           OpenMirror(s, h) \/ CloseMirror(s, h)
    PROVE  IInv' /\ UNCHANGED Abstract!vars
<1>1. PICK at \in {"open", "answered", "failed", "odd"} :
          /\ race' = [race EXCEPT ![s][h] = at]
          /\ at \in {"failed", "odd"} => faults' > 0
  BY DEF OpenMirror, CloseMirror, IInv, Typed
<1>2. /\ UNCHANGED <<api, stage, read, following, calls, warned, missed>>
      /\ faults' \in Nat /\ faults' >= faults /\ faults \in Nat
  BY DEF OpenMirror, CloseMirror, IInv, Typed
<1>3. /\ race'[s] = [race[s] EXCEPT ![h] = at]
      /\ \A t \in Sources \ {s} : race'[t] = race[t]
      /\ race' = [t \in Sources |-> race'[t]]
  BY <1>1 DEF IInv, Typed
<1>4. race[s] \in [Urls[s] -> States] /\ at \in States
  BY DEF IInv, Typed, States, Asked, Closed
<1>5. race'[s] \in [Urls[s] -> States]
  BY <1>3, <1>4
<1>6. Typed'
  BY <1>2, <1>3, <1>5 DEF IInv, Typed
<1>7. SourceInv(s)'
  <2>1. InOrder(s)'
    BY <1>2 DEF IInv, SourceInv, InOrder, Going, Follow, Strided
  <2>2. Fetching(s)'
    BY <1>2 DEF IInv, SourceInv, Fetching, Going, Excused, Exists
  <2>3. Racing(s)'
    <3>1. SUFFICES ASSUME NEW g \in Urls[s], race'[s][g] \in {"failed", "odd"}
                   PROVE  faults' > 0
      BY DEF Racing
    <3>2. CASE g = h
      BY <1>1, <1>3, <1>4, <3>1, <3>2
    <3>3. CASE g # h
      <4>1. race[s][g] \in {"failed", "odd"}
        BY <1>3, <1>4, <3>1, <3>3
      <4>2. faults > 0
        BY <4>1 DEF IInv, SourceInv, Racing
      <4>3. QED
        BY <1>2, <4>2
    <3>4. QED
      BY <3>2, <3>3
  <2>4. Harmless(s)'
    <3>1. AllRows(s)' = AllRows(s)
      BY <1>2 DEF AllRows
    <3>2. faults > 0 => faults' > 0
      BY <1>2
    <3>3. QED
      BY <1>2, <3>1, <3>2 DEF IInv, SourceInv, Harmless
  <2>5. QED
    BY <2>1, <2>2, <2>3, <2>4 DEF SourceInv
<1>8. \A t \in Sources \ {s} : Same(t)
  BY <1>2, <1>3 DEF Same
<1>9. QED
  BY <1>2, <1>6, <1>7, <1>8, OneSource, Stuttering

(* A request that waits for its page, or is answered as the page is, or    *)
(* fails on its own and is counted.                                        *)
LEMMA PagesAreSafe ==
    ASSUME IInv, NEW s \in Sources, NEW i \in DOMAIN calls[s],
           OpenPage(s, i) \/ ClosePage(s, i)
    PROVE  IInv' /\ UNCHANGED Abstract!vars
<1> DEFINE page == calls[s][i].page
<1>1. PICK at \in Asked \cup Closed :
          /\ calls' = [calls EXCEPT ![s][i].at = at]
          /\ \/ at = "open" /\ UNCHANGED <<faults, missed>>
             \/ at = Natural(s, page) /\ UNCHANGED <<faults, missed>>
             \/ /\ at = "failed" /\ faults' = faults + 1
                /\ missed' = [missed EXCEPT ![s] =
                                 @ \/ (stage[s] = "ahead" /\ Exists(s, page))]
  <2>1. Natural(s, page) \in Asked \cup Closed
    BY DEF Natural, Asked, Closed
  <2>2. "open" \in Asked \cup Closed /\ "failed" \in Asked \cup Closed
    BY DEF Asked, Closed
  <2>3. CASE OpenPage(s, i)
    BY <2>2, <2>3 DEF OpenPage
  <2>4. CASE ClosePage(s, i)
    BY <2>1, <2>2, <2>4 DEF ClosePage
  <2>5. QED
    BY <2>3, <2>4
<1>2. /\ UNCHANGED <<api, stage, race, read, following, warned>>
      /\ faults' \in Nat /\ faults' >= faults /\ faults \in Nat
      /\ missed' \in [Sources -> BOOLEAN]
      /\ \A t \in Sources \ {s} : missed'[t] = missed[t]
      /\ missed[s] => missed'[s]
  <2>1. UNCHANGED <<api, stage, race, read, following, warned>>
    BY DEF OpenPage, ClosePage
  <2>2. faults' \in Nat /\ faults' >= faults /\ faults \in Nat
    BY <1>1 DEF IInv, Typed
  <2>3. missed \in [Sources -> BOOLEAN]
    BY DEF IInv, Typed
  <2> HIDE DEF page
  <2>4. /\ missed' \in [Sources -> BOOLEAN]
        /\ \A t \in Sources \ {s} : missed'[t] = missed[t]
        /\ missed[s] => missed'[s]
    BY <1>1, <2>3, Zenon
  <2>5. QED
    BY <2>1, <2>2, <2>4
<1>3. /\ calls'[s] = [calls[s] EXCEPT ![i].at = at]
      /\ \A t \in Sources \ {s} : calls'[t] = calls[t]
  BY <1>1 DEF IInv, Typed
<1>4. calls[s] \in Seq(Call)
  BY DEF IInv, Typed
<1>5. /\ calls'[s] \in Seq(Call)
      /\ DOMAIN calls'[s] = DOMAIN calls[s] /\ Len(calls'[s]) = Len(calls[s])
      /\ calls[s] # <<>> /\ calls'[s] # <<>>
      /\ \A j \in DOMAIN calls[s] :
           /\ calls'[s][j].page = calls[s][j].page
           /\ calls'[s][j].at = IF j = i THEN at ELSE calls[s][j].at
  <2>1. /\ Len(calls[s]) \in Nat /\ DOMAIN calls[s] = 1 .. Len(calls[s])
        /\ \A j \in DOMAIN calls[s] : calls[s][j] \in Call
    BY <1>4, LenProperties, ElementOfSeq
  <2>2. at \in Asked \cup Closed /\ i \in DOMAIN calls[s]
    BY <1>1
  <2>3. [calls[s][i] EXCEPT !.at = at] \in Call
    BY <2>1, <2>2 DEF Call
  <2>4. calls'[s] = [calls[s] EXCEPT ![i] = [calls[s][i] EXCEPT !.at = at]]
    BY <1>3
  <2>5. /\ calls'[s] \in Seq(Call) /\ Len(calls'[s]) = Len(calls[s])
        /\ DOMAIN calls'[s] = DOMAIN calls[s]
    BY <1>4, <2>2, <2>3, <2>4
  <2>6. \A j \in DOMAIN calls[s] :
           /\ calls'[s][j].page = calls[s][j].page
           /\ calls'[s][j].at = IF j = i THEN at ELSE calls[s][j].at
    BY <2>1, <2>2, <2>4 DEF Call
  <2>7. calls[s] # <<>> /\ calls'[s] # <<>>
    BY <2>1, <2>2, <2>5
  <2>8. QED
    BY <2>5, <2>6, <2>7
<1>6. Typed'
  <2>1. calls' \in [Sources -> Seq(Call)]
    BY <1>1, <1>3, <1>5 DEF IInv, Typed
  <2>2. QED
    BY <1>2, <2>1 DEF IInv, Typed
<1>7. SourceInv(s)'
  <2>1. InOrder(s)'
    BY <1>2 DEF IInv, SourceInv, InOrder, Going, Follow, Strided
  <2>2. Fetching(s)'
    <3>1. \A j \in DOMAIN calls[s] : Excused(s, calls[s][j])'
      <4>1. SUFFICES ASSUME NEW j \in DOMAIN calls[s]
                     PROVE  Excused(s, calls[s][j])'
        OBVIOUS
      <4>2. CASE j # i
        BY <1>2, <1>5, <4>2 DEF IInv, SourceInv, Fetching, Excused, Exists
      <4>3. CASE j = i
        <5>1. calls'[s][j].at = at /\ calls'[s][j].page = page
          BY <1>5, <4>3
        <5>2. CASE at = "open"
          BY <5>1, <5>2 DEF Excused
        <5>3. CASE at = Natural(s, page) /\ UNCHANGED faults
          BY <1>2, <5>1, <5>3 DEF Excused, Natural, Exists
        <5>4. CASE /\ at = "failed" /\ faults' = faults + 1
                   /\ missed' = [missed EXCEPT ![s] =
                                    @ \/ (stage[s] = "ahead" /\ Exists(s, page))]
          <6>1. faults' > 0
            BY <1>2, <5>4
          <6>2. stage[s] = "ahead" /\ Exists(s, page) => missed'[s]
            BY <5>4 DEF IInv, Typed
          <6>3. QED
            BY <1>2, <5>1, <5>4, <6>1, <6>2 DEF Excused, Exists
        <5>5. QED
          BY <1>1, <5>2, <5>3, <5>4
      <4>4. QED
        BY <4>2, <4>3
    <3>2. \A j \in DOMAIN calls'[s] : calls'[s][j].page = Len(read'[s]) + j
      BY <1>2, <1>5 DEF IInv, SourceInv, Fetching
    <3>3. Going(s)' /\ following'[s] # NoPage
      BY <1>2, <1>5 DEF IInv, SourceInv, Fetching, Going
    <3>4. stage'[s] = "serial" => Len(calls'[s]) <= 1
      BY <1>2, <1>5 DEF IInv, SourceInv, Fetching
    <3>5. QED
      BY <1>5, <3>1, <3>2, <3>3, <3>4 DEF Fetching
  <2>3. Racing(s)'
    BY <1>2 DEF IInv, SourceInv, Racing
  <2>4. Harmless(s)'
    <3>1. AllRows(s)' = AllRows(s)
      BY <1>2 DEF AllRows
    <3>2. faults > 0 => faults' > 0
      BY <1>2
    <3>3. QED
      BY <1>2, <3>1, <3>2 DEF IInv, SourceInv, Harmless
  <2>5. QED
    BY <2>1, <2>2, <2>3, <2>4 DEF SourceInv
<1>8. \A t \in Sources \ {s} : Same(t)
  BY <1>2, <1>3 DEF Same
<1>9. Going(s)
  BY <1>4 DEF IInv, SourceInv, Fetching
<1>10. QED
  BY <1>2, <1>6, <1>7, <1>8, <1>9, OneSource, Stuttering

-------------------------------------------------------------------------------
(* The steps of a reader.                                                  *)

(* The pages asked for are those after the ones that are read.             *)
LEMMA NextPageIs ==
    ASSUME IInv, NEW s \in Sources, Going(s)
    PROVE  /\ Len(read[s]) \in Nat /\ Len(read[s]) > 0 /\ api[s].pages \in Nat
           /\ Len(read[s]) <= api[s].pages /\ read[s] = FirstPages(Len(read[s]))
           /\ read[s][Len(read[s])] = Len(read[s])
           /\ following[s] = NoPage => Len(read[s]) = api[s].pages
           /\ following[s] # NoPage => following[s] = Len(read[s]) + 1
           /\ following[s] # NoPage /\ Len(read[s]) = api[s].pages =>
                api[s].link = "echoed"
<1>1. /\ Len(read[s]) \in Nat /\ Len(read[s]) > 0 /\ api[s].pages \in Nat
      /\ Len(read[s]) <= api[s].pages /\ read[s] = FirstPages(Len(read[s]))
      /\ following[s] = Follow(s, Len(read[s]))
  BY DEF IInv, Typed, Api, SourceInv, InOrder
<1>2. read[s][Len(read[s])] = Len(read[s])
  BY <1>1, FirstPagesAre
<1>3. QED
  BY <1>1, <1>2 DEF Follow, NoPage

LEMMA Asking ==
    ASSUME IInv, NEW s \in Sources, Going(s), following[s] # NoPage,
           NEW n \in Nat \ {0}, stage[s] = "serial" => n = 1,
           calls' = [calls EXCEPT ![s] =
               [i \in 1 .. n |-> [page |-> Len(read[s]) + i, at |-> "waiting"]]],
           UNCHANGED <<api, stage, race, read, following, warned, faults, missed>>
    PROVE  IInv' /\ UNCHANGED Abstract!vars
<1> DEFINE asked == [i \in 1 .. n |-> [page |-> Len(read[s]) + i, at |-> "waiting"]]
<1>1. /\ asked \in Seq(Call) /\ Len(asked) = n
      /\ \A i \in 1 .. n : asked[i].page = Len(read[s]) + i /\ asked[i].at = "waiting"
  <2>1. Len(read[s]) \in Nat
    BY NextPageIs
  <2>2. \A i \in 1 .. n : [page |-> Len(read[s]) + i, at |-> "waiting"] \in Call
    BY <2>1 DEF Call, Asked
  <2>3. asked \in [1 .. n -> Call] /\ n \in Nat
    BY <2>2
  <2> HIDE DEF asked
  <2>4. asked \in Seq(Call) /\ Len(asked) = n
    BY <2>3
  <2> USE DEF asked
  <2>5. \A i \in 1 .. n : asked[i].page = Len(read[s]) + i /\ asked[i].at = "waiting"
    OBVIOUS
  <2>6. QED
    BY <2>4, <2>5
<1>2. calls'[s] = asked /\ \A t \in Sources \ {s} : calls'[t] = calls[t]
  BY DEF IInv, Typed
<1>3. calls' \in [Sources -> Seq(Call)]
  BY <1>1 DEF IInv, Typed
<1> HIDE DEF asked
<1>4. Typed'
  BY <1>3 DEF IInv, Typed
<1>5. SourceInv(s)'
  <2>1. InOrder(s)'
    BY DEF IInv, SourceInv, InOrder, Going, Follow, Strided
  <2>2. Fetching(s)'
    <3>1. DOMAIN asked = 1 .. n /\ n \in Nat
      BY <1>1
    <3>2. \A i \in DOMAIN calls'[s] :
            calls'[s][i].page = Len(read'[s]) + i /\ Excused(s, calls[s][i])'
      BY <1>1, <1>2, <3>1 DEF Excused
    <3>3. Going(s)' /\ following'[s] # NoPage
      BY DEF Going
    <3>4. stage'[s] = "serial" => Len(calls'[s]) <= 1
      <4>1. Len(calls'[s]) = n
        BY <1>1, <1>2
      <4>2. stage'[s] = stage[s]
        OBVIOUS
      <4>3. stage[s] = "serial" => n <= 1
        OBVIOUS
      <4>4. QED
        BY <4>1, <4>2, <4>3
    <3>5. QED
      BY <3>2, <3>3, <3>4 DEF Fetching
  <2>3. Racing(s)'
    BY DEF IInv, SourceInv, Racing
  <2>4. Harmless(s)'
    BY DEF Harmless, Going, Ended
  <2>5. QED
    BY <2>1, <2>2, <2>3, <2>4 DEF SourceInv
<1>6. \A t \in Sources \ {s} : Same(t)
  BY <1>2 DEF Same
<1>7. api' = api /\ faults' >= faults
  BY DEF IInv, Typed
<1>8. QED
  BY <1>4, <1>5, <1>6, <1>7, OneSource, Stuttering

LEMMA WinIsSafe ==
    ASSUME IInv, NEW s \in Sources, NEW h \in Urls[s], Win(s, h)
    PROVE  IInv' /\ Abstract!Read(s)
<1>1. PICK unstarted \in SUBSET Urls[s] :
          race' = [race EXCEPT ![s] =
             [g \in Urls[s] |-> IF g \in unstarted THEN "cancelled" ELSE race[s][g]]]
  BY DEF Win, IInv, Typed
<1>2. /\ stage[s] = "race" /\ stage' = [stage EXCEPT ![s] = "serial"]
      /\ read' = [read EXCEPT ![s] = <<1>>]
      /\ following' = [following EXCEPT ![s] = Follow(s, 1)]
      /\ UNCHANGED <<api, calls, warned, faults, missed>>
  BY DEF Win, Becomes
<1>3. /\ api[s].pages \in Nat \ {0} /\ Len(read[s]) = 0 /\ calls[s] = <<>>
      /\ faults \in Nat /\ Follow(s, 1) \in Nat
  <2>1. api[s].pages \in Nat \ {0} /\ Len(read[s]) = 0 /\ faults \in Nat
    BY <1>2 DEF IInv, Typed, Api, SourceInv, InOrder
  <2>2. calls[s] = <<>>
    BY <1>2 DEF IInv, SourceInv, Fetching, Going
  <2>3. QED
    BY <2>1, <2>2 DEF Follow, NoPage
<1>4. /\ race'[s] = [g \in Urls[s] |-> IF g \in unstarted THEN "cancelled"
                                       ELSE race[s][g]]
      /\ \A t \in Sources \ {s} : race'[t] = race[t]
      /\ race' = [t \in Sources |-> race'[t]]
  BY <1>1 DEF IInv, Typed
<1>5. Typed'
  <2>1. race'[s] \in [Urls[s] -> States]
    BY <1>4 DEF IInv, Typed, States
  <2>2. stage' \in [Sources -> Stages]
    BY <1>2 DEF IInv, Typed, Stages
  <2>3. read' \in [Sources -> Seq(Nat \ {0})] /\ following' \in [Sources -> Nat]
    BY <1>2, <1>3 DEF IInv, Typed
  <2>4. QED
    BY <1>2, <1>4, <2>1, <2>2, <2>3 DEF IInv, Typed
<1>6. /\ read'[s] = <<1>> /\ stage'[s] = "serial" /\ following'[s] = Follow(s, 1)
      /\ <<1>> = FirstPages(1) /\ Len(<<1>>) = 1
  BY <1>2, FirstPagesAre DEF IInv, Typed
<1>7. SourceInv(s)'
  <2>1. InOrder(s)'
    <3>1. Len(read'[s]) = 1 /\ read'[s] = FirstPages(Len(read'[s]))
      BY <1>6
    <3>2. api'[s].pages \in Nat \ {0} /\ Follow(s, 1)' = Follow(s, 1)
      BY <1>2, <1>3 DEF Follow
    <3>3. QED
      BY <1>6, <3>1, <3>2 DEF InOrder, Going, Follow
  <2>2. Fetching(s)'
    BY <1>2, <1>3 DEF Fetching
  <2>3. Racing(s)'
    BY <1>2, <1>4 DEF IInv, SourceInv, Racing
  <2>4. Harmless(s)'
    BY <1>6 DEF Harmless
  <2>5. QED
    BY <2>1, <2>2, <2>3, <2>4 DEF SourceInv
<1>8. IInv'
  <2>1. \A t \in Sources \ {s} : Same(t)
    BY <1>2, <1>4 DEF IInv, Typed, Same
  <2>2. QED
    BY <1>2, <1>3, <1>5, <1>7, <2>1, OneSource
<1>9. Abstract!Read(s)
  <2>1. Outcome(s) = "reading" /\ Outcome(s)' = "reading"
    BY <1>2, <1>6 DEF Outcome
  <2>2. \A t \in Sources \ {s} : Outcome(t)' = Outcome(t)
    BY <1>2 DEF IInv, Typed, Outcome
  <2>3. [t \in Sources |-> Outcome(t)]' =
           [[t \in Sources |-> Outcome(t)] EXCEPT ![s] = "reading"]
    BY <2>1, <2>2
  <2>4. read' = [read EXCEPT ![s] = [i \in 1 .. 1 |-> i]]
    BY <1>2, <1>6 DEF FirstPages
  <2>5. [t \in Sources |-> api[t].pages]' = [t \in Sources |-> api[t].pages]
    BY <1>2
  <2>6. 1 \in Len(read[s]) .. [t \in Sources |-> api[t].pages][s]
    BY <1>3
  <2>7. QED
    BY <2>1, <2>3, <2>4, <2>5, <2>6
       DEF Abstract!Read, Abstract!FirstPages
<1>10. QED
  BY <1>8, <1>9

(* A race no mirror wins, or whose winner cannot be decoded.               *)
LEMMA LosingIsSafe ==
    ASSUME IInv, NEW s \in Sources,
           EveryMirrorFailed(s) \/ \E h \in Urls[s] : WinUnreadable(s, h)
    PROVE  IInv' /\ Abstract!Read(s)
<1>1. stage[s] = "race" /\ Fail(s) /\ Kept /\ calls' = calls
  BY DEF EveryMirrorFailed, WinUnreadable, Fail, Kept
<1>2. faults > 0
  <2>1. Urls[s] # {}
    BY PagingAssumption
  <2>2. \E h \in Urls[s] : race[s][h] \in {"failed", "odd"}
    BY <2>1 DEF EveryMirrorFailed, WinUnreadable
  <2>3. QED
    BY <2>2 DEF IInv, SourceInv, Racing
<1>3. calls[s] = <<>> /\ stage[s] \notin Ended
  BY <1>1 DEF IInv, SourceInv, Fetching, Going, Ended
<1>4. calls' = [calls EXCEPT ![s] = <<>>]
  BY <1>1, <1>3 DEF IInv, Typed
<1>5. QED
  BY <1>1, <1>2, <1>3, <1>4, Failing

LEMMA StopFollowingIsSafe ==
    ASSUME IInv, NEW s \in Sources, StopFollowing(s)
    PROVE  IInv' /\ Abstract!Read(s)
<1> DEFINE n == Len(read[s])
           more == following[s] # NoPage
<1>1. Going(s) /\ calls[s] = <<>>
  BY DEF StopFollowing, Idle, Going
<1>2. /\ n \in Nat /\ n <= api[s].pages /\ read[s] = FirstPages(n)
      /\ ~more => n = api[s].pages
  BY <1>1, NextPageIs
<1>3. Finish(s, FirstPages(n), more) /\ Kept /\ calls' = [calls EXCEPT ![s] = <<>>]
  BY <1>1, <1>2 DEF StopFollowing, Kept, IInv, Typed
<1>4. more \in BOOLEAN /\ Len(read[s]) <= n
  BY <1>2
<1> HIDE DEF n, more
<1>5. QED
  BY <1>1, <1>2, <1>3, <1>4, Finishing

LEMMA AskNextIsSafe ==
    ASSUME IInv, NEW s \in Sources, AskNext(s)
    PROVE  IInv' /\ UNCHANGED Abstract!vars
<1>1. Going(s) /\ stage[s] = "serial" /\ following[s] # NoPage
  BY DEF AskNext, Going, More
<1>2. following[s] = Len(read[s]) + 1 /\ Len(read[s]) \in Nat
  BY <1>1, NextPageIs
<1>3. PICK n \in Nat \ {0} : n = 1
  OBVIOUS
<1>4. [i \in DOMAIN <<following[s]>> |-> [page |-> <<following[s]>>[i], at |-> "waiting"]]
        = [i \in 1 .. n |-> [page |-> Len(read[s]) + i, at |-> "waiting"]]
  BY <1>2, <1>3
<1>5. calls' = [calls EXCEPT ![s] =
               [i \in 1 .. n |-> [page |-> Len(read[s]) + i, at |-> "waiting"]]]
  BY <1>4 DEF AskNext, Ask
<1>6. UNCHANGED <<api, stage, race, read, following, warned, faults, missed>>
  BY DEF AskNext
<1>7. QED
  BY <1>1, <1>3, <1>5, <1>6, Asking

(* A batch is of the pages after those read; with no room for one there is *)
(* none left to read.                                                      *)
LEMMA AskAheadIsSafe ==
    ASSUME IInv, NEW s \in Sources, AskAhead(s)
    PROVE  IInv' /\ (Abstract!Read(s) \/ UNCHANGED Abstract!vars)
<1> DEFINE n == IF Room(s) < PageWorkers THEN Room(s) ELSE PageWorkers
           len == Len(read[s])
<1>1. Going(s) /\ stage[s] = "ahead" /\ More(s) /\ following[s] # NoPage /\ calls[s] = <<>>
  BY DEF AskAhead, Idle, Going, More
<1>2. /\ len \in Nat /\ following[s] = len + 1 /\ len <= api[s].pages
      /\ read[s] = FirstPages(len) /\ api[s].pages \in Nat
  BY <1>1, NextPageIs
<1>3. n \in Nat
  BY <1>1, RoomIsANumber, PagingAssumption
<1>4. CASE n = 0
  <2>1. Room(s) = 0
    BY <1>1, <1>4, RoomIsANumber, PagingAssumption
  <2>2. len = api[s].pages
    BY <1>1, <1>2, <2>1, RoomForMore
  <2>3. Finish(s, FirstPages(len), FALSE) /\ Kept /\ calls' = [calls EXCEPT ![s] = <<>>]
    <3>1. Finish(s, read[s], FALSE) /\ calls' = calls
      BY <1>4 DEF AskAhead
    <3>2. calls = [calls EXCEPT ![s] = <<>>]
      BY <1>1 DEF IInv, Typed
    <3>3. QED
      BY <1>2, <3>1, <3>2 DEF AskAhead, Kept
  <2> HIDE DEF len
  <2>4. Len(read[s]) <= len
    BY <1>2 DEF len
  <2>5. QED
    BY <1>1, <1>2, <2>2, <2>3, <2>4, Finishing
<1>5. CASE n # 0
  <2>1. /\ Ask(s, [i \in 1 .. n |-> following[s] + i - 1])
        /\ UNCHANGED <<api, stage, race, read, following, warned, faults, missed>>
    BY <1>5 DEF AskAhead
  <2> DEFINE pages == [i \in 1 .. n |-> following[s] + i - 1]
  <2>2. [i \in DOMAIN pages |-> [page |-> pages[i], at |-> "waiting"]]
          = [i \in 1 .. n |-> [page |-> len + i, at |-> "waiting"]]
    <3>1. \A i \in 1 .. n : pages[i] = len + i
      BY <1>2, <1>3
    <3>2. DOMAIN pages = 1 .. n
      OBVIOUS
    <3> HIDE DEF n, pages, len
    <3>3. QED
      BY <3>1, <3>2
  <2>3. calls' = [calls EXCEPT ![s] =
                    [i \in 1 .. n |-> [page |-> len + i, at |-> "waiting"]]]
    BY <2>1, <2>2 DEF Ask
  <2>4. n \in Nat \ {0} /\ (stage[s] = "serial" => n = 1)
    BY <1>1, <1>3, <1>5
  <2> HIDE DEF n
  <2>5. QED
    BY <1>1, <2>1, <2>3, <2>4, Asking
<1>6. QED
  BY <1>4, <1>5

(* One page: it is the next one, or there is none and the read ends, or it *)
(* failed and so does the read.                                            *)
LEMMA TakePageIsSafe ==
    ASSUME IInv, NEW s \in Sources, TakePage(s)
    PROVE  IInv' /\ Abstract!Read(s)
<1> DEFINE len == Len(read[s])
           asked == calls[s][1]
           page == Content(s, asked.page)
           next == Follow(s, asked.page)
           mode == IF Strided(s) THEN "ahead" ELSE "serial"
<1>1. /\ Going(s) /\ stage[s] = "serial" /\ 1 \in DOMAIN calls[s]
      /\ following[s] # NoPage /\ asked.at \in Closed
      /\ Kept /\ calls' = [calls EXCEPT ![s] = <<>>]
  <2>1. stage[s] = "serial" /\ calls[s] # <<>> /\ Going(s) /\ following[s] # NoPage
    BY DEF TakePage, Answered, IInv, SourceInv, Fetching
  <2>2. 1 \in DOMAIN calls[s]
    BY <2>1 DEF IInv, Typed
  <2>3. QED
    BY <2>1, <2>2 DEF TakePage, Answered, Kept
<1>2. /\ len \in Nat /\ len > 0 /\ len <= api[s].pages /\ read[s] = FirstPages(len)
      /\ read[s][len] = len /\ api[s].pages \in Nat
      /\ len = api[s].pages => api[s].link = "echoed"
  BY <1>1, NextPageIs
<1>3. asked.page = len + 1 /\ Excused(s, asked)
  BY <1>1 DEF IInv, SourceInv, Fetching
<1>4. Strided(s) => len = 1
  BY <1>1 DEF IInv, SourceInv, InOrder
<1>5. \/ asked.at # "answered" /\ Fail(s)
      \/ /\ asked.at = "answered" /\ page \in {NoPage, read[s][len]}
         /\ Finish(s, read[s], FALSE)
      \/ /\ asked.at = "answered" /\ page \notin {NoPage, read[s][len]}
         /\ next = NoPage /\ Finish(s, Append(read[s], page), FALSE)
      \/ /\ asked.at = "answered" /\ page \notin {NoPage, read[s][len]}
         /\ next # NoPage /\ GoOn(s, Append(read[s], page), next, mode)
  BY DEF TakePage
<1>6. CASE asked.at # "answered" /\ Fail(s)
  <2>1. \/ faults > 0
        \/ api[s].past = "odd"
        \/ api[s].pages = 1 /\ api[s].link = "echoed" /\ api[s].past = "refused"
    <3>1. asked.at \in {"failed", "odd"}
      BY <1>1, <1>6 DEF Closed
    <3>2. CASE ~Exists(s, asked.page)
      <4>1. len = api[s].pages /\ api[s].link = "echoed" /\ len = 1
        BY <1>2, <1>3, <1>4, <3>2 DEF Exists, Strided
      <4>2. QED
        BY <1>3, <3>1, <4>1 DEF Excused
    <3>3. CASE Exists(s, asked.page)
      BY <1>3, <3>1, <3>3 DEF Excused
    <3>4. QED
      BY <3>2, <3>3
  <2>2. stage[s] \notin Ended
    BY <1>1 DEF Ended
  <2>3. Fail(s) /\ Kept /\ calls' = [calls EXCEPT ![s] = <<>>]
    BY <1>1, <1>6
  <2> HIDE DEF len, asked, page, next, mode
  <2>4. QED
    BY <2>1, <2>2, <2>3, Failing
<1>7. CASE /\ page \in {NoPage, read[s][len]}
           /\ Finish(s, read[s], FALSE)
  <2>1. len = api[s].pages
    <3>1. CASE Exists(s, asked.page)
      <4>1. page = len + 1
        BY <1>3, <3>1 DEF Content
      <4>2. QED
        BY <1>2, <1>7, <4>1 DEF NoPage
    <3>2. CASE ~Exists(s, asked.page)
      BY <1>2, <1>3, <3>2 DEF Exists
    <3>3. QED
      BY <3>1, <3>2
  <2>2. Finish(s, read[s], FALSE) /\ len \in Nat /\ read[s] = FirstPages(len)
    BY <1>2, <1>7
  <2>3. Finish(s, FirstPages(len), FALSE)
    BY <2>2
  <2>4. Len(read[s]) <= len
    BY <2>2
  <2> HIDE DEF len, asked, page, next
  <2>5. QED
    BY <1>1, <1>2, <2>1, <2>3, <2>4, Finishing
<1>8. CASE page \notin {NoPage, read[s][len]}
  <2>1. page = len + 1 /\ len + 1 <= api[s].pages
    BY <1>2, <1>3, <1>8 DEF Content, Exists, NoPage
  <2>2. Append(read[s], page) = FirstPages(len + 1)
    BY <1>2, <2>1, FirstPagesAre
  <2>3. CASE next = NoPage /\ Finish(s, Append(read[s], page), FALSE)
    <3>1. len + 1 = api[s].pages
      BY <1>2, <1>3, <2>1, <2>3 DEF Follow, NoPage
    <3>2. Finish(s, FirstPages(len + 1), FALSE)
      BY <2>2, <2>3
    <3>3. Len(read[s]) <= len + 1 /\ len + 1 \in Nat
      BY <1>2
    <3> HIDE DEF len, asked, page, next
    <3>4. QED
      BY <1>1, <2>1, <3>1, <3>2, <3>3, Finishing
  <2>4. CASE GoOn(s, Append(read[s], page), next, mode)
    <3>1. next = Follow(s, len + 1)
      BY <1>3
    <3>2. mode \in {"serial", "ahead"} /\ (mode = "serial" => ~Strided(s))
      OBVIOUS
    <3>3. GoOn(s, FirstPages(len + 1), Follow(s, len + 1), mode)
      BY <2>2, <2>4, <3>1
    <3>4. Len(read[s]) <= len + 1 /\ len + 1 \in Nat
      BY <1>2
    <3> HIDE DEF len, asked, page, next, mode
    <3>5. QED
      BY <1>1, <2>1, <3>2, <3>3, <3>4, GoingOn
  <2>5. QED
    BY <1>5, <1>6, <1>7, <1>8, <2>3, <2>4
<1>9. QED
  BY <1>5, <1>6, <1>7, <1>8

(* A batch: its new pages are the next ones, and one that is not new is    *)
(* past the end or failed, which is remembered.                            *)
LEMMA TakeBatchIsSafe ==
    ASSUME IInv, NEW s \in Sources, TakeBatch(s)
    PROVE  IInv' /\ Abstract!Read(s)
<1> DEFINE k == Len(read[s])
           n == Taken(s)
           len == Len(calls[s])
           pages == read[s] \o [i \in 1 .. n |-> Page(s, i)]
           ended == n < len \/ Follow(s, calls[s][n].page) = NoPage
           odd == \E i \in DOMAIN calls[s] : calls[s][i].at = "odd"
<1>1. /\ Going(s) /\ stage[s] = "ahead" /\ calls[s] # <<>> /\ following[s] # NoPage
      /\ \A i \in DOMAIN calls[s] : calls[s][i].at \in Closed
      /\ Kept /\ calls' = [calls EXCEPT ![s] = <<>>]
  BY DEF TakeBatch, Answered, Kept, IInv, SourceInv, Fetching
<1>2. /\ k \in Nat /\ k > 0 /\ k <= api[s].pages /\ read[s] = FirstPages(k)
      /\ read[s][k] = k /\ following[s] = k + 1 /\ api[s].pages \in Nat
  BY <1>1, NextPageIs
<1>3. /\ len \in Nat /\ len > 0 /\ DOMAIN calls[s] = 1 .. len
      /\ \A i \in 1 .. len : calls[s][i].page = k + i /\ Excused(s, calls[s][i])
  <2>1. len \in Nat /\ len > 0 /\ DOMAIN calls[s] = 1 .. len
    BY <1>1 DEF IInv, Typed
  <2>2. \A i \in DOMAIN calls[s] : calls[s][i].page = k + i /\ Excused(s, calls[s][i])
    BY DEF IInv, SourceInv, Fetching
  <2>3. QED
    BY <2>1, <2>2
<1>4. TakenUpTo(s, n)
  BY TakenIs
<1>5. \/ odd /\ Fail(s)
      \/ ~odd /\ ended /\ Finish(s, pages, FALSE)
      \/ ~odd /\ ~ended /\ GoOn(s, pages, following[s] + len, "ahead")
  BY DEF TakeBatch
<1>6. CASE odd /\ Fail(s)
  <2>1. api[s].past = "odd"
    BY <1>3, <1>6 DEF Excused
  <2>2. stage[s] \notin Ended /\ Fail(s)
    BY <1>1, <1>6 DEF Ended
  <2>3. QED
    BY <1>1, <2>1, <2>2, Failing
<1>7. CASE ~odd
  <2>1. /\ n \in Nat /\ n <= len /\ (\A i \in 1 .. n : New(s, i))
        /\ \/ n = len
           \/ ~New(s, n + 1)
           \/ n > 0 /\ Follow(s, calls[s][n].page) = NoPage
    BY <1>3, <1>4 DEF TakenUpTo
  <2>2. \A i \in DOMAIN calls[s] : calls[s][i].at \in {"answered", "failed"}
    BY <1>1, <1>7 DEF Closed
  <2>3. (\A i \in 1 .. n : Page(s, i) = k + i) /\ k + n <= api[s].pages
    <3> HIDE DEF n
    <3>1. QED
      BY <1>1, <2>1, <2>2, BatchIs
  <2>4. pages = FirstPages(k + n)
    <3>1. [i \in 1 .. n |-> Page(s, i)] = [i \in 1 .. n |-> k + i]
      BY <2>3
    <3> HIDE DEF n, k
    <3>2. FirstPages(k) \o [i \in 1 .. n |-> k + i] = FirstPages(k + n)
      BY <1>2, <2>1, FurtherPages
    <3>3. QED
      BY <1>2, <3>1, <3>2
  <2>5. Len(read[s]) <= k + n /\ k + n \in Nat
    BY <1>2, <2>1
  <2>6. CASE ended /\ Finish(s, pages, FALSE)
    <3>1. ~missed[s] => k + n = api[s].pages
      <4>1. SUFFICES ASSUME ~missed[s], k + n < api[s].pages PROVE FALSE
        <5>1. k + n \in Nat /\ api[s].pages \in Nat /\ k + n <= api[s].pages
          BY <1>2, <2>3, <2>5
        <5> HIDE DEF n, k
        <5>2. QED
          BY <5>1
      <4>2. CASE n = len \/ (n > 0 /\ Follow(s, calls[s][n].page) = NoPage)
        <5>1. n > 0 /\ Follow(s, calls[s][n].page) = NoPage
          BY <1>3, <2>1, <2>6, <4>2
        <5>2. calls[s][n].page = k + n
          BY <1>3, <2>1, <5>1
        <5>3. Follow(s, k + n) = NoPage
          BY <5>1, <5>2
        <5> HIDE DEF n, k
        <5>4. QED
          BY <2>5, <4>1, <5>3 DEF Follow, NoPage
      <4>3. CASE n < len /\ ~New(s, n + 1)
        <5>1. n + 1 \in 1 .. len /\ calls[s][n + 1].page = k + (n + 1)
          BY <1>3, <2>1, <4>3
        <5>2. Exists(s, k + (n + 1))
          BY <1>2, <2>1, <4>1 DEF Exists
        <5>3. calls[s][n + 1].at # "failed"
          BY <1>1, <1>3, <4>1, <5>1, <5>2 DEF Excused
        <5>4. Page(s, n + 1) = k + (n + 1)
          BY <5>1, <5>2, <5>3 DEF Page, Content
        <5>5. Before(s, n + 1) = k + n
          <6>1. CASE n = 0
            BY <1>2, <6>1 DEF Before
          <6>2. CASE n > 0
            <7>1. n + 1 # 1 /\ (n + 1) - 1 = n /\ n \in 1 .. n
              BY <2>1, <6>2
            <7>2. QED
              BY <2>3, <7>1 DEF Before
          <6>3. QED
            BY <2>1, <6>1, <6>2
        <5>6. QED
          BY <1>2, <2>1, <4>3, <5>4, <5>5 DEF New, NoPage
      <4>4. QED
        BY <1>3, <2>1, <4>2, <4>3
    <3>2. Finish(s, FirstPages(k + n), FALSE)
      BY <2>4, <2>6
    <3> HIDE DEF n, k, pages, ended
    <3>3. QED
      BY <1>1, <2>3, <2>5, <3>1, <3>2, Finishing
  <2>7. CASE ~ended /\ GoOn(s, pages, following[s] + len, "ahead")
    <3>1. n = len /\ Follow(s, calls[s][n].page) # NoPage
      <4>1. ~(n < len) /\ Follow(s, calls[s][n].page) # NoPage
        BY <2>7
      <4>2. n \in Nat /\ len \in Nat /\ n <= len
        BY <1>3, <2>1
      <4> HIDE DEF n, len
      <4>3. QED
        BY <4>1, <4>2
    <3>2. following[s] + len = Follow(s, k + n)
      <4>1. calls[s][n].page = k + n
        <5>1. n \in 1 .. len
          BY <1>3, <3>1
        <5> HIDE DEF n, len
        <5>2. QED
          BY <1>3, <5>1
      <4>2. Follow(s, k + n) = k + n + 1
        BY <3>1, <4>1 DEF Follow
      <4>3. k \in Nat /\ len \in Nat /\ following[s] = k + 1 /\ n = len
        BY <1>2, <1>3, <3>1
      <4> HIDE DEF n, k, len
      <4>4. QED
        BY <4>2, <4>3
    <3>3. GoOn(s, FirstPages(k + n), Follow(s, k + n), "ahead")
      BY <2>4, <2>7, <3>2
    <3> HIDE DEF n, k, pages, ended, len
    <3>4. QED
      BY <1>1, <2>3, <2>5, <3>3, GoingOn
  <2>8. QED
    BY <1>5, <1>7, <2>6, <2>7
<1>8. QED
  BY <1>5, <1>6, <1>7

-------------------------------------------------------------------------------
(* The specification.                                                      *)

LEMMA InitIsSafe ==
    ASSUME Init
    PROVE  IInv /\ Abstract!Init
<1>1. /\ api \in [Sources -> UNION Range(Apis)]
      /\ \A s \in Sources : api[s] \in Apis[s]
  BY DEF Init
<1>2. \A s \in Sources : api[s] \in Api /\ api[s].last <= api[s].rows
  BY <1>1, PagingAssumption
<1>3. /\ stage = [s \in Sources |-> "race"]
      /\ race = [s \in Sources |-> [h \in Urls[s] |-> "waiting"]]
      /\ read = [s \in Sources |-> <<>>]
      /\ following = [s \in Sources |-> NoPage]
      /\ calls = [s \in Sources |-> <<>>]
      /\ warned = [s \in Sources |-> FALSE] /\ missed = [s \in Sources |-> FALSE]
      /\ faults = 0
  BY DEF Init
<1>4. Typed
  <2>1. api \in [Sources -> Api] /\ \A s \in Sources : api[s].last <= api[s].rows
    BY <1>1, <1>2
  <2>2. stage \in [Sources -> Stages]
    BY <1>3 DEF Stages
  <2>3. race = [s \in Sources |-> race[s]] /\ \A s \in Sources : race[s] \in [Urls[s] -> States]
    BY <1>3 DEF States, Asked
  <2>4. read \in [Sources -> Seq(Nat \ {0})] /\ calls \in [Sources -> Seq(Call)]
    BY <1>3
  <2>5. following \in [Sources -> Nat] /\ faults \in Nat
    BY <1>3 DEF NoPage
  <2>6. warned \in [Sources -> BOOLEAN] /\ missed \in [Sources -> BOOLEAN]
    BY <1>3
  <2>7. QED
    BY <2>1, <2>2, <2>3, <2>4, <2>5, <2>6 DEF Typed
<1>5. \A s \in Sources : SourceInv(s)
  <2>1. SUFFICES ASSUME NEW s \in Sources PROVE SourceInv(s)
    OBVIOUS
  <2>2. stage[s] = "race" /\ read[s] = <<>> /\ calls[s] = <<>>
    BY <1>3
  <2>3. InOrder(s)
    <3>1. Len(read[s]) = 0 /\ read[s] = FirstPages(0)
      BY <2>2, FirstPagesAre
    <3>2. api[s].pages \in Nat
      BY <1>2 DEF Api
    <3>3. QED
      BY <2>2, <3>1, <3>2 DEF InOrder, Going
  <2>4. Fetching(s) /\ Racing(s) /\ Harmless(s)
    BY <1>3, <2>2 DEF Fetching, Racing, Harmless
  <2>5. QED
    BY <2>3, <2>4 DEF SourceInv
<1>6. Abstract!Init
  <2>1. [s \in Sources |-> api[s].pages]
           \in [Sources -> {a.pages : a \in UNION Range(Apis)}]
    BY <1>1
  <2>2. \A s \in Sources : Outcome(s) = "reading"
    BY <1>3 DEF Outcome
  <2>3. QED
    BY <1>3, <2>1, <2>2 DEF Abstract!Init
<1>7. QED
  BY <1>4, <1>5, <1>6 DEF IInv

LEMMA NextIsSafe ==
    ASSUME IInv, [Next]_vars
    PROVE  IInv' /\ [Abstract!Next]_(Abstract!vars)
<1>1. CASE Network
  BY <1>1, MirrorsAreSafe, PagesAreSafe DEF Network
<1>2. CASE \E s \in Sources : Reader(s)
  <2>1. PICK s \in Sources : Reader(s)
    BY <1>2
  <2>2. IInv' /\ (Abstract!Read(s) \/ UNCHANGED Abstract!vars)
    BY <2>1, WinIsSafe, LosingIsSafe, StopFollowingIsSafe, AskNextIsSafe, TakePageIsSafe,
       AskAheadIsSafe, TakeBatchIsSafe DEF Reader
  <2>3. QED
    BY <2>1, <2>2 DEF Abstract!Next
<1>3. CASE UNCHANGED vars
  <2>1. UNCHANGED <<api, stage, race, read, following, calls, warned, faults, missed>>
    BY <1>3 DEF vars
  <2>2. \A s \in Sources : Same(s)
    BY <2>1 DEF Same
  <2>3. Typed'
    BY <2>1 DEF IInv, Typed
  <2>4. faults' \in Nat /\ faults' >= faults
    BY <2>1 DEF IInv, Typed
  <2>5. IInv'
    BY <2>1, <2>2, <2>3, <2>4, SameIsSafe DEF IInv
  <2>6. QED
    BY <2>1, <2>5, Stuttering
<1>4. QED
  BY <1>1, <1>2, <1>3 DEF Next, Rest

(* What is read is read in order, none skipped and none twice, and a table *)
(* that is called whole has every page, whatever the mirrors, the gate and *)
(* the batches do: HttpPaging implements CollectionRead, for every number  *)
(* of pages, rows, workers and failures (_read_pages, _read_ahead).        *)
THEOREM ReadsAreOfTheCollection == Spec => ReadsTheCollection
<1>1. Init => IInv /\ Abstract!Init
  BY InitIsSafe
<1>2. IInv /\ [Next]_vars => IInv' /\ [Abstract!Next]_(Abstract!vars)
  BY NextIsSafe
<1>3. QED
  BY <1>1, <1>2, PTL DEF Spec, ReadsTheCollection, Abstract!Spec

(* A read fails only for a request that failed, for more rows than are     *)
(* allowed, or for what the API answers past its end where that is not     *)
(* readable; reading ahead is never the reason (_read_ahead).              *)
THEOREM ReadingAheadIsHarmless == Spec => []SpeculationIsHarmless
<1>1. Init => IInv
  BY InitIsSafe
<1>2. IInv /\ [Next]_vars => IInv'
  BY NextIsSafe
<1>3. IInv => SpeculationIsHarmless
  BY DEF IInv, SourceInv, Harmless, SpeculationIsHarmless
<1>4. QED
  BY <1>1, <1>2, <1>3, PTL DEF Spec
===============================================================================
