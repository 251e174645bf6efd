---------------------------- MODULE AAListProofs ----------------------------
(***************************************************************************)
(* What the list operations of the kernel do to the nodes of a list, to    *)
(* the absence of repetitions and to the order of the delayed tasks.       *)
(***************************************************************************)
EXTENDS AALists, WellFoundedInduction, SequenceTheorems, FiniteSetTheorems, TLAPS

(* A non-empty set of naturals has a least element: the place at which a   *)
(* scan of the code stops.                                                 *)
LEMMA LeastExists ==
  ASSUME NEW S, S \subseteq Nat, S # {}
  PROVE  \E i \in S : \A j \in S : i <= j
<1> DEFINE R == {ss \in Nat \X Nat : ss[1] < ss[2]}
<1>1. IsWellFoundedOn(R, Nat)
  BY NatLessThanWellFounded, Zenon DEF OpToRel
<1>2. \E i \in S : \A j \in S : <<j, i>> \notin R
  BY <1>1, WFMin
<1>3. \A i, j \in Nat : <<j, i>> \notin R => i <= j
  <2> TAKE i, j \in Nat
  <2>1. j < i => <<j, i>> \in R
    OBVIOUS
  <2> QED BY <2>1
<1> QED BY <1>2, <1>3

(* A non-empty set of naturals below a bound has a greatest element.       *)
LEMMA GreatestExists ==
  ASSUME NEW n \in Nat, NEW S, S \subseteq 0 .. n, S # {}
  PROVE  \E i \in S : \A j \in S : j <= i
<1> DEFINE R == {n - j : j \in S}
<1>1. \A j \in S : j \in Nat /\ j <= n /\ n - j \in Nat
  OBVIOUS
<1>2. R \subseteq Nat
  BY <1>1
<1>3. R # {}
  <2>1. PICK j \in S : TRUE
    OBVIOUS
  <2>2. n - j \in R
    OBVIOUS
  <2> QED BY <2>2
<1>4. PICK r \in R : \A q \in R : r <= q
  BY <1>2, <1>3, LeastExists
<1>5. PICK i \in S : r = n - i
  OBVIOUS
<1>6. \A j \in S : j <= i
  <2> TAKE j \in S
  <2>1. n - j \in R
    OBVIOUS
  <2>2. n - i <= n - j
    BY <1>4, <1>5, <2>1
  <2> QED BY <1>1, <2>2
<1> QED BY <1>6

-----------------------------------------------------------------------------

(* Taking out the node at position i leaves the others in order.           *)
LEMMA RemoveAtFacts ==
  ASSUME NEW S, NEW list \in Seq(S), NEW i \in 1 .. Len(list)
  PROVE  /\ SE!RemoveAt(list, i) \in Seq(S)
         /\ Len(SE!RemoveAt(list, i)) = Len(list) - 1
         /\ \A j \in 1 .. Len(list) - 1 :
              SE!RemoveAt(list, i)[j] = IF j < i THEN list[j] ELSE list[j + 1]
<1> DEFINE a == SubSeq(list, 1, i - 1)
           b == SubSeq(list, i + 1, Len(list))
<1>1. i \in Nat /\ Len(list) \in Nat /\ 1 <= i /\ i <= Len(list)
  BY LenProperties
<1>2. a \in Seq(S) /\ Len(a) = i - 1 /\ \A j \in 1 .. i - 1 : a[j] = list[j]
  BY <1>1, SubSeqProperties
<1>3. b \in Seq(S) /\ Len(b) = Len(list) - i
        /\ \A j \in 1 .. Len(list) - i : b[j] = list[i + j]
  BY <1>1, SubSeqProperties
<1>4. SE!RemoveAt(list, i) = a \o b
  BY DEF SE!RemoveAt
<1> HIDE DEF a, b
<1>5. /\ a \o b \in Seq(S)
      /\ Len(a \o b) = Len(list) - 1
      /\ \A j \in 1 .. Len(list) - 1 :
           (a \o b)[j] = IF j <= i - 1 THEN a[j] ELSE b[j - (i - 1)]
  <2>1. /\ a \o b \in Seq(S)
        /\ Len(a \o b) = Len(a) + Len(b)
        /\ \A j \in 1 .. Len(a) + Len(b) :
             (a \o b)[j] = IF j <= Len(a) THEN a[j] ELSE b[j - Len(a)]
    BY <1>2, <1>3, ConcatProperties
  <2>2. Len(a) + Len(b) = Len(list) - 1
    BY <1>1, <1>2, <1>3
  <2> QED BY <2>1, <2>2, <1>2
<1>6. ASSUME NEW j \in 1 .. Len(list) - 1
      PROVE  (a \o b)[j] = IF j < i THEN list[j] ELSE list[j + 1]
  <2>1. CASE j < i
    BY <2>1, <1>1, <1>2, <1>5
  <2>2. CASE ~ j < i
    <3>1. j - (i - 1) \in 1 .. Len(list) - i /\ i + (j - (i - 1)) = j + 1
      BY <2>2, <1>1
    <3> QED BY <2>2, <3>1, <1>1, <1>3, <1>5
  <2> QED BY <2>1, <2>2
<1> QED BY <1>4, <1>5, <1>6

(* A new node at position i moves those behind it up by one.               *)
LEMMA InsertAtFacts ==
  ASSUME NEW S, NEW list \in Seq(S), NEW i \in 1 .. Len(list), NEW t \in S
  PROVE  /\ InsertAt(list, i, t) \in Seq(S)
         /\ Len(InsertAt(list, i, t)) = Len(list) + 1
         /\ \A j \in 1 .. Len(list) + 1 :
              InsertAt(list, i, t)[j] = IF j < i THEN list[j]
                                        ELSE IF j = i THEN t ELSE list[j - 1]
<1> DEFINE a == SubSeq(list, 1, i - 1)
           b == SubSeq(list, i, Len(list))
           n == <<t>>
<1>1. i \in Nat /\ Len(list) \in Nat /\ 1 <= i /\ i <= Len(list)
  BY LenProperties
<1>2. a \in Seq(S) /\ Len(a) = i - 1 /\ \A j \in 1 .. i - 1 : a[j] = list[j]
  BY <1>1, SubSeqProperties
<1>3. b \in Seq(S) /\ Len(b) = Len(list) - i + 1
        /\ \A j \in 1 .. Len(list) - i + 1 : b[j] = list[i + j - 1]
  BY <1>1, SubSeqProperties
<1>4. n \in Seq(S) /\ Len(n) = 1 /\ n[1] = t
  OBVIOUS
<1>5. InsertAt(list, i, t) = (a \o n) \o b
  BY DEF InsertAt, SE!InsertAt
<1> HIDE DEF a, b, n
<1>6. /\ a \o n \in Seq(S)
      /\ Len(a \o n) = i
      /\ \A j \in 1 .. i : (a \o n)[j] = IF j <= i - 1 THEN a[j] ELSE n[j - (i - 1)]
  <2>1. /\ a \o n \in Seq(S)
        /\ Len(a \o n) = Len(a) + Len(n)
        /\ \A j \in 1 .. Len(a) + Len(n) :
             (a \o n)[j] = IF j <= Len(a) THEN a[j] ELSE n[j - Len(a)]
    BY <1>2, <1>4, ConcatProperties
  <2>2. Len(a) + Len(n) = i
    BY <1>1, <1>2, <1>4
  <2> QED BY <2>1, <2>2, <1>2
<1>7. /\ (a \o n) \o b \in Seq(S)
      /\ Len((a \o n) \o b) = Len(list) + 1
      /\ \A j \in 1 .. Len(list) + 1 :
           ((a \o n) \o b)[j] = IF j <= i THEN (a \o n)[j] ELSE b[j - i]
  <2> DEFINE c == a \o n
  <2>0. c \in Seq(S) /\ Len(c) = i
    BY <1>6
  <2> HIDE DEF c
  <2>1. /\ c \o b \in Seq(S)
        /\ Len(c \o b) = Len(c) + Len(b)
        /\ \A j \in 1 .. Len(c) + Len(b) :
             (c \o b)[j] = IF j <= Len(c) THEN c[j] ELSE b[j - Len(c)]
    BY <2>0, <1>3, ConcatProperties
  <2>2. Len(c) + Len(b) = Len(list) + 1
    BY <1>1, <2>0, <1>3
  <2>3. /\ c \o b \in Seq(S)
        /\ Len(c \o b) = Len(list) + 1
        /\ \A j \in 1 .. Len(list) + 1 :
             (c \o b)[j] = IF j <= i THEN c[j] ELSE b[j - i]
    BY <2>0, <2>1, <2>2
  <2> QED BY <2>3 DEF c
<1>8. ASSUME NEW j \in 1 .. Len(list) + 1
      PROVE  ((a \o n) \o b)[j] = IF j < i THEN list[j]
                                  ELSE IF j = i THEN t ELSE list[j - 1]
  <2>1. CASE j < i
    BY <2>1, <1>1, <1>2, <1>6, <1>7
  <2>2. CASE j = i
    <3>1. j - (i - 1) = 1
      BY <2>2, <1>1
    <3> QED BY <2>2, <3>1, <1>1, <1>4, <1>6, <1>7
  <2>3. CASE j > i
    <3>1. j - i \in 1 .. Len(list) - i + 1 /\ i + (j - i) - 1 = j - 1
      BY <2>3, <1>1
    <3> QED BY <2>3, <3>1, <1>1, <1>3, <1>7
  <2>4. j < i \/ j = i \/ j > i
    BY <1>1
  <2> QED BY <2>1, <2>2, <2>3, <2>4
<1> QED BY <1>5, <1>7, <1>8

(* The node found by a scan of the list.                                   *)
LEMMA LeastFacts ==
  ASSUME NEW n \in Nat, NEW T \in SUBSET (1 .. n), T # {}
  PROVE  Least(T) \in T /\ \A j \in T : Least(T) <= j
<1>1. T \subseteq Nat
  OBVIOUS
<1>2. \E i \in T : \A j \in T : i <= j
  BY <1>1, LeastExists
<1> QED BY <1>2, Zenon DEF Least

-----------------------------------------------------------------------------

(* aaListRemove takes out the one node of t, and nothing else.             *)
LEMMA ListRemoveFacts ==
  ASSUME NEW S, NEW list \in Seq(S), NoRepeat(list), NEW t
  PROVE  /\ ListRemove(list, t) \in Seq(S)
         /\ Range(ListRemove(list, t)) = Range(list) \ {t}
         /\ NoRepeat(ListRemove(list, t))
         /\ t \in Range(list) => (ListRemove(list, t) = << >> <=> Len(list) = 1)
         /\ \A v \in [S -> Int] :
              Ascending(list, v) => Ascending(ListRemove(list, t), v)
<1>1. CASE t \notin Range(list)
  BY <1>1 DEF ListRemove
<1>2. CASE t \in Range(list)
  <2> DEFINE T == {j \in DOMAIN list : list[j] = t}
             i == Least(T)
             r == SE!RemoveAt(list, i)
  <2>1. Len(list) \in Nat /\ DOMAIN list = 1 .. Len(list)
    BY LenProperties
  <2>2. T # {} /\ T \in SUBSET (1 .. Len(list))
    BY <1>2, <2>1 DEF Range
  <2>3. i \in T
    BY <2>1, <2>2, LeastFacts
  <2>4. i \in 1 .. Len(list) /\ list[i] = t
    BY <2>1, <2>3
  <2>5. ListRemove(list, t) = r
    BY <1>2 DEF ListRemove
  <2> HIDE DEF i
  <2>6. /\ r \in Seq(S)
        /\ Len(r) = Len(list) - 1
        /\ \A j \in 1 .. Len(list) - 1 :
             r[j] = IF j < i THEN list[j] ELSE list[j + 1]
    BY <2>4, RemoveAtFacts
  <2> HIDE DEF r
  <2>7. DOMAIN r = 1 .. Len(list) - 1
    BY <2>6, LenProperties
  <2>8. \A j \in 1 .. Len(list) : list[j] = t => j = i
    BY <2>1, <2>4 DEF NoRepeat
  <2>9. \A j \in DOMAIN r : r[j] \in Range(list) \ {t}
    <3> SUFFICES ASSUME NEW j \in DOMAIN r PROVE r[j] \in Range(list) \ {t}
      OBVIOUS
    <3> DEFINE k == IF j < i THEN j ELSE j + 1
    <3>1. k \in 1 .. Len(list) /\ k # i /\ j \in 1 .. Len(list) - 1
      BY <2>1, <2>4, <2>7
    <3>2. r[j] = list[k]
      BY <3>1, <2>6
    <3> HIDE DEF k
    <3> QED BY <3>1, <3>2, <2>1, <2>8 DEF Range
  <2>10. ASSUME NEW j \in 1 .. Len(list), j # i
         PROVE  \E n \in DOMAIN r : r[n] = list[j]
    <3>1. CASE j < i
      <4>1. j \in 1 .. Len(list) - 1
        BY <3>1, <2>1, <2>4
      <4> QED BY <3>1, <4>1, <2>6, <2>7
    <3>2. CASE j > i
      <4>1. j - 1 \in 1 .. Len(list) - 1 /\ ~ (j - 1 < i) /\ (j - 1) + 1 = j
        BY <3>2, <2>1, <2>4
      <4> QED BY <4>1, <2>6, <2>7
    <3> QED BY <3>1, <3>2, <2>4, <2>10
  <2>11. Range(r) = Range(list) \ {t}
    <3>1. Range(r) \subseteq Range(list) \ {t}
      BY <2>9 DEF Range
    <3>2. ASSUME NEW u \in Range(list) \ {t}
          PROVE  u \in Range(r)
      <4>1. PICK j \in 1 .. Len(list) : list[j] = u
        BY <2>1 DEF Range
      <4>2. j # i
        BY <4>1, <2>4
      <4> QED BY <4>1, <4>2, <2>10 DEF Range
    <3> QED BY <3>1, <3>2
  <2>12. NoRepeat(r)
    <3> SUFFICES ASSUME NEW a \in DOMAIN r, NEW b \in DOMAIN r, r[a] = r[b]
                 PROVE  a = b
      BY DEF NoRepeat
    <3> DEFINE f(n) == IF n < i THEN n ELSE n + 1
    <3>1. f(a) \in DOMAIN list /\ f(b) \in DOMAIN list
      BY <2>1, <2>4, <2>7
    <3>2. list[f(a)] = list[f(b)]
      BY <2>6, <2>7
    <3>3. f(a) = f(b)
      BY <3>1, <3>2, Zenon DEF NoRepeat
    <3> QED BY <3>3, <2>1, <2>4, <2>7
  <2>13. r = << >> <=> Len(list) = 1
    BY <2>1, <2>4, <2>6, EmptySeq
  <2>14. ASSUME NEW v \in [S -> Int], Ascending(list, v)
         PROVE  Ascending(r, v)
    <3> SUFFICES ASSUME NEW a \in DOMAIN r, NEW b \in DOMAIN r, a < b
                 PROVE  v[r[a]] <= v[r[b]]
      BY DEF Ascending
    <3> DEFINE f(n) == IF n < i THEN n ELSE n + 1
    <3>1. f(a) \in DOMAIN list /\ f(b) \in DOMAIN list /\ f(a) < f(b)
      <4>1. a \in 1 .. Len(list) - 1 /\ b \in 1 .. Len(list) - 1 /\ i \in Nat
        BY <2>1, <2>4, <2>7
      <4>2. f(a) \in 1 .. Len(list) /\ f(b) \in 1 .. Len(list)
        <5>1. \A n \in 1 .. Len(list) - 1 : n \in 1 .. Len(list) /\ n + 1 \in 1 .. Len(list)
          BY <2>1
        <5> QED BY <4>1, <5>1
      <4>3. f(a) < f(b)
        BY <4>1
      <4> QED BY <4>2, <4>3, <2>1
    <3>2. r[a] = list[f(a)] /\ r[b] = list[f(b)]
      BY <2>6, <2>7
    <3> QED BY <3>1, <3>2, <2>14, Zenon DEF Ascending
  <2> QED BY <2>5, <2>6, <2>11, <2>12, <2>13, <2>14
<1> QED BY <1>1, <1>2

(* aaListAddTail, of a task that is not in the list.                       *)
LEMMA AppendFacts ==
  ASSUME NEW S, NEW list \in Seq(S), NoRepeat(list), NEW t \in S
  PROVE  /\ Append(list, t) \in Seq(S)
         /\ Append(list, t) # << >>
         /\ Range(Append(list, t)) = Range(list) \cup {t}
         /\ t \notin Range(list) => NoRepeat(Append(list, t))
         /\ \A v \in [S -> Int] :
              Ascending(list, v) /\ (\A u \in Range(list) : v[u] <= v[t])
                => Ascending(Append(list, t), v)
<1> DEFINE r == Append(list, t)
<1>1. Len(list) \in Nat /\ DOMAIN list = 1 .. Len(list)
  BY LenProperties
<1>2. /\ r \in Seq(S) /\ r # << >> /\ Len(r) = Len(list) + 1
      /\ \A i \in 1 .. Len(list) : r[i] = list[i]
      /\ r[Len(list) + 1] = t
  BY AppendProperties
<1> HIDE DEF r
<1>3. DOMAIN r = 1 .. Len(list) + 1
  BY <1>2, LenProperties
<1>4. \A i \in DOMAIN r : i \in DOMAIN list \/ i = Len(list) + 1
  BY <1>1, <1>3
<1>5. Range(r) = Range(list) \cup {t}
  BY <1>1, <1>2, <1>3, <1>4 DEF Range
<1>6. ASSUME t \notin Range(list)
      PROVE  NoRepeat(r)
  <2>1. \A i \in DOMAIN list : list[i] # t
    BY <1>6 DEF Range
  <2> QED BY <2>1, <1>1, <1>2, <1>3, <1>4 DEF NoRepeat
<1>7. ASSUME NEW v \in [S -> Int], Ascending(list, v),
             \A u \in Range(list) : v[u] <= v[t]
      PROVE  Ascending(r, v)
  <2> SUFFICES ASSUME NEW a \in DOMAIN r, NEW b \in DOMAIN r, a < b
               PROVE  v[r[a]] <= v[r[b]]
    BY DEF Ascending
  <2>1. a \in DOMAIN list
    BY <1>1, <1>3
  <2>2. CASE b \in DOMAIN list
    BY <2>1, <2>2, <1>1, <1>2, <1>7 DEF Ascending
  <2>3. CASE b = Len(list) + 1
    BY <2>1, <2>3, <1>1, <1>2, <1>7 DEF Range
  <2> QED BY <2>2, <2>3, <1>4
<1> QED BY <1>2, <1>5, <1>6, <1>7 DEF r

(* aaListAddBefore, of a task that is not in the list.                     *)
LEMMA InsertFacts ==
  ASSUME NEW S, NEW list \in Seq(S), NoRepeat(list), NEW t \in S,
         NEW i \in 1 .. Len(list)
  PROVE  /\ InsertAt(list, i, t) \in Seq(S)
         /\ InsertAt(list, i, t) # << >>
         /\ Range(InsertAt(list, i, t)) = Range(list) \cup {t}
         /\ t \notin Range(list) => NoRepeat(InsertAt(list, i, t))
         /\ \A v \in [S -> Int] :
              /\ Ascending(list, v)
              /\ \A j \in 1 .. i - 1 : v[list[j]] <= v[t]
              /\ v[t] <= v[list[i]]
              => Ascending(InsertAt(list, i, t), v)
<1> DEFINE r == InsertAt(list, i, t)
<1>1. Len(list) \in Nat /\ DOMAIN list = 1 .. Len(list) /\ i \in Nat /\ 1 <= i
        /\ i <= Len(list)
  BY LenProperties
<1>2. /\ r \in Seq(S) /\ Len(r) = Len(list) + 1
      /\ \A j \in 1 .. Len(list) + 1 :
           r[j] = IF j < i THEN list[j] ELSE IF j = i THEN t ELSE list[j - 1]
  <2> HIDE DEF r
  <2>1. r \in Seq(S) /\ Len(r) = Len(list) + 1
    BY InsertAtFacts DEF r
  <2>2. \A j \in 1 .. Len(list) + 1 :
          InsertAt(list, i, t)[j] = IF j < i THEN list[j] ELSE IF j = i THEN t ELSE list[j - 1]
    BY InsertAtFacts
  <2> QED BY <2>1, <2>2 DEF r
<1> HIDE DEF r
<1> DEFINE f(n) == IF n < i THEN n ELSE n - 1
<1>3. DOMAIN r = 1 .. Len(list) + 1 /\ r # << >>
  BY <1>1, <1>2, LenProperties, EmptySeq
<1>4. r[i] = t /\ i \in DOMAIN r
  BY <1>1, <1>2, <1>3
<1>5. \A j \in DOMAIN r : j # i => f(j) \in DOMAIN list /\ r[j] = list[f(j)]
  BY <1>1, <1>2, <1>3
<1>6. ASSUME NEW j \in DOMAIN list
      PROVE  \E n \in DOMAIN r : r[n] = list[j]
  <2>1. CASE j < i
    <3>1. j \in DOMAIN r /\ j # i /\ f(j) = j
      BY <2>1, <1>1, <1>3
    <3> QED BY <3>1, <1>5
  <2>2. CASE ~ j < i
    <3>1. j + 1 \in DOMAIN r /\ j + 1 # i /\ f(j + 1) = j
      BY <2>2, <1>1, <1>3
    <3> QED BY <3>1, <1>5
  <2> QED BY <2>1, <2>2
<1>7. Range(r) = Range(list) \cup {t}
  <2>1. Range(r) \subseteq Range(list) \cup {t}
    BY <1>4, <1>5, Zenon DEF Range
  <2>2. Range(list) \cup {t} \subseteq Range(r)
    BY <1>4, <1>6 DEF Range
  <2> QED BY <2>1, <2>2
<1>8. ASSUME t \notin Range(list)
      PROVE  NoRepeat(r)
  <2> SUFFICES ASSUME NEW a \in DOMAIN r, NEW b \in DOMAIN r, r[a] = r[b]
               PROVE  a = b
    BY DEF NoRepeat
  <2>1. \A j \in DOMAIN list : list[j] # t
    BY <1>8 DEF Range
  <2>2. CASE a = i \/ b = i
    BY <2>1, <2>2, <1>4, <1>5
  <2>3. CASE a # i /\ b # i
    <3>1. f(a) = f(b)
      BY <2>3, <1>5, Zenon DEF NoRepeat
    <3> QED BY <3>1, <2>3, <1>1, <1>3
  <2> QED BY <2>2, <2>3
<1>9. ASSUME NEW v \in [S -> Int], Ascending(list, v),
             \A j \in 1 .. i - 1 : v[list[j]] <= v[t], v[t] <= v[list[i]]
      PROVE  Ascending(r, v)
  <2> SUFFICES ASSUME NEW a \in DOMAIN r, NEW b \in DOMAIN r, a < b
               PROVE  v[r[a]] <= v[r[b]]
    BY DEF Ascending
  <2>1. CASE a # i /\ b # i
    <3>1. f(a) < f(b) /\ f(a) \in DOMAIN list /\ f(b) \in DOMAIN list
      <4>1. a \in Nat /\ b \in Nat /\ i \in Nat
        BY <1>1, <1>3
      <4>2. f(a) < f(b)
        BY <4>1, <2>1
      <4> QED BY <4>2, <2>1, <1>5
    <3>2. v[list[f(a)]] <= v[list[f(b)]]
      BY <3>1, <1>9, Zenon DEF Ascending
    <3> QED BY <3>2, <2>1, <1>5
  <2>2. CASE b = i
    <3>1. a \in 1 .. i - 1 /\ r[a] = list[a]
      BY <2>2, <1>1, <1>2, <1>3
    <3> QED BY <3>1, <2>2, <1>4, <1>9
  <2>3. CASE a = i
    <3>1. b - 1 \in DOMAIN list /\ r[b] = list[b - 1] /\ i <= b - 1
      BY <2>3, <1>1, <1>2, <1>3
    <3>2. v[list[i]] <= v[list[b - 1]]
      <4>1. CASE i = b - 1
        <5>1. list[i] \in S
          BY <1>1, ElementOfSeq
        <5> QED BY <4>1, <5>1
      <4>2. CASE i < b - 1
        BY <4>2, <3>1, <1>1, <1>9, Zenon DEF Ascending
      <4> QED BY <4>1, <4>2, <3>1, <1>1, <1>3
    <3>3. list[i] \in S /\ list[b - 1] \in S
      BY <3>1, <1>1, ElementOfSeq
    <3> QED BY <3>1, <3>2, <3>3, <2>3, <1>4, <1>9
  <2> QED BY <2>1, <2>2, <2>3
<1> QED BY <1>2, <1>3, <1>7, <1>8, <1>9 DEF r

(* aaListAddOrdered_, whatever the values of the nodes.                    *)
LEMMA AddOrderedFacts ==
  ASSUME NEW S, NEW list \in Seq(S), NoRepeat(list), NEW t \in S, NEW value
  PROVE  /\ AddOrdered(list, value, t) \in Seq(S)
         /\ AddOrdered(list, value, t) # << >>
         /\ Range(AddOrdered(list, value, t)) = Range(list) \cup {t}
         /\ t \notin Range(list) => NoRepeat(AddOrdered(list, value, t))
<1> DEFINE T == {i \in DOMAIN list : value[list[i]] < value[t]}
<1>1. CASE T = {}
  BY <1>1, AppendFacts DEF AddOrdered
<1>2. CASE T # {}
  <2>1. Len(list) \in Nat /\ DOMAIN list = 1 .. Len(list)
    BY LenProperties
  <2>2. T \in SUBSET (1 .. Len(list))
    BY <2>1
  <2>3. Least(T) \in 1 .. Len(list)
    BY <2>1, <2>2, <1>2, LeastFacts
  <2>4. AddOrdered(list, value, t) = InsertAt(list, Least(T), t)
    BY <1>2 DEF AddOrdered
  <2> DEFINE i == Least(T)
  <2> HIDE DEF i, T
  <2> QED BY <2>3, <2>4, InsertFacts DEF i
<1> QED BY <1>1, <1>2

(* The task at the head leaves the list.                                   *)
LEMMA TailFacts ==
  ASSUME NEW S, NEW list \in Seq(S), NoRepeat(list), list # << >>
  PROVE  /\ Tail(list) \in Seq(S)
         /\ Head(list) \in S /\ Head(list) \in Range(list)
         /\ Range(Tail(list)) = Range(list) \ {Head(list)}
         /\ NoRepeat(Tail(list))
<1> DEFINE r == Tail(list)
<1>1. Len(list) \in Nat \ {0} /\ DOMAIN list = 1 .. Len(list)
  BY LenProperties, EmptySeq
<1>2. /\ r \in Seq(S) /\ Head(list) \in S /\ Len(r) = Len(list) - 1
      /\ \A i \in 1 .. Len(r) : r[i] = list[i + 1]
  BY HeadTailProperties
<1>3. Head(list) = list[1]
  OBVIOUS
<1> HIDE DEF r
<1>4. DOMAIN r = 1 .. Len(list) - 1
  BY <1>2, LenProperties
<1>5. \A i \in DOMAIN r : r[i] = list[i + 1] /\ i + 1 \in DOMAIN list /\ i + 1 # 1
  BY <1>1, <1>2, <1>4
<1>6. \A i \in DOMAIN list : i # 1 => i - 1 \in DOMAIN r /\ r[i - 1] = list[i]
  BY <1>1, <1>2, <1>4
<1>7. Head(list) \in Range(list)
  BY <1>1, <1>3 DEF Range
<1>8. Range(r) = Range(list) \ {Head(list)}
  <2>1. \A i \in DOMAIN list : list[i] = list[1] => i = 1
    BY <1>1 DEF NoRepeat
  <2> QED BY <2>1, <1>1, <1>3, <1>5, <1>6 DEF Range
<1>9. NoRepeat(r)
  <2> SUFFICES ASSUME NEW a \in DOMAIN r, NEW b \in DOMAIN r, r[a] = r[b]
               PROVE  a = b
    BY DEF NoRepeat
  <2>1. a + 1 = b + 1
    BY <1>5, Zenon DEF NoRepeat
  <2> QED BY <2>1, <1>1, <1>4
<1> QED BY <1>2, <1>7, <1>8, <1>9 DEF r

(* Empty lists hold nobody.                                                *)
LEMMA EmptyFacts ==
  ASSUME NEW S, NEW list \in Seq(S)
  PROVE  /\ list = << >> <=> Range(list) = {}
         /\ Range(list) \subseteq S
<1>1. Len(list) \in Nat /\ DOMAIN list = 1 .. Len(list)
  BY LenProperties
<1>2. list # << >> => 1 \in DOMAIN list
  BY <1>1, EmptySeq
<1>3. list = << >> => DOMAIN list = {}
  BY <1>1, EmptySeq
<1>4. \A i \in DOMAIN list : list[i] \in S
  BY <1>1, ElementOfSeq
<1> QED BY <1>2, <1>3, <1>4 DEF Range

(* A finite set as a list.                                                 *)
LEMMA SetToSeqFacts ==
  ASSUME NEW S, IsFiniteSet(S)
  PROVE  LET list == SE!SetToSeq(S) IN
         list \in Seq(S) /\ NoRepeat(list) /\ Range(list) = S
<1> DEFINE n == Cardinality(S)
           list == SE!SetToSeq(S)
<1>1. n \in Nat /\ ExistsBijection(1 .. n, S)
  BY FS_CardinalityType
<1>2. PICK f \in Bijection(1 .. n, S) : TRUE
  BY <1>1 DEF ExistsBijection
<1>3. f \in [1 .. n -> S] /\ IsInjective(f)
  BY DEF Bijection, Injection
<1>4. list = CHOOSE g \in [1 .. n -> S] : IsInjective(g)
  BY DEF SE!SetToSeq, SE!IsInjective, IsInjective, SE!Cardinality, Cardinality
<1> HIDE DEF list
<1>5. list \in [1 .. n -> S] /\ IsInjective(list)
  BY <1>3, <1>4
<1>6. list \in Injection(1 .. n, S)
  BY <1>5 DEF Injection
<1>7. IsFiniteSet(1 .. n) /\ Cardinality(1 .. n) = n
  BY <1>1, FS_Interval
<1>8. list \in Surjection(1 .. n, S)
  BY <1>6, <1>7, FS_Injection
<1>9. Range(list) = S
  BY <1>5, <1>8 DEF Surjection, Range
<1>10. list \in Seq(S)
  BY <1>1, <1>5
<1>11. NoRepeat(list)
  BY <1>5 DEF NoRepeat, IsInjective
<1> QED BY <1>9, <1>10, <1>11 DEF list

(* The empty list.                                                         *)
LEMMA NoNodes == NoRepeat(<< >>) /\ Range(<< >>) = {} /\ DOMAIN << >> = {}
<1>1. << >> \in Seq({})
  BY EmptySeq
<1>2. DOMAIN << >> = 1 .. Len(<< >>) /\ Len(<< >>) = 0
  BY <1>1, LenProperties, EmptySeq
<1>3. DOMAIN << >> = {}
  BY <1>2
<1> QED BY <1>3 DEF NoRepeat, Range
=============================================================================
