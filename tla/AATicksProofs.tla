--------------------------- MODULE AATicksProofs ---------------------------
(***************************************************************************)
(* The two lists of the tick handler, proved for every number of tasks and *)
(* timers and for every delay: the differences the nodes keep come to a    *)
(* count of ticks for each node, which only the ticks bring down.          *)
(***************************************************************************)
EXTENDS AATicks, AAListProofs

(* The nodes of l keep in v the differences of the counts c: inf is for    *)
(* ever, and is not counted.                                               *)
Spaced(l, v, c, inf) ==
  \A i \in 1 .. Len(l) :
    IF v[l[i]] = inf THEN c[l[i]] = inf
    ELSE /\ c[l[i]] = (IF i = 1 THEN 0 ELSE c[l[i-1]]) + v[l[i]]
         /\ c[l[i]] < inf

(* Counts never decrease along a list.                                     *)
LEMMA CountsAscend ==
  ASSUME NEW S, NEW inf \in Nat, NEW l \in Seq(S), NEW v \in [S -> 0 .. inf],
         NEW c \in [S -> Int], Spaced(l, v, c, inf)
  PROVE  /\ \A u \in Range(l) : c[u] \in 0 .. inf
         /\ \A i \in 1 .. Len(l) : \A j \in i .. Len(l) : c[l[i]] <= c[l[j]]
<1>1. Len(l) \in Nat /\ DOMAIN l = 1 .. Len(l) /\ \A i \in 1 .. Len(l) : l[i] \in S
  BY LenProperties, ElementOfSeq
<1>2. \A i \in 1 .. Len(l) : c[l[i]] \in Int /\ c[l[i]] <= inf /\ v[l[i]] \in 0 .. inf
  BY <1>1 DEF Spaced
<1>3. ASSUME NEW i \in 2 .. Len(l)
      PROVE  i - 1 \in 1 .. Len(l) /\ c[l[i-1]] <= c[l[i]]
  <2>1. i \in 1 .. Len(l) /\ i - 1 \in 1 .. Len(l) /\ i # 1
    BY <1>1
  <2>2. c[l[i]] = inf \/ c[l[i]] = c[l[i-1]] + v[l[i]]
    BY <2>1 DEF Spaced
  <2> DEFINE x == c[l[i-1]]
             y == c[l[i]]
             z == v[l[i]]
  <2>3. x \in Int /\ x <= inf /\ y \in Int /\ z \in 0 .. inf /\ (y = inf \/ y = x + z)
    BY <2>1, <2>2, <1>2
  <2> HIDE DEF x, y, z
  <2>4. x <= y
    BY <2>3
  <2> QED BY <2>1, <2>4 DEF x, y
<1>4. 1 <= Len(l) => 0 <= c[l[1]]
  <2>1. 1 <= Len(l) => 1 \in 1 .. Len(l)
    BY <1>1
  <2> QED BY <2>1, <1>2 DEF Spaced
<1>5. ASSUME NEW a \in 1 .. Len(l)
      PROVE  \A i \in a .. Len(l) : c[l[a]] <= c[l[i]]
  <2> DEFINE bad == {i \in a .. Len(l) : ~ (c[l[a]] <= c[l[i]])}
  <2>1. ASSUME bad # {} PROVE FALSE
    <3>1. bad \subseteq Nat
      BY <1>1
    <3>2. PICK i \in bad : \A j \in bad : i <= j
      BY <2>1, <3>1, LeastExists
    <3>3. i # a
      BY <1>1, <1>2
    <3>4. i \in 2 .. Len(l) /\ i \in 1 .. Len(l) /\ i - 1 \in 1 .. Len(l) /\ i - 1 \in a .. Len(l)
      BY <3>3, <1>1
    <3>5. i - 1 \notin bad
      <4>1. ~ (i <= i - 1)
        BY <3>4
      <4> HIDE DEF bad
      <4> QED BY <3>2, <4>1
    <3>6. c[l[a]] <= c[l[i-1]] /\ c[l[i-1]] <= c[l[i]]
      BY <3>5, <3>4, <1>3
    <3>7. c[l[a]] \in Int /\ c[l[i-1]] \in Int /\ c[l[i]] \in Int
      BY <3>4, <1>2
    <3>8. ~ (c[l[a]] <= c[l[i]])
      BY <3>2
    <3> DEFINE low  == c[l[a]]
               mid  == c[l[i-1]]
               high == c[l[i]]
    <3>9. low \in Int /\ mid \in Int /\ high \in Int /\ low <= mid /\ mid <= high /\ ~ (low <= high)
      BY <3>6, <3>7, <3>8
    <3> HIDE DEF low, mid, high
    <3> QED BY <3>9
  <2> QED BY <2>1
<1>6. ASSUME NEW u \in Range(l)
      PROVE  c[u] \in 0 .. inf
  <2>1. PICK i \in 1 .. Len(l) : l[i] = u
    BY <1>1 DEF Range
  <2>2. 1 <= Len(l) /\ 1 \in 1 .. Len(l) /\ i \in 1 .. Len(l)
    BY <2>1, <1>1
  <2> QED BY <2>1, <2>2, <1>2, <1>4, <1>5
<1> QED BY <1>5, <1>6

-----------------------------------------------------------------------------
(* The place of a node in a list without repetitions.                      *)
LEMMA PlaceOf ==
  ASSUME NEW S, NEW l \in Seq(S), NoRepeat(l), NEW t \in Range(l)
  PROVE  /\ (CHOOSE j \in DOMAIN l : l[j] = t) \in 1 .. Len(l)
         /\ l[CHOOSE j \in DOMAIN l : l[j] = t] = t
         /\ \A j \in 1 .. Len(l) : l[j] = t => j = CHOOSE k \in DOMAIN l : l[k] = t
<1>1. Len(l) \in Nat /\ DOMAIN l = 1 .. Len(l)
  BY LenProperties
<1> DEFINE p == CHOOSE j \in DOMAIN l : l[j] = t
<1>2. p \in DOMAIN l /\ l[p] = t
  BY DEF Range
<1> HIDE DEF p
<1>3. \A j \in 1 .. Len(l) : l[j] = t => j = p
  BY <1>1, <1>2 DEF NoRepeat
<1> QED BY <1>1, <1>2, <1>3 DEF p

(* aaListRemove takes out the node at that place.                          *)
LEMMA RemovedAt ==
  ASSUME NEW S, NEW l \in Seq(S), NoRepeat(l), NEW i \in 1 .. Len(l)
  PROVE  ListRemove(l, l[i]) = SE!RemoveAt(l, i)
<1>1. Len(l) \in Nat /\ DOMAIN l = 1 .. Len(l)
  BY LenProperties
<1> DEFINE T == {j \in DOMAIN l : l[j] = l[i]}
<1>2. T = {i}
  BY <1>1 DEF NoRepeat
<1>3. Least({i}) = i
  BY <1>1 DEF Least
<1>4. l[i] \in Range(l)
  BY <1>1 DEF Range
<1> QED BY <1>2, <1>3, <1>4 DEF ListRemove

-----------------------------------------------------------------------------
(* aaRemoveFromDelayedList_ and aaTimerStop: the next node gets the time   *)
(* of the one that is taken out.                                           *)
HandOver(l, v, t, inf) ==
  LET i == CHOOSE j \in DOMAIN l : l[j] = t
  IN  IF i < Len(l) /\ v[l[i+1]] # inf THEN [v EXCEPT ![l[i+1]] = @ + v[t]] ELSE v

(* The difference between neighbours.                                      *)
LEMMA Neighbours ==
  ASSUME NEW S, NEW inf \in Nat, NEW l \in Seq(S), NEW v, NEW c, Spaced(l, v, c, inf)
  PROVE  \A i \in 1 .. Len(l) - 1 :
           IF v[l[i+1]] = inf THEN c[l[i+1]] = inf
           ELSE c[l[i+1]] = c[l[i]] + v[l[i+1]] /\ c[l[i+1]] < inf
<1>1. Len(l) \in Nat
  BY LenProperties
<1>2. ASSUME NEW i \in 1 .. Len(l) - 1
      PROVE  IF v[l[i+1]] = inf THEN c[l[i+1]] = inf
             ELSE c[l[i+1]] = c[l[i]] + v[l[i+1]] /\ c[l[i+1]] < inf
  <2> DEFINE k == i + 1
  <2>1. k \in 1 .. Len(l) /\ k # 1 /\ k - 1 = i
    BY <1>1
  <2> HIDE DEF k
  <2>2. IF v[l[k]] = inf THEN c[l[k]] = inf
        ELSE c[l[k]] = (IF k = 1 THEN 0 ELSE c[l[k-1]]) + v[l[k]] /\ c[l[k]] < inf
    BY <2>1, Zenon DEF Spaced
  <2>3. IF v[l[k]] = inf THEN c[l[k]] = inf
        ELSE c[l[k]] = c[l[i]] + v[l[k]] /\ c[l[k]] < inf
    BY <2>1, <2>2
  <2> QED BY <2>3 DEF k
<1> QED BY <1>2

(* The counts of the other nodes stay.                                     *)
LEMMA RemovalKeepsCounts ==
  ASSUME NEW S, NEW inf \in Nat \ {0}, NEW l \in Seq(S), NoRepeat(l),
         NEW v \in [S -> 0 .. inf], NEW c \in [S -> Int], Spaced(l, v, c, inf),
         NEW t \in Range(l)
  PROVE  /\ HandOver(l, v, t, inf) \in [S -> 0 .. inf]
         /\ Spaced(ListRemove(l, t), HandOver(l, v, t, inf), c, inf)
<1>1. Len(l) \in Nat /\ DOMAIN l = 1 .. Len(l) /\ \A i \in 1 .. Len(l) : l[i] \in S
  BY LenProperties, ElementOfSeq
<1> DEFINE i == CHOOSE j \in DOMAIN l : l[j] = t
           r == ListRemove(l, t)
           w == HandOver(l, v, t, inf)
<1>2. i \in 1 .. Len(l) /\ l[i] = t
  BY PlaceOf
<1>3. w = IF i < Len(l) /\ v[l[i+1]] # inf THEN [v EXCEPT ![l[i+1]] = @ + v[t]] ELSE v
  BY DEF HandOver
<1>4. r = SE!RemoveAt(l, i)
  BY <1>2, RemovedAt
<1> HIDE DEF i, r, w
<1>5. /\ Len(r) = Len(l) - 1
      /\ \A j \in 1 .. Len(l) - 1 : r[j] = IF j < i THEN l[j] ELSE l[j + 1]
  BY <1>2, <1>4, RemoveAtFacts
<1>6. \A j \in 1 .. Len(l) : c[l[j]] \in Int /\ c[l[j]] <= inf /\ v[l[j]] \in 0 .. inf
  BY <1>1 DEF Spaced
<1>7. \A j, k \in 1 .. Len(l) : l[j] = l[k] => j = k
  BY <1>1 DEF NoRepeat
<1>8. \A u \in Range(l) : c[u] \in 0 .. inf
  BY CountsAscend
<1>9. \A j \in 1 .. Len(l) : 0 <= c[l[j]]
  <2> SUFFICES ASSUME NEW j \in 1 .. Len(l) PROVE 0 <= c[l[j]]
    OBVIOUS
  <2>1. l[j] \in Range(l)
    BY <1>1 DEF Range
  <2> QED BY <2>1, <1>8
(* The node behind t, when it does not wait for ever.                      *)
<1>10. ASSUME i < Len(l), v[l[i+1]] # inf
       PROVE  /\ v[t] # inf
              /\ v[l[i+1]] + v[t] \in 0 .. inf - 1
              /\ c[l[i+1]] = (IF i = 1 THEN 0 ELSE c[l[i-1]]) + (v[l[i+1]] + v[t])
              /\ c[l[i+1]] < inf
  <2>1. i + 1 \in 1 .. Len(l) /\ i + 1 # 1 /\ i + 1 - 1 = i
    BY <1>10, <1>1, <1>2
  <2>2. c[l[i+1]] = c[l[i]] + v[l[i+1]] /\ c[l[i+1]] < inf
    <3>1. i \in 1 .. Len(l) - 1
      BY <1>10, <1>1, <1>2
    <3> QED BY <3>1, <1>10, Neighbours
  <2>3. c[l[i]] < inf
    BY <2>1, <2>2, <1>2, <1>6
  <2>4. v[l[i]] # inf
    BY <2>3, <1>2 DEF Spaced
  <2>5. c[l[i]] = (IF i = 1 THEN 0 ELSE c[l[i-1]]) + v[l[i]]
    BY <2>4, <1>2 DEF Spaced
  <2>6. i # 1 => i - 1 \in 1 .. Len(l)
    BY <1>1, <1>2
  <2> DEFINE b == IF i = 1 THEN 0 ELSE c[l[i-1]]
  <2>7. b \in Nat
    BY <2>6, <1>6, <1>9
  <2>8. c[l[i]] \in Int /\ c[l[i+1]] \in Int /\ v[l[i]] \in 0 .. inf /\ v[l[i+1]] \in 0 .. inf
    BY <2>1, <1>2, <1>6
  <2>9. c[l[i]] = b + v[l[i]]
    BY <2>5
  <2> HIDE DEF b
  <2>10. /\ v[l[i+1]] + v[l[i]] \in 0 .. inf - 1
         /\ c[l[i+1]] = b + (v[l[i+1]] + v[l[i]])
    <3>1. ASSUME NEW x \in Int, NEW y \in Int, NEW p \in Nat, NEW q \in Nat,
                 y = x + q, x = b + p, y < inf
          PROVE  q + p \in 0 .. inf - 1 /\ y = b + (q + p)
      BY <3>1, <2>7
    <3>2. v[l[i]] \in Nat /\ v[l[i+1]] \in Nat
      BY <2>8
    <3> DEFINE p == v[l[i]]
               q == v[l[i+1]]
               x == c[l[i]]
               y == c[l[i+1]]
    <3>3. p \in Nat /\ q \in Nat /\ x \in Int /\ y \in Int /\ y = x + q /\ x = b + p /\ y < inf
      BY <3>2, <2>2, <2>8, <2>9
    <3> HIDE DEF p, q, x, y
    <3>4. q + p \in 0 .. inf - 1 /\ y = b + (q + p)
      BY <3>1, <3>3
    <3> QED BY <3>4 DEF p, q, x, y
  <2> QED BY <2>2, <2>4, <2>10, <1>2 DEF b
<1>11. w \in [S -> 0 .. inf]
  <2>1. CASE i < Len(l) /\ v[l[i+1]] # inf
    <3>1. v[l[i+1]] + v[t] \in 0 .. inf
      BY <2>1, <1>10
    <3>2. i + 1 \in 1 .. Len(l)
      BY <2>1, <1>1, <1>2
    <3> QED BY <2>1, <3>1, <3>2, <1>1, <1>3
  <2> QED BY <2>1, <1>3
<1>12. ASSUME NEW j \in 1 .. Len(r)
       PROVE  IF w[r[j]] = inf THEN c[r[j]] = inf
              ELSE /\ c[r[j]] = (IF j = 1 THEN 0 ELSE c[r[j-1]]) + w[r[j]]
                   /\ c[r[j]] < inf
  <2>1. j \in 1 .. Len(l) - 1 /\ j \in 1 .. Len(l) /\ j + 1 \in 1 .. Len(l) /\ j \in Nat
    BY <1>1, <1>5
  <2>2. \A k \in 1 .. Len(l) : k # i + 1 => w[l[k]] = v[l[k]]
    <3> SUFFICES ASSUME NEW k \in 1 .. Len(l), k # i + 1 PROVE w[l[k]] = v[l[k]]
      OBVIOUS
    <3>1. CASE i < Len(l) /\ v[l[i+1]] # inf
      <4>1. i + 1 \in 1 .. Len(l)
        BY <3>1, <1>1, <1>2
      <4>2. l[k] # l[i+1]
        BY <4>1, <1>7
      <4> QED BY <3>1, <4>2, <1>1, <1>3
    <3> QED BY <3>1, <1>3
  <2>3. j # 1 => j - 1 \in 1 .. Len(l) - 1
    BY <2>1, <1>1
  <2>4. CASE j < i
    <3>0. j # 1 => j - 1 < i
      BY <2>1, <2>4, <1>2
    <3>1. r[j] = l[j] /\ (j # 1 => r[j-1] = l[j-1])
      BY <3>0, <2>1, <2>3, <2>4, <1>5, Zenon
    <3>2. w[l[j]] = v[l[j]]
      BY <2>1, <2>2, <2>4, <1>2
    <3> QED BY <2>1, <3>1, <3>2 DEF Spaced
  <2>5. CASE j = i
    <3>0. ~ (j < i) /\ (j # 1 => j - 1 < i)
      BY <2>1, <2>5, <1>2
    <3>1. r[j] = l[i+1] /\ (j # 1 => r[j-1] = l[i-1])
      BY <3>0, <2>1, <2>3, <2>5, <1>5, Zenon
    <3>2. i < Len(l)
      BY <2>1, <2>5, <1>1
    <3>3. CASE v[l[i+1]] = inf
      <4>1. w = v
        BY <3>3, <1>3
      <4>2. c[l[i+1]] = inf
        BY <3>3, <2>1, <2>5 DEF Spaced
      <4> QED BY <3>1, <3>3, <4>1, <4>2
    <3>4. CASE v[l[i+1]] # inf
      <4>1. w[l[i+1]] = v[l[i+1]] + v[t]
        BY <3>2, <3>4, <2>1, <2>5, <1>1, <1>3
      <4>2. w[l[i+1]] # inf
        BY <4>1, <3>2, <3>4, <1>10
      <4> QED BY <2>5, <3>1, <3>2, <3>4, <4>1, <4>2, <1>10
    <3> QED BY <3>3, <3>4
  <2>6. CASE j > i
    <3>1. r[j] = l[j+1] /\ r[j-1] = l[j] /\ j # 1 /\ j + 1 # 1 /\ j + 1 - 1 = j
      <4>1. j # 1 /\ j - 1 \in 1 .. Len(l) - 1 /\ ~ (j - 1 < i) /\ ~ (j < i) /\ j - 1 + 1 = j
        BY <2>1, <2>6, <1>1, <1>2
      <4> DEFINE m == j - 1
      <4>2. r[j] = l[j+1] /\ r[m] = l[m+1]
        BY <4>1, <2>1, <1>5, Zenon
      <4>3. m + 1 = j /\ j + 1 # 1 /\ j + 1 - 1 = j
        BY <2>1
      <4>4. l[m+1] = l[j]
        BY <4>3, Zenon
      <4> QED BY <4>1, <4>2, <4>3, <4>4, Zenon
    <3>2. w[l[j+1]] = v[l[j+1]]
      BY <2>1, <2>2, <2>6, <1>2
    <3>3. IF v[l[j+1]] = inf THEN c[l[j+1]] = inf
          ELSE c[l[j+1]] = c[l[j]] + v[l[j+1]] /\ c[l[j+1]] < inf
      BY <2>1, Neighbours
    <3> QED BY <3>1, <3>2, <3>3
  <2>7. j < i \/ j = i \/ j > i
    BY <2>1, <1>2
  <2> QED BY <2>4, <2>5, <2>6, <2>7
<1>13. Spaced(r, w, c, inf)
  BY <1>12, Zenon DEF Spaced
<1> QED BY <1>11, <1>13 DEF r, w

-----------------------------------------------------------------------------
(* aaListAddAfter behind the last node.                                    *)
LEMMA InsertedLast ==
  ASSUME NEW S, NEW l \in Seq(S), NEW t \in S
  PROVE  InsertAt(l, Len(l) + 1, t) = Append(l, t)
<1> DEFINE n == Len(l)
           a == SubSeq(l, 1, n + 1 - 1)
           b == SubSeq(l, n + 1, n)
<1>1. n \in Nat
  BY LenProperties
<1>2. a = l
  <2>1. n + 1 - 1 = n
    BY <1>1
  <2>2. SubSeq(l, 1, n) = l
    BY SubSeqFull
  <2> QED BY <2>1, <2>2
<1>3. b = << >>
  BY <1>1, SubSeqEmpty
<1>4. InsertAt(l, n + 1, t) = (a \o <<t>>) \o b
  BY DEF InsertAt, SE!InsertAt
<1>5. (l \o <<t>>) \o << >> = Append(l, t)
  <2>1. Append(l, t) \in Seq(S) /\ Append(l, t) = l \o <<t>>
    BY AppendProperties, AppendIsConcat
  <2> QED BY <2>1, ConcatEmptySeq
<1> QED BY <1>2, <1>3, <1>4, <1>5

(* A new node anywhere.                                                    *)
LEMMA InsertedAt ==
  ASSUME NEW S, NEW l \in Seq(S), NoRepeat(l), NEW t \in S, t \notin Range(l),
         NEW p \in 0 .. Len(l)
  PROVE  LET r == InsertAt(l, p + 1, t) IN
         /\ r \in Seq(S) /\ NoRepeat(r) /\ Range(r) = Range(l) \cup {t}
         /\ Len(r) = Len(l) + 1
         /\ \A j \in 1 .. Len(l) + 1 :
              r[j] = IF j <= p THEN l[j] ELSE IF j = p + 1 THEN t ELSE l[j - 1]
<1> DEFINE r == InsertAt(l, p + 1, t)
<1>1. Len(l) \in Nat
  BY LenProperties
<1>2. CASE p = Len(l)
  <2>1. r = Append(l, t)
    BY <1>2, InsertedLast
  <2>2. r \in Seq(S) /\ NoRepeat(r) /\ Range(r) = Range(l) \cup {t}
    <3>1. /\ Append(l, t) \in Seq(S) /\ NoRepeat(Append(l, t))
          /\ Range(Append(l, t)) = Range(l) \cup {t}
      BY AppendFacts
    <3> QED BY <2>1, <3>1
  <2>3. /\ Len(r) = Len(l) + 1
        /\ \A j \in 1 .. Len(l) : r[j] = l[j]
        /\ r[Len(l) + 1] = t
    BY <2>1, AppendProperties
  <2> HIDE DEF r
  <2>4. \A j \in 1 .. Len(l) + 1 : (j <= p => j \in 1 .. Len(l)) /\ (~ (j <= p) => j = Len(l) + 1)
    BY <1>1, <1>2
  <2>5. \A j \in 1 .. Len(l) + 1 :
          r[j] = IF j <= p THEN l[j] ELSE IF j = p + 1 THEN t ELSE l[j - 1]
    BY <2>3, <2>4, <1>2
  <2> QED BY <2>2, <2>3, <2>5 DEF r
<1>3. CASE p # Len(l)
  <2>1. p + 1 \in 1 .. Len(l)
    BY <1>1, <1>3
  <2>2. r \in Seq(S) /\ NoRepeat(r) /\ Range(r) = Range(l) \cup {t}
    BY <2>1, InsertFacts
  <2>3. /\ Len(r) = Len(l) + 1
        /\ \A j \in 1 .. Len(l) + 1 :
             r[j] = IF j < p + 1 THEN l[j] ELSE IF j = p + 1 THEN t ELSE l[j - 1]
    <3> DEFINE i == p + 1
    <3>1. i \in 1 .. Len(l)
      BY <2>1
    <3> HIDE DEF i, r
    <3>2. /\ Len(InsertAt(l, i, t)) = Len(l) + 1
          /\ \A j \in 1 .. Len(l) + 1 :
               InsertAt(l, i, t)[j] = IF j < i THEN l[j] ELSE IF j = i THEN t ELSE l[j - 1]
      BY <3>1, InsertAtFacts
    <3> QED BY <3>2 DEF i, r
  <2> HIDE DEF r
  <2>4. \A j \in 1 .. Len(l) + 1 : j < p + 1 <=> j <= p
    BY <1>1
  <2>5. \A j \in 1 .. Len(l) + 1 :
          r[j] = IF j <= p THEN l[j] ELSE IF j = p + 1 THEN t ELSE l[j - 1]
    BY <2>3, <2>4
  <2> QED BY <2>2, <2>3, <2>5 DEF r
<1> QED BY <1>2, <1>3

-----------------------------------------------------------------------------
(* aaAddToDelayedList_ and aaTimerStart, behind p nodes: the new node gets *)
(* what is left of d, and the next one loses as much.                      *)
TakenFrom(l, v, c, t, d, p, inf) ==
  LET rest == d - (IF p = 0 THEN 0 ELSE c[l[p]])
      w    == [v EXCEPT ![t] = rest]
  IN  IF p < Len(l) /\ v[l[p+1]] # inf THEN [w EXCEPT ![l[p+1]] = @ - rest] ELSE w

(* The node counts d from then on, and the counts of the others stay.      *)
LEMMA InsertionKeepsCounts ==
  ASSUME NEW S, NEW inf \in Nat \ {0}, NEW l \in Seq(S), NoRepeat(l),
         NEW v \in [S -> 0 .. inf], NEW c \in [S -> Int], Spaced(l, v, c, inf),
         NEW t \in S, t \notin Range(l), NEW d \in 1 .. inf - 1, NEW p \in 0 .. Len(l),
         p > 0 => c[l[p]] < d,
         p < Len(l) => d <= c[l[p+1]]
  PROVE  /\ TakenFrom(l, v, c, t, d, p, inf) \in [S -> 0 .. inf]
         /\ Spaced(InsertAt(l, p + 1, t), TakenFrom(l, v, c, t, d, p, inf),
                   [c EXCEPT ![t] = d], inf)
<1>1. Len(l) \in Nat /\ DOMAIN l = 1 .. Len(l) /\ \A i \in 1 .. Len(l) : l[i] \in S
  BY LenProperties, ElementOfSeq
<1>2. \A u \in Range(l) : c[u] \in 0 .. inf
  BY CountsAscend
<1>3. \A j \in 1 .. Len(l) : l[j] \in Range(l)
  BY <1>1 DEF Range
<1>4. \A j \in 1 .. Len(l) : c[l[j]] \in Int /\ c[l[j]] <= inf /\ v[l[j]] \in 0 .. inf
  BY <1>1, <1>2, <1>3
<1>5. LET r == InsertAt(l, p + 1, t) IN
      /\ Len(r) = Len(l) + 1
      /\ \A j \in 1 .. Len(l) + 1 :
           r[j] = IF j <= p THEN l[j] ELSE IF j = p + 1 THEN t ELSE l[j - 1]
  BY InsertedAt
<1> DEFINE r == InsertAt(l, p + 1, t)
           w == TakenFrom(l, v, c, t, d, p, inf)
           e == [c EXCEPT ![t] = d]
           b == IF p = 0 THEN 0 ELSE c[l[p]]
           x == [v EXCEPT ![t] = d - b]
<1>6. w = IF p < Len(l) /\ v[l[p+1]] # inf THEN [x EXCEPT ![l[p+1]] = @ - (d - b)] ELSE x
  BY DEF TakenFrom
<1>7. /\ Len(r) = Len(l) + 1
       /\ \A j \in 1 .. Len(l) + 1 :
            r[j] = IF j <= p THEN l[j] ELSE IF j = p + 1 THEN t ELSE l[j - 1]
  BY <1>5
<1> HIDE DEF r, w
<1>8. \A j, k \in 1 .. Len(l) : l[j] = l[k] => j = k
  BY <1>1 DEF NoRepeat
<1>9. \A j \in 1 .. Len(l) : 0 <= c[l[j]] /\ l[j] # t
  BY <1>1, <1>2, <1>3
<1>10. \A j \in 1 .. Len(l) : e[l[j]] = c[l[j]] /\ x[l[j]] = v[l[j]]
  BY <1>1, <1>9
<1>11. e[t] = d /\ x[t] = d - b
  OBVIOUS
<1>12. b \in Nat /\ b < d /\ d - b \in 1 .. inf - 1
  <2>1. CASE p = 0
    BY <2>1
  <2>2. CASE p # 0
    <3>1. p \in 1 .. Len(l) /\ b = c[l[p]] /\ b < d
      BY <2>2, <1>1
    <3>2. b \in Int /\ 0 <= b
      BY <3>1, <1>4, <1>9
    <3> HIDE DEF b
    <3> QED BY <3>1, <3>2
  <2> QED BY <2>1, <2>2
<1>13. x \in [S -> 0 .. inf]
  BY <1>12
<1> HIDE DEF e, x
(* The node behind t.                                                      *)
<1>14. ASSUME p < Len(l), v[l[p+1]] # inf
       PROVE  /\ v[l[p+1]] - (d - b) \in 0 .. inf - 1
              /\ c[l[p+1]] = d + (v[l[p+1]] - (d - b))
              /\ c[l[p+1]] < inf
  <2> DEFINE k == p + 1
             n == v[l[k]]
             y == c[l[k]]
  <2>1. k \in 1 .. Len(l) /\ k - 1 = p /\ (k = 1 <=> p = 0)
    BY <1>14, <1>1
  <2>2. y = (IF k = 1 THEN 0 ELSE c[l[k-1]]) + n /\ y < inf
    BY <2>1, <1>14, Zenon DEF Spaced
  <2>3. y = b + n
    BY <2>1, <2>2
  <2>4. d <= y /\ y \in Int /\ n \in 0 .. inf
    BY <2>1, <1>4, <1>14
  <2> HIDE DEF n, y, b
  <2>5. y < inf
    BY <2>2
  <2>6. n - (d - b) \in 0 .. inf - 1 /\ y = d + (n - (d - b))
    BY <2>3, <2>4, <2>5, <1>12
  <2> QED BY <2>5, <2>6 DEF n, y
<1> HIDE DEF b
<1>15. w \in [S -> 0 .. inf]
  <2>1. CASE p < Len(l) /\ v[l[p+1]] # inf
    <3>1. v[l[p+1]] - (d - b) \in 0 .. inf
      BY <2>1, <1>14
    <3>2. p + 1 \in 1 .. Len(l)
      BY <2>1, <1>1
    <3>3. x[l[p+1]] = v[l[p+1]]
      BY <3>2, <1>10
    <3> QED BY <2>1, <3>1, <3>2, <3>3, <1>1, <1>6, <1>13
  <2> QED BY <2>1, <1>6, <1>13
<1>16. \A k \in 1 .. Len(l) : k # p + 1 => w[l[k]] = v[l[k]]
  <2> SUFFICES ASSUME NEW k \in 1 .. Len(l), k # p + 1 PROVE w[l[k]] = v[l[k]]
    OBVIOUS
  <2>1. CASE p < Len(l) /\ v[l[p+1]] # inf
    <3>1. p + 1 \in 1 .. Len(l)
      BY <2>1, <1>1
    <3>2. l[k] # l[p+1]
      BY <3>1, <1>8
    <3> QED BY <2>1, <3>2, <1>1, <1>6, <1>10, <1>13
  <2> QED BY <2>1, <1>6, <1>10
<1>17. w[t] = d - b
  <2>1. CASE p < Len(l) /\ v[l[p+1]] # inf
    <3>1. p + 1 \in 1 .. Len(l)
      BY <2>1, <1>1
    <3> QED BY <2>1, <3>1, <1>6, <1>9, <1>11, <1>13
  <2> QED BY <2>1, <1>6, <1>11
<1>18. ASSUME NEW j \in 1 .. Len(r)
       PROVE  IF w[r[j]] = inf THEN e[r[j]] = inf
              ELSE /\ e[r[j]] = (IF j = 1 THEN 0 ELSE e[r[j-1]]) + w[r[j]]
                   /\ e[r[j]] < inf
  <2>1. j \in 1 .. Len(l) + 1 /\ j \in Nat /\ 1 <= j
    BY <1>1, <1>7
  <2>2. j # 1 => j - 1 \in 1 .. Len(l) /\ j - 1 \in 1 .. Len(l) + 1
    BY <2>1, <1>1
  <2>3. CASE j <= p
    <3>1. j \in 1 .. Len(l) /\ j # p + 1 /\ (j # 1 => j - 1 <= p)
      BY <2>1, <2>3, <1>1
    <3>2. r[j] = l[j] /\ (j # 1 => r[j-1] = l[j-1])
      BY <2>1, <2>2, <2>3, <3>1, <1>7, Zenon
    <3>3. w[l[j]] = v[l[j]] /\ e[l[j]] = c[l[j]] /\ (j # 1 => e[l[j-1]] = c[l[j-1]])
      BY <3>1, <2>2, <1>10, <1>16
    <3> QED BY <3>1, <3>2, <3>3 DEF Spaced
  <2>4. CASE j = p + 1
    <3>1. ~ (j <= p) /\ (j = 1 <=> p = 0) /\ j - 1 = p
      BY <2>1, <2>4, <1>1
    <3>2. r[j] = t
      BY <2>1, <2>4, <3>1, <1>7, Zenon
    <3>3. j # 1 => e[r[j-1]] = c[l[p]]
      <4> SUFFICES ASSUME j # 1 PROVE e[r[j-1]] = c[l[p]]
        OBVIOUS
      <4>1. p \in 1 .. Len(l) /\ p \in 1 .. Len(l) + 1 /\ p <= p
        BY <2>2, <3>1
      <4>2. r[p] = l[p]
        BY <4>1, <1>7, Zenon
      <4> QED BY <4>1, <4>2, <3>1, <1>10
    <3>4. (IF j = 1 THEN 0 ELSE e[r[j-1]]) = b
      BY <3>1, <3>3 DEF b
    <3>5. w[t] # inf /\ d = b + w[t] /\ d < inf
      BY <1>12, <1>17
    <3> QED BY <3>2, <3>4, <3>5, <1>11
  <2>5. CASE j > p + 1
    <3> DEFINE k == j - 1
    <3>1. /\ k \in 1 .. Len(l) /\ k \in 1 .. Len(l) + 1 /\ ~ (j <= p) /\ j # p + 1 /\ j # 1
          /\ ~ (k <= p) /\ k >= p + 1
      BY <2>1, <2>2, <2>5, <1>1
    <3>2. r[j] = l[k]
      BY <2>1, <3>1, <1>7, Zenon
    <3>3. e[l[k]] = c[l[k]]
      BY <3>1, <1>10
    <3>4. CASE k = p + 1
      <4>1. r[k] = t
        BY <3>1, <3>4, <1>7, Zenon
      <4>2. p < Len(l)
        BY <3>1, <3>4, <1>1
      <4>3. CASE v[l[k]] = inf
        <5>1. w[l[k]] = inf
          BY <4>3, <3>1, <3>4, <1>6, <1>10
        <5>2. c[l[k]] = inf
          BY <3>1, <4>3, Zenon DEF Spaced
        <5> QED BY <5>1, <5>2, <3>2, <3>3
      <4>4. CASE v[l[k]] # inf
        <5>1. w[l[k]] = v[l[k]] - (d - b)
          BY <4>2, <4>4, <3>1, <3>4, <1>1, <1>6, <1>10, <1>13
        <5>2. w[l[k]] # inf /\ c[l[k]] = d + w[l[k]] /\ c[l[k]] < inf
          <6>1. /\ v[l[k]] - (d - b) \in 0 .. inf - 1
                /\ c[l[k]] = d + (v[l[k]] - (d - b))
                /\ c[l[k]] < inf
            BY <4>2, <4>4, <3>4, <1>14
          <6> QED BY <5>1, <6>1
        <5> QED BY <5>2, <4>1, <3>1, <3>2, <3>3, <1>11
      <4> QED BY <4>3, <4>4
    <3>5. CASE k # p + 1
      <4> DEFINE m == k - 1
      <4>1. m \in 1 .. Len(l) /\ m >= p + 1 /\ k # 1 /\ ~ (k <= p)
        BY <3>1, <3>5, <1>1
      <4>2. r[k] = l[m]
        BY <4>1, <3>1, <3>5, <1>7, Zenon
      <4>3. w[l[k]] = v[l[k]] /\ e[l[m]] = c[l[m]]
        BY <3>1, <3>5, <4>1, <1>10, <1>16
      <4>4. IF v[l[k]] = inf THEN c[l[k]] = inf
            ELSE c[l[k]] = c[l[m]] + v[l[k]] /\ c[l[k]] < inf
        BY <3>1, <4>1, Zenon DEF Spaced
      <4> QED BY <3>1, <3>2, <3>3, <4>2, <4>3, <4>4
    <3> QED BY <3>4, <3>5
  <2>6. j <= p \/ j = p + 1 \/ j > p + 1
    BY <2>1
  <2> QED BY <2>3, <2>4, <2>5, <2>6
<1>19. Spaced(r, w, e, inf)
  BY <1>18, Zenon DEF Spaced
<1> QED BY <1>15, <1>19 DEF r, w, e

-----------------------------------------------------------------------------
(* The place where a walk over n nodes stops.                              *)
LEMMA FirstStop ==
  ASSUME NEW n \in Nat, NEW stops \in SUBSET (0 .. n - 1)
  PROVE  LET p == IF stops = {} THEN n ELSE Least(stops) IN
         /\ p \in 0 .. n /\ (p < n => p \in stops)
         /\ \A i \in 0 .. n - 1 : i < p => i \notin stops
<1>1. CASE stops = {}
  BY <1>1
<1>2. CASE stops # {}
  <2>1. stops \subseteq Nat
    OBVIOUS
  <2>2. \E i \in stops : \A j \in stops : i <= j
    BY <1>2, <2>1, LeastExists
  <2> DEFINE p == Least(stops)
  <2>3. p \in stops /\ \A j \in stops : p <= j
    BY <2>2, Zenon DEF Least
  <2> HIDE DEF p
  <2>4. p \in 0 .. n - 1
    BY <2>3
  <2>5. ASSUME NEW i \in 0 .. n - 1, i < p PROVE i \notin stops
    BY <2>3, <2>4, <2>5
  <2>6. p \in 0 .. n
    BY <2>4
  <2> QED BY <1>2, <2>3, <2>5, <2>6 DEF p
<1> QED BY <1>1, <1>2

(* The walk for a delay of d passes p nodes: rest is what is left.         *)
WalkPasses(rest, l, v, p) ==
  /\ p < Len(l) => rest[p] <= v[l[p+1]]
  /\ \A i \in 0 .. Len(l) - 1 : i < p => ~ (rest[i] <= v[l[i+1]])

RestIs(rest, l, c, d, inf) ==
  /\ 0 < Len(l) => rest[0] = d
  /\ \A i \in 1 .. Len(l) - 1 : c[l[i]] < inf => rest[i] = d - c[l[i]]

(* The walk for a delay of d: it stops before the first node that counts   *)
(* at least as much; rest need be right only as long as nobody waits for   *)
(* ever.                                                                   *)
LEMMA WalkStops ==
  ASSUME NEW S, NEW inf \in Nat \ {0}, NEW l \in Seq(S),
         NEW v \in [S -> 0 .. inf], NEW c \in [S -> Int], Spaced(l, v, c, inf),
         NEW d \in 1 .. inf - 1, NEW rest, RestIs(rest, l, c, d, inf),
         NEW p \in 0 .. Len(l), WalkPasses(rest, l, v, p)
  PROVE  /\ p < Len(l) => d <= c[l[p+1]]
         /\ \A j \in 1 .. p : c[l[j]] < d
<1>1. Len(l) \in Nat /\ p \in Nat /\ \A i \in 1 .. Len(l) : l[i] \in S
  BY LenProperties, ElementOfSeq
(* Where the walk stops or does not.                                       *)
<1>2. ASSUME NEW i \in 0 .. Len(l) - 1, i > 0 => c[l[i]] < inf
      PROVE  rest[i] <= v[l[i+1]] <=> d <= c[l[i+1]]
  <2> DEFINE k == i + 1
             n == v[l[k]]
             y == c[l[k]]
             b == IF i = 0 THEN 0 ELSE c[l[i]]
  <2>1. k \in 1 .. Len(l) /\ k - 1 = i /\ (k = 1 <=> i = 0)
    BY <1>1
  <2>2. IF n = inf THEN y = inf
        ELSE y = (IF k = 1 THEN 0 ELSE c[l[k-1]]) + n /\ y < inf
    BY <2>1, Zenon DEF Spaced
  <2>3. IF n = inf THEN y = inf ELSE y = b + n /\ y < inf
    BY <2>1, <2>2
  <2>4. rest[i] = d - b /\ b \in Nat
    <3>1. CASE i = 0
      BY <3>1, <1>1 DEF RestIs
    <3>2. CASE i # 0
      <4>1. i \in 1 .. Len(l) - 1 /\ i \in 1 .. Len(l)
        BY <3>2, <1>1
      <4>2. c[l[i]] < inf
        BY <4>1, <1>2
      <4>3. c[l[i]] \in 0 .. inf
        <5>1. \A u \in Range(l) : c[u] \in 0 .. inf
          BY CountsAscend
        <5>2. l[i] \in Range(l)
          BY <4>1, LenProperties DEF Range
        <5> QED BY <5>1, <5>2
      <4> QED BY <4>1, <4>2, <4>3, <3>2 DEF RestIs
    <3> QED BY <3>1, <3>2
  <2>6. n \in 0 .. inf /\ y \in Int
    BY <2>1, <1>1
  <2> HIDE DEF n, y, b
  <2>7. d - b <= n <=> d <= y
    BY <2>3, <2>4, <2>6
  <2> QED BY <2>4, <2>7 DEF n, y
<1>3. \A j \in 1 .. p : c[l[j]] < d
  <2> DEFINE bad == {j \in 1 .. p : ~ (c[l[j]] < d)}
  <2>1. ASSUME bad # {} PROVE FALSE
    <3>1. bad \subseteq Nat
      BY <1>1
    <3>2. PICK j \in bad : \A k \in bad : j <= k
      BY <2>1, <3>1, LeastExists
    <3> DEFINE i == j - 1
    <3>3. i \in 0 .. Len(l) - 1 /\ i < p /\ i + 1 = j /\ j \in 1 .. Len(l)
      BY <1>1
    <3>4. i > 0 => c[l[i]] < inf
      <4> SUFFICES ASSUME i > 0 PROVE c[l[i]] < inf
        OBVIOUS
      <4>1. i \in 1 .. p /\ ~ (j <= i) /\ i \in 1 .. Len(l)
        BY <3>3, <1>1
      <4>2. i \notin bad
        BY <3>2, <4>1
      <4>3. c[l[i]] < d
        BY <4>1, <4>2
      <4> QED BY <4>1, <4>3, <1>1
    <3>5. ~ (rest[i] <= v[l[i+1]])
      BY <3>3 DEF WalkPasses
    <3>6. ~ (d <= c[l[i+1]])
      BY <3>3, <3>4, <3>5, <1>2
    <3>7. c[l[j]] \in Int
      BY <3>3, <1>1
    <3> QED BY <3>3, <3>6, <3>7
  <2> QED BY <2>1
<1>4. ASSUME p < Len(l) PROVE d <= c[l[p+1]]
  <2>1. p \in 0 .. Len(l) - 1 /\ (p > 0 => p \in 1 .. p /\ p \in 1 .. Len(l))
    BY <1>4, <1>1
  <2>2. p > 0 => c[l[p]] < inf
    BY <2>1, <1>1, <1>3
  <2> QED BY <2>1, <2>2, <1>2, <1>4 DEF WalkPasses
<1> QED BY <1>3, <1>4

-----------------------------------------------------------------------------
(* A tick brings down every finite count, and only the first node changes. *)
OneLess(l, c, e, inf) == \A u \in Range(l) : e[u] = IF c[u] = inf THEN inf ELSE c[u] - 1

HeadLess(l, v, inf) == IF v[l[1]] = inf THEN v ELSE [v EXCEPT ![l[1]] = @ - 1]

(* The tick, when nothing was due before it.                               *)
LEMMA TickCountsDown ==
  ASSUME NEW S, NEW inf \in Nat \ {0}, NEW l \in Seq(S), NoRepeat(l), l # << >>,
         NEW v \in [S -> 0 .. inf], NEW c \in [S -> Int], Spaced(l, v, c, inf),
         NEW e \in [S -> Int], OneLess(l, c, e, inf),
         c[l[1]] # 0
  PROVE  HeadLess(l, v, inf) \in [S -> 0 .. inf] /\ Spaced(l, HeadLess(l, v, inf), e, inf)
<1> DEFINE w == HeadLess(l, v, inf)
<1>0. w = IF v[l[1]] = inf THEN v ELSE [v EXCEPT ![l[1]] = @ - 1]
  BY DEF HeadLess
<1> HIDE DEF w
<1>1. /\ Len(l) \in Nat /\ DOMAIN l = 1 .. Len(l) /\ \A i \in 1 .. Len(l) : l[i] \in S
      /\ 1 \in 1 .. Len(l)
  BY LenProperties, ElementOfSeq, EmptySeq
<1>2. \A i \in 1 .. Len(l) : l[i] \in Range(l)
  BY <1>1 DEF Range
<1>3. \A i \in 1 .. Len(l) : c[l[i]] \in 0 .. inf /\ v[l[i]] \in 0 .. inf
  BY <1>1, <1>2, CountsAscend
<1>4. \A i \in 1 .. Len(l) : i # 1 => l[i] # l[1]
  BY <1>1 DEF NoRepeat
<1>5. IF v[l[1]] = inf THEN c[l[1]] = inf ELSE c[l[1]] = v[l[1]] /\ c[l[1]] < inf
  <2>1. IF v[l[1]] = inf THEN c[l[1]] = inf ELSE c[l[1]] = 0 + v[l[1]] /\ c[l[1]] < inf
    BY <1>1 DEF Spaced
  <2> QED BY <2>1, <1>1, <1>3
<1>6. w \in [S -> 0 .. inf]
  BY <1>0, <1>1, <1>3, <1>5
<1>7. \A i \in 1 .. Len(l) : i # 1 => w[l[i]] = v[l[i]]
  BY <1>0, <1>1, <1>4
<1>8. ASSUME NEW i \in 1 .. Len(l)
      PROVE  IF w[l[i]] = inf THEN e[l[i]] = inf
             ELSE /\ e[l[i]] = (IF i = 1 THEN 0 ELSE e[l[i-1]]) + w[l[i]]
                  /\ e[l[i]] < inf
  <2>1. CASE i = 1
    <3>1. CASE v[l[1]] = inf
      BY <2>1, <3>1, <1>0, <1>1, <1>2, <1>5 DEF OneLess
    <3>2. CASE v[l[1]] # inf
      <4>1. w[l[1]] = v[l[1]] - 1 /\ e[l[1]] = c[l[1]] - 1
        BY <3>2, <1>0, <1>1, <1>2, <1>5 DEF OneLess
      <4> QED BY <2>1, <3>2, <4>1, <1>1, <1>3, <1>5
    <3> QED BY <3>1, <3>2
  <2>2. CASE i # 1
    <3> DEFINE k == i - 1
    <3>1. k \in 1 .. Len(l)
      BY <2>2, <1>1
    <3>2. IF v[l[i]] = inf THEN c[l[i]] = inf
          ELSE c[l[i]] = c[l[k]] + v[l[i]] /\ c[l[i]] < inf
      BY <2>2, Zenon DEF Spaced
    <3>3. w[l[i]] = v[l[i]]
      BY <2>2, <1>7
    <3>4. /\ e[l[i]] = IF c[l[i]] = inf THEN inf ELSE c[l[i]] - 1
          /\ e[l[k]] = IF c[l[k]] = inf THEN inf ELSE c[l[k]] - 1
      BY <3>1, <1>2 DEF OneLess
    <3>5. CASE v[l[i]] = inf
      BY <3>2, <3>3, <3>4, <3>5
    <3>6. CASE v[l[i]] # inf
      <4> DEFINE x == c[l[i]]
                 y == c[l[k]]
                 n == v[l[i]]
      <4>1. x = y + n /\ x < inf
        BY <3>2, <3>6
      <4>2. x \in 0 .. inf /\ y \in 0 .. inf /\ n \in 0 .. inf
        BY <3>1, <1>3
      <4>3. /\ e[l[i]] = IF x = inf THEN inf ELSE x - 1
            /\ e[l[k]] = IF y = inf THEN inf ELSE y - 1
        BY <3>4
      <4> HIDE DEF k, x, y, n
      <4>4. x # inf /\ y # inf
        BY <4>1, <4>2
      <4>5. e[l[i]] = e[l[k]] + n /\ e[l[i]] < inf
        BY <4>1, <4>2, <4>3, <4>4
      <4> QED BY <2>2, <3>3, <3>6, <4>5 DEF k, n
    <3> QED BY <3>5, <3>6
  <2> QED BY <2>1, <2>2
<1>9. Spaced(l, w, e, inf)
  BY <1>8, Zenon DEF Spaced
<1> QED BY <1>6, <1>9 DEF w

-----------------------------------------------------------------------------
(* Two walks that start alike and go on alike agree.                       *)
Alike(f, g, n) == f[0] = g[0] /\ \A i \in 1 .. n : f[i-1] = g[i-1] => f[i] = g[i]

(* So a recursive function over the places has one value at each.          *)
LEMMA OneSolution ==
  ASSUME NEW n \in Nat, NEW f, NEW g, Alike(f, g, n)
  PROVE  \A i \in 0 .. n : f[i] = g[i]
<1> DEFINE bad == {i \in 0 .. n : f[i] # g[i]}
<1>1. ASSUME bad # {} PROVE FALSE
  <2>1. bad \subseteq Nat
    OBVIOUS
  <2>2. PICK i \in bad : \A j \in bad : i <= j
    BY <1>1, <2>1, LeastExists
  <2>3. i # 0
    BY DEF Alike
  <2>4. i \in 1 .. n /\ i - 1 \in 0 .. n /\ ~ (i <= i - 1)
    BY <2>3
  <2>5. i - 1 \notin bad
    BY <2>2, <2>4
  <2>6. f[i-1] = g[i-1]
    BY <2>4, <2>5
  <2> QED BY <2>4, <2>6 DEF Alike
<1> QED BY <1>1

(* What Left is, of a list l and its values v.                             *)
LeftOf(l, v) ==
  LET sum[i \in 0 .. Len(l)] == IF i = 0 THEN 0 ELSE sum[i-1] + v[l[i]]
  IN  [t \in Timer |-> IF t \in Range(l)
                       THEN sum[CHOOSE i \in DOMAIN l : l[i] = t] ELSE -1]

(* Before and after a step.                                                *)
LEMMA LeftIs == Left = LeftOf(list, value) /\ Left' = LeftOf(list', value')
BY DEF Left, LeftOf, InUse

(* A timer has left what its node counts.                                  *)
LEMMA LeftCounts ==
  ASSUME NEW l \in Seq(Timer), NoRepeat(l), NEW v \in [Timer -> 0 .. Infinite],
         NEW c \in [Timer -> Int], Spaced(l, v, c, Infinite),
         \A t \in Range(l) : c[t] # Infinite,
         \A t \in Timer \ Range(l) : c[t] = -1
  PROVE  LeftOf(l, v) = c
<1> DEFINE eq(f) == f = [i \in 0 .. Len(l) |-> IF i = 0 THEN 0 ELSE f[i-1] + v[l[i]]]
           g     == [i \in 0 .. Len(l) |-> IF i = 0 THEN 0 ELSE c[l[i]]]
           sum   == CHOOSE f : eq(f)
<1>1. Len(l) \in Nat /\ DOMAIN l = 1 .. Len(l) /\ \A i \in 1 .. Len(l) : l[i] \in Timer
  BY LenProperties, ElementOfSeq
<1>2. \A i \in 1 .. Len(l) : l[i] \in Range(l)
  BY <1>1 DEF Range
<1>3. ASSUME NEW i \in 1 .. Len(l)
      PROVE  g[i] = g[i-1] + v[l[i]]
  <2>1. v[l[i]] # Infinite
    BY <1>2, Zenon DEF Spaced
  <2>2. c[l[i]] = (IF i = 1 THEN 0 ELSE c[l[i-1]]) + v[l[i]]
    BY <2>1, Zenon DEF Spaced
  <2>3. g[i] = c[l[i]]
    BY <1>1
  <2>4. g[i-1] = IF i = 1 THEN 0 ELSE c[l[i-1]]
    BY <1>1
  <2> QED BY <2>2, <2>3, <2>4
<1>4. eq(g)
  <2>1. ASSUME NEW i \in 0 .. Len(l)
        PROVE  g[i] = IF i = 0 THEN 0 ELSE g[i-1] + v[l[i]]
    <3>1. i # 0 => i \in 1 .. Len(l)
      BY <1>1
    <3>2. i = 0 => g[i] = 0
      BY <1>1
    <3> HIDE DEF g
    <3> QED BY <3>1, <3>2, <1>3
  <2> DEFINE h == [i \in 0 .. Len(l) |-> IF i = 0 THEN 0 ELSE g[i-1] + v[l[i]]]
  <2>2. DOMAIN g = 0 .. Len(l) /\ g = [i \in DOMAIN g |-> g[i]]
    OBVIOUS
  <2> HIDE DEF g
  <2>3. g = [i \in 0 .. Len(l) |-> g[i]]
    BY <2>2
  <2>4. g = h
    BY <2>1, <2>3
  <2> QED BY <2>4
<1> HIDE DEF g
<1>5. eq(sum)
  BY <1>4, Zenon
<1> HIDE DEF sum
<1>6. \A i \in 0 .. Len(l) : sum[i] = IF i = 0 THEN 0 ELSE sum[i-1] + v[l[i]]
  BY <1>5
<1>7. \A i \in 0 .. Len(l) : sum[i] = g[i]
  <2>1. sum[0] = g[0]
    <3>1. 0 \in 0 .. Len(l)
      BY <1>1
    <3> QED BY <3>1, <1>6 DEF g
  <2>2. ASSUME NEW i \in 1 .. Len(l), sum[i-1] = g[i-1] PROVE sum[i] = g[i]
    <3>1. i \in 0 .. Len(l) /\ i # 0
      BY <1>1
    <3>2. sum[i] = sum[i-1] + v[l[i]]
      BY <3>1, <1>6
    <3>3. g[i] = g[i-1] + v[l[i]]
      BY <1>3
    <3> HIDE DEF g
    <3> QED BY <3>2, <3>3, <2>2
  <2>3. Alike(sum, g, Len(l))
    BY <2>1, <2>2 DEF Alike
  <2> QED BY <2>3, <1>1, OneSolution
<1>8. LeftOf(l, v) = [t \in Timer |-> IF t \in Range(l)
                                      THEN sum[CHOOSE i \in DOMAIN l : l[i] = t] ELSE -1]
  BY DEF LeftOf, sum
<1>9. ASSUME NEW t \in Timer
      PROVE  c[t] = IF t \in Range(l) THEN sum[CHOOSE i \in DOMAIN l : l[i] = t] ELSE -1
  <2>1. CASE t \in Range(l)
    <3> DEFINE i == CHOOSE j \in DOMAIN l : l[j] = t
    <3>1. i \in 1 .. Len(l) /\ l[i] = t
      BY <2>1, PlaceOf
    <3> HIDE DEF i
    <3>2. i \in 0 .. Len(l) /\ i # 0
      BY <3>1, <1>1
    <3>3. sum[i] = c[t]
      BY <3>1, <3>2, <1>7 DEF g
    <3> QED BY <2>1, <3>3 DEF i
  <2> QED BY <2>1
<1> QED BY <1>8, <1>9

(* aaAddToTimerList_: the timer counts its time-out.                       *)
LEMMA AddedCounts ==
  ASSUME NEW l \in Seq(Timer), NoRepeat(l), NEW v \in [Timer -> 0 .. Infinite],
         NEW c \in [Timer -> Int], Spaced(l, v, c, Infinite),
         \A u \in Range(l) : c[u] # Infinite,
         NEW t \in Timer, t \notin Range(l), timeout[t] \in 1 .. Infinite - 1,
         Added(l, v, t)
  PROVE  /\ list' \in Seq(Timer) /\ NoRepeat(list') /\ Range(list') = Range(l) \cup {t}
         /\ value' \in [Timer -> 0 .. Infinite]
         /\ Spaced(list', value', [c EXCEPT ![t] = timeout[t]], Infinite)
<1> DEFINE d     == timeout[t]
           eq(f) == f = [i \in 0 .. Len(l) |-> IF i = 0 THEN d ELSE f[i-1] - v[l[i]]]
           g     == [i \in 0 .. Len(l) |-> IF i = 0 THEN d ELSE d - c[l[i]]]
           rest  == CHOOSE f : eq(f)
           stops == {i \in 0 .. Len(l) - 1 : rest[i] <= v[l[i+1]]}
           p     == IF stops = {} THEN Len(l) ELSE Least(stops)
<1>1. Len(l) \in Nat /\ DOMAIN l = 1 .. Len(l) /\ \A i \in 1 .. Len(l) : l[i] \in Timer
  BY LenProperties, ElementOfSeq
<1>2. \A i \in 1 .. Len(l) : l[i] \in Range(l)
  BY <1>1 DEF Range
<1>3. d \in 1 .. Infinite - 1 /\ Infinite \in Nat \ {0}
  BY TimerAssumption DEF TimerAssumption
<1>4. \A i \in 1 .. Len(l) : v[l[i]] # Infinite
  BY <1>2, Zenon DEF Spaced
<1>5. /\ list' = InsertAt(l, p + 1, t)
      /\ value' = IF p < Len(l) THEN [[v EXCEPT ![t] = rest[p]] EXCEPT ![l[p+1]] = @ - rest[p]]
                                ELSE [v EXCEPT ![t] = rest[p]]
  BY DEF Added
<1> HIDE DEF d
<1>6. ASSUME NEW i \in 1 .. Len(l)
      PROVE  g[i] = g[i-1] - v[l[i]]
  <2> DEFINE x == IF i = 1 THEN 0 ELSE c[l[i-1]]
  <2>1. c[l[i]] = x + v[l[i]]
    BY <1>4, Zenon DEF Spaced
  <2>2. i # 1 => i - 1 \in 1 .. Len(l)
    BY <1>1
  <2>3. x \in Int /\ v[l[i]] \in Int /\ d \in Int
    BY <2>2, <1>1, <1>3
  <2>4. g[i] = d - c[l[i]]
    BY <1>1
  <2>5. g[i-1] = d - x
    <3>1. CASE i = 1
      BY <3>1, <1>1, <1>3
    <3>2. CASE i # 1
      <4>1. i - 1 \in 0 .. Len(l) /\ i - 1 # 0
        BY <2>2, <3>2, <1>1
      <4> QED BY <4>1, <3>2
    <3> QED BY <3>1, <3>2
  <2> HIDE DEF g, x
  <2> QED BY <2>1, <2>3, <2>4, <2>5
<1>7. eq(g)
  <2>1. ASSUME NEW i \in 0 .. Len(l)
        PROVE  g[i] = IF i = 0 THEN d ELSE g[i-1] - v[l[i]]
    <3>1. i # 0 => i \in 1 .. Len(l)
      BY <1>1
    <3>2. i = 0 => g[i] = d
      BY <1>1
    <3> HIDE DEF g
    <3> QED BY <3>1, <3>2, <1>6
  <2> DEFINE h == [i \in 0 .. Len(l) |-> IF i = 0 THEN d ELSE g[i-1] - v[l[i]]]
  <2>2. DOMAIN g = 0 .. Len(l) /\ g = [i \in DOMAIN g |-> g[i]]
    OBVIOUS
  <2> HIDE DEF g
  <2>3. g = [i \in 0 .. Len(l) |-> g[i]]
    BY <2>2
  <2>4. g = h
    BY <2>1, <2>3
  <2> QED BY <2>4
<1> HIDE DEF g
<1>8. eq(rest)
  BY <1>7, Zenon
<1> HIDE DEF rest
<1>9. \A i \in 0 .. Len(l) : rest[i] = IF i = 0 THEN d ELSE rest[i-1] - v[l[i]]
  BY <1>8
<1>10. \A i \in 0 .. Len(l) : rest[i] = g[i]
  <2>1. rest[0] = g[0]
    <3>1. 0 \in 0 .. Len(l)
      BY <1>1
    <3> QED BY <3>1, <1>9 DEF g
  <2>2. ASSUME NEW i \in 1 .. Len(l), rest[i-1] = g[i-1] PROVE rest[i] = g[i]
    <3>1. i \in 0 .. Len(l) /\ i # 0
      BY <1>1
    <3>2. rest[i] = rest[i-1] - v[l[i]]
      BY <3>1, <1>9
    <3> QED BY <3>2, <2>2, <1>6
  <2>3. Alike(rest, g, Len(l))
    BY <2>1, <2>2 DEF Alike
  <2> QED BY <2>3, <1>1, OneSolution
<1>11. \A i \in 0 .. Len(l) : rest[i] = IF i = 0 THEN d ELSE d - c[l[i]]
  BY <1>10 DEF g
<1>12. p \in 0 .. Len(l) /\ (p < Len(l) => p \in stops)
       /\ \A i \in 0 .. Len(l) - 1 : i < p => i \notin stops
  <2>1. stops \in SUBSET (0 .. Len(l) - 1)
    OBVIOUS
  <2> HIDE DEF stops
  <2> QED BY <2>1, <1>1, FirstStop, Zenon
<1> HIDE DEF p
<1>17. p \in 0 .. Len(l)
  BY <1>12
<1>18. RestIs(rest, l, c, d, Infinite)
  BY <1>1, <1>11 DEF RestIs
<1>19. WalkPasses(rest, l, v, p)
  BY <1>12 DEF WalkPasses
<1> HIDE DEF stops
<1>13. (p < Len(l) => d <= c[l[p+1]]) /\ \A j \in 1 .. p : c[l[j]] < d
  BY <1>3, <1>17, <1>18, <1>19, WalkStops
<1>14. value' = TakenFrom(l, v, c, t, d, p, Infinite)
  <2>1. rest[p] = d - (IF p = 0 THEN 0 ELSE c[l[p]])
    BY <1>3, <1>11, <1>12
  <2>2. p < Len(l) => v[l[p+1]] # Infinite
    <3>1. p < Len(l) => p + 1 \in 1 .. Len(l)
      BY <1>1, <1>12
    <3> QED BY <3>1, <1>4
  <2> QED BY <2>1, <2>2, <1>5 DEF TakenFrom
<1>15. /\ TakenFrom(l, v, c, t, d, p, Infinite) \in [Timer -> 0 .. Infinite]
       /\ Spaced(InsertAt(l, p + 1, t), TakenFrom(l, v, c, t, d, p, Infinite),
                 [c EXCEPT ![t] = d], Infinite)
  <2>1. p > 0 => c[l[p]] < d
    <3>1. p > 0 => p \in 1 .. p
      BY <1>12
    <3> QED BY <3>1, <1>13
  <2> QED BY <2>1, <1>3, <1>12, <1>13, InsertionKeepsCounts
<1>16. LET r == InsertAt(l, p + 1, t) IN
       r \in Seq(Timer) /\ NoRepeat(r) /\ Range(r) = Range(l) \cup {t}
  BY <1>17, InsertedAt
<1> QED BY <1>5, <1>14, <1>15, <1>16 DEF d

-----------------------------------------------------------------------------
(* Only the nodes in the list matter.                                      *)
LEMMA SpacedElsewhere ==
  ASSUME NEW S, NEW inf, NEW l \in Seq(S), NEW v, NEW c, NEW w, NEW e, Spaced(l, v, c, inf),
         \A u \in Range(l) : w[u] = v[u] /\ e[u] = c[u]
  PROVE  Spaced(l, w, e, inf)
<1>1. Len(l) \in Nat /\ DOMAIN l = 1 .. Len(l)
  BY LenProperties
<1>2. \A i \in 1 .. Len(l) : w[l[i]] = v[l[i]] /\ e[l[i]] = c[l[i]]
  BY <1>1 DEF Range
<1>3. ASSUME NEW i \in 1 .. Len(l)
      PROVE  IF w[l[i]] = inf THEN e[l[i]] = inf
             ELSE e[l[i]] = (IF i = 1 THEN 0 ELSE e[l[i-1]]) + w[l[i]] /\ e[l[i]] < inf
  <2>1. i # 1 => i - 1 \in 1 .. Len(l)
    BY <1>1
  <2>2. IF v[l[i]] = inf THEN c[l[i]] = inf
        ELSE c[l[i]] = (IF i = 1 THEN 0 ELSE c[l[i-1]]) + v[l[i]] /\ c[l[i]] < inf
    BY Zenon DEF Spaced
  <2>3. (IF i = 1 THEN 0 ELSE e[l[i-1]]) = (IF i = 1 THEN 0 ELSE c[l[i-1]])
    BY <2>1, <1>2
  <2> QED BY <2>2, <2>3, <1>2
<1> QED BY <1>3, Zenon DEF Spaced

(* The counts c are those of the timers in the list l with the values v.   *)
Counted(l, v, c) ==
  /\ l \in Seq(Timer) /\ NoRepeat(l)
  /\ v \in [Timer -> 0 .. Infinite]
  /\ c \in [Timer -> -1 .. Infinite - 1]
  /\ \A t \in Timer : c[t] = -1 <=> t \notin Range(l)
  /\ Spaced(l, v, c, Infinite)

(* They are what is left.                                                  *)
LEMMA CountedIsLeft ==
  ASSUME NEW l, NEW v, NEW c, Counted(l, v, c)
  PROVE  LeftOf(l, v) = c
<1>1. Infinite \in Nat \ {0}
  BY TimerAssumption DEF TimerAssumption
<1>2. l \in Seq(Timer) /\ NoRepeat(l) /\ v \in [Timer -> 0 .. Infinite] /\ c \in [Timer -> Int]
      /\ Spaced(l, v, c, Infinite)
  BY <1>1 DEF Counted
<1>3. Range(l) \subseteq Timer
  BY <1>2, EmptyFacts
<1>4. \A t \in Range(l) : c[t] # Infinite
  BY <1>1, <1>3 DEF Counted
<1>5. \A t \in Timer \ Range(l) : c[t] = -1
  BY DEF Counted
<1> QED BY <1>2, <1>4, <1>5, LeftCounts

(* aaTimerStop, the first half of aaTimerStart, and the timer called back. *)
LEMMA TakenOut ==
  ASSUME NEW c, Counted(list, value, c), NEW t \in Range(list)
  PROVE  /\ Counted(ListRemove(list, t), HandedOn(t), [c EXCEPT ![t] = -1])
         /\ Range(ListRemove(list, t)) = Range(list) \ {t}
<1> DEFINE r == ListRemove(list, t)
           e == [c EXCEPT ![t] = -1]
<1>1. Infinite \in Nat \ {0}
  BY TimerAssumption DEF TimerAssumption
<1>2. list \in Seq(Timer) /\ NoRepeat(list) /\ value \in [Timer -> 0 .. Infinite]
      /\ c \in [Timer -> -1 .. Infinite - 1] /\ c \in [Timer -> Int]
      /\ Spaced(list, value, c, Infinite)
  BY <1>1 DEF Counted
<1>3. Len(list) \in Nat /\ DOMAIN list = 1 .. Len(list)
  BY <1>2, LenProperties
<1>4. Range(list) \subseteq Timer /\ t \in Timer
  BY <1>2, EmptyFacts
<1>5. \A i \in 1 .. Len(list) : value[list[i]] # Infinite
  <2> SUFFICES ASSUME NEW i \in 1 .. Len(list), value[list[i]] = Infinite PROVE FALSE
    OBVIOUS
  <2>1. c[list[i]] = Infinite
    BY <1>2, Zenon DEF Spaced
  <2>2. list[i] \in Timer
    BY <1>2, <1>3, ElementOfSeq
  <2> QED BY <2>1, <2>2, <1>1, <1>2
<1>6. HandedOn(t) = HandOver(list, value, t, Infinite)
  <2> DEFINE i == CHOOSE j \in DOMAIN list : list[j] = t
  <2>1. i \in 1 .. Len(list)
    BY <1>2, PlaceOf
  <2>2. i < Len(list) => i + 1 \in 1 .. Len(list)
    BY <2>1, <1>3
  <2> HIDE DEF i
  <2>3. i < Len(list) => value[list[i+1]] # Infinite
    BY <2>2, <1>5
  <2> QED BY <2>3 DEF i, HandedOn, HandOver
<1>7. /\ HandedOn(t) \in [Timer -> 0 .. Infinite]
      /\ Spaced(r, HandedOn(t), c, Infinite)
  <2>1. /\ HandOver(list, value, t, Infinite) \in [Timer -> 0 .. Infinite]
        /\ Spaced(ListRemove(list, t), HandOver(list, value, t, Infinite), c, Infinite)
    BY <1>1, <1>2, RemovalKeepsCounts
  <2> QED BY <2>1, <1>6
<1>8. r \in Seq(Timer) /\ NoRepeat(r) /\ Range(r) = Range(list) \ {t}
  BY <1>2, ListRemoveFacts
<1> HIDE DEF r
<1>9. \A u \in Timer : e[u] = IF u = t THEN -1 ELSE c[u]
  BY <1>2
<1>10. e \in [Timer -> -1 .. Infinite - 1]
  <2>1. -1 \in -1 .. Infinite - 1
    BY <1>1
  <2> QED BY <2>1, <1>2
<1> HIDE DEF e
<1>11. \A u \in Range(r) : e[u] = c[u]
  BY <1>4, <1>8, <1>9
<1>12. Spaced(r, HandedOn(t), e, Infinite)
  BY <1>7, <1>8, <1>11, SpacedElsewhere
<1>13. \A u \in Timer : e[u] = -1 <=> u \notin Range(r)
  BY <1>8, <1>9 DEF Counted
<1>14. Counted(r, HandedOn(t), e)
  BY <1>7, <1>8, <1>10, <1>12, <1>13 DEF Counted
<1> QED BY <1>8, <1>14 DEF r, e

(* aaAddToTimerList_                                                       *)
LEMMA PutIn ==
  ASSUME NEW l, NEW v, NEW c, Counted(l, v, c), NEW t \in Timer, t \notin Range(l),
         timeout[t] \in 1 .. Infinite - 1, Added(l, v, t)
  PROVE  /\ Counted(list', value', [c EXCEPT ![t] = timeout[t]])
         /\ Range(list') = Range(l) \cup {t}
<1> DEFINE e == [c EXCEPT ![t] = timeout[t]]
<1>1. Infinite \in Nat \ {0}
  BY TimerAssumption DEF TimerAssumption
<1>2. l \in Seq(Timer) /\ NoRepeat(l) /\ v \in [Timer -> 0 .. Infinite]
      /\ c \in [Timer -> -1 .. Infinite - 1] /\ c \in [Timer -> Int]
      /\ Spaced(l, v, c, Infinite)
  BY <1>1 DEF Counted
<1>3. Range(l) \subseteq Timer
  BY <1>2, EmptyFacts
<1>4. \A u \in Range(l) : c[u] # Infinite
  BY <1>1, <1>2, <1>3
<1>5. /\ list' \in Seq(Timer) /\ NoRepeat(list') /\ Range(list') = Range(l) \cup {t}
      /\ value' \in [Timer -> 0 .. Infinite]
      /\ Spaced(list', value', e, Infinite)
  BY <1>2, <1>4, AddedCounts
<1>6. e \in [Timer -> -1 .. Infinite - 1]
  BY <1>1, <1>2
<1>7. \A u \in Timer : e[u] = IF u = t THEN timeout[t] ELSE c[u]
  BY <1>2
<1>8. timeout[t] # -1
  BY <1>1
<1> HIDE DEF e
<1>9. \A u \in Timer : e[u] = -1 <=> u \notin Range(list')
  BY <1>5, <1>7, <1>8 DEF Counted
<1>10. Counted(list', value', e)
  BY <1>5, <1>6, <1>9 DEF Counted
<1> QED BY <1>5, <1>10 DEF e

-----------------------------------------------------------------------------
(* The first node goes.                                                    *)
LEMMA TailIsRemoved ==
  ASSUME NEW S, NEW l \in Seq(S), NoRepeat(l), l # << >>
  PROVE  Tail(l) = ListRemove(l, l[1]) /\ Head(l) = l[1] /\ 1 \in 1 .. Len(l)
         /\ l[1] \in Range(l)
<1>1. Len(l) \in Nat \ {0} /\ DOMAIN l = 1 .. Len(l) /\ 1 \in 1 .. Len(l)
  BY LenProperties, EmptySeq
<1> DEFINE r == SE!RemoveAt(l, 1)
<1>2. ListRemove(l, l[1]) = r
  BY <1>1, RemovedAt
<1>3. /\ r \in Seq(S) /\ Len(r) = Len(l) - 1
      /\ \A j \in 1 .. Len(l) - 1 : r[j] = IF j < 1 THEN l[j] ELSE l[j + 1]
  BY <1>1, RemoveAtFacts
<1>4. /\ Tail(l) \in Seq(S) /\ Len(Tail(l)) = Len(l) - 1
      /\ \A j \in 1 .. Len(Tail(l)) : Tail(l)[j] = l[j + 1]
  BY HeadTailProperties
<1> HIDE DEF r
<1>5. \A j \in 1 .. Len(l) - 1 : r[j] = Tail(l)[j]
  BY <1>1, <1>3, <1>4
<1>6. r = Tail(l)
  BY <1>3, <1>4, <1>5, SeqEqual
<1>7. Head(l) = l[1] /\ l[1] \in Range(l)
  BY <1>1 DEF Range
<1> QED BY <1>1, <1>2, <1>6, <1>7

(* The inductive invariant of the timers: the differences come to what is  *)
(* left of each, nothing is due between two ticks, and the time-out of a   *)
(* timer with a call back is one that was asked for.                       *)
TimersCount ==
  /\ TypeOK
  /\ Counted(list, value, Left)
  /\ ~ scanning => \A t \in Timer : Left[t] # 0
  /\ \A t \in fn : timeout[t] \in Timeouts \cup {Infinite}

(* What the lists come to.                                                 *)
LEMMA LeftFollows ==
  ASSUME NEW c, Counted(list', value', c)
  PROVE  Left' = c /\ Counted(list', value', Left')
<1>1. Left' = c
  BY CountedIsLeft, LeftIs
<1> QED BY <1>1

(* Nothing is started at first.                                            *)
LEMMA TimersStart == Init => TimersCount /\ Promise!Init
<1> SUFFICES ASSUME Init PROVE TimersCount /\ Promise!Init
  OBVIOUS
<1>1. Infinite \in Nat \ {0} /\ -1 \in -1 .. Infinite - 1 /\ 0 \in 0 .. Infinite
      /\ Infinite \in 1 .. Infinite
  BY TimerAssumption DEF TimerAssumption
<1> DEFINE c == [t \in Timer |-> -1]
<1>2. NoRepeat(<< >>) /\ Range(<< >>) = {} /\ << >> \in Seq(Timer) /\ Len(<< >>) = 0
  BY NoNodes, EmptySeq
<1>3. value \in [Timer -> 0 .. Infinite]
  BY <1>1 DEF Init, Index
<1>4. c \in [Timer -> -1 .. Infinite - 1]
  BY <1>1
<1>5. \A i \in 1 .. Len(<< >>) : FALSE
  BY <1>2
<1>6. Spaced(<< >>, value, c, Infinite)
  BY <1>5, Zenon DEF Spaced
<1>7. Counted(<< >>, value, c)
  BY <1>2, <1>3, <1>4, <1>6 DEF Counted
<1>8. Left = c
  BY <1>7, CountedIsLeft, LeftIs DEF Init
<1>9. Promise!Init
  BY <1>8 DEF Promise!Init
<1>10. TypeOK
  BY <1>1, <1>2, <1>3 DEF Init, TypeOK
<1>11. TimersCount
  BY <1>7, <1>8, <1>10 DEF TimersCount, Init
<1> QED BY <1>9, <1>11

(* Nothing moves in the list.                                              *)
LEMMA NothingMoves ==
  ASSUME TimersCount, UNCHANGED <<list, value>>
  PROVE  Left' = Left /\ Counted(list', value', Left')
BY LeftIs DEF TimersCount

(* A timer that is stopped, or called back.                                *)
LEMMA StopCounts ==
  ASSUME TimersCount, NEW t \in Range(list),
         list' = ListRemove(list, t), value' = HandedOn(t)
  PROVE  Left' = [Left EXCEPT ![t] = -1] /\ Counted(list', value', Left')
<1>1. Counted(list', value', [Left EXCEPT ![t] = -1])
  BY TakenOut DEF TimersCount
<1> QED BY <1>1, LeftFollows

(* A timer that is started, or starts itself again.                        *)
LEMMA StartCounts ==
  ASSUME TimersCount, NEW t \in Timer, t \notin Range(list), Allocated(t), t \in fn,
         Added(list, value, t)
  PROVE  Left' = [Left EXCEPT ![t] = timeout[t]] /\ Counted(list', value', Left')
         /\ timeout[t] \in Timeouts
<1>1. timeout[t] \in Timeouts /\ timeout[t] \in 1 .. Infinite - 1
  BY TimerAssumption DEF TimerAssumption, TimersCount, Allocated
<1>2. Counted(list', value', [Left EXCEPT ![t] = timeout[t]])
  BY <1>1, PutIn DEF TimersCount
<1> QED BY <1>1, <1>2, LeftFollows

(* A started timer that is started again.                                  *)
LEMMA RestartCounts ==
  ASSUME TimersCount, NEW t \in Timer, t \in Range(list), Allocated(t), t \in fn,
         Added(ListRemove(list, t), HandedOn(t), t)
  PROVE  Left' = [Left EXCEPT ![t] = timeout[t]] /\ Counted(list', value', Left')
         /\ timeout[t] \in Timeouts
<1> DEFINE l == ListRemove(list, t)
           v == HandedOn(t)
           c == [Left EXCEPT ![t] = -1]
<1>1. timeout[t] \in Timeouts /\ timeout[t] \in 1 .. Infinite - 1
  BY TimerAssumption DEF TimerAssumption, TimersCount, Allocated
<1>2. Counted(l, v, c) /\ t \notin Range(l)
  BY TakenOut DEF TimersCount
<1> HIDE DEF l, v
<1>3. Added(l, v, t)
  BY DEF l, v
<1> HIDE DEF c
<1>4. Counted(list', value', [c EXCEPT ![t] = timeout[t]])
  BY <1>1, <1>2, <1>3, PutIn
<1>5. [c EXCEPT ![t] = timeout[t]] = [Left EXCEPT ![t] = timeout[t]]
  BY DEF c, TimersCount, Counted
<1> QED BY <1>1, <1>4, <1>5, LeftFollows

-----------------------------------------------------------------------------
(* Every step of a timer's life is one of the promise, or none.            *)
LEMMA CreateKeeps ==
  ASSUME TimersCount, NEW t \in Timer, TimerCreate(t)
  PROVE  TimersCount' /\ UNCHANGED Left
<1>1. UNCHANGED <<list, value, scanning, calling>>
  BY DEF TimerCreate
<1>2. Left' = Left /\ Counted(list', value', Left')
  BY <1>1, NothingMoves
<1>3. 1 \in 1 .. Infinite
  BY TimerAssumption DEF TimerAssumption
<1>4. TypeOK'
  BY <1>1, <1>3 DEF TimersCount, TypeOK, TimerCreate
<1>5. \A u \in fn' : timeout'[u] \in Timeouts \cup {Infinite}
  BY DEF TimersCount, TypeOK, TimerCreate
<1>6. ~ scanning' => \A u \in Timer : Left'[u] # 0
  BY <1>1, <1>2 DEF TimersCount
<1> QED BY <1>2, <1>4, <1>5, <1>6 DEF TimersCount

(* aaTimerSet                                                              *)
LEMMA SetKeeps ==
  ASSUME TimersCount, NEW t \in Timer, NEW d \in Timeouts, TimerSet(t, d)
  PROVE  TimersCount' /\ UNCHANGED Left
<1>1. UNCHANGED <<list, value, scanning, calling>>
  BY DEF TimerSet
<1>2. Left' = Left /\ Counted(list', value', Left')
  BY <1>1, NothingMoves
<1>3. d \in 1 .. Infinite
  BY TimerAssumption DEF TimerAssumption
<1>4. TypeOK'
  BY <1>1, <1>3 DEF TimersCount, TypeOK, TimerSet
<1>5. \A u \in fn' : timeout'[u] \in Timeouts \cup {Infinite}
  BY DEF TimersCount, TypeOK, TimerSet
<1>6. ~ scanning' => \A u \in Timer : Left'[u] # 0
  BY <1>1, <1>2 DEF TimersCount
<1> QED BY <1>2, <1>4, <1>5, <1>6 DEF TimersCount

(* aaTimerStart                                                            *)
LEMMA StartKeeps ==
  ASSUME TimersCount, NEW t \in Timer, TimerStart(t)
  PROVE  TimersCount' /\ Promise!Start(t)
<1>1. Allocated(t) /\ t \in fn /\ UNCHANGED <<timeout, fn, scanning, calling>>
  BY DEF TimerStart
<1>2. /\ Left' = [Left EXCEPT ![t] = timeout[t]] /\ Counted(list', value', Left')
      /\ timeout[t] \in Timeouts
  <2>1. CASE InUse(t)
    <3>1. t \in Range(list) /\ Added(ListRemove(list, t), HandedOn(t), t)
      BY <2>1 DEF TimerStart, InUse
    <3> QED BY <3>1, <1>1, RestartCounts
  <2>2. CASE ~ InUse(t)
    <3>1. t \notin Range(list) /\ Added(list, value, t)
      BY <2>2 DEF TimerStart, InUse
    <3> QED BY <3>1, <1>1, StartCounts
  <2> QED BY <2>1, <2>2
<1>3. Promise!Start(t)
  BY <1>2 DEF Promise!Start
<1>4. TypeOK'
  BY <1>1, <1>2 DEF TimersCount, TypeOK, Counted
<1>5. \A u \in fn' : timeout'[u] \in Timeouts \cup {Infinite}
  BY <1>1 DEF TimersCount
<1>6. ~ scanning' => \A u \in Timer : Left'[u] # 0
  <2>1. timeout[t] # 0
    BY <1>2, TimerAssumption DEF TimerAssumption
  <2> QED BY <2>1, <1>1, <1>2 DEF TimersCount, Counted
<1> QED BY <1>2, <1>3, <1>4, <1>5, <1>6 DEF TimersCount

(* aaTimerStop                                                             *)
LEMMA StopKeeps ==
  ASSUME TimersCount, NEW t \in Timer, TimerStop(t)
  PROVE  TimersCount' /\ Promise!Stop(t)
<1>1. t \in Range(list) /\ UNCHANGED <<timeout, fn, scanning, calling>>
      /\ list' = ListRemove(list, t) /\ value' = HandedOn(t)
  BY DEF TimerStop, InUse
<1>2. Left' = [Left EXCEPT ![t] = -1] /\ Counted(list', value', Left')
  BY <1>1, StopCounts
<1>3. Promise!Stop(t)
  BY <1>2 DEF Promise!Stop
<1>4. TypeOK'
  BY <1>1, <1>2 DEF TimersCount, TypeOK, Counted
<1>5. \A u \in fn' : timeout'[u] \in Timeouts \cup {Infinite}
  BY <1>1 DEF TimersCount
<1>6. ~ scanning' => \A u \in Timer : Left'[u] # 0
  BY <1>1, <1>2 DEF TimersCount, Counted
<1> QED BY <1>2, <1>3, <1>4, <1>5, <1>6 DEF TimersCount

(* aaTimerDelete                                                           *)
LEMMA DeleteKeeps ==
  ASSUME TimersCount, NEW t \in Timer, TimerDelete(t)
  PROVE  TimersCount' /\ Promise!Stop(t)
<1> DEFINE r == ListRemove(list, t)
           v == IF InUse(t) THEN HandedOn(t) ELSE value
           w == [v EXCEPT ![t] = Index]
           c == [Left EXCEPT ![t] = -1]
<1>1. UNCHANGED <<fn, scanning, calling>> /\ list' = r /\ value' = w
      /\ timeout' = [timeout EXCEPT ![t] = Infinite]
  BY DEF TimerDelete
<1>2. Counted(r, v, c) /\ t \notin Range(r)
  <2>1. CASE InUse(t)
    BY <2>1, TakenOut DEF TimersCount, InUse
  <2>2. CASE ~ InUse(t)
    <3>1. r = list /\ v = value
      BY <2>2 DEF InUse, ListRemove
    <3>2. Left[t] = -1 /\ Left \in [Timer -> -1 .. Infinite - 1]
      BY <2>2 DEF InUse, TimersCount, Counted
    <3>3. c = Left
      BY <3>2
    <3> QED BY <2>2, <3>1, <3>3 DEF InUse, TimersCount
  <2> QED BY <2>1, <2>2
<1> HIDE DEF r, v, c
<1>3. v \in [Timer -> 0 .. Infinite] /\ r \in Seq(Timer) /\ Range(r) \subseteq Timer
      /\ Spaced(r, v, c, Infinite)
  BY <1>2, EmptyFacts DEF Counted
<1>4. w \in [Timer -> 0 .. Infinite]
  <2>1. 0 \in 0 .. Infinite
    BY TimerAssumption DEF TimerAssumption
  <2> QED BY <2>1, <1>3 DEF Index
<1>5. \A u \in Range(r) : w[u] = v[u] /\ c[u] = c[u]
  BY <1>2, <1>3
<1> HIDE DEF w
<1>6. Counted(r, w, c)
  <2>1. Spaced(r, w, c, Infinite)
    BY <1>3, <1>5, SpacedElsewhere
  <2> QED BY <2>1, <1>2, <1>4 DEF Counted
<1>7. Left' = c /\ Counted(list', value', Left')
  BY <1>1, <1>6, LeftFollows
<1>8. Promise!Stop(t)
  BY <1>7 DEF c, Promise!Stop
<1>9. TypeOK'
  <2>1. Infinite \in 1 .. Infinite
    BY TimerAssumption DEF TimerAssumption
  <2> QED BY <2>1, <1>1, <1>7 DEF TimersCount, TypeOK, Counted
<1>10. \A u \in fn' : timeout'[u] \in Timeouts \cup {Infinite}
  BY <1>1 DEF TimersCount, TypeOK
<1>11. ~ scanning' => \A u \in Timer : Left'[u] # 0
  BY <1>1, <1>7 DEF c, TimersCount, Counted
<1> QED BY <1>7, <1>8, <1>9, <1>10, <1>11 DEF TimersCount

(* aaTimerTick_: the call back of the timer at the head.                   *)
LEMMA CallKeeps ==
  ASSUME TimersCount, Call
  PROVE  TimersCount' /\ \E t \in Timer : Promise!Fire(t)
<1> DEFINE t == list[1]
<1>1. list \in Seq(Timer) /\ NoRepeat(list) /\ list # << >>
      /\ UNCHANGED <<value, timeout, fn, scanning>> /\ scanning
  BY DEF TimersCount, Counted, Call
<1>2. Tail(list) = ListRemove(list, t) /\ Head(list) = t /\ 1 \in 1 .. Len(list)
      /\ t \in Range(list) /\ t \in Timer
  BY <1>1, TailIsRemoved, EmptyFacts
<1>3. list' = ListRemove(list, t) /\ calling' = t /\ value[t] = 0
  BY <1>2 DEF Call
<1>4. Left[t] = 0
  <2>1. value[t] # Infinite
    BY <1>3, TimerAssumption DEF TimerAssumption
  <2>2. Left[t] = 0 + value[t]
    BY <2>1, <1>2 DEF TimersCount, Counted, Spaced
  <2> QED BY <2>2, <1>3
<1>5. value' = HandedOn(t)
  <2> DEFINE i == CHOOSE j \in DOMAIN list : list[j] = t
  <2>1. i \in 1 .. Len(list) /\ Len(list) \in Nat
    BY <1>1, <1>2, PlaceOf, LenProperties
  <2> HIDE DEF i
  <2>2. i < Len(list) => [value EXCEPT ![list[i+1]] = @ + value[t]] = value
    <3> SUFFICES ASSUME i < Len(list)
                 PROVE  [value EXCEPT ![list[i+1]] = @ + value[t]] = value
      OBVIOUS
    <3>1. list[i+1] \in Timer
      BY <2>1, <1>1, ElementOfSeq
    <3>2. value \in [Timer -> 0 .. Infinite]
      BY DEF TimersCount, Counted
    <3>3. value[list[i+1]] + value[t] = value[list[i+1]]
      BY <3>1, <3>2, <1>3
    <3> QED BY <3>1, <3>2, <3>3
  <2> QED BY <2>2, <1>1 DEF i, HandedOn
<1> HIDE DEF t
<1>6. Left' = [Left EXCEPT ![t] = -1] /\ Counted(list', value', Left')
  BY <1>2, <1>3, <1>5, StopCounts
<1>7. Promise!Fire(t)
  BY <1>2, <1>4, <1>6 DEF Promise!Fire, Promise!Due
<1>8. TypeOK'
  BY <1>1, <1>2, <1>3, <1>6 DEF TimersCount, TypeOK, Counted
<1>9. \A u \in fn' : timeout'[u] \in Timeouts \cup {Infinite}
  BY <1>1 DEF TimersCount
<1> QED BY <1>1, <1>2, <1>6, <1>7, <1>8, <1>9 DEF TimersCount

(* A call back that stops its timer.                                       *)
LEMMA CallStopsKeeps ==
  ASSUME TimersCount, CallStops
  PROVE  TimersCount' /\ UNCHANGED Left
<1>1. UNCHANGED <<list, value, timeout, fn, scanning>> /\ calling' = None
  BY DEF CallStops
<1>2. Left' = Left /\ Counted(list', value', Left')
  BY <1>1, NothingMoves
<1>3. TypeOK'
  BY <1>1 DEF TimersCount, TypeOK
<1> QED BY <1>1, <1>2, <1>3 DEF TimersCount

(* A call back that starts its timer again.                                *)
LEMMA CallRestartsKeeps ==
  ASSUME TimersCount, CallRestarts
  PROVE  TimersCount' /\ \E t \in Timer : Promise!Start(t)
<1> DEFINE t == calling
<1>1. /\ t \in Timer /\ t \in fn /\ t \notin Range(list) /\ Allocated(t)
      /\ Added(list, value, t) /\ calling' = None /\ UNCHANGED <<timeout, fn, scanning>>
  BY DEF CallRestarts, InUse, TimersCount, TypeOK
<1> HIDE DEF t
<1>2. /\ Left' = [Left EXCEPT ![t] = timeout[t]] /\ Counted(list', value', Left')
      /\ timeout[t] \in Timeouts
  BY <1>1, StartCounts
<1>3. Promise!Start(t)
  BY <1>2 DEF Promise!Start
<1>4. TypeOK'
  BY <1>1, <1>2 DEF TimersCount, TypeOK, Counted
<1>5. \A u \in fn' : timeout'[u] \in Timeouts \cup {Infinite}
  BY <1>1 DEF TimersCount
<1>6. ~ scanning' => \A u \in Timer : Left'[u] # 0
  <2>1. timeout[t] # 0
    BY <1>2, TimerAssumption DEF TimerAssumption
  <2> QED BY <2>1, <1>1, <1>2 DEF TimersCount, Counted
<1> QED BY <1>1, <1>2, <1>3, <1>4, <1>5, <1>6 DEF TimersCount

(* The first timer tells of all: when it is not due, none is.              *)
LEMMA TickEndKeeps ==
  ASSUME TimersCount, TickEnd
  PROVE  TimersCount' /\ UNCHANGED Left
<1>1. UNCHANGED <<list, value, timeout, fn, calling>> /\ scanning' = FALSE
      /\ (list # << >> => value[Head(list)] # 0)
  BY DEF TickEnd
<1>2. Left' = Left /\ Counted(list', value', Left')
  BY <1>1, NothingMoves
<1>3. TypeOK'
  BY <1>1 DEF TimersCount, TypeOK
<1>4. ASSUME NEW u \in Timer, Left[u] = 0 PROVE FALSE
  <2>1. /\ list \in Seq(Timer) /\ NoRepeat(list) /\ value \in [Timer -> 0 .. Infinite]
        /\ Left \in [Timer -> -1 .. Infinite - 1] /\ Spaced(list, value, Left, Infinite)
        /\ Infinite \in Nat \ {0}
    BY TimerAssumption DEF TimerAssumption, TimersCount, Counted
  <2>2. u \in Range(list)
    <3>1. Left[u] # -1
      BY <1>4
    <3> QED BY <3>1 DEF TimersCount, Counted
  <2>3. Len(list) \in Nat /\ DOMAIN list = 1 .. Len(list)
    BY <2>1, LenProperties
  <2>4. PICK i \in 1 .. Len(list) : list[i] = u
    BY <2>2, <2>3 DEF Range
  <2>5. list # << >>
    BY <2>1, <2>2, EmptyFacts
  <2> DEFINE t == list[1]
  <2>6. Head(list) = t /\ 1 \in 1 .. Len(list) /\ t \in Range(list) /\ t \in Timer
    BY <2>1, <2>5, TailIsRemoved, EmptyFacts
  <2>7. value[t] # 0 /\ value[t] \in 0 .. Infinite /\ Left[t] \in -1 .. Infinite - 1
    BY <2>1, <2>5, <2>6, <1>1
  <2>8. Left[t] = 0 + value[t]
    <3>1. Left[t] # Infinite
      BY <2>1, <2>7
    <3> QED BY <3>1, <2>1, <2>6 DEF Spaced
  <2>9. Left[t] <= Left[u]
    <3>1. Left \in [Timer -> Int]
      BY <2>1
    <3>2. \A k \in 1 .. Len(list) : \A j \in k .. Len(list) : Left[list[k]] <= Left[list[j]]
      BY <2>1, <3>1, CountsAscend
    <3>3. i \in 1 .. Len(list) /\ 1 \in 1 .. Len(list)
      BY <2>4, <2>6
    <3> QED BY <3>2, <3>3, <2>4
  <2> QED BY <2>7, <2>8, <2>9, <1>4
<1> QED BY <1>1, <1>2, <1>3, <1>4 DEF TimersCount

(* Only the first node of the list loses a tick, and every timer has one   *)
(* less to go.                                                             *)
LEMMA TickKeeps ==
  ASSUME TimersCount, Tick
  PROVE  TimersCount' /\ Promise!Tick
<1> DEFINE c == [t \in Timer |-> IF Left[t] = -1 THEN -1 ELSE Left[t] - 1]
<1>1. ~ scanning /\ scanning' = TRUE /\ UNCHANGED <<list, timeout, fn, calling>>
      /\ value' = IF list = << >> THEN value ELSE [value EXCEPT ![Head(list)] = @ - 1]
  BY DEF Tick
<1>2. /\ list \in Seq(Timer) /\ NoRepeat(list) /\ value \in [Timer -> 0 .. Infinite]
      /\ Left \in [Timer -> -1 .. Infinite - 1] /\ Left \in [Timer -> Int]
      /\ Spaced(list, value, Left, Infinite) /\ Infinite \in Nat \ {0}
  BY TimerAssumption DEF TimerAssumption, TimersCount, Counted
<1>3. \A t \in Timer : (Left[t] = -1 <=> t \notin Range(list)) /\ Left[t] # 0
  BY <1>1 DEF TimersCount, Counted
<1>4. Range(list) \subseteq Timer
  BY <1>2, EmptyFacts
<1>5. c \in [Timer -> -1 .. Infinite - 1] /\ c \in [Timer -> Int]
  <2>1. ASSUME NEW t \in Timer
        PROVE  (IF Left[t] = -1 THEN -1 ELSE Left[t] - 1) \in -1 .. Infinite - 1
    <3>1. Left[t] \in -1 .. Infinite - 1
      BY <1>2
    <3> QED BY <3>1, <1>2
  <2> QED BY <2>1, <1>2
<1>6. \A t \in Timer : c[t] = -1 <=> t \notin Range(list)
  <2> SUFFICES ASSUME NEW t \in Timer PROVE c[t] = -1 <=> t \notin Range(list)
    OBVIOUS
  <2>1. Left[t] \in -1 .. Infinite - 1 /\ (Left[t] = -1 <=> t \notin Range(list)) /\ Left[t] # 0
    BY <1>2, <1>3
  <2>2. c[t] = IF Left[t] = -1 THEN -1 ELSE Left[t] - 1
    OBVIOUS
  <2>3. c[t] = -1 <=> Left[t] = -1
    BY <2>1, <2>2, <1>2
  <2> QED BY <2>1, <2>3
<1>7. OneLess(list, Left, c, Infinite)
  <2> SUFFICES ASSUME NEW t \in Range(list)
               PROVE  c[t] = IF Left[t] = Infinite THEN Infinite ELSE Left[t] - 1
    BY DEF OneLess
  <2>1. t \in Timer /\ Left[t] \in -1 .. Infinite - 1 /\ Left[t] # -1
    BY <1>2, <1>3, <1>4
  <2>2. Left[t] # Infinite
    BY <2>1, <1>2
  <2> QED BY <2>1, <2>2
<1> HIDE DEF c
<1>8. value' \in [Timer -> 0 .. Infinite] /\ Spaced(list, value', c, Infinite)
  <2>1. CASE list = << >>
    <3>1. \A i \in 1 .. Len(list) : FALSE
      BY <2>1
    <3> QED BY <2>1, <3>1, <1>1, <1>2, Zenon DEF Spaced
  <2>2. CASE list # << >>
    <3> DEFINE t == list[1]
    <3>1. Head(list) = t /\ 1 \in 1 .. Len(list) /\ t \in Range(list) /\ t \in Timer
      BY <2>2, <1>2, <1>4, TailIsRemoved
    <3>2. Left[t] # Infinite /\ Left[t] # 0
      BY <3>1, <1>2, <1>3
    <3>3. value[t] # Infinite
      BY <3>1, <3>2, <1>2 DEF Spaced
    <3>4. value' = IF value[list[1]] = Infinite THEN value ELSE [value EXCEPT ![list[1]] = @ - 1]
      BY <2>2, <3>1, <3>3, <1>1
    <3>5. Left[list[1]] # 0
      BY <3>2
    <3> DEFINE w == HeadLess(list, value, Infinite)
    <3>6. w \in [Timer -> 0 .. Infinite] /\ Spaced(list, w, c, Infinite)
      BY <2>2, <3>5, <1>2, <1>5, <1>7, TickCountsDown
    <3> QED BY <3>4, <3>6 DEF HeadLess
  <2> QED BY <2>1, <2>2
<1>9. Counted(list', value', c)
  BY <1>1, <1>2, <1>5, <1>6, <1>8 DEF Counted
<1>10. Left' = c /\ Counted(list', value', Left')
  BY <1>9, LeftFollows
<1>11. Promise!Tick
  <2>1. Promise!Due = {}
    BY <1>3 DEF Promise!Due
  <2> QED BY <2>1, <1>10 DEF c, Promise!Tick
<1>12. TypeOK'
  BY <1>1, <1>8 DEF TimersCount, TypeOK
<1>13. \A u \in fn' : timeout'[u] \in Timeouts \cup {Infinite}
  BY <1>1 DEF TimersCount
<1> QED BY <1>1, <1>10, <1>11, <1>12, <1>13 DEF TimersCount

(* Every step, seen by the inductive invariant and by the promise.         *)
LEMMA TimersStep == TimersCount /\ [Next]_vars => TimersCount' /\ [Promise!Next]_Left
<1> SUFFICES ASSUME TimersCount, [Next]_vars
             PROVE  TimersCount' /\ [Promise!Next]_Left
  OBVIOUS
<1>1. ASSUME NEW t \in Timer, TimerCreate(t) PROVE TimersCount' /\ [Promise!Next]_Left
  BY <1>1, CreateKeeps
<1>2. ASSUME NEW t \in Timer, TimerStart(t) PROVE TimersCount' /\ [Promise!Next]_Left
  BY <1>2, StartKeeps DEF Promise!Next
<1>3. ASSUME NEW t \in Timer, TimerStop(t) PROVE TimersCount' /\ [Promise!Next]_Left
  BY <1>3, StopKeeps DEF Promise!Next
<1>4. ASSUME NEW t \in Timer, TimerDelete(t) PROVE TimersCount' /\ [Promise!Next]_Left
  BY <1>4, DeleteKeeps DEF Promise!Next
<1>5. ASSUME NEW t \in Timer, NEW d \in Timeouts, TimerSet(t, d)
      PROVE  TimersCount' /\ [Promise!Next]_Left
  BY <1>5, SetKeeps
<1>6. CASE Tick
  BY <1>6, TickKeeps DEF Promise!Next
<1>7. CASE Call
  BY <1>7, CallKeeps DEF Promise!Next
<1>8. CASE CallStops
  BY <1>8, CallStopsKeeps
<1>9. CASE CallRestarts
  BY <1>9, CallRestartsKeeps DEF Promise!Next
<1>10. CASE TickEnd
  BY <1>10, TickEndKeeps
<1>11. CASE UNCHANGED vars
  <2>1. UNCHANGED <<list, value>> /\ UNCHANGED <<timeout, fn, scanning, calling>>
    BY <1>11 DEF vars
  <2>2. Left' = Left /\ Counted(list', value', Left')
    BY <2>1, NothingMoves
  <2>3. TypeOK'
    BY <2>1 DEF TimersCount, TypeOK
  <2> QED BY <2>1, <2>2, <2>3 DEF TimersCount
<1> QED BY <1>1, <1>2, <1>3, <1>4, <1>5, <1>6, <1>7, <1>8, <1>9, <1>10, <1>11 DEF Next

(* The ticks of the two lists are steps of the timers, or do not touch     *)
(* them.                                                                   *)
LEMMA TicksAreSteps == [TicksNext]_ticksVars => [Next]_vars
BY DEF TicksNext, ticksVars, DelayCalls, WakeCalls, TimerCalls, TickBegin, Expire, TimerTick,
       CallBacks, Next

(* The types of the timers, whatever the handlers and the call backs start *)
(* and stop (aatimer.c).                                                   *)
THEOREM TimersAreTyped == TicksSpec => []TypeOK
<1>1. TicksInit => TimersCount
  BY TimersStart DEF TicksInit
<1>2. TimersCount /\ [TicksNext]_ticksVars => TimersCount'
  BY TimersStep, TicksAreSteps
<1>3. TimersCount => TypeOK
  BY DEF TimersCount
<1> QED BY <1>1, <1>2, <1>3, PTL DEF TicksSpec

(* A started timer calls back exactly its time-out later: the list of      *)
(* differences implements a count of ticks of each timer's own.            *)
THEOREM TimersKeepTheirPromise == TicksSpec => KeepsPromise
<1>1. TicksInit => TimersCount /\ Promise!Init
  BY TimersStart DEF TicksInit
<1>2. TimersCount /\ [TicksNext]_ticksVars => TimersCount' /\ [Promise!Next]_Left
  BY TimersStep, TicksAreSteps
<1> QED BY <1>1, <1>2, PTL DEF TicksSpec, KeepsPromise, Promise!Spec

-----------------------------------------------------------------------------
(* The operators on lists are the same in the modules of the delays.       *)
LEMMA SameLists ==
  ASSUME NEW l, NEW i, NEW t
  PROVE  /\ D!Range(l) = Range(l) /\ D!Promise!Range(l) = Range(l)
         /\ D!Least(l) = Least(l) /\ D!Promise!Least(l) = Least(l)
         /\ D!InsertAt(l, i, t) = InsertAt(l, i, t)
         /\ D!Promise!InsertAt(l, i, t) = InsertAt(l, i, t)
         /\ D!ListRemove(l, t) = ListRemove(l, t)
         /\ D!Promise!ListRemove(l, t) = ListRemove(l, t)
<1>1. D!Range(l) = Range(l) /\ D!Promise!Range(l) = Range(l)
  BY DEF Range, D!Range, D!Promise!Range
<1>2. D!Least(l) = Least(l) /\ D!Promise!Least(l) = Least(l)
  BY DEF Least, D!Least, D!Promise!Least
<1>3. D!InsertAt(l, i, t) = InsertAt(l, i, t) /\ D!Promise!InsertAt(l, i, t) = InsertAt(l, i, t)
  BY DEF InsertAt, SE!InsertAt, D!InsertAt, D!SE!InsertAt, D!Promise!InsertAt,
         D!Promise!SE!InsertAt
<1>4. D!ListRemove(l, t) = ListRemove(l, t) /\ D!Promise!ListRemove(l, t) = ListRemove(l, t)
  BY DEF ListRemove, SE!RemoveAt, D!ListRemove, D!SE!RemoveAt, D!Promise!ListRemove,
         D!Promise!SE!RemoveAt, Least, D!Least, D!Promise!Least, Range, D!Range, D!Promise!Range
<1> QED BY <1>1, <1>2, <1>3, <1>4

(* The counts c are those of the tasks in the list l with the values v.    *)
DelaysCounted(l, v, c) ==
  /\ l \in Seq(Task) /\ NoRepeat(l)
  /\ v \in [Task -> 0 .. Infinite]
  /\ c \in [Task -> 0 .. Infinite]
  /\ \A t \in Task \ Range(l) : c[t] = 0
  /\ Spaced(l, v, c, Infinite)

(* What D!Left is, of a list l and its values v.                           *)
DelaysLeftOf(l, v) ==
  LET sum[i \in 0 .. Len(l)] == IF i = 0 THEN 0
                                ELSE IF v[l[i]] = Infinite THEN Infinite
                                ELSE sum[i-1] + v[l[i]]
  IN  [t \in Task |-> IF t \in Range(l)
                      THEN sum[CHOOSE i \in DOMAIN l : l[i] = t] ELSE 0]

(* Before and after a step.                                                *)
LEMMA DelaysLeftIs ==
  D!Left = DelaysLeftOf(delayed, delay) /\ D!Left' = DelaysLeftOf(delayed', delay')
BY DEF D!Left, DelaysLeftOf, D!Range, Range

(* They are what is left of the delays.                                    *)
LEMMA DelaysCountedIsLeft ==
  ASSUME NEW l, NEW v, NEW c, DelaysCounted(l, v, c)
  PROVE  DelaysLeftOf(l, v) = c
<1> DEFINE eq(f) == f = [i \in 0 .. Len(l) |-> IF i = 0 THEN 0
                                               ELSE IF v[l[i]] = Infinite THEN Infinite
                                               ELSE f[i-1] + v[l[i]]]
           g     == [i \in 0 .. Len(l) |-> IF i = 0 THEN 0 ELSE c[l[i]]]
           sum   == CHOOSE f : eq(f)
<1>0. l \in Seq(Task) /\ NoRepeat(l) /\ Spaced(l, v, c, Infinite) /\ c \in [Task -> 0 .. Infinite]
  BY DEF DelaysCounted
<1>1. Len(l) \in Nat /\ DOMAIN l = 1 .. Len(l) /\ \A i \in 1 .. Len(l) : l[i] \in Task
  BY <1>0, LenProperties, ElementOfSeq
<1>3. ASSUME NEW i \in 1 .. Len(l)
      PROVE  g[i] = IF v[l[i]] = Infinite THEN Infinite ELSE g[i-1] + v[l[i]]
  <2>1. IF v[l[i]] = Infinite THEN c[l[i]] = Infinite
        ELSE c[l[i]] = (IF i = 1 THEN 0 ELSE c[l[i-1]]) + v[l[i]]
    BY <1>0, Zenon DEF Spaced
  <2>2. g[i] = c[l[i]]
    BY <1>1
  <2>3. g[i-1] = IF i = 1 THEN 0 ELSE c[l[i-1]]
    BY <1>1
  <2> HIDE DEF g
  <2> QED BY <2>1, <2>2, <2>3
<1>4. eq(g)
  <2>1. ASSUME NEW i \in 0 .. Len(l)
        PROVE  g[i] = IF i = 0 THEN 0 ELSE IF v[l[i]] = Infinite THEN Infinite
                                      ELSE g[i-1] + v[l[i]]
    <3>1. i # 0 => i \in 1 .. Len(l)
      BY <1>1
    <3>2. i = 0 => g[i] = 0
      BY <1>1
    <3> HIDE DEF g
    <3> QED BY <3>1, <3>2, <1>3
  <2> DEFINE h == [i \in 0 .. Len(l) |-> IF i = 0 THEN 0 ELSE IF v[l[i]] = Infinite THEN Infinite
                                         ELSE g[i-1] + v[l[i]]]
  <2>2. DOMAIN g = 0 .. Len(l) /\ g = [i \in DOMAIN g |-> g[i]]
    OBVIOUS
  <2> HIDE DEF g
  <2>3. g = [i \in 0 .. Len(l) |-> g[i]]
    BY <2>2
  <2>4. g = h
    BY <2>1, <2>3
  <2> QED BY <2>4
<1> HIDE DEF g
<1>5. eq(sum)
  BY <1>4, Zenon
<1> HIDE DEF sum
<1>6. \A i \in 0 .. Len(l) : sum[i] = IF i = 0 THEN 0 ELSE IF v[l[i]] = Infinite THEN Infinite
                                      ELSE sum[i-1] + v[l[i]]
  BY <1>5
<1>7. \A i \in 0 .. Len(l) : sum[i] = g[i]
  <2>1. sum[0] = g[0]
    <3>1. 0 \in 0 .. Len(l)
      BY <1>1
    <3> QED BY <3>1, <1>6 DEF g
  <2>2. ASSUME NEW i \in 1 .. Len(l), sum[i-1] = g[i-1] PROVE sum[i] = g[i]
    <3>1. i \in 0 .. Len(l) /\ i # 0
      BY <1>1
    <3>2. sum[i] = IF v[l[i]] = Infinite THEN Infinite ELSE sum[i-1] + v[l[i]]
      BY <3>1, <1>6
    <3>3. g[i] = IF v[l[i]] = Infinite THEN Infinite ELSE g[i-1] + v[l[i]]
      BY <1>3
    <3> HIDE DEF g
    <3> QED BY <3>2, <3>3, <2>2
  <2>3. Alike(sum, g, Len(l))
    BY <2>1, <2>2 DEF Alike
  <2> QED BY <2>3, <1>1, OneSolution
<1>8. DelaysLeftOf(l, v) = [t \in Task |-> IF t \in Range(l)
                                           THEN sum[CHOOSE i \in DOMAIN l : l[i] = t] ELSE 0]
  BY DEF DelaysLeftOf, sum
<1>9. ASSUME NEW t \in Task
      PROVE  c[t] = IF t \in Range(l) THEN sum[CHOOSE i \in DOMAIN l : l[i] = t] ELSE 0
  <2>1. CASE t \in Range(l)
    <3> DEFINE i == CHOOSE j \in DOMAIN l : l[j] = t
    <3>1. i \in 1 .. Len(l) /\ l[i] = t
      BY <2>1, <1>0, PlaceOf
    <3> HIDE DEF i
    <3>2. i \in 0 .. Len(l) /\ i # 0
      BY <3>1, <1>1
    <3>3. sum[i] = c[t]
      BY <3>1, <3>2, <1>7 DEF g
    <3> QED BY <2>1, <3>3 DEF i
  <2> QED BY <2>1 DEF DelaysCounted
<1> QED BY <1>0, <1>8, <1>9

(* What the lists come to.                                                 *)
LEMMA DelaysFollow ==
  ASSUME NEW c, DelaysCounted(delayed', delay', c)
  PROVE  D!Left' = c /\ DelaysCounted(delayed', delay', D!Left')
<1>1. D!Left' = c
  BY DelaysCountedIsLeft, DelaysLeftIs
<1> QED BY <1>1

-----------------------------------------------------------------------------
(* The inductive invariant of the delayed tasks: the differences come to   *)
(* what is left of each delay, and nothing is over between two ticks.      *)
DelaysCount ==
  /\ DelaysCounted(delayed, delay, D!Left)
  /\ expiring \in BOOLEAN
  /\ ~ expiring => \A t \in Range(delayed) : D!Left[t] # 0

(* aaRemoveFromDelayedList_, by whoever wakes the task, or by the tick.    *)
LEMMA DelaysTakenOut ==
  ASSUME DelaysCount, NEW t \in Range(delayed), D!Unlink(t)
  PROVE  /\ delayed' = ListRemove(delayed, t)
         /\ D!Left' = [D!Left EXCEPT ![t] = 0]
         /\ DelaysCounted(delayed', delay', D!Left')
         /\ Range(delayed') = Range(delayed) \ {t}
<1> DEFINE c == D!Left
           r == ListRemove(delayed, t)
           e == [c EXCEPT ![t] = 0]
<1>1. Infinite \in Nat \ {0}
  BY TimerAssumption DEF TimerAssumption
<1>2. /\ delayed \in Seq(Task) /\ NoRepeat(delayed) /\ delay \in [Task -> 0 .. Infinite]
      /\ c \in [Task -> 0 .. Infinite] /\ c \in [Task -> Int]
      /\ Spaced(delayed, delay, c, Infinite)
      /\ \A u \in Task \ Range(delayed) : c[u] = 0
  BY <1>1 DEF DelaysCount, DelaysCounted
<1>3. Range(delayed) \subseteq Task /\ t \in Task
  BY <1>2, EmptyFacts
<1>4. delayed' = r /\ delay' = HandOver(delayed, delay, t, Infinite)
  <2>1. delayed' = D!ListRemove(delayed, t) /\ delay' = HandOver(delayed, delay, t, Infinite)
    BY DEF D!Unlink, HandOver
  <2> QED BY <2>1, SameLists
<1> HIDE DEF c
<1>5. /\ HandOver(delayed, delay, t, Infinite) \in [Task -> 0 .. Infinite]
      /\ Spaced(ListRemove(delayed, t), HandOver(delayed, delay, t, Infinite), c, Infinite)
  BY <1>1, <1>2, RemovalKeepsCounts
<1>6. r \in Seq(Task) /\ NoRepeat(r) /\ Range(r) = Range(delayed) \ {t}
  BY <1>2, ListRemoveFacts
<1> HIDE DEF r
<1>7. \A u \in Task : e[u] = IF u = t THEN 0 ELSE c[u]
  BY <1>2
<1>8. e \in [Task -> 0 .. Infinite]
  <2>1. 0 \in 0 .. Infinite
    BY <1>1
  <2> QED BY <2>1, <1>2
<1> HIDE DEF e
<1>9. \A u \in Range(r) : delay'[u] = delay'[u] /\ e[u] = c[u]
  BY <1>3, <1>6, <1>7
<1>10. Spaced(r, delay', c, Infinite)
  BY <1>4, <1>5 DEF r
<1>11. Spaced(r, delay', e, Infinite)
  BY <1>6, <1>9, <1>10, SpacedElsewhere
<1>12. DelaysCounted(delayed', delay', e)
  BY <1>2, <1>4, <1>5, <1>6, <1>7, <1>8, <1>11 DEF DelaysCounted
<1>13. D!Left' = e /\ DelaysCounted(delayed', delay', D!Left')
  BY <1>12, DelaysFollow
<1> QED BY <1>4, <1>6, <1>13 DEF r, e, c

(* Nothing moves in the list.                                              *)
LEMMA DelaysStay ==
  ASSUME DelaysCount, UNCHANGED <<delayed, delay>>
  PROVE  D!Left' = D!Left /\ DelaysCounted(delayed', delay', D!Left')
BY DelaysLeftIs DEF DelaysCount

(* What the operations change in the record of AADelays.                   *)
Changed(s, m, t, d) == [s EXCEPT !.delayed = m, !.delay[t] = d]

(* A list and one count.                                                   *)
LEMMA RecordChanged ==
  ASSUME NEW l, NEW c, NEW t, NEW m, NEW d
  PROVE  Changed([delayed |-> l, delay |-> c], m, t, d)
           = [delayed |-> m, delay |-> [c EXCEPT ![t] = d]]
<1> DEFINE s == [delayed |-> l, delay |-> c]
           e == [c EXCEPT ![t] = d]
           u == [s EXCEPT !.delayed = m, !.delay[t] = d]
           w == [delayed |-> m, delay |-> e]
<1>1. s \in [delayed : {l}, delay : {c}] /\ s.delayed = l /\ s.delay = c
  OBVIOUS
<1> HIDE DEF s
<1>2. u.delayed = m /\ u.delay = e /\ u \in [delayed : {m}, delay : {e}]
  BY <1>1
<1>3. w \in [delayed : {m}, delay : {e}] /\ w.delayed = m /\ w.delay = e
  OBVIOUS
<1> HIDE DEF u, w, e
<1>4. u = w
  BY <1>2, <1>3
<1> QED BY <1>4 DEF s, u, w, e, Changed

(* RemoveFromDelayed                                                       *)
LEMMA RecordOfRemoval ==
  ASSUME NEW l, NEW c, NEW t
  PROVE  D!Promise!RemoveFromDelayed([delayed |-> l, delay |-> c], t)
           = [delayed |-> ListRemove(l, t), delay |-> [c EXCEPT ![t] = 0]]
<1> DEFINE s == [delayed |-> l, delay |-> c]
<1>1. s.delayed = l
  OBVIOUS
<1>2. D!Promise!RemoveFromDelayed(s, t) = Changed(s, D!Promise!ListRemove(s.delayed, t), t, 0)
  <2> HIDE DEF s
  <2> QED BY DEF D!Promise!RemoveFromDelayed, Changed
<1>3. D!Promise!ListRemove(s.delayed, t) = ListRemove(l, t)
  BY <1>1, SameLists
<1>4. Changed(s, ListRemove(l, t), t, 0)
        = [delayed |-> ListRemove(l, t), delay |-> [c EXCEPT ![t] = 0]]
  BY RecordChanged
<1> QED BY <1>2, <1>3, <1>4

(* aaRemoveFromDelayedList_                                                *)
LEMMA RemoveKeeps ==
  ASSUME DelaysCount, NEW t \in Task, D!Remove(t)
  PROVE  DelaysCount' /\ D!Promise!Remove(t)
<1>1. t \in Range(delayed) /\ D!Unlink(t) /\ UNCHANGED expiring
  BY SameLists DEF D!Remove
<1>2. /\ delayed' = ListRemove(delayed, t)
      /\ D!Left' = [D!Left EXCEPT ![t] = 0]
      /\ DelaysCounted(delayed', delay', D!Left')
      /\ Range(delayed') = Range(delayed) \ {t}
  BY <1>1, DelaysTakenOut
<1>3. DelaysCount'
  <2>1. D!Left \in [Task -> 0 .. Infinite] /\ Range(delayed) \subseteq Task
    BY EmptyFacts DEF DelaysCount, DelaysCounted
  <2>2. ~ expiring' => \A u \in Range(delayed') : D!Left'[u] # 0
    BY <2>1, <1>1, <1>2 DEF DelaysCount
  <2> QED BY <2>2, <1>1, <1>2 DEF DelaysCount
<1>4. D!Promise!Remove(t)
  BY <1>1, <1>2, SameLists, RecordOfRemoval DEF D!Promise!Remove
<1> QED BY <1>3, <1>4

(* aaTick_: the head of the list is woken when nothing is left to it.      *)
LEMMA ExpireKeeps ==
  ASSUME DelaysCount, D!Expire
  PROVE  DelaysCount' /\ D!Promise!Expire
<1> DEFINE t == delayed[1]
<1>1. delayed \in Seq(Task) /\ NoRepeat(delayed) /\ delayed # << >> /\ expiring
      /\ UNCHANGED expiring
  BY DEF DelaysCount, DelaysCounted, D!Expire
<1>2. Head(delayed) = t /\ 1 \in 1 .. Len(delayed) /\ t \in Range(delayed)
  BY <1>1, TailIsRemoved
<1>3. delay[t] = 0 /\ D!Unlink(t)
  BY <1>2 DEF D!Expire
<1>4. D!Left[t] = 0
  <2>1. delay[t] # Infinite
    BY <1>3, TimerAssumption DEF TimerAssumption
  <2>2. D!Left[t] = 0 + delay[t]
    BY <2>1, <1>2 DEF DelaysCount, DelaysCounted, Spaced
  <2> QED BY <2>2, <1>3
<1> HIDE DEF t
<1>5. /\ delayed' = ListRemove(delayed, t)
      /\ D!Left' = [D!Left EXCEPT ![t] = 0]
      /\ DelaysCounted(delayed', delay', D!Left')
  BY <1>2, <1>3, DelaysTakenOut
<1>6. DelaysCount'
  BY <1>1, <1>5 DEF DelaysCount
<1>7. D!Promise!Expire
  BY <1>1, <1>2, <1>4, <1>5, RecordOfRemoval DEF D!Promise!Expire, D!Promise!Expired
<1> QED BY <1>6, <1>7

(* aaTick_: nobody else is due.                                            *)
LEMMA DelaysTickEnds ==
  ASSUME DelaysCount, D!TickEnd
  PROVE  DelaysCount' /\ D!Promise!TickEnd
<1>1. expiring /\ expiring' = FALSE /\ UNCHANGED <<delayed, delay>>
      /\ (delayed # << >> => delay[Head(delayed)] # 0)
  BY DEF D!TickEnd
<1>2. D!Left' = D!Left /\ DelaysCounted(delayed', delay', D!Left')
  BY <1>1, DelaysStay
<1>3. /\ delayed \in Seq(Task) /\ NoRepeat(delayed) /\ delay \in [Task -> 0 .. Infinite]
      /\ D!Left \in [Task -> 0 .. Infinite] /\ D!Left \in [Task -> Int]
      /\ Spaced(delayed, delay, D!Left, Infinite) /\ Infinite \in Nat \ {0}
  BY TimerAssumption DEF TimerAssumption, DelaysCount, DelaysCounted
<1>4. ASSUME delayed # << >>
      PROVE  D!Left[Head(delayed)] # 0 /\ \A u \in Range(delayed) : D!Left[u] # 0
  <2> DEFINE t == delayed[1]
             c == D!Left
  <2>1. Head(delayed) = t /\ 1 \in 1 .. Len(delayed) /\ t \in Range(delayed) /\ t \in Task
    BY <1>3, <1>4, TailIsRemoved, EmptyFacts
  <2>2. delay[t] # 0 /\ c[t] \in 0 .. Infinite
    BY <2>1, <1>1, <1>3, <1>4
  <2>3. c[t] # 0
    <3>1. IF delay[t] = Infinite THEN c[t] = Infinite ELSE c[t] = 0 + delay[t]
      BY <2>1, <1>3 DEF Spaced
    <3>2. delay[t] \in 0 .. Infinite
      BY <2>1, <1>3
    <3> HIDE DEF c, t
    <3> QED BY <3>1, <3>2, <2>2, <1>3
  <2>4. ASSUME NEW u \in Range(delayed) PROVE c[u] # 0
    <3>1. Len(delayed) \in Nat /\ DOMAIN delayed = 1 .. Len(delayed)
      BY <1>3, LenProperties
    <3>2. PICK i \in 1 .. Len(delayed) : delayed[i] = u
      BY <3>1 DEF Range
    <3> HIDE DEF c
    <3>3. \A k \in 1 .. Len(delayed) : \A j \in k .. Len(delayed) : c[delayed[k]] <= c[delayed[j]]
      BY <1>3, CountsAscend DEF c
    <3>4. c[t] <= c[delayed[i]]
      <4>1. i \in 1 .. Len(delayed) /\ 1 \in 1 .. Len(delayed)
        BY <2>1, <3>2
      <4> QED BY <4>1, <3>3
    <3> QED BY <3>2, <3>4, <2>2, <2>3
  <2> QED BY <2>1, <2>3, <2>4
<1>5. \A u \in Range(delayed) : D!Left[u] # 0
  <2>1. delayed = << >> => Range(delayed) = {}
    BY <1>3, EmptyFacts
  <2> QED BY <2>1, <1>4
<1>6. DelaysCount'
  BY <1>1, <1>2, <1>5 DEF DelaysCount
<1>7. D!Promise!TickEnd
  BY <1>1, <1>2, <1>4 DEF D!Promise!TickEnd, D!Promise!Expired
<1> QED BY <1>6, <1>7

-----------------------------------------------------------------------------
(* What is left of a delay behind i nodes, as the walk counts it.          *)
BeforeOf(l, v, d, i) ==
  LET before[j \in 0 .. i] == IF j = 0 THEN d ELSE before[j-1] - v[l[j]]
  IN  before[i]

CountAt(c, l, n) == IF n = 0 THEN 0 ELSE c[l[n]]

BeforeIsLess(l, v, c, d, n) == BeforeOf(l, v, d, n) = d - CountAt(c, l, n)

(* It is what the node counts less, as long as nobody waits for ever.      *)
LEMMA BeforeIs ==
  ASSUME NEW S, NEW inf \in Nat, NEW l \in Seq(S), NEW v \in [S -> 0 .. inf],
         NEW c \in [S -> Int], Spaced(l, v, c, inf), NEW d \in Int,
         NEW n \in 0 .. Len(l), CountAt(c, l, n) < inf
  PROVE  BeforeIsLess(l, v, c, d, n)
<1> DEFINE eq(f) == f = [j \in 0 .. n |-> IF j = 0 THEN d ELSE f[j-1] - v[l[j]]]
           g     == [j \in 0 .. n |-> IF j = 0 THEN d ELSE d - c[l[j]]]
           rest  == CHOOSE f : eq(f)
<1>1. /\ Len(l) \in Nat /\ n \in Nat /\ n <= Len(l) /\ \A i \in 1 .. Len(l) : l[i] \in S
      /\ 1 .. n \subseteq 1 .. Len(l)
  BY LenProperties, ElementOfSeq
<1>2. ASSUME NEW j \in 1 .. n
      PROVE  v[l[j]] # inf
  <2>1. n \in 1 .. Len(l) /\ n \in j .. Len(l) /\ j \in 1 .. Len(l)
    BY <1>1
  <2>2. \A i \in 1 .. Len(l) : \A k \in i .. Len(l) : c[l[i]] <= c[l[k]]
    BY CountsAscend
  <2>3. c[l[j]] <= c[l[n]] /\ c[l[n]] < inf
    BY <2>1, <2>2, <1>1 DEF CountAt
  <2>4. c[l[j]] \in Int /\ c[l[n]] \in Int
    BY <2>1, <1>1
  <2>5. c[l[j]] # inf
    BY <2>3, <2>4
  <2> QED BY <2>1, <2>5 DEF Spaced
<1>3. ASSUME NEW i \in 1 .. n
      PROVE  g[i] = g[i-1] - v[l[i]]
  <2> DEFINE x == IF i = 1 THEN 0 ELSE c[l[i-1]]
  <2>1. c[l[i]] = x + v[l[i]]
    BY <1>1, <1>2, Zenon DEF Spaced
  <2>2. i # 1 => i - 1 \in 1 .. n
    BY <1>1
  <2>3. x \in Int /\ v[l[i]] \in Int /\ d \in Int
    BY <2>2, <1>1
  <2>4. g[i] = d - c[l[i]]
    BY <1>1
  <2>5. g[i-1] = d - x
    <3>1. CASE i = 1
      BY <3>1, <1>1
    <3>2. CASE i # 1
      <4>1. i - 1 \in 0 .. n /\ i - 1 # 0
        BY <2>2, <3>2, <1>1
      <4> QED BY <4>1, <3>2
    <3> QED BY <3>1, <3>2
  <2> HIDE DEF g, x
  <2> QED BY <2>1, <2>3, <2>4, <2>5
<1>4. eq(g)
  <2>1. ASSUME NEW i \in 0 .. n
        PROVE  g[i] = IF i = 0 THEN d ELSE g[i-1] - v[l[i]]
    <3>1. i # 0 => i \in 1 .. n
      BY <1>1
    <3>2. i = 0 => g[i] = d
      BY <1>1
    <3> HIDE DEF g
    <3> QED BY <3>1, <3>2, <1>3
  <2> DEFINE h == [i \in 0 .. n |-> IF i = 0 THEN d ELSE g[i-1] - v[l[i]]]
  <2>2. DOMAIN g = 0 .. n /\ g = [i \in DOMAIN g |-> g[i]]
    OBVIOUS
  <2> HIDE DEF g
  <2>3. g = [i \in 0 .. n |-> g[i]]
    BY <2>2
  <2>4. g = h
    BY <2>1, <2>3
  <2> QED BY <2>4
<1> HIDE DEF g
<1>5. eq(rest)
  BY <1>4, Zenon
<1> HIDE DEF rest
<1>6. \A i \in 0 .. n : rest[i] = IF i = 0 THEN d ELSE rest[i-1] - v[l[i]]
  BY <1>5
<1>7. rest[n] = g[n]
  <2>1. rest[0] = g[0]
    <3>1. 0 \in 0 .. n
      BY <1>1
    <3> QED BY <3>1, <1>6 DEF g
  <2>2. ASSUME NEW i \in 1 .. n, rest[i-1] = g[i-1] PROVE rest[i] = g[i]
    <3>1. i \in 0 .. n /\ i # 0
      BY <1>1
    <3>2. rest[i] = rest[i-1] - v[l[i]]
      BY <3>1, <1>6
    <3>3. g[i] = g[i-1] - v[l[i]]
      BY <1>3
    <3> HIDE DEF g
    <3> QED BY <3>2, <3>3, <2>2
  <2>3. Alike(rest, g, n)
    BY <2>1, <2>2 DEF Alike
  <2>4. n \in 0 .. n
    BY <1>1
  <2> QED BY <2>3, <2>4, <1>1, OneSolution
<1>8. BeforeOf(l, v, d, n) = rest[n]
  BY DEF BeforeOf, rest
<1>9. g[n] = d - CountAt(c, l, n)
  BY <1>1 DEF g, CountAt
<1> QED BY <1>7, <1>8, <1>9 DEF BeforeIsLess

(* The walk of aaAddToDelayedList_.                                        *)
LEMMA DelaysWalked ==
  ASSUME NEW c \in [Task -> Int], delayed \in Seq(Task), delay \in [Task -> 0 .. Infinite],
         Spaced(delayed, delay, c, Infinite), NEW d \in 1 .. Infinite - 1
  PROVE  LET p == D!Place(d) IN
         /\ p \in 0 .. Len(delayed)
         /\ p > 0 => c[delayed[p]] < d
         /\ p < Len(delayed) => d <= c[delayed[p+1]]
         /\ \A j \in 1 .. p : c[delayed[j]] < d
         /\ D!Rest(d)[p] = d - (IF p = 0 THEN 0 ELSE c[delayed[p]])
<1> DEFINE l     == delayed
           rest  == D!Rest(d)
           stops == {i \in 0 .. Len(l) - 1 : rest[i] <= delay[l[i+1]]}
           p     == D!Place(d)
<1>1. Infinite \in Nat \ {0} /\ Len(l) \in Nat /\ d \in Int
      /\ \A i \in 1 .. Len(l) : l[i] \in Task
  BY LenProperties, ElementOfSeq, TimerAssumption DEF TimerAssumption
<1>2. ASSUME NEW n \in 0 .. Len(l), n > 0 => c[l[n]] < Infinite
      PROVE  rest[n] = d - (IF n = 0 THEN 0 ELSE c[l[n]])
  <2>1. CountAt(c, l, n) < Infinite /\ Infinite \in Nat
    BY <1>1, <1>2 DEF CountAt
  <2>2. BeforeIsLess(l, delay, c, d, n)
    <3>1. /\ l \in Seq(Task) /\ delay \in [Task -> 0 .. Infinite] /\ c \in [Task -> Int]
          /\ Spaced(l, delay, c, Infinite) /\ n \in 0 .. Len(l) /\ d \in Int
      BY <1>1
    <3> HIDE DEF l, rest, stops, p
    <3> QED BY ONLY <2>1, <3>1, BeforeIs
  <2>3. rest[n] = BeforeOf(l, delay, d, n)
    BY DEF D!Rest, BeforeOf
  <2> QED BY <2>2, <2>3 DEF CountAt, BeforeIsLess
<1>3. p = IF stops = {} THEN Len(l) ELSE Least(stops)
  BY SameLists DEF D!Place
<1> HIDE DEF rest, p
<1>4. RestIs(rest, l, c, d, Infinite)
  <2>1. 0 < Len(l) => rest[0] = d
    BY <1>1, <1>2
  <2>2. ASSUME NEW i \in 1 .. Len(l) - 1, c[l[i]] < Infinite
        PROVE  rest[i] = d - c[l[i]]
    <3>1. i \in 0 .. Len(l) /\ i # 0
      BY <1>1
    <3> QED BY <3>1, <2>2, <1>2
  <2> QED BY <2>1, <2>2 DEF RestIs
<1>5. stops \in SUBSET (0 .. Len(l) - 1)
  OBVIOUS
<1> HIDE DEF stops
<1>6. /\ p \in 0 .. Len(l) /\ (p < Len(l) => p \in stops)
      /\ \A i \in 0 .. Len(l) - 1 : i < p => i \notin stops
  BY <1>1, <1>3, <1>5, FirstStop
<1>7. WalkPasses(rest, l, delay, p)
  BY <1>6 DEF WalkPasses, stops
<1>8. (p < Len(l) => d <= c[l[p+1]]) /\ \A j \in 1 .. p : c[l[j]] < d
  BY <1>1, <1>4, <1>6, <1>7, WalkStops
<1>9. p > 0 => c[l[p]] < d /\ c[l[p]] < Infinite
  <2>1. p > 0 => p \in 1 .. p /\ p \in 1 .. Len(l)
    BY <1>6
  <2> QED BY <2>1, <1>1, <1>8
<1>10. rest[p] = d - (IF p = 0 THEN 0 ELSE c[l[p]])
  BY <1>2, <1>6, <1>9
<1> QED BY <1>6, <1>8, <1>9, <1>10 DEF rest, p

(* aaAddToDelayedList_, for a finite delay.                                *)
LEMMA DelaysPutIn ==
  ASSUME DelaysCount, NEW t \in Task, t \notin Range(delayed), NEW d \in 1 .. Infinite - 1,
         D!AddFinite(t, d)
  PROVE  /\ delayed' = InsertAt(delayed, D!Place(d) + 1, t)
         /\ D!Left' = [D!Left EXCEPT ![t] = d]
         /\ DelaysCounted(delayed', delay', D!Left')
         /\ Range(delayed') = Range(delayed) \cup {t}
<1> DEFINE c == D!Left
           e == [c EXCEPT ![t] = d]
           p == D!Place(d)
           b == IF p = 0 THEN 0 ELSE c[delayed[p]]
           x == D!Rest(d)[p]
           n == delayed[p+1]
           w == TakenFrom(delayed, delay, c, t, d, p, Infinite)
<1>1. Infinite \in Nat \ {0} /\ d \in 0 .. Infinite
  BY TimerAssumption DEF TimerAssumption
<1>2. /\ delayed \in Seq(Task) /\ NoRepeat(delayed) /\ delay \in [Task -> 0 .. Infinite]
      /\ c \in [Task -> 0 .. Infinite] /\ c \in [Task -> Int]
      /\ Spaced(delayed, delay, c, Infinite)
      /\ \A u \in Task \ Range(delayed) : c[u] = 0
  BY <1>1 DEF DelaysCount, DelaysCounted
<1>3. /\ delayed' = InsertAt(delayed, p + 1, t)
      /\ delay' = IF p < Len(delayed) /\ delay[n] # Infinite
                  THEN [delay EXCEPT ![t] = x, ![n] = @ - x]
                  ELSE [delay EXCEPT ![t] = x]
  <2>1. D!InsertAt(delayed, p + 1, t) = InsertAt(delayed, p + 1, t)
    BY SameLists
  <2> QED BY <2>1 DEF D!AddFinite
<1> HIDE DEF c
<1>4. LET q == D!Place(d) IN
      /\ q \in 0 .. Len(delayed)
      /\ q > 0 => c[delayed[q]] < d
      /\ q < Len(delayed) => d <= c[delayed[q+1]]
      /\ D!Rest(d)[q] = d - (IF q = 0 THEN 0 ELSE c[delayed[q]])
  BY <1>2, DelaysWalked
<1>5. /\ p \in 0 .. Len(delayed)
      /\ p > 0 => c[delayed[p]] < d
      /\ p < Len(delayed) => d <= c[delayed[p+1]]
      /\ x = d - b
  BY <1>4
<1>6. w = IF p < Len(delayed) /\ delay[n] # Infinite
          THEN [[delay EXCEPT ![t] = d - b] EXCEPT ![n] = @ - (d - b)]
          ELSE [delay EXCEPT ![t] = d - b]
  BY DEF TakenFrom
<1> HIDE DEF p, x, w, b
<1>7. w \in [Task -> 0 .. Infinite]
      /\ Spaced(InsertAt(delayed, p + 1, t), w, [c EXCEPT ![t] = d], Infinite)
  BY <1>1, <1>2, <1>5, InsertionKeepsCounts DEF w
<1>8. LET r == InsertAt(delayed, p + 1, t) IN
      /\ r \in Seq(Task) /\ NoRepeat(r) /\ Range(r) = Range(delayed) \cup {t}
      /\ Len(r) = Len(delayed) + 1
      /\ \A j \in 1 .. Len(delayed) + 1 :
           r[j] = IF j <= p THEN delayed[j] ELSE IF j = p + 1 THEN t ELSE delayed[j - 1]
  <2> DEFINE l == delayed
  <2>1. l \in Seq(Task) /\ NoRepeat(l) /\ t \in Task /\ t \notin Range(l) /\ p \in 0 .. Len(l)
    BY <1>2, <1>5
  <2> HIDE DEF e, n, l
  <2>2. LET r == InsertAt(l, p + 1, t) IN
        /\ r \in Seq(Task) /\ NoRepeat(r) /\ Range(r) = Range(l) \cup {t}
        /\ Len(r) = Len(l) + 1
        /\ \A j \in 1 .. Len(l) + 1 :
             r[j] = IF j <= p THEN l[j] ELSE IF j = p + 1 THEN t ELSE l[j - 1]
    BY <2>1, InsertedAt
  <2> QED BY <2>2 DEF l
<1>9. delayed' \in Seq(Task) /\ NoRepeat(delayed') /\ Range(delayed') = Range(delayed) \cup {t}
  BY <1>3, <1>8
<1>10. delay' = w
  <2>1. ASSUME p < Len(delayed), delay[n] # Infinite
        PROVE  delay' = w
    <3>1. p + 1 \in 1 .. Len(delayed) /\ DOMAIN delayed = 1 .. Len(delayed)
      BY <2>1, <1>2, <1>5, LenProperties
    <3>2. n \in Range(delayed) /\ n \in Task /\ n # t
      BY <3>1, <1>2, EmptyFacts DEF Range
    <3> HIDE DEF n
    <3> QED BY <2>1, <3>2, <1>2, <1>3, <1>5, <1>6
  <2> HIDE DEF n
  <2>2. ASSUME ~ (p < Len(delayed) /\ delay[n] # Infinite)
        PROVE  delay' = w
    BY <2>2, <1>3, <1>5, <1>6
  <2> QED BY <2>1, <2>2
<1> HIDE DEF n
<1>11. \A u \in Task : e[u] = IF u = t THEN d ELSE c[u]
  BY <1>2
<1>12. e \in [Task -> 0 .. Infinite]
  BY <1>1, <1>2
<1>13. Spaced(delayed', delay', e, Infinite)
  BY <1>3, <1>7, <1>10
<1> HIDE DEF e
<1>14. \A u \in Task \ Range(delayed') : e[u] = 0
  BY <1>2, <1>9, <1>11
<1>15. DelaysCounted(delayed', delay', e)
  BY <1>7, <1>9, <1>10, <1>12, <1>13, <1>14 DEF DelaysCounted
<1>16. D!Left' = e /\ DelaysCounted(delayed', delay', D!Left')
  BY <1>15, DelaysFollow
<1> QED BY <1>3, <1>9, <1>16 DEF c, e, p

(* For ever.                                                               *)
LEMMA DelaysPutLast ==
  ASSUME DelaysCount, NEW t \in Task, t \notin Range(delayed), D!AddForever(t)
  PROVE  /\ delayed' = Append(delayed, t)
         /\ D!Left' = [D!Left EXCEPT ![t] = Infinite]
         /\ DelaysCounted(delayed', delay', D!Left')
         /\ Range(delayed') = Range(delayed) \cup {t}
<1> DEFINE c == D!Left
           e == [c EXCEPT ![t] = Infinite]
           l == delayed
           r == Append(delayed, t)
<1>1. Infinite \in Nat \ {0} /\ Infinite \in 0 .. Infinite
  BY TimerAssumption DEF TimerAssumption
<1>2. /\ l \in Seq(Task) /\ NoRepeat(l) /\ delay \in [Task -> 0 .. Infinite]
      /\ c \in [Task -> 0 .. Infinite]
      /\ Spaced(l, delay, c, Infinite)
      /\ \A u \in Task \ Range(l) : c[u] = 0
  BY DEF DelaysCount, DelaysCounted
<1>3. delayed' = r /\ delay' = [delay EXCEPT ![t] = Infinite]
  BY DEF D!AddForever
<1> HIDE DEF c
<1>4. r \in Seq(Task) /\ NoRepeat(r) /\ Range(r) = Range(l) \cup {t}
  BY <1>2, AppendFacts
<1>5. /\ Len(l) \in Nat /\ Len(r) = Len(l) + 1 /\ r[Len(l) + 1] = t
      /\ \A j \in 1 .. Len(l) : r[j] = l[j]
  BY <1>2, AppendProperties, LenProperties
<1>6. \A j \in 1 .. Len(l) : l[j] \in Task /\ l[j] # t
  BY <1>2, LenProperties, ElementOfSeq DEF Range
<1> HIDE DEF r
<1>7. \A j \in 1 .. Len(l) : delay'[l[j]] = delay[l[j]] /\ e[l[j]] = c[l[j]]
  BY <1>2, <1>3, <1>6
<1>8. delay'[t] = Infinite /\ e[t] = Infinite
  BY <1>2, <1>3
<1>9. delay' \in [Task -> 0 .. Infinite] /\ e \in [Task -> 0 .. Infinite]
  BY <1>1, <1>2, <1>3
<1>10. \A u \in Task : e[u] = IF u = t THEN Infinite ELSE c[u]
  BY <1>2
<1> HIDE DEF e, l
<1>11. ASSUME NEW j \in 1 .. Len(r)
       PROVE  IF delay'[r[j]] = Infinite THEN e[r[j]] = Infinite
              ELSE /\ e[r[j]] = (IF j = 1 THEN 0 ELSE e[r[j-1]]) + delay'[r[j]]
                   /\ e[r[j]] < Infinite
  <2>1. CASE j = Len(l) + 1
    BY <2>1, <1>5, <1>8
  <2>2. CASE j # Len(l) + 1
    <3> DEFINE k == j - 1
    <3>1. j \in 1 .. Len(l) /\ (j # 1 => k \in 1 .. Len(l))
      BY <2>2, <1>5
    <3>2. r[j] = l[j] /\ (j # 1 => r[k] = l[k])
      BY <3>1, <1>5, Zenon
    <3>3. delay'[l[j]] = delay[l[j]] /\ e[l[j]] = c[l[j]] /\ (j # 1 => e[l[k]] = c[l[k]])
      BY <3>1, <1>7
    <3>4. IF delay[l[j]] = Infinite THEN c[l[j]] = Infinite
          ELSE /\ c[l[j]] = (IF j = 1 THEN 0 ELSE c[l[k]]) + delay[l[j]]
               /\ c[l[j]] < Infinite
      BY <3>1, <1>2, Zenon DEF Spaced
    <3>5. (IF j = 1 THEN 0 ELSE c[l[k]]) = (IF j = 1 THEN 0 ELSE e[r[k]])
      BY <3>2, <3>3
    <3> HIDE DEF k
    <3>6. IF delay'[r[j]] = Infinite THEN e[r[j]] = Infinite
          ELSE /\ e[r[j]] = (IF j = 1 THEN 0 ELSE e[r[k]]) + delay'[r[j]]
               /\ e[r[j]] < Infinite
      BY <3>2, <3>3, <3>4, <3>5, Zenon
    <3> QED BY <3>6 DEF k
  <2> QED BY <2>1, <2>2
<1>12. Spaced(r, delay', e, Infinite)
  BY <1>11, Zenon DEF Spaced
<1>13. \A u \in Task \ Range(r) : e[u] = 0
  BY <1>2, <1>4, <1>10
<1>14. DelaysCounted(delayed', delay', e)
  BY <1>3, <1>4, <1>9, <1>12, <1>13 DEF DelaysCounted
<1>15. D!Left' = e /\ DelaysCounted(delayed', delay', D!Left')
  BY <1>14, DelaysFollow
<1> QED BY <1>3, <1>4, <1>15 DEF c, e, r, l

(* AddToDelayed                                                            *)
AddedTo(l, c, t, d) ==
  LET notBefore == {i \in DOMAIN l : d <= c[l[i]]}
  IN  IF d = Infinite \/ notBefore = {} THEN Append(l, t) ELSE InsertAt(l, Least(notBefore), t)

(* The record with the new task.                                           *)
LEMMA RecordOfAdding ==
  ASSUME NEW l, NEW c, NEW t, NEW d, d # 0
  PROVE  D!Promise!AddToDelayed([delayed |-> l, delay |-> c], t, d)
           = [delayed |-> AddedTo(l, c, t, d), delay |-> [c EXCEPT ![t] = d]]
<1> DEFINE s == [delayed |-> l, delay |-> c]
           m == AddedTo(l, c, t, d)
           n == {i \in DOMAIN s.delayed : d <= s.delay[s.delayed[i]]}
           e == [c EXCEPT ![t] = d]
           u == [s EXCEPT !.delay[t] = d,
                          !.delayed = IF d = Infinite \/ n = {} THEN Append(@, t)
                                      ELSE D!Promise!InsertAt(@, D!Promise!Least(n), t)]
           w == [delayed |-> m, delay |-> e]
<1>1. s \in [delayed : {l}, delay : {c}] /\ s.delayed = l /\ s.delay = c
  OBVIOUS
<1> HIDE DEF s
<1>2. D!Promise!AddToDelayed(s, t, d) = u
  BY DEF D!Promise!AddToDelayed
<1>3. m = IF d = Infinite \/ n = {} THEN Append(l, t)
          ELSE D!Promise!InsertAt(l, D!Promise!Least(n), t)
  BY <1>1, SameLists DEF AddedTo
<1> HIDE DEF n, m
<1>4. u.delayed = m /\ u.delay = e /\ u \in [delayed : {m}, delay : {e}]
  BY <1>1, <1>3
<1>5. w \in [delayed : {m}, delay : {e}] /\ w.delayed = m /\ w.delay = e
  OBVIOUS
<1> HIDE DEF u, w, e
<1>6. u = w
  BY <1>4, <1>5
<1> QED BY <1>2, <1>6 DEF s, w, m, e

(* Before the first node that counts at least as much.                     *)
LEMMA AddedAtPlace ==
  ASSUME NEW S, NEW l \in Seq(S), NEW c, NEW t \in S, NEW d, d # Infinite,
         NEW p \in 0 .. Len(l), p < Len(l) => d <= c[l[p+1]],
         \A j \in 1 .. p : ~ (d <= c[l[j]])
  PROVE  AddedTo(l, c, t, d) = InsertAt(l, p + 1, t)
<1> DEFINE n == {i \in DOMAIN l : d <= c[l[i]]}
<1>1. Len(l) \in Nat /\ DOMAIN l = 1 .. Len(l)
  BY LenProperties
<1>2. CASE p = Len(l)
  <2>1. n = {}
    BY <1>1, <1>2
  <2>2. InsertAt(l, p + 1, t) = Append(l, t)
    BY <1>2, InsertedLast
  <2> QED BY <2>1, <2>2 DEF AddedTo
<1>3. CASE p # Len(l)
  <2>1. p + 1 \in n
    <3>1. p + 1 \in DOMAIN l /\ p < Len(l)
      <4> DEFINE k == Len(l)
      <4>1. k \in Nat /\ p \in 0 .. k /\ p # k /\ DOMAIN l = 1 .. k
        BY <1>1, <1>3
      <4> HIDE DEF k, n
      <4>2. p + 1 \in 1 .. k /\ p < k
        BY ONLY <4>1
      <4> QED BY <4>1, <4>2 DEF k
    <3> QED BY <3>1, Zenon
  <2>2. \A j \in n : p + 1 <= j
    BY <1>1
  <2>3. n \subseteq Nat
    BY <1>1
  <2>4. Least(n) = p + 1
    <3>1. \A k \in n : (\A j \in n : k <= j) => k = p + 1
      BY <2>1, <2>2, <2>3
    <3> HIDE DEF n
    <3> QED BY <2>1, <2>2, <3>1 DEF Least
  <2> QED BY <2>1, <2>4 DEF AddedTo
<1> QED BY <1>2, <1>3

(* aaAddToDelayedList_                                                     *)
LEMMA AddKeeps ==
  ASSUME DelaysCount, NEW t \in Task, NEW d \in Delays, D!Add(t, d)
  PROVE  DelaysCount' /\ D!Promise!Add(t, d)
<1> DEFINE c == D!Left
<1>1. /\ Infinite \in Nat \ {0} /\ d \in 0 .. Infinite /\ d # 0
      /\ ~ expiring /\ expiring' = expiring /\ t \notin Range(delayed)
      /\ d = Infinite => D!AddForever(t)
      /\ d # Infinite => D!AddFinite(t, d)
  <2>1. D!Range(delayed) = Range(delayed)
    BY SameLists
  <2> QED BY <2>1, TimerAssumption, TicksAssumption DEF TimerAssumption, TicksAssumption, D!Add
<1>2. /\ delayed \in Seq(Task) /\ NoRepeat(delayed) /\ delay \in [Task -> 0 .. Infinite]
      /\ c \in [Task -> 0 .. Infinite] /\ c \in [Task -> Int]
      /\ Spaced(delayed, delay, c, Infinite)
      /\ \A u \in Range(delayed) : c[u] # 0
  BY <1>1 DEF DelaysCount, DelaysCounted
<1>3. /\ delayed' = AddedTo(delayed, c, t, d)
      /\ D!Left' = [c EXCEPT ![t] = d]
      /\ DelaysCounted(delayed', delay', D!Left')
      /\ Range(delayed') = Range(delayed) \cup {t}
  <2>1. CASE d = Infinite
    <3>1. delayed' = Append(delayed, t)
          /\ D!Left' = [D!Left EXCEPT ![t] = Infinite]
          /\ DelaysCounted(delayed', delay', D!Left')
          /\ Range(delayed') = Range(delayed) \cup {t}
      BY <2>1, <1>1, DelaysPutLast
    <3>2. AddedTo(delayed, c, t, d) = Append(delayed, t)
      BY <2>1 DEF AddedTo
    <3> QED BY <3>1, <3>2, <2>1
  <2>2. CASE d # Infinite
    <3> DEFINE p == D!Place(d)
    <3>1. d \in 1 .. Infinite - 1
      BY <2>2, <1>1
    <3>2. /\ delayed' = InsertAt(delayed, p + 1, t)
          /\ D!Left' = [D!Left EXCEPT ![t] = d]
          /\ DelaysCounted(delayed', delay', D!Left')
          /\ Range(delayed') = Range(delayed) \cup {t}
      BY <3>1, <2>2, <1>1, DelaysPutIn
    <3> HIDE DEF c
    <3>3. LET q == D!Place(d) IN
          /\ q \in 0 .. Len(delayed)
          /\ q > 0 => c[delayed[q]] < d
          /\ q < Len(delayed) => d <= c[delayed[q+1]]
          /\ \A j \in 1 .. q : c[delayed[j]] < d
          /\ D!Rest(d)[q] = d - (IF q = 0 THEN 0 ELSE c[delayed[q]])
      BY <3>1, <1>2, DelaysWalked
    <3>4. /\ p \in 0 .. Len(delayed)
          /\ p < Len(delayed) => d <= c[delayed[p+1]]
          /\ \A j \in 1 .. p : c[delayed[j]] < d
      BY <3>3
    <3> HIDE DEF p
    <3>5. \A j \in 1 .. p : ~ (d <= c[delayed[j]])
      <4> SUFFICES ASSUME NEW j \in 1 .. p PROVE ~ (d <= c[delayed[j]])
        OBVIOUS
      <4>1. j \in 1 .. Len(delayed)
        BY <3>4, <1>2, LenProperties
      <4>2. c[delayed[j]] \in Int
        BY <4>1, <1>2, ElementOfSeq
      <4> QED BY <4>2, <3>1, <3>4
    <3>6. AddedTo(delayed, c, t, d) = InsertAt(delayed, p + 1, t)
      BY <3>4, <3>5, <2>2, <1>2, AddedAtPlace
    <3>7. c = D!Left
      BY DEF c
    <3> QED BY <3>2, <3>6, <3>7
  <2> QED BY <2>1, <2>2
<1>4. D!Promise!AddToDelayed([delayed |-> delayed, delay |-> c], t, d)
        = [delayed |-> AddedTo(delayed, c, t, d), delay |-> [c EXCEPT ![t] = d]]
  BY <1>1, RecordOfAdding
<1>5. D!Promise!Add(t, d)
  BY <1>1, <1>3, <1>4, SameLists DEF D!Promise!Add
<1>6. \A u \in Range(delayed') : D!Left'[u] # 0
  <2>1. Range(delayed) \subseteq Task
    BY <1>2, EmptyFacts
  <2> HIDE DEF c
  <2> QED BY <2>1, <1>1, <1>2, <1>3
<1>7. DelaysCount'
  BY <1>1, <1>3, <1>6 DEF DelaysCount
<1> QED BY <1>5, <1>7

-----------------------------------------------------------------------------
(* CountDown                                                               *)
CountedDown(l, c) == [u \in Task |-> IF u \in Range(l) /\ c[u] # Infinite THEN c[u] - 1 ELSE c[u]]

(* The record one tick later.                                              *)
LEMMA RecordOfTick ==
  ASSUME NEW l, NEW c
  PROVE  D!Promise!CountDown([delayed |-> l, delay |-> c])
           = [delayed |-> l, delay |-> CountedDown(l, c)]
<1> DEFINE s == [delayed |-> l, delay |-> c]
           e == CountedDown(l, c)
           u == [s EXCEPT !.delay = [t \in Task |->
                   IF t \in D!Promise!Range(s.delayed) /\ @[t] # Infinite THEN @[t] - 1 ELSE @[t]]]
           w == [delayed |-> l, delay |-> e]
<1>1. s \in [delayed : {l}, delay : {c}] /\ s.delayed = l /\ s.delay = c
  OBVIOUS
<1> HIDE DEF s
<1>2. D!Promise!CountDown(s) = u
  BY DEF D!Promise!CountDown
<1>3. e = [t \in Task |-> IF t \in D!Promise!Range(s.delayed) /\ s.delay[t] # Infinite
                          THEN s.delay[t] - 1 ELSE s.delay[t]]
  BY <1>1, SameLists DEF CountedDown
<1> HIDE DEF e
<1>4. u.delayed = l /\ u.delay = e /\ u \in [delayed : {l}, delay : {e}]
  BY <1>1, <1>3
<1>5. w \in [delayed : {l}, delay : {e}] /\ w.delayed = l /\ w.delay = e
  OBVIOUS
<1> HIDE DEF u, w
<1>6. u = w
  BY <1>4, <1>5
<1> QED BY <1>2, <1>6 DEF s, w, e

(* aaTick_, up to the walk that wakes.                                     *)
LEMMA DelaysTickKeeps ==
  ASSUME DelaysCount, D!Tick
  PROVE  DelaysCount' /\ D!Promise!Tick
<1> DEFINE c == D!Left
           e == CountedDown(delayed, c)
<1>1. /\ ~ expiring /\ expiring' = TRUE /\ delayed' = delayed
      /\ delay' = IF delayed # << >> /\ delay[Head(delayed)] # Infinite
                  THEN [delay EXCEPT ![Head(delayed)] = @ - 1] ELSE delay
  BY DEF D!Tick
<1>2. /\ delayed \in Seq(Task) /\ NoRepeat(delayed) /\ delay \in [Task -> 0 .. Infinite]
      /\ c \in [Task -> 0 .. Infinite] /\ c \in [Task -> Int]
      /\ Spaced(delayed, delay, c, Infinite) /\ Infinite \in Nat \ {0}
      /\ \A u \in Range(delayed) : c[u] # 0
      /\ \A u \in Task \ Range(delayed) : c[u] = 0
  BY <1>1, TimerAssumption DEF TimerAssumption, DelaysCount, DelaysCounted
<1>3. Range(delayed) \subseteq Task
  BY <1>2, EmptyFacts
<1> HIDE DEF c
<1>4. ASSUME NEW u \in Task
      PROVE  /\ e[u] = IF u \in Range(delayed) /\ c[u] # Infinite THEN c[u] - 1 ELSE c[u]
             /\ e[u] \in 0 .. Infinite
  <2>1. e[u] = IF u \in Range(delayed) /\ c[u] # Infinite THEN c[u] - 1 ELSE c[u]
    BY DEF CountedDown
  <2>2. c[u] \in 0 .. Infinite /\ (u \in Range(delayed) => c[u] # 0)
    BY <1>2
  <2> HIDE DEF e
  <2> QED BY <2>1, <2>2, <1>2
<1>5. e \in [Task -> 0 .. Infinite] /\ e \in [Task -> Int]
  <2>1. DOMAIN e = Task /\ e = [u \in Task |-> e[u]]
    BY DEF CountedDown
  <2> HIDE DEF e
  <2> QED BY <2>1, <1>2, <1>4
<1> HIDE DEF e
<1>6. OneLess(delayed, c, e, Infinite)
  BY <1>3, <1>4 DEF OneLess
<1>7. delay' \in [Task -> 0 .. Infinite] /\ Spaced(delayed, delay', e, Infinite)
  <2>1. CASE delayed = << >>
    <3>1. \A i \in 1 .. Len(delayed) : FALSE
      BY <2>1
    <3> QED BY <2>1, <3>1, <1>1, <1>2, Zenon DEF Spaced
  <2>2. CASE delayed # << >>
    <3>1. Head(delayed) = delayed[1] /\ delayed[1] \in Range(delayed)
      BY <2>2, <1>2, TailIsRemoved
    <3>2. delay' = HeadLess(delayed, delay, Infinite)
      BY <2>2, <3>1, <1>1 DEF HeadLess
    <3>3. c[delayed[1]] # 0
      BY <3>1, <1>2
    <3> DEFINE w == HeadLess(delayed, delay, Infinite)
    <3>4. w \in [Task -> 0 .. Infinite] /\ Spaced(delayed, w, e, Infinite)
      BY <2>2, <3>3, <1>2, <1>5, <1>6, TickCountsDown
    <3> QED BY <3>2, <3>4
  <2> QED BY <2>1, <2>2
<1>8. \A u \in Task \ Range(delayed) : e[u] = 0
  BY <1>2, <1>4
<1>9. DelaysCounted(delayed', delay', e)
  BY <1>1, <1>2, <1>5, <1>7, <1>8 DEF DelaysCounted
<1>10. D!Left' = e /\ DelaysCounted(delayed', delay', D!Left')
  BY <1>9, DelaysFollow
<1>11. D!Promise!CountDown([delayed |-> delayed, delay |-> c]) = [delayed |-> delayed, delay |-> e]
  BY RecordOfTick DEF e
<1>12. D!Promise!Tick
  BY <1>1, <1>10, <1>11 DEF D!Promise!Tick, c
<1>13. DelaysCount'
  BY <1>1, <1>10 DEF DelaysCount
<1> QED BY <1>12, <1>13

(* Nobody is delayed at first.                                             *)
LEMMA DelaysStart == D!Init => DelaysCount /\ D!Promise!Init
<1> SUFFICES ASSUME D!Init PROVE DelaysCount /\ D!Promise!Init
  OBVIOUS
<1> DEFINE c == [t \in Task |-> 0]
<1>1. delayed = << >> /\ delay = c /\ expiring = FALSE
  BY DEF D!Init
<1>2. Infinite \in Nat \ {0} /\ 0 \in 0 .. Infinite
  BY TimerAssumption DEF TimerAssumption
<1>3. NoRepeat(<< >>) /\ Range(<< >>) = {} /\ << >> \in Seq(Task) /\ Len(<< >>) = 0
  BY NoNodes, EmptySeq
<1>4. c \in [Task -> 0 .. Infinite] /\ \A t \in Task : c[t] = 0
  BY <1>2
<1>5. \A i \in 1 .. Len(<< >>) : FALSE
  BY <1>3
<1>6. Spaced(<< >>, c, c, Infinite)
  BY <1>5, Zenon DEF Spaced
<1>7. DelaysCounted(<< >>, c, c)
  BY <1>3, <1>4, <1>6 DEF DelaysCounted
<1>8. D!Left = c
  BY <1>1, <1>7, DelaysCountedIsLeft, DelaysLeftIs
<1>9. D!Promise!Init
  BY <1>1, <1>8 DEF D!Promise!Init
<1>10. DelaysCount
  BY <1>1, <1>3, <1>7, <1>8 DEF DelaysCount
<1> QED BY <1>9, <1>10

(* Every step, seen by the inductive invariant and by the promise.         *)
LEMMA DelaysStep ==
  DelaysCount /\ [TicksNext]_ticksVars => DelaysCount' /\ [D!Promise!Next]_(D!Promise!vars)
<1> SUFFICES ASSUME DelaysCount, [TicksNext]_ticksVars
             PROVE  DelaysCount' /\ [D!Promise!Next]_(D!Promise!vars)
  OBVIOUS
<1>1. CASE DelayCalls
  <2>1. PICK t \in Task, d \in Delays : D!Add(t, d)
    BY <1>1 DEF DelayCalls
  <2>2. DelaysCount' /\ D!Promise!Add(t, d)
    BY <2>1, AddKeeps
  <2> QED BY <2>2 DEF D!Promise!Next
<1>2. CASE WakeCalls
  <2>1. PICK t \in Task : D!Remove(t)
    BY <1>2 DEF WakeCalls
  <2>2. DelaysCount' /\ D!Promise!Remove(t)
    BY <2>1, RemoveKeeps
  <2> QED BY <2>2 DEF D!Promise!Next
<1>3. CASE TickBegin
  <2>1. DelaysCount' /\ D!Promise!Tick
    BY <1>3, DelaysTickKeeps DEF TickBegin
  <2> QED BY <2>1 DEF D!Promise!Next
<1>4. CASE Expire
  <2>1. DelaysCount' /\ D!Promise!Expire
    BY <1>4, ExpireKeeps DEF Expire
  <2> QED BY <2>1 DEF D!Promise!Next
<1>5. CASE TimerTick
  <2>1. DelaysCount' /\ D!Promise!TickEnd
    BY <1>5, DelaysTickEnds DEF TimerTick
  <2> QED BY <2>1 DEF D!Promise!Next
<1>6. CASE TimerCalls \/ CallBacks \/ UNCHANGED ticksVars
  <2>1. UNCHANGED <<delayed, delay, expiring>>
    BY <1>6 DEF TimerCalls, CallBacks, ticksVars, delays
  <2>2. D!Left' = D!Left /\ DelaysCounted(delayed', delay', D!Left')
    BY <2>1, DelaysStay
  <2>3. DelaysCount'
    BY <2>1, <2>2 DEF DelaysCount
  <2>4. UNCHANGED D!Promise!vars
    BY <2>1, <2>2 DEF D!Promise!vars
  <2> QED BY <2>3, <2>4
<1> QED BY <1>1, <1>2, <1>3, <1>4, <1>5, <1>6 DEF TicksNext

(* A delayed task is woken exactly after its own ticks: the list of        *)
(* differences, which aaTick_ looks at the head of, implements a count of  *)
(* ticks of each task's own, in the order the kernel modules take it to be *)
(* in.                                                                     *)
THEOREM TasksKeepTheirDelays == TicksSpec => KeepsDelays
<1>1. TicksInit => DelaysCount /\ D!Promise!Init
  BY DelaysStart DEF TicksInit
<1>2. DelaysCount /\ [TicksNext]_ticksVars => DelaysCount' /\ [D!Promise!Next]_(D!Promise!vars)
  BY DelaysStep
<1> QED BY <1>1, <1>2, PTL DEF TicksSpec, KeepsDelays, D!KeepsPromise, D!Promise!Spec
=============================================================================
