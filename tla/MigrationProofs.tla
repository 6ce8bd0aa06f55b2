-------------------------- MODULE MigrationProofs --------------------------
(***************************************************************************)
(* Theorems about Migration, for all sources, options and values of the    *)
(* bounds.                                                                 *)
(***************************************************************************)
EXTENDS Migration, FiniteSetTheorems, SequenceTheorems, NaturalsInduction,
        WellFoundedInduction, TLAPS

-----------------------------------------------------------------------------
(* Least and greatest of numbers.                                          *)

LEMMA LeastExists ==
  ASSUME NEW S \in SUBSET Nat, S # {}
  PROVE  \E m \in S : \A n \in S : m <= n
<1> DEFINE Less == {p \in Nat \X Nat : p[1] < p[2]}
<1>1. IsWellFoundedOn(Less, Nat)
  BY NatLessThanWellFounded, Zenon DEF OpToRel
<1> HIDE DEF Less
<1>2. PICK m \in S : \A n \in S : ~ (<<n, m>> \in Less)
  BY <1>1, WFMin
<1>3. ASSUME NEW n \in S PROVE m <= n
  <2>1. m \in Nat /\ n \in Nat
    OBVIOUS
  <2>2. ~ (n < m)
    BY <1>2, <2>1 DEF Less
  <2>3. QED
    BY <2>1, <2>2
<1>4. QED
  BY <1>3

LEMMA GreatestExists ==
  ASSUME NEW S \in SUBSET Nat, S # {}, IsFiniteSet(S)
  PROVE  Max(S) \in S /\ \A n \in S : n <= Max(S)
<1> DEFINE Above(n) == {k \in S : k > n}
           Sizes    == {Cardinality(Above(n)) : n \in S}
<1>1. \A n \in S : IsFiniteSet(Above(n)) /\ Cardinality(Above(n)) \in Nat
  BY FS_Subset, FS_CardinalityType
<1>2. PICK m \in S : \A n \in S : Cardinality(Above(m)) <= Cardinality(Above(n))
  <2>1. Sizes \in SUBSET Nat /\ Sizes # {}
    BY <1>1
  <2>2. PICK least \in Sizes : \A size \in Sizes : least <= size
    BY <2>1, LeastExists
  <2>3. QED
    BY <2>2
<1>3. ASSUME NEW n \in S, n > m PROVE FALSE
  <2>1. Above(n) \in SUBSET Above(m) /\ n \in Above(m) /\ n \notin Above(n)
    <3>1. m \in Nat /\ n \in Nat /\ m < n
      BY <1>3
    <3>2. ASSUME NEW k \in S, k > n PROVE k > m
      <4>1. k \in Nat
        OBVIOUS
      <4>2. QED
        BY <3>1, <3>2, <4>1
    <3>3. n > m /\ ~ (n > n)
      BY <3>1
    <3>4. QED
      BY <3>2, <3>3
  <2>2. Cardinality(Above(n)) <= Cardinality(Above(m))
    BY <1>1, <2>1, FS_Subset
  <2>3. Cardinality(Above(n)) # Cardinality(Above(m))
    BY <1>1, <2>1, FS_Subset
  <2>4. QED
    BY <1>1, <1>2, <2>2, <2>3
<1>4. \A n \in S : m >= n
  BY <1>3
<1>5. QED
  BY <1>4 DEF Max

-----------------------------------------------------------------------------
(* Sequences into which an element is put, or out of which one is taken.   *)

LEMMA Inserted ==
  ASSUME NEW S, NEW s \in Seq(S), NEW e \in S, NEW n \in 1 .. Len(s) + 1
  PROVE  /\ InsertAt(s, n, e) \in Seq(S)
         /\ Len(InsertAt(s, n, e)) = Len(s) + 1
         /\ \A k \in 1 .. Len(s) + 1 :
              /\ k < n => InsertAt(s, n, e)[k] = s[k]
              /\ k = n => InsertAt(s, n, e)[k] = e
              /\ k > n => InsertAt(s, n, e)[k] = s[k - 1]
<1>1. SubSeq(s, 1, n - 1) \in Seq(S) /\ Len(SubSeq(s, 1, n - 1)) = n - 1
  BY SubSeqProperties
<1>2. SubSeq(s, n, Len(s)) \in Seq(S) /\ Len(SubSeq(s, n, Len(s))) = Len(s) + 1 - n
  BY SubSeqProperties
<1>3. Len(s) \in Nat
  BY LenProperties
<1> DEFINE head == SubSeq(s, 1, n - 1)
           tail == SubSeq(s, n, Len(s))
<1>4. \A k \in 1 .. n - 1 : head[k] = s[k]
  BY <1>3, SubSeqProperties
<1>5. \A k \in 1 .. Len(s) + 1 - n : tail[k] = s[n + k - 1]
  BY <1>3, SubSeqProperties
<1>6. InsertAt(s, n, e) = (head \o <<e>>) \o tail
  BY DEF InsertAt
<1> HIDE DEF head, tail
<1>7. /\ head \o <<e>> \in Seq(S) /\ Len(head \o <<e>>) = n
      /\ \A k \in 1 .. n : (head \o <<e>>)[k] = IF k < n THEN head[k] ELSE e
  BY <1>1, <1>3 DEF head
<1>8. tail \in Seq(S) /\ Len(tail) = Len(s) + 1 - n
  BY <1>2 DEF tail
<1>9. /\ InsertAt(s, n, e) \in Seq(S) /\ Len(InsertAt(s, n, e)) = n + (Len(s) + 1 - n)
      /\ \A k \in 1 .. n + (Len(s) + 1 - n) : InsertAt(s, n, e)[k] =
           IF k <= n THEN (head \o <<e>>)[k] ELSE tail[k - n]
  <2> DEFINE front == head \o <<e>>
  <2>1. front \in Seq(S) /\ Len(front) = n
    BY <1>7
  <2>2. InsertAt(s, n, e) = front \o tail
    BY <1>6
  <2> HIDE DEF front
  <2>3. /\ front \o tail \in Seq(S) /\ Len(front \o tail) = Len(front) + Len(tail)
        /\ \A k \in 1 .. Len(front) + Len(tail) :
             (front \o tail)[k] = IF k <= Len(front) THEN front[k] ELSE tail[k - Len(front)]
    BY <1>8, <2>1, ConcatProperties
  <2>4. /\ InsertAt(s, n, e) \in Seq(S) /\ Len(InsertAt(s, n, e)) = n + (Len(s) + 1 - n)
        /\ \A k \in 1 .. n + (Len(s) + 1 - n) : InsertAt(s, n, e)[k] =
             IF k <= n THEN front[k] ELSE tail[k - n]
    BY <1>8, <2>1, <2>2, <2>3
  <2>5. QED
    BY <2>4 DEF front
<1>10. ASSUME NEW k \in 1 .. Len(s) + 1
       PROVE  /\ k < n => InsertAt(s, n, e)[k] = s[k]
              /\ k = n => InsertAt(s, n, e)[k] = e
              /\ k > n => InsertAt(s, n, e)[k] = s[k - 1]
  <2>1. CASE k <= n
    <3>1. k \in 1 .. n /\ k \in 1 .. n + (Len(s) + 1 - n)
      BY <1>3, <2>1
    <3>2. InsertAt(s, n, e)[k] = IF k < n THEN head[k] ELSE e
      BY <1>7, <1>9, <2>1, <3>1
    <3>3. k < n => head[k] = s[k]
      BY <1>4, <3>1
    <3>4. QED
      BY <2>1, <3>1, <3>2, <3>3
  <2>2. CASE k > n
    <3>1. k - n \in 1 .. Len(s) + 1 - n /\ n + (k - n) - 1 = k - 1
      BY <1>3, <2>2
    <3>2. tail[k - n] = s[k - 1]
      BY <1>5, <3>1
    <3>3. QED
      BY <1>3, <1>9, <2>2, <3>2
  <2>3. QED
    BY <1>3, <2>1, <2>2
<1>11. QED
  BY <1>3, <1>9, <1>10

LEMMA Removed ==
  ASSUME NEW S, NEW s \in Seq(S), NEW n \in 1 .. Len(s)
  PROVE  /\ RemoveAt(s, n) \in Seq(S)
         /\ Len(RemoveAt(s, n)) = Len(s) - 1
         /\ \A k \in 1 .. Len(s) - 1 : RemoveAt(s, n)[k] = IF k < n THEN s[k] ELSE s[k + 1]
<1>1. SubSeq(s, 1, n - 1) \in Seq(S) /\ Len(SubSeq(s, 1, n - 1)) = n - 1
  BY SubSeqProperties
<1>2. SubSeq(s, n + 1, Len(s)) \in Seq(S) /\ Len(SubSeq(s, n + 1, Len(s))) = Len(s) - n
  BY SubSeqProperties
<1>3. Len(s) \in Nat
  BY LenProperties
<1> DEFINE head == SubSeq(s, 1, n - 1)
           tail == SubSeq(s, n + 1, Len(s))
<1>4. \A k \in 1 .. n - 1 : head[k] = s[k]
  BY <1>3, SubSeqProperties
<1>5. \A k \in 1 .. Len(s) - n : tail[k] = s[n + k]
  BY <1>3, SubSeqProperties
<1>6. RemoveAt(s, n) = head \o tail
  BY DEF RemoveAt
<1>7. head \in Seq(S) /\ Len(head) = n - 1 /\ tail \in Seq(S) /\ Len(tail) = Len(s) - n
  BY <1>1, <1>2
<1> HIDE DEF head, tail
<1>8. /\ RemoveAt(s, n) \in Seq(S) /\ Len(RemoveAt(s, n)) = (n - 1) + (Len(s) - n)
      /\ \A k \in 1 .. (n - 1) + (Len(s) - n) : RemoveAt(s, n)[k] =
           IF k <= n - 1 THEN head[k] ELSE tail[k - (n - 1)]
  <2>1. /\ head \o tail \in Seq(S) /\ Len(head \o tail) = Len(head) + Len(tail)
        /\ \A k \in 1 .. Len(head) + Len(tail) :
             (head \o tail)[k] = IF k <= Len(head) THEN head[k] ELSE tail[k - Len(head)]
    BY <1>7, ConcatProperties
  <2>2. QED
    BY <1>6, <1>7, <2>1
<1>9. ASSUME NEW k \in 1 .. Len(s) - 1
      PROVE  RemoveAt(s, n)[k] = IF k < n THEN s[k] ELSE s[k + 1]
  <2>1. CASE k < n
    <3>1. k \in 1 .. n - 1 /\ k \in 1 .. (n - 1) + (Len(s) - n) /\ k <= n - 1
      BY <1>3, <2>1
    <3>2. QED
      BY <1>4, <1>8, <2>1, <3>1
  <2>2. CASE k >= n
    <3>1. k - (n - 1) \in 1 .. Len(s) - n /\ n + (k - (n - 1)) = k + 1
      BY <1>3, <2>2
    <3>2. tail[k - (n - 1)] = s[k + 1]
      BY <1>5, <3>1
    <3>3. QED
      BY <1>3, <1>8, <2>2, <3>2
  <2>3. QED
    BY <1>3, <2>1, <2>2
<1>10. Len(RemoveAt(s, n)) = Len(s) - 1
  BY <1>3, <1>8
<1>11. QED
  BY <1>8, <1>9, <1>10

LEMMA InsertedRows ==
  ASSUME NEW S, NEW s \in Seq(S), NEW e \in S, NEW n \in 1 .. Len(s) + 1,
         IsInjective(s), e \notin ToSet(s)
  PROVE  IsInjective(InsertAt(s, n, e)) /\ ToSet(s) \subseteq ToSet(InsertAt(s, n, e))
<1> DEFINE t == InsertAt(s, n, e)
<1>1. Len(s) \in Nat /\ DOMAIN s = 1 .. Len(s)
  BY LenProperties
<1>2. t \in Seq(S) /\ Len(t) = Len(s) + 1 /\ DOMAIN t = 1 .. Len(s) + 1
  BY <1>1, Inserted, LenProperties
<1>3. \A k \in DOMAIN t :
        /\ k < n => t[k] = s[k]
        /\ k = n => t[k] = e
        /\ k > n => t[k] = s[k - 1]
  <2>1. \A k \in 1 .. Len(s) + 1 :
          /\ k < n => InsertAt(s, n, e)[k] = s[k]
          /\ k = n => InsertAt(s, n, e)[k] = e
          /\ k > n => InsertAt(s, n, e)[k] = s[k - 1]
    <3> HIDE DEF t
    <3>1. QED
      BY Inserted, SMTT(60)
  <2>2. QED
    BY <1>2, <2>1
<1> HIDE DEF t
<1>4. \A j, k \in DOMAIN s : s[j] = s[k] => j = k
  BY DEF IsInjective
<1>5. \A k \in DOMAIN s : s[k] # e
  BY DEF ToSet
<1>6. ASSUME NEW j \in DOMAIN t, NEW k \in DOMAIN t, t[j] = t[k]
      PROVE  j = k
  <2>1. j \in 1 .. Len(s) + 1 /\ k \in 1 .. Len(s) + 1
    BY <1>2
  <2>2. CASE j = n \/ k = n
    BY <1>1, <1>3, <1>5, <1>6, <2>1, <2>2
  <2>3. CASE j # n /\ k # n
    BY <1>1, <1>3, <1>4, <1>6, <2>1, <2>3
  <2>4. QED
    BY <2>2, <2>3
<1>7. ASSUME NEW k \in DOMAIN s
      PROVE  \E j \in DOMAIN t : t[j] = s[k]
  <2>1. CASE k < n
    BY <1>1, <1>2, <1>3, <2>1
  <2>2. CASE k >= n
    <3>1. k + 1 \in DOMAIN t /\ ~ (k + 1 < n) /\ k + 1 # n /\ (k + 1) - 1 = k
      BY <1>1, <1>2, <2>2
    <3>2. QED
      BY <1>3, <3>1
  <2>3. QED
    BY <1>1, <2>1, <2>2
<1>8. QED
  BY <1>6, <1>7 DEF IsInjective, ToSet, t

LEMMA RemovedRows ==
  ASSUME NEW S, NEW s \in Seq(S), NEW n \in 1 .. Len(s), IsInjective(s)
  PROVE  /\ IsInjective(RemoveAt(s, n))
         /\ s[n] \notin ToSet(RemoveAt(s, n))
<1> DEFINE t == RemoveAt(s, n)
<1>1. Len(s) \in Nat /\ DOMAIN s = 1 .. Len(s)
  BY LenProperties
<1>2. t \in Seq(S) /\ Len(t) = Len(s) - 1 /\ DOMAIN t = 1 .. Len(s) - 1
  BY <1>1, Removed, LenProperties
<1>3. \A k \in DOMAIN t : t[k] = IF k < n THEN s[k] ELSE s[k + 1]
  BY <1>2, Removed
<1> HIDE DEF t
<1>4. \A j, k \in DOMAIN s : s[j] = s[k] => j = k
  BY DEF IsInjective
<1>5. ASSUME NEW j \in DOMAIN t, NEW k \in DOMAIN t, t[j] = t[k]
      PROVE  j = k
  <2>1. j \in 1 .. Len(s) - 1 /\ k \in 1 .. Len(s) - 1
    BY <1>2
  <2>2. QED
    BY <1>1, <1>3, <1>4, <1>5, <2>1
<1>6. ASSUME NEW k \in DOMAIN t
      PROVE  t[k] # s[n]
  <2>1. k \in 1 .. Len(s) - 1
    BY <1>2
  <2>2. QED
    BY <1>1, <1>3, <1>4, <2>1
<1>7. QED
  BY <1>5, <1>6 DEF IsInjective, ToSet, t

-----------------------------------------------------------------------------
(* The page a limit cuts off a set of numbers: what is below one of its    *)
(* elements is in it, and a page that is not full holds the whole set.     *)

LEMMA FirstOfSet ==
  ASSUME NEW after \in SUBSET Nat, IsFiniteSet(after), NEW n \in Nat,
         NEW page, page = {i \in after : Cardinality({j \in after : j < i}) < n}
  PROVE  /\ \A i \in page : \A j \in after : j <= i => j \in page
         /\ Cardinality(page) < n => page = after
<1> DEFINE Below(i) == {j \in after : j < i}
<1>1. \A i : IsFiniteSet(Below(i)) /\ Cardinality(Below(i)) \in Nat
  BY FS_Subset, FS_CardinalityType
<1>2. IsFiniteSet(page) /\ Cardinality(page) \in Nat
  BY FS_Subset, FS_CardinalityType
<1>3. \A i \in after : i \in page <=> Cardinality(Below(i)) < n
  OBVIOUS
<1> page \subseteq after
  OBVIOUS
<1> HIDE DEF Below
<1>4. ASSUME NEW i \in page, NEW j \in after, j <= i
      PROVE  j \in page
  <2>1. i \in Nat /\ j \in Nat
    OBVIOUS
  <2>2. ASSUME NEW k \in after, k < j PROVE k < i
    <3>1. k \in Nat
      OBVIOUS
    <3>2. QED
      BY <1>4, <2>1, <2>2, <3>1
  <2>3. Below(j) \in SUBSET Below(i)
    BY <2>2 DEF Below
  <2>4. Cardinality(Below(j)) <= Cardinality(Below(i))
    BY <1>1, <2>3, FS_Subset
  <2>5. QED
    BY <1>1, <1>3, <2>4
<1>5. ASSUME Cardinality(page) < n, page # after
      PROVE  FALSE
  <2>1. after \ page \in SUBSET Nat /\ after \ page # {}
    BY <1>5
  <2>2. PICK i \in after \ page : \A j \in after \ page : i <= j
    BY <2>1, LeastExists
  <2>3. ASSUME NEW j \in after, j < i PROVE j \in page
    <3>1. i \in Nat /\ j \in Nat
      OBVIOUS
    <3>2. QED
      BY <2>2, <2>3, <3>1
  <2>4. Below(i) \in SUBSET page
    BY <2>3 DEF Below
  <2>5. Cardinality(Below(i)) <= Cardinality(page)
    BY <1>2, <2>4, FS_Subset
  <2>6. QED
    BY <1>1, <1>2, <1>3, <1>5, <2>2, <2>5
<1>6. QED
  BY <1>4, <1>5

-----------------------------------------------------------------------------
(* The parts of the steps.                                                 *)

LEMMA RowsAreIds ==
  ASSUME TypeOK, NEW c \in Collections
  PROVE  stored[c] \in Seq(Ids) /\ Rows(c) \in SUBSET Ids
<1>1. stored[c] \in Seq(Ids)
  BY DEF TypeOK
<1>2. \A k \in DOMAIN stored[c] : stored[c][k] \in Ids
  BY <1>1, ElementOfSeq, LenProperties
<1>3. QED
  BY <1>1, <1>2 DEF Rows, ToSet

LEMMA ConvertTypes ==
  ASSUME TypeOK, NEW c \in Collections, NEW page \in SUBSET Ids, Convert(c, page)
  PROVE  /\ docs' \in [Collections -> [Ids -> Nat]]
         /\ unconverted' \in [Collections -> SUBSET Ids]
         /\ stayed' \in [Collections -> SUBSET Ids]
<1> DEFINE converted == [i \in Ids |->
             IF i \in page /\ ~Throws(i) THEN docs[c][i] + 1 ELSE docs[c][i]]
<1>1. docs' \in [Collections -> [Ids -> Nat]]
  <2>1. docs[c] \in [Ids -> Nat]
    BY DEF TypeOK
  <2>2. converted \in [Ids -> Nat]
    BY <2>1
  <2>3. docs' = [docs EXCEPT ![c] = converted]
    BY DEF Convert
  <2>4. QED
    BY <2>2, <2>3 DEF TypeOK
<1>2. unconverted' \in [Collections -> SUBSET Ids]
  BY DEF Convert, TypeOK
<1>3. stayed' \in [Collections -> SUBSET Ids]
  BY RowsAreIds DEF Convert, TypeOK
<1>4. QED
  BY <1>1, <1>2, <1>3

LEMMA AdvanceTypes ==
  ASSUME TypeOK, NEW c \in Collections, progress[c] = "paging", NEW more, Advance(c, more)
  PROVE  /\ progress' \in [Collections -> {"unlisted", "left out", "todo", "paging", "exported"}]
         /\ \A d \in Collections : progress'[d] = "paging" => progress[d] = "paging"
BY DEF Advance, TypeOK

(* The range a Supabase server answers with.                               *)
LastOf(c) == Min({cursor + BatchSize, cursor + cap, Len(stored[c])})

LEMMA RangeOfRows ==
  ASSUME TypeOK, MigrationAssumption, NEW c \in Collections,
         NEW page, page = SubSeq(stored[c], cursor + 1, LastOf(c))
  PROVE  /\ LastOf(c) \in Nat
         /\ LastOf(c) <= Len(stored[c])
         /\ LastOf(c) <= cursor + BatchSize
         /\ cap >= BatchSize => LastOf(c) = Len(stored[c]) \/ LastOf(c) = cursor + BatchSize
         /\ Len(page) = IF cursor + 1 <= LastOf(c) THEN LastOf(c) - cursor ELSE 0
         /\ ToSet(page) = {stored[c][k] : k \in cursor + 1 .. LastOf(c)}
         /\ ToSet(page) \in SUBSET Ids
<1> DEFINE bounds == {cursor + BatchSize, cursor + cap, Len(stored[c])}
<1>1. stored[c] \in Seq(Ids) /\ Len(stored[c]) \in Nat /\ cursor \in Nat
  BY RowsAreIds, LenProperties DEF TypeOK
<1>2. BatchSize \in Nat /\ cap \in Nat /\ BatchSize > 0 /\ cap > 0
  <2>1. cap \in RowCaps
    BY DEF TypeOK
  <2>2. RowCaps \subseteq Nat \ {0} /\ BatchSize \in Nat \ {0}
    BY DEF MigrationAssumption
  <2>3. \A n \in Nat \ {0} : n \in Nat /\ n > 0
    OBVIOUS
  <2>4. QED
    BY <2>1, <2>2, <2>3
<1>3. LastOf(c) \in bounds /\ \A n \in bounds : LastOf(c) <= n
  <2>1. bounds \in SUBSET Nat /\ bounds # {}
    BY <1>1, <1>2
  <2>2. \E m \in bounds : \A n \in bounds : m <= n
    BY <2>1, LeastExists
  <2>3. QED
    BY <2>2 DEF Min, LastOf
<1>4. LastOf(c) \in Nat /\ LastOf(c) <= Len(stored[c]) /\ LastOf(c) <= cursor + BatchSize
  BY <1>1, <1>2, <1>3
<1>5. cap >= BatchSize => LastOf(c) = Len(stored[c]) \/ LastOf(c) = cursor + BatchSize
  BY <1>1, <1>2, <1>3
<1>6. \A k \in cursor + 1 .. LastOf(c) : stored[c][k] \in Ids
  BY <1>1, <1>4, ElementOfSeq
<1>7. /\ page \in Seq(Ids)
      /\ Len(page) = IF cursor + 1 <= LastOf(c) THEN LastOf(c) - (cursor + 1) + 1 ELSE 0
      /\ \A k \in 1 .. LastOf(c) - (cursor + 1) + 1 : page[k] = stored[c][(cursor + 1) + k - 1]
  BY <1>1, <1>4, <1>6, SubSeqProperties
<1>8. Len(page) = IF cursor + 1 <= LastOf(c) THEN LastOf(c) - cursor ELSE 0
  BY <1>1, <1>4, <1>7
<1>9. DOMAIN page = 1 .. Len(page) /\ \A k \in DOMAIN page : page[k] = stored[c][cursor + k]
  BY <1>1, <1>4, <1>7, <1>8, LenProperties
<1>10. ToSet(page) = {stored[c][k] : k \in cursor + 1 .. LastOf(c)}
  <2>1. ASSUME NEW k \in cursor + 1 .. LastOf(c)
        PROVE  \E j \in DOMAIN page : page[j] = stored[c][k]
    <3>1. k - cursor \in DOMAIN page /\ cursor + (k - cursor) = k
      BY <1>1, <1>4, <1>8, <1>9
    <3>2. QED
      BY <1>9, <3>1
  <2>2. ASSUME NEW j \in DOMAIN page
        PROVE  \E k \in cursor + 1 .. LastOf(c) : page[j] = stored[c][k]
    <3>1. cursor + j \in cursor + 1 .. LastOf(c)
      BY <1>1, <1>4, <1>8, <1>9
    <3>2. QED
      BY <1>9, <3>1
  <2>3. ToSet(page) = {page[j] : j \in DOMAIN page}
    BY DEF ToSet
  <2>4. ASSUME NEW row \in ToSet(page)
        PROVE  row \in {stored[c][k] : k \in cursor + 1 .. LastOf(c)}
    <3>1. PICK j \in DOMAIN page : row = page[j]
      BY <2>3
    <3>2. PICK k \in cursor + 1 .. LastOf(c) : page[j] = stored[c][k]
      BY <2>2
    <3>3. QED
      BY <3>1, <3>2
  <2>5. {stored[c][k] : k \in cursor + 1 .. LastOf(c)} \subseteq ToSet(page)
    BY <2>1, <2>3
  <2>6. QED
    BY <2>4, <2>5
<1>11. QED
  BY <1>4, <1>5, <1>6, <1>8, <1>10

(* The page a Firestore query answers with.                                *)
After(c) == {i \in Rows(c) : i > cursor}

PageAfter(c) == {i \in After(c) : Cardinality({j \in After(c) : j < i}) < BatchSize}

LEMMA PageOfRows ==
  ASSUME TypeOK, MigrationAssumption, NEW c \in Collections,
         NEW next, next = Max(PageAfter(c) \union {cursor})
  PROVE  /\ PageAfter(c) \in SUBSET Ids
         /\ next \in Nat /\ cursor <= next
         /\ \A i \in PageAfter(c) : i > cursor /\ i <= next
         /\ \A i \in After(c) : i <= next => i \in PageAfter(c)
         /\ Cardinality(PageAfter(c)) \in Nat
         /\ ~ (Cardinality(PageAfter(c)) >= BatchSize) => PageAfter(c) = After(c)
<1>1. Rows(c) \in SUBSET Ids /\ Ids \in SUBSET Nat /\ IsFiniteSet(Ids) /\ cursor \in Nat
  BY RowsAreIds DEF TypeOK, MigrationAssumption
<1>2. BatchSize \in Nat
  BY DEF MigrationAssumption
<1>3. After(c) \in SUBSET Nat /\ After(c) \in SUBSET Ids /\ IsFiniteSet(After(c))
  BY <1>1, FS_Subset DEF After
<1>4. /\ \A i \in PageAfter(c) : \A j \in After(c) : j <= i => j \in PageAfter(c)
      /\ Cardinality(PageAfter(c)) < BatchSize => PageAfter(c) = After(c)
  <2>1. PageAfter(c) = {i \in After(c) : Cardinality({j \in After(c) : j < i}) < BatchSize}
    BY DEF PageAfter
  <2>2. QED
    BY <1>2, <1>3, <2>1, FirstOfSet
<1>5. PageAfter(c) \in SUBSET After(c)
  BY DEF PageAfter
<1>6. IsFiniteSet(PageAfter(c)) /\ Cardinality(PageAfter(c)) \in Nat
  BY <1>3, <1>5, FS_Subset, FS_CardinalityType
<1>7. IsFiniteSet(PageAfter(c) \union {cursor})
  BY <1>6, FS_AddElement
<1>8. next \in PageAfter(c) \union {cursor} /\ \A n \in PageAfter(c) \union {cursor} : n <= next
  BY <1>1, <1>3, <1>5, <1>7, GreatestExists
<1>9. \A i \in After(c) : i > cursor
  BY DEF After
<1>10. ASSUME NEW i \in After(c), i <= next
       PROVE  i \in PageAfter(c)
  <2>1. next # cursor
    BY <1>1, <1>3, <1>9, <1>10
  <2>2. QED
    BY <1>4, <1>8, <1>10, <2>1
<1>11. next \in Nat
  BY <1>1, <1>3, <1>5, <1>8
<1>12. \A i \in PageAfter(c) : i > cursor /\ i <= next
  BY <1>5, <1>8, <1>9
<1>13. ~ (Cardinality(PageAfter(c)) >= BatchSize) => PageAfter(c) = After(c)
  BY <1>2, <1>4, <1>6
<1>14. QED
  BY <1>3, <1>5, <1>6, <1>8, <1>10, <1>11, <1>12, <1>13

(* What the users of the source make of a collection.                      *)
LEMMA UsersChange ==
  ASSUME TypeOK, NEW c \in Collections, Users(c)
  PROVE  \E rows \in Seq(Ids) :
           /\ Change(c, rows)
           /\ IsInjective(stored[c]) => IsInjective(rows)
<1> DEFINE s == stored[c]
<1>1. s \in Seq(Ids) /\ Len(s) \in Nat /\ DOMAIN s = 1 .. Len(s)
  BY RowsAreIds, LenProperties
<1>2. PICK i \in Ids : Insert(c, i) \/ Delete(c, i) \/ Update(c, i)
  BY DEF Users
<1>3. CASE Insert(c, i)
  <2>1. i \notin ToSet(s)
    BY <1>3 DEF Insert, Rows
  <2>2. PICK n \in 1 .. Len(s) + 1 : Change(c, InsertAt(s, n, i))
    BY <1>3 DEF Insert
  <2>3. InsertAt(s, n, i) \in Seq(Ids)
    BY <1>1, Inserted
  <2>4. IsInjective(s) => IsInjective(InsertAt(s, n, i))
    BY <1>1, <2>1, InsertedRows
  <2>5. QED
    BY <2>2, <2>3, <2>4
<1>4. CASE Delete(c, i)
  <2>1. PICK n \in 1 .. Len(s) : s[n] = i /\ Change(c, RemoveAt(s, n))
    BY <1>1, <1>4 DEF Delete
  <2>2. RemoveAt(s, n) \in Seq(Ids)
    BY <1>1, Removed
  <2>3. IsInjective(s) => IsInjective(RemoveAt(s, n))
    BY <1>1, RemovedRows
  <2>4. QED
    BY <2>1, <2>2, <2>3
<1>5. CASE Update(c, i)
  <2>1. PICK n \in 1 .. Len(s), m \in 1 .. Len(s) :
          s[n] = i /\ Change(c, InsertAt(RemoveAt(s, n), m, i))
    BY <1>1, <1>5 DEF Update
  <2> DEFINE others == RemoveAt(s, n)
  <2>2. others \in Seq(Ids) /\ Len(others) = Len(s) - 1
    BY <1>1, Removed
  <2>3. IsInjective(s) => IsInjective(others) /\ i \notin ToSet(others)
    BY <1>1, <2>1, RemovedRows
  <2> HIDE DEF others
  <2>4. m \in 1 .. Len(others) + 1
    BY <1>1, <2>2
  <2>5. InsertAt(others, m, i) \in Seq(Ids)
    BY <2>2, <2>4, Inserted
  <2>6. IsInjective(s) => IsInjective(InsertAt(others, m, i))
    BY <2>2, <2>3, <2>4, InsertedRows
  <2>7. QED
    BY <2>1, <2>5, <2>6 DEF others
<1>6. QED
  BY <1>2, <1>3, <1>4, <1>5

-----------------------------------------------------------------------------
(* Type correctness.                                                       *)

LEMMA InitTypes ==
  ASSUME MigrationAssumption, Init
  PROVE  TypeOK
BY DEF MigrationAssumption, Init, TypeOK

LEMMA ChangeTypes ==
  ASSUME TypeOK, NEW c \in Collections, NEW rows \in Seq(Ids), Change(c, rows)
  PROVE  TypeOK'
<1>1. stored' \in [Collections -> Seq(Ids)]
  BY DEF Change, TypeOK
<1>2. stayed' \in [Collections -> SUBSET Ids] /\ disturbed' \subseteq Collections
  BY DEF Change, TypeOK
<1>3. changes' \in Nat
  <2>1. changes \in Nat /\ changes' = changes + 1
    BY DEF Change, TypeOK
  <2>2. QED
    BY <2>1
<1>4. UNCHANGED <<kind, cap, phase, progress, cursor, docs, unconverted, warned, faults>>
  BY DEF Change, source, output
<1>5. QED
  BY <1>1, <1>2, <1>3, <1>4 DEF TypeOK

LEMMA ThrowTypes ==
  ASSUME TypeOK, Throw
  PROVE  TypeOK'
<1>1. phase' = "failed" /\ UNCHANGED <<source, stored, progress, cursor, output, changes, history>>
  BY DEF Throw
<1>2. faults' \in Nat
  <2>1. faults \in Nat /\ faults' = faults + 1
    BY DEF Throw, TypeOK
  <2>2. QED
    BY <2>1
<1>3. QED
  BY <1>1, <1>2 DEF TypeOK, source, output, history

LEMMA RangeFailsTypes ==
  ASSUME TypeOK, NEW c \in Collections, FetchRangeFails(c)
  PROVE  TypeOK'
<1>1. /\ progress' = [progress EXCEPT ![c] = "exported"] /\ warned' = warned \union {c}
      /\ UNCHANGED <<source, stored, phase, cursor, docs, unconverted, changes, history>>
  BY DEF FetchRangeFails
<1>2. faults' \in Nat
  <2>1. faults \in Nat /\ faults' = faults + 1
    BY DEF FetchRangeFails, TypeOK
  <2>2. QED
    BY <2>1
<1>3. QED
  BY <1>1, <1>2 DEF TypeOK, source, history

LEMMA CountTypes ==
  ASSUME TypeOK, NEW c \in Collections, Count(c) \/ CountFails(c)
  PROVE  TypeOK'
<1>1. CASE kind = "firestore" /\ Throw
  BY <1>1, ThrowTypes
<1>2. CASE ~ (kind = "firestore" /\ Throw)
  <2>1. Idle /\ cursor' = 0 /\ progress' = [progress EXCEPT ![c] = "paging"]
    BY <1>2 DEF Count, CountFails
  <2>2. faults' \in Nat
    <3>1. faults \in Nat /\ (faults' = faults \/ faults' = faults + 1)
      BY <1>2 DEF Count, CountFails, TypeOK
    <3>2. QED
      BY <3>1
  <2>3. UNCHANGED <<kind, cap, stored, phase, output, changes, history>>
    BY <1>2 DEF Count, CountFails, source
  <2>4. \A d \in Collections : progress'[d] = "paging" => d = c
    BY <2>1 DEF Idle, TypeOK
  <2>5. progress' \in [Collections -> {"unlisted", "left out", "todo", "paging", "exported"}]
    BY <2>1 DEF TypeOK
  <2>6. QED
    BY <2>1, <2>2, <2>3, <2>4, <2>5 DEF TypeOK, output, history
<1>3. QED
  BY <1>1, <1>2

LEMMA ConvertedTypes ==
  ASSUME TypeOK, NEW c \in Collections, NEW page \in SUBSET Ids, Convert(c, page),
         cursor' \in Nat,
         progress' \in [Collections -> {"unlisted", "left out", "todo", "paging", "exported"}],
         \A d \in Collections : progress'[d] = "paging" => progress[d] = "paging"
  PROVE  TypeOK'
<1>1. /\ docs' \in [Collections -> [Ids -> Nat]]
      /\ unconverted' \in [Collections -> SUBSET Ids]
      /\ stayed' \in [Collections -> SUBSET Ids]
  BY ConvertTypes
<1>2. UNCHANGED <<kind, cap, stored, phase, warned, changes, faults, disturbed>>
  BY DEF Convert, source
<1>3. QED
  BY <1>1, <1>2 DEF TypeOK

LEMMA FetchTypes ==
  ASSUME TypeOK, MigrationAssumption, NEW c \in Collections,
         FetchRange(c) \/ FetchAfter(c) \/ FetchTree(c)
  PROVE  TypeOK'
<1>1. CASE FetchRange(c)
  <2> DEFINE page == SubSeq(stored[c], cursor + 1, LastOf(c))
  <2>1. /\ Convert(c, ToSet(page)) /\ cursor' = cursor + BatchSize
        /\ progress[c] = "paging" /\ Advance(c, Len(page) >= BatchSize)
    BY <1>1 DEF FetchRange, LastOf
  <2>2. ToSet(page) \in SUBSET Ids
    BY RangeOfRows
  <2>3. cursor' \in Nat
    <3>1. cursor \in Nat /\ BatchSize \in Nat
      BY DEF TypeOK, MigrationAssumption
    <3>2. QED
      BY <2>1, <3>1
  <2> HIDE DEF page
  <2>4. QED
    BY <2>1, <2>2, <2>3, AdvanceTypes, ConvertedTypes
<1>2. CASE FetchAfter(c)
  <2>1. /\ Convert(c, PageAfter(c)) /\ cursor' = Max(PageAfter(c) \union {cursor})
        /\ progress[c] = "paging" /\ Advance(c, Cardinality(PageAfter(c)) >= BatchSize)
    BY <1>2 DEF FetchAfter, PageAfter, After
  <2>2. PageAfter(c) \in SUBSET Ids /\ cursor' \in Nat
    BY <2>1, PageOfRows
  <2>3. QED
    BY <2>1, <2>2, AdvanceTypes, ConvertedTypes
<1>3. CASE FetchTree(c)
  <2>1. Convert(c, Rows(c)) /\ cursor' = cursor
    BY <1>3 DEF FetchTree
  <2>2. /\ progress' \in [Collections -> {"unlisted", "left out", "todo", "paging", "exported"}]
        /\ \A d \in Collections : progress'[d] = "paging" => progress[d] = "paging"
    BY <1>3 DEF FetchTree, TypeOK
  <2>3. Rows(c) \in SUBSET Ids /\ cursor' \in Nat
    BY <2>1, RowsAreIds DEF TypeOK
  <2>4. QED
    BY <2>1, <2>2, <2>3, ConvertedTypes
<1>4. QED
  BY <1>1, <1>2, <1>3

(* The state stays within its types, and one collection is under way at    *)
(* most, since each is taken up only when the one before it is done with.  *)
THEOREM TypeCorrect == Spec => []TypeOK
<1> USE MigrationAssumption
<1>1. Init => TypeOK
  BY InitTypes
<1>2. TypeOK /\ [Next]_vars => TypeOK'
  <2> SUFFICES ASSUME TypeOK, [Next]_vars PROVE TypeOK'
    OBVIOUS
  <2>1. CASE UNCHANGED vars
    BY <2>1 DEF TypeOK, vars, source, output, history
  <2>2. CASE ListCollections
    BY <2>2 DEF ListCollections, TypeOK, source, output, history
  <2>3. ASSUME Throw PROVE TypeOK'
    BY <2>3, ThrowTypes
  <2>4. ASSUME NEW c \in Collections, Adapter(c) PROVE TypeOK'
    <3>1. CASE Count(c) \/ CountFails(c)
      BY <3>1, CountTypes
    <3>2. CASE FetchRange(c) \/ FetchAfter(c) \/ FetchTree(c)
      BY <3>2, FetchTypes
    <3>3. CASE FetchRangeFails(c)
      BY <3>3, RangeFailsTypes
    <3>4. CASE FetchAfterFails(c) \/ FetchTreeFails(c)
      BY <2>3, <3>4 DEF FetchAfterFails, FetchTreeFails
    <3>5. QED
      BY <2>4, <3>1, <3>2, <3>3, <3>4 DEF Adapter
  <2>5. ASSUME NEW c \in Collections, Users(c) PROVE TypeOK'
    BY <2>5, UsersChange, ChangeTypes
  <2>6. CASE WriteOutput
    BY <2>6 DEF WriteOutput, TypeOK, source, output, history
  <2>7. CASE ListFails \/ WriteFails
    BY <2>3, <2>7 DEF ListFails, WriteFails
  <2>8. QED
    BY <2>1, <2>2, <2>4, <2>5, <2>6, <2>7 DEF Next
<1>3. QED
  BY <1>1, <1>2, PTL DEF Spec

-----------------------------------------------------------------------------
(* What has been read of a collection, while it is read and afterwards.    *)

Done(c, i) == docs[c][i] > 0 \/ i \in unconverted[c]

(* Nothing is read of a collection before its turn.                        *)
NotYetRead(c) ==
  progress[c] \in {"unlisted", "todo", "left out"} => \A i \in Ids : docs[c][i] = 0

(* Of a table that has not changed since its first range was read, the     *)
(* documents are of rows in front of the offset, and so is every row.      *)
RangesRead(c) ==
  kind = "supabase" /\ progress[c] = "paging" /\ c \notin disturbed =>
    /\ \A i \in Ids : docs[c][i] > 0 =>
         \E k \in DOMAIN stored[c] : k <= cursor /\ stored[c][k] = i
    /\ cap >= BatchSize =>
         \A k \in DOMAIN stored[c] : k <= cursor => Done(c, stored[c][k])
    /\ cursor > 0 => stayed[c] \subseteq Rows(c)

(* The documents are of rows up to the last one read, and every row up to  *)
(* that one that stayed has been read.                                     *)
CursorRead(c) ==
  kind = "firestore" /\ progress[c] = "paging" =>
    /\ \A i \in Ids : docs[c][i] > 0 => i <= cursor
    /\ \A i \in stayed[c] : i <= cursor => Done(c, i)
    /\ cursor > 0 => stayed[c] \subseteq Rows(c)

Once(c) ==
  \A i \in Ids : docs[c][i] > 1 => kind = "supabase" /\ c \in disturbed

Told(c) ==
  progress[c] = "exported" =>
    \/ \A i \in stayed[c] : Done(c, i)
    \/ c \in warned
    \/ kind = "supabase" /\ (c \in disturbed \/ cap < BatchSize)

ReadOf(c) ==
  /\ IsInjective(stored[c])
  /\ phase = "listing" => progress[c] = "unlisted"
  /\ kind = "firebase-realtime" => cursor = 0 /\ progress[c] # "paging"
  /\ NotYetRead(c)
  /\ RangesRead(c)
  /\ CursorRead(c)
  /\ Once(c)
  /\ Told(c)

ReadInv == \A c \in Collections : ReadOf(c)

LEMMA ReadSuffices ==
  ASSUME ReadInv
  PROVE  LossIsTold /\ ExportedOnce
<1>1. LossIsTold
  BY DEF ReadInv, ReadOf, Told, Done, LossIsTold
<1>2. ExportedOnce
  BY DEF ReadInv, ReadOf, Once, ExportedOnce
<1>3. QED
  BY <1>1, <1>2

(* A collection of which a step changes nothing.                           *)
LEMMA Unmoved ==
  ASSUME NEW d \in Collections, ReadOf(d),
         UNCHANGED <<kind, cap, stored[d], progress[d], cursor, docs[d], unconverted[d], stayed[d]>>,
         d \in disturbed' <=> d \in disturbed,
         warned \subseteq warned',
         phase' = "listing" => phase = "listing"
  PROVE  ReadOf(d)'
BY DEF ReadOf, NotYetRead, RangesRead, CursorRead, Once, Told, Done, Rows

(* A collection that is not under way, while the adapter is with another.  *)
LEMMA Untouched ==
  ASSUME NEW d \in Collections, ReadOf(d), progress[d] # "paging",
         UNCHANGED <<kind, cap, stored[d], progress[d], docs[d], unconverted[d], stayed[d]>>,
         d \in disturbed' <=> d \in disturbed,
         warned \subseteq warned',
         phase' = "listing" => phase = "listing",
         kind = "firebase-realtime" => cursor' = 0
  PROVE  ReadOf(d)'
BY DEF ReadOf, NotYetRead, RangesRead, CursorRead, Once, Told, Done

LEMMA InitRead ==
  ASSUME MigrationAssumption, Init
  PROVE  ReadInv
<1>1. ASSUME NEW c \in Collections PROVE ReadOf(c)
  <2>1. IsInjective(stored[c])
    BY DEF Init, MigrationAssumption
  <2>2. progress[c] = "unlisted" /\ cursor = 0 /\ \A i \in Ids : docs[c][i] = 0
    BY DEF Init
  <2>3. QED
    BY <2>1, <2>2 DEF ReadOf, NotYetRead, RangesRead, CursorRead, Once, Told
<1>2. QED
  BY <1>1 DEF ReadInv

LEMMA ThrowRead ==
  ASSUME ReadInv, Throw
  PROVE  ReadInv'
<1>1. ASSUME NEW d \in Collections PROVE ReadOf(d)'
  BY Unmoved DEF ReadInv, Throw, source, output, history
<1>2. QED
  BY <1>1 DEF ReadInv

LEMMA WriteRead ==
  ASSUME ReadInv, WriteOutput
  PROVE  ReadInv'
<1>1. ASSUME NEW d \in Collections PROVE ReadOf(d)'
  BY Unmoved DEF ReadInv, WriteOutput, source, output, history
<1>2. QED
  BY <1>1 DEF ReadInv

LEMMA ListRead ==
  ASSUME ReadInv, ListCollections
  PROVE  ReadInv'
<1>1. /\ \A c \in Collections : progress'[c] \in {"todo", "left out"}
      /\ phase = "listing" /\ phase' = "exporting"
      /\ UNCHANGED <<source, stored, cursor, output, history>>
  BY DEF ListCollections
<1>2. ASSUME NEW d \in Collections PROVE ReadOf(d)'
  <2>1. ReadOf(d) /\ progress[d] = "unlisted"
    BY <1>1 DEF ReadInv, ReadOf
  <2>2. QED
    BY <1>1, <2>1
    DEF ReadOf, NotYetRead, RangesRead, CursorRead, Once, Told, source, output, history
<1>3. QED
  BY <1>2 DEF ReadInv

LEMMA CountRead ==
  ASSUME MigrationAssumption, TypeOK, ReadInv, NEW c \in Collections, Count(c) \/ CountFails(c)
  PROVE  ReadInv'
<1>1. CASE kind = "firestore" /\ Throw
  BY <1>1, ThrowRead
<1>2. CASE ~ (kind = "firestore" /\ Throw)
  <2>1. /\ Idle /\ cursor' = 0 /\ progress[c] = "todo" /\ progress' = [progress EXCEPT ![c] = "paging"]
        /\ phase = "exporting" /\ kind # "firebase-realtime"
        /\ UNCHANGED <<kind, cap, stored, phase, docs, unconverted, warned, stayed, disturbed>>
    BY <1>2 DEF Count, CountFails, source, output, history
  <2>2. progress'[c] = "paging" /\ \A d \in Collections \ {c} : progress'[d] = progress[d]
    BY <2>1 DEF TypeOK
  <2>3. ASSUME NEW d \in Collections, d # c PROVE ReadOf(d)'
    BY <2>1, <2>2, <2>3, Untouched DEF ReadInv, Idle
  <2>4. ReadOf(c)'
    <3>1. ReadOf(c) /\ \A i \in Ids : docs[c][i] = 0
      BY <2>1 DEF ReadInv, ReadOf, NotYetRead
    <3>2. \A i \in Ids : i \in Nat /\ i > 0
      BY DEF MigrationAssumption
    <3>3. \A i \in stayed[c] : i \in Ids
      BY DEF TypeOK
    <3>4. \A k \in DOMAIN stored[c] : k \in Nat /\ k > 0
      BY RowsAreIds, LenProperties
    <3>5. RangesRead(c)'
      BY <2>1, <3>1, <3>4 DEF RangesRead
    <3>6. CursorRead(c)'
      BY <2>1, <3>1, <3>2, <3>3 DEF CursorRead
    <3>7. QED
      BY <2>1, <2>2, <3>1, <3>5, <3>6 DEF ReadOf, NotYetRead, Once, Told
  <2>5. QED
    BY <2>3, <2>4 DEF ReadInv
<1>3. QED
  BY <1>1, <1>2

LEMMA RangeFailsRead ==
  ASSUME TypeOK, ReadInv, NEW c \in Collections, FetchRangeFails(c)
  PROVE  ReadInv'
<1>1. /\ progress[c] = "paging" /\ kind = "supabase" /\ phase = "exporting"
      /\ progress' = [progress EXCEPT ![c] = "exported"] /\ warned' = warned \union {c}
      /\ UNCHANGED <<kind, cap, stored, phase, cursor, docs, unconverted, stayed, disturbed>>
  BY DEF FetchRangeFails, source, history
<1>2. progress'[c] = "exported" /\ \A d \in Collections \ {c} : progress'[d] = progress[d]
  BY <1>1 DEF TypeOK
<1>3. ASSUME NEW d \in Collections, d # c PROVE ReadOf(d)'
  <2>1. ReadOf(d) /\ progress'[d] = progress[d]
    BY <1>2, <1>3 DEF ReadInv
  <2>2. QED
    BY <1>1, <2>1, Unmoved
<1>4. ReadOf(c)'
  BY <1>1, <1>2 DEF ReadInv, ReadOf, NotYetRead, RangesRead, CursorRead, Once, Told
<1>5. QED
  BY <1>3, <1>4 DEF ReadInv

LEMMA UsersRead ==
  ASSUME MigrationAssumption, TypeOK, ReadInv, NEW c \in Collections, Users(c)
  PROVE  ReadInv'
<1>1. PICK rows \in Seq(Ids) : Change(c, rows) /\ (IsInjective(stored[c]) => IsInjective(rows))
  BY UsersChange
<1>2. /\ stored' = [stored EXCEPT ![c] = rows]
      /\ stayed' = [stayed EXCEPT ![c] = @ \intersect ToSet(rows)]
      /\ disturbed' = IF progress[c] = "paging" /\ cursor > 0 THEN disturbed \union {c} ELSE disturbed
      /\ UNCHANGED <<kind, cap, phase, progress, cursor, docs, unconverted, warned>>
  BY <1>1 DEF Change, source, output
<1>3. ASSUME NEW d \in Collections, d # c PROVE ReadOf(d)'
  <2>1. ReadOf(d) /\ stored'[d] = stored[d] /\ stayed'[d] = stayed[d]
    BY <1>2, <1>3 DEF ReadInv, TypeOK
  <2>2. d \in disturbed' <=> d \in disturbed
    BY <1>2, <1>3
  <2>3. QED
    BY <1>2, <2>1, <2>2, Unmoved
<1>4. ReadOf(c)'
  <2>1. ReadOf(c)
    BY DEF ReadInv
  <2>2. stored'[c] = rows /\ stayed'[c] = stayed[c] \intersect ToSet(rows)
    BY <1>2 DEF TypeOK
  <2>3. IsInjective(stored[c])'
    BY <1>1, <2>1, <2>2 DEF ReadOf
  <2>4. NotYetRead(c)' /\ Once(c)'
    BY <1>2, <2>1 DEF ReadOf, NotYetRead, Once
  <2>5. Told(c)'
    BY <1>2, <2>1, <2>2 DEF ReadOf, Told, Done
  <2>6. CursorRead(c)'
    BY <1>2, <2>1, <2>2 DEF ReadOf, CursorRead, Done, Rows
  <2>7. RangesRead(c)'
    <3>1. SUFFICES ASSUME kind = "supabase", progress[c] = "paging", c \notin disturbed'
                   PROVE  RangesRead(c)'
      BY <1>2 DEF RangesRead
    <3>2. cursor = 0 /\ cursor' = 0 /\ c \notin disturbed
      <4>1. cursor \in Nat
        BY DEF TypeOK
      <4>2. ~ (cursor > 0) /\ cursor' = cursor /\ c \notin disturbed
        BY <1>2, <3>1
      <4>3. QED
        BY <4>1, <4>2
    <3>3. \A i \in Ids : ~ (docs[c][i] > 0)
      <4>1. \A k \in DOMAIN stored[c] : k \in Nat /\ k > 0
        BY RowsAreIds, LenProperties
      <4>2. \A i \in Ids : docs[c][i] > 0 => \E k \in DOMAIN stored[c] : k <= cursor
        BY <2>1, <3>1, <3>2 DEF ReadOf, RangesRead
      <4>3. QED
        BY <3>2, <4>1, <4>2
    <3>4. \A k \in DOMAIN rows : k \in Nat /\ k > 0
      BY LenProperties
    <3>5. QED
      BY <1>2, <2>2, <3>2, <3>3, <3>4 DEF RangesRead
  <2>8. QED
    BY <1>2, <2>1, <2>3, <2>4, <2>5, <2>6, <2>7 DEF ReadOf
<1>5. QED
  BY <1>3, <1>4 DEF ReadInv

(* What the rows of a page become.                                         *)
LEMMA ConvertedRows ==
  ASSUME TypeOK, NEW c \in Collections, NEW page \in SUBSET Ids, Convert(c, page)
  PROVE  /\ \A i \in Ids : docs'[c][i] > 0 => docs[c][i] > 0 \/ i \in page
         /\ \A i \in Ids : docs'[c][i] > 1 => docs[c][i] > 1 \/ (i \in page /\ docs[c][i] > 0)
         /\ \A i \in page : Done(c, i)'
         /\ \A i \in Ids : Done(c, i) => Done(c, i)'
         /\ stayed'[c] = IF cursor = 0 THEN Rows(c) ELSE stayed[c]
         /\ \A d \in Collections \ {c} :
              UNCHANGED <<docs[d], unconverted[d], stayed[d]>>
         /\ UNCHANGED <<kind, cap, stored, phase, warned, disturbed>>
<1> DEFINE converted == [i \in Ids |->
             IF i \in page /\ ~Throws(i) THEN docs[c][i] + 1 ELSE docs[c][i]]
<1>1. docs' = [docs EXCEPT ![c] = converted]
  BY DEF Convert
<1>2. docs'[c] = converted /\ \A d \in Collections \ {c} : docs'[d] = docs[d]
  BY <1>1 DEF TypeOK
<1>3. \A i \in Ids : docs[c][i] \in Nat
  BY DEF TypeOK
<1>4. /\ unconverted'[c] = unconverted[c] \union {i \in page : Throws(i)}
      /\ \A d \in Collections \ {c} : unconverted'[d] = unconverted[d]
  BY DEF Convert, TypeOK
<1>5. /\ stayed'[c] = IF cursor = 0 THEN Rows(c) ELSE stayed[c]
      /\ \A d \in Collections \ {c} : stayed'[d] = stayed[d]
  BY DEF Convert, TypeOK
<1>6. \A i \in Ids : docs'[c][i] = IF i \in page /\ ~Throws(i) THEN docs[c][i] + 1 ELSE docs[c][i]
  BY <1>2
<1>7. \A i \in Ids : docs'[c][i] > 0 => docs[c][i] > 0 \/ i \in page
  BY <1>6
<1>8. \A i \in Ids : docs'[c][i] > 1 => docs[c][i] > 1 \/ (i \in page /\ docs[c][i] > 0)
  BY <1>3, <1>6
<1>9. \A i \in page : Done(c, i)'
  BY <1>3, <1>4, <1>6 DEF Done
<1>10. \A i \in Ids : Done(c, i) => Done(c, i)'
  BY <1>3, <1>4, <1>6 DEF Done
<1>11. UNCHANGED <<kind, cap, stored, phase, warned, disturbed>>
  BY DEF Convert, source
<1>12. QED
  BY <1>2, <1>4, <1>5, <1>7, <1>8, <1>9, <1>10, <1>11

LEMMA RangeRead ==
  ASSUME MigrationAssumption, TypeOK, ReadInv, NEW c \in Collections, FetchRange(c)
  PROVE  ReadInv'
<1> DEFINE last == LastOf(c)
           answer == SubSeq(stored[c], cursor + 1, last)
           page == ToSet(answer)
           more == Len(answer) >= BatchSize
<1>1. /\ Convert(c, page) /\ cursor' = cursor + BatchSize
      /\ progress[c] = "paging" /\ kind = "supabase" /\ phase = "exporting"
      /\ progress' = [progress EXCEPT ![c] = IF more THEN "paging" ELSE "exported"]
  BY DEF FetchRange, Advance, LastOf
<1>2. /\ last \in Nat /\ last <= Len(stored[c]) /\ last <= cursor + BatchSize
      /\ cap >= BatchSize => last = Len(stored[c]) \/ last = cursor + BatchSize
      /\ Len(answer) = IF cursor + 1 <= last THEN last - cursor ELSE 0
      /\ page = {stored[c][k] : k \in cursor + 1 .. last}
      /\ page \in SUBSET Ids
  BY RangeOfRows
<1>3. /\ cursor \in Nat /\ BatchSize \in Nat /\ BatchSize > 0 /\ cap \in Nat
      /\ Len(stored[c]) \in Nat /\ DOMAIN stored[c] = 1 .. Len(stored[c])
      /\ \A k \in DOMAIN stored[c] : stored[c][k] \in Ids
  <2>1. cursor \in Nat /\ cap \in RowCaps
    BY DEF TypeOK
  <2>2. BatchSize \in Nat /\ BatchSize > 0 /\ \A n \in RowCaps : n \in Nat
    BY DEF MigrationAssumption
  <2>3. stored[c] \in Seq(Ids)
    BY RowsAreIds
  <2>4. Len(stored[c]) \in Nat /\ DOMAIN stored[c] = 1 .. Len(stored[c])
    BY <2>3, LenProperties
  <2>5. \A k \in DOMAIN stored[c] : stored[c][k] \in Ids
    BY <2>3, <2>4, ElementOfSeq
  <2>6. QED
    BY <2>1, <2>2, <2>4, <2>5
<1>4. progress'[c] = (IF more THEN "paging" ELSE "exported")
      /\ \A d \in Collections \ {c} : progress'[d] = progress[d] /\ progress[d] # "paging"
  BY <1>1 DEF TypeOK
<1>5. /\ \A i \in Ids : docs'[c][i] > 0 => docs[c][i] > 0 \/ i \in page
      /\ \A i \in Ids : docs'[c][i] > 1 => docs[c][i] > 1 \/ (i \in page /\ docs[c][i] > 0)
      /\ \A i \in page : Done(c, i)'
      /\ \A i \in Ids : Done(c, i) => Done(c, i)'
      /\ stayed'[c] = IF cursor = 0 THEN Rows(c) ELSE stayed[c]
      /\ \A d \in Collections \ {c} : UNCHANGED <<docs[d], unconverted[d], stayed[d]>>
      /\ UNCHANGED <<kind, cap, stored, phase, warned, disturbed>>
  BY <1>1, <1>2, ConvertedRows
<1>6. /\ more \in BOOLEAN
      /\ ~more /\ cap >= BatchSize => last = Len(stored[c])
  BY <1>2, <1>3
<1> HIDE DEF answer, page, more, last
<1>7. ASSUME NEW d \in Collections, d # c PROVE ReadOf(d)'
  <2>1. ReadOf(d)
    BY DEF ReadInv
  <2>2. QED
    BY <1>1, <1>4, <1>5, <1>7, <2>1, Untouched
<1>8. ReadOf(c)'
  <2>1. ReadOf(c)
    BY DEF ReadInv
  <2>2. IsInjective(stored[c])' /\ phase' # "listing" /\ kind' = "supabase"
    BY <1>1, <1>5, <2>1 DEF ReadOf
  <2>3. NotYetRead(c)' /\ CursorRead(c)'
    BY <1>4, <2>2 DEF NotYetRead, CursorRead
  <2>4. CASE c \in disturbed
    <3>1. RangesRead(c)' /\ Once(c)' /\ Told(c)'
      BY <1>5, <2>2, <2>4 DEF RangesRead, Once, Told
    <3>2. QED
      BY <2>2, <2>3, <3>1 DEF ReadOf
  <2>5. CASE c \notin disturbed
    <3>1. /\ \A i \in Ids : docs[c][i] > 0 =>
               \E k \in DOMAIN stored[c] : k <= cursor /\ stored[c][k] = i
          /\ cap >= BatchSize =>
               \A k \in DOMAIN stored[c] : k <= cursor => Done(c, stored[c][k])
          /\ cursor > 0 => stayed[c] \subseteq Rows(c)
      BY <1>1, <2>1, <2>5 DEF ReadOf, RangesRead
    <3>2. Rows(c)' = Rows(c) /\ stayed'[c] \subseteq Rows(c)
      BY <1>3, <1>5, <3>1 DEF Rows
    <3>3. ASSUME NEW i \in page
          PROVE  \E k \in DOMAIN stored[c] : ~ (k <= cursor) /\ k <= cursor' /\ stored[c][k] = i
      <4>1. PICK k \in cursor + 1 .. last : i = stored[c][k]
        BY <1>2
      <4>2. k \in DOMAIN stored[c] /\ ~ (k <= cursor) /\ k <= cursor'
        BY <1>1, <1>2, <1>3
      <4>3. QED
        BY <4>1, <4>2
    <3>4. ASSUME NEW k \in DOMAIN stored[c], ~ (k <= cursor), k <= last
          PROVE  stored[c][k] \in page
      <4>1. k \in cursor + 1 .. last
        BY <1>2, <1>3, <3>4
      <4>2. QED
        BY <1>2, <4>1
    <3>5. ASSUME NEW k \in DOMAIN stored[c], cap >= BatchSize, k <= last \/ k <= cursor
          PROVE  Done(c, stored[c][k])'
      BY <1>3, <1>5, <3>1, <3>4, <3>5
    <3>6. RangesRead(c)'
      <4>1. ASSUME NEW i \in Ids, docs'[c][i] > 0
            PROVE  \E k \in DOMAIN stored[c] : k <= cursor' /\ stored[c][k] = i
        <5>1. CASE docs[c][i] > 0
          <6>1. PICK k \in DOMAIN stored[c] : k <= cursor /\ stored[c][k] = i
            BY <3>1, <5>1
          <6>2. k <= cursor'
            BY <1>1, <1>3, <6>1
          <6>3. QED
            BY <6>1, <6>2
        <5>2. CASE i \in page
          BY <3>3, <5>2
        <5>3. QED
          BY <1>5, <4>1, <5>1, <5>2
      <4>2. ASSUME NEW k \in DOMAIN stored[c], cap >= BatchSize, k <= cursor'
            PROVE  Done(c, stored[c][k])'
        <5>1. k <= last
          BY <1>1, <1>2, <1>3, <4>2
        <5>2. QED
          BY <3>5, <4>2, <5>1
      <4>3. QED
        BY <1>5, <3>2, <4>1, <4>2 DEF RangesRead
    <3>7. Once(c)'
      <4>1. ASSUME NEW i \in page PROVE ~ (docs[c][i] > 0)
        <5>1. SUFFICES ASSUME docs[c][i] > 0 PROVE FALSE
          OBVIOUS
        <5>2. PICK j \in DOMAIN stored[c] : j <= cursor /\ stored[c][j] = i
          BY <1>2, <3>1, <5>1
        <5>3. PICK k \in DOMAIN stored[c] : ~ (k <= cursor) /\ stored[c][k] = i
          BY <3>3
        <5>4. j = k
          BY <2>1, <5>2, <5>3 DEF ReadOf, IsInjective
        <5>5. QED
          BY <5>2, <5>3, <5>4
      <4>2. ASSUME NEW i \in Ids PROVE ~ (docs[c][i] > 1)
        BY <2>1, <2>5 DEF ReadOf, Once
      <4>3. QED
        BY <1>5, <4>1, <4>2 DEF Once
    <3>8. Told(c)'
      <4>1. CASE more \/ ~ (cap >= BatchSize)
        <5>1. more \/ cap < BatchSize
          BY <1>3, <4>1
        <5>2. QED
          BY <1>4, <1>5, <2>2, <5>1 DEF Told
      <4>2. CASE ~more /\ cap >= BatchSize
        <5>1. ASSUME NEW i \in stayed'[c] PROVE Done(c, i)'
          <6>1. PICK k \in DOMAIN stored[c] : i = stored[c][k]
            BY <3>2 DEF Rows, ToSet
          <6>2. k <= last
            BY <1>3, <1>6, <4>2
          <6>3. cap >= BatchSize
            BY <4>2
          <6>4. Done(c, stored[c][k])'
            BY <3>5, <6>1, <6>2, <6>3
          <6>5. stored[c][k] = stored'[c][k]
            BY <1>5
          <6>6. docs'[c][i] > 0 \/ i \in unconverted'[c]
            BY <6>1, <6>4, <6>5 DEF Done
          <6>7. QED
            BY <6>6 DEF Done
        <5>2. QED
          BY <5>1 DEF Told
      <4>3. QED
        BY <1>6, <4>1, <4>2
    <3>9. QED
      BY <2>2, <2>3, <3>6, <3>7, <3>8 DEF ReadOf
  <2>6. QED
    BY <2>4, <2>5
<1>9. QED
  BY <1>7, <1>8 DEF ReadInv

LEMMA AfterRead ==
  ASSUME MigrationAssumption, TypeOK, ReadInv, NEW c \in Collections, FetchAfter(c)
  PROVE  ReadInv'
<1> DEFINE page == PageAfter(c)
           more == Cardinality(page) >= BatchSize
<1>1. /\ Convert(c, page) /\ cursor' = Max(page \union {cursor})
      /\ progress[c] = "paging" /\ kind = "firestore" /\ phase = "exporting"
      /\ progress' = [progress EXCEPT ![c] = IF more THEN "paging" ELSE "exported"]
  BY DEF FetchAfter, Advance, PageAfter, After
<1>2. /\ page \in SUBSET Ids
      /\ cursor' \in Nat /\ cursor <= cursor'
      /\ \A i \in page : i > cursor /\ i <= cursor'
      /\ \A i \in After(c) : i <= cursor' => i \in page
      /\ ~more => page = After(c)
  BY <1>1, PageOfRows
<1>3. /\ cursor \in Nat /\ Ids \in SUBSET Nat /\ \A i \in Ids : i > 0
  <2>1. cursor \in Nat
    BY DEF TypeOK
  <2>2. Ids \in SUBSET Nat /\ \A i \in Ids : i \in Nat /\ i > 0
    BY DEF MigrationAssumption
  <2>3. QED
    BY <2>1, <2>2
<1>4. progress'[c] = (IF more THEN "paging" ELSE "exported")
      /\ \A d \in Collections \ {c} : progress'[d] = progress[d] /\ progress[d] # "paging"
  BY <1>1 DEF TypeOK
<1>5. /\ \A i \in Ids : docs'[c][i] > 0 => docs[c][i] > 0 \/ i \in page
      /\ \A i \in Ids : docs'[c][i] > 1 => docs[c][i] > 1 \/ (i \in page /\ docs[c][i] > 0)
      /\ \A i \in page : Done(c, i)'
      /\ \A i \in Ids : Done(c, i) => Done(c, i)'
      /\ stayed'[c] = IF cursor = 0 THEN Rows(c) ELSE stayed[c]
      /\ \A d \in Collections \ {c} : UNCHANGED <<docs[d], unconverted[d], stayed[d]>>
      /\ UNCHANGED <<kind, cap, stored, phase, warned, disturbed>>
  BY <1>1, <1>2, ConvertedRows
<1> HIDE DEF page, more
<1>6. ASSUME NEW d \in Collections, d # c PROVE ReadOf(d)'
  <2>1. ReadOf(d)
    BY DEF ReadInv
  <2>2. QED
    BY <1>1, <1>4, <1>5, <1>6, <2>1, Untouched
<1>7. ReadOf(c)'
  <2>1. /\ \A i \in Ids : docs[c][i] > 0 => i <= cursor
        /\ \A i \in stayed[c] : i <= cursor => Done(c, i)
        /\ cursor > 0 => stayed[c] \subseteq Rows(c)
    BY <1>1 DEF ReadInv, ReadOf, CursorRead
  <2>2. Rows(c) \in SUBSET Ids /\ Rows(c)' = Rows(c)
    BY <1>5, RowsAreIds DEF Rows
  <2>3. stayed'[c] \subseteq Rows(c)
    BY <1>3, <1>5, <2>1
  <2>4. \A i \in stayed'[c] : i \in Ids /\ i \in Nat
    BY <1>3, <2>2, <2>3
  <2>5. ASSUME NEW i \in stayed'[c], i <= cursor PROVE Done(c, i)'
    <3>1. i \in Nat /\ i > 0 /\ i \in Ids
      BY <1>3, <2>4
    <3>2. cursor # 0
      BY <2>5, <3>1
    <3>3. i \in stayed[c]
      BY <1>5, <3>2
    <3>4. QED
      BY <1>5, <2>1, <2>5, <3>1, <3>3
  <2>6. ASSUME NEW i \in stayed'[c], ~ (i <= cursor) PROVE i \in After(c)
    <3>1. i \in Nat /\ i \in Rows(c)
      BY <2>3, <2>4
    <3>2. i > cursor
      BY <1>3, <2>6, <3>1
    <3>3. QED
      BY <3>1, <3>2 DEF After
  <2>7. \A i \in stayed'[c] : i <= cursor' => Done(c, i)'
    BY <1>2, <1>5, <2>5, <2>6
  <2>8. ~more => \A i \in stayed'[c] : Done(c, i)'
    BY <1>2, <1>5, <2>5, <2>6
  <2>9. ASSUME NEW i \in Ids, docs'[c][i] > 0 PROVE i <= cursor'
    <3>1. i \in Nat
      BY <1>3
    <3>2. i <= cursor \/ i \in page
      BY <1>5, <2>1, <2>9
    <3>3. QED
      BY <1>2, <1>3, <3>1, <3>2
  <2>10. ASSUME NEW i \in Ids PROVE ~ (docs'[c][i] > 1)
    <3>1. ~ (docs[c][i] > 1)
      BY <1>1 DEF ReadInv, ReadOf, Once
    <3>2. i \in page => ~ (docs[c][i] > 0)
      <4>1. i \in Nat
        BY <1>3
      <4>2. QED
        BY <1>2, <1>3, <2>1, <4>1
    <3>3. QED
      BY <1>5, <3>1, <3>2
  <2>11. CursorRead(c)'
    BY <2>2, <2>3, <2>7, <2>9 DEF CursorRead
  <2>12. Told(c)'
    BY <1>4, <2>8 DEF Told
  <2>13. Once(c)'
    BY <2>10 DEF Once
  <2>14. IsInjective(stored[c])' /\ phase' # "listing" /\ kind' = "firestore"
    BY <1>1, <1>5 DEF ReadInv, ReadOf
  <2>15. NotYetRead(c)' /\ RangesRead(c)'
    BY <1>4, <2>14 DEF NotYetRead, RangesRead
  <2>16. QED
    BY <2>11, <2>12, <2>13, <2>14, <2>15 DEF ReadOf
<1>8. QED
  BY <1>6, <1>7 DEF ReadInv

LEMMA TreeRead ==
  ASSUME MigrationAssumption, TypeOK, ReadInv, NEW c \in Collections, FetchTree(c)
  PROVE  ReadInv'
<1>1. /\ Convert(c, Rows(c)) /\ cursor' = cursor
      /\ kind = "firebase-realtime" /\ phase = "exporting" /\ progress[c] = "todo"
      /\ progress' = [progress EXCEPT ![c] =
                        IF stored[c] = <<>> THEN "left out" ELSE "exported"]
  BY DEF FetchTree
<1>2. Rows(c) \in SUBSET Ids
  BY RowsAreIds
<1>3. ReadOf(c) /\ cursor = 0 /\ \A d \in Collections : progress[d] # "paging"
  BY <1>1 DEF ReadInv, ReadOf
<1>4. progress'[c] = (IF stored[c] = <<>> THEN "left out" ELSE "exported")
      /\ \A d \in Collections \ {c} : progress'[d] = progress[d]
  BY <1>1 DEF TypeOK
<1>5. /\ \A i \in Ids : docs'[c][i] > 0 => docs[c][i] > 0 \/ i \in Rows(c)
      /\ \A i \in Ids : docs'[c][i] > 1 => docs[c][i] > 1 \/ (i \in Rows(c) /\ docs[c][i] > 0)
      /\ \A i \in Rows(c) : Done(c, i)'
      /\ stayed'[c] = Rows(c)
      /\ \A d \in Collections \ {c} : UNCHANGED <<docs[d], unconverted[d], stayed[d]>>
      /\ UNCHANGED <<kind, cap, stored, phase, warned, disturbed>>
  BY <1>1, <1>2, <1>3, ConvertedRows
<1>6. ASSUME NEW d \in Collections, d # c PROVE ReadOf(d)'
  <2>1. ReadOf(d)
    BY DEF ReadInv
  <2>2. QED
    BY <1>1, <1>3, <1>4, <1>5, <1>6, <2>1, Untouched
<1>7. ReadOf(c)'
  <2>1. IsInjective(stored[c])' /\ phase' # "listing" /\ kind' = "firebase-realtime"
    BY <1>1, <1>3, <1>5 DEF ReadOf
  <2>2. \A i \in Ids : docs[c][i] = 0
    BY <1>1, <1>3 DEF ReadOf, NotYetRead
  <2>3. NotYetRead(c)'
    <3>1. SUFFICES ASSUME progress'[c] = "left out", NEW i \in Ids PROVE docs'[c][i] = 0
      BY <1>4 DEF NotYetRead
    <3>2. stored[c] = <<>>
      BY <1>4, <3>1
    <3>3. DOMAIN stored[c] = {}
      BY <3>2
    <3>4. Rows(c) = {}
      BY <3>3 DEF Rows, ToSet
    <3>5. docs[c][i] = 0
      BY <2>2
    <3>6. ~ (docs'[c][i] > 0)
      <4>1. docs'[c][i] > 0 => docs[c][i] > 0 \/ i \in Rows(c)
        BY <1>5
      <4>2. ~ (docs[c][i] > 0)
        BY <3>5
      <4>3. QED
        BY <3>4, <4>1, <4>2
    <3>7. docs' \in [Collections -> [Ids -> Nat]]
      BY <1>1, <1>2, ConvertTypes
    <3>8. docs'[c][i] \in Nat
      BY <3>7
    <3>9. QED
      BY <3>6, <3>8
  <2>4. Once(c)'
    BY <1>5, <2>2 DEF Once
  <2>5. Told(c)'
    BY <1>5 DEF Told
  <2>6. RangesRead(c)' /\ CursorRead(c)'
    BY <2>1 DEF RangesRead, CursorRead
  <2>7. progress'[c] # "paging"
    BY <1>4
  <2>8. cursor' = 0
    BY <1>1, <1>3
  <2>9. QED
    BY <2>1, <2>3, <2>4, <2>5, <2>6, <2>7, <2>8 DEF ReadOf
<1>8. QED
  BY <1>6, <1>7 DEF ReadInv

LEMMA NextRead ==
  ASSUME MigrationAssumption, TypeOK, ReadInv, [Next]_vars
  PROVE  ReadInv'
<1>1. CASE UNCHANGED vars
  <2>1. ASSUME NEW d \in Collections PROVE ReadOf(d)'
    BY <1>1, Unmoved DEF ReadInv, vars, source, output, history
  <2>2. QED
    BY <2>1 DEF ReadInv
<1>2. ASSUME NEW c \in Collections, Adapter(c) PROVE ReadInv'
  <2>1. CASE Count(c) \/ CountFails(c)
    BY <2>1, CountRead
  <2>2. CASE FetchRange(c)
    BY <2>2, RangeRead
  <2>3. CASE FetchAfter(c)
    BY <2>3, AfterRead
  <2>4. CASE FetchTree(c)
    BY <2>4, TreeRead
  <2>5. CASE FetchRangeFails(c)
    BY <2>5, RangeFailsRead
  <2>6. CASE FetchAfterFails(c) \/ FetchTreeFails(c)
    BY <2>6, ThrowRead DEF FetchAfterFails, FetchTreeFails
  <2>7. QED
    BY <1>2, <2>1, <2>2, <2>3, <2>4, <2>5, <2>6 DEF Adapter
<1>3. ASSUME NEW c \in Collections, Users(c) PROVE ReadInv'
  BY <1>3, UsersRead
<1>4. CASE ListCollections
  BY <1>4, ListRead
<1>5. CASE WriteOutput
  BY <1>5, WriteRead
<1>6. CASE ListFails \/ WriteFails
  BY <1>6, ThrowRead DEF ListFails, WriteFails
<1>7. QED
  BY <1>1, <1>2, <1>3, <1>4, <1>5, <1>6 DEF Next

LEMMA ReadAlways == Spec => []ReadInv
<1> USE MigrationAssumption
<1>1. Init => ReadInv
  BY InitRead
<1>2. TypeOK /\ ReadInv /\ [Next]_vars => ReadInv'
  BY NextRead
<1>3. QED
  BY <1>1, <1>2, TypeCorrect, PTL DEF Spec

(* A row that stays in its collection while that is read becomes a         *)
(* document or a warning, whatever the users of the source do; of Supabase *)
(* if they leave the table alone and the server answers full ranges.       *)
THEOREM NothingLostSilently == Spec => []LossIsTold
<1>1. ReadInv => LossIsTold
  BY ReadSuffices
<1>2. QED
  BY <1>1, ReadAlways, PTL

(* No row becomes two documents, but of a Supabase table that changed      *)
(* between two of its ranges.                                              *)
THEOREM NothingTwice == Spec => []ExportedOnce
<1>1. ReadInv => ExportedOnce
  BY ReadSuffices
<1>2. QED
  BY <1>1, ReadAlways, PTL

=============================================================================
