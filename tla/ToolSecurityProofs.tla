--------------------------- MODULE ToolSecurityProofs ---------------------------
(***************************************************************************)
(* Theorems about ThreatDetection.tla and ToolSecurity.tla for any number  *)
(* of sessions, thresholds and windows, failing hooks included: what the   *)
(* engine remembers of a session is bounded and true, and no call gets     *)
(* through that its credential forbids or its scan found a threat in.      *)
(***************************************************************************)
EXTENDS ToolSecurity, FiniteSetTheorems, SequenceTheorems, TLAPS

-------------------------------------------------------------------------------
(* Lists. *)

Unique(list) == \A i, j \in 1..Len(list) : list[i] = list[j] => i = j

\* Oldest first.
Sorted(list) == \A i, j \in 1..Len(list) : i <= j => list[j] <= list[i]

Times == Seq(Age)

LEMMA FirstCount == \A n \in Nat : IsFiniteSet(1..n) /\ Cardinality(1..n) = n
<1> SUFFICES ASSUME NEW n \in Nat PROVE IsFiniteSet(1..n) /\ Cardinality(1..n) = n
  OBVIOUS
<1>1. 1 \in Int /\ n \in Int
  OBVIOUS
<1>2. IsFiniteSet(1..n) /\ Cardinality(1..n) = IF 1 > n THEN 0 ELSE n - 1 + 1
  BY <1>1, FS_Interval
<1> QED BY <1>2

LEMMA UniqueCount ==
    ASSUME NEW list \in Seq(Session), Unique(list)
    PROVE  IsFiniteSet(Entries(list)) /\ Cardinality(Entries(list)) = Len(list)
<1> DEFINE n == Len(list)
           f == [i \in 1..n |-> list[i]]
<1>1. n \in Nat /\ DOMAIN list = 1..n
  OBVIOUS
<1>2. IsFiniteSet(1..n) /\ Cardinality(1..n) = n
  BY <1>1, FirstCount
<1>3. f \in Bijection(1..n, Entries(list))
  <2>1. f \in [1..n -> Entries(list)]
    BY <1>1 DEF Entries
  <2>2. \A i, j \in 1..n : f[i] = f[j] => i = j
    BY DEF Unique
  <2>3. \A e \in Entries(list) : \E i \in 1..n : f[i] = e
    BY <1>1 DEF Entries
  <2> QED BY <2>1, <2>2, <2>3 DEF Bijection, Injection, Surjection, IsInjective
<1>4. ExistsBijection(1..n, Entries(list))
  BY <1>3 DEF ExistsBijection
<1> QED BY <1>2, <1>4, FS_Bijection

LEMMA AppendUnique ==
    ASSUME NEW list \in Seq(Session), Unique(list), NEW s \in Session \ Entries(list)
    PROVE  /\ Append(list, s) \in Seq(Session) /\ Unique(Append(list, s))
           /\ Entries(Append(list, s)) = Entries(list) \cup {s}
<1>1. /\ Len(list) \in Nat /\ DOMAIN list = 1..Len(list)
      /\ \A i \in 1..Len(list) : list[i] # s
  BY DEF Entries
<1>2. /\ Append(list, s) \in Seq(Session) /\ Len(Append(list, s)) = Len(list) + 1
      /\ \A i \in 1..Len(list) : Append(list, s)[i] = list[i]
      /\ Append(list, s)[Len(list) + 1] = s
  BY AppendProperties
<1>3. DOMAIN Append(list, s) = 1..Len(list) + 1
  BY <1>2
<1>4. Unique(Append(list, s))
  <2> SUFFICES ASSUME NEW i \in 1..Len(list) + 1, NEW j \in 1..Len(list) + 1,
                      Append(list, s)[i] = Append(list, s)[j]
               PROVE  i = j
    BY <1>2 DEF Unique
  <2>1. CASE i \in 1..Len(list) /\ j \in 1..Len(list)
    BY <1>2, <2>1 DEF Unique
  <2>2. CASE i = Len(list) + 1 \/ j = Len(list) + 1
    BY <1>1, <1>2, <2>2
  <2> QED BY <1>1, <2>1, <2>2
<1>5. Entries(Append(list, s)) = Entries(list) \cup {s}
  <2>1. ASSUME NEW i \in 1..Len(list) + 1 PROVE Append(list, s)[i] \in Entries(list) \cup {s}
    BY <1>1, <1>2 DEF Entries
  <2>2. ASSUME NEW i \in 1..Len(list) PROVE list[i] \in Entries(Append(list, s))
    BY <1>1, <1>2, <1>3 DEF Entries
  <2>3. s \in Entries(Append(list, s))
    BY <1>1, <1>2, <1>3 DEF Entries
  <2> QED BY <1>1, <1>3, <2>1, <2>2, <2>3 DEF Entries
<1> QED BY <1>2, <1>4, <1>5

\* The oldest session of a list one too long is evicted, never the newest.
LEMMA EvictKeeps ==
    ASSUME NEW list \in Seq(Session), Unique(list), Len(list) = MaxTracked + 1
    PROVE  /\ EvictOldest(list) \in Seq(Session) /\ Unique(EvictOldest(list))
           /\ Len(EvictOldest(list)) = MaxTracked
           /\ Entries(EvictOldest(list)) \subseteq Entries(list)
           /\ list[Len(list)] \in Entries(EvictOldest(list))
<1>1. MaxTracked \in Nat \ {0} /\ DOMAIN list = 1..Len(list)
  BY WindowAssumption
<1> DEFINE left == SubSeq(list, 2, Len(list))
<1>2. EvictOldest(list) = left
  BY <1>1 DEF EvictOldest
<1>3. /\ left \in Seq(Session) /\ Len(left) = MaxTracked
      /\ \A i \in 1..MaxTracked : left[i] = list[i + 1]
  BY <1>1
<1>4. DOMAIN left = 1..MaxTracked
  BY <1>1, <1>3
<1> HIDE DEF left
<1>5. Unique(left)
  <2> SUFFICES ASSUME NEW i \in 1..MaxTracked, NEW j \in 1..MaxTracked, left[i] = left[j]
               PROVE  i = j
    BY <1>3 DEF Unique
  <2>1. i + 1 \in 1..Len(list) /\ j + 1 \in 1..Len(list) /\ list[i + 1] = list[j + 1]
    BY <1>1, <1>3
  <2>2. i + 1 = j + 1
    BY <2>1 DEF Unique
  <2> QED BY <1>1, <2>2
<1>6. \A i \in 1..MaxTracked : i + 1 \in 1..Len(list)
  BY <1>1
<1>7. Entries(left) \subseteq Entries(list)
  BY <1>1, <1>3, <1>4, <1>6 DEF Entries
<1>8. list[Len(list)] = left[MaxTracked] /\ MaxTracked \in 1..MaxTracked
  BY <1>1, <1>3
<1>9. list[Len(list)] \in Entries(left)
  BY <1>4, <1>8 DEF Entries
<1> QED BY <1>2, <1>3, <1>5, <1>7, <1>9

\* A session that has ended is in the order no more.
LEMMA WithoutRemoves ==
    ASSUME NEW list \in Seq(Session), Unique(list), NEW s \in Session
    PROVE  /\ Without(list, s) \in Seq(Session) /\ Unique(Without(list, s))
           /\ Len(Without(list, s)) <= Len(list)
           /\ Entries(Without(list, s)) = Entries(list) \ {s}
<1>1. /\ Len(list) \in Nat /\ DOMAIN list = 1..Len(list)
      /\ \A i \in 1..Len(list) : list[i] \in Session
  OBVIOUS
<1>2. CASE s \notin Entries(list)
  BY <1>1, <1>2 DEF Without
<1>3. CASE s \in Entries(list)
  <2>1. PICK k \in 1..Len(list) : list[k] = s
    BY <1>1, <1>3 DEF Entries
  <2>2. \A j \in 1..k - 1 : list[j] # s
    BY <1>1, <2>1 DEF Unique
  <2> DEFINE at == CHOOSE i \in DOMAIN list : list[i] = s /\ \A j \in 1..i - 1 : list[j] # s
             n == Len(list)
             rest == [i \in 1..n - 1 |-> list[IF i < at THEN i ELSE i + 1]]
  <2>3. at \in 1..n /\ list[at] = s
    BY <1>1, <2>1, <2>2
  <2>4. Without(list, s) = rest
    BY <1>3 DEF Without
  <2> HIDE DEF at
  <2>5. \A i \in 1..n - 1 :
            /\ (IF i < at THEN i ELSE i + 1) \in 1..n
            /\ (IF i < at THEN i ELSE i + 1) # at
    BY <1>1, <2>3
  <2>6. n - 1 \in Nat
    BY <1>1, <2>3
  <2>7. rest \in [1..n - 1 -> Session]
    BY <1>1, <2>5
  <2>8. rest \in Seq(Session) /\ Len(rest) = n - 1 /\ DOMAIN rest = 1..n - 1
    BY <2>6, <2>7, SeqDef, LenProperties
  <2>9. Unique(rest)
    <3> SUFFICES ASSUME NEW i \in 1..n - 1, NEW j \in 1..n - 1, rest[i] = rest[j]
                 PROVE  i = j
      BY <2>8 DEF Unique
    <3>1. list[IF i < at THEN i ELSE i + 1] = list[IF j < at THEN j ELSE j + 1]
      OBVIOUS
    <3>2. (IF i < at THEN i ELSE i + 1) = (IF j < at THEN j ELSE j + 1)
      BY <2>5, <3>1 DEF Unique
    <3> QED BY <1>1, <2>3, <3>2
  <2>10. Entries(rest) \subseteq Entries(list) \ {s}
    <3> SUFFICES ASSUME NEW i \in 1..n - 1 PROVE rest[i] \in Entries(list) /\ rest[i] # s
      BY <2>8 DEF Entries
    <3>1. rest[i] = list[IF i < at THEN i ELSE i + 1]
      OBVIOUS
    <3> QED BY <1>1, <2>3, <2>5, <3>1 DEF Entries, Unique
  <2>11. Entries(list) \ {s} \subseteq Entries(rest)
    <3> SUFFICES ASSUME NEW i \in 1..n, list[i] # s PROVE list[i] \in Entries(rest)
      BY <1>1 DEF Entries
    <3> DEFINE m == IF i < at THEN i ELSE i - 1
    <3>1. m \in 1..n - 1 /\ (IF m < at THEN m ELSE m + 1) = i
      BY <1>1, <2>3
    <3>2. rest[m] = list[i]
      BY <3>1
    <3> QED BY <2>8, <3>1, <3>2 DEF Entries
  <2>12. n - 1 <= n
    BY <1>1
  <2> HIDE DEF rest
  <2> QED BY <2>4, <2>8, <2>9, <2>10, <2>11, <2>12
<1> QED BY <1>2, <1>3

\* A tick takes away a prefix of a sorted list, and ages what is left.
LEMMA OlderDropsPrefix ==
    ASSUME NEW list \in Times, Sorted(list)
    PROVE  \E k \in 0..Len(list) :
               /\ \A i \in 1..Len(list) : list[i] + 1 >= WindowSize <=> i <= k
               /\ Older(list) = [i \in 1..Len(list) - k |-> list[i + k] + 1]
<1> DEFINE Old == {i \in DOMAIN list : list[i] + 1 >= WindowSize}
           left == Cardinality(Old)
           n == Len(list)
<1>1. n \in Nat /\ DOMAIN list = 1..n /\ WindowSize \in Nat
      /\ \A i \in 1..n : list[i] \in Age
  BY WindowAssumption DEF Times
<1>2. IsFiniteSet(1..n) /\ Cardinality(1..n) = n
  BY <1>1, FirstCount
<1>3. IsFiniteSet(Old) /\ left \in Nat /\ left <= n
  BY <1>1, <1>2, FS_Subset, FS_CardinalityType
\* Whatever precedes an old entry is old.
<1>4. ASSUME NEW k \in Old PROVE k <= left
  <2>1. 1..k \in SUBSET Old
    <3> SUFFICES ASSUME NEW i \in 1..k PROVE i \in Old
      OBVIOUS
    <3>1. i \in 1..n /\ list[k] <= list[i] /\ list[k] \in Int /\ list[i] \in Int
      BY <1>1, <1>4 DEF Sorted, Age
    <3> QED BY <1>1, <1>4, <3>1
  <2>2. Cardinality(1..k) = k
    BY <1>1, <1>4, FirstCount
  <2>3. Cardinality(1..k) <= left
    BY <1>3, <2>1, FS_Subset
  <2> QED BY <2>2, <2>3
\* So the old entries are the first ones.
<1>5. Old = 1..left
  <2>1. Old \in SUBSET (1..left)
    BY <1>1, <1>3, <1>4
  <2>2. IsFiniteSet(1..left) /\ Cardinality(1..left) = left
    BY <1>3, FirstCount
  <2> QED BY <2>1, <2>2, FS_Subset
<1>6. Older(list) = [i \in 1..n - left |-> list[i + left] + 1]
  BY DEF Older
<1>7. \A i \in 1..n : list[i] + 1 >= WindowSize <=> i \in Old
  BY <1>1
<1> HIDE DEF left, Old
<1>8. \A i \in 1..n : i \in Old <=> i <= left
  BY <1>1, <1>3, <1>5
<1> QED BY <1>1, <1>3, <1>6, <1>7, <1>8

LEMMA OlderIsLog ==
    ASSUME NEW list \in Times, Sorted(list)
    PROVE  Older(list) \in Times /\ Sorted(Older(list))
<1>1. PICK k \in 0..Len(list) :
          /\ \A i \in 1..Len(list) : list[i] + 1 >= WindowSize <=> i <= k
          /\ Older(list) = [i \in 1..Len(list) - k |-> list[i + k] + 1]
  BY OlderDropsPrefix
<1> DEFINE n == Len(list) - k
           new == [i \in 1..n |-> list[i + k] + 1]
<1>2. /\ Len(list) \in Nat /\ WindowSize \in Nat
      /\ \A i \in 1..Len(list) : list[i] \in Age
  BY WindowAssumption DEF Times
<1>3. n \in Nat
  BY <1>2
<1>4. \A i \in 1..n : i + k \in 1..Len(list) /\ list[i + k] + 1 \in Age
  BY <1>1, <1>2 DEF Age
<1>5. new \in [1..n -> Age]
  BY <1>4
<1>6. new \in Times /\ Len(new) = n
  <2> HIDE DEF n, new
  <2>1. new \in Seq(Age)
    BY <1>3, <1>5, SeqDef
  <2> QED BY <1>3, <1>5, <2>1, LenProperties DEF Times
<1>7. Sorted(new)
  <2> SUFFICES ASSUME NEW i \in 1..n, NEW j \in 1..n, i <= j PROVE new[j] <= new[i]
    BY <1>6 DEF Sorted
  <2>1. i + k \in 1..Len(list) /\ j + k \in 1..Len(list) /\ i + k <= j + k
    BY <1>2
  <2>2. list[j + k] <= list[i + k]
    BY <2>1 DEF Sorted
  <2> QED BY <1>2, <2>1, <2>2 DEF Age
<1> QED BY <1>1, <1>6, <1>7

\* The end of a list, entry by entry.
LEMMA LatestEntries ==
    ASSUME NEW short \in Times, NEW long \in Times
    PROVE  IsLatest(short, long) <=>
               /\ Len(short) <= Len(long)
               /\ \A i \in 1..Len(short) : short[i] = long[i + Len(long) - Len(short)]
<1> DEFINE m == Len(short)
           n == Len(long)
           end == SubSeq(long, n - m + 1, n)
<1>1. m \in Nat /\ n \in Nat /\ DOMAIN short = 1..m
  BY DEF Times
<1>2. ASSUME m <= n
      PROVE  /\ end \in Times /\ Len(end) = m
             /\ \A i \in 1..m : end[i] = long[i + n - m]
  <2>1. n - m + 1 \in 1..n + 1
    BY <1>1, <1>2
  <2> QED BY <1>1, <1>2, <2>1 DEF Times
<1>3. ASSUME m <= n, \A i \in 1..m : short[i] = long[i + n - m]
      PROVE  short = end
  BY <1>1, <1>2, <1>3, SeqEqual DEF Times
<1> QED BY <1>1, <1>2, <1>3 DEF IsLatest

LEMMA LatestSorted ==
    ASSUME NEW short \in Times, NEW long \in Times, IsLatest(short, long), Sorted(long)
    PROVE  Sorted(short)
<1>1. Len(short) \in Nat /\ Len(long) \in Nat
  BY DEF Times
<1>2. Len(short) <= Len(long) /\ \A i \in 1..Len(short) : short[i] = long[i + Len(long) - Len(short)]
  BY LatestEntries
<1> SUFFICES ASSUME NEW i \in 1..Len(short), NEW j \in 1..Len(short), i <= j
             PROVE  short[j] <= short[i]
  BY DEF Sorted
<1> DEFINE d == Len(long) - Len(short)
<1>3. i + d \in 1..Len(long) /\ j + d \in 1..Len(long) /\ i + d <= j + d
  BY <1>1, <1>2
<1>4. long[j + d] <= long[i + d]
  BY <1>3 DEF Sorted
<1>5. i + Len(long) - Len(short) = i + d /\ j + Len(long) - Len(short) = j + d
  BY <1>1
<1> QED BY <1>2, <1>4, <1>5

\* The end of a list stays its end when both are added to, and when time passes.
LEMMA AppendLatest ==
    ASSUME NEW short \in Times, NEW long \in Times, IsLatest(short, long)
    PROVE  IsLatest(Append(short, 0), Append(long, 0))
<1>1. Len(short) \in Nat /\ Len(long) \in Nat
  BY DEF Times
<1>2. Len(short) <= Len(long) /\ \A i \in 1..Len(short) : short[i] = long[i + Len(long) - Len(short)]
  BY LatestEntries
<1>3. 0 \in Age
  BY WindowAssumption DEF Age
<1>4. /\ Append(short, 0) \in Times /\ Len(Append(short, 0)) = Len(short) + 1
      /\ \A i \in 1..Len(short) : Append(short, 0)[i] = short[i]
      /\ Append(short, 0)[Len(short) + 1] = 0
  BY <1>3, AppendProperties DEF Times
<1>5. /\ Append(long, 0) \in Times /\ Len(Append(long, 0)) = Len(long) + 1
      /\ \A i \in 1..Len(long) : Append(long, 0)[i] = long[i]
      /\ Append(long, 0)[Len(long) + 1] = 0
  BY <1>3, AppendProperties DEF Times
<1>6. ASSUME NEW i \in 1..Len(short) + 1
      PROVE  Append(short, 0)[i] = Append(long, 0)[i + (Len(long) + 1) - (Len(short) + 1)]
  <2>1. CASE i = Len(short) + 1
    BY <1>1, <1>4, <1>5, <2>1
  <2>2. CASE i # Len(short) + 1
    <3>1. i \in 1..Len(short) /\ i + Len(long) - Len(short) \in 1..Len(long)
      BY <1>1, <1>2, <2>2
    <3>2. i + (Len(long) + 1) - (Len(short) + 1) = i + Len(long) - Len(short)
      BY <1>1
    <3> QED BY <1>2, <1>4, <1>5, <3>1, <3>2
  <2> QED BY <2>1, <2>2
<1>7. Len(Append(short, 0)) <= Len(Append(long, 0))
  BY <1>1, <1>2, <1>4, <1>5
<1> QED BY <1>4, <1>5, <1>6, <1>7, LatestEntries

LEMMA AppendSorted ==
    ASSUME NEW list \in Times, Sorted(list)
    PROVE  Append(list, 0) \in Times /\ Sorted(Append(list, 0))
<1>1. Len(list) \in Nat /\ \A i \in 1..Len(list) : list[i] \in Age
  BY DEF Times
<1>2. 0 \in Age /\ \A a \in Age : a >= 0
  BY WindowAssumption DEF Age
<1>3. /\ Append(list, 0) \in Times /\ Len(Append(list, 0)) = Len(list) + 1
      /\ \A i \in 1..Len(list) : Append(list, 0)[i] = list[i]
      /\ Append(list, 0)[Len(list) + 1] = 0
  BY <1>2, AppendProperties DEF Times
<1>4. ASSUME NEW i \in 1..Len(list) + 1, NEW j \in 1..Len(list) + 1, i <= j
      PROVE  Append(list, 0)[j] <= Append(list, 0)[i]
  <2>1. CASE j = Len(list) + 1
    BY <1>1, <1>2, <1>3, <2>1
  <2>2. CASE j # Len(list) + 1
    BY <1>1, <1>3, <1>4, <2>2 DEF Sorted
  <2> QED BY <2>1, <2>2
<1> QED BY <1>3, <1>4 DEF Sorted

LEMMA OlderLatest ==
    ASSUME NEW short \in Times, NEW long \in Times, IsLatest(short, long), Sorted(long)
    PROVE  IsLatest(Older(short), Older(long))
<1> DEFINE m == Len(short)
           n == Len(long)
           d == n - m
<1>1. m \in Nat /\ n \in Nat
  BY DEF Times
<1>2. m <= n /\ \A i \in 1..m : short[i] = long[i + d]
  <2>1. \A i \in 1..m : i + n - m = i + d
    BY <1>1
  <2> QED BY <2>1, LatestEntries
<1>3. Sorted(short)
  BY LatestSorted
<1>4. PICK k \in 0..n : /\ \A i \in 1..n : long[i] + 1 >= WindowSize <=> i <= k
                        /\ Older(long) = [i \in 1..n - k |-> long[i + k] + 1]
  BY OlderDropsPrefix
<1>5. PICK l \in 0..m : /\ \A i \in 1..m : short[i] + 1 >= WindowSize <=> i <= l
                        /\ Older(short) = [i \in 1..m - l |-> short[i + l] + 1]
  BY <1>3, OlderDropsPrefix
<1>6. Older(long) \in Times /\ Older(short) \in Times
  BY <1>3, OlderIsLog
<1>7. Len(Older(long)) = n - k /\ Len(Older(short)) = m - l
  <2>1. n - k \in Nat /\ m - l \in Nat
    BY <1>1
  <2>2. DOMAIN Older(long) = 1..n - k /\ DOMAIN Older(short) = 1..m - l
    BY <1>4, <1>5
  <2> QED BY <1>6, <2>1, <2>2, LenProperties DEF Times
<1>8. d \in Nat /\ \A i \in 1..m : i + d \in 1..n /\ (i <= l <=> i + d <= k)
  <2>1. d \in Nat
    BY <1>1, <1>2
  <2> SUFFICES ASSUME NEW i \in 1..m PROVE i + d \in 1..n /\ (i <= l <=> i + d <= k)
    BY <2>1
  <2>2. i + d \in 1..n
    BY <1>1, <1>2
  <2>3. i <= l <=> short[i] + 1 >= WindowSize
    BY <1>5
  <2>4. i + d <= k <=> long[i + d] + 1 >= WindowSize
    BY <1>4, <2>2
  <2> QED BY <1>2, <2>2, <2>3, <2>4
\* As many old entries as the end does not lack.
<1>9. l = IF k > d THEN k - d ELSE 0
  <2>1. CASE k > d
    <3>1. k - d \in 1..m /\ k - d <= l
      <4>1. k - d \in 1..m /\ (k - d) + d = k
        BY <1>1, <2>1
      <4> QED BY <1>8, <4>1
    <3>2. l \in 1..m /\ l + d <= k
      BY <1>1, <1>8, <3>1
    <3> QED BY <1>1, <1>8, <2>1, <3>1, <3>2
  <2>2. CASE k <= d
    <3>1. ASSUME l > 0 PROVE FALSE
      <4>1. l \in 1..m /\ l + d <= k
        BY <1>8, <3>1
      <4> QED BY <1>8, <2>2, <4>1
    <3> QED BY <1>1, <2>2, <3>1
  <2> QED BY <1>1, <2>1, <2>2
<1>10. m - l <= n - k
  BY <1>1, <1>8, <1>9
<1>11. ASSUME NEW i \in 1..m - l
       PROVE  Older(short)[i] = Older(long)[i + (n - k) - (m - l)]
  <2> DEFINE j == i + (n - k) - (m - l)
  <2>1. j \in 1..n - k /\ i + l \in 1..m /\ j + k = i + l + d
    BY <1>1, <1>10
  <2>2. Older(short)[i] = short[i + l] + 1 /\ Older(long)[j] = long[j + k] + 1
    BY <1>4, <1>5, <2>1
  <2>3. short[i + l] = long[i + l + d]
    BY <1>2, <2>1
  <2> QED BY <2>1, <2>2, <2>3
<1> QED BY <1>6, <1>7, <1>10, <1>11, LatestEntries

-------------------------------------------------------------------------------
(* What the engine remembers. *)

OrderInv ==
    /\ Unique(order) /\ tracked = Entries(order) /\ Len(order) <= MaxTracked
    /\ \A s \in Session : calls[s] # <<>> => s \in tracked

\* As long as the sessions were never too many, all that have called are tracked.
LogInv ==
    /\ \A s \in Session : Sorted(made[s]) /\ IsLatest(calls[s], made[s])
    /\ \A s \in Session \ met : made[s] = <<>>
    /\ ~crowded => tracked = met /\ calls = made

EngineInv == EngineTypeOK /\ OrderInv /\ LogInv

LEMMA EmptyIsLog ==
    <<>> \in Times /\ Sorted(<<>>) /\ IsLatest(<<>>, <<>>) /\ <<>> \in Seq(Session) /\ Unique(<<>>)
<1>1. <<>> \in Times /\ Len(<<>>) = 0 /\ <<>> \in Seq(Session)
  BY DEF Times
<1>2. Sorted(<<>>) /\ Unique(<<>>)
  BY <1>1 DEF Sorted, Unique
<1>3. IsLatest(<<>>, <<>>)
  BY <1>1, LatestEntries
<1> QED BY <1>1, <1>2, <1>3

\* Nothing is the end of any list.
LEMMA NothingIsLatest ==
    ASSUME NEW long \in Times
    PROVE  IsLatest(<<>>, long)
<1>1. Len(<<>>) = 0 /\ Len(long) \in Nat
  BY DEF Times
<1>2. Len(<<>>) <= Len(long)
  BY <1>1
<1>3. \A i \in 1..Len(<<>>) : <<>>[i] = long[i + Len(long) - Len(<<>>)]
  BY <1>1
<1> QED BY <1>2, <1>3, EmptyIsLog, LatestEntries

LEMMA EngineInitial ==
    ASSUME EngineInit
    PROVE  EngineInv
<1>1. EngineTypeOK
  BY EmptyIsLog DEF EngineTypeOK, Times, EngineInit
<1>2. OrderInv
  <2>1. Entries(<<>>) = {} /\ Len(<<>>) = 0
    BY DEF Entries
  <2> QED BY <2>1, EmptyIsLog, WindowAssumption DEF OrderInv, EngineInit
<1>3. LogInv
  BY EmptyIsLog DEF LogInv, EngineInit
<1> QED BY <1>1, <1>2, <1>3 DEF EngineInv

LEMMA RestartKeeps ==
    ASSUME EngineRestart
    PROVE  EngineInv'
<1>1. EngineTypeOK'
  BY EmptyIsLog DEF EngineTypeOK, Times, EngineRestart
<1>2. OrderInv'
  <2>1. Entries(<<>>) = {} /\ Len(<<>>) = 0
    BY DEF Entries
  <2> QED BY <2>1, EmptyIsLog, WindowAssumption DEF OrderInv, EngineRestart
<1>3. LogInv'
  BY EmptyIsLog DEF LogInv, EngineRestart
<1> QED BY <1>1, <1>2, <1>3 DEF EngineInv

LEMMA TickKeeps ==
    ASSUME EngineInv, EngineTick
    PROVE  EngineInv'
<1>1. \A s \in Session : calls[s] \in Times /\ made[s] \in Times
  BY DEF EngineInv, EngineTypeOK, Times
<1>2. \A s \in Session : /\ Sorted(made[s]) /\ Sorted(calls[s])
                         /\ IsLatest(calls[s], made[s])
  BY <1>1, LatestSorted DEF EngineInv, LogInv
<1>3. \A s \in Session : /\ Older(calls[s]) \in Times /\ Older(made[s]) \in Times
                         /\ Sorted(Older(made[s])) /\ IsLatest(Older(calls[s]), Older(made[s]))
  BY <1>1, <1>2, OlderIsLog, OlderLatest
<1>4. Older(<<>>) = <<>>
  <2>1. PICK k \in 0..Len(<<>>) : Older(<<>>) = [i \in 1..Len(<<>>) - k |-> <<>>[i + k] + 1]
    BY EmptyIsLog, OlderDropsPrefix
  <2>2. Older(<<>>) \in Times
    BY EmptyIsLog, OlderIsLog
  <2>3. Len(<<>>) - k = 0
    OBVIOUS
  <2>4. DOMAIN Older(<<>>) = 1..0
    BY <2>1, <2>3
  <2>5. Len(Older(<<>>)) = 0
    BY <2>2, <2>4, LenProperties DEF Times
  <2> QED BY <2>2, <2>5, EmptySeq DEF Times
<1>5. /\ \A s \in Session : calls'[s] = Older(calls[s]) /\ made'[s] = Older(made[s])
      /\ UNCHANGED <<order, tracked, met, crowded>>
  BY DEF EngineTick
<1>6. EngineTypeOK'
  <2>1. calls' \in [Session -> Seq(Age)] /\ made' \in [Session -> Seq(Age)]
    BY <1>3 DEF EngineTick, Times
  <2> QED BY <1>5, <2>1 DEF EngineInv, EngineTypeOK
<1>7. OrderInv'
  BY <1>4, <1>5 DEF EngineInv, OrderInv
<1>8. LogInv'
  <2>1. \A s \in Session : Sorted(made'[s]) /\ IsLatest(calls'[s], made'[s])
    BY <1>3, <1>5
  <2>2. \A s \in Session \ met' : made'[s] = <<>>
    BY <1>4, <1>5 DEF EngineInv, LogInv
  <2>3. ~crowded' => tracked' = met' /\ calls' = made'
    BY <1>5 DEF EngineInv, LogInv, EngineTick
  <2> QED BY <2>1, <2>2, <2>3 DEF LogInv
<1> QED BY <1>6, <1>7, <1>8 DEF EngineInv

LEMMA CleanupKeeps ==
    ASSUME EngineInv, NEW s \in Session, Cleanup(s)
    PROVE  EngineInv'
<1>1. /\ order' \in Seq(Session) /\ Unique(order') /\ Len(order') <= Len(order)
      /\ Entries(order') = Entries(order) \ {s}
  BY WithoutRemoves DEF EngineInv, EngineTypeOK, OrderInv, Cleanup
<1>2. /\ calls'[s] = <<>> /\ made'[s] = <<>>
      /\ \A t \in Session \ {s} : calls'[t] = calls[t] /\ made'[t] = made[t]
  BY DEF EngineInv, EngineTypeOK, Cleanup
<1>3. calls' \in [Session -> Seq(Age)] /\ made' \in [Session -> Seq(Age)]
  BY EmptyIsLog DEF EngineInv, EngineTypeOK, Cleanup, Times
<1>4. tracked' = tracked \ {s} /\ met' = met \ {s} /\ crowded' = crowded
  BY DEF Cleanup
<1>5. EngineTypeOK'
  BY <1>1, <1>3, <1>4 DEF EngineInv, EngineTypeOK
<1>6. OrderInv'
  <2>1. Len(order') <= MaxTracked
    <3>1. Len(order) \in Nat /\ Len(order') \in Nat /\ MaxTracked \in Nat
      BY <1>1, WindowAssumption DEF EngineInv, EngineTypeOK
    <3> QED BY <1>1, <3>1 DEF EngineInv, OrderInv
  <2>2. \A t \in Session : calls'[t] # <<>> => t \in tracked'
    BY <1>2, <1>4 DEF EngineInv, OrderInv
  <2> QED BY <1>1, <1>4, <2>1, <2>2 DEF EngineInv, OrderInv
<1>7. LogInv'
  <2>1. \A t \in Session : Sorted(made'[t]) /\ IsLatest(calls'[t], made'[t])
    BY <1>2, EmptyIsLog DEF EngineInv, LogInv
  <2>2. \A t \in Session \ met' : made'[t] = <<>>
    BY <1>2, <1>4 DEF EngineInv, LogInv
  <2>3. ~crowded' => tracked' = met' /\ calls' = made'
    BY <1>4 DEF EngineInv, LogInv, Cleanup
  <2> QED BY <2>1, <2>2, <2>3 DEF LogInv
<1> QED BY <1>5, <1>6, <1>7 DEF EngineInv

\* The order after a call: the session is in it, and another has left it only if
\* there were too many.
LEMMA ListedOrder ==
    ASSUME EngineInv, NEW s \in Session
    PROVE  /\ Listed(s) \in Seq(Session) /\ Unique(Listed(s)) /\ Len(Listed(s)) <= MaxTracked
           /\ s \in Entries(Listed(s)) /\ Entries(Listed(s)) \subseteq tracked \cup {s}
           /\ tracked = met /\ Cardinality(met \cup {s}) <= MaxTracked
                  => Entries(Listed(s)) = tracked \cup {s}
<1>1. /\ order \in Seq(Session) /\ Unique(order) /\ tracked = Entries(order)
      /\ Len(order) <= MaxTracked /\ Len(order) \in Nat /\ MaxTracked \in Nat \ {0}
  BY WindowAssumption DEF EngineInv, EngineTypeOK, OrderInv
<1>2. CASE s \in tracked
  BY <1>1, <1>2 DEF Listed
<1>3. CASE s \notin tracked
  <2> DEFINE list == Append(order, s)
  <2>1. /\ list \in Seq(Session) /\ Unique(list) /\ Entries(list) = tracked \cup {s}
    BY <1>1, <1>3, AppendUnique
  <2>2. Len(list) = Len(order) + 1 /\ list[Len(list)] = s /\ Len(list) \in Nat
    BY <1>1, AppendProperties
  <2>3. Cardinality(tracked \cup {s}) = Len(list)
    BY <2>1, UniqueCount
  <2>4. Listed(s) = EvictOldest(list)
    BY <1>3 DEF Listed
  <2> HIDE DEF list
  <2>5. CASE Len(list) <= MaxTracked
    <3>1. Listed(s) = list
      BY <1>1, <2>2, <2>4, <2>5 DEF EvictOldest
    <3> QED BY <2>1, <2>5, <3>1
  <2>6. CASE Len(list) = MaxTracked + 1
    <3>1. /\ Listed(s) \in Seq(Session) /\ Unique(Listed(s)) /\ Len(Listed(s)) = MaxTracked
          /\ Entries(Listed(s)) \subseteq tracked \cup {s} /\ s \in Entries(Listed(s))
      BY <2>1, <2>2, <2>4, <2>6, EvictKeeps
    <3>2. ~(tracked = met /\ Cardinality(met \cup {s}) <= MaxTracked)
      <4> SUFFICES ASSUME tracked = met, Cardinality(met \cup {s}) <= MaxTracked PROVE FALSE
        OBVIOUS
      <4>1. Cardinality(met \cup {s}) = MaxTracked + 1
        BY <2>3, <2>6
      <4> QED BY <1>1, <4>1
    <3> QED BY <1>1, <3>1, <3>2
  <2> QED BY <1>1, <2>2, <2>5, <2>6
<1> QED BY <1>2, <1>3

LEMMA RecordKeeps ==
    ASSUME EngineInv, NEW s \in Session, Record(s)
    PROVE  EngineInv'
<1> DEFINE L == Listed(s)
<1>1. /\ L \in Seq(Session) /\ Unique(L) /\ Len(L) <= MaxTracked
      /\ s \in Entries(L) /\ Entries(L) \subseteq tracked \cup {s}
      /\ tracked = met /\ Cardinality(met \cup {s}) <= MaxTracked => Entries(L) = tracked \cup {s}
  BY ListedOrder
<1>2. /\ order' = L /\ tracked' = (tracked \cap Entries(L)) \cup {s}
      /\ calls' = [t \in Session |-> IF t = s THEN Append(calls[s], 0)
                                     ELSE IF t \in Entries(L) THEN calls[t] ELSE <<>>]
      /\ made' = [made EXCEPT ![s] = Append(made[s], 0)]
      /\ met' = met \cup {s}
      /\ crowded' = (crowded \/ Cardinality(met \cup {s}) > MaxTracked)
  BY DEF Record, Window
<1> HIDE DEF L
<1>3. \A t \in Session : calls[t] \in Times /\ made[t] \in Times
                         /\ Sorted(made[t]) /\ IsLatest(calls[t], made[t]) /\ Sorted(calls[t])
  BY LatestSorted DEF EngineInv, EngineTypeOK, LogInv, Times
<1>4. /\ Append(calls[s], 0) \in Times /\ Append(made[s], 0) \in Times
      /\ Sorted(Append(made[s], 0)) /\ IsLatest(Append(calls[s], 0), Append(made[s], 0))
  BY <1>3, AppendSorted, AppendLatest
<1>5. tracked' = Entries(L)
  BY <1>1, <1>2
<1>6. /\ made'[s] = Append(made[s], 0) /\ calls'[s] = Append(calls[s], 0)
      /\ \A t \in Session \ {s} : /\ made'[t] = made[t]
                                  /\ calls'[t] = IF t \in Entries(L) THEN calls[t] ELSE <<>>
  BY <1>2 DEF EngineInv, EngineTypeOK
<1>7. EngineTypeOK'
  <2>1. calls' \in [Session -> Seq(Age)]
    BY <1>2, <1>3, <1>4, EmptyIsLog DEF Times
  <2>2. made' \in [Session -> Seq(Age)]
    BY <1>2, <1>4 DEF EngineInv, EngineTypeOK, Times
  <2>3. order' \in Seq(Session) /\ tracked' \subseteq Session /\ met' \subseteq Session
    BY <1>1, <1>2 DEF EngineInv, EngineTypeOK
  <2>4. crowded' \in BOOLEAN
    BY <1>2
  <2> QED BY <2>1, <2>2, <2>3, <2>4 DEF EngineTypeOK
<1>8. OrderInv'
  BY <1>1, <1>2, <1>5, <1>6 DEF OrderInv
<1>9. LogInv'
  <2>1. ASSUME NEW t \in Session PROVE Sorted(made'[t]) /\ IsLatest(calls'[t], made'[t])
    <3>1. CASE t = s
      BY <1>4, <1>6, <3>1
    <3>2. CASE t # s /\ t \in Entries(L)
      BY <1>3, <1>6, <3>2
    <3>3. CASE t # s /\ t \notin Entries(L)
      BY <1>3, <1>6, <3>3, NothingIsLatest
    <3> QED BY <3>1, <3>2, <3>3
  <2>2. \A t \in Session \ met' : made'[t] = <<>>
    BY <1>2, <1>6 DEF EngineInv, LogInv
  <2>3. ASSUME ~crowded' PROVE tracked' = met' /\ calls' = made'
    <3>1. ~crowded /\ Cardinality(met \cup {s}) <= MaxTracked
      <4>1. IsFiniteSet(met \cup {s})
        BY SessionAssumption, FS_Subset DEF EngineInv, EngineTypeOK
      <4>2. Cardinality(met \cup {s}) \in Nat /\ MaxTracked \in Nat
        BY <4>1, FS_CardinalityType, WindowAssumption
      <4>3. ~crowded /\ ~(Cardinality(met \cup {s}) > MaxTracked)
        BY <1>2, <2>3
      <4> QED BY <4>2, <4>3
    <3>2. tracked = met /\ calls = made
      BY <3>1 DEF EngineInv, LogInv
    <3>3. tracked' = met'
      BY <1>1, <1>2, <1>5, <3>1, <3>2
    <3>4. ASSUME NEW t \in Session PROVE calls'[t] = made'[t]
      <4>1. CASE t = s
        BY <1>6, <3>2, <4>1
      <4>2. CASE t # s /\ t \in Entries(L)
        BY <1>6, <3>2, <4>2
      <4>3. CASE t # s /\ t \notin Entries(L)
        <5>1. t \notin met
          BY <1>1, <3>1, <3>2, <4>3
        <5>2. made[t] = <<>>
          BY <5>1 DEF EngineInv, LogInv
        <5> QED BY <1>6, <4>3, <5>2
      <4> QED BY <4>1, <4>2, <4>3
    <3>5. calls' = [t \in Session |-> calls'[t]] /\ made' = [t \in Session |-> made'[t]]
      BY <1>7 DEF EngineTypeOK
    <3>6. calls' = made'
      BY <3>4, <3>5
    <3> QED BY <3>3, <3>6
  <2> QED BY <2>1, <2>2, <2>3 DEF LogInv
<1> QED BY <1>7, <1>8, <1>9 DEF EngineInv

LEMMA EngineSame ==
    ASSUME EngineInv, UNCHANGED engine
    PROVE  EngineInv'
<1>1. UNCHANGED <<order, tracked, calls, made, met, crowded>>
  BY DEF engine
<1>2. EngineTypeOK' /\ OrderInv' /\ LogInv'
  BY <1>1 DEF EngineInv, EngineTypeOK, OrderInv, LogInv
<1> QED BY <1>2 DEF EngineInv

LEMMA InvFaithful == EngineInv => EngineFaithful
<1> SUFFICES ASSUME EngineInv PROVE EngineFaithful
  OBVIOUS
<1>1. order \in Seq(Session) /\ Unique(order) /\ tracked = Entries(order)
  BY DEF EngineInv, EngineTypeOK, OrderInv
<1>2. Cardinality(tracked) = Len(order)
  BY <1>1, UniqueCount
<1>3. TrackingBounded
  BY <1>1, <1>2 DEF EngineInv, OrderInv, TrackingBounded
<1>4. WindowFaithful
  BY DEF EngineInv, LogInv, WindowFaithful
<1> QED BY <1>3, <1>4 DEF EngineFaithful

-------------------------------------------------------------------------------
(* Types. *)

LEMMA SecTypeInit == SecInit => SecTypeOK /\ EngineInv
<1> SUFFICES ASSUME SecInit PROVE SecTypeOK /\ EngineInv
  OBVIOUS
<1>1. EngineInv
  BY EngineInitial DEF SecInit
<1>2. SecTypeOK
  BY <1>1 DEF EngineInv, SecInit, NoCall, SecTypeOK, CredState
<1> QED BY <1>1, <1>2

\* The parts of SecTypeOK about a call.
CallTypeOK ==
    /\ pc \in {"idle", "report", "refused", "allowed", "warn", "answered"} \cup Scan \cup Kind
    /\ caller \in Session \cup {NoSession} /\ (caller = NoSession <=> pc = "idle")
    /\ write \in BOOLEAN /\ cred \in CredState
    /\ given \subseteq threats /\ threats \subseteq Severity
    /\ restrained \in BOOLEAN /\ failed \in BOOLEAN
    /\ holds \subseteq Kind /\ flagged \subseteq Kind
    /\ untold \subseteq Kind /\ warned \subseteq Kind

LEMMA SecTypeParts == SecTypeOK <=> EngineTypeOK /\ CallTypeOK
BY DEF SecTypeOK, CallTypeOK

LEMMA DetectedTypes ==
    ASSUME CallTypeOK, NEW found \in SUBSET Severity, Detected(found)
    PROVE  /\ threats' \subseteq Severity /\ threats \cup found \subseteq threats' /\ given' \subseteq threats'
           /\ UNCHANGED <<caller, write, cred, given, restrained, failed, holds, flagged, untold, warned>>
BY DEF CallTypeOK, Detected, Severity, response

LEMMA RestrictedType ==
    ASSUME cred \in CredState
    PROVE  Restricted \subseteq CredState
BY DEF CredState, Restricted

LEMMA ScanTypes ==
    ASSUME CallTypeOK, ScanInjection \/ CheckState \/ CheckScope \/ ScanTraffic \/ ScanAbuse
    PROVE  CallTypeOK'
<1>1. ASSUME NEW found \in SUBSET Severity, Detected(found),
             pc \in Scan, pc' \in Scan \cup {"report"}
      PROVE  CallTypeOK'
  BY <1>1, DetectedTypes DEF CallTypeOK, Scan
<1>2. CASE ScanInjection
  <2>1. PICK found \in {{}, {"CRITICAL"}} : Detected(found)
    BY <1>2 DEF ScanInjection
  <2> QED BY <1>1, <1>2, <2>1 DEF ScanInjection, Severity, Scan
<1>3. CASE CheckState
  <2>1. CASE pc' = "scope" /\ UNCHANGED call
    BY <1>3, <2>1 DEF CheckState, CallTypeOK, call, request, response, Scan
  <2>2. CASE Detected(IF cred = "REVOKE" THEN {"CRITICAL"} ELSE {"HIGH"}) /\ pc' = "exfiltrate"
    BY <1>1, <1>3, <2>2 DEF CheckState, Severity, Scan
  <2>3. CASE Detected({"CRITICAL"}) /\ pc' = "exfiltrate"
    BY <1>1, <1>3, <2>3 DEF CheckState, Severity, Scan
  <2> QED BY <1>3, <2>1, <2>2, <2>3 DEF CheckState
<1>4. CASE CheckScope
  <2>1. PICK found \in SUBSET Severity : Detected(found)
    BY <1>4 DEF CheckScope, Severity
  <2> QED BY <1>1, <1>4, <2>1 DEF CheckScope, Scan
<1>5. CASE ScanTraffic
  <2>1. PICK found \in {{}, {"CRITICAL"}} : Detected(found)
    BY <1>5 DEF ScanTraffic
  <2> QED BY <1>1, <1>5, <2>1 DEF ScanTraffic, Severity, Scan
<1>6. CASE ScanAbuse
  <2>1. PICK found \in SUBSET Severity : Detected(found)
    BY <1>6 DEF ScanAbuse, Severity
  <2> QED BY <1>1, <1>6, <2>1 DEF ScanAbuse, Scan
<1> QED BY <1>2, <1>3, <1>4, <1>5, <1>6

LEMMA AnswerTypes ==
    ASSUME CallTypeOK, (\E t \in Severity : Report(t)) \/ Answer \/ Raise \/ Die \/ End \/ CredChanges
    PROVE  CallTypeOK'
<1> USE DEF request, response
<1>1. ASSUME NEW t \in Severity, Report(t) PROVE CallTypeOK'
  BY <1>1, RestrictedType DEF Report, CallTypeOK
<1>2. CASE Answer
  BY <1>2 DEF Answer, call, CallTypeOK
<1>3. CASE Raise
  BY <1>3, RestrictedType DEF Raise, CallTypeOK
<1>4. CASE Die
  BY <1>4 DEF Die, CallTypeOK, Scan
<1>7. CASE End
  BY <1>7 DEF End, CallTypeOK, CredState
<1>8. CASE CredChanges
  <2>1. cred' \in CredState
    BY <1>8 DEF CredChanges, CredState
  <2>2. restrained' \in BOOLEAN
    BY <1>8 DEF CredChanges
  <2> QED BY <1>8, <2>1, <2>2 DEF CredChanges, CallTypeOK
<1> QED BY <1>1, <1>2, <1>3, <1>4, <1>7, <1>8

\* The steps of the hook that scans the response.
ResponseStep ==
    \/ Respond \/ Warn \/ ResponseFails
    \/ \E k \in Kind : ScanResponse(k) \/ Dispatch(k) \/ DispatchFails(k)

LEMMA ResponseTypes ==
    ASSUME CallTypeOK, ResponseStep
    PROVE  CallTypeOK'
<1> USE DEF request, response
<1>1. \A k \in Kind : After(k) \in Kind \cup {"warn"}
  BY DEF Kind, After
<1>2. "idle" \notin Kind \cup {"warn", "answered"}
  BY DEF Kind
<1>3. CASE Respond
  <2>1. "SECONDARY_INJECTION" \in Kind
    BY DEF Kind
  <2> QED BY <1>2, <1>3, <2>1 DEF Respond, CallTypeOK
<1>4. ASSUME NEW k \in Kind, ScanResponse(k) PROVE CallTypeOK'
  BY <1>1, <1>2, <1>4 DEF ScanResponse, CallTypeOK
<1>5. ASSUME NEW k \in Kind, Dispatch(k) PROVE CallTypeOK'
  BY <1>1, <1>2, <1>5, RestrictedType DEF Dispatch, CallTypeOK
<1>6. ASSUME NEW k \in Kind, DispatchFails(k) PROVE CallTypeOK'
  BY <1>1, <1>2, <1>6, RestrictedType DEF DispatchFails, CallTypeOK
<1>7. CASE Warn \/ ResponseFails
  BY <1>2, <1>7 DEF Warn, ResponseFails, CallTypeOK
<1> QED BY <1>3, <1>4, <1>5, <1>6, <1>7 DEF ResponseStep

LEMMA BeginTypes ==
    ASSUME CallTypeOK, NEW s \in Session, Begin(s)
    PROVE  CallTypeOK'
<1>1. restrained' \in BOOLEAN
  BY DEF Begin
<1>2. caller' = s /\ s # NoSession /\ pc' = "inject"
  BY CallAssumption DEF Begin
<1>3. UNCHANGED <<threats, given, failed, holds, flagged, untold, warned>> /\ write' \in BOOLEAN /\ cred' \in CredState
  BY DEF Begin, response
<1> QED BY <1>1, <1>2, <1>3 DEF CallTypeOK, Scan

LEMMA SecTypeStep == SecTypeOK /\ EngineInv /\ [SecNext]_secVars => SecTypeOK' /\ EngineInv'
<1> SUFFICES ASSUME SecTypeOK, EngineInv, [SecNext]_secVars PROVE CallTypeOK' /\ EngineInv'
  BY SecTypeParts DEF EngineInv, SecTypeOK, CallTypeOK
<1>0. CallTypeOK
  BY SecTypeParts
<1>1. ASSUME NEW s \in Session, Begin(s) PROVE CallTypeOK' /\ EngineInv'
  BY <1>0, <1>1, BeginTypes, EngineSame DEF Begin
<1>2. CASE ScanInjection \/ CheckState \/ CheckScope \/ ScanTraffic
  BY <1>0, <1>2, ScanTypes, EngineSame DEF ScanInjection, CheckState, CheckScope, ScanTraffic
<1>3. CASE ScanAbuse
  <2>1. caller \in Session /\ Record(caller)
    BY <1>0, <1>3 DEF ScanAbuse, CallTypeOK
  <2> QED BY <1>0, <1>3, <2>1, ScanTypes, RecordKeeps
<1>4. CASE (\E t \in Severity : Report(t)) \/ Answer \/ Raise \/ Die \/ End \/ CredChanges
  <2>1. UNCHANGED engine
    BY <1>4 DEF Report, Answer, Raise, Die, End, CredChanges
  <2> QED BY <1>0, <1>4, <2>1, AnswerTypes, EngineSame
<1>9. CASE ResponseStep
  <2>1. UNCHANGED engine
    BY <1>9 DEF ResponseStep, Respond, ScanResponse, Dispatch, DispatchFails, Warn, ResponseFails
  <2> QED BY <1>0, <1>9, <2>1, ResponseTypes, EngineSame
<1>5. ASSUME UNCHANGED <<pc, call>> PROVE CallTypeOK'
  BY <1>0, <1>5 DEF CallTypeOK, call, request, response
<1>6. ASSUME NEW s \in Session, Idle(Cleanup(s)) PROVE CallTypeOK' /\ EngineInv'
  BY <1>5, <1>6, CleanupKeeps DEF Idle
<1>7. CASE Idle(EngineTick) \/ Idle(EngineRestart)
  BY <1>5, <1>7, TickKeeps, RestartKeeps DEF Idle
<1>8. CASE UNCHANGED secVars
  BY <1>5, <1>8, EngineSame DEF secVars
<1> QED BY <1>1, <1>2, <1>3, <1>4, <1>6, <1>7, <1>8, <1>9 DEF SecNext, ResponseStep

\* The hooks' state and the engine's are what they should be (ToolAbuseDetector, main).
THEOREM SecTypeCorrect == SecSpec => []SecTypeOK
BY SecTypeInit, SecTypeStep, PTL DEF SecSpec

\* What a session is judged by is the latest of its calls, and all of them unless
\* sessions were evicted; and no more sessions are kept than the limit allows
\* (ToolAbuseDetector.detect, _evict_oldest_sessions, cleanup_session).
THEOREM EngineHolds == SecSpec => []EngineFaithful
BY SecTypeInit, SecTypeStep, InvFaithful, PTL DEF SecSpec

-------------------------------------------------------------------------------
(* What gets through. *)

Stopped == \E t \in threats : Blocking(t)

Flooded == ~crowded /\ Len(made[caller]) > RateThreshold

\* A credential that has forbidden the call all along forbids it still, or a threat
\* has been found that blocks it; and so has one when the session makes too many calls.
ScanInv ==
    /\ pc \in {"inject", "escalate", "scope"} /\ restrained => Forbids(cred)
    /\ pc \in {"exfiltrate", "abuse", "report"} /\ restrained => Stopped
    /\ pc = "report" /\ Flooded => Stopped

\* What has been let through by an answer.
ThroughInv ==
    /\ pc \in {"allowed", "refused"} /\ ~failed => given = threats
    /\ pc = "allowed" /\ ~failed => ~Stopped /\ ~restrained /\ ~Flooded

CallInv == ScanInv /\ ThroughInv

\* Threats found stay found.
LEMMA DetectedStays ==
    ASSUME NEW found \in SUBSET Severity, Detected(found)
    PROVE  /\ Stopped => Stopped'
           /\ found \cap {"CRITICAL", "HIGH"} # {} => Stopped'
           /\ UNCHANGED <<caller, write, cred, given, restrained, failed, holds, flagged, untold, warned>>
<1>1. threats \subseteq threats' /\ found \subseteq threats'
  BY DEF Detected
<1>2. Stopped => Stopped'
  BY <1>1 DEF Stopped, Blocking
<1>3. found \cap {"CRITICAL", "HIGH"} # {} => Stopped'
  BY <1>1 DEF Stopped, Blocking
<1> QED BY <1>2, <1>3 DEF Detected, response

LEMMA BeginCall ==
    ASSUME NEW s \in Session, Begin(s)
    PROVE  CallInv'
BY DEF Begin, Forbids, CallInv, ScanInv, ThroughInv

LEMMA ScanCall ==
    ASSUME SecTypeOK, EngineInv, CallInv,
           ScanInjection \/ CheckState \/ CheckScope \/ ScanTraffic \/ ScanAbuse
    PROVE  CallInv'
<1>1. CASE ScanInjection
  <2>1. PICK found \in {{}, {"CRITICAL"}} : Detected(found)
    BY <1>1 DEF ScanInjection
  <2>2. UNCHANGED <<cred, write, restrained>>
    BY <2>1 DEF Detected
  <2> QED BY <1>1, <2>2 DEF ScanInjection, CallInv, ScanInv, ThroughInv, Forbids
<1>2. CASE CheckState
  <2>1. CASE ~Forbids(cred) /\ pc' = "scope" /\ UNCHANGED call
    BY <1>2, <2>1 DEF CheckState, call, request, CallInv, ScanInv, ThroughInv, Forbids
  <2>2. CASE Detected(IF cred = "REVOKE" THEN {"CRITICAL"} ELSE {"HIGH"}) /\ pc' = "exfiltrate"
    <3>1. Stopped'
      BY <2>2, DetectedStays DEF Severity
    <3> QED BY <2>2, <3>1 DEF CallInv, ScanInv, ThroughInv
  <2>3. CASE Detected({"CRITICAL"}) /\ pc' = "exfiltrate"
    <3>1. Stopped'
      BY <2>3, DetectedStays DEF Severity
    <3> QED BY <2>3, <3>1 DEF CallInv, ScanInv, ThroughInv
  <2> QED BY <1>2, <2>1, <2>2, <2>3 DEF CheckState
<1>3. CASE CheckScope
  <2>1. PICK inScope \in BOOLEAN :
            Detected(IF cred # "none" /\ (Forbids(cred) \/ ~inScope) THEN {"CRITICAL"} ELSE {})
    BY <1>3 DEF CheckScope
  <2>2. restrained' = restrained /\ pc = "scope" /\ pc' = "exfiltrate"
    BY <1>3, <2>1 DEF CheckScope, Detected
  <2>3. restrained => Stopped'
    <3> SUFFICES ASSUME restrained PROVE Stopped'
      OBVIOUS
    <3>1. Forbids(cred)
      BY <2>2 DEF CallInv, ScanInv
    <3>2. cred # "none"
      BY <3>1 DEF Forbids
    <3>3. Detected({"CRITICAL"})
      BY <2>1, <3>1, <3>2
    <3> QED BY <3>3, DetectedStays DEF Severity
  <2> QED BY <2>2, <2>3 DEF CallInv, ScanInv, ThroughInv
<1>4. CASE ScanTraffic
  <2>1. PICK found \in {{}, {"CRITICAL"}} : Detected(found)
    BY <1>4 DEF ScanTraffic
  <2>2. (Stopped => Stopped') /\ restrained' = restrained
    BY <2>1, DetectedStays DEF Severity
  <2> QED BY <1>4, <2>2 DEF ScanTraffic, CallInv, ScanInv, ThroughInv
<1>5. CASE ScanAbuse
  <2>1. caller \in Session /\ pc = "abuse" /\ pc' = "report" /\ Record(caller)
    BY <1>5 DEF ScanAbuse, SecTypeOK
  <2>2. PICK found \in SUBSET Severity : Detected(found) /\ (Flooding(caller) => found = {"HIGH"})
    BY <1>5 DEF ScanAbuse, Severity
  <2>3. (Stopped => Stopped') /\ UNCHANGED <<caller, restrained>>
    BY <2>2, DetectedStays
  <2>4. ASSUME Flooded' PROVE Stopped'
    <3>1. EngineInv'
      BY <2>1, RecordKeeps
    <3>2. calls'[caller] = made'[caller]
      <4>1. ~crowded'
        BY <2>4 DEF Flooded
      <4> QED BY <3>1, <4>1 DEF EngineInv, LogInv
    <3>3. calls'[caller] = Window(caller)
      BY <2>1 DEF Record
    <3>4. Flooding(caller)
      BY <2>3, <2>4, <3>2, <3>3 DEF Flooded, Flooding
    <3> QED BY <2>2, <3>4, DetectedStays
  <2>5. restrained => Stopped
    BY <2>1 DEF CallInv, ScanInv
  <2> QED BY <2>1, <2>3, <2>4, <2>5 DEF CallInv, ScanInv, ThroughInv
<1> QED BY <1>1, <1>2, <1>3, <1>4, <1>5

LEMMA AnswerCall ==
    ASSUME SecTypeOK, CallInv, UNCHANGED engine,
           (\E t \in Severity : Report(t)) \/ Answer \/ Raise \/ Die \/ End \/ CredChanges
    PROVE  CallInv'
<1> USE DEF CallInv, ScanInv, ThroughInv, Stopped, Flooded, engine, request
<1>1. ASSUME NEW t \in Severity, Report(t) PROVE CallInv'
  BY <1>1 DEF Report
<1>2. CASE Answer
  BY <1>2 DEF Answer, call
<1>3. CASE Raise
  BY <1>3 DEF Raise
<1>4. CASE Die
  BY <1>4 DEF Die
<1>7. CASE End
  BY <1>7 DEF End
<1>8. CASE CredChanges
  <2>1. UNCHANGED <<pc, caller, write, threats, given, failed>>
    BY <1>8 DEF CredChanges, response
  <2>2. restrained' => restrained /\ (pc \in Scan => Forbids(cred'))
    BY <1>8 DEF CredChanges
  <2>3. Forbids(cred') => Forbids(cred)'
    BY <2>1 DEF Forbids
  <2>4. ScanInv'
    BY <2>1, <2>2, <2>3 DEF Scan
  <2>5. ThroughInv'
    BY <2>1, <2>2
  <2> QED BY <2>4, <2>5
<1> QED BY <1>1, <1>2, <1>3, <1>4, <1>7, <1>8

\* The scan of the response is none of the request.
LEMMA ResponseCall ==
    ASSUME ResponseStep
    PROVE  CallInv'
<1>1. \A k \in Kind : After(k) \in Kind \cup {"warn"}
  BY DEF Kind, After
<1>2. pc' \in Kind \cup {"warn", "answered"}
  BY <1>1 DEF ResponseStep, Respond, ScanResponse, Dispatch, DispatchFails, Warn,
     ResponseFails, Kind
<1> QED BY <1>2 DEF Kind, CallInv, ScanInv, ThroughInv

LEMMA CallInit == SecInit => CallInv
BY DEF SecInit, NoCall, CallInv, ScanInv, ThroughInv

LEMMA CallStep == SecTypeOK /\ EngineInv /\ CallInv /\ [SecNext]_secVars => CallInv'
<1> SUFFICES ASSUME SecTypeOK, EngineInv, CallInv, [SecNext]_secVars PROVE CallInv'
  OBVIOUS
<1>1. ASSUME NEW s \in Session, Begin(s) PROVE CallInv'
  BY <1>1, BeginCall
<1>2. CASE ScanInjection \/ CheckState \/ CheckScope \/ ScanTraffic \/ ScanAbuse
  BY <1>2, ScanCall
<1>3. CASE (\E t \in Severity : Report(t)) \/ Answer \/ Raise \/ Die \/ End \/ CredChanges
  <2>1. UNCHANGED engine
    BY <1>3 DEF Report, Answer, Raise, Die, End, CredChanges
  <2> QED BY <1>3, <2>1, AnswerCall
<1>4. CASE ResponseStep
  BY <1>4, ResponseCall
<1>5. CASE pc = "idle" /\ UNCHANGED <<pc, call>>
  BY <1>5 DEF call, request, CallInv, ScanInv, ThroughInv
<1>6. CASE UNCHANGED secVars
  BY <1>6 DEF secVars, engine, call, request, CallInv, ScanInv, ThroughInv, Forbids, Stopped, Flooded
<1> QED BY <1>1, <1>2, <1>3, <1>4, <1>5, <1>6 DEF SecNext, Idle, ResponseStep

LEMMA CallHolds == SecSpec => [](SecTypeOK /\ CallInv)
BY SecTypeInit, SecTypeStep, CallInit, CallStep, PTL DEF SecSpec

\* A call that the credential forbids gets through only where the hook fails, whatever
\* it reads of the credential and when, and whichever detectors fail
\* (PrivilegeEscalationDetector.detect, ThreatDetectionEngine.scan).
THEOREM RestrictedHolds == SecSpec => []RestrictedBlocked
<1>1. CallInv => RestrictedBlocked
  BY DEF CallInv, ThroughInv, RestrictedBlocked
<1> QED BY CallHolds, <1>1, PTL

\* What is let through met no threat that blocks, told the guardian of the others, and
\* is within the rate limit (main of pre_tool_security.py).
THEOREM AllowedHolds == SecSpec => []AllowedIsClean
<1>1. SecTypeOK /\ CallInv => AllowedIsClean
  <2> SUFFICES ASSUME SecTypeOK, CallInv PROVE ThreatStops /\ FloodStopped
    BY DEF AllowedIsClean
  <2>1. ThreatStops
    BY DEF CallInv, ThroughInv, ThreatStops, Stopped
  <2>2. FloodStopped
    <3> SUFFICES ASSUME pc = "allowed", ~failed, ~crowded PROVE Len(made[caller]) <= RateThreshold
      BY DEF FloodStopped
    <3>1. caller \in Session /\ made \in [Session -> Seq(Age)]
      BY DEF SecTypeOK, EngineTypeOK
    <3>2. Len(made[caller]) \in Nat /\ RateThreshold \in Nat
      BY <3>1, WindowAssumption
    <3>3. ~(Len(made[caller]) > RateThreshold)
      BY DEF CallInv, ThroughInv, Flooded
    <3> QED BY <3>2, <3>3
  <2> QED BY <2>1, <2>2
<1> QED BY CallHolds, <1>1, PTL

-------------------------------------------------------------------------------
(* What a response holds.  That the warning is complete rests on how far the scan    *)
(* is, whichever of its reports could be made.                                       *)

\* The kinds a scan of the response at kind k is through with.
Before(k) ==
    IF k = "SECONDARY_INJECTION" THEN {}
    ELSE IF k = "SECRET_IN_RESPONSE" THEN {"SECONDARY_INJECTION"}
    ELSE IF k = "PII_BULK" THEN {"SECONDARY_INJECTION", "SECRET_IN_RESPONSE"}
    ELSE Kind

\* A scan has found all there is of the kinds it is through with, and a hook that
\* ended by itself has said so.
FindingInv ==
    /\ flagged \subseteq holds
    /\ pc \notin Kind \cup {"warn"} => flagged = {}
    /\ pc \in Kind => flagged \ {pc} = holds \cap Before(pc)
    /\ pc = "warn" => flagged = holds
    /\ pc = "answered" /\ ~failed => warned = holds

\* A kind the scan is through with.
LEMMA ScanOn ==
    ASSUME NEW k \in Kind, pc' = After(k), UNCHANGED <<holds, flagged>>, holds \subseteq Kind,
           flagged = holds \cap (Before(k) \cup {k})
    PROVE  FindingInv'
<1>1. CASE k = "SECONDARY_INJECTION"
  BY <1>1 DEF After, Before, FindingInv, Kind
<1>2. CASE k = "SECRET_IN_RESPONSE"
  BY <1>2 DEF After, Before, FindingInv, Kind
<1>3. CASE k = "PII_BULK"
  <2>1. Before(k) \cup {k} = Kind
    BY <1>3 DEF Before, Kind
  <2>2. pc' = "warn" /\ flagged' = holds'
    BY <1>3, <2>1 DEF After
  <2> QED BY <2>2 DEF FindingInv, Kind
<1> QED BY <1>1, <1>2, <1>3 DEF Kind

LEMMA FindingInit == SecInit => FindingInv
BY DEF SecInit, NoCall, FindingInv, Kind

LEMMA FindingStep == SecTypeOK /\ FindingInv /\ [SecNext]_secVars => FindingInv'
<1> SUFFICES ASSUME SecTypeOK, FindingInv, [SecNext]_secVars PROVE FindingInv'
  OBVIOUS
<1> DEFINE Outer == {"idle", "report", "refused", "allowed"} \cup Scan
<1>1. Outer \cap (Kind \cup {"warn", "answered"}) = {}
  BY DEF Kind, Scan
<1>2. ASSUME NEW s \in Session, Begin(s) PROVE FindingInv'
  BY <1>2 DEF Begin, response, FindingInv, Kind
<1>3. CASE ScanInjection \/ CheckState \/ CheckScope \/ ScanTraffic \/ ScanAbuse
  <2>1. pc \in Outer /\ pc' \in Outer
    BY <1>3 DEF ScanInjection, CheckState, CheckScope, ScanTraffic, ScanAbuse, Scan
  <2>2. UNCHANGED response
    BY <1>3 DEF ScanInjection, CheckState, CheckScope, ScanTraffic, ScanAbuse, Detected, call
  <2> HIDE DEF Outer
  <2> QED BY <1>1, <2>1, <2>2 DEF response, FindingInv
<1>4. CASE (\E t \in Severity : Report(t)) \/ Answer \/ Raise \/ Die
  <2>1. pc \in Outer /\ pc' \in Outer
    BY <1>4 DEF Report, Answer, Raise, Die, Scan
  <2>2. UNCHANGED response
    BY <1>4 DEF Report, Answer, Raise, Die, call
  <2> HIDE DEF Outer
  <2> QED BY <1>1, <2>1, <2>2 DEF response, FindingInv
<1>5. CASE End
  BY <1>5 DEF End, FindingInv, Kind
<1>6. CASE CredChanges
  BY <1>6 DEF CredChanges, response, FindingInv, Before
<1>7. CASE Respond
  BY <1>7 DEF Respond, FindingInv, Before, Kind
<1>8. ASSUME NEW k \in Kind, ScanResponse(k) PROVE FindingInv'
  <2>1. /\ pc = k /\ k \notin flagged /\ holds' = holds /\ holds \subseteq Kind
        /\ flagged = holds \cap Before(k)
    BY <1>8 DEF ScanResponse, FindingInv, SecTypeOK
  <2>2. CASE k \in holds
    <3>1. pc' = k /\ flagged' \ {k} = flagged /\ flagged' = flagged \cup {k}
      BY <1>8, <2>1, <2>2 DEF ScanResponse
    <3> QED BY <2>1, <2>2, <3>1 DEF FindingInv, Kind, Before
  <2>3. CASE k \notin holds
    <3>1. pc' = After(k) /\ flagged' = flagged
      BY <1>8, <2>3 DEF ScanResponse
    <3> QED BY <2>1, <2>3, <3>1, ScanOn
  <2> QED BY <2>2, <2>3
<1>9. ASSUME NEW k \in Kind, Dispatch(k) \/ DispatchFails(k) PROVE FindingInv'
  <2>1. /\ pc = k /\ k \in flagged /\ pc' = After(k) /\ UNCHANGED <<holds, flagged>>
        /\ flagged \ {k} = holds \cap Before(k)
    BY <1>9 DEF Dispatch, DispatchFails, response, FindingInv
  <2>2. flagged \subseteq holds /\ holds \subseteq Kind
    BY DEF FindingInv, SecTypeOK
  <2> QED BY <2>1, <2>2, ScanOn
<1>10. CASE Warn \/ ResponseFails
  BY <1>10 DEF Warn, ResponseFails, FindingInv, Kind
<1>11. CASE UNCHANGED <<pc, call>>
  BY <1>11 DEF call, response, FindingInv, Before
<1> QED
  BY <1>2, <1>3, <1>4, <1>5, <1>6, <1>7, <1>8, <1>9, <1>10, <1>11 DEF SecNext, Idle, secVars

\* Whatever a guardian that raises leaves unreported, the warning about a response names
\* every kind of finding it holds, unless the hook itself failed (main and
\* _emit_to_guardian of post_tool_security.py).
THEOREM WarningHolds == SecSpec => []FindingsWarned
<1>1. FindingInv => FindingsWarned
  BY DEF FindingInv, FindingsWarned
<1> QED BY SecTypeInit, SecTypeStep, FindingInit, FindingStep, <1>1, PTL DEF SecSpec
================================================================================
