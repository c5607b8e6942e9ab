-------------------------- MODULE PartitionProofs ---------------------------
(***************************************************************************)
(* The split of a key list, for every key range, number of servers,        *)
(* partition and list of keys: agent and servers agree on who has a key,   *)
(* although each works it out in its own way.                              *)
(***************************************************************************)
EXTENDS Partition, FiniteSetTheorems, SequenceTheorems, TLAPS

\* The remainder of a number below twice the divisor.
LEMMA Remainder ==
  ASSUME NEW n \in Nat \ {0}, NEW x \in 0 .. 2 * n - 1
  PROVE  x % n = IF x < n THEN x ELSE x - n
OBVIOUS

-----------------------------------------------------------------------------
(* Searching in ascending lists *)

\* The numbers below n are n numbers.
LEMMA FirstNumbers ==
  ASSUME NEW n \in Nat
  PROVE  IsFiniteSet(0 .. n - 1) /\ Cardinality(0 .. n - 1) = n
<1>1. 0 \in Int /\ n - 1 \in Int
  OBVIOUS
<1>2. /\ IsFiniteSet(0 .. n - 1)
      /\ Cardinality(0 .. n - 1) = IF 0 > n - 1 THEN 0 ELSE (n - 1) - 0 + 1
  BY <1>1, FS_Interval
<1>3. QED
  BY <1>2

\* A set of numbers with every number below any of its own is one of the first
\* numbers.
LEMMA InitialNumbers ==
  ASSUME NEW n \in Nat, NEW S \in SUBSET (0 .. n - 1),
         \A i \in S : \A j \in 0 .. i : j \in S
  PROVE  Cardinality(S) \in 0 .. n /\ S = 0 .. Cardinality(S) - 1
<1> DEFINE c == Cardinality(S)
<1>1. IsFiniteSet(S) /\ c <= n /\ c \in Nat
  <2>1. IsFiniteSet(0 .. n - 1) /\ Cardinality(0 .. n - 1) = n
    BY FirstNumbers
  <2>2. IsFiniteSet(S) /\ c <= Cardinality(0 .. n - 1)
    BY <2>1, FS_Subset
  <2>3. QED
    BY <2>1, <2>2, FS_CardinalityType
<1> HIDE DEF c
<1>2. S \subseteq 0 .. c - 1
  <2> SUFFICES ASSUME NEW i \in S PROVE i \in 0 .. c - 1
    OBVIOUS
  <2>1. i \in Nat /\ 0 .. i \in SUBSET S
    OBVIOUS
  <2>2. Cardinality(0 .. i) = i + 1
    <3>1. i + 1 \in Nat /\ 0 .. (i + 1) - 1 = 0 .. i
      BY <2>1
    <3>2. QED
      BY <3>1, FirstNumbers
  <2>3. Cardinality(0 .. i) <= c
    BY <1>1, <2>1, FS_Subset DEF c
  <2>4. QED
    BY <1>1, <2>1, <2>2, <2>3
<1>3. IsFiniteSet(0 .. c - 1) /\ Cardinality(0 .. c - 1) = c
  BY <1>1, FirstNumbers
<1>4. S = 0 .. c - 1
  BY <1>2, <1>3, FS_Subset DEF c
<1>5. QED
  BY <1>1, <1>4 DEF c

Ascending(list, n) ==
  /\ list \in [0 .. n - 1 -> Int]
  /\ \A i, j \in 0 .. n - 1 : i < j => list[i] <= list[j]

\* What the two searches find.  The first looks only from a position on.
LEMMA Bounds ==
  ASSUME NEW n \in Nat, NEW list, Ascending(list, n), NEW key \in Int
  PROVE  /\ \A from \in 0 .. n :
              /\ LowerBound(list, from, key) \in from .. n
              /\ \A i \in from .. n - 1 :
                   list[i] < key <=> i < LowerBound(list, from, key)
         /\ UpperBound(list, key) \in 0 .. n
         /\ \A i \in 0 .. n - 1 : list[i] <= key <=> i < UpperBound(list, key)
<1>1. /\ DOMAIN list = 0 .. n - 1 /\ \A i \in 0 .. n - 1 : list[i] \in Int
      /\ \A i, j \in 0 .. n - 1 : i <= j => list[i] <= list[j]
  BY DEF Ascending
<1> DEFINE L == {i \in 0 .. n - 1 : list[i] < key}
           U == {i \in 0 .. n - 1 : list[i] <= key}
<1>2. /\ \A from : LowerBound(list, from, key) =
           IF Cardinality(L) < from THEN from ELSE Cardinality(L)
      /\ UpperBound(list, key) = Cardinality(U)
  BY <1>1 DEF LowerBound, UpperBound
<1>3. Cardinality(L) \in 0 .. n /\ L = 0 .. Cardinality(L) - 1
  <2>1. L \in SUBSET (0 .. n - 1) /\ \A i \in L : \A j \in 0 .. i : j \in L
    BY <1>1
  <2> HIDE DEF L
  <2>2. QED
    BY <2>1, InitialNumbers
<1>4. Cardinality(U) \in 0 .. n /\ U = 0 .. Cardinality(U) - 1
  <2>1. U \in SUBSET (0 .. n - 1) /\ \A i \in U : \A j \in 0 .. i : j \in U
    BY <1>1
  <2> HIDE DEF U
  <2>2. QED
    BY <2>1, InitialNumbers
<1> DEFINE l == Cardinality(L)
           u == Cardinality(U)
<1> HIDE DEF l, u
<1>5. \A i \in 0 .. n - 1 : (list[i] < key <=> i < l) /\ (list[i] <= key <=> i < u)
  <2> SUFFICES ASSUME NEW i \in 0 .. n - 1
               PROVE  (list[i] < key <=> i < l) /\ (list[i] <= key <=> i < u)
    OBVIOUS
  <2>1. (list[i] < key <=> i \in L) /\ (list[i] <= key <=> i \in U)
    OBVIOUS
  <2>2. L = 0 .. l - 1 /\ U = 0 .. u - 1 /\ l \in Nat /\ u \in Nat
    BY <1>3, <1>4 DEF l, u
  <2> HIDE DEF L, U
  <2>3. QED
    BY <2>1, <2>2
<1>6. l \in 0 .. n /\ u \in 0 .. n
  BY <1>3, <1>4 DEF l, u
<1>7. ASSUME NEW from \in 0 .. n
      PROVE  /\ LowerBound(list, from, key) \in from .. n
             /\ \A i \in from .. n - 1 :
                  list[i] < key <=> i < LowerBound(list, from, key)
  <2>1. LowerBound(list, from, key) = IF l < from THEN from ELSE l
    BY <1>2 DEF l
  <2> HIDE DEF L, U
  <2>2. LowerBound(list, from, key) \in from .. n
    BY <1>6, <2>1
  <2>3. ASSUME NEW i \in from .. n - 1
        PROVE  list[i] < key <=> i < LowerBound(list, from, key)
    <3>1. i \in 0 .. n - 1
      OBVIOUS
    <3>2. list[i] < key <=> i < l
      BY <1>5, <3>1
    <3>3. i < l <=> i < LowerBound(list, from, key)
      BY <1>6, <2>1
    <3>4. QED
      BY <3>2, <3>3
  <2>4. QED
    BY <2>2, <2>3
<1>8. UpperBound(list, key) = u
  BY <1>2 DEF u
<1>9. QED
  <2> HIDE DEF L, U
  <2>1. \A i \in 0 .. n - 1 : list[i] <= key <=> i < UpperBound(list, key)
    BY <1>5, <1>8
  <2>2. QED
    BY <1>6, <1>7, <1>8, <2>1

-----------------------------------------------------------------------------
(* Who has a key *)

\* The partition as the master draws it, and the keys as the agent sorts them.
PartitionDrawn ==
  /\ part_vec_ \in [Servers -> 1 .. KeyRange - 2]
  /\ \A i, j \in Servers : i < j => part_vec_[i] <= part_vec_[j]

KeysSorted ==
  /\ Size \in Nat \ {0}
  /\ keys \in [0 .. Size - 1 -> Int]
  /\ \A i, j \in 0 .. Size - 1 : i < j => keys[i] <= keys[j]

\* The partition as facts about numbers.
LEMMA Entries ==
  ASSUME PartitionDrawn
  PROVE  /\ ServerNum \in Nat \ {0} /\ KeyRange \in Nat /\ KeyRange >= 3
         /\ 0 \in Servers /\ ServerNum - 1 \in Servers
         /\ Ascending(part_vec_, ServerNum)
         /\ \A s \in Servers : part_vec_[s] \in 1 .. KeyRange - 2
         /\ \A i, j \in Servers : i <= j => part_vec_[i] <= part_vec_[j]
<1>1. ServerNum \in Nat \ {0} /\ KeyRange \in Nat /\ KeyRange >= 3
  BY PartitionAssumption
<1>2. \A s \in Servers : part_vec_[s] \in 1 .. KeyRange - 2
  BY DEF PartitionDrawn
<1>3. part_vec_ \in [Servers -> Int]
  BY DEF PartitionDrawn
<1>4. QED
  BY <1>1, <1>2, <1>3 DEF PartitionDrawn, Servers, Ascending

\* GetServerByKey finds the last server whose entry is not above the key, and
\* the last of all for a key below the first entry.
LEMMA ServerOfKey ==
  ASSUME PartitionDrawn, NEW key \in Keys
  PROVE  /\ GetServerByKey(key) \in Servers
         /\ key < part_vec_[0] => GetServerByKey(key) = ServerNum - 1
         /\ key >= part_vec_[0] =>
              \A r \in Servers : part_vec_[r] <= key <=> r <= GetServerByKey(key)
<1>1. /\ ServerNum \in Nat \ {0} /\ key \in Int /\ 0 \in Servers
      /\ Ascending(part_vec_, ServerNum) /\ part_vec_[0] \in Int
      /\ ServerNum - 1 \in Servers
  BY Entries DEF Keys
<1>2. CASE key < part_vec_[0]
  BY <1>1, <1>2 DEF GetServerByKey
<1>3. CASE ~(key < part_vec_[0])
  <2> DEFINE u == UpperBound(part_vec_, key)
  <2>1. /\ u \in 0 .. ServerNum
        /\ \A r \in Servers : part_vec_[r] <= key <=> r < u
    BY <1>1, Bounds DEF Servers
  <2>2. GetServerByKey(key) = u - 1
    BY <1>3 DEF GetServerByKey
  <2> HIDE DEF u
  <2>3. part_vec_[0] <= key /\ 0 < u
    BY <1>1, <1>3, <2>1
  <2>4. QED
    BY <1>1, <1>3, <2>1, <2>2, <2>3 DEF Servers
<1>4. QED
  BY <1>2, <1>3

\* The length a server works out from its own entry and the next.
LEMMA SegmentLength ==
  ASSUME PartitionDrawn, ~Degenerate, NEW r \in Servers
  PROVE  ParameterLength(r) =
           IF r = ServerNum - 1 THEN part_vec_[0] - part_vec_[r] + KeyRange
                                ELSE part_vec_[r + 1] - part_vec_[r]
<1>1. /\ ServerNum \in Nat \ {0} /\ KeyRange \in Nat /\ KeyRange >= 3
      /\ 0 \in Servers /\ ServerNum - 1 \in Servers
      /\ \A s \in Servers : part_vec_[s] \in 1 .. KeyRange - 2
      /\ \A i, j \in Servers : i <= j => part_vec_[i] <= part_vec_[j]
  BY Entries
<1>2. CASE r = ServerNum - 1
  <2>1. PICK s \in Servers : part_vec_[s] # part_vec_[0]
    BY DEF Degenerate
  <2>2. s >= 0 /\ s <= ServerNum - 1
    BY <1>1 DEF Servers
  <2>3. part_vec_[0] <= part_vec_[s] /\ part_vec_[s] <= part_vec_[r]
    BY <1>1, <1>2, <2>2 DEF Servers
  <2>4. part_vec_[0] < part_vec_[r]
    BY <1>1, <2>1, <2>3
  <2>5. (r + 1) % ServerNum = 0
    <3>1. r + 1 = ServerNum
      BY <1>1, <1>2
    <3>2. QED
      BY <1>1, <3>1
  <2>6. /\ part_vec_[0] - part_vec_[r] + KeyRange \in 0 .. 2 * KeyRange - 1
        /\ part_vec_[0] - part_vec_[r] + KeyRange < KeyRange
    BY <1>1, <2>4
  <2>7. ParameterLength(r) = (part_vec_[0] - part_vec_[r] + KeyRange) % KeyRange
    BY <2>5 DEF ParameterLength
  <2>8. QED
    BY <1>1, <1>2, <2>6, <2>7, Remainder
<1>3. CASE r # ServerNum - 1
  <2>1. r + 1 \in Servers /\ r + 1 < ServerNum /\ r + 1 \in Nat
    BY <1>1, <1>3 DEF Servers
  <2>2. (r + 1) % ServerNum = r + 1
    BY <1>1, <2>1, Remainder
  <2>3. part_vec_[r] <= part_vec_[r + 1]
    BY <1>1, <2>1 DEF Servers
  <2>4. /\ part_vec_[r + 1] - part_vec_[r] + KeyRange \in 0 .. 2 * KeyRange - 1
        /\ ~(part_vec_[r + 1] - part_vec_[r] + KeyRange < KeyRange)
        /\ (part_vec_[r + 1] - part_vec_[r] + KeyRange) - KeyRange
              = part_vec_[r + 1] - part_vec_[r]
    BY <1>1, <2>1, <2>3
  <2>5. ParameterLength(r) = (part_vec_[r + 1] - part_vec_[r] + KeyRange) % KeyRange
    BY <2>2 DEF ParameterLength
  <2>6. QED
    BY <1>1, <1>3, <2>4, <2>5, Remainder
<1>4. QED
  BY <1>2, <1>3

\* Agent and servers agree: a key is in the segment of the server that
\* GetServerByKey names, and in no other.
LEMMA OwnerOfKey ==
  ASSUME PartitionDrawn, ~Degenerate, NEW key \in Keys, NEW r \in Servers
  PROVE  PullIndex(r, key) \in 0 .. ParameterLength(r) - 1 <=> r = GetServerByKey(key)
<1> DEFINE s == GetServerByKey(key)
<1>1. /\ ServerNum \in Nat \ {0} /\ KeyRange \in Nat /\ KeyRange >= 3
      /\ 0 \in Servers /\ ServerNum - 1 \in Servers
      /\ \A t \in Servers : part_vec_[t] \in 1 .. KeyRange - 2
      /\ \A i, j \in Servers : i <= j => part_vec_[i] <= part_vec_[j]
  BY Entries
<1>2. /\ s \in Servers
      /\ key < part_vec_[0] => s = ServerNum - 1
      /\ key >= part_vec_[0] => \A t \in Servers : part_vec_[t] <= key <=> t <= s
  BY ServerOfKey
<1>3. key \in 0 .. KeyRange - 1 /\ part_vec_[0] <= part_vec_[r]
  BY <1>1 DEF Keys, Servers
<1> HIDE DEF s
<1>4. CASE r = ServerNum - 1
  <2>1. ParameterLength(r) = part_vec_[0] - part_vec_[r] + KeyRange
    BY <1>4, SegmentLength
  <2>2. PullIndex(r, key) \in 0 .. ParameterLength(r) - 1
          <=> key < part_vec_[0] \/ key >= part_vec_[r]
    BY <1>1, <1>3, <2>1 DEF PullIndex
  <2>3. s <= ServerNum - 1 /\ s \in Int
    BY <1>1, <1>2 DEF Servers
  <2>4. key < part_vec_[0] \/ key >= part_vec_[r] <=> r = s
    BY <1>1, <1>2, <1>3, <1>4, <2>3
  <2>5. QED
    BY <2>2, <2>4 DEF s
<1>5. CASE r # ServerNum - 1
  <2>1. r + 1 \in Servers /\ r \in Int /\ s \in Int
    BY <1>1, <1>2, <1>5 DEF Servers
  <2>2. ParameterLength(r) = part_vec_[r + 1] - part_vec_[r]
    BY <1>5, SegmentLength
  <2>3. PullIndex(r, key) \in 0 .. ParameterLength(r) - 1
          <=> part_vec_[r] <= key /\ key < part_vec_[r + 1]
    BY <1>1, <1>3, <2>1, <2>2 DEF PullIndex
  <2>4. part_vec_[r] <= key /\ key < part_vec_[r + 1] <=> r = s
    BY <1>1, <1>2, <1>3, <1>5, <2>1
  <2>5. QED
    BY <2>3, <2>4 DEF s
<1>6. QED
  BY <1>4, <1>5

-----------------------------------------------------------------------------
(* The split *)

\* The keys as facts about numbers.
LEMMA SortedKeys ==
  ASSUME KeysSorted
  PROVE  /\ Size \in Nat \ {0} /\ Ascending(keys, Size)
         /\ \A i \in 0 .. Size - 1 : keys[i] \in Int
         /\ \A i, j \in 0 .. Size - 1 : i <= j => keys[i] <= keys[j]
<1> DEFINE n == Size
<1>1. /\ n \in Nat \ {0} /\ keys \in [0 .. n - 1 -> Int]
      /\ \A i, j \in 0 .. n - 1 : i < j => keys[i] <= keys[j]
  BY DEF KeysSorted
<1> HIDE DEF n
<1>2. \A i \in 0 .. n - 1 : keys[i] \in Int
  BY <1>1
<1>3. \A i, j \in 0 .. n - 1 : i <= j => keys[i] <= keys[j]
  BY <1>1, <1>2
<1>4. QED
  BY <1>1, <1>2, <1>3 DEF Ascending, n

\* NextEnding goes forward, unless the key is past the range: then it stays, and
\* there is no server.
LEMMA EndingForward ==
  ASSUME PartitionDrawn, KeysSorted, NEW from \in 0 .. Size - 1
  PROVE  /\ GetServerByKey(keys[from]) \in -1 .. ServerNum - 1
         /\ NextEnding(from) \in from .. Size
         /\ NextEnding(from) = from <=> keys[from] >= KeyRange
         /\ keys[from] >= KeyRange => GetServerByKey(keys[from]) = -1
<1> DEFINE n == Size
           key == keys[from]
           server == GetServerByKey(key)
           end == NextEnding(from)
           L(t) == LowerBound(keys, from, part_vec_[t])
<1>1. /\ ServerNum \in Nat \ {0} /\ KeyRange \in Nat /\ 0 \in Servers
      /\ ServerNum - 1 \in Servers
      /\ \A t \in Servers : part_vec_[t] \in Int /\ part_vec_[t] < KeyRange
      /\ 0 < part_vec_[0]
  BY Entries
<1>2. /\ n \in Nat \ {0} /\ Ascending(keys, n) /\ key \in Int /\ from \in 0 .. n - 1
      /\ from \in 0 .. n /\ from \in from .. n - 1
  BY SortedKeys
<1>3. \A t \in Servers : L(t) \in from .. n /\ (key < part_vec_[t] <=> from < L(t))
  BY <1>1, <1>2, Bounds
<1>4. /\ key < part_vec_[0] => end = L(0)
      /\ key >= part_vec_[0] /\ server = ServerNum - 1 => end = n
      /\ key >= part_vec_[0] /\ server # ServerNum - 1 => end = L(server + 1)
  BY <1>1, <1>2 DEF NextEnding
<1>5. key \notin Keys => server = -1
  BY DEF GetServerByKey
<1>6. /\ key \in Keys => server \in Servers
      /\ key \in Keys /\ key >= part_vec_[0] =>
           \A r \in Servers : part_vec_[r] <= key <=> r <= server
  BY ServerOfKey
<1> HIDE DEF n, key, server, end, L
<1>7. server \in -1 .. ServerNum - 1
  BY <1>1, <1>5, <1>6 DEF Servers
<1>8. CASE key < part_vec_[0]
  <2>1. end \in from .. n /\ from < end
    BY <1>1, <1>3, <1>4, <1>8
  <2>2. ~(key >= KeyRange)
    BY <1>1, <1>2, <1>8
  <2>3. QED
    BY <1>2, <1>7, <2>1, <2>2 DEF n, key, server, end
<1>9. CASE key >= part_vec_[0] /\ key < KeyRange
  <2>1. key \in Keys
    BY <1>1, <1>2, <1>9 DEF Keys
  <2>2. CASE server = ServerNum - 1
    <3>1. end = n /\ from < end
      BY <1>2, <1>4, <1>9, <2>2
    <3>2. QED
      BY <1>1, <1>2, <1>7, <1>9, <3>1 DEF n, key, server, end
  <2>3. CASE server # ServerNum - 1
    <3>1. server + 1 \in Servers /\ server \in Int
      BY <1>1, <1>6, <2>1, <2>3 DEF Servers
    <3>2. ~(part_vec_[server + 1] <= key)
      BY <1>6, <1>9, <2>1, <3>1
    <3>3. key < part_vec_[server + 1]
      BY <1>1, <1>2, <3>1, <3>2
    <3>4. end \in from .. n /\ from < end
      BY <1>3, <1>4, <1>9, <2>3, <3>1, <3>3
    <3>5. QED
      BY <1>1, <1>2, <1>7, <1>9, <3>4 DEF n, key, server, end
  <2>4. QED
    BY <2>2, <2>3
<1>10. CASE key >= KeyRange
  <2>1. key \notin Keys /\ key >= part_vec_[0]
    BY <1>1, <1>2, <1>10 DEF Keys
  <2>2. server = -1 /\ server # ServerNum - 1 /\ server + 1 = 0
    BY <1>1, <1>5, <2>1
  <2>3. end = L(0) /\ end \in from .. n /\ ~(from < end)
    BY <1>1, <1>2, <1>3, <1>4, <2>1, <2>2
  <2>4. end = from
    BY <1>2, <2>3
  <2>5. QED
    BY <1>7, <1>10, <2>2, <2>3, <2>4 DEF n, key, server, end
<1>11. QED
  BY <1>1, <1>2, <1>8, <1>9, <1>10

\* The keys up to NextEnding belong to the server of the first one; the keys from
\* there on belong to later servers, unless the run is the one of the keys below
\* the first entry.
LEMMA Ending ==
  ASSUME PartitionDrawn, KeysSorted, InRange, NEW from \in 0 .. Size - 1
  PROVE  /\ NextEnding(from) \in from + 1 .. Size
         /\ \A i \in from .. NextEnding(from) - 1 :
              GetServerByKey(keys[i]) = GetServerByKey(keys[from])
         /\ \A i \in NextEnding(from) .. Size - 1 :
              /\ keys[i] >= part_vec_[0]
              /\ \/ GetServerByKey(keys[from]) < GetServerByKey(keys[i])
                 \/ /\ keys[from] < part_vec_[0]
                    /\ GetServerByKey(keys[from]) = ServerNum - 1
<1> DEFINE S(i) == GetServerByKey(keys[i])
           end == NextEnding(from)
<1>1. /\ ServerNum \in Nat \ {0} /\ 0 \in Servers /\ ServerNum - 1 \in Servers
      /\ \A t \in Servers : part_vec_[t] \in Int
      /\ \A i, j \in Servers : i <= j => part_vec_[i] <= part_vec_[j]
  BY Entries
<1>2. /\ Size \in Nat /\ Ascending(keys, Size)
      /\ \A i \in 0 .. Size - 1 : keys[i] \in Keys /\ keys[i] \in Int
      /\ \A i, j \in 0 .. Size - 1 : i <= j => keys[i] <= keys[j]
  <2>1. DOMAIN keys = 0 .. Size - 1
    BY DEF KeysSorted
  <2>2. QED
    BY <2>1, SortedKeys DEF InRange
<1>3. ASSUME NEW i \in 0 .. Size - 1
      PROVE  /\ S(i) \in Servers
             /\ keys[i] < part_vec_[0] => S(i) = ServerNum - 1
             /\ keys[i] >= part_vec_[0] =>
                  \A r \in Servers : part_vec_[r] <= keys[i] <=> r <= S(i)
  BY <1>2, ServerOfKey
<1>4. \A t \in Servers :
        /\ LowerBound(keys, from, part_vec_[t]) \in from .. Size
        /\ \A i \in from .. Size - 1 :
             keys[i] < part_vec_[t] <=> i < LowerBound(keys, from, part_vec_[t])
  <2>1. from \in 0 .. Size
    BY <1>2
  <2>2. QED
    BY <1>1, <1>2, <2>1, Bounds
<1>5. /\ keys[from] < part_vec_[0] => end = LowerBound(keys, from, part_vec_[0])
      /\ keys[from] >= part_vec_[0] /\ S(from) = ServerNum - 1 => end = Size
      /\ keys[from] >= part_vec_[0] /\ S(from) # ServerNum - 1 =>
           end = LowerBound(keys, from, part_vec_[S(from) + 1])
  <2>1. keys[from] \in Int /\ part_vec_[0] \in Int
    BY <1>1, <1>2
  <2>2. QED
    BY <2>1 DEF NextEnding
<1> DEFINE n == Size
<1> HIDE DEF S, end, n
<1>6. from \in 0 .. n - 1 /\ n \in Nat
  BY <1>2 DEF n
<1>7. end \in from + 1 .. n /\ (\A i \in from .. end - 1 : S(i) = S(from))
      /\ \A i \in end .. n - 1 :
           /\ keys[i] >= part_vec_[0]
           /\ \/ S(from) < S(i)
              \/ keys[from] < part_vec_[0] /\ S(from) = ServerNum - 1
  <2>1. CASE keys[from] < part_vec_[0]
    <3>1. /\ end \in from .. n
          /\ \A i \in from .. n - 1 : keys[i] < part_vec_[0] <=> i < end
      BY <1>1, <1>4, <1>5, <2>1 DEF n
    <3>2. from < end /\ S(from) = ServerNum - 1
      BY <1>3, <1>6, <2>1, <3>1 DEF n
    <3>3. \A i \in from .. end - 1 : i \in 0 .. n - 1 /\ keys[i] < part_vec_[0]
      BY <1>6, <3>1
    <3>4. \A i \in end .. n - 1 : keys[i] >= part_vec_[0]
      <4>1. ASSUME NEW i \in end .. n - 1 PROVE keys[i] >= part_vec_[0]
        <5>1. i \in 0 .. n - 1 /\ i \in from .. n - 1 /\ ~(i < end)
          BY <1>6, <3>1
        <5>2. keys[i] \in Int /\ part_vec_[0] \in Int
          BY <1>1, <1>2, <5>1 DEF n
        <5>3. QED
          BY <3>1, <5>1, <5>2
      <4>2. QED
        BY <4>1
    <3>5. \A i \in from .. end - 1 : S(i) = S(from)
      BY <1>3, <3>2, <3>3 DEF n
    <3>6. QED
      BY <1>6, <2>1, <3>1, <3>2, <3>4, <3>5
  <2>2. CASE keys[from] >= part_vec_[0] /\ S(from) = ServerNum - 1
    <3>1. end = n
      BY <1>5, <2>2 DEF n
    <3>2. ASSUME NEW i \in from .. n - 1 PROVE S(i) = S(from)
      <4>1. i \in 0 .. n - 1 /\ keys[from] <= keys[i]
        BY <1>2, <1>6 DEF n
      <4>2. part_vec_[ServerNum - 1] <= keys[from]
        BY <1>1, <1>3, <2>2
      <4>3. /\ keys[i] \in Int /\ keys[from] \in Int /\ part_vec_[0] \in Int
            /\ part_vec_[ServerNum - 1] \in Int
        BY <1>1, <1>2, <4>1 DEF n
      <4>4. keys[i] >= part_vec_[0] /\ part_vec_[ServerNum - 1] <= keys[i]
        BY <2>2, <4>1, <4>2, <4>3
      <4>5. ServerNum - 1 <= S(i) /\ S(i) \in Servers
        BY <1>1, <1>3, <4>1, <4>4 DEF n
      <4>6. QED
        BY <1>1, <2>2, <4>5 DEF Servers
    <3>3. QED
      BY <1>6, <3>1, <3>2
  <2>3. CASE keys[from] >= part_vec_[0] /\ S(from) # ServerNum - 1
    <3> DEFINE s == S(from)
    <3>1. s \in Servers /\ s + 1 \in Servers /\ s \in Int
      BY <1>1, <1>3, <2>3 DEF Servers
    <3>2. /\ end \in from .. n
          /\ \A i \in from .. n - 1 : keys[i] < part_vec_[s + 1] <=> i < end
      BY <1>4, <1>5, <2>3, <3>1 DEF n
    <3>3. part_vec_[0] \in Int /\ part_vec_[s] \in Int /\ part_vec_[s + 1] \in Int
          /\ part_vec_[0] <= part_vec_[s + 1]
      BY <1>1, <3>1 DEF Servers
    <3>4. part_vec_[s] <= keys[from] /\ ~(part_vec_[s + 1] <= keys[from])
      BY <1>3, <2>3, <3>1
    <3>5. from < end
      BY <1>2, <1>6, <3>2, <3>3, <3>4 DEF n
    <3> HIDE DEF s
    <3>6. ASSUME NEW i \in from .. end - 1 PROVE S(i) = s
      <4>1. i \in 0 .. n - 1 /\ keys[from] <= keys[i] /\ i < end
        BY <1>2, <1>6, <3>2 DEF n
      <4>2. keys[i] \in Int /\ keys[from] \in Int /\ keys[i] < part_vec_[s + 1]
        BY <1>2, <1>6, <3>2, <4>1 DEF n
      <4>3. /\ keys[i] >= part_vec_[0] /\ part_vec_[s] <= keys[i]
            /\ ~(part_vec_[s + 1] <= keys[i])
        BY <2>3, <3>3, <3>4, <4>1, <4>2
      <4>4. s <= S(i) /\ ~(s + 1 <= S(i)) /\ S(i) \in Servers
        BY <1>3, <3>1, <4>1, <4>3 DEF n
      <4>5. QED
        BY <3>1, <4>4 DEF Servers
    <3>7. ASSUME NEW i \in end .. n - 1 PROVE keys[i] >= part_vec_[0] /\ s < S(i)
      <4>1. i \in 0 .. n - 1 /\ i \in from .. n - 1 /\ ~(i < end)
        BY <1>6, <3>2
      <4>2. keys[i] \in Int /\ ~(keys[i] < part_vec_[s + 1])
        BY <1>2, <3>2, <4>1 DEF n
      <4>3. keys[i] >= part_vec_[0] /\ part_vec_[s + 1] <= keys[i]
        BY <3>3, <4>2
      <4>4. s + 1 <= S(i) /\ S(i) \in Servers
        BY <1>3, <3>1, <4>1, <4>3 DEF n
      <4>5. QED
        BY <3>1, <4>3, <4>4 DEF Servers
    <3>8. QED
      BY <1>6, <3>2, <3>5, <3>6, <3>7 DEF s
  <2>4. keys[from] \in Int /\ part_vec_[0] \in Int
    BY <1>1, <1>2
  <2>5. QED
    BY <2>1, <2>2, <2>3, <2>4
<1>8. QED
  BY <1>7 DEF S, end, n

\* A message of the split.
Run == [server : -1 .. ServerNum - 1, start : 0 .. Size, end : 0 .. Size]

\* Every key of a message belongs to the server the message goes to.
RunsUniform ==
  \A i \in 1 .. Len(sent) : \A k \in sent[i].start .. sent[i].end - 1 :
    GetServerByKey(keys[k]) = sent[i].server

\* The keys still to be sent belong to later servers than those written to, the
\* last server excepted when the keys below the first entry went to it; and none
\* of them is below the first entry once a message is sent.
RestIsLater ==
  \A i \in 1 .. Len(sent) : \A k \in start .. Size - 1 :
    /\ keys[k] >= part_vec_[0]
    /\ \/ sent[i].server < GetServerByKey(keys[k])
       \/ i = 1 /\ sent[1].server = ServerNum - 1 /\ keys[0] < part_vec_[0]

PartitionInv ==
  /\ PartitionDrawn
  /\ KeysSorted
  /\ sent \in Seq(Run)
  /\ SplitIsExact
  /\ InRange => RunsUniform /\ RestIsLater
  /\ ChunkShape

\* The request of Push and Pull as the loop finds it.
LEMMA InitInv == Init => PartitionInv
<1> SUFFICES ASSUME Init PROVE PartitionInv
  OBVIOUS
<1>1. PartitionDrawn
  BY DEF Init, PartitionDrawn
<1>2. KeysSorted
  <2>1. PICK size \in 1 .. MaxKeys :
          /\ keys \in [0 .. size - 1 -> AnyKeys]
          /\ \A i, j \in 0 .. size - 1 : i < j => keys[i] <= keys[j]
    BY DEF Init
  <2>2. size \in Nat \ {0} /\ AnyKeys \subseteq Int /\ DOMAIN keys = 0 .. size - 1
    BY <2>1, PartitionAssumption DEF AnyKeys
  <2>3. Size = size
    BY <2>2, FirstNumbers DEF Size
  <2>4. QED
    BY <2>1, <2>2, <2>3 DEF KeysSorted
<1>3. start = 0 /\ sent = <<>> /\ Len(sent) = 0 /\ sent \in Seq(Run)
  BY DEF Init
<1>4. SplitIsExact
  BY <1>2, <1>3 DEF KeysSorted, SplitIsExact
<1>5. RunsUniform /\ RestIsLater /\ ChunkShape
  BY <1>3 DEF RunsUniform, RestIsLater, ChunkShape
<1>6. QED
  BY <1>1, <1>2, <1>3, <1>4, <1>5 DEF PartitionInv

\* The loop stays at a key past the range.
Stuck == start < Size /\ keys[start] >= KeyRange

\* One turn of the loop, and the messages it has sent after it.
LEMMA SendRunExact ==
  ASSUME PartitionDrawn, KeysSorted, sent \in Seq(Run), SplitIsExact, SendRun
  PROVE  /\ PartitionDrawn' /\ KeysSorted' /\ (sent \in Seq(Run))' /\ SplitIsExact'
         /\ ~Stuck =>
              /\ sent' = Append(sent, [server |-> GetServerByKey(keys[start]),
                                      start |-> start, end |-> NextEnding(start)])
              /\ \A i \in 1 .. Len(sent) : sent[i].start < sent[i].end
<1> DEFINE n == Size
           server == GetServerByKey(keys[start])
           end == NextEnding(start)
           m == [server |-> server, start |-> start, end |-> end]
           new == Append(sent, m)
           last == Len(sent) + 1
<1>1. start \in 0 .. n - 1 /\ n \in Nat \ {0}
  BY DEF SendRun, SplitIsExact, KeysSorted
<1>2. /\ sent' = IF sent # <<>> /\ sent[Len(sent)] = m THEN sent ELSE new
      /\ start' = end /\ part_vec_' = part_vec_ /\ keys' = keys /\ Size' = n
  BY DEF SendRun, Size
<1>3. /\ server \in -1 .. ServerNum - 1 /\ end \in start .. n
      /\ end = start <=> Stuck
      /\ Stuck => server = -1
  BY <1>1, EndingForward DEF Stuck, SendRun
<1> HIDE DEF n, server, end
<1>4. /\ new \in Seq(Run) /\ Len(new) = last /\ new[last] = m /\ last \in Nat \ {0}
      /\ Len(sent) \in Nat /\ new # <<>>
      /\ \A i \in 1 .. Len(sent) : new[i] = sent[i]
  <2>1. m \in Run
    BY <1>1, <1>3 DEF Run, n
  <2> HIDE DEF m
  <2>2. QED
    BY <2>1, AppendProperties, LenProperties
<1>5. m.server = server /\ m.start = start /\ m.end = end
  OBVIOUS
<1>6. Stuck => m = [server |-> -1, start |-> start, end |-> start]
  BY <1>3
<1> HIDE DEF m, new
<1>7. /\ sent = <<>> => last = 1 /\ start = 0
      /\ sent # <<>> => Len(sent) \in 1 .. Len(sent) /\ last # 1 /\ start = sent[Len(sent)].end
  <2>1. sent # <<>> => Len(sent) # 0
    BY EmptySeq
  <2>2. QED
    BY <1>4, <2>1 DEF SplitIsExact
<1>8. /\ PartitionDrawn' /\ KeysSorted' /\ Run' = Run
  BY <1>2 DEF PartitionDrawn, KeysSorted, Run, n
<1>9. ASSUME NEW i \in 1 .. Len(sent)
      PROVE  /\ sent[i].start = IF i = 1 THEN 0 ELSE sent[i - 1].end
             /\ \/ sent[i].start < sent[i].end
                \/ /\ i = Len(sent) /\ Stuck
                   /\ sent[i] = [server |-> -1, start |-> start, end |-> start]
  BY DEF SplitIsExact, Stuck
<1>10. CASE sent # <<>> /\ sent[Len(sent)] = m
  <2>1. sent' = sent
    BY <1>2, <1>10
  <2>2. m.start = m.end /\ Stuck
    <3>1. m.end = m.start
      BY <1>5, <1>7, <1>10
    <3>2. QED
      BY <1>3, <1>5, <3>1
  <2>3. start' = start
    BY <1>2, <1>5, <2>2
  <2>4. SplitIsExact'
    BY <1>2, <2>1, <2>3 DEF SplitIsExact, n
  <2>5. QED
    BY <1>8, <2>1, <2>2, <2>4
<1>11. CASE ~(sent # <<>> /\ sent[Len(sent)] = m)
  <2>1. sent' = new
    BY <1>2, <1>11
  <2>2. ASSUME NEW i \in 1 .. Len(sent) PROVE sent[i].start < sent[i].end
    <3>1. ~(/\ i = Len(sent) /\ Stuck
            /\ sent[i] = [server |-> -1, start |-> start, end |-> start])
      <4>1. sent # <<>>
        BY <1>4
      <4>2. QED
        BY <1>6, <1>11, <4>1
    <3>2. QED
      BY <1>9, <3>1
  <2>3. start' \in 0 .. Size'
    BY <1>1, <1>2, <1>3
  <2>4. ASSUME NEW i \in 1 .. last
        PROVE  /\ new[i].start = IF i = 1 THEN 0 ELSE new[i - 1].end
               /\ \/ new[i].start < new[i].end
                  \/ /\ i = last
                     /\ new[i] = [server |-> -1, start |-> end, end |-> end]
                     /\ end < n /\ keys[end] >= KeyRange
    <3>1. CASE i \in 1 .. Len(sent)
      <4>1. i # 1 => i - 1 \in 1 .. Len(sent)
        BY <1>4, <3>1
      <4>2. QED
        BY <1>4, <1>9, <2>2, <3>1, <4>1
    <3>2. CASE i = last
      <4>1. start < end \/ (Stuck /\ end = start)
        BY <1>1, <1>3
      <4>2. start = IF i = 1 THEN 0 ELSE new[i - 1].end
        <5>1. CASE sent = <<>>
          BY <1>7, <3>2, <5>1
        <5>2. CASE sent # <<>>
          BY <1>4, <1>7, <3>2, <5>2
        <5>3. QED
          BY <5>1, <5>2
      <4>3. QED
        BY <1>4, <1>5, <1>6, <3>2, <4>1, <4>2 DEF Stuck, n
    <3>3. QED
      BY <1>4, <3>1, <3>2
  <2>5. SplitIsExact'
    <3>1. start' = IF sent' = <<>> THEN 0 ELSE sent'[Len(sent')].end
      BY <1>2, <1>4, <1>5, <2>1
    <3>2. QED
      BY <1>2, <1>4, <2>1, <2>3, <2>4, <3>1 DEF SplitIsExact, n
  <2>6. sent' = Append(sent, [server |-> GetServerByKey(keys[start]),
                              start |-> start, end |-> NextEnding(start)])
    BY <2>1 DEF new, m, server, end
  <2>7. (sent \in Seq(Run))'
    BY <1>4, <1>8, <2>1
  <2>8. QED
    BY <1>8, <2>2, <2>5, <2>6, <2>7
<1>12. QED
  BY <1>10, <1>11

\* One turn of the loop with a list in the range: the message is for one server.
LEMMA SendRunShape ==
  ASSUME PartitionInv, SendRun, InRange
  PROVE  (RunsUniform /\ RestIsLater /\ ChunkShape)'
<1> DEFINE n == Size
           S(k) == GetServerByKey(keys[k])
           end == NextEnding(start)
           m == [server |-> S(start), start |-> start, end |-> end]
           new == Append(sent, m)
           last == Len(sent) + 1
<1>1. /\ PartitionDrawn /\ KeysSorted /\ sent \in Seq(Run) /\ SplitIsExact
      /\ RunsUniform /\ RestIsLater /\ ChunkShape
  BY DEF PartitionInv
<1>2. start \in 0 .. n - 1 /\ n \in Nat \ {0}
  BY <1>1 DEF SendRun, SplitIsExact, KeysSorted
<1>3. /\ sent' = new /\ start' = end /\ part_vec_' = part_vec_ /\ keys' = keys
      /\ Size' = n
  <2>1. keys[start] \in Keys /\ KeyRange \in Nat
    BY <1>1, <1>2, PartitionAssumption DEF InRange, KeysSorted
  <2>2. ~Stuck
    BY <2>1 DEF Stuck, Keys
  <2>3. sent' = new
    BY <1>1, <2>2, SendRunExact
  <2>4. QED
    BY <2>3 DEF SendRun, Size
<1>4. /\ end \in start + 1 .. n
      /\ \A k \in start .. end - 1 : S(k) = S(start)
      /\ \A k \in end .. n - 1 :
           /\ keys[k] >= part_vec_[0]
           /\ \/ S(start) < S(k)
              \/ keys[start] < part_vec_[0] /\ S(start) = ServerNum - 1
  BY <1>1, <1>2, Ending
<1>5. /\ S(start) \in Servers /\ part_vec_[0] \in Int
      /\ \A k \in 0 .. n - 1 : keys[k] \in Int
  <2>1. \A k \in 0 .. n - 1 : keys[k] \in Keys
    BY <1>1 DEF KeysSorted, InRange
  <2>2. \A k \in 0 .. n - 1 : keys[k] \in Int
    BY <2>1 DEF Keys
  <2>3. QED
    BY <1>1, <1>2, <2>1, <2>2, ServerOfKey, Entries
<1>6. \A k : (S(k))' = S(k)
  BY <1>3 DEF GetServerByKey, UpperBound
<1> HIDE DEF n, S, end
<1>7. m \in [server : -1 .. ServerNum - 1, start : 0 .. n, end : 0 .. n]
  BY <1>2, <1>4, <1>5 DEF Servers
<1>8. /\ new \in Seq(Run) /\ Len(new) = last /\ new[last] = m /\ last \in Nat \ {0}
      /\ Len(sent) \in Nat /\ new # <<>>
      /\ \A i \in 1 .. Len(sent) : new[i] = sent[i]
  <2>1. m \in Run
    BY <1>7 DEF Run, n
  <2> HIDE DEF m
  <2>2. QED
    BY <1>1, <2>1, AppendProperties, LenProperties
<1>9. m.server = S(start) /\ m.start = start /\ m.end = end
  OBVIOUS
<1> HIDE DEF m, new
<1>11. /\ sent = <<>> => last = 1 /\ start = 0
       /\ sent # <<>> => 1 \in 1 .. Len(sent)
  <2>1. sent # <<>> => Len(sent) # 0
    BY <1>1, EmptySeq
  <2>2. QED
    BY <1>1, <1>8, <2>1 DEF SplitIsExact
<1>15. RunsUniform'
  <2>1. ASSUME NEW i \in 1 .. last, NEW k \in new[i].start .. new[i].end - 1
        PROVE  S(k) = new[i].server
    <3>1. CASE i \in 1 .. Len(sent)
      BY <1>1, <1>8, <3>1 DEF RunsUniform, S
    <3>2. CASE i = last
      BY <1>4, <1>8, <1>9, <3>2
    <3>3. QED
      BY <1>8, <3>1, <3>2
  <2>2. QED
    BY <1>3, <1>6, <1>8, <2>1 DEF RunsUniform, S
<1>16. sent # <<>> => keys[start] >= part_vec_[0]
  <2>1. start \in start .. n - 1
    BY <1>2
  <2>2. QED
    BY <1>1, <1>11, <2>1 DEF RestIsLater, n
<1>17. RestIsLater'
  <2>1. ASSUME NEW i \in 1 .. last, NEW k \in end .. n - 1
        PROVE  /\ keys[k] >= part_vec_[0]
               /\ \/ new[i].server < S(k)
                  \/ i = 1 /\ new[1].server = ServerNum - 1 /\ keys[0] < part_vec_[0]
    <3>1. CASE i \in 1 .. Len(sent)
      <4>1. k \in start .. n - 1
        BY <1>2, <1>4
      <4>2. /\ keys[k] >= part_vec_[0]
            /\ \/ sent[i].server < S(k)
               \/ i = 1 /\ sent[1].server = ServerNum - 1 /\ keys[0] < part_vec_[0]
        BY <1>1, <3>1, <4>1 DEF RestIsLater, S, n
      <4>3. QED
        BY <1>8, <3>1, <4>2
    <3>2. CASE i = last
      <4>1. CASE S(start) < S(k)
        BY <1>4, <1>8, <1>9, <3>2, <4>1
      <4>2. CASE keys[start] < part_vec_[0] /\ S(start) = ServerNum - 1
        <5>1. sent = <<>>
          BY <1>2, <1>5, <1>16, <4>2
        <5>2. QED
          BY <1>4, <1>8, <1>9, <1>11, <3>2, <4>2, <5>1
      <4>3. QED
        BY <1>4, <4>1, <4>2
    <3>3. QED
      BY <1>8, <3>1, <3>2
  <2>2. QED
    BY <1>3, <1>6, <1>8, <2>1 DEF RestIsLater, S
<1>18. ChunkShape'
  <2>1. ASSUME NEW i \in 1 .. last, NEW j \in 1 .. last, i < j
        PROVE  \/ new[i].server < new[j].server
               \/ i = 1 /\ new[1].server = ServerNum - 1 /\ keys[0] < part_vec_[0]
    <3>1. i \in 1 .. Len(sent) /\ new[i] = sent[i]
      BY <1>8, <2>1
    <3>2. CASE j \in 1 .. Len(sent)
      BY <1>1, <1>8, <2>1, <3>1, <3>2 DEF ChunkShape
    <3>3. CASE j = last
      <4>1. start \in start .. n - 1
        BY <1>2
      <4>2. \/ sent[i].server < S(start)
            \/ i = 1 /\ sent[1].server = ServerNum - 1 /\ keys[0] < part_vec_[0]
        BY <1>1, <3>1, <4>1 DEF RestIsLater, S, n
      <4>3. QED
        BY <1>8, <1>9, <3>1, <3>3, <4>2
    <3>4. QED
      BY <1>8, <3>2, <3>3
  <2>2. QED
    BY <1>3, <1>8, <2>1 DEF ChunkShape
<1>19. QED
  BY <1>15, <1>17, <1>18

\* One turn of the loop.
LEMMA SendRunInv == PartitionInv /\ SendRun => PartitionInv'
<1> SUFFICES ASSUME PartitionInv, SendRun PROVE PartitionInv'
  OBVIOUS
<1>1. PartitionDrawn' /\ KeysSorted' /\ (sent \in Seq(Run))' /\ SplitIsExact'
  BY SendRunExact DEF PartitionInv
<1>2. InRange' = InRange
  BY DEF SendRun, InRange
<1>3. InRange => (RunsUniform /\ RestIsLater /\ ChunkShape)'
  BY SendRunShape
<1>4. QED
  BY <1>1, <1>2, <1>3 DEF PartitionInv, ChunkShape

\* The loop of Push and Pull keeps the invariant for every partition and every
\* ascending list of keys, in the range or not.
THEOREM PartitionInvariance == Spec => []PartitionInv
<1>1. PartitionInv /\ UNCHANGED vars => PartitionInv'
  <2> SUFFICES ASSUME PartitionInv, UNCHANGED vars PROVE PartitionInv'
    OBVIOUS
  <2>1. part_vec_' = part_vec_ /\ keys' = keys /\ start' = start /\ sent' = sent
    BY DEF vars
  <2>2. Size' = Size /\ Run' = Run
    BY <2>1 DEF Size, Run
  <2>3. \A k : GetServerByKey(keys[k])' = GetServerByKey(keys[k])
    BY <2>1 DEF GetServerByKey, UpperBound
  <2>4. PartitionDrawn' /\ KeysSorted' /\ (sent \in Seq(Run))'
    BY <2>1, <2>2 DEF PartitionInv, PartitionDrawn, KeysSorted
  <2>5. SplitIsExact' /\ ChunkShape' /\ InRange' = InRange
    BY <2>1, <2>2 DEF PartitionInv, SplitIsExact, ChunkShape, InRange
  <2>6. InRange => RunsUniform' /\ RestIsLater'
    BY <2>1, <2>2, <2>3 DEF PartitionInv, RunsUniform, RestIsLater
  <2>7. QED
    BY <2>4, <2>5, <2>6 DEF PartitionInv
<1>2. PartitionInv /\ [Next]_vars => PartitionInv'
  BY <1>1, SendRunInv DEF Next, Done
<1>3. QED
  BY <1>2, InitInv, PTL DEF Spec

\* The messages of a request cover its keys exactly once, in order, for every
\* ascending list; an empty one is sent only at a key past the range, where the
\* loop stays (partition.cc:49 and 63).
THEOREM SplitExact == Spec => []SplitIsExact
<1>1. PartitionInv => SplitIsExact
  BY DEF PartitionInv
<1>2. QED
  BY <1>1, PartitionInvariance, PTL

\* No server but the last gets two messages of one request, and the last only
\* when some keys are below the first entry.
THEOREM ChunksShaped == Spec => []ChunkShape
<1>1. PartitionInv => ChunkShape
  BY DEF PartitionInv
<1>2. QED
  BY <1>1, PartitionInvariance, PTL

\* The agent sends a key to the server that has it, as the server counts.
THEOREM KeysRouted == Spec => []RoutedToOwner
<1>1. PartitionInv => RoutedToOwner
  <2> SUFFICES ASSUME PartitionInv, InRange, ~Degenerate,
                      NEW m \in Sent, NEW key \in KeysOf(m)
               PROVE  PullIndex(m.server, key) \in 0 .. ParameterLength(m.server) - 1
    BY DEF RoutedToOwner
  <2>1. PartitionDrawn /\ KeysSorted /\ sent \in Seq(Run) /\ RunsUniform
    BY DEF PartitionInv
  <2>2. PICK i \in 1 .. Len(sent) : m = sent[i]
    BY DEF Sent
  <2>3. PICK k \in m.start .. m.end - 1 : key = keys[k]
    BY DEF KeysOf
  <2>4. m \in Run
    BY <2>1, <2>2, ElementOfSeq
  <2>5. k \in 0 .. Size - 1
    <3>1. m.start \in 0 .. Size /\ m.end \in 0 .. Size
      BY <2>4 DEF Run
    <3>2. QED
      BY <2>1, <3>1 DEF KeysSorted
  <2>6. key \in Keys /\ GetServerByKey(key) = m.server
    BY <2>1, <2>2, <2>3, <2>5 DEF KeysSorted, RunsUniform, InRange
  <2>7. m.server \in Servers
    BY <2>1, <2>6, ServerOfKey
  <2>8. QED
    BY <2>1, <2>6, <2>7, OwnerOfKey
<1>2. QED
  BY <1>1, PartitionInvariance, PTL

\* Every key has exactly one server that keeps it.
THEOREM SegmentsPartition == Spec => []SegmentsDisjoint
<1>1. PartitionInv => SegmentsDisjoint
  <2> SUFFICES ASSUME PartitionInv, ~Degenerate, NEW key \in Keys
               PROVE  \E s \in Servers :
                        {r \in Servers : PullIndex(r, key) \in 0 .. ParameterLength(r) - 1}
                          = {s}
    BY DEF SegmentsDisjoint
  <2>1. PartitionDrawn
    BY DEF PartitionInv
  <2>2. GetServerByKey(key) \in Servers
    BY <2>1, ServerOfKey
  <2>3. {r \in Servers : PullIndex(r, key) \in 0 .. ParameterLength(r) - 1}
          = {GetServerByKey(key)}
    BY <2>1, <2>2, OwnerOfKey
  <2>4. QED
    BY <2>2, <2>3
<1>2. QED
  BY <1>1, PartitionInvariance, PTL

=============================================================================
