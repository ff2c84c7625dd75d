-------------------------- MODULE ManagementProofs -------------------------
(***************************************************************************)
(* Proofs about the two stores that a management agent is asked about.      *)
(* SnmpTable, for any columns and any set of rows, infinite ones included:  *)
(* statuses and rows agree while notifications are on, and a walk by        *)
(* GetNext misses nothing.  Element, for any element map: the list and the  *)
(* multimap of a node tell the same tree, and what is loaded is stored      *)
(* again.                                                                   *)
(***************************************************************************)
EXTENDS SnmpTable, Element, SequenceTheorems, FiniteSetTheorems, TLAPS

\* The numbers below all of T would be mapped by the successor, without two being
\* mapped to one, into themselves without 0, if T had no least element.
LEMMA SmallestOf ==
  ASSUME NEW T, T \subseteq Nat, T # {}
  PROVE  \E k \in T : \A j \in T : k <= j
<1> SUFFICES ASSUME \A k \in T : \E j \in T : j < k PROVE FALSE
  OBVIOUS
<1> DEFINE Below == {n \in Nat : \A k \in T : n < k}
           next == [n \in Below |-> n + 1]
<1>1. PICK t \in T : t \in Nat
  OBVIOUS
<1>2. IsFiniteSet(Below)
  <2>1. Below \in SUBSET (0 .. t) /\ 0 \in Int /\ t \in Int
    BY <1>1
  <2>2. IsFiniteSet(0 .. t)
    BY <2>1, FS_Interval
  <2> HIDE DEF Below
  <2> QED
    BY <2>1, <2>2, FS_Subset
<1>3. 0 \in Below
  <2>1. 0 \notin T
    OBVIOUS
  <2> QED
    BY <2>1
<1>4. next \in [Below -> Below \ {0}]
  <2> SUFFICES ASSUME NEW n \in Below, NEW k \in T PROVE n + 1 < k
    OBVIOUS
  <2>1. PICK j \in T : j < k
    OBVIOUS
  <2> QED
    BY <2>1
<1>5. IsFiniteSet(Below \ {0}) /\ Cardinality(Below \ {0}) < Cardinality(Below)
  <2> HIDE DEF Below
  <2>1. Cardinality(Below) \in Nat
    BY <1>2, FS_CardinalityType
  <2>2. Cardinality(Below \ {0}) = Cardinality(Below) - 1 /\ IsFiniteSet(Below \ {0})
    BY <1>2, <1>3, FS_RemoveElement
  <2> QED
    BY <2>1, <2>2
<1>6. \E x, y \in Below : x # y /\ next[x] = next[y]
  <2> HIDE DEF Below, next
  <2> QED
    BY <1>2, <1>4, <1>5, FS_PigeonHole
<1> QED
  BY <1>6

-----------------------------------------------------------------------------
Oids == Seq(Nat)

-----------------------------------------------------------------------------
\* Less is the lexicographic order, a strict total order.

LEMMA LessIrreflexive == \A a \in Oids : ~Less(a, a)
<1> SUFFICES ASSUME NEW a \in Oids, NEW k \in 1 .. Len(a),
                    k <= Len(a) => a[k] < a[k]
             PROVE  FALSE
  BY DEF Less
<1>1. k <= Len(a) /\ a[k] \in Nat
  BY LenProperties, ElementOfSeq DEF Oids
<1> QED
  BY <1>1

LEMMA LessTransitive ==
  ASSUME NEW a \in Oids, NEW b \in Oids, NEW c \in Oids, Less(a, b), Less(b, c)
  PROVE  Less(a, c)
<1>1. Len(a) \in Nat /\ Len(b) \in Nat /\ Len(c) \in Nat
  BY LenProperties DEF Oids
<1>2. /\ \A i \in 1 .. Len(a) : a[i] \in Nat
      /\ \A i \in 1 .. Len(b) : b[i] \in Nat
      /\ \A i \in 1 .. Len(c) : c[i] \in Nat
  BY ElementOfSeq DEF Oids
<1>3. PICK k \in 1 .. Len(b) : /\ k <= Len(a) + 1
                               /\ \A j \in 1 .. k - 1 : a[j] = b[j]
                               /\ k <= Len(a) => a[k] < b[k]
  BY DEF Less
<1>4. PICK l \in 1 .. Len(c) : /\ l <= Len(b) + 1
                               /\ \A j \in 1 .. l - 1 : b[j] = c[j]
                               /\ l <= Len(b) => b[l] < c[l]
  BY DEF Less
<1>5. CASE k <= l
  <2>1. k \in 1 .. Len(c) /\ \A j \in 1 .. k - 1 : a[j] = c[j]
    BY <1>1, <1>3, <1>4, <1>5
  <2>2. k <= Len(a) => a[k] < c[k]
    <3>1. CASE k = l
      BY <1>1, <1>2, <1>3, <1>4, <3>1
    <3>2. CASE k < l
      BY <1>1, <1>2, <1>3, <1>4, <3>2
    <3> QED
      BY <1>5, <3>1, <3>2
  <2> QED
    BY <1>3, <2>1, <2>2 DEF Less
<1>6. CASE l < k
  <2>1. l <= Len(a) /\ \A j \in 1 .. l - 1 : a[j] = c[j]
    BY <1>1, <1>3, <1>4, <1>6
  <2>2. a[l] = b[l] /\ b[l] < c[l]
    BY <1>1, <1>3, <1>4, <1>6
  <2>3. l \in 1 .. Len(c) /\ l <= Len(a) + 1 /\ a[l] < c[l]
    BY <1>1, <1>4, <2>1, <2>2
  <2> QED
    BY <2>1, <2>3 DEF Less
<1> QED
  BY <1>5, <1>6

\* The first position at which two names differ decides; there is one.
LEMMA LessTotal ==
  ASSUME NEW a \in Oids, NEW b \in Oids, ~Less(a, b), ~Less(b, a)
  PROVE  a = b
<1>1. Len(a) \in Nat /\ Len(b) \in Nat
  BY LenProperties DEF Oids
<1>2. /\ \A i \in 1 .. Len(a) : a[i] \in Nat
      /\ \A i \in 1 .. Len(b) : b[i] \in Nat
  BY ElementOfSeq DEF Oids
<1> DEFINE T == {i \in 1 .. Len(a) : i <= Len(b) /\ a[i] # b[i]}
<1>3. T = {}
  <2> SUFFICES ASSUME T # {} PROVE FALSE
    OBVIOUS
  <2>1. PICK k \in T : \A j \in T : k <= j
    <3>1. T \subseteq Nat
      BY <1>1
    <3> HIDE DEF T
    <3> QED
      BY <3>1, SmallestOf
  <2>2. \A j \in 1 .. k - 1 : a[j] = b[j]
    BY <1>1, <2>1
  <2>3. k \in 1 .. Len(a) /\ k \in 1 .. Len(b) /\ (a[k] < b[k] \/ b[k] < a[k])
    BY <1>1, <1>2, <2>1
  <2>4. k <= Len(a) /\ k <= Len(b) /\ k <= Len(a) + 1 /\ k <= Len(b) + 1
    BY <1>1, <2>3
  <2>5. CASE a[k] < b[k]
    BY <2>2, <2>3, <2>4, <2>5 DEF Less
  <2>6. CASE b[k] < a[k]
    BY <2>2, <2>3, <2>4, <2>6 DEF Less
  <2> QED
    BY <2>3, <2>5, <2>6
<1>4. CASE Len(a) < Len(b)
  <2>1. Len(a) + 1 \in 1 .. Len(b) /\ \A j \in 1 .. Len(a) : a[j] = b[j]
    BY <1>1, <1>3, <1>4
  <2>2. (Len(a) + 1) - 1 = Len(a) /\ ~(Len(a) + 1 <= Len(a))
    BY <1>1
  <2> QED
    BY <1>1, <2>1, <2>2 DEF Less
<1>5. CASE Len(b) < Len(a)
  <2>1. Len(b) + 1 \in 1 .. Len(a) /\ \A j \in 1 .. Len(b) : b[j] = a[j]
    BY <1>1, <1>3, <1>5
  <2>2. (Len(b) + 1) - 1 = Len(b) /\ ~(Len(b) + 1 <= Len(b))
    BY <1>1
  <2> QED
    BY <1>1, <2>1, <2>2 DEF Less
<1>6. CASE Len(a) = Len(b)
  <2>1. \A i \in 1 .. Len(a) : a[i] = b[i]
    BY <1>1, <1>3, <1>6
  <2> QED
    BY <1>6, <2>1, SeqEqual DEF Oids
<1> QED
  BY <1>1, <1>4, <1>5, <1>6

-----------------------------------------------------------------------------
AllLeaves == {Leaf(c, i) : c \in Columns, i \in Indices}

LEMMA LeafParts ==
  ASSUME NEW c \in Columns, NEW i \in Indices
  PROVE  /\ Leaf(c, i) \in Oids /\ Leaf(c, i) # <<>>
         /\ Head(Leaf(c, i)) = c /\ Index(Leaf(c, i)) = i
<1>1. c \in Nat /\ i \in Seq(Nat) /\ <<c>> \in Seq(Nat) /\ Len(<<c>>) = 1
  BY ColumnAssumption
<1>2. /\ Leaf(c, i) \in Seq(Nat) /\ Len(Leaf(c, i)) = 1 + Len(i)
      /\ Leaf(c, i)[1] = c
      /\ \A k \in 1 .. Len(i) : Leaf(c, i)[k + 1] = i[k]
  BY <1>1, ConcatProperties, LenProperties DEF Leaf
<1>3. Leaf(c, i) # <<>> /\ Len(i) \in Nat
  BY <1>1, <1>2, LenProperties, EmptySeq
<1>4. /\ Tail(Leaf(c, i)) \in Seq(Nat) /\ Len(Tail(Leaf(c, i))) = Len(i)
      /\ \A k \in 1 .. Len(i) : Tail(Leaf(c, i))[k] = i[k]
  BY <1>2, <1>3, HeadTailProperties
<1>5. Tail(Leaf(c, i)) = i
  BY <1>1, <1>4, SeqEqual
<1>6. Head(Leaf(c, i)) = c
  BY <1>2, <1>3
<1> QED
  BY <1>2, <1>3, <1>5, <1>6 DEF Index, Oids

TableTypeOK ==
    /\ leaves \subseteq AllLeaves /\ statusMap \in [Indices -> Nat]
    /\ notifEnabled \in BOOLEAN /\ failing \subseteq Indices
    /\ at \in Oids \cup {Finished}

LEMMA TableTypeInit == TableInit => TableTypeOK
BY DEF TableInit, TableTypeOK, NoStatus

LEMMA TableTypeStep == TableTypeOK /\ [TableNext]_tableVars => TableTypeOK'
<1> SUFFICES ASSUME TableTypeOK, [TableNext]_tableVars PROVE TableTypeOK'
  OBVIOUS
<1> USE ColumnAssumption DEF TableTypeOK, Active, NotReady, NoStatus
<1>1. ASSUME NEW i \in Indices, NEW s \in Nat, AddedRow(i, s) PROVE TableTypeOK'
  BY <1>1 DEF AddedRow, RowLeaves, AllLeaves
<1>2. ASSUME NEW i \in Indices, HostChanges(i) PROVE TableTypeOK'
  BY <1>2 DEF HostChanges, SymDiff
<1>3. ASSUME NEW i \in Indices, NEW s \in Written, WriteStatus(i, s) PROVE TableTypeOK'
  BY <1>3 DEF WriteStatus
<1>4. ASSUME NEW p, RemoveRow(p) PROVE TableTypeOK'
  BY <1>4 DEF RemoveRow
<1>5. ASSUME NEW b \in BOOLEAN, Notifications(b) PROVE TableTypeOK'
  BY <1>5 DEF Notifications
<1>6. CASE WalkBegin
  BY <1>6, EmptySeq DEF WalkBegin, Oids
<1>7. CASE WalkNext
  <2>1. at' = Finished \/ at' \in AllLeaves
    BY <1>7 DEF WalkNext, Answers, Behind
  <2> QED
    BY <1>7, <2>1, LeafParts DEF WalkNext, AllLeaves
<1>8. CASE UNCHANGED tableVars
  BY <1>8 DEF tableVars
<1> QED
  BY <1>1, <1>2, <1>3, <1>4, <1>5, <1>6, <1>7, <1>8
     DEF TableNext, AddRow, Create, Clear, BeginInit, EndInit

-----------------------------------------------------------------------------
LEMMA StatusStep ==
  ASSUME TableTypeOK, [TableNext]_tableVars, notifEnabled, StatusOfRows
  PROVE  StatusOfRows'
<1> USE ColumnAssumption, LeafParts
    DEF TableTypeOK, StatusOfRows, Exists, Active, NotReady, NoStatus
<1>1. ASSUME NEW i \in Indices, NEW s \in Nat \ {0}, AddedRow(i, s) PROVE StatusOfRows'
  <2> SUFFICES ASSUME NEW j \in Indices
               PROVE  statusMap'[j] # 0 <=> Leaf(StatusColumn, j) \in leaves'
    OBVIOUS
  <2>1. Leaf(StatusColumn, j) \in RowLeaves(i) <=> j = i
    BY DEF RowLeaves
  <2> QED
    BY <1>1, <2>1 DEF AddedRow
<1>2. ASSUME NEW i \in Indices, NEW s \in Written, WriteStatus(i, s) PROVE StatusOfRows'
  BY <1>2 DEF WriteStatus
<1>3. ASSUME NEW p, RemoveRow(p) PROVE StatusOfRows'
  <2> SUFFICES ASSUME NEW j \in Indices
               PROVE  statusMap'[j] # 0 <=> Leaf(StatusColumn, j) \in leaves'
    OBVIOUS
  <2>1. CASE \E l \in leaves : IsPrefix(p, Index(l)) /\ Index(l) = j
    <3>1. statusMap'[j] = 0
      BY <1>3, <2>1 DEF RemoveRow
    <3>2. Leaf(StatusColumn, j) \notin leaves'
      BY <1>3, <2>1 DEF RemoveRow
    <3> QED
      BY <3>1, <3>2
  <2>2. CASE ~\E l \in leaves : IsPrefix(p, Index(l)) /\ Index(l) = j
    <3>1. statusMap'[j] = statusMap[j]
      BY <1>3, <2>2 DEF RemoveRow
    <3>2. Leaf(StatusColumn, j) \in leaves' <=> Leaf(StatusColumn, j) \in leaves
      BY <1>3, <2>2 DEF RemoveRow
    <3> QED
      BY <3>1, <3>2
  <2> QED
    BY <2>1, <2>2
<1>4. CASE UNCHANGED <<leaves, statusMap>>
  BY <1>4
<1>5. CASE \E i \in Indices : HostChanges(i)
  BY <1>4, <1>5 DEF HostChanges
<1>6. CASE BeginInit \/ EndInit \/ WalkBegin \/ WalkNext
  BY <1>4, <1>6 DEF BeginInit, EndInit, Notifications, WalkBegin, WalkNext
<1>7. ASSUME NEW i \in Indices, AddRow(i) PROVE StatusOfRows'
  BY <1>1, <1>7 DEF AddRow
<1>8. ASSUME NEW i \in Indices, NEW s \in {Active, NotReady}, Create(i, s)
      PROVE  StatusOfRows'
  BY <1>1, <1>8 DEF Create
<1>9. CASE UNCHANGED tableVars
  BY <1>4, <1>9 DEF tableVars
<1> QED
  BY <1>2, <1>3, <1>5, <1>6, <1>7, <1>8, <1>9 DEF TableNext, Clear

\* In every state in which notifications are on and the statuses are those of the
\* rows, no operation separates them: not the removal of many rows by a prefix,
\* nor what a manager writes.
THEOREM StatusFollowsRows == TableSpec => StatusWithNotifications
<1>1. TableTypeOK /\ [TableNext]_tableVars
         => [notifEnabled /\ StatusOfRows => StatusOfRows']_tableVars
  BY StatusStep
<1> QED
  BY <1>1, TableTypeInit, TableTypeStep, PTL DEF TableSpec, StatusWithNotifications

-----------------------------------------------------------------------------
\* What is pending is still there and can still be read.
PendingInv == pending \subseteq {l \in leaves : Readable(l)}

WalkInv == TableTypeOK /\ PendingInv /\ WalkComplete

LEMMA LeavesAreOids ==
  ASSUME TableTypeOK, NEW l \in leaves
  PROVE  l \in Oids /\ l # <<>>
BY LeafParts DEF TableTypeOK, AllLeaves

\* Rows that come or go, and their statuses.
LEMMA PendingKept ==
  ASSUME WalkInv, [TableNext]_tableVars, ~WalkBegin, ~WalkNext
  PROVE  PendingInv' /\ pending' \subseteq pending /\ at' = at
<1> USE ColumnAssumption, LeafParts
    DEF WalkInv, TableTypeOK, PendingInv, Readable, AllLeaves, Active, NotReady, NoStatus
<1> DEFINE Kept == PendingInv' /\ pending' \subseteq pending /\ at' = at
<1>1. ASSUME NEW i \in Indices, NEW s \in Nat \ {0}, AddedRow(i, s)
      PROVE  Kept
  BY <1>1 DEF AddedRow
<1>2. ASSUME NEW i \in Indices, NEW s \in Written, WriteStatus(i, s)
      PROVE  Kept
  BY <1>2 DEF WriteStatus
<1>3. ASSUME NEW p, RemoveRow(p) PROVE Kept
  <2>1. pending' \subseteq pending /\ pending' \subseteq leaves'
    BY <1>3 DEF RemoveRow
  <2> SUFFICES ASSUME NEW l \in pending' PROVE Readable(l)'
    BY <1>3, <2>1 DEF RemoveRow
  <2>2. l \in leaves /\ ~IsPrefix(p, Index(l)) /\ Readable(l) /\ Index(l) \in Indices
    BY <1>3 DEF RemoveRow
  <2>3. statusMap'[Index(l)] = statusMap[Index(l)] /\ failing' = failing
    BY <1>3, <2>2 DEF RemoveRow
  <2> QED
    BY <2>2, <2>3
<1>4. ASSUME NEW i \in Indices, HostChanges(i)
      PROVE  Kept
  BY <1>4 DEF HostChanges
<1>5. CASE UNCHANGED <<leaves, statusMap, failing, pending, at>>
  BY <1>5
<1>6. CASE BeginInit \/ EndInit \/ UNCHANGED tableVars
  BY <1>5, <1>6 DEF BeginInit, EndInit, Notifications, tableVars
<1>7. ASSUME NEW i \in Indices, AddRow(i) PROVE Kept
  BY <1>1, <1>7 DEF AddRow
<1>8. ASSUME NEW i \in Indices, NEW s \in {Active, NotReady}, Create(i, s) PROVE Kept
  BY <1>1, <1>8 DEF Create
<1> HIDE DEF Kept
<1> QED
  BY <1>2, <1>3, <1>4, <1>6, <1>7, <1>8 DEF TableNext, Clear, Kept

\* A leaf behind the name is not passed over: whichever leaf findLeaf begins at is
\* not behind it, and the first that answers is taken.
LEMMA FoundIsBefore ==
  ASSUME TableTypeOK, NEW name \in Oids, NEW l \in leaves, Less(name, l)
  PROVE  l \in Behind(name)
<1> SUFFICES ASSUME NEW f \in FindLeaf(name), Less(l, f) PROVE FALSE
  BY DEF Behind
<1>1. f \in leaves /\ f \in Oids /\ l \in Oids
  BY LeavesAreOids DEF FindLeaf
<1>2. CASE Less(name, f)
  \* then f is the first of all leaves
  BY <1>2 DEF FindLeaf
<1>3. CASE ~Less(name, f)
  BY <1>1, <1>3, LessTransitive
<1> QED
  BY <1>2, <1>3

LEMMA WalkNextInv ==
  ASSUME WalkInv, WalkNext
  PROVE  PendingInv' /\ WalkComplete'
<1> USE DEF WalkInv
<1>1. at \in Oids /\ UNCHANGED <<leaves, statusMap, notifEnabled, failing>>
  BY DEF WalkNext, TableTypeOK
<1>2. pending \subseteq Answers(at)
  BY <1>1, FoundIsBefore, LeavesAreOids
     DEF PendingInv, WalkComplete, WalkNext, Answers
<1>3. CASE Answers(at) = {}
  BY <1>1, <1>2, <1>3 DEF WalkNext, PendingInv, WalkComplete
<1>4. CASE Answers(at) # {}
  <2>1. PICK l \in Answers(at) : /\ \A m \in Answers(at) : ~Less(m, l)
                                 /\ at' = l /\ pending' = pending \ {l}
    BY <1>4 DEF WalkNext
  <2>2. l \in leaves /\ l \in Oids
    BY <2>1, LeavesAreOids DEF Answers, Behind
  <2>3. at' # Finished
    BY <2>1, <2>2, ColumnAssumption DEF Oids
  <2>4. ASSUME NEW m \in pending' PROVE Less(l, m)
    <3>1. m \in Answers(at) /\ m # l /\ m \in Oids
      BY <1>2, <2>1, <2>4, LeavesAreOids DEF Answers, Behind
    <3> QED
      BY <2>1, <2>2, <3>1, LessTotal
  <2>5. PendingInv'
    BY <1>1, <2>1 DEF PendingInv, Readable
  <2> QED
    BY <2>1, <2>3, <2>4, <2>5 DEF WalkComplete
<1> QED
  BY <1>3, <1>4

LEMMA WalkBeginInv ==
  ASSUME WalkInv, WalkBegin
  PROVE  PendingInv' /\ WalkComplete'
<1>1. PendingInv'
  BY DEF WalkBegin, PendingInv, Readable
<1>2. ASSUME NEW l \in leaves PROVE Less(<<>>, l)
  <2>1. l \in Seq(Nat) /\ l # <<>> /\ Len(l) \in Nat \ {0} /\ Len(<<>>) = 0
    BY <1>2, LeavesAreOids, EmptySeq DEF WalkInv, Oids
  <2>2. 1 \in 1 .. Len(l) /\ 1 <= Len(<<>>) + 1 /\ ~(1 <= Len(<<>>))
    BY <2>1
  <2>3. \A j \in 1 .. 1 - 1 : <<>>[j] = l[j]
    OBVIOUS
  <2> QED
    BY <2>2, <2>3 DEF Less
<1>3. at' = <<>> /\ at' # Finished /\ pending' \subseteq leaves
  BY ColumnAssumption, EmptySeq DEF WalkBegin
<1> QED
  BY <1>1, <1>2, <1>3 DEF WalkComplete

LEMMA WalkInit == TableInit => WalkInv
BY TableTypeInit DEF WalkInv, PendingInv, WalkComplete, TableInit

LEMMA WalkStep == WalkInv /\ [TableNext]_tableVars => WalkInv'
<1> SUFFICES ASSUME WalkInv, [TableNext]_tableVars PROVE WalkInv'
  OBVIOUS
<1>1. TableTypeOK'
  BY TableTypeStep DEF WalkInv
<1>2. CASE WalkBegin
  BY <1>1, <1>2, WalkBeginInv DEF WalkInv
<1>3. CASE WalkNext
  BY <1>1, <1>3, WalkNextInv DEF WalkInv
<1>4. CASE ~WalkBegin /\ ~WalkNext
  BY <1>1, <1>4, PendingKept DEF WalkInv, WalkComplete
<1> QED
  BY <1>2, <1>3, <1>4

\* A manager that walks the table while rows come and go, statuses change and
\* getters fail reads every leaf that it could have read all the time.
THEOREM WalkReadsAll == TableSpec => []WalkComplete
<1>1. WalkInv => WalkComplete
  BY DEF WalkInv
<1> QED
  BY <1>1, WalkInit, WalkStep, PTL DEF TableSpec
-----------------------------------------------------------------------------
\* The folds of Element.

\* Induction over the numbers up to n, of a set.
LEMMA UpTo ==
  ASSUME NEW n \in Nat, NEW G, 0 \in G, \A m \in 0 .. n - 1 : m \in G => m + 1 \in G
  PROVE  0 .. n \subseteq G
<1> SUFFICES ASSUME (0 .. n) \ G # {} PROVE FALSE
  OBVIOUS
<1> DEFINE Out == (0 .. n) \ G
<1>1. PICK k \in Out : \A j \in Out : k <= j
  <2>1. Out \subseteq Nat /\ Out # {}
    OBVIOUS
  <2> HIDE DEF Out
  <2> QED
    BY <2>1, SmallestOf
<1>2. k # 0 /\ k - 1 \in 0 .. n - 1 /\ k - 1 + 1 = k
  BY <1>1
<1>3. k - 1 \in G
  BY <1>1, <1>2
<1> QED
  BY <1>1, <1>2, <1>3

LEMMA LastOf ==
  ASSUME NEW m \in Nat
  PROVE  Max(1 .. m + 1) = m + 1 /\ (1 .. m + 1) \ {m + 1} = 1 .. m
<1>1. m + 1 \in 1 .. m + 1 /\ \A x \in 1 .. m + 1 : x <= m + 1
  OBVIOUS
<1>2. ASSUME NEW x \in 1 .. m + 1, \A y \in 1 .. m + 1 : x >= y PROVE x = m + 1
  BY <1>1, <1>2
<1> QED
  BY <1>1, <1>2 DEF Max

\* The three folds of the model, each of which goes on from a value u with a
\* member x of a sequence.
Placed(u, n) == Filed(u, [name |-> n, keys |-> <<>>, loaded |-> FALSE])
Kept(l, o, S) == IF o \in S THEN l ELSE Append(l, o)
Folded(what, S, u, x) == IF what = "keep" THEN Kept(u, x, S)
                         ELSE IF what = "place" THEN Placed(u, x) ELSE LoadChild(u, x)

\* What MapThenFoldSet makes of the first m members of s.
Iter(what, S, base, s, m, f) ==
    f = [D \in SUBSET (1 .. m) |->
            IF D = {} THEN base ELSE Folded(what, S, f[D \ {Max(D)}], s[Max(D)])]

\* Such a function exists, by induction ...
LEMMA IterExists ==
  ASSUME NEW what, NEW S, NEW base, NEW s, NEW n \in Nat
  PROVE  \E f : Iter(what, S, base, s, n, f)
<1> DEFINE G == {m \in 0 .. n : \E f : Iter(what, S, base, s, m, f)}
           step(u, x) == Folded(what, S, u, x)
<1>1. 0 \in G
  <2> DEFINE h == [D \in SUBSET (1 .. 0) |-> base]
  <2>1. \A D \in SUBSET (1 .. 0) : D = {}
    OBVIOUS
  <2>2. Iter(what, S, base, s, 0, h)
    BY <2>1 DEF Iter
  <2> QED
    BY <2>2
<1>2. ASSUME NEW m \in 0 .. n - 1, m \in G PROVE m + 1 \in G
  <2>1. PICK f : Iter(what, S, base, s, m, f)
    BY <1>2
  <2> DEFINE h == [D \in SUBSET (1 .. m + 1) |->
                      IF m + 1 \in D THEN step(f[D \ {m + 1}], s[m + 1]) ELSE f[D]]
  <2> HIDE DEF step
  <2>2. ASSUME NEW D \in SUBSET (1 .. m + 1)
        PROVE  h[D] = IF D = {} THEN base ELSE step(h[D \ {Max(D)}], s[Max(D)])
    <3>1. CASE m + 1 \in D
      <4>1. Max(D) = m + 1
        <5>1. \A x \in D : x \in 1 .. m + 1
          OBVIOUS
        <5>2. \A x \in D : m + 1 >= x
          BY <5>1
        <5>3. \A x \in D : (\A y \in D : x >= y) => x = m + 1
          BY <3>1, <5>1
        <5> QED
          BY <3>1, <5>2, <5>3 DEF Max
      <4>2. D \ {m + 1} \in SUBSET (1 .. m + 1) /\ m + 1 \notin D \ {m + 1} /\ D # {}
        BY <3>1
      <4> QED
        BY <3>1, <4>1, <4>2
    <3>2. CASE m + 1 \notin D
      <4>1. D \in SUBSET (1 .. m)
        BY <3>2
      <4>2. h[D] = f[D]
        BY <3>2
      <4>3. D \ {Max(D)} \in SUBSET (1 .. m + 1) /\ m + 1 \notin D \ {Max(D)}
        BY <3>2
      <4>4. h[D \ {Max(D)}] = f[D \ {Max(D)}]
        BY <4>3
      <4>5. f[D] = IF D = {} THEN base ELSE step(f[D \ {Max(D)}], s[Max(D)])
        BY <2>1, <4>1 DEF Iter, step
      <4> QED
        BY <4>2, <4>4, <4>5
    <3> QED
      BY <3>1, <3>2
  <2>3. Iter(what, S, base, s, m + 1, h)
    <3>1. h = [D \in SUBSET (1 .. m + 1) |-> h[D]]
      OBVIOUS
    <3> HIDE DEF h
    <3> QED
      BY <2>2, <3>1 DEF Iter, step
  <2> HIDE DEF h
  <2> QED
    BY <2>3
<1>3. 0 .. n \subseteq G
  <2> HIDE DEF G
  <2> QED
    BY <1>1, <1>2, UpTo
<1> QED
  BY <1>3

\* ... and goes on from member to member, from base to v.
Goes(what, S, base, s, n, v) ==
    \E g : /\ g[0] = base /\ g[n] = v
           /\ \A m \in 0 .. n - 1 : g[m + 1] = Folded(what, S, g[m], s[m + 1])

LEMMA IterGoes ==
  ASSUME NEW what, NEW S, NEW base, NEW s, NEW n \in Nat, NEW f,
         Iter(what, S, base, s, n, f)
  PROVE  Goes(what, S, base, s, n, f[1 .. n])
<1> DEFINE g == [m \in 0 .. n |-> f[1 .. m]]
<1>1. g[0] = base
  <2>1. 1 .. 0 = {} /\ {} \in SUBSET (1 .. n)
    OBVIOUS
  <2> QED
    BY <2>1 DEF Iter
<1>2. ASSUME NEW m \in 0 .. n - 1 PROVE g[m + 1] = Folded(what, S, g[m], s[m + 1])
  <2>1. 1 .. m + 1 \in SUBSET (1 .. n) /\ 1 .. m + 1 # {} /\ m + 1 \in 0 .. n /\ m \in 0 .. n
        /\ m \in Nat
    OBVIOUS
  <2>2. f[1 .. m + 1] = Folded(what, S, f[(1 .. m + 1) \ {Max(1 .. m + 1)}], s[Max(1 .. m + 1)])
    BY <2>1 DEF Iter
  <2>3. f[1 .. m + 1] = Folded(what, S, f[1 .. m], s[m + 1])
    BY <2>1, <2>2, LastOf
  <2> QED
    BY <2>1, <2>3
<1>3. g[n] = f[1 .. n]
  OBVIOUS
<1> HIDE DEF g
<1> QED
  BY <1>1, <1>2, <1>3 DEF Goes

LEMMA FoldKeeps ==
  ASSUME NEW n \in Nat, NEW s, NEW S, DOMAIN s = 1 .. n
  PROVE  Goes("keep", S, <<>>, s, n, Without(s, S))
<1> DEFINE F == CHOOSE f : Iter("keep", S, <<>>, s, n, f)
<1>1. Without(s, S) = F[1 .. n]
  BY DEF Without, FoldLeft, MapThenFoldSet, Iter, Folded, Kept
<1>2. Iter("keep", S, <<>>, s, n, F)
  BY IterExists
<1> HIDE DEF F
<1> QED
  BY <1>1, <1>2, IterGoes

LEMMA FoldPlaces ==
  ASSUME NEW n \in Nat, NEW t, n = Len(Mandatory), t.list = <<>>
  PROVE  Goes("place", {}, t, Mandatory, n, Ready(t))
<1> DEFINE F == CHOOSE f : Iter("place", {}, t, Mandatory, n, f)
<1>1. Ready(t) = F[1 .. n]
  <2>1. DOMAIN Mandatory = 1 .. n
    BY MapAssumption
  <2> QED
    BY <2>1 DEF FoldLeft, MapThenFoldSet, Iter, Folded, Placed, Ready
<1>2. Iter("place", {}, t, Mandatory, n, F)
  BY IterExists
<1> HIDE DEF F
<1> QED
  BY <1>1, <1>2, IterGoes

Loaded(t, doc) == FoldLeft(LoadChild, t, doc)

LEMMA FoldLoads ==
  ASSUME NEW n \in Nat, NEW t, NEW doc, DOMAIN doc = 1 .. n
  PROVE  Goes("load", {}, t, doc, n, Loaded(t, doc))
<1> DEFINE F == CHOOSE f : Iter("load", {}, t, doc, n, f)
<1>1. Loaded(t, doc) = F[1 .. n]
  BY DEF Loaded, FoldLeft, MapThenFoldSet, Iter, Folded
<1>2. Iter("load", {}, t, doc, n, F)
  BY IterExists
<1> HIDE DEF F
<1> QED
  BY <1>1, <1>2, IterGoes

-----------------------------------------------------------------------------
\* The trees.

\* The list l holds each of the objects X once.
Lists(l, X) == l \in Seq(Objects) /\ IsInjective(l) /\ ToSet(l) = X

Live(t) == ToSet(t.list)

\* List, multimap and objects agree ...
Agrees(t) ==
    /\ Lists(t.list, Live(t))
    /\ t.hash = {<<IndexItem(t.child[o]), o>> : o \in Live(t)}
    /\ DOMAIN t.child = Objects
    /\ Live(t) = {o \in Objects : t.child[o] # Absent}

\* ... and a placeholder is the only child of its name.
Alone(t) ==
    \A o \in Live(t) : ~t.child[o].loaded =>
        /\ t.child[o].keys = <<>> /\ t.child[o].name \in ToSet(Mandatory)
        /\ \A p \in Live(t) \ {o} : t.child[p].name # t.child[o].name

TreeOK(t) == Agrees(t) /\ Alone(t)

\* How many objects there are.
Capacity == MaxChildren + Len(Mandatory)

LEMMA CapacityIs == Capacity \in Nat /\ Len(Mandatory) \in Nat /\ Objects = 1 .. Capacity
                    /\ Len(Mandatory) <= Capacity
BY MapAssumption DEF Capacity, Objects

LEMMA EmptyLists == Lists(<<>>, {})
BY DEF Lists, ToSet, IsInjective

LEMMA AppendLists ==
  ASSUME NEW l, NEW X, Lists(l, X), NEW o \in Objects \ X
  PROVE  Lists(Append(l, o), X \cup {o}) /\ Len(Append(l, o)) = Len(l) + 1
<1> DEFINE k == Append(l, o)
<1>1. l \in Seq(Objects) /\ o \in Objects
  BY DEF Lists
<1>2. /\ k \in Seq(Objects) /\ Len(k) = Len(l) + 1 /\ Len(l) \in Nat
      /\ DOMAIN k = 1 .. Len(l) + 1 /\ DOMAIN l = 1 .. Len(l)
      /\ k[Len(l) + 1] = o /\ \A i \in 1 .. Len(l) : k[i] = l[i]
  BY <1>1
<1>3. \A i \in 1 .. Len(l) : l[i] \in X
  BY <1>2 DEF Lists, ToSet
<1> HIDE DEF k
<1>4. \A i \in DOMAIN k : i = Len(l) + 1 \/ i \in DOMAIN l
  BY <1>2
<1>5. IsInjective(k)
  BY <1>2, <1>3, <1>4 DEF IsInjective, Lists
<1>6. ToSet(k) = X \cup {o}
  <2>1. ToSet(k) \subseteq X \cup {o}
    BY <1>2, <1>3, <1>4 DEF ToSet
  <2>2. ASSUME NEW x \in X PROVE x \in ToSet(k)
    <3>1. PICK i \in DOMAIN l : l[i] = x
      BY DEF Lists, ToSet
    <3> QED
      BY <1>2, <3>1 DEF ToSet
  <2>3. o \in ToSet(k)
    BY <1>2 DEF ToSet
  <2> QED
    BY <2>1, <2>2, <2>3
<1> QED
  BY <1>2, <1>5, <1>6 DEF Lists, k

\* What is left of a list without S.
LEMMA KeptLists ==
  ASSUME NEW l, NEW X, Lists(l, X), NEW S
  PROVE  Lists(Without(l, S), X \ S) /\ Len(Without(l, S)) <= Len(l)
<1> DEFINE n == Len(l)
           upto(m) == {l[i] : i \in 1 .. m}
<1>1. /\ n \in Nat /\ DOMAIN l = 1 .. n /\ upto(n) = X
      /\ \A i \in 1 .. n : l[i] \in Objects
      /\ \A i, j \in 1 .. n : l[i] = l[j] => i = j
  BY DEF Lists, ToSet, IsInjective
<1>2. PICK g :
         /\ g[0] = <<>>
         /\ \A m \in 0 .. n - 1 : g[m + 1] = Kept(g[m], l[m + 1], S)
         /\ Without(l, S) = g[n]
  <2>1. Goes("keep", S, <<>>, l, n, Without(l, S))
    BY <1>1, FoldKeeps
  <2>2. \A u, x : Folded("keep", S, u, x) = Kept(u, x, S)
    BY DEF Folded
  <2> HIDE DEF n
  <2> QED
    BY <2>1, <2>2, Zenon DEF Goes
<1> DEFINE P(m) == Lists(g[m], upto(m) \ S) /\ Len(g[m]) <= m
           G == {m \in 0 .. n : P(m)}
<1>3. P(0)
  <2>1. upto(0) \ S = {} /\ Len(<<>>) = 0
    OBVIOUS
  <2> HIDE DEF upto
  <2>2. Lists(g[0], upto(0) \ S)
    BY <1>2, <2>1, EmptyLists, Zenon
  <2>3. Len(g[0]) <= 0
    BY <1>2, <2>1
  <2> QED
    BY <2>2, <2>3
<1>4. ASSUME NEW m \in 0 .. n - 1, P(m) PROVE P(m + 1)
  <2> DEFINE o == l[m + 1]
  <2>1. m + 1 \in 1 .. n /\ m \in Nat /\ o \in Objects
    BY <1>1
  <2>2. upto(m + 1) = upto(m) \cup {o}
    <3>1. 1 .. m + 1 = 1 .. m \cup {m + 1}
      BY <2>1
    <3> QED
      BY <3>1
  <2>3. o \notin upto(m)
    <3>1. \A i \in 1 .. m : i \in 1 .. n /\ i # m + 1
      BY <1>1, <2>1
    <3> QED
      BY <1>1, <2>1, <3>1
  <2> HIDE DEF o, upto
  <2>4. Lists(g[m], upto(m) \ S) /\ Len(g[m]) <= m /\ Len(g[m]) \in Nat
    BY <1>4 DEF Lists
  <2>5. g[m + 1] = IF o \in S THEN g[m] ELSE Append(g[m], o)
    BY <1>2 DEF Kept, o
  <2>6. CASE o \in S
    <3>1. upto(m + 1) \ S = upto(m) \ S
      BY <2>2, <2>6
    <3>2. g[m + 1] = g[m] /\ Len(g[m]) <= m + 1
      BY <2>1, <2>4, <2>5, <2>6
    <3> QED
      BY <2>4, <3>1, <3>2
  <2>7. CASE o \notin S
    <3>1. upto(m + 1) \ S = (upto(m) \ S) \cup {o}
      BY <2>2, <2>7
    <3>2. Lists(Append(g[m], o), (upto(m) \ S) \cup {o}) /\ Len(Append(g[m], o)) = Len(g[m]) + 1
      BY <2>1, <2>3, <2>4, AppendLists
    <3>3. g[m + 1] = Append(g[m], o)
      BY <2>5, <2>7
    <3>4. Len(g[m + 1]) <= m + 1
      BY <2>1, <2>4, <3>2, <3>3
    <3> QED
      BY <3>1, <3>2, <3>3, <3>4
  <2> QED
    BY <2>6, <2>7
<1> HIDE DEF P
<1>5. P(n)
  <2>1. 0 \in G /\ \A m \in 0 .. n - 1 : m \in G => m + 1 \in G
    BY <1>1, <1>3, <1>4
  <2> HIDE DEF G
  <2>2. 0 .. n \subseteq G
    BY <1>1, <2>1, UpTo
  <2> QED
    BY <1>1, <2>2 DEF G
<1>6. Lists(g[n], X \ S) /\ Len(g[n]) <= n
  BY <1>1, <1>5 DEF P
<1> HIDE DEF n
<1> QED
  BY <1>2, <1>6 DEF n

\* A list that is not full leaves an object unused.
LEMMA UnusedIs ==
  ASSUME NEW t, Agrees(t), Len(t.list) < Capacity
  PROVE  Unused(t) \in Objects \ Live(t)
<1> DEFINE Free == {o \in Objects : t.child[o] = Absent}
           l == t.list
           n == Len(l)
<1>1. n \in Nat /\ DOMAIN l = 1 .. n /\ Live(t) = {l[i] : i \in 1 .. n}
  BY DEF Agrees, Lists, Live, ToSet
<1>2. Free # {}
  <2> SUFFICES ASSUME Free = {} PROVE FALSE
    OBVIOUS
  <2>1. Objects \subseteq Live(t)
    BY DEF Agrees
  <2> DEFINE place == [o \in Objects |-> CHOOSE i \in 1 .. n : l[i] = o]
  <2>2. \A o \in Objects : place[o] \in 1 .. n /\ l[place[o]] = o
    BY <1>1, <2>1
  <2>3. place \in [Objects -> 1 .. n]
    BY <2>2
  <2>4. /\ IsFiniteSet(Objects) /\ Cardinality(Objects) = Capacity
        /\ IsFiniteSet(1 .. n) /\ Cardinality(1 .. n) = n
    <3>1. \A c \in Nat : IsFiniteSet(1 .. c) /\ Cardinality(1 .. c) = c
      <4> TAKE c \in Nat
      <4>1. 1 \in Int /\ c \in Int
        OBVIOUS
      <4>2. IsFiniteSet(1 .. c) /\ Cardinality(1 .. c) = IF 1 > c THEN 0 ELSE c - 1 + 1
        BY <4>1, FS_Interval
      <4> QED
        BY <4>2
    <3> QED
      BY <1>1, <3>1, CapacityIs
  <2> HIDE DEF place, n
  <2>5. \E o, p \in Objects : o # p /\ place[o] = place[p]
    BY <2>3, <2>4, FS_PigeonHole DEF n
  <2> QED
    BY <2>2, <2>5
<1>3. Free \subseteq Nat
  BY CapacityIs
<1>4. \E o \in Free : \A p \in Free : o <= p
  <2> HIDE DEF Free
  <2> QED
    BY <1>2, <1>3, SmallestOf
<1>5. Unused(t) \in Free
  BY <1>4 DEF Unused
<1> QED
  BY <1>5 DEF Agrees

\* A child that is filed is the only change.
Child(n, k, b) == [name |-> n, keys |-> k, loaded |-> b]

\* The tree u is t with one more child e, at the end.
Grown(t, u, e) ==
    /\ Len(u.list) = Len(t.list) + 1
    /\ \E o \in Objects \ Live(t) :
          /\ u.list = Append(t.list, o)
          /\ Live(u) = Live(t) \cup {o} /\ u.child[o] = e
          /\ \A p \in Live(t) : u.child[p] = t.child[p]

LEMMA FiledIs ==
  ASSUME NEW t, Agrees(t), Len(t.list) < Capacity, NEW n \in Names, NEW k, NEW b \in BOOLEAN
  PROVE  /\ Agrees(Filed(t, Child(n, k, b)))
         /\ Grown(t, Filed(t, Child(n, k, b)), Child(n, k, b))
<1> DEFINE o == Unused(t)
           e == Child(n, k, b)
           u == Filed(t, e)
<1>1. o \in Objects \ Live(t)
  BY UnusedIs
<1>2. e # Absent /\ e.name = n
  BY MapAssumption DEF Absent, Child
<1>3. /\ u.list = Append(t.list, o)
      /\ u.hash = t.hash \cup {<<IndexItem(e), o>>}
      /\ u.child = [t.child EXCEPT ![o] = e]
  BY DEF Filed
<1> HIDE DEF o, e, u
<1>4. Lists(u.list, Live(t) \cup {o}) /\ Len(u.list) = Len(t.list) + 1
  BY <1>1, <1>3, AppendLists DEF Agrees
<1>5. Live(u) = Live(t) \cup {o}
  BY <1>4 DEF Lists, Live
<1>6. /\ DOMAIN u.child = Objects /\ u.child[o] = e
      /\ \A p \in Objects \ {o} : u.child[p] = t.child[p]
  BY <1>1, <1>3 DEF Agrees
<1>7. Live(t) \subseteq Objects \ {o}
  BY <1>1 DEF Agrees
<1>8. Live(u) = {p \in Objects : u.child[p] # Absent}
  BY <1>1, <1>2, <1>5, <1>6, <1>7 DEF Agrees
<1>9. u.hash = {<<IndexItem(u.child[p]), p>> : p \in Live(u)}
  <2>1. \A p \in Live(t) : u.child[p] = t.child[p]
    BY <1>6, <1>7
  <2>2. {<<IndexItem(u.child[p]), p>> : p \in Live(u)}
          = {<<IndexItem(t.child[p]), p>> : p \in Live(t)} \cup {<<IndexItem(e), o>>}
    BY <1>5, <1>6, <2>1
  <2> QED
    BY <1>3, <2>2 DEF Agrees
<1>10. Agrees(u)
  BY <1>4, <1>5, <1>6, <1>8, <1>9 DEF Agrees
<1>11. Grown(t, u, e)
  BY <1>1, <1>3, <1>4, <1>5, <1>6, <1>7 DEF Grown
<1> QED
  BY <1>10, <1>11 DEF e, u

LEMMA DroppedIs ==
  ASSUME NEW t, Agrees(t), NEW S
  PROVE  LET u == Dropped(t, S) IN
         /\ Agrees(u) /\ Len(u.list) <= Len(t.list) /\ Live(u) = Live(t) \ S
         /\ \A p \in Live(u) : u.child[p] = t.child[p]
<1> DEFINE u == Dropped(t, S)
<1>1. u.list = Without(t.list, S)
  BY DEF Dropped
<1>2. /\ u.hash = {h \in t.hash : h[2] \notin S}
      /\ u.child = [o \in Objects |-> IF o \in S THEN Absent ELSE t.child[o]]
  BY DEF Dropped
<1> HIDE DEF u
<1>3. Lists(u.list, Live(t) \ S) /\ Len(u.list) <= Len(t.list)
  <2>1. Lists(t.list, Live(t))
    BY DEF Agrees
  <2>2. /\ Lists(Without(t.list, S), Live(t) \ S)
        /\ Len(Without(t.list, S)) <= Len(t.list)
    BY <2>1, KeptLists
  <2> QED
    BY <1>1, <2>2
<1>4. Live(u) = Live(t) \ S
  BY <1>3 DEF Lists, Live
<1>5. \A p \in Live(u) : u.child[p] = t.child[p]
  BY <1>2, <1>4 DEF Agrees
<1>6. Live(u) = {p \in Objects : u.child[p] # Absent}
  BY <1>2, <1>4 DEF Agrees
<1>7. u.hash = {<<IndexItem(u.child[p]), p>> : p \in Live(u)}
  BY <1>2, <1>4, <1>5 DEF Agrees
<1> QED
  BY <1>2, <1>3, <1>4, <1>5, <1>6, <1>7 DEF Agrees, u


\* Fewer children: the same of those that are left.
LEMMA DroppedOK ==
  ASSUME NEW t, TreeOK(t), NEW S
  PROVE  LET u == Dropped(t, S) IN
         /\ TreeOK(u) /\ Len(u.list) <= Len(t.list) /\ Live(u) = Live(t) \ S
         /\ \A p \in Live(u) : u.child[p] = t.child[p]
<1> DEFINE u == Dropped(t, S)
<1>1. /\ Agrees(u) /\ Len(u.list) <= Len(t.list) /\ Live(u) = Live(t) \ S
      /\ \A p \in Live(u) : u.child[p] = t.child[p]
  BY DroppedIs DEF TreeOK
<1> HIDE DEF u
<1>2. Alone(u)
  BY <1>1 DEF TreeOK, Alone
<1> QED
  BY <1>1, <1>2 DEF TreeOK, u

\* While the placeholders are made, there is one for each name so far.
Placing(u, m) ==
    /\ Agrees(u) /\ Len(u.list) = m
    /\ \A i \in 1 .. m : u.child[u.list[i]].name = Mandatory[i]
    /\ \A o \in Live(u) : /\ ~u.child[o].loaded /\ u.child[o].keys = <<>>
                          /\ \E i \in 1 .. m : u.child[o].name = Mandatory[i]
    /\ \A o, p \in Live(u) : o # p => u.child[o].name # u.child[p].name

LEMMA PlacedIs ==
  ASSUME NEW u, NEW m \in 0 .. Len(Mandatory) - 1, Placing(u, m)
  PROVE  Placing(Placed(u, Mandatory[m + 1]), m + 1)
<1> DEFINE n == Mandatory[m + 1]
           e == Child(n, <<>>, FALSE)
           v == Filed(u, e)
<1>1. /\ m \in Nat /\ m < Capacity /\ m + 1 \in DOMAIN Mandatory /\ n \in Names
      /\ \A i \in 1 .. m : i \in DOMAIN Mandatory /\ i # m + 1
  BY CapacityIs, MapAssumption
<1>2. Agrees(u) /\ Len(u.list) = m
  BY DEF Placing
<1>3. e.name = n /\ e.keys = <<>> /\ e.loaded = FALSE
  BY DEF Child
<1>4. \A i \in 1 .. m : Mandatory[i] # n
  BY <1>1, MapAssumption DEF IsInjective
<1> HIDE DEF n
<1>5. Agrees(v) /\ Grown(u, v, e)
  BY <1>1, <1>2, FiledIs
<1> HIDE DEF e, v
<1>6. PICK o \in Objects \ Live(u) :
            /\ v.list = Append(u.list, o)
            /\ Live(v) = Live(u) \cup {o} /\ v.child[o] = e
            /\ \A p \in Live(u) : v.child[p] = u.child[p]
  BY <1>5 DEF Grown
<1>7. ASSUME NEW p \in Live(v)
      PROVE  /\ ~v.child[p].loaded /\ v.child[p].keys = <<>>
             /\ \E i \in 1 .. m + 1 : v.child[p].name = Mandatory[i]
  <2>1. CASE p = o
    BY <1>1, <1>3, <1>6, <2>1 DEF n
  <2>2. CASE p \in Live(u)
    <3>1. \A i \in 1 .. m : i \in 1 .. m + 1
      BY <1>1
    <3> QED
      BY <1>6, <2>2, <3>1 DEF Placing
  <2> QED
    BY <1>6, <2>1, <2>2
<1>8. \A p \in Live(u) : v.child[p].name # v.child[o].name
  BY <1>3, <1>4, <1>6 DEF Placing
<1>9. \A p, q \in Live(v) : p # q => v.child[p].name # v.child[q].name
  BY <1>6, <1>8 DEF Placing
<1>10. ASSUME NEW i \in 1 .. m + 1 PROVE v.child[v.list[i]].name = Mandatory[i]
  <2>1. u.list \in Seq(Objects) /\ o \in Objects
    BY <1>2 DEF Agrees, Lists
  <2>2. CASE i = m + 1
    <3>1. v.list[i] = o
      BY <1>2, <1>6, <2>1, <2>2
    <3> QED
      BY <1>3, <1>6, <2>2, <3>1 DEF n
  <2>3. CASE i \in 1 .. m
    <3>1. v.list[i] = u.list[i] /\ u.list[i] \in Live(u)
      BY <1>2, <1>6, <2>1, <2>3 DEF Live, ToSet
    <3> QED
      BY <1>6, <2>3, <3>1 DEF Placing
  <2> QED
    BY <1>1, <2>2, <2>3
<1>11. Placing(v, m + 1)
  BY <1>2, <1>5, <1>7, <1>9, <1>10 DEF Placing, Grown
<1> QED
  BY <1>11 DEF Placed, Child, v, e, n

\* The list is initialised.
LEMMA ReadyPlaces ==
  ASSUME NEW t, TreeOK(t), t.list = <<>>
  PROVE  Placing(Ready(t), Len(Mandatory))
<1> DEFINE n == Len(Mandatory)
<1>1. n \in Nat
  BY CapacityIs
<1>2. PICK g :
         /\ g[0] = t /\ g[n] = Ready(t)
         /\ \A m \in 0 .. n - 1 : g[m + 1] = Folded("place", {}, g[m], Mandatory[m + 1])
  <2>1. Goes("place", {}, t, Mandatory, n, Ready(t))
    BY <1>1, FoldPlaces
  <2> QED
    BY <2>1 DEF Goes
<1> DEFINE G == {m \in 0 .. n : Placing(g[m], m)}
<1>3. Placing(g[0], 0)
  <2>1. Live(t) = {} /\ Len(t.list) = 0
    BY EmptyLists DEF Live, Lists
  <2>2. Placing(t, 0)
    BY <2>1 DEF Placing, TreeOK
  <2> QED
    BY <1>2, <2>2
<1>4. ASSUME NEW m \in 0 .. n - 1, Placing(g[m], m) PROVE Placing(g[m + 1], m + 1)
  <2>1. Placing(Placed(g[m], Mandatory[m + 1]), m + 1)
    BY <1>4, PlacedIs
  <2> QED
    BY <1>2, <2>1 DEF Folded
<1> HIDE DEF n
<1>5. 0 \in G /\ \A m \in 0 .. n - 1 : m \in G => m + 1 \in G
  BY <1>1, <1>3, <1>4
<1> HIDE DEF G
<1>6. 0 .. n \subseteq G
  BY <1>1, <1>5, UpTo
<1>7. n \in G
  BY <1>1, <1>6
<1> QED
  BY <1>2, <1>7 DEF G, n

LEMMA ReadyOK ==
  ASSUME NEW t, TreeOK(t)
  PROVE  /\ TreeOK(Ready(t))
         /\ Ready(t) = t \/ (t.list = <<>> /\ Len(Ready(t).list) = Len(Mandatory))
<1>1. CASE t.list # <<>>
  BY <1>1 DEF Ready
<1>2. CASE t.list = <<>>
  <2>1. Placing(Ready(t), Len(Mandatory))
    BY <1>2, ReadyPlaces
  <2>2. Alone(Ready(t))
    <3>1. \A i \in 1 .. Len(Mandatory) : Mandatory[i] \in ToSet(Mandatory)
      BY MapAssumption DEF ToSet
    <3> QED
      BY <2>1, <3>1 DEF Placing, Alone
  <2> QED
    BY <1>2, <2>1, <2>2 DEF Placing, TreeOK
<1> QED
  BY <1>1, <1>2

\* The placeholders that give way to a child of the name n are those of the name.
Stale(u, n) == {o \in Under(u, Bare(n)) : ~u.child[o].loaded}

LEMMA StaleIs ==
  ASSUME NEW u, TreeOK(u), NEW n
  PROVE  \A o \in Live(u) : o \in Stale(u, n) <=> ~u.child[o].loaded /\ u.child[o].name = n
<1> TAKE o \in Live(u)
<1> DEFINE e == u.child[o]
<1>1. o \in Under(u, Bare(n)) <=> IndexItem(e) = Bare(n)
  <2>1. o \in Under(u, Bare(n)) <=> \E h \in u.hash : h[1] = Bare(n) /\ h[2] = o
    BY DEF Under
  <2>2. u.hash = {<<IndexItem(u.child[p]), p>> : p \in Live(u)}
    BY DEF TreeOK, Agrees
  <2>3. \A h \in u.hash : h[2] = o => h[1] = IndexItem(e)
    BY <2>2
  <2>4. <<IndexItem(e), o>> \in u.hash
    BY <2>2
  <2> HIDE DEF e
  <2>5. ASSUME IndexItem(e) = Bare(n)
        PROVE  \E h \in u.hash : h[1] = Bare(n) /\ h[2] = o
    <3> WITNESS <<IndexItem(e), o>> \in u.hash
    <3> QED
      BY <2>5
  <2> QED
    BY <2>1, <2>3, <2>5
<1>2. IndexItem(e) = Bare(n) => e.name = n
  BY DEF IndexItem, Bare, Item
<1>3. ~e.loaded /\ e.name = n => IndexItem(e) = Bare(n)
  BY DEF IndexItem, Bare, TreeOK, Alone
<1> HIDE DEF e
<1> QED
  BY <1>1, <1>2, <1>3 DEF Stale, e

\* A child is added, at the end of what is left.
LEMMA AddedIs ==
  ASSUME NEW t, TreeOK(t), Len(Ready(t).list) < Capacity, NEW n \in Names, NEW k
  PROVE  /\ TreeOK(Added(t, n, k)) /\ Len(Added(t, n, k).list) <= Len(Ready(t).list) + 1
         /\ Grown(Dropped(Ready(t), Stale(Ready(t), n)), Added(t, n, k), Child(n, k, TRUE))
<1> DEFINE u == Ready(t)
           d == Dropped(u, Stale(u, n))
           e == Child(n, k, TRUE)
           v == Added(t, n, k)
<1>1. v = Filed(d, e)
  BY DEF Added, Child, Stale
<1>2. TreeOK(u) /\ Len(u.list) < Capacity
  BY ReadyOK
<1> HIDE DEF u, v
<1>3. /\ TreeOK(d) /\ Len(d.list) <= Len(u.list) /\ Live(d) = Live(u) \ Stale(u, n)
      /\ \A p \in Live(d) : d.child[p] = u.child[p]
  BY <1>2, DroppedOK
<1> HIDE DEF d
<1>4. Len(d.list) \in Nat /\ Len(u.list) \in Nat /\ Len(d.list) < Capacity
  <2>1. Len(d.list) \in Nat /\ Len(u.list) \in Nat
    BY <1>2, <1>3 DEF TreeOK, Agrees, Lists
  <2> QED
    BY <1>2, <1>3, <2>1, CapacityIs
<1>5. Agrees(v) /\ Grown(d, v, e)
  BY <1>1, <1>3, <1>4, FiledIs DEF TreeOK
<1>6. e.name = n /\ e.loaded = TRUE
  BY DEF Child
<1> HIDE DEF e
<1>7. PICK o \in Objects \ Live(d) :
            /\ v.list = Append(d.list, o)
            /\ Live(v) = Live(d) \cup {o} /\ v.child[o] = e
            /\ \A p \in Live(d) : v.child[p] = d.child[p]
  BY <1>5 DEF Grown
<1>8. \A p \in Live(d) : ~d.child[p].loaded => d.child[p].name # n
  BY <1>2, <1>3, StaleIs
<1>9. Alone(v)
  BY <1>3, <1>6, <1>7, <1>8 DEF TreeOK, Alone
<1>10. TreeOK(v)
  BY <1>5, <1>9 DEF TreeOK
<1>11. Len(v.list) <= Len(u.list) + 1
  BY <1>3, <1>4, <1>5 DEF Grown
<1> QED
  BY <1>5, <1>10, <1>11 DEF u, d, e, v

\* How long the list may be when it is used.
LEMMA ReadyLength ==
  ASSUME NEW t, TreeOK(t), NEW b \in Nat, Len(t.list) <= b, Len(Mandatory) <= b
  PROVE  Len(Ready(t).list) <= b /\ Len(Ready(t).list) \in Nat
<1>1. TreeOK(Ready(t))
  BY ReadyOK
<1>2. Len(Ready(t).list) \in Nat
  BY <1>1 DEF TreeOK, Agrees, Lists
<1> QED
  BY <1>2, ReadyOK

LEMMA LoadChildOK ==
  ASSUME NEW t, TreeOK(t), NEW s,
         NEW b \in Nat, Len(t.list) <= b, Len(Mandatory) <= b, b < Capacity
  PROVE  TreeOK(LoadChild(t, s)) /\ Len(LoadChild(t, s).list) <= b + 1
<1> DEFINE u == Ready(t)
<1>1. TreeOK(u) /\ Len(u.list) <= b /\ Len(u.list) \in Nat
  BY ReadyOK, ReadyLength
<1>2. LoadChild(t, s) = IF s.name \in Names THEN Added(u, s.name, KeysOf(s)) ELSE u
  BY DEF LoadChild
<1> HIDE DEF u
<1>3. Len(Ready(u).list) <= b /\ Len(Ready(u).list) \in Nat
  BY <1>1, ReadyLength
<1>4. Len(Ready(u).list) < Capacity
  BY <1>3, CapacityIs
<1>5. CASE s.name \in Names
  <2> DEFINE v == Added(u, s.name, KeysOf(s))
  <2>1. TreeOK(v) /\ Len(v.list) <= Len(Ready(u).list) + 1
    BY <1>1, <1>4, <1>5, AddedIs
  <2>2. Len(v.list) \in Nat
    BY <2>1 DEF TreeOK, Agrees, Lists
  <2> QED
    BY <1>2, <1>3, <1>5, <2>1, <2>2
<1>6. CASE s.name \notin Names
  BY <1>1, <1>2, <1>6
<1> QED
  BY <1>5, <1>6

LEMMA LoadedOK ==
  ASSUME NEW t, TreeOK(t), NEW n \in Nat, NEW doc, DOMAIN doc = 1 .. n,
         Len(t.list) + n <= MaxChildren
  PROVE  TreeOK(Loaded(t, doc))
<1> DEFINE base == Len(t.list) + Len(Mandatory)
<1>1. PICK g : /\ g[0] = t /\ g[n] = Loaded(t, doc)
               /\ \A m \in 0 .. n - 1 : g[m + 1] = Folded("load", {}, g[m], doc[m + 1])
  <2>1. Goes("load", {}, t, doc, n, Loaded(t, doc))
    BY FoldLoads
  <2> QED
    BY <2>1 DEF Goes
<1>2. /\ Len(t.list) \in Nat /\ Len(Mandatory) \in Nat /\ base \in Nat
      /\ \A m \in 0 .. n - 1 : /\ base + m \in Nat /\ base + m < Capacity
                               /\ Len(Mandatory) <= base + m
  <2>1. Len(t.list) \in Nat
    BY DEF TreeOK, Agrees, Lists
  <2> QED
    BY <2>1, CapacityIs, MapAssumption DEF Capacity
<1> DEFINE P(m) == TreeOK(g[m]) /\ Len(g[m].list) <= base + m
           G == {m \in 0 .. n : P(m)}
<1>3. P(0)
  BY <1>1, <1>2
<1>4. ASSUME NEW m \in 0 .. n - 1, P(m) PROVE P(m + 1)
  <2>1. /\ TreeOK(LoadChild(g[m], doc[m + 1]))
        /\ Len(LoadChild(g[m], doc[m + 1]).list) <= base + m + 1
    <3> HIDE DEF base
    <3> QED
      BY <1>2, <1>4, LoadChildOK
  <2>2. g[m + 1] = LoadChild(g[m], doc[m + 1])
    BY <1>1 DEF Folded
  <2> HIDE DEF base
  <2>3. m \in Nat /\ base + m + 1 = base + (m + 1)
    BY <1>2
  <2> QED
    BY <2>1, <2>2, <2>3
<1> HIDE DEF P
<1>5. 0 \in G /\ \A m \in 0 .. n - 1 : m \in G => m + 1 \in G
  BY <1>3, <1>4
<1>6. n \in G
  <2> HIDE DEF G
  <2>1. 0 .. n \subseteq G
    BY <1>5, UpTo
  <2> QED
    BY <2>1
<1> QED
  BY <1>1, <1>6 DEF P


-----------------------------------------------------------------------------
\* Without, by induction over the sequence.

LEMMA SequencesAreIn ==
  ASSUME NEW A, NEW l \in Seq(A), NEW G, <<>> \in G,
         \A k \in Seq(A), x \in A : k \in G => Append(k, x) \in G
  PROVE  l \in G
<1> DEFINE n == Len(l)
           H == {m \in 0 .. n : SubSeq(l, 1, m) \in G}
<1>1. n \in Nat /\ SubSeq(l, 1, n) = l /\ SubSeq(l, 1, 0) = <<>>
  OBVIOUS
<1>2. ASSUME NEW m \in 0 .. n - 1, SubSeq(l, 1, m) \in G PROVE SubSeq(l, 1, m + 1) \in G
  <2>1. SubSeq(l, 1, m) \in Seq(A) /\ l[m + 1] \in A
    OBVIOUS
  <2>2. SubSeq(l, 1, m + 1) = Append(SubSeq(l, 1, m), l[m + 1])
    OBVIOUS
  <2> QED
    BY <1>2, <2>1, <2>2
<1>3. 0 \in H /\ \A m \in 0 .. n - 1 : m \in H => m + 1 \in H
  <2>1. 0 \in H
    <3>1. SubSeq(l, 1, 0) \in G
      BY <1>1, Zenon
    <3>2. 0 \in 0 .. n
      BY <1>1
    <3> QED
      BY <3>1, <3>2, Zenon
  <2>2. ASSUME NEW m \in 0 .. n - 1, m \in H PROVE m + 1 \in H
    <3>1. m + 1 \in 0 .. n
      BY <1>1
    <3> QED
      BY <1>2, <2>2, <3>1
  <2> QED
    BY <2>1, <2>2
<1> HIDE DEF n, H
<1>4. 0 .. n \subseteq H
  BY <1>1, <1>3, UpTo
<1>5. n \in H
  BY <1>1, <1>4
<1> QED
  BY <1>1, <1>5 DEF H

LEMMA WithoutNone == ASSUME NEW S PROVE Without(<<>>, S) = <<>>
<1>1. Goes("keep", S, <<>>, <<>>, 0, Without(<<>>, S))
  BY FoldKeeps
<1> QED
  BY <1>1 DEF Goes

LEMMA WithoutAppend ==
  ASSUME NEW A, NEW l \in Seq(A), NEW x \in A, NEW S
  PROVE  Without(Append(l, x), S) = IF x \in S THEN Without(l, S)
                                    ELSE Append(Without(l, S), x)
<1> DEFINE n == Len(l)
           k == Append(l, x)
<1>1. /\ n \in Nat /\ DOMAIN l = 1 .. n /\ DOMAIN k = 1 .. n + 1 /\ k[n + 1] = x
      /\ \A m \in 0 .. n - 1 : k[m + 1] = l[m + 1]
  OBVIOUS
<1> HIDE DEF n, k
<1>2. PICK g : /\ g[0] = <<>> /\ g[n] = Without(l, S)
               /\ \A m \in 0 .. n - 1 : g[m + 1] = Folded("keep", S, g[m], l[m + 1])
  <2>1. Goes("keep", S, <<>>, l, n, Without(l, S))
    BY <1>1, FoldKeeps
  <2> QED
    BY <2>1 DEF Goes
<1>3. PICK h : /\ h[0] = <<>> /\ h[n + 1] = Without(k, S)
               /\ \A m \in 0 .. (n + 1) - 1 :
                     h[m + 1] = Folded("keep", S, h[m], k[m + 1])
  <2>1. n + 1 \in Nat
    BY <1>1
  <2>2. Goes("keep", S, <<>>, k, n + 1, Without(k, S))
    BY <1>1, <2>1, FoldKeeps
  <2> QED
    BY <2>2 DEF Goes
<1> DEFINE G == {m \in 0 .. n : g[m] = h[m]}
<1>4. ASSUME NEW m \in 0 .. n - 1, g[m] = h[m] PROVE g[m + 1] = h[m + 1]
  <2>1. m \in 0 .. (n + 1) - 1
    BY <1>1
  <2>2. g[m + 1] = Folded("keep", S, g[m], l[m + 1])
    BY <1>2
  <2>3. h[m + 1] = Folded("keep", S, h[m], k[m + 1])
    BY <1>3, <2>1
  <2> QED
    BY <1>1, <1>4, <2>2, <2>3
<1>5. 0 \in G /\ \A m \in 0 .. n - 1 : m \in G => m + 1 \in G
  BY <1>1, <1>2, <1>3, <1>4
<1>6. g[n] = h[n]
  <2> HIDE DEF G
  <2>1. 0 .. n \subseteq G
    BY <1>1, <1>5, UpTo
  <2>2. n \in G
    BY <1>1, <2>1
  <2> QED
    BY <2>2 DEF G
<1>7. n \in 0 .. (n + 1) - 1
  BY <1>1
<1>8. h[n + 1] = Folded("keep", S, h[n], k[n + 1])
  BY <1>3, <1>7
<1> QED
  BY <1>1, <1>2, <1>3, <1>6, <1>8 DEF Folded, Kept, k

LEMMA WithoutIsSeq ==
  ASSUME NEW A, NEW l \in Seq(A), NEW S
  PROVE  Without(l, S) \in Seq(A)
<1> DEFINE G == {k \in Seq(A) : Without(k, S) \in Seq(A)}
<1>1. <<>> \in G
  <2>1. <<>> \in Seq(A)
    OBVIOUS
  <2> QED
    BY <2>1, WithoutNone
<1>2. ASSUME NEW k \in Seq(A), NEW x \in A, k \in G PROVE Append(k, x) \in G
  <2>1. Append(k, x) \in Seq(A) /\ Append(Without(k, S), x) \in Seq(A)
    BY <1>2
  <2>2. Without(Append(k, x), S) = IF x \in S THEN Without(k, S) ELSE Append(Without(k, S), x)
    BY WithoutAppend
  <2> QED
    BY <1>2, <2>1, <2>2
<1> HIDE DEF G
<1>3. l \in G
  BY <1>1, <1>2, SequencesAreIn
<1> QED
  BY <1>3 DEF G

LEMMA WithoutConcat ==
  ASSUME NEW A, NEW a \in Seq(A), NEW b \in Seq(A), NEW S
  PROVE  Without(a \o b, S) = Without(a, S) \o Without(b, S)
<1> DEFINE G == {k \in Seq(A) : Without(a \o k, S) = Without(a, S) \o Without(k, S)}
<1>0. Without(a, S) \in Seq(A)
  BY WithoutIsSeq
<1>1. <<>> \in G
  <2>1. <<>> \in Seq(A) /\ a \o <<>> = a /\ Without(a, S) \o <<>> = Without(a, S)
    BY <1>0
  <2> QED
    BY <2>1, WithoutNone
<1>2. ASSUME NEW k \in Seq(A), NEW x \in A, k \in G PROVE Append(k, x) \in G
  <2>1. Without(k, S) \in Seq(A)
    BY WithoutIsSeq
  <2>2. /\ Append(k, x) \in Seq(A) /\ a \o k \in Seq(A)
        /\ a \o Append(k, x) = Append(a \o k, x)
    OBVIOUS
  <2>3. Without(a, S) \o Append(Without(k, S), x) = Append(Without(a, S) \o Without(k, S), x)
    BY <1>0, <2>1
  <2>4. Without(a \o k, S) = Without(a, S) \o Without(k, S)
    BY <1>2
  <2>5. Without(Append(k, x), S) = IF x \in S THEN Without(k, S) ELSE Append(Without(k, S), x)
    BY WithoutAppend
  <2>6. Without(Append(a \o k, x), S)
          = IF x \in S THEN Without(a \o k, S) ELSE Append(Without(a \o k, S), x)
    <3> DEFINE c == a \o k
    <3>1. c \in Seq(A)
      BY <2>2
    <3> HIDE DEF c
    <3>2. Without(Append(c, x), S)
            = IF x \in S THEN Without(c, S) ELSE Append(Without(c, S), x)
      BY <3>1, WithoutAppend
    <3> QED
      BY <3>2 DEF c
  <2>7. Without(a \o Append(k, x), S) = Without(a, S) \o Without(Append(k, x), S)
    BY <2>2, <2>3, <2>4, <2>5, <2>6
  <2> QED
    BY <2>2, <2>7
<1> HIDE DEF G
<1>3. b \in G
  BY <1>1, <1>2, SequencesAreIn
<1> QED
  BY <1>3 DEF G

LEMMA WithoutTwice ==
  ASSUME NEW A, NEW l \in Seq(A), NEW S, NEW T
  PROVE  Without(Without(l, S), T) = Without(l, S \cup T)
<1> DEFINE G == {k \in Seq(A) : Without(Without(k, S), T) = Without(k, S \cup T)}
<1>1. <<>> \in G
  <2>1. <<>> \in Seq(A)
    OBVIOUS
  <2> QED
    BY <2>1, WithoutNone
<1>2. ASSUME NEW k \in Seq(A), NEW x \in A, k \in G PROVE Append(k, x) \in G
  <2>1. Without(k, S) \in Seq(A)
    BY WithoutIsSeq
  <2>2. Without(Append(k, x), S) = IF x \in S THEN Without(k, S) ELSE Append(Without(k, S), x)
    BY WithoutAppend
  <2>3. Without(Append(Without(k, S), x), T)
          = IF x \in T THEN Without(Without(k, S), T) ELSE Append(Without(Without(k, S), T), x)
    BY <2>1, WithoutAppend
  <2>4. Without(Append(k, x), S \cup T)
          = IF x \in S \cup T THEN Without(k, S \cup T) ELSE Append(Without(k, S \cup T), x)
    BY WithoutAppend
  <2>5. Without(Without(k, S), T) = Without(k, S \cup T) /\ Append(k, x) \in Seq(A)
    BY <1>2
  <2>6. Without(Without(Append(k, x), S), T) = Without(Append(k, x), S \cup T)
    BY <2>2, <2>3, <2>4, <2>5
  <2> QED
    BY <2>5, <2>6
<1> HIDE DEF G
<1>3. l \in G
  BY <1>1, <1>2, SequencesAreIn
<1> QED
  BY <1>3 DEF G

LEMMA WithoutOthers ==
  ASSUME NEW A, NEW l \in Seq(A), NEW S, A \cap S = {}
  PROVE  Without(l, S) = l
<1> DEFINE G == {k \in Seq(A) : Without(k, S) = k}
<1>1. <<>> \in G
  <2>1. <<>> \in Seq(A)
    OBVIOUS
  <2> QED
    BY <2>1, WithoutNone
<1>2. ASSUME NEW k \in Seq(A), NEW x \in A, k \in G PROVE Append(k, x) \in G
  <2>1. Append(k, x) \in Seq(A) /\ x \notin S /\ Without(k, S) = k
    BY <1>2
  <2>2. Without(Append(k, x), S) = Append(Without(k, S), x)
    BY <2>1, WithoutAppend
  <2> QED
    BY <2>1, <2>2
<1> HIDE DEF G
<1>3. l \in G
  BY <1>1, <1>2, SequencesAreIn
<1> QED
  BY <1>3 DEF G

\* The images of a sequence, member by member.
Image(f, l) == [i \in DOMAIN l |-> f[l[i]]]

LEMMA ImageAppend ==
  ASSUME NEW A, NEW f, NEW l \in Seq(A), NEW x \in A
  PROVE  Image(f, Append(l, x)) = Append(Image(f, l), f[x])
<1> DEFINE B == {f[y] : y \in A}
<1>1. Image(f, l) \in Seq(B) /\ Len(Image(f, l)) = Len(l)
  BY DEF Image
<1> DEFINE k == Append(l, x)
<1>2. /\ DOMAIN k = 1 .. Len(l) + 1 /\ k[Len(l) + 1] = x /\ Len(l) \in Nat
      /\ \A i \in 1 .. Len(l) : k[i] = l[i] /\ Image(f, l)[i] = f[l[i]]
  BY DEF Image
<1>3. f[x] \in B
  OBVIOUS
<1> HIDE DEF k
<1>4. \A i \in 1 .. Len(l) + 1 : f[k[i]] = Append(Image(f, l), f[x])[i]
  BY <1>1, <1>2, <1>3
<1>5. Append(Image(f, l), f[x]) \in Seq(B) /\ Len(Append(Image(f, l), f[x])) = Len(l) + 1
  BY <1>1, <1>3
<1>6. Image(f, k) = [i \in 1 .. Len(l) + 1 |-> f[k[i]]]
  BY <1>2 DEF Image
<1>7. Append(Image(f, l), f[x])
         = [i \in 1 .. Len(l) + 1 |-> Append(Image(f, l), f[x])[i]]
  BY <1>5
<1> QED
  BY <1>1, <1>4, <1>6, <1>7 DEF k

LEMMA ImageConcat ==
  ASSUME NEW A, NEW f, NEW a \in Seq(A), NEW b \in Seq(A)
  PROVE  Image(f, a \o b) = Image(f, a) \o Image(f, b)
<1> DEFINE B == {f[y] : y \in A}
           G == {k \in Seq(A) : Image(f, a \o k) = Image(f, a) \o Image(f, k)}
<1>0. \A k \in Seq(A) : Image(f, k) \in Seq(B)
  BY DEF Image
<1>1. <<>> \in G
  <2>1. <<>> \in Seq(A) /\ a \o <<>> = a /\ Image(f, <<>>) = <<>>
    BY DEF Image
  <2>2. Image(f, a) \o <<>> = Image(f, a)
    BY <1>0
  <2> QED
    BY <2>1, <2>2
<1>2. ASSUME NEW k \in Seq(A), NEW x \in A, k \in G PROVE Append(k, x) \in G
  <2>1. /\ Append(k, x) \in Seq(A) /\ a \o k \in Seq(A)
        /\ a \o Append(k, x) = Append(a \o k, x)
    OBVIOUS
  <2>2. /\ Image(f, Append(k, x)) = Append(Image(f, k), f[x])
        /\ Image(f, Append(a \o k, x)) = Append(Image(f, a \o k), f[x])
    BY <2>1, ImageAppend
  <2>3. Image(f, a) \o Append(Image(f, k), f[x]) = Append(Image(f, a) \o Image(f, k), f[x])
    <3>1. Image(f, a) \in Seq(B) /\ Image(f, k) \in Seq(B) /\ f[x] \in B
      BY <1>0
    <3> QED
      BY <3>1
  <2>4. Image(f, a \o k) = Image(f, a) \o Image(f, k)
    BY <1>2
  <2>5. Image(f, a \o Append(k, x)) = Image(f, a) \o Image(f, Append(k, x))
    BY <2>1, <2>2, <2>3, <2>4
  <2> QED
    BY <2>1, <2>5
<1> HIDE DEF G
<1>3. b \in G
  BY <1>1, <1>2, SequencesAreIn
<1> QED
  BY <1>3 DEF G

LEMMA WithoutImage ==
  ASSUME NEW A, NEW f, NEW l \in Seq(A), NEW S, NEW T,
         \A x \in A : x \in S <=> f[x] \in T
  PROVE  Image(f, Without(l, S)) = Without(Image(f, l), T)
<1> DEFINE B == {f[y] : y \in A}
           G == {k \in Seq(A) : Image(f, Without(k, S)) = Without(Image(f, k), T)}
<1>1. <<>> \in G
  <2>1. <<>> \in Seq(A) /\ Image(f, <<>>) = <<>>
    BY DEF Image
  <2> QED
    BY <2>1, WithoutNone
<1>2. ASSUME NEW k \in Seq(A), NEW x \in A, k \in G PROVE Append(k, x) \in G
  <2>1. Without(k, S) \in Seq(A) /\ Append(k, x) \in Seq(A)
    BY WithoutIsSeq
  <2>2. /\ Image(f, k) \in Seq(B) /\ f[x] \in B
        /\ Image(f, Append(k, x)) = Append(Image(f, k), f[x])
        /\ Image(f, Append(Without(k, S), x)) = Append(Image(f, Without(k, S)), f[x])
    <3>1. f[x] \in B /\ Image(f, k) \in Seq(B)
      BY DEF Image
    <3>2. Image(f, Append(k, x)) = Append(Image(f, k), f[x])
      BY ImageAppend
    <3> DEFINE j == Without(k, S)
    <3> HIDE DEF j
    <3>3. Image(f, Append(j, x)) = Append(Image(f, j), f[x])
      BY <2>1, ImageAppend DEF j
    <3> QED
      BY <3>1, <3>2, <3>3 DEF j
  <2>3. Without(Append(k, x), S) = IF x \in S THEN Without(k, S) ELSE Append(Without(k, S), x)
    BY WithoutAppend
  <2>4. Without(Append(Image(f, k), f[x]), T)
          = IF f[x] \in T THEN Without(Image(f, k), T) ELSE Append(Without(Image(f, k), T), f[x])
    <3> DEFINE i == Image(f, k)
               y == f[x]
    <3>1. i \in Seq(B) /\ y \in B
      BY <2>2
    <3> HIDE DEF B, i, y
    <3>2. Without(Append(i, y), T) = IF y \in T THEN Without(i, T) ELSE Append(Without(i, T), y)
      BY <3>1, WithoutAppend
    <3> QED
      BY <3>2 DEF i, y
  <2>5. Image(f, Without(k, S)) = Without(Image(f, k), T)
    BY <1>2
  <2>6. Image(f, Without(Append(k, x), S)) = Without(Image(f, Append(k, x)), T)
    BY <2>2, <2>3, <2>4, <2>5
  <2> QED
    BY <2>1, <2>6
<1> HIDE DEF G
<1>3. l \in G
  BY <1>1, <1>2, SequencesAreIn
<1> QED
  BY <1>3 DEF G


-----------------------------------------------------------------------------
\* Loading a stored element.

NamesOf(t, l) == [i \in DOMAIN l |-> t.child[l[i]].name]

LEMMA NamesAreImage ==
  ASSUME NEW t, NEW A, NEW l \in Seq(A)
  PROVE  NamesOf(t, l) = Image([o \in A |-> t.child[o].name], l)
BY DEF NamesOf, Image

\* After the children with the names d have been loaded into a tree that was empty:
\* placeholders are left of the other mandatory names, and then come those of d.
Loading(u, d) ==
    /\ TreeOK(u) /\ Ready(u) = u
    /\ \E p, q \in Seq(Objects) :
          /\ u.list = p \o q
          /\ \A i \in DOMAIN p : ~u.child[p[i]].loaded
          /\ \A i \in DOMAIN q : u.child[q[i]].loaded
          /\ NamesOf(u, p) = Without(Mandatory, ToSet(d))
          /\ NamesOf(u, q) = Without(d, {Unknown})

StoredNames == Names \cup {Unknown}

LEMMA ToSetAppend ==
  ASSUME NEW A, NEW d \in Seq(A), NEW x \in A
  PROVE  ToSet(Append(d, x)) = ToSet(d) \cup {x}
<1> DEFINE k == Append(d, x)
<1>1. /\ DOMAIN k = 1 .. Len(d) + 1 /\ DOMAIN d = 1 .. Len(d) /\ Len(d) \in Nat
      /\ k[Len(d) + 1] = x /\ \A i \in 1 .. Len(d) : k[i] = d[i]
  OBVIOUS
<1> HIDE DEF k
<1>2. ToSet(k) \subseteq ToSet(d) \cup {x}
  <2> SUFFICES ASSUME NEW i \in DOMAIN k PROVE k[i] \in ToSet(d) \cup {x}
    BY DEF ToSet
  <2>1. i = Len(d) + 1 \/ i \in 1 .. Len(d)
    BY <1>1
  <2> QED
    BY <1>1, <2>1 DEF ToSet
<1>3. ASSUME NEW y \in ToSet(d) PROVE y \in ToSet(k)
  <2>1. PICK i \in DOMAIN d : d[i] = y
    BY DEF ToSet
  <2> QED
    BY <1>1, <2>1 DEF ToSet
<1>4. x \in ToSet(k)
  BY <1>1 DEF ToSet
<1> QED
  BY <1>2, <1>3, <1>4 DEF k

LEMMA NoneLoaded ==
  ASSUME NEW t, TreeOK(t), t.list = <<>>
  PROVE  Loading(Ready(t), <<>>)
<1> DEFINE n == Len(Mandatory)
           u == Ready(t)
<1>1. n \in Nat /\ Mandatory \in Seq(Names) /\ ToSet(<<>>) = {}
  BY CapacityIs, MapAssumption DEF ToSet
<1>2. TreeOK(u) /\ Placing(u, n)
  BY ReadyOK, ReadyPlaces
<1> HIDE DEF u
<1>3. u.list \in Seq(Objects) /\ Len(u.list) = n
  BY <1>2 DEF TreeOK, Agrees, Lists, Placing
<1>4. Ready(u) = u
  <2>1. CASE u.list # <<>>
    BY <2>1 DEF Ready
  <2>2. CASE u.list = <<>>
    <3>1. n = 0
      BY <1>3, <2>2
    <3>2. Goes("place", {}, u, Mandatory, 0, Ready(u))
      BY <2>2, <3>1, FoldPlaces
    <3> QED
      BY <3>2 DEF Goes
  <2> QED
    BY <2>1, <2>2
<1>5. NamesOf(u, u.list) = Mandatory
  <2>1. NamesOf(u, u.list) = [i \in 1 .. n |-> Mandatory[i]]
    BY <1>2, <1>3 DEF NamesOf, Placing
  <2>2. Mandatory = [i \in 1 .. n |-> Mandatory[i]]
    BY <1>1
  <2> QED
    BY <2>1, <2>2
<1>6. Without(Mandatory, {}) = Mandatory
  BY <1>1, WithoutOthers
<1>7. \A i \in DOMAIN u.list : ~u.child[u.list[i]].loaded
  BY <1>2 DEF Placing, Live, ToSet
<1>8. /\ <<>> \in Seq(Objects) /\ u.list = u.list \o <<>> /\ NamesOf(u, <<>>) = <<>>
      /\ DOMAIN <<>> = {}
  BY <1>3 DEF NamesOf
<1>9. Without(<<>>, {Unknown}) = <<>>
  BY WithoutNone
<1>10. \E p, q \in Seq(Objects) :
          /\ u.list = p \o q
          /\ \A i \in DOMAIN p : ~u.child[p[i]].loaded
          /\ \A i \in DOMAIN q : u.child[q[i]].loaded
          /\ NamesOf(u, p) = Without(Mandatory, ToSet(<<>>))
          /\ NamesOf(u, q) = Without(<<>>, {Unknown})
  <2> DEFINE p == u.list
             q == <<>>
  <2>1. /\ p \in Seq(Objects) /\ q \in Seq(Objects) /\ u.list = p \o q
        /\ \A i \in DOMAIN p : ~u.child[p[i]].loaded
        /\ \A i \in DOMAIN q : u.child[q[i]].loaded
        /\ NamesOf(u, p) = Without(Mandatory, ToSet(<<>>))
        /\ NamesOf(u, q) = Without(<<>>, {Unknown})
    BY <1>1, <1>3, <1>5, <1>6, <1>7, <1>8, <1>9
  <2> HIDE DEF p, q
  <2> QED
    BY <2>1
<1> QED
  BY <1>2, <1>4, <1>10 DEF Loading, u


-----------------------------------------------------------------------------
\* Loading, child by child.

LEMMA ConcatMembers ==
  ASSUME NEW A, NEW p \in Seq(A), NEW q \in Seq(A)
  PROVE  ToSet(p) \subseteq ToSet(p \o q) /\ ToSet(q) \subseteq ToSet(p \o q)
<1> DEFINE l == p \o q
           m == Len(p)
           n == Len(q)
<1>1. /\ m \in Nat /\ n \in Nat /\ DOMAIN l = 1 .. m + n
      /\ DOMAIN p = 1 .. m /\ DOMAIN q = 1 .. n
      /\ \A i \in 1 .. m : l[i] = p[i]
      /\ \A i \in 1 .. n : l[m + i] = q[i]
  OBVIOUS
<1> HIDE DEF l, m, n
<1>2. \A i \in 1 .. m : i \in 1 .. m + n
  BY <1>1
<1>3. \A i \in 1 .. n : m + i \in 1 .. m + n
  BY <1>1
<1>4. ToSet(p) \subseteq ToSet(l)
  BY <1>1, <1>2 DEF ToSet
<1>5. ToSet(q) \subseteq ToSet(l)
  BY <1>1, <1>3 DEF ToSet
<1> QED
  BY <1>4, <1>5 DEF l

LEMMA ConcatAppend ==
  ASSUME NEW A, NEW a \in Seq(A), NEW b \in Seq(A), NEW x \in A
  PROVE  Append(a \o b, x) = a \o Append(b, x) /\ Append(b, x) \in Seq(A)
OBVIOUS

LEMMA SeqOfItsMembers == ASSUME NEW A, NEW l \in Seq(A) PROVE l \in Seq(ToSet(l))
BY DEF ToSet

\* What is left of p has the names that are left of those of p.
LEMMA StaleNames ==
  ASSUME NEW u, TreeOK(u), NEW n, NEW p \in Seq(Objects), ToSet(p) \subseteq Live(u),
         \A i \in DOMAIN p : ~u.child[p[i]].loaded
  PROVE  NamesOf(u, Without(p, Stale(u, n))) = Without(NamesOf(u, p), {n})
<1> DEFINE S == Stale(u, n)
           A == ToSet(p)
           f == [o \in A |-> u.child[o].name]
<1>1. p \in Seq(A)
  BY SeqOfItsMembers
<1>2. \A o \in A : o \in S <=> u.child[o].name = n
  <2> TAKE o \in A
  <2>1. o \in Live(u) /\ ~u.child[o].loaded
    BY DEF ToSet
  <2> QED
    BY <2>1, StaleIs
<1> HIDE DEF S
<1>3. \A o \in A : o \in S <=> f[o] \in {n}
  BY <1>2
<1>4. Without(p, S) \in Seq(A)
  BY <1>1, WithoutIsSeq
<1> HIDE DEF A
<1>5. NamesOf(u, p) = Image(f, p)
  BY <1>1, NamesAreImage
<1>6. NamesOf(u, Without(p, S)) = Image(f, Without(p, S))
  BY <1>4, NamesAreImage
<1> HIDE DEF f
<1>7. Image(f, Without(p, S)) = Without(Image(f, p), {n})
  BY <1>1, <1>3, WithoutImage
<1> QED
  BY <1>5, <1>6, <1>7 DEF S

\* Names are those of the objects.
LEMMA SameNames ==
  ASSUME NEW u, NEW v, NEW A, NEW l \in Seq(A), \A o \in A : u.child[o] = v.child[o]
  PROVE  NamesOf(u, l) = NamesOf(v, l)
<1>1. \A i \in DOMAIN l : l[i] \in A
  OBVIOUS
<1> QED
  BY <1>1 DEF NamesOf

\* A child of a known name is added to what has been loaded.
LEMMA AddStep ==
  ASSUME NEW u, NEW d \in Seq(StoredNames), Loading(u, d), NEW n \in Names, NEW k,
         Len(u.list) < Capacity
  PROVE  Loading(Added(u, n, k), Append(d, n))
<1> DEFINE S == Stale(u, n)
           w == Dropped(u, S)
           v == Added(u, n, k)
           e == Child(n, k, TRUE)
<1>1. TreeOK(u) /\ Ready(u) = u
  BY DEF Loading
<1>2. PICK p, q \in Seq(Objects) :
         /\ u.list = p \o q
         /\ \A i \in DOMAIN p : ~u.child[p[i]].loaded
         /\ \A i \in DOMAIN q : u.child[q[i]].loaded
         /\ NamesOf(u, p) = Without(Mandatory, ToSet(d))
         /\ NamesOf(u, q) = Without(d, {Unknown})
  BY DEF Loading
<1>3. TreeOK(v) /\ Grown(w, v, e)
  BY <1>1, AddedIs
<1>4. /\ Live(w) = Live(u) \ S
      /\ \A o \in Live(w) : w.child[o] = u.child[o]
  BY <1>1, DroppedOK
<1>5. w.list = Without(u.list, S)
  BY DEF Dropped
<1>6. \A o \in S : ~u.child[o].loaded
  BY DEF Stale
<1>7. e.name = n /\ e.loaded = TRUE /\ n # Unknown /\ n \in StoredNames
  BY MapAssumption DEF Child, StoredNames
<1>8. ToSet(p) \subseteq Live(u) /\ ToSet(q) \subseteq Live(u)
  BY <1>2, ConcatMembers DEF Live
<1> DEFINE r == Without(p, S)
<1>9. NamesOf(u, r) = Without(NamesOf(u, p), {n})
  BY <1>1, <1>2, <1>8, StaleNames
<1>10. w.list = r \o Without(q, S)
  BY <1>2, <1>5, WithoutConcat
<1> HIDE DEF S, w, v, e
<1>11. PICK o \in Objects \ Live(w) :
            /\ v.list = Append(w.list, o)
            /\ Live(v) = Live(w) \cup {o} /\ v.child[o] = e
            /\ \A x \in Live(w) : v.child[x] = w.child[x]
  BY <1>3 DEF Grown
<1>12. q \in Seq(ToSet(q)) /\ ToSet(q) \cap S = {}
  <2>1. q \in Seq(ToSet(q))
    BY <1>2, SeqOfItsMembers
  <2>2. \A x \in ToSet(q) : u.child[x].loaded
    BY <1>2 DEF ToSet
  <2> QED
    BY <1>6, <2>1, <2>2
<1>13. Without(q, S) = q
  BY <1>12, WithoutOthers
<1>14. r \in Seq(ToSet(p)) /\ r \in Seq(Objects)
  <2>1. p \in Seq(ToSet(p))
    BY <1>2, SeqOfItsMembers
  <2> QED
    BY <1>2, <2>1, WithoutIsSeq
<1> HIDE DEF r
<1>15. r \in Seq(Live(w)) /\ q \in Seq(Live(w))
  <2>1. r \in Seq(ToSet(r)) /\ q \in Seq(ToSet(q))
    BY <1>12, <1>14, SeqOfItsMembers
  <2>2. ToSet(r) \subseteq Live(w) /\ ToSet(q) \subseteq Live(w)
    BY <1>2, <1>10, <1>13, <1>14, ConcatMembers DEF Live
  <2> QED
    BY <2>1, <2>2
<1>16. \A x \in Live(w) : v.child[x] = u.child[x]
  BY <1>4, <1>11
<1>17. NamesOf(v, r) = NamesOf(u, r) /\ NamesOf(v, q) = NamesOf(u, q)
  BY <1>15, <1>16, SameNames
<1>18. NamesOf(v, r) = Without(Mandatory, ToSet(Append(d, n)))
  <2>1. Mandatory \in Seq(Names)
    BY MapAssumption
  <2>2. Without(Without(Mandatory, ToSet(d)), {n}) = Without(Mandatory, ToSet(d) \cup {n})
    BY <2>1, WithoutTwice
  <2>3. ToSet(Append(d, n)) = ToSet(d) \cup {n}
    BY <1>7, ToSetAppend
  <2> QED
    BY <1>2, <1>9, <1>17, <2>2, <2>3
<1> DEFINE z == Append(q, o)
<1>19. NamesOf(v, z) = Without(Append(d, n), {Unknown})
  <2> DEFINE f == [x \in Objects |-> v.child[x].name]
  <2>1. z \in Seq(Objects) /\ f[o] = n
    BY <1>2, <1>7, <1>11
  <2>2. NamesOf(v, z) = Image(f, z) /\ NamesOf(v, q) = Image(f, q)
    BY <1>2, <2>1, NamesAreImage
  <2> HIDE DEF f
  <2>3. Image(f, z) = Append(Image(f, q), f[o])
    BY <1>2, <1>11, ImageAppend
  <2>4. Without(Append(d, n), {Unknown}) = Append(Without(d, {Unknown}), n)
    BY <1>7, WithoutAppend
  <2> QED
    BY <1>2, <1>17, <2>1, <2>2, <2>3, <2>4
<1>20. z \in Seq(Objects) /\ v.list = r \o z /\ v.list # <<>>
  <2>1. w.list = r \o q /\ o \in Objects /\ v.list = Append(w.list, o)
    BY <1>10, <1>11, <1>13
  <2>2. Append(r \o q, o) = r \o z /\ z \in Seq(Objects)
    <3>1. r \in Seq(Objects) /\ q \in Seq(Objects)
      BY <1>2, <1>14
    <3>2. o \in Objects
      OBVIOUS
    <3>3. \A a, b \in Seq(Objects), x \in Objects :
             Append(a \o b, x) = a \o Append(b, x) /\ Append(b, x) \in Seq(Objects)
      BY ConcatAppend
    <3>4. Append(r \o q, o) = r \o Append(q, o) /\ Append(q, o) \in Seq(Objects)
      BY <3>1, <3>2, <3>3, Zenon
    <3> QED
      BY <3>4
  <2>3. r \o z # <<>>
    <3>1. Len(r \o z) # 0
      BY <1>14
    <3> QED
      BY <3>1
  <2> QED
    BY <2>1, <2>2, <2>3
<1>21. \A i \in DOMAIN r : ~v.child[r[i]].loaded
  <2> TAKE i \in DOMAIN r
  <2>1. r[i] \in ToSet(p) /\ r[i] \in Live(w)
    BY <1>14, <1>15
  <2>2. ~u.child[r[i]].loaded
    BY <1>2, <2>1 DEF ToSet
  <2> QED
    BY <1>16, <2>1, <2>2
<1>22. \A i \in DOMAIN z : v.child[z[i]].loaded
  <2> TAKE i \in DOMAIN z
  <2>1. (i \in DOMAIN q /\ z[i] = q[i]) \/ z[i] = o
    BY <1>2, <1>11
  <2>2. CASE z[i] = o
    BY <1>7, <1>11, <2>2
  <2>3. CASE i \in DOMAIN q /\ z[i] = q[i]
    <3>1. q[i] \in Live(w)
      BY <1>15, <2>3
    <3> QED
      BY <1>2, <1>16, <2>3, <3>1
  <2> QED
    BY <2>1, <2>2, <2>3
<1> HIDE DEF z
<1>23. \E a, b \in Seq(Objects) :
          /\ v.list = a \o b
          /\ \A i \in DOMAIN a : ~v.child[a[i]].loaded
          /\ \A i \in DOMAIN b : v.child[b[i]].loaded
          /\ NamesOf(v, a) = Without(Mandatory, ToSet(Append(d, n)))
          /\ NamesOf(v, b) = Without(Append(d, n), {Unknown})
  BY <1>14, <1>18, <1>19, <1>20, <1>21, <1>22
<1>24. Ready(v) = v
  BY <1>20 DEF Ready
<1>25. Loading(v, Append(d, n))
  BY <1>3, <1>23, <1>24 DEF Loading
<1> QED
  BY <1>25 DEF v

\* One of an unknown name leaves no trace.
LEMMA SkipStep ==
  ASSUME NEW u, NEW d \in Seq(StoredNames), Loading(u, d)
  PROVE  Loading(u, Append(d, Unknown))
<1> DEFINE c == Append(d, Unknown)
<1>1. Unknown \in StoredNames
  BY DEF StoredNames
<1>2. Without(c, {Unknown}) = Without(d, {Unknown})
  BY <1>1, WithoutAppend
<1>3. ToSet(c) = ToSet(d) \cup {Unknown}
  BY <1>1, ToSetAppend
<1> DEFINE M == Without(Mandatory, ToSet(d))
<1>4. Without(Mandatory, ToSet(c)) = M
  <2>1. Mandatory \in Seq(Names) /\ Names \cap {Unknown} = {}
    BY MapAssumption
  <2>2. M \in Seq(Names)
    BY <2>1, WithoutIsSeq
  <2>3. Without(M, {Unknown}) = Without(Mandatory, ToSet(d) \cup {Unknown})
    BY <2>1, WithoutTwice
  <2> HIDE DEF M, c
  <2>4. Without(M, {Unknown}) = M
    BY <2>1, <2>2, WithoutOthers
  <2> QED
    BY <1>3, <2>3, <2>4
<1> HIDE DEF c
<1>5. Loading(u, c)
  BY <1>2, <1>4 DEF Loading
<1> QED
  BY <1>5 DEF c

LEMMA LoadStep ==
  ASSUME NEW t, TreeOK(t), NEW d \in Seq(StoredNames), Loading(Ready(t), d),
         NEW s, s.name \in StoredNames,
         NEW b \in Nat, Len(t.list) <= b, Len(Mandatory) <= b, b < Capacity
  PROVE  Loading(LoadChild(t, s), Append(d, s.name))
<1> DEFINE u == Ready(t)
<1>1. Len(u.list) < Capacity
  BY ReadyLength, CapacityIs
<1>2. LoadChild(t, s) = IF s.name \in Names THEN Added(u, s.name, KeysOf(s)) ELSE u
  BY DEF LoadChild
<1> HIDE DEF u
<1>3. CASE s.name \in Names
  <2>1. Loading(Added(u, s.name, KeysOf(s)), Append(d, s.name))
    BY <1>1, <1>3, AddStep DEF u
  <2> QED
    BY <1>2, <1>3, <2>1
<1>4. CASE s.name = Unknown
  <2>1. Loading(u, Append(d, Unknown)) /\ s.name \notin Names
    BY <1>4, SkipStep, MapAssumption DEF u
  <2> QED
    BY <1>2, <1>4, <2>1
<1> QED
  BY <1>3, <1>4 DEF StoredNames

\* A stored element is loaded into an empty one.
LEMMA LoadedNames ==
  ASSUME NEW t, TreeOK(t), t.list = <<>>, NEW n \in Nat, n # 0, n <= MaxChildren,
         NEW doc \in Seq(Stored), Len(doc) = n
  PROVE  Loading(Loaded(t, doc), [i \in DOMAIN doc |-> doc[i].name])
<1> DEFINE names == [i \in DOMAIN doc |-> doc[i].name]
           so(m) == SubSeq(names, 1, m)
           base == Len(Mandatory)
<1>1. /\ names \in Seq(StoredNames) /\ Len(names) = n /\ DOMAIN doc = 1 .. n
      /\ \A i \in 1 .. n : names[i] = doc[i].name /\ names[i] \in StoredNames
  <2>1. \A i \in 1 .. n : doc[i].name \in StoredNames
    BY DEF Stored, Item, StoredNames
  <2> QED
    BY <2>1
<1>2. PICK g : /\ g[0] = t /\ g[n] = Loaded(t, doc)
               /\ \A m \in 0 .. n - 1 : g[m + 1] = Folded("load", {}, g[m], doc[m + 1])
  <2>1. Goes("load", {}, t, doc, n, Loaded(t, doc))
    BY <1>1, FoldLoads
  <2> QED
    BY <2>1 DEF Goes
<1> HIDE DEF names
<1>3. /\ base \in Nat /\ Len(t.list) = 0
      /\ \A m \in 0 .. n - 1 : base + m \in Nat /\ base + m < Capacity /\ base <= base + m
  BY CapacityIs, MapAssumption DEF Capacity
<1>4. /\ so(0) = <<>> /\ so(n) = names
      /\ \A m \in 0 .. n - 1 : /\ so(m) \in Seq(StoredNames)
                               /\ so(m + 1) = Append(so(m), names[m + 1])
                               /\ m + 1 \in 1 .. n
  BY <1>1
<1> HIDE DEF so
<1> DEFINE P(m) == /\ TreeOK(g[m]) /\ Len(g[m].list) <= base + m
                   /\ Loading(Ready(g[m]), so(m))
                   /\ m # 0 => Ready(g[m]) = g[m]
           G == {m \in 0 .. n : P(m)}
<1>5. P(0)
  <2>1. Loading(Ready(t), <<>>)
    BY NoneLoaded
  <2> QED
    BY <1>2, <1>3, <1>4, <2>1
<1>6. ASSUME NEW m \in 0 .. n - 1, P(m) PROVE P(m + 1)
  <2> DEFINE s == doc[m + 1]
             v == LoadChild(g[m], s)
  <2> HIDE DEF base, s
  <2>1. TreeOK(v) /\ Len(v.list) <= base + m + 1
    BY <1>3, <1>6, LoadChildOK DEF base
  <2>2. s.name = names[m + 1] /\ s.name \in StoredNames
    BY <1>1, <1>4 DEF s
  <2>3. Loading(v, Append(so(m), s.name))
    BY <1>3, <1>4, <1>6, <2>2, LoadStep DEF base
  <2>4. g[m + 1] = v
    BY <1>2 DEF Folded, s
  <2> HIDE DEF v
  <2>5. Ready(v) = v
    BY <2>3 DEF Loading
  <2>6. base + m + 1 = base + (m + 1)
    BY <1>3
  <2>7. Loading(v, so(m + 1))
    BY <1>4, <2>2, <2>3
  <2> QED
    BY <2>1, <2>4, <2>5, <2>6, <2>7
<1> HIDE DEF P
<1>7. 0 \in G /\ \A m \in 0 .. n - 1 : m \in G => m + 1 \in G
  BY <1>5, <1>6
<1>8. n \in G
  <2> HIDE DEF G
  <2>1. 0 .. n \subseteq G
    BY <1>7, UpTo
  <2> QED
    BY <2>1
<1>9. Ready(g[n]) = g[n] /\ Loading(Ready(g[n]), so(n))
  BY <1>8 DEF P
<1> QED
  BY <1>2, <1>4, <1>9 DEF names

\* What is stored of it.
LEMMA LoadingStores ==
  ASSUME NEW u, NEW d, Loading(u, d)
  PROVE  ToStorage(u) = Without(Mandatory, ToSet(d)) \o Without(d, {Unknown})
<1>1. PICK p, q \in Seq(Objects) :
         /\ u.list = p \o q
         /\ NamesOf(u, p) = Without(Mandatory, ToSet(d))
         /\ NamesOf(u, q) = Without(d, {Unknown})
  BY DEF Loading
<1> DEFINE f == [o \in Objects |-> u.child[o].name]
<1>2. p \o q \in Seq(Objects)
  OBVIOUS
<1>3. /\ NamesOf(u, p) = Image(f, p) /\ NamesOf(u, q) = Image(f, q)
      /\ NamesOf(u, p \o q) = Image(f, p \o q)
  BY <1>2, NamesAreImage
<1> HIDE DEF f
<1>4. Image(f, p \o q) = Image(f, p) \o Image(f, q)
  BY <1>2, ImageConcat
<1>5. ToStorage(u) = NamesOf(u, u.list)
  BY DEF ToStorage, NamesOf
<1> QED
  BY <1>1, <1>3, <1>4, <1>5


-----------------------------------------------------------------------------
\* The steps of Element.

LEMMA BecomesOK == ASSUME NEW t, TreeOK(t), Becomes(t) PROVE TreeOK(Tree)'
BY DEF Becomes, Tree, TreeOK, Agrees, Alone, Live, Lists

LEMMA TreeInit == ElementInit => TreeOK(Tree)
<1> SUFFICES ASSUME ElementInit PROVE TreeOK(Tree)
  OBVIOUS
<1>1. Live(Tree) = {} /\ Lists(Tree.list, {})
  BY EmptyLists DEF ElementInit, Tree, Live, Lists
<1> QED
  BY <1>1 DEF ElementInit, Tree, TreeOK, Agrees, Alone

LEMMA TreeStep == TreeOK(Tree) /\ [ElementNext]_elementVars => TreeOK(Tree)'
<1> SUFFICES ASSUME TreeOK(Tree), [ElementNext]_elementVars PROVE TreeOK(Tree)'
  OBVIOUS
<1>1. ASSUME NEW item \in Items, AddElement(item) PROVE TreeOK(Tree)'
  <2> DEFINE t == Ready(Tree)
  <2>1. TreeOK(t)
    BY ReadyOK
  <2>2. /\ Len(t.list) < MaxChildren
        /\ Becomes(IF ~Finds(t, item) /\ item \in Wellformed
                     THEN Added(t, item.name, item.keys) ELSE t)
    BY <1>1 DEF AddElement
  <2> HIDE DEF t
  <2>3. CASE item \in Wellformed
    <3>1. item.name \in Names
      BY <2>3, MapAssumption DEF Wellformed, Bare, Item
    <3>2. Len(t.list) \in Nat
      BY <2>1 DEF TreeOK, Agrees, Lists
    <3>3. Len(Ready(t).list) < Capacity
      <4>1. Ready(t) = t \/ Len(Ready(t).list) = Len(Mandatory)
        BY <2>1, ReadyOK
      <4> QED
        BY <2>2, <3>2, <4>1, CapacityIs, MapAssumption DEF Capacity
    <3>4. TreeOK(Added(t, item.name, item.keys))
      BY <2>1, <3>1, <3>3, AddedIs
    <3> QED
      BY <2>1, <2>2, <3>4, BecomesOK
  <2>4. CASE item \notin Wellformed
    BY <2>1, <2>2, <2>4, BecomesOK
  <2> QED
    BY <2>3, <2>4
<1>2. ASSUME NEW item \in Items, RemoveElements(item) PROVE TreeOK(Tree)'
  <2>1. Becomes(Dropped(Ready(Tree), Under(Ready(Tree), item)))
    BY <1>2 DEF RemoveElements
  <2>2. TreeOK(Ready(Tree))
    BY ReadyOK
  <2>3. TreeOK(Dropped(Ready(Tree), Under(Ready(Tree), item)))
    BY <2>2, DroppedOK
  <2> QED
    BY <2>1, <2>3, BecomesOK
<1>3. ASSUME NEW doc \in Docs, FromStorage(doc) PROVE TreeOK(Tree)'
  <2>1. PICK n \in Nat : DOMAIN doc = 1 .. n /\ Len(doc) = n
    <3>1. PICK n \in 0 .. MaxStored : doc \in [1 .. n -> Stored]
      BY DEF Docs
    <3>2. doc \in Seq(Stored) /\ n \in Nat /\ Len(doc) = n
      BY <3>1, MapAssumption
    <3> QED
      BY <3>1, <3>2
  <2>2. Len(elements) + n <= MaxChildren /\ Becomes(Loaded(Tree, doc))
    BY <1>3, <2>1 DEF FromStorage, Loaded
  <2>3. Tree.list = elements
    BY DEF Tree
  <2>4. TreeOK(Loaded(Tree, doc))
    BY <2>1, <2>2, <2>3, LoadedOK
  <2> QED
    BY <2>2, <2>4, BecomesOK
<1>4. ASSUME Look PROVE TreeOK(Tree)'
  BY <1>4, ReadyOK, BecomesOK DEF Look
<1>5. ASSUME UNCHANGED elementVars PROVE TreeOK(Tree)'
  BY <1>5 DEF elementVars, Tree, TreeOK, Agrees, Alone, Live, Lists
<1> QED
  BY <1>1, <1>2, <1>3, <1>4, <1>5 DEF ElementNext

\* List and multimap of an element tell the same tree after any calls, and a
\* placeholder gives way to the first child that is added.
THEOREM ListAndHashAgree == ElementSpec => []ChildrenSound
<1>1. TreeOK(Tree) => ChildrenSound
  BY DEF TreeOK, Agrees, Alone, Live, Lists, Tree, ChildrenSound, HashFollowsList,
         PlaceholderAlone
<1> QED
  BY <1>1, TreeInit, TreeStep, PTL DEF ElementSpec


\* A stored element that is loaded into a new one and stored again is what it
\* was, after the mandatory children that it lacks, without those of unknown names.
THEOREM LoadStoresAgain == ElementSpec => StoredAgain
<1> DEFINE Again ==
      elements = <<>> /\ elements' # <<>> =>
        \A doc \in Docs \ {<<>>} : FromStorage(doc) =>
          LET names == [i \in DOMAIN doc |-> doc[i].name] IN
          ToStorage(Tree)' = Without(Mandatory, ToSet(names)) \o Without(names, {Unknown})
<1>1. TreeOK(Tree) => Again
  <2> SUFFICES ASSUME TreeOK(Tree), elements = <<>>, NEW doc \in Docs \ {<<>>},
                      FromStorage(doc)
               PROVE  LET names == [i \in DOMAIN doc |-> doc[i].name] IN
                      ToStorage(Tree)' = Without(Mandatory, ToSet(names))
                                           \o Without(names, {Unknown})
    OBVIOUS
  <2>1. PICK n \in Nat : doc \in Seq(Stored) /\ Len(doc) = n
    <3>1. PICK n \in 0 .. MaxStored : doc \in [1 .. n -> Stored]
      BY DEF Docs
    <3> QED
      BY <3>1, MapAssumption
  <2> DEFINE names == [i \in DOMAIN doc |-> doc[i].name]
             v == Loaded(Tree, doc)
  <2>2. n # 0
    BY <2>1
  <2>3. n <= MaxChildren /\ Becomes(v) /\ Tree.list = <<>>
    <3>1. Len(elements) = 0
      OBVIOUS
    <3> QED
      BY <2>1, <3>1 DEF FromStorage, Loaded, Tree
  <2>4. Loading(v, names)
    BY <2>1, <2>2, <2>3, LoadedNames
  <2> HIDE DEF v, names
  <2>5. ToStorage(v) = Without(Mandatory, ToSet(names)) \o Without(names, {Unknown})
    BY <2>4, LoadingStores
  <2>6. ToStorage(Tree)' = ToStorage(v)
    BY <2>3 DEF Becomes, Tree, ToStorage
  <2> QED
    BY <2>5, <2>6 DEF names
<1>2. TreeOK(Tree) /\ [ElementNext]_elementVars => [Again]_elementVars
  BY <1>1
<1> QED
  BY <1>2, TreeInit, TreeStep, PTL DEF ElementSpec, StoredAgain
=============================================================================
