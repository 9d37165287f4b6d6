-------------------------- MODULE LogVectorsProofs --------------------------
(***************************************************************************)
(* What is proved about LogVectors, for worlds and files of any size: the  *)
(* zooms that are assigned to the points of a log show its maxima at every *)
(* zoom, two passes assign them, the page goes on showing every log, and   *)
(* sorting brings the points of each tile together.                        *)
(***************************************************************************)
EXTENDS LogVectors, OrderingProofs

-----------------------------------------------------------------------------
(* Powers of two: 2^n is the number of subsets of a set of n elements. *)

LEMMA PowerOfTwo ==
    ASSUME NEW n \in Nat
    PROVE  2^n \in Nat /\ 2^n > 0
<1>1. IsFiniteSet(1 .. n) /\ Cardinality(1 .. n) = n
  BY FS_Interval
<1>2. IsFiniteSet(SUBSET (1 .. n)) /\ Cardinality(SUBSET (1 .. n)) = 2^n
  BY <1>1, FS_SUBSET
<1>3. Cardinality(SUBSET (1 .. n)) \in Nat /\ Cardinality(SUBSET (1 .. n)) # 0
  BY <1>2, FS_CardinalityType, FS_EmptySet
<1> QED
  BY <1>2, <1>3

LEMMA PowerDoubles ==
    ASSUME NEW n \in Nat
    PROVE  2^(n + 1) = 2 * 2^n
<1> DEFINE A == SUBSET (1 .. n)
           B == {a \cup {n + 1} : a \in A}
           with == [a \in A |-> a \cup {n + 1}]
<1>1. /\ IsFiniteSet(1 .. n) /\ Cardinality(1 .. n) = n
      /\ IsFiniteSet(1 .. n + 1) /\ Cardinality(1 .. n + 1) = n + 1
  BY FS_Interval
<1>2. /\ IsFiniteSet(A) /\ Cardinality(A) = 2^n
      /\ Cardinality(SUBSET (1 .. n + 1)) = 2^(n + 1)
  BY <1>1, FS_SUBSET
<1>3. \A a \in A : n + 1 \notin a
  OBVIOUS
<1>4. with \in Bijection(A, B)
  <2>1. with \in [A -> B]
    OBVIOUS
  <2>2. ASSUME NEW a \in A, NEW b \in A, with[a] = with[b]
        PROVE  a = b
    <3>1. a \cup {n + 1} = b \cup {n + 1} /\ n + 1 \notin a /\ n + 1 \notin b
      BY <1>3, <2>2
    <3> QED
      BY <3>1
  <2>3. \A b \in B : \E a \in A : with[a] = b
    OBVIOUS
  <2> HIDE DEF with, A, B
  <2> QED
    BY <2>1, <2>2, <2>3 DEF Bijection, Injection, Surjection, IsInjective
<1>5. IsFiniteSet(B) /\ Cardinality(B) = Cardinality(A)
  <2> HIDE DEF with, A, B
  <2> QED
    BY <1>2, <1>4, FS_Bijection DEF ExistsBijection
<1>6. SUBSET (1 .. n + 1) = A \cup B
  <2>1. ASSUME NEW c \in SUBSET (1 .. n + 1)
        PROVE  c \in A \cup B
    <3>1. CASE n + 1 \in c
      <4>1. c \ {n + 1} \in A /\ c = (c \ {n + 1}) \cup {n + 1}
        BY <3>1
      <4> QED
        BY <4>1
    <3>2. CASE n + 1 \notin c
      BY <3>2
    <3> QED
      BY <3>1, <3>2
  <2>2. ASSUME NEW a \in A
        PROVE  a \in SUBSET (1 .. n + 1) /\ a \cup {n + 1} \in SUBSET (1 .. n + 1)
    OBVIOUS
  <2>3. ASSUME NEW c \in A \cup B
        PROVE  c \in SUBSET (1 .. n + 1)
    <3>1. CASE c \in A
      BY <2>2, <3>1
    <3>2. CASE c \in B
      <4>1. PICK a \in A : c = a \cup {n + 1}
        BY <3>2
      <4> QED
        BY <2>2, <4>1
    <3> QED
      BY <3>1, <3>2
  <2> HIDE DEF A, B
  <2>4. SUBSET (1 .. n + 1) \subseteq A \cup B /\ A \cup B \subseteq SUBSET (1 .. n + 1)
    BY <2>1, <2>3
  <2> QED
    BY <2>4
<1>7. A \cap B = {}
  BY <1>3
<1> HIDE DEF A, B
<1>8. Cardinality(A \cup B) = Cardinality(A) + Cardinality(B) - Cardinality(A \cap B)
  BY <1>2, <1>5, FS_Union
<1>9. Cardinality(A \cap B) = 0 /\ Cardinality(A) \in Nat
  BY <1>2, <1>7, FS_EmptySet, FS_CardinalityType
<1>10. Cardinality(A \cup B) = 2 * Cardinality(A)
  BY <1>5, <1>8, <1>9
<1>11. Cardinality(SUBSET (1 .. n + 1)) = Cardinality(A \cup B)
  BY <1>6
<1> QED
  BY <1>2, <1>10, <1>11

LEMMA PowersAdd ==
    ASSUME NEW a \in Nat, NEW b \in Nat
    PROVE  2^(a + b) = 2^a * 2^b
<1> DEFINE T == {n \in 0 .. b : 2^(a + n) = 2^a * 2^n}
<1>1. 0 \in T
  <2>1. 2^0 = 1 /\ 2^a \in Nat /\ a + 0 = a
    BY PowerOfTwo
  <2> QED
    BY <2>1
<1>2. ASSUME NEW n \in 1 .. b, n - 1 \in T
      PROVE  n \in T
  <2> DEFINE m == n - 1
  <2>1. m \in Nat /\ n = m + 1 /\ a + n = (a + m) + 1 /\ a + m \in Nat
    OBVIOUS
  <2> HIDE DEF m
  <2>2. 2^n = 2 * 2^m /\ 2^(a + n) = 2 * 2^(a + m)
    BY <2>1, PowerDoubles
  <2>3. 2^(a + m) = 2^a * 2^m
    BY <1>2 DEF m
  <2>4. 2^a \in Nat /\ 2^m \in Nat
    BY <2>1, PowerOfTwo
  <2>5. \A x, y \in Nat : 2 * (x * y) = x * (2 * y)
    OBVIOUS
  <2>6. 2^(a + n) = 2^a * 2^n
    BY <2>2, <2>3, <2>4, <2>5
  <2> QED
    BY <2>6
<1>3. \A n \in 0 .. b : n \in T
  <2> HIDE DEF T
  <2> QED
    BY <1>1, <1>2, HandedOn
<1> QED
  BY <1>3

LEMMA DivDiv ==
    ASSUME NEW x \in Nat, NEW m \in Nat, NEW k \in Nat, m > 0, k > 0
    PROVE  x \div m \in Nat /\ x \div (m * k) = (x \div m) \div k
OBVIOUS

LEMMA DivGrows ==
    ASSUME NEW x \in Nat, NEW y \in Nat, NEW m \in Nat, m > 0, x <= y
    PROVE  x \div m <= y \div m
OBVIOUS

\* What is coarser by some bits follows from what is finer.
LEMMA Coarser ==
    ASSUME NEW x \in Nat, NEW y \in Nat, NEW a \in Nat, NEW b \in Nat, a <= b
    PROVE  /\ x \div 2^a \in Nat
           /\ x \div 2^a = y \div 2^a => x \div 2^b = y \div 2^b
           /\ x \div 2^a <= y \div 2^a => x \div 2^b <= y \div 2^b
<1> DEFINE m == 2^a
           k == 2^(b - a)
<1>1. b - a \in Nat /\ b = a + (b - a)
  OBVIOUS
<1>2. m \in Nat /\ m > 0 /\ k \in Nat /\ k > 0
  BY <1>1, PowerOfTwo
<1>3. 2^b = m * k
  BY <1>1, PowersAdd
<1> HIDE DEF m, k
<1>4. /\ x \div m \in Nat /\ x \div (m * k) = (x \div m) \div k
      /\ y \div m \in Nat /\ y \div (m * k) = (y \div m) \div k
  BY <1>2, DivDiv
<1>5. x \div m <= y \div m => (x \div m) \div k <= (y \div m) \div k
  BY <1>2, <1>4, DivGrows
<1>6. x \div m \in Nat /\ (x \div m = y \div m => x \div 2^b = y \div 2^b)
  BY <1>3, <1>4
<1>7. x \div m <= y \div m => x \div 2^b <= y \div 2^b
  BY <1>3, <1>4, <1>5
<1> QED
  BY <1>6, <1>7 DEF m

-----------------------------------------------------------------------------
(* Cells and tiles: those of a zoom lie in one of every smaller zoom. *)

LEMMA Zoom == MaxZoom \in Nat /\ \A z \in Zooms : z \in Nat /\ z <= MaxZoom
BY SizesAssumption DEF Zooms

LEMMA WorldIsNat == World \subseteq Nat
<1>1. TileBits + MaxZoom \in Nat
  BY SizesAssumption
<1> QED
  BY <1>1, PowerOfTwo DEF World

LEMMA CellsNest ==
    ASSUME NEW p \in World, NEW q \in World, NEW y \in Zooms, NEW z \in Zooms, y <= z,
           Cell(p, z) = Cell(q, z)
    PROVE  Cell(p, y) = Cell(q, y)
<1>1. Shift(z) \in Nat /\ Shift(y) \in Nat /\ Shift(z) <= Shift(y)
  BY Zoom DEF Shift
<1>2. p \in Nat /\ q \in Nat
  BY WorldIsNat
<1> QED
  BY <1>1, <1>2, Coarser DEF Cell

LEMMA TilesNest ==
    ASSUME NEW p \in World, NEW q \in World, NEW y \in Zooms, NEW z \in Zooms, y <= z
    PROVE  /\ Tile(p, z) \in Nat
           /\ Tile(p, z) = Tile(q, z) => Tile(p, y) = Tile(q, y)
           /\ Tile(p, z) <= Tile(q, z) => Tile(p, y) <= Tile(q, y)
<1>1. /\ TileBits + MaxZoom - z \in Nat /\ TileBits + MaxZoom - y \in Nat
      /\ TileBits + MaxZoom - z <= TileBits + MaxZoom - y
  BY Zoom, SizesAssumption
<1>2. p \in Nat /\ q \in Nat
  BY WorldIsNat
<1> QED
  BY <1>1, <1>2, Coarser DEF Tile

-----------------------------------------------------------------------------
(* ParseLogFileToVectors: the lines *)

IsPoint(line) == line.x \notin {OffMap, NoPosition}

Cpm == Int \cup {NaN}

LEMMA HigherOrders ==
    /\ \A a \in Cpm : ~ Higher(a, a)
    /\ \A a, b, c \in Cpm : Higher(a, b) /\ ~ Higher(c, b) => ~ Higher(c, a)
<1>1. \A a, b, c \in Int : a > b /\ ~ (c > b) => ~ (c > a)
  OBVIOUS
<1>2. \A a \in Int : ~ (a > a)
  OBVIOUS
<1> QED
  BY <1>1, <1>2 DEF Higher, Cpm

LEMMA ValueIsCount ==
    ASSUME NEW line \in Lines, NEW high \in Nat
    PROVE  Value(line, high) \in Cpm
<1>1. line \in Line /\ line.cpm \in Cpm
  BY FilesAssumption DEF Line, Cpm
<1>2. line.cp5s # NaN => DeadTime[line.cp5s] \in Cpm
  BY FilesAssumption DEF Cpm
<1>3. \/ Value(line, high) = line.cpm
      \/ line.cp5s # NaN /\ Value(line, high) = DeadTime[line.cp5s]
  BY DEF Value
<1> QED
  BY <1>1, <1>2, <1>3

Acc == [high: Nat, rows: Seq(Row)]

\* Fewer rows than lines, as soon as one line is no point.
LEMMA ReadLineDoes ==
    ASSUME NEW acc \in Acc, NEW line \in Lines
    PROVE  /\ ReadLine(acc, line) \in Acc
           /\ \/ ReadLine(acc, line).rows = acc.rows
              \/ /\ IsPoint(line)
                 /\ \E row \in Row :
                       row.minz = -1 /\ ReadLine(acc, line).rows = Append(acc.rows, row)
<1> DEFINE high == IF Higher(line.cpm, 100) THEN 0 ELSE acc.high + 1
           row == [x |-> line.x, cpm |-> Value(line, high), minz |-> -1]
<1>1. high \in Nat /\ acc.high \in Nat /\ acc.rows \in Seq(Row)
  BY DEF Acc
<1>2. CASE ~ HasPosition(line)
  BY <1>2 DEF ReadLine
<1>3. CASE HasPosition(line) /\ line.x = OffMap
  <2>1. ReadLine(acc, line) = [high |-> high, rows |-> acc.rows]
    BY <1>3 DEF ReadLine
  <2> HIDE DEF high
  <2> QED
    BY <1>1, <2>1 DEF Acc
<1>4. CASE HasPosition(line) /\ line.x # OffMap
  <2>1. ReadLine(acc, line) = [high |-> high, rows |-> Append(acc.rows, row)]
    BY <1>4 DEF ReadLine
  <2>2. IsPoint(line) /\ line.x \in World
    BY <1>4, FilesAssumption DEF HasPosition, IsPoint, Line
  <2>3. row \in Row /\ row.minz = -1
    BY <1>1, <2>2, ValueIsCount DEF Row, Cpm
  <2>4. Append(acc.rows, row) \in Seq(Row)
    BY <1>1, <2>3
  <2> HIDE DEF high, row
  <2> QED
    BY <1>1, <2>1, <2>2, <2>3, <2>4 DEF Acc
<1> QED
  BY <1>2, <1>3, <1>4

LEMMA ReadLinesRuns ==
    ASSUME NEW file \in Seq(Lines)
    PROVE  \E f \in [0 .. Len(file) -> Acc] :
              /\ f[0] = [high |-> 0, rows |-> <<>>]
              /\ \A n \in 1 .. Len(file) : f[n] = ReadLine(f[n - 1], file[n])
              /\ ReadLines(file) = f[Len(file)].rows
<1> DEFINE N == Len(file)
           s == [high |-> 0, rows |-> <<>>]
           Def(f) == f = [n \in 0 .. N |->
                             IF n = 0 THEN s ELSE ReadLine(f[n - 1], file[n])]
           after == CHOOSE f : Def(f)
           round == [n \in 1 .. N |-> [t \in Acc |-> ReadLine(t, file[n])]]
<1>1. N \in Nat /\ \A n \in 1 .. N : file[n] \in Lines
  OBVIOUS
<1>2. s \in Acc
  BY DEF Acc
<1>3. ReadLines(file) = after[N].rows
  BY DEF ReadLines
<1> HIDE DEF N, s
<1>4. round \in [1 .. N -> [Acc -> Acc]]
  BY <1>1, ReadLineDoes
<1>5. PICK f : Rounds(f, N, Acc, s, round)
  <2> HIDE DEF round
  <2> QED
    BY <1>1, <1>2, <1>4, LoopRuns
<1>6. Def(f)
  <2>1. ASSUME NEW n \in 1 .. N PROVE f[n] = ReadLine(f[n - 1], file[n])
    <3>1. f[n - 1] \in Acc
      BY <1>1, <1>5 DEF Rounds
    <3> QED
      BY <1>5, <3>1 DEF Rounds
  <2>2. f = [n \in 0 .. N |-> f[n]] /\ f[0] = s
    BY <1>5 DEF Rounds
  <2>3. ASSUME NEW n \in 0 .. N
        PROVE  f[n] = IF n = 0 THEN s ELSE ReadLine(f[n - 1], file[n])
    <3>1. n = 0 \/ n \in 1 .. N
      BY <1>1
    <3>2. CASE n = 0
      BY <2>2, <3>2
    <3>3. CASE n \in 1 .. N
      <4>1. n # 0
        BY <3>3
      <4> QED
        BY <2>1, <3>3, <4>1
    <3> QED
      BY <3>1, <3>2, <3>3
  <2> QED
    BY <2>2, <2>3
<1>7. Def(after)
  <2> HIDE DEF Def
  <2> QED
    BY <1>6
<1> HIDE DEF after, round
<1>8. after[0] = s /\ \A n \in 1 .. N : after[n] = ReadLine(after[n - 1], file[n])
  BY <1>1, <1>7
<1>9. \A n \in 0 .. N : after[n] \in Acc
  <2> DEFINE T == {n \in 0 .. N : after[n] \in Acc}
  <2>1. 0 \in T
    BY <1>1, <1>2, <1>8
  <2>2. ASSUME NEW n \in 1 .. N, n - 1 \in T PROVE n \in T
    <3>1. n \in 0 .. N /\ after[n - 1] \in Acc
      BY <1>1, <2>2
    <3>2. after[n] \in Acc
      BY <1>1, <1>8, <3>1, ReadLineDoes
    <3> QED
      BY <3>1, <3>2
  <2>3. \A n \in 0 .. N : n \in T
    <3> HIDE DEF T
    <3> QED
      BY <1>1, <2>1, <2>2, HandedOn
  <2> QED
    BY <2>3
<1>10. after \in [0 .. N -> Acc]
  BY <1>7, <1>9
<1> QED
  BY <1>3, <1>8, <1>10 DEF N, s

LEMMA ReadLinesDoes ==
    ASSUME NEW file \in Seq(Lines)
    PROVE  /\ ReadLines(file) \in Seq(Row)
           /\ \A k \in DOMAIN ReadLines(file) : ReadLines(file)[k].minz = -1
           /\ Len(ReadLines(file)) <= Len(file)
           /\ (\E i \in DOMAIN file : ~ IsPoint(file[i])) =>
                  Len(ReadLines(file)) < Len(file)
<1> DEFINE N == Len(file)
<1>1. N \in Nat /\ DOMAIN file = 1 .. N /\ \A n \in 1 .. N : file[n] \in Lines
  OBVIOUS
<1>2. PICK f \in [0 .. N -> Acc] :
          /\ f[0] = [high |-> 0, rows |-> <<>>]
          /\ \A n \in 1 .. N : f[n] = ReadLine(f[n - 1], file[n])
          /\ ReadLines(file) = f[N].rows
  BY ReadLinesRuns
<1> HIDE DEF N
<1> DEFINE Rows(n) == f[n].rows
           Short(n) ==
               /\ \A k \in DOMAIN Rows(n) : Rows(n)[k].minz = -1
               /\ Len(Rows(n)) <= n
               /\ (\E i \in 1 .. n : ~ IsPoint(file[i])) => Len(Rows(n)) < n
           T == {n \in 0 .. N : Short(n)}
<1>3. \A n \in 0 .. N : Rows(n) \in Seq(Row)
  BY <1>2 DEF Acc
<1>4. 0 \in T
  <2>1. Rows(0) = <<>>
    BY <1>2
  <2> HIDE DEF Rows
  <2> QED
    BY <1>1, <2>1
<1>5. ASSUME NEW n \in 1 .. N, n - 1 \in T
      PROVE  n \in T
  <2>1. n - 1 \in 0 .. N /\ n \in 0 .. N /\ Short(n - 1)
    BY <1>1, <1>5
  <2>2. f[n - 1] \in Acc /\ f[n] = ReadLine(f[n - 1], file[n])
    BY <1>2, <2>1
  <2>3. \/ Rows(n) = Rows(n - 1)
        \/ IsPoint(file[n]) /\ \E row \in Row :
               row.minz = -1 /\ Rows(n) = Append(Rows(n - 1), row)
    BY <1>1, <2>2, ReadLineDoes
  <2>4. Rows(n - 1) \in Seq(Row) /\ Rows(n) \in Seq(Row)
    BY <1>3, <2>1
  <2> HIDE DEF Rows
  <2>5. CASE Rows(n) = Rows(n - 1)
    BY <2>1, <2>4, <2>5
  <2>6. CASE IsPoint(file[n]) /\ Rows(n) # Rows(n - 1)
    <3>1. PICK row \in Row : row.minz = -1 /\ Rows(n) = Append(Rows(n - 1), row)
      BY <2>3, <2>6
    <3>2. Len(Rows(n)) = Len(Rows(n - 1)) + 1
      BY <2>4, <3>1
    <3>3. \A k \in DOMAIN Rows(n) : Rows(n)[k].minz = -1
      BY <2>1, <2>4, <3>1
    <3>4. (\E i \in 1 .. n : ~ IsPoint(file[i])) => \E i \in 1 .. n - 1 : ~ IsPoint(file[i])
      BY <2>6
    <3>5. Len(Rows(n)) <= n /\ ((\E i \in 1 .. n : ~ IsPoint(file[i])) => Len(Rows(n)) < n)
      BY <2>1, <2>4, <3>2, <3>4
    <3>6. Short(n)
      BY <3>3, <3>5
    <3> QED
      BY <2>1, <3>6
  <2> QED
    BY <2>3, <2>5, <2>6
<1>6. \A n \in 0 .. N : n \in T
  <2> HIDE DEF T
  <2> QED
    BY <1>1, <1>4, <1>5, HandedOn
<1>7. Short(N) /\ Rows(N) \in Seq(Row) /\ Rows(N) = ReadLines(file)
  BY <1>1, <1>2, <1>3, <1>6
<1> HIDE DEF Rows
<1> QED
  BY <1>1, <1>7 DEF N

-----------------------------------------------------------------------------
(* AssignScaleVisibilityToVecs.  The states of its loops, for N rows. *)

Loops(N) == [rows: [1 .. N -> Row], slots: Seq(1 .. N), replaced: BOOLEAN]

\* The position of the row in slot k.
At(s, k) == s.rows[s.slots[k]].x

LEMMA SlotForFinds ==
    ASSUME NEW s, NEW N \in Nat, s \in Loops(N), NEW x, NEW z
    PROVE  LET k == SlotFor(s, x, z)
           IN  /\ k \in {0} \cup DOMAIN s.slots
               /\ k # 0 => Cell(At(s, k), z) = Cell(x, z)
               /\ \A l \in DOMAIN s.slots : Cell(At(s, l), z) = Cell(x, z) => k # 0 /\ k <= l
<1> DEFINE I == {l \in 1 .. Len(s.slots) : Cell(At(s, l), z) = Cell(x, z)}
<1>1. DOMAIN s.slots = 1 .. Len(s.slots) /\ Len(s.slots) \in Nat
  BY DEF Loops
<1>2. SlotFor(s, x, z) = IF I # {} THEN Min(I) ELSE 0
  BY DEF SlotFor, SelectInSeq, At
<1>3. CASE I = {}
  BY <1>1, <1>2, <1>3
<1>4. CASE I # {}
  <2>1. \E l \in I : \A m \in I : l <= m
    <3>1. I \in SUBSET Nat
      BY <1>1
    <3> HIDE DEF I
    <3> QED
      BY <1>4, <3>1, LeastNat
  <2>2. Min(I) \in I /\ \A m \in I : Min(I) <= m
    BY <2>1 DEF Min
  <2> DEFINE k == SlotFor(s, x, z)
  <2>3. k \in I /\ \A m \in I : k <= m
    BY <1>2, <1>4, <2>2
  <2> HIDE DEF k
  <2>4. k \in DOMAIN s.slots /\ k # 0 /\ Cell(At(s, k), z) = Cell(x, z)
    BY <1>1, <2>3
  <2>5. \A l \in DOMAIN s.slots : Cell(At(s, l), z) = Cell(x, z) => k <= l
    BY <1>1, <2>3
  <2> QED
    BY <2>4, <2>5 DEF k
<1> QED
  BY <1>3, <1>4

LEMMA AssignRowTypes ==
    ASSUME NEW N \in Nat, NEW s \in Loops(N), NEW i \in 1 .. N, NEW z \in Zooms
    PROVE  AssignRow(s, i, z) \in Loops(N)
<1> DEFINE k == SlotFor(s, s.rows[i].x, z)
<1>1. /\ s = [rows |-> s.rows, slots |-> s.slots, replaced |-> s.replaced]
      /\ s.rows \in [1 .. N -> Row] /\ s.slots \in Seq(1 .. N) /\ s.replaced \in BOOLEAN
  BY DEF Loops
<1>2. k \in {0} \cup DOMAIN s.slots
  BY SlotForFinds
<1>3. \A rows \in [1 .. N -> Row], j \in 1 .. N, y \in Zooms \cup {-1} :
         [rows EXCEPT ![j].minz = y] \in [1 .. N -> Row]
  BY DEF Row
<1> HIDE DEF k
<1> DEFINE rows1 == [s.rows EXCEPT ![i].minz = z]
           rows2 == [s.rows EXCEPT ![s.slots[k]].minz = -1, ![i].minz = z]
<1>4. rows1 \in [1 .. N -> Row]
  BY <1>1, <1>3
<1>5. CASE k = 0
  <2>1. \/ AssignRow(s, i, z) = s
        \/ AssignRow(s, i, z) = [rows |-> rows1, slots |-> Append(s.slots, i),
                                 replaced |-> s.replaced]
    BY <1>1, <1>5 DEF AssignRow, k
  <2>2. Append(s.slots, i) \in Seq(1 .. N)
    BY <1>1
  <2> HIDE DEF rows1
  <2>3. [rows |-> rows1, slots |-> Append(s.slots, i), replaced |-> s.replaced] \in Loops(N)
    BY <1>1, <1>4, <2>2 DEF Loops
  <2> QED
    BY <2>1, <2>3
<1>6. CASE k # 0
  <2>1. s.slots[k] \in 1 .. N
    BY <1>1, <1>2, <1>6
  <2>2. rows2 \in [1 .. N -> Row]
    <3>1. [s.rows EXCEPT ![s.slots[k]].minz = -1] \in [1 .. N -> Row]
      BY <1>1, <1>3, <2>1
    <3> QED
      BY <1>3, <3>1
  <2>3. [s.slots EXCEPT ![k] = i] \in Seq(1 .. N)
    BY <1>1, <1>2, <1>6
  <2>4. \/ AssignRow(s, i, z) = s
        \/ AssignRow(s, i, z) = [rows |-> rows2, slots |-> [s.slots EXCEPT ![k] = i],
                                 replaced |-> TRUE]
    BY <1>1, <1>6 DEF AssignRow, k
  <2> HIDE DEF rows2
  <2>5. [rows |-> rows2, slots |-> [s.slots EXCEPT ![k] = i], replaced |-> TRUE] \in Loops(N)
    BY <2>2, <2>3 DEF Loops
  <2> QED
    BY <2>4, <2>5
<1> QED
  BY <1>5, <1>6

\* The row in slot k, and whether it lies in the cell of x at zoom z.
Slot(s, k) == s.rows[s.slots[k]]
SameCell(p, q, z) == Cell(p.x, z) = Cell(q.x, z)

\* The data of the rows do not change.
SameData(s, t, N) ==
    \A j \in 1 .. N : t.rows[j].x = s.rows[j].x /\ t.rows[j].cpm = s.rows[j].cpm

LEMMA SlotTypes ==
    ASSUME NEW N \in Nat, NEW s \in Loops(N)
    PROVE  /\ DOMAIN s.slots = 1 .. Len(s.slots) /\ Len(s.slots) \in Nat
           /\ \A k \in DOMAIN s.slots : s.slots[k] \in 1 .. N /\ Slot(s, k) \in Row
           /\ \A i \in 1 .. N : s.rows[i] \in Row
           /\ s.rows \in [1 .. N -> Row] /\ s.slots \in Seq(1 .. N)
BY DEF Loops, Slot

\* Row i stays as it is, gets a slot of its own, or that of a lower value.
Stays(s, t, i, z) ==
    /\ t = s
    /\ \/ s.rows[i].minz # -1
       \/ \E k \in DOMAIN s.slots :
             SameCell(Slot(s, k), s.rows[i], z) /\ ~ Higher(s.rows[i].cpm, Slot(s, k).cpm)

GetsSlot(s, t, i, z) ==
    /\ s.rows[i].minz = -1
    /\ \A k \in DOMAIN s.slots : ~ SameCell(Slot(s, k), s.rows[i], z)
    /\ t.rows = [s.rows EXCEPT ![i].minz = z]
    /\ t.slots = Append(s.slots, i)

Replaces(s, t, i, z, k) ==
    /\ s.rows[i].minz = -1
    /\ SameCell(Slot(s, k), s.rows[i], z) /\ Higher(s.rows[i].cpm, Slot(s, k).cpm)
    /\ t.rows = [s.rows EXCEPT ![s.slots[k]].minz = -1, ![i].minz = z]
    /\ t.slots = [s.slots EXCEPT ![k] = i]

LEMMA AssignRowDoes ==
    ASSUME NEW N \in Nat, NEW s \in Loops(N), NEW i \in 1 .. N, NEW z \in Zooms
    PROVE  LET t == AssignRow(s, i, z)
           IN  \/ Stays(s, t, i, z)
               \/ GetsSlot(s, t, i, z)
               \/ \E k \in DOMAIN s.slots : Replaces(s, t, i, z, k)
<1> DEFINE k == SlotFor(s, s.rows[i].x, z)
           t == AssignRow(s, i, z)
<1>1. /\ k \in {0} \cup DOMAIN s.slots
      /\ k # 0 => SameCell(Slot(s, k), s.rows[i], z)
      /\ \A l \in DOMAIN s.slots : SameCell(Slot(s, l), s.rows[i], z) => k # 0
  BY SlotForFinds DEF SameCell, Slot, At
<1>2. /\ s.rows[i].minz # -1 => t = s
      /\ s.rows[i].minz = -1 /\ k = 0 =>
             t = [s EXCEPT !.rows[i].minz = z, !.slots = Append(@, i)]
      /\ s.rows[i].minz = -1 /\ k # 0 /\ Higher(s.rows[i].cpm, Slot(s, k).cpm) =>
             t = [s EXCEPT !.rows[s.slots[k]].minz = -1, !.rows[i].minz = z,
                           !.slots[k] = i, !.replaced = TRUE]
      /\ k # 0 /\ ~ Higher(s.rows[i].cpm, Slot(s, k).cpm) => t = s
  BY DEF AssignRow, Slot
<1> HIDE DEF k, t
<1>3. /\ s.rows[i].cpm \in Cpm
      /\ k # 0 => Slot(s, k).cpm \in Cpm
  BY <1>1, SlotTypes DEF Row, Cpm
<1>4. s = [rows |-> s.rows, slots |-> s.slots, replaced |-> s.replaced]
  BY DEF Loops
<1>5. CASE s.rows[i].minz # -1
  BY <1>2, <1>5 DEF t, Stays
<1>6. CASE s.rows[i].minz = -1 /\ k = 0
  <2>1. GetsSlot(s, t, i, z)
    BY <1>1, <1>2, <1>4, <1>6 DEF GetsSlot
  <2> QED
    BY <2>1 DEF t
<1>7. CASE s.rows[i].minz = -1 /\ k # 0 /\ Higher(s.rows[i].cpm, Slot(s, k).cpm)
  <2>1. Replaces(s, t, i, z, k)
    BY <1>1, <1>2, <1>3, <1>4, <1>7 DEF Replaces
  <2> QED
    BY <1>1, <1>7, <2>1 DEF t
<1>8. CASE k # 0 /\ ~ Higher(s.rows[i].cpm, Slot(s, k).cpm)
  <2>1. Stays(s, t, i, z)
    BY <1>1, <1>2, <1>3, <1>8 DEF Stays
  <2> QED
    BY <2>1 DEF t
<1> QED
  BY <1>5, <1>6, <1>7, <1>8

-----------------------------------------------------------------------------
(* What one pass makes of rows without a zoom *)

\* Rows get a zoom with a slot, and slots are given from zoom 0 on.
Slotted(s, N, z) ==
    /\ \A k \in DOMAIN s.slots : Slot(s, k).minz \in 0 .. z
    /\ \A k, l \in DOMAIN s.slots : k <= l => Slot(s, k).minz <= Slot(s, l).minz
    /\ \A i \in 1 .. N :
          s.rows[i].minz # -1 => \E k \in DOMAIN s.slots : s.slots[k] = i

\* At zoom y, the slots given so far have one row for each cell, and it has
\* the highest value there.
Settled(s, N, y) ==
    \A i \in 1 .. N :
        \E k \in DOMAIN s.slots :
            /\ Slot(s, k).minz <= y /\ SameCell(Slot(s, k), s.rows[i], y)
            /\ ~ Higher(s.rows[i].cpm, Slot(s, k).cpm)
            /\ \A l \in DOMAIN s.slots :
                  Slot(s, l).minz <= y /\ SameCell(Slot(s, l), s.rows[i], y) => l = k

Complete(s, N, z) == Slotted(s, N, z) /\ \A y \in 0 .. z : Settled(s, N, y)

\* In the round of zoom z, after n rows.
During(s, N, z, n) ==
    /\ Slotted(s, N, z)
    /\ \A y \in 0 .. z - 1 : Settled(s, N, y)
    /\ \A k, l \in DOMAIN s.slots : SameCell(Slot(s, k), Slot(s, l), z) => k = l
    /\ \A i \in 1 .. n :
          \E k \in DOMAIN s.slots :
              SameCell(Slot(s, k), s.rows[i], z) /\ ~ Higher(s.rows[i].cpm, Slot(s, k).cpm)

\* A slot of an earlier zoom has a maximum, and is not taken away.
LEMMA ReplacedIsNew ==
    ASSUME NEW N \in Nat, NEW s \in Loops(N), NEW z \in Zooms, NEW n, During(s, N, z, n),
           NEW i \in 1 .. N, NEW k \in DOMAIN s.slots,
           SameCell(Slot(s, k), s.rows[i], z), Higher(s.rows[i].cpm, Slot(s, k).cpm)
    PROVE  Slot(s, k).minz = z
<1>1. Slot(s, k).minz \in 0 .. z /\ z \in Nat
  BY Zoom DEF During, Slotted
<1> SUFFICES ASSUME Slot(s, k).minz <= z - 1 PROVE FALSE
  BY <1>1
<1> DEFINE y == z - 1
<1>2. y \in Zooms /\ y \in 0 .. z - 1 /\ y <= z
  BY <1>1, Zoom DEF Zooms
<1> HIDE DEF y
<1>3. Slot(s, k).x \in World /\ s.rows[i].x \in World
      /\ Slot(s, k).cpm \in Cpm /\ s.rows[i].cpm \in Cpm
  BY SlotTypes DEF Row, Cpm
<1>4. SameCell(Slot(s, k), s.rows[i], y)
  BY <1>2, <1>3, CellsNest DEF SameCell
<1>5. PICK j \in DOMAIN s.slots :
          /\ ~ Higher(s.rows[i].cpm, Slot(s, j).cpm)
          /\ \A l \in DOMAIN s.slots :
                Slot(s, l).minz <= y /\ SameCell(Slot(s, l), s.rows[i], y) => l = j
  BY <1>2 DEF During, Settled
<1>6. k = j
  BY <1>4, <1>5 DEF y
<1> QED
  BY <1>3, <1>5, <1>6

\* Row i takes slot k, a new one or that of a lower value.
Takes(s, t, N, i, z, k) ==
    /\ SameData(s, t, N)
    /\ k \in DOMAIN t.slots /\ t.slots[k] = i
    /\ Slot(t, k).minz = z
    /\ Slot(t, k).x = s.rows[i].x /\ Slot(t, k).cpm = s.rows[i].cpm
    /\ DOMAIN s.slots \subseteq DOMAIN t.slots
    /\ \A l \in DOMAIN t.slots \ {k} :
          l \in DOMAIN s.slots /\ t.slots[l] = s.slots[l] /\ Slot(t, l) = Slot(s, l)
    /\ k \in DOMAIN s.slots =>
           /\ Slot(s, k).minz = z
           /\ SameCell(Slot(s, k), s.rows[i], z) /\ Higher(s.rows[i].cpm, Slot(s, k).cpm)
    /\ k \notin DOMAIN s.slots =>
           \A l \in DOMAIN s.slots : l < k /\ ~ SameCell(Slot(s, l), s.rows[i], z)
    /\ \A j \in 1 .. N :
          t.rows[j].minz # -1 =>
              \/ j = i
              \/ /\ s.rows[j].minz # -1
                 /\ k \in DOMAIN s.slots => j # s.slots[k]

LEMMA GetsSlotTakes ==
    ASSUME NEW N \in Nat, NEW s \in Loops(N), NEW z \in Zooms, NEW n, During(s, N, z, n),
           NEW i \in 1 .. N, NEW t, GetsSlot(s, t, i, z)
    PROVE  Takes(s, t, N, i, z, Len(s.slots) + 1)
<1> DEFINE k == Len(s.slots) + 1
<1>1. /\ DOMAIN s.slots = 1 .. Len(s.slots) /\ Len(s.slots) \in Nat
      /\ s.rows \in [1 .. N -> Row] /\ s.slots \in Seq(1 .. N)
  BY SlotTypes
<1>2. s.rows[i].minz = -1 /\ t.rows = [s.rows EXCEPT ![i].minz = z]
      /\ t.slots = Append(s.slots, i)
  BY DEF GetsSlot
<1>3. \A l \in DOMAIN s.slots : s.slots[l] # i
  <2>1. \A l \in DOMAIN s.slots : s.rows[s.slots[l]].minz # -1
    BY Zoom DEF During, Slotted, Slot
  <2> QED
    BY <1>2, <2>1
<1>4. /\ \A j \in 1 .. N : j # i => t.rows[j] = s.rows[j]
      /\ t.rows[i] = [s.rows[i] EXCEPT !.minz = z]
  BY <1>1, <1>2
<1>5. s.rows[i] = [x |-> s.rows[i].x, cpm |-> s.rows[i].cpm, minz |-> s.rows[i].minz]
  BY <1>1 DEF Row
<1>6. t.rows[i].x = s.rows[i].x /\ t.rows[i].cpm = s.rows[i].cpm /\ t.rows[i].minz = z
  BY <1>4, <1>5
<1>7. /\ DOMAIN t.slots = 1 .. k /\ t.slots[k] = i
      /\ \A l \in DOMAIN s.slots : t.slots[l] = s.slots[l]
  BY <1>1, <1>2
<1>8. SameData(s, t, N)
  BY <1>4, <1>6 DEF SameData
<1>9. \A l \in DOMAIN s.slots : Slot(t, l) = Slot(s, l)
  BY <1>1, <1>3, <1>4, <1>7, SlotTypes DEF Slot
<1>10. /\ Slot(t, k).minz = z
       /\ Slot(t, k).x = s.rows[i].x /\ Slot(t, k).cpm = s.rows[i].cpm
  BY <1>6, <1>7 DEF Slot
<1>11. k \in DOMAIN t.slots /\ k \notin DOMAIN s.slots
       /\ DOMAIN t.slots \ {k} = DOMAIN s.slots
       /\ \A l \in DOMAIN s.slots : l < k
  BY <1>1, <1>7
<1>12. \A l \in DOMAIN s.slots : ~ SameCell(Slot(s, l), s.rows[i], z)
  BY DEF GetsSlot
<1> HIDE DEF k
<1> QED
  BY <1>4, <1>7, <1>8, <1>9, <1>10, <1>11, <1>12 DEF Takes, k

LEMMA ReplacesTakes ==
    ASSUME NEW N \in Nat, NEW s \in Loops(N), NEW z \in Zooms, NEW n, During(s, N, z, n),
           NEW i \in 1 .. N, NEW t, NEW k \in DOMAIN s.slots, Replaces(s, t, i, z, k)
    PROVE  Takes(s, t, N, i, z, k)
<1> DEFINE old == s.slots[k]
<1>1. /\ DOMAIN s.slots = 1 .. Len(s.slots) /\ Len(s.slots) \in Nat
      /\ s.rows \in [1 .. N -> Row] /\ s.slots \in Seq(1 .. N) /\ old \in 1 .. N
  BY SlotTypes
<1>2. s.rows[i].minz = -1
      /\ t.rows = [s.rows EXCEPT ![s.slots[k]].minz = -1, ![i].minz = z]
      /\ t.slots = [s.slots EXCEPT ![k] = i]
      /\ SameCell(Slot(s, k), s.rows[i], z) /\ Higher(s.rows[i].cpm, Slot(s, k).cpm)
  BY DEF Replaces
<1>3. \A l \in DOMAIN s.slots : s.slots[l] # i
  <2>1. \A l \in DOMAIN s.slots : s.rows[s.slots[l]].minz # -1
    BY Zoom DEF During, Slotted, Slot
  <2> QED
    BY <1>2, <2>1
<1>4. \A l \in DOMAIN s.slots : l # k => s.slots[l] # old
  <2>1. \A l \in DOMAIN s.slots : s.slots[l] = old => SameCell(Slot(s, l), Slot(s, k), z)
    BY DEF SameCell, Slot
  <2> QED
    BY <2>1 DEF During
<1>5. \A r \in Row : r = [x |-> r.x, cpm |-> r.cpm, minz |-> r.minz]
  BY DEF Row
<1>6. /\ \A j \in 1 .. N : j # i /\ j # old => t.rows[j] = s.rows[j]
      /\ t.rows[old] = [s.rows[old] EXCEPT !.minz = -1]
      /\ t.rows[i] = [s.rows[i] EXCEPT !.minz = z]
  <2>1. i # old
    BY <1>3
  <2> HIDE DEF old
  <2>2. t.rows = [s.rows EXCEPT ![old].minz = -1, ![i].minz = z]
    BY <1>2 DEF old
  <2> QED
    BY <1>1, <2>1, <2>2
<1>7. /\ t.rows[i].x = s.rows[i].x /\ t.rows[i].cpm = s.rows[i].cpm /\ t.rows[i].minz = z
      /\ t.rows[old].x = s.rows[old].x /\ t.rows[old].cpm = s.rows[old].cpm
      /\ t.rows[old].minz = -1
  <2>1. s.rows[i] \in Row /\ s.rows[old] \in Row
    BY <1>1
  <2> HIDE DEF old
  <2> QED
    BY <1>5, <1>6, <2>1
<1>8. /\ DOMAIN t.slots = DOMAIN s.slots /\ t.slots[k] = i
      /\ \A l \in DOMAIN s.slots : l # k => t.slots[l] = s.slots[l]
  BY <1>1, <1>2
<1>9. SameData(s, t, N)
  BY <1>6, <1>7 DEF SameData
<1>10. \A l \in DOMAIN s.slots : l # k => Slot(t, l) = Slot(s, l)
  BY <1>1, <1>3, <1>4, <1>6, <1>8, SlotTypes DEF Slot
<1>11. /\ Slot(t, k).minz = z
       /\ Slot(t, k).x = s.rows[i].x /\ Slot(t, k).cpm = s.rows[i].cpm
  BY <1>7, <1>8 DEF Slot
<1>12. Slot(s, k).minz = z
  BY <1>2, ReplacedIsNew
<1>13. \A j \in 1 .. N :
          t.rows[j].minz # -1 => j = i \/ (s.rows[j].minz # -1 /\ j # old)
  BY <1>6, <1>7
<1> QED
  BY <1>2, <1>8, <1>9, <1>10, <1>11, <1>12, <1>13 DEF Takes

LEMMA TakesKeeps ==
    ASSUME NEW N \in Nat, NEW s \in Loops(N), NEW t \in Loops(N), NEW z \in Zooms,
           NEW i \in 1 .. N, During(s, N, z, i - 1), NEW k, Takes(s, t, N, i, z, k)
    PROVE  During(t, N, z, i)
<1>1. z \in Nat /\ z \in 0 .. z
  BY Zoom
<1>2. /\ k \in DOMAIN t.slots /\ t.slots[k] = i /\ Slot(t, k).minz = z
      /\ Slot(t, k).x = s.rows[i].x /\ Slot(t, k).cpm = s.rows[i].cpm
      /\ DOMAIN s.slots \subseteq DOMAIN t.slots
      /\ \A l \in DOMAIN t.slots : l # k =>
             l \in DOMAIN s.slots /\ t.slots[l] = s.slots[l] /\ Slot(t, l) = Slot(s, l)
  BY DEF Takes
<1>3. /\ k \in DOMAIN s.slots =>
             /\ Slot(s, k).minz = z
             /\ SameCell(Slot(s, k), s.rows[i], z) /\ Higher(s.rows[i].cpm, Slot(s, k).cpm)
      /\ k \notin DOMAIN s.slots =>
             \A l \in DOMAIN s.slots : l < k /\ ~ SameCell(Slot(s, l), s.rows[i], z)
  BY DEF Takes
<1>4. SameData(s, t, N)
  BY DEF Takes
<1>5. /\ DOMAIN s.slots \subseteq Nat /\ DOMAIN t.slots \subseteq Nat
      /\ \A l \in DOMAIN s.slots : Slot(s, l).cpm \in Cpm
      /\ \A j \in 1 .. N : s.rows[j].cpm \in Cpm
  BY SlotTypes DEF Row, Cpm
<1>6. /\ \A l \in DOMAIN s.slots : Slot(s, l).minz \in 0 .. z
      /\ \A l, m \in DOMAIN s.slots : l <= m => Slot(s, l).minz <= Slot(s, m).minz
  BY DEF During, Slotted
<1>7. \A l \in DOMAIN t.slots : Slot(t, l).minz \in 0 .. z
  BY <1>1, <1>2, <1>6
<1>8. ASSUME NEW l \in DOMAIN t.slots, NEW m \in DOMAIN t.slots, l <= m
      PROVE  Slot(t, l).minz <= Slot(t, m).minz
  <2>1. CASE m = k
    BY <1>1, <1>2, <1>7, <2>1
  <2>2. CASE m # k /\ l = k
    <3>1. m \in DOMAIN s.slots /\ ~ (m < k)
      BY <1>2, <1>5, <1>8, <2>2
    <3>2. k \in DOMAIN s.slots
      BY <1>3, <3>1
    <3>3. Slot(s, k).minz <= Slot(s, m).minz /\ Slot(s, k).minz = z
      BY <1>3, <1>6, <1>8, <2>2, <3>1, <3>2
    <3> QED
      BY <1>2, <2>2, <3>3
  <2>3. CASE m # k /\ l # k
    BY <1>2, <1>6, <1>8, <2>3
  <2> QED
    BY <2>1, <2>2, <2>3
<1>9. ASSUME NEW j \in 1 .. N, t.rows[j].minz # -1
      PROVE  \E l \in DOMAIN t.slots : t.slots[l] = j
  <2>1. CASE j = i
    BY <1>2, <2>1
  <2>2. CASE j # i
    <3>1. s.rows[j].minz # -1 /\ (k \in DOMAIN s.slots => j # s.slots[k])
      BY <1>9, <2>2 DEF Takes
    <3>2. PICK l \in DOMAIN s.slots : s.slots[l] = j
      BY <3>1 DEF During, Slotted
    <3>3. l # k
      BY <3>1, <3>2
    <3> QED
      BY <1>2, <3>2, <3>3
  <2> QED
    BY <2>1, <2>2
<1>10. Slotted(t, N, z)
  BY <1>7, <1>8, <1>9 DEF Slotted
<1>11. ASSUME NEW y \in 0 .. z - 1
       PROVE  Settled(t, N, y)
  <2>0. y \in Zooms /\ ~ (z <= y)
    BY Zoom DEF Zooms
  <2> SUFFICES ASSUME NEW j \in 1 .. N
               PROVE  \E l \in DOMAIN t.slots :
                         /\ Slot(t, l).minz <= y /\ SameCell(Slot(t, l), t.rows[j], y)
                         /\ ~ Higher(t.rows[j].cpm, Slot(t, l).cpm)
                         /\ \A m \in DOMAIN t.slots :
                               Slot(t, m).minz <= y /\ SameCell(Slot(t, m), t.rows[j], y)
                                   => m = l
    BY DEF Settled
  <2>1. PICK l \in DOMAIN s.slots :
            /\ Slot(s, l).minz <= y /\ SameCell(Slot(s, l), s.rows[j], y)
            /\ ~ Higher(s.rows[j].cpm, Slot(s, l).cpm)
            /\ \A m \in DOMAIN s.slots :
                  Slot(s, m).minz <= y /\ SameCell(Slot(s, m), s.rows[j], y) => m = l
    BY DEF During, Settled
  <2>2. l # k
    BY <1>3, <2>0, <2>1
  <2>3. l \in DOMAIN t.slots /\ Slot(t, l) = Slot(s, l)
    BY <1>2, <2>2
  <2>4. SameCell(Slot(t, l), t.rows[j], y) /\ ~ Higher(t.rows[j].cpm, Slot(t, l).cpm)
    BY <1>4, <2>1, <2>3 DEF SameCell, SameData
  <2>5. ASSUME NEW m \in DOMAIN t.slots,
               Slot(t, m).minz <= y, SameCell(Slot(t, m), t.rows[j], y)
        PROVE  m = l
    <3>1. m # k
      BY <1>2, <2>0, <2>5
    <3>2. m \in DOMAIN s.slots /\ Slot(t, m) = Slot(s, m)
      BY <1>2, <3>1
    <3>3. SameCell(Slot(s, m), s.rows[j], y)
      BY <1>4, <2>5, <3>2 DEF SameCell, SameData
    <3> QED
      BY <2>1, <2>5, <3>2, <3>3
  <2> QED
    BY <2>1, <2>3, <2>4, <2>5
<1>12. \A l \in DOMAIN s.slots :
          SameCell(Slot(s, l), s.rows[i], z) => k \in DOMAIN s.slots /\ l = k
  <2>1. \A l, m \in DOMAIN s.slots : SameCell(Slot(s, l), Slot(s, m), z) => l = m
    BY DEF During
  <2> QED
    BY <1>3, <2>1 DEF SameCell
<1>13. ASSUME NEW l \in DOMAIN t.slots, NEW m \in DOMAIN t.slots,
              SameCell(Slot(t, l), Slot(t, m), z)
       PROVE  l = m
  <2>1. CASE l # k /\ m # k
    BY <1>2, <1>13, <2>1 DEF During
  <2>2. CASE l = k /\ m # k
    BY <1>2, <1>12, <1>13, <2>2 DEF SameCell
  <2>3. CASE m = k /\ l # k
    BY <1>2, <1>12, <1>13, <2>3 DEF SameCell
  <2> QED
    BY <2>1, <2>2, <2>3
<1>14. ASSUME NEW j \in 1 .. i
       PROVE  \E l \in DOMAIN t.slots :
                 SameCell(Slot(t, l), t.rows[j], z) /\ ~ Higher(t.rows[j].cpm, Slot(t, l).cpm)
  <2>1. j \in 1 .. N
    OBVIOUS
  <2>2. CASE j = i
    BY <1>2, <1>4, <1>5, <2>2, HigherOrders DEF SameCell, SameData
  <2>3. CASE j # i
    <3>1. j \in 1 .. i - 1
      BY <2>3
    <3>2. PICK l \in DOMAIN s.slots :
              SameCell(Slot(s, l), s.rows[j], z) /\ ~ Higher(s.rows[j].cpm, Slot(s, l).cpm)
      BY <3>1 DEF During
    <3>3. CASE l # k
      BY <1>2, <1>4, <2>1, <3>2, <3>3 DEF SameCell, SameData
    <3>4. CASE l = k
      <4>1. SameCell(Slot(t, l), t.rows[j], z)
        BY <1>2, <1>3, <1>4, <2>1, <3>2, <3>4 DEF SameCell, SameData
      <4>2. ~ Higher(t.rows[j].cpm, Slot(t, l).cpm)
        <5>1. /\ t.rows[j].cpm = s.rows[j].cpm /\ s.rows[j].cpm \in Cpm
              /\ Slot(s, l).cpm \in Cpm /\ s.rows[i].cpm \in Cpm
          BY <1>4, <1>5, <2>1 DEF SameData
        <5>2. Slot(t, l).cpm = s.rows[i].cpm /\ Higher(s.rows[i].cpm, Slot(s, l).cpm)
          BY <1>2, <1>3, <3>4
        <5> QED
          BY <3>2, <5>1, <5>2, HigherOrders
      <4> QED
        BY <1>2, <3>4, <4>1, <4>2
    <3> QED
      BY <3>3, <3>4
  <2> QED
    BY <2>2, <2>3
<1> QED
  BY <1>10, <1>11, <1>13, <1>14 DEF During

LEMMA AssignRowKeeps ==
    ASSUME NEW N \in Nat, NEW s \in Loops(N), NEW z \in Zooms,
           NEW i \in 1 .. N, During(s, N, z, i - 1)
    PROVE  /\ During(AssignRow(s, i, z), N, z, i)
           /\ SameData(s, AssignRow(s, i, z), N)
<1> DEFINE t == AssignRow(s, i, z)
<1>1. t \in Loops(N)
  BY AssignRowTypes
<1>2. \/ Stays(s, t, i, z)
      \/ GetsSlot(s, t, i, z)
      \/ \E k \in DOMAIN s.slots : Replaces(s, t, i, z, k)
  BY AssignRowDoes
<1> HIDE DEF t
<1>3. CASE Stays(s, t, i, z)
  <2>1. \E l \in DOMAIN s.slots :
            SameCell(Slot(s, l), s.rows[i], z) /\ ~ Higher(s.rows[i].cpm, Slot(s, l).cpm)
    <3>1. CASE s.rows[i].minz # -1
      <4>1. PICK l \in DOMAIN s.slots : s.slots[l] = i
        BY <3>1 DEF During, Slotted
      <4>2. Slot(s, l) = s.rows[i] /\ s.rows[i].cpm \in Cpm
        BY <4>1, SlotTypes DEF Slot, Row, Cpm
      <4> QED
        BY <4>1, <4>2, HigherOrders DEF SameCell
    <3> QED
      BY <1>3, <3>1 DEF Stays
  <2>2. \A j \in 1 .. i : j = i \/ j \in 1 .. i - 1
    OBVIOUS
  <2>3. During(s, N, z, i)
    BY <2>1, <2>2 DEF During
  <2> QED
    BY <1>3, <2>3 DEF Stays, SameData, t
<1>4. ASSUME NEW k, Takes(s, t, N, i, z, k)
      PROVE  During(t, N, z, i) /\ SameData(s, t, N)
  BY <1>1, <1>4, TakesKeeps DEF Takes
<1>5. CASE GetsSlot(s, t, i, z)
  BY <1>4, <1>5, GetsSlotTakes DEF t
<1>6. CASE \E k \in DOMAIN s.slots : Replaces(s, t, i, z, k)
  BY <1>4, <1>6, ReplacesTakes DEF t
<1> QED
  BY <1>2, <1>3, <1>5, <1>6

-----------------------------------------------------------------------------
(* The rounds of the three loops *)

LEMMA AssignZoomRuns ==
    ASSUME NEW N \in Nat, NEW s \in Loops(N), NEW z \in Zooms
    PROVE  \E f \in [0 .. N -> Loops(N)] :
              /\ f[0] = s
              /\ \A i \in 1 .. N : f[i] = AssignRow(f[i - 1], i, z)
              /\ AssignZoom(s, z) = f[N]
<1> DEFINE start == s
           Def(f) == f = [i \in 0 .. N |->
                             IF i = 0 THEN start ELSE AssignRow(f[i - 1], i, z)]
           after == CHOOSE f : Def(f)
           round == [i \in 1 .. N |-> [t \in Loops(N) |-> AssignRow(t, i, z)]]
<1>1. N \in Nat /\ Len(s.rows) = N
  BY SlotTypes
<1>2. start \in Loops(N)
  OBVIOUS
<1>3. AssignZoom(s, z) = after[N]
  BY <1>1 DEF AssignZoom
<1> HIDE DEF start
<1>4. \A i \in 1 .. N, t \in Loops(N) : AssignRow(t, i, z) \in Loops(N)
  BY <1>1, AssignRowTypes
<1>5. round \in [1 .. N -> [Loops(N) -> Loops(N)]]
  BY <1>4
<1>6. PICK f : Rounds(f, N, Loops(N), start, round)
  <2> HIDE DEF round
  <2> QED
    BY <1>1, <1>2, <1>5, LoopRuns
<1>7. Def(f)
  <2>1. f = [i \in 0 .. N |-> f[i]] /\ f[0] = start
    BY <1>6 DEF Rounds
  <2>2. ASSUME NEW i \in 0 .. N
        PROVE  f[i] = IF i = 0 THEN start ELSE AssignRow(f[i - 1], i, z)
    <3>1. CASE i = 0
      BY <2>1, <3>1
    <3>2. CASE i # 0
      <4>1. i \in 1 .. N /\ f[i - 1] \in Loops(N)
        BY <1>1, <1>6, <3>2 DEF Rounds
      <4> QED
        BY <1>6, <3>2, <4>1 DEF Rounds
    <3> QED
      BY <3>1, <3>2
  <2> QED
    BY <2>1, <2>2
<1>8. Def(after)
  <2> HIDE DEF Def
  <2> QED
    BY <1>7
<1> HIDE DEF after, round
<1>9. after[0] = start /\ \A i \in 1 .. N : after[i] = AssignRow(after[i - 1], i, z)
  BY <1>1, <1>8
<1>10. \A i \in 0 .. N : after[i] \in Loops(N)
  <2> DEFINE T == {i \in 0 .. N : after[i] \in Loops(N)}
  <2>1. 0 \in T
    BY <1>1, <1>2, <1>9
  <2>2. ASSUME NEW i \in 1 .. N, i - 1 \in T PROVE i \in T
    <3>1. i \in 0 .. N /\ after[i - 1] \in Loops(N)
      BY <1>1, <2>2
    <3>2. after[i] \in Loops(N)
      BY <1>4, <1>9, <3>1
    <3> QED
      BY <3>1, <3>2
  <2>3. \A i \in 0 .. N : i \in T
    <3> HIDE DEF T
    <3> QED
      BY <1>1, <2>1, <2>2, HandedOn
  <2> QED
    BY <2>3
<1>11. after \in [0 .. N -> Loops(N)]
  BY <1>8, <1>10
<1> QED
  BY <1>3, <1>9, <1>11 DEF start

LEMMA AssignZoomTypes ==
    ASSUME NEW N \in Nat, NEW s \in Loops(N), NEW z \in Zooms
    PROVE  AssignZoom(s, z) \in Loops(N)
BY AssignZoomRuns

LEMMA AssignPassRuns ==
    ASSUME NEW N \in Nat, NEW s \in Loops(N)
    PROVE  \E f \in [0 .. MaxZoom + 1 -> Loops(N)] :
              /\ f[0] = [s EXCEPT !.replaced = FALSE]
              /\ \A i \in 1 .. MaxZoom + 1 : f[i] = AssignZoom(f[i - 1], i - 1)
              /\ AssignPass(s) = f[MaxZoom + 1]
<1> DEFINE start == [s EXCEPT !.replaced = FALSE]
           Def(f) == f = [i \in 0 .. MaxZoom + 1 |->
                             IF i = 0 THEN start ELSE AssignZoom(f[i - 1], i - 1)]
           after == CHOOSE f : Def(f)
           round == [i \in 1 .. MaxZoom + 1 |-> [t \in Loops(N) |-> AssignZoom(t, i - 1)]]
<1>1. MaxZoom + 1 \in Nat /\ \A i \in 1 .. MaxZoom + 1 : i - 1 \in Zooms
  BY Zoom DEF Zooms
<1>2. start \in Loops(N)
  BY DEF Loops
<1>3. AssignPass(s) = after[MaxZoom + 1]
  BY DEF AssignPass
<1> HIDE DEF start
<1>4. \A i \in 1 .. MaxZoom + 1, t \in Loops(N) : AssignZoom(t, i - 1) \in Loops(N)
  BY <1>1, AssignZoomTypes
<1>5. round \in [1 .. MaxZoom + 1 -> [Loops(N) -> Loops(N)]]
  BY <1>4
<1>6. PICK f : Rounds(f, MaxZoom + 1, Loops(N), start, round)
  <2> HIDE DEF round
  <2> QED
    BY <1>1, <1>2, <1>5, LoopRuns
<1>7. Def(f)
  <2>1. f = [i \in 0 .. MaxZoom + 1 |-> f[i]] /\ f[0] = start
    BY <1>6 DEF Rounds
  <2>2. ASSUME NEW i \in 0 .. MaxZoom + 1
        PROVE  f[i] = IF i = 0 THEN start ELSE AssignZoom(f[i - 1], i - 1)
    <3>1. CASE i = 0
      BY <2>1, <3>1
    <3>2. CASE i # 0
      <4>1. i \in 1 .. MaxZoom + 1 /\ f[i - 1] \in Loops(N)
        BY <1>1, <1>6, <3>2 DEF Rounds
      <4> QED
        BY <1>6, <3>2, <4>1 DEF Rounds
    <3> QED
      BY <3>1, <3>2
  <2> QED
    BY <2>1, <2>2
<1>8. Def(after)
  <2> HIDE DEF Def
  <2> QED
    BY <1>7
<1> HIDE DEF after, round
<1>9. after[0] = start /\ \A i \in 1 .. MaxZoom + 1 : after[i] = AssignZoom(after[i - 1], i - 1)
  BY <1>1, <1>8
<1>10. \A i \in 0 .. MaxZoom + 1 : after[i] \in Loops(N)
  <2> DEFINE T == {i \in 0 .. MaxZoom + 1 : after[i] \in Loops(N)}
  <2>1. 0 \in T
    BY <1>1, <1>2, <1>9
  <2>2. ASSUME NEW i \in 1 .. MaxZoom + 1, i - 1 \in T PROVE i \in T
    <3>1. i \in 0 .. MaxZoom + 1 /\ after[i - 1] \in Loops(N)
      BY <1>1, <2>2
    <3>2. after[i] \in Loops(N)
      BY <1>4, <1>9, <3>1
    <3> QED
      BY <3>1, <3>2
  <2>3. \A i \in 0 .. MaxZoom + 1 : i \in T
    <3> HIDE DEF T
    <3> QED
      BY <1>1, <2>1, <2>2, HandedOn
  <2> QED
    BY <2>3
<1>11. after \in [0 .. MaxZoom + 1 -> Loops(N)]
  BY <1>8, <1>10
<1> QED
  BY <1>3, <1>9, <1>11 DEF start

LEMMA AssignPassTypes ==
    ASSUME NEW N \in Nat, NEW s \in Loops(N)
    PROVE  AssignPass(s) \in Loops(N)
<1>1. MaxZoom + 1 \in 0 .. MaxZoom + 1
  BY Zoom
<1>2. PICK f \in [0 .. MaxZoom + 1 -> Loops(N)] : AssignPass(s) = f[MaxZoom + 1]
  BY AssignPassRuns
<1> QED
  BY <1>1, <1>2

\* The loop over passes starts with no slots, and is over after those that
\* replace nothing.
Fresh(rows) == [rows |-> rows, slots |-> <<>>, replaced |-> TRUE]
Over(f) == {p \in 0 .. MaxPasses : ~ f[p].replaced}

LEMMA PassesRun ==
    ASSUME NEW rows \in Seq(Row)
    PROVE  \E f \in [0 .. MaxPasses -> Loops(Len(rows))] :
              /\ f[0] = Fresh(rows)
              /\ \A i \in 1 .. MaxPasses : f[i] = AssignPass(f[i - 1])
              /\ AssignScaleVisibilityToVecs(rows) = f[Min(Over(f))].rows
<1> DEFINE start == Fresh(rows)
           Def(f) == f = [i \in 0 .. MaxPasses |->
                             IF i = 0 THEN start ELSE AssignPass(f[i - 1])]
           after == CHOOSE f : Def(f)
           round == [i \in 1 .. MaxPasses |-> [t \in Loops(Len(rows)) |-> AssignPass(t)]]
<1>1. MaxPasses \in Nat /\ Len(rows) \in Nat
  BY SizesAssumption
<1>2. start \in Loops(Len(rows))
  BY DEF Loops, Fresh
<1>3. AssignScaleVisibilityToVecs(rows) = after[Min(Over(after))].rows
  BY DEF AssignScaleVisibilityToVecs, Over, Fresh
<1> HIDE DEF start
<1>4. \A i \in 1 .. MaxPasses, t \in Loops(Len(rows)) : AssignPass(t) \in Loops(Len(rows))
  BY <1>1, AssignPassTypes
<1>5. round \in [1 .. MaxPasses -> [Loops(Len(rows)) -> Loops(Len(rows))]]
  BY <1>4
<1>6. PICK f : Rounds(f, MaxPasses, Loops(Len(rows)), start, round)
  <2> HIDE DEF round
  <2> QED
    BY <1>1, <1>2, <1>5, LoopRuns
<1>7. Def(f)
  <2>1. f = [i \in 0 .. MaxPasses |-> f[i]] /\ f[0] = start
    BY <1>6 DEF Rounds
  <2>2. ASSUME NEW i \in 0 .. MaxPasses
        PROVE  f[i] = IF i = 0 THEN start ELSE AssignPass(f[i - 1])
    <3>1. CASE i = 0
      BY <2>1, <3>1
    <3>2. CASE i # 0
      <4>1. i \in 1 .. MaxPasses /\ f[i - 1] \in Loops(Len(rows))
        BY <1>1, <1>6, <3>2 DEF Rounds
      <4> QED
        BY <1>6, <3>2, <4>1 DEF Rounds
    <3> QED
      BY <3>1, <3>2
  <2> QED
    BY <2>1, <2>2
<1>8. Def(after)
  <2> HIDE DEF Def
  <2> QED
    BY <1>7
<1> HIDE DEF after, round
<1>9. after[0] = start /\ \A i \in 1 .. MaxPasses : after[i] = AssignPass(after[i - 1])
  BY <1>1, <1>8
<1>10. \A i \in 0 .. MaxPasses : after[i] \in Loops(Len(rows))
  <2> DEFINE T == {i \in 0 .. MaxPasses : after[i] \in Loops(Len(rows))}
  <2>1. 0 \in T
    BY <1>1, <1>2, <1>9
  <2>2. ASSUME NEW i \in 1 .. MaxPasses, i - 1 \in T PROVE i \in T
    <3>1. i \in 0 .. MaxPasses /\ after[i - 1] \in Loops(Len(rows))
      BY <1>1, <2>2
    <3>2. after[i] \in Loops(Len(rows))
      BY <1>4, <1>9, <3>1
    <3> QED
      BY <3>1, <3>2
  <2>3. \A i \in 0 .. MaxPasses : i \in T
    <3> HIDE DEF T
    <3> QED
      BY <1>1, <2>1, <2>2, HandedOn
  <2> QED
    BY <2>3
<1>11. after \in [0 .. MaxPasses -> Loops(Len(rows))]
  BY <1>8, <1>10
<1> QED
  BY <1>3, <1>9, <1>11 DEF start

-----------------------------------------------------------------------------
(* The first pass settles every zoom, and a second one replaces nothing. *)

LEMMA ZoomKeeps ==
    ASSUME NEW N \in Nat, NEW s \in Loops(N), NEW z \in Zooms, During(s, N, z, 0)
    PROVE  /\ During(AssignZoom(s, z), N, z, N)
           /\ SameData(s, AssignZoom(s, z), N)
<1>1. PICK f \in [0 .. N -> Loops(N)] :
          /\ f[0] = s
          /\ \A i \in 1 .. N : f[i] = AssignRow(f[i - 1], i, z)
          /\ AssignZoom(s, z) = f[N]
  BY AssignZoomRuns
<1> DEFINE T == {i \in 0 .. N : During(f[i], N, z, i) /\ SameData(s, f[i], N)}
<1>2. 0 \in T
  BY <1>1 DEF SameData
<1>3. ASSUME NEW i \in 1 .. N, i - 1 \in T
      PROVE  i \in T
  <2>1. /\ f[i - 1] \in Loops(N) /\ During(f[i - 1], N, z, i - 1)
        /\ SameData(s, f[i - 1], N) /\ f[i] = AssignRow(f[i - 1], i, z) /\ i \in 0 .. N
    BY <1>1, <1>3
  <2>2. During(f[i], N, z, i) /\ SameData(f[i - 1], f[i], N)
    BY <2>1, AssignRowKeeps
  <2>3. SameData(s, f[i], N)
    BY <2>1, <2>2 DEF SameData
  <2> QED
    BY <2>1, <2>2, <2>3
<1>4. \A i \in 0 .. N : i \in T
  <2> HIDE DEF T
  <2> QED
    BY <1>2, <1>3, HandedOn
<1> QED
  BY <1>1, <1>4

LEMMA ZoomStarts ==
    ASSUME NEW N \in Nat, NEW s \in Loops(N), NEW z \in Zooms, z > 0,
           Complete(s, N, z - 1)
    PROVE  During(s, N, z, 0)
<1>1. z \in Nat /\ z - 1 \in 0 .. z - 1 /\ z - 1 \in Zooms /\ z - 1 <= z
  BY Zoom DEF Zooms
<1>2. Slotted(s, N, z)
  BY <1>1 DEF Complete, Slotted
<1>3. \A y \in 0 .. z - 1 : Settled(s, N, y)
  BY DEF Complete
<1>4. ASSUME NEW k \in DOMAIN s.slots, NEW l \in DOMAIN s.slots,
             SameCell(Slot(s, k), Slot(s, l), z)
      PROVE  k = l
  <2>1. s.slots[k] \in 1 .. N /\ Slot(s, k).x \in World /\ Slot(s, l).x \in World
    BY SlotTypes DEF Row
  <2>2. SameCell(Slot(s, k), Slot(s, l), z - 1)
    BY <1>1, <1>4, <2>1, CellsNest DEF SameCell
  <2>3. Slot(s, k).minz <= z - 1 /\ Slot(s, l).minz <= z - 1
    BY <1>1 DEF Complete, Slotted
  <2>4. PICK m \in DOMAIN s.slots :
            \A j \in DOMAIN s.slots :
               Slot(s, j).minz <= z - 1 /\ SameCell(Slot(s, j), s.rows[s.slots[k]], z - 1)
                  => j = m
    BY <1>1, <1>3, <2>1 DEF Settled
  <2> QED
    BY <2>2, <2>3, <2>4 DEF SameCell, Slot
<1> QED
  BY <1>2, <1>3, <1>4 DEF During

LEMMA ZoomEnds ==
    ASSUME NEW N \in Nat, NEW s \in Loops(N), NEW z \in Zooms, During(s, N, z, N)
    PROVE  Complete(s, N, z)
<1>1. z \in Nat
  BY Zoom
<1>2. Settled(s, N, z)
  <2> SUFFICES ASSUME NEW i \in 1 .. N
               PROVE  \E k \in DOMAIN s.slots :
                         /\ Slot(s, k).minz <= z /\ SameCell(Slot(s, k), s.rows[i], z)
                         /\ ~ Higher(s.rows[i].cpm, Slot(s, k).cpm)
                         /\ \A l \in DOMAIN s.slots :
                               Slot(s, l).minz <= z /\ SameCell(Slot(s, l), s.rows[i], z)
                                   => l = k
    BY DEF Settled
  <2>1. PICK k \in DOMAIN s.slots :
            SameCell(Slot(s, k), s.rows[i], z) /\ ~ Higher(s.rows[i].cpm, Slot(s, k).cpm)
    BY DEF During
  <2>2. Slot(s, k).minz <= z
    BY <1>1 DEF During, Slotted
  <2>3. \A l \in DOMAIN s.slots : SameCell(Slot(s, l), s.rows[i], z) => l = k
    BY <2>1 DEF During, SameCell
  <2> QED
    BY <2>1, <2>2, <2>3
<1>3. \A y \in 0 .. z : y = z \/ y \in 0 .. z - 1
  BY <1>1
<1> QED
  BY <1>2, <1>3 DEF Complete, During

\* Rows and slots before the first pass.
Unassigned(s, N) == s.slots = <<>> /\ \A i \in 1 .. N : s.rows[i].minz = -1

LEMMA FirstPass ==
    ASSUME NEW N \in Nat, NEW s \in Loops(N), Unassigned(s, N)
    PROVE  /\ Complete(AssignPass(s), N, MaxZoom)
           /\ SameData(s, AssignPass(s), N)
<1>1. PICK f \in [0 .. MaxZoom + 1 -> Loops(N)] :
          /\ f[0] = [s EXCEPT !.replaced = FALSE]
          /\ \A n \in 1 .. MaxZoom + 1 : f[n] = AssignZoom(f[n - 1], n - 1)
          /\ AssignPass(s) = f[MaxZoom + 1]
  BY AssignPassRuns
<1>2. MaxZoom + 1 \in Nat /\ MaxZoom + 1 # 0 /\ Zooms = 0 .. MaxZoom
  BY Zoom DEF Zooms
<1>3. f[0].rows = s.rows /\ f[0].slots = <<>>
  BY <1>1 DEF Unassigned, Loops
<1>4. During(f[0], N, 0, 0)
  <2>1. DOMAIN f[0].slots = {}
    BY <1>3
  <2>2. Slotted(f[0], N, 0)
    BY <1>3, <2>1 DEF Slotted, Unassigned
  <2> QED
    BY <2>1, <2>2 DEF During
<1> DEFINE T == {n \in 0 .. MaxZoom + 1 :
                    /\ SameData(s, f[n], N)
                    /\ n = 0 \/ Complete(f[n], N, n - 1)}
<1>5. 0 \in T
  BY <1>2, <1>3 DEF SameData
<1>6. ASSUME NEW n \in 1 .. MaxZoom + 1, n - 1 \in T
      PROVE  n \in T
  <2> DEFINE z == n - 1
  <2>1. /\ z \in Zooms /\ f[z] \in Loops(N) /\ f[n] = AssignZoom(f[z], z)
        /\ f[n] \in Loops(N) /\ n \in 0 .. MaxZoom + 1
        /\ SameData(s, f[z], N) /\ (z = 0 \/ Complete(f[z], N, z - 1))
    <3>1. z \in Zooms /\ z \in 0 .. MaxZoom + 1 /\ n \in 0 .. MaxZoom + 1
      BY <1>2, Zoom
    <3>2. SameData(s, f[z], N) /\ (z = 0 \/ Complete(f[z], N, z - 1))
      BY <1>6
    <3>3. f[z] \in Loops(N) /\ f[n] \in Loops(N) /\ f[n] = AssignZoom(f[z], z)
      BY <1>1, <3>1
    <3> QED
      BY <3>1, <3>2, <3>3
  <2> HIDE DEF z
  <2>2. During(f[z], N, z, 0)
    <3>1. CASE z = 0
      BY <1>4, <3>1
    <3>2. CASE z # 0
      <4>1. z > 0
        BY <1>2, <2>1, <3>2
      <4> QED
        BY <2>1, <3>2, <4>1, ZoomStarts
    <3> QED
      BY <3>1, <3>2
  <2>3. During(f[n], N, z, N) /\ SameData(f[z], f[n], N)
    BY <2>1, <2>2, ZoomKeeps
  <2>4. Complete(f[n], N, n - 1)
    BY <2>1, <2>3, ZoomEnds DEF z
  <2>5. SameData(s, f[n], N)
    BY <2>1, <2>3 DEF SameData
  <2> QED
    BY <2>1, <2>4, <2>5
<1>7. \A n \in 0 .. MaxZoom + 1 : n \in T
  <2> HIDE DEF T
  <2> QED
    BY <1>2, <1>5, <1>6, HandedOn
<1>8. MaxZoom + 1 \in T
  <2> HIDE DEF T
  <2> QED
    BY <1>2, <1>7
<1>9. (MaxZoom + 1) - 1 = MaxZoom
  BY Zoom
<1> QED
  BY <1>1, <1>2, <1>8, <1>9

LEMMA CompleteStays ==
    ASSUME NEW N \in Nat, NEW s \in Loops(N), Complete(s, N, MaxZoom),
           NEW i \in 1 .. N, NEW z \in Zooms
    PROVE  AssignRow(s, i, z) = s
<1> DEFINE k == SlotFor(s, s.rows[i].x, z)
<1>1. CASE s.rows[i].minz # -1
  BY <1>1 DEF AssignRow
<1>2. PICK m \in DOMAIN s.slots :
          /\ Slot(s, m).minz <= z /\ SameCell(Slot(s, m), s.rows[i], z)
          /\ ~ Higher(s.rows[i].cpm, Slot(s, m).cpm)
          /\ \A l \in DOMAIN s.slots :
                Slot(s, l).minz <= z /\ SameCell(Slot(s, l), s.rows[i], z) => l = m
  BY DEF Complete, Settled, Zooms
<1>3. /\ k \in DOMAIN s.slots /\ k # 0 /\ k <= m
      /\ SameCell(Slot(s, k), s.rows[i], z)
  BY <1>2, SlotForFinds DEF SameCell, Slot, At
<1> HIDE DEF k
<1>4. Slot(s, k).minz <= z
  <2>1. /\ Slot(s, k).minz <= Slot(s, m).minz
        /\ Slot(s, k).minz \in 0 .. MaxZoom /\ Slot(s, m).minz \in 0 .. MaxZoom
    BY <1>3 DEF Complete, Slotted
  <2> QED
    BY <1>2, <2>1, Zoom
<1>5. k = m
  BY <1>2, <1>3, <1>4
<1>6. ~ Higher(s.rows[i].cpm, Slot(s, k).cpm)
  BY <1>2, <1>5
<1> QED
  BY <1>1, <1>3, <1>6 DEF AssignRow, Slot, k

LEMMA ZoomStays ==
    ASSUME NEW N \in Nat, NEW s \in Loops(N), Complete(s, N, MaxZoom), NEW z \in Zooms
    PROVE  AssignZoom(s, z) = s
<1>1. PICK f \in [0 .. N -> Loops(N)] :
          /\ f[0] = s
          /\ \A i \in 1 .. N : f[i] = AssignRow(f[i - 1], i, z)
          /\ AssignZoom(s, z) = f[N]
  BY AssignZoomRuns
<1> DEFINE T == {i \in 0 .. N : f[i] = s}
<1>2. 0 \in T
  BY <1>1
<1>3. \A i \in 1 .. N : i - 1 \in T => i \in T
  BY <1>1, CompleteStays
<1>4. \A i \in 0 .. N : i \in T
  <2> HIDE DEF T
  <2> QED
    BY <1>2, <1>3, HandedOn
<1> QED
  BY <1>1, <1>4

LEMMA SecondPass ==
    ASSUME NEW N \in Nat, NEW s \in Loops(N), Complete(s, N, MaxZoom)
    PROVE  AssignPass(s) = [s EXCEPT !.replaced = FALSE]
<1> DEFINE t == [s EXCEPT !.replaced = FALSE]
<1>1. PICK f \in [0 .. MaxZoom + 1 -> Loops(N)] :
          /\ f[0] = t
          /\ \A n \in 1 .. MaxZoom + 1 : f[n] = AssignZoom(f[n - 1], n - 1)
          /\ AssignPass(s) = f[MaxZoom + 1]
  BY AssignPassRuns
<1>2. t \in Loops(N) /\ t.rows = s.rows /\ t.slots = s.slots
  BY DEF Loops
<1>3. MaxZoom + 1 \in Nat /\ Zooms = 0 .. MaxZoom
  BY Zoom DEF Zooms
<1> HIDE DEF t
<1>4. Complete(t, N, MaxZoom)
  BY <1>2 DEF Complete, Slotted, Settled, Slot
<1> DEFINE T == {n \in 0 .. MaxZoom + 1 : f[n] = t}
<1>5. 0 \in T
  BY <1>1, <1>3
<1>6. ASSUME NEW n \in 1 .. MaxZoom + 1, n - 1 \in T
      PROVE  n \in T
  <2>1. n - 1 \in Zooms /\ f[n - 1] = t /\ n \in 0 .. MaxZoom + 1
    BY <1>3, <1>6, Zoom
  <2>2. f[n] = t
    BY <1>1, <1>2, <1>4, <2>1, ZoomStays
  <2> QED
    BY <2>1, <2>2
<1>7. \A n \in 0 .. MaxZoom + 1 : n \in T
  <2> HIDE DEF T
  <2> QED
    BY <1>3, <1>5, <1>6, HandedOn
<1>8. MaxZoom + 1 \in 0 .. MaxZoom + 1
  BY Zoom
<1> QED
  BY <1>1, <1>7, <1>8 DEF t

LEMMA FreshRows ==
    ASSUME NEW rows \in Seq(Row), \A i \in DOMAIN rows : rows[i].minz = -1
    PROVE  /\ Len(rows) \in Nat /\ Fresh(rows) \in Loops(Len(rows))
           /\ Unassigned(Fresh(rows), Len(rows))
<1>1. /\ Len(rows) \in Nat /\ DOMAIN rows = 1 .. Len(rows)
      /\ rows \in [1 .. Len(rows) -> Row] /\ <<>> \in Seq(1 .. Len(rows))
  OBVIOUS
<1>2. Fresh(rows) \in Loops(Len(rows))
  BY <1>1 DEF Fresh, Loops
<1> QED
  BY <1>1, <1>2 DEF Fresh, Unassigned

\* The loop of AssignScaleVisibilityToVecs ends: no row is replaced in the
\* second pass, whatever the log.
THEOREM TwoPassesAssign ==
    ASSUME NEW rows \in Seq(Row), \A i \in DOMAIN rows : rows[i].minz = -1
    PROVE  /\ AssignPass(AssignPass(Fresh(rows))).replaced = FALSE
           /\ AssignScaleVisibilityToVecs(rows) = AssignPass(Fresh(rows)).rows
<1> DEFINE N == Len(rows)
           s == AssignPass(Fresh(rows))
<1>1. N \in Nat /\ Fresh(rows) \in Loops(N) /\ Unassigned(Fresh(rows), N)
  BY FreshRows
<1>2. s \in Loops(N) /\ Complete(s, N, MaxZoom)
  BY <1>1, FirstPass, AssignPassTypes
<1> HIDE DEF s
<1>3. AssignPass(s) = [s EXCEPT !.replaced = FALSE]
  BY <1>1, <1>2, SecondPass
<1>4. AssignPass(s).replaced = FALSE /\ AssignPass(s).rows = s.rows
  BY <1>2, <1>3 DEF Loops
<1>5. PICK f \in [0 .. MaxPasses -> Loops(N)] :
          /\ f[0] = Fresh(rows)
          /\ \A i \in 1 .. MaxPasses : f[i] = AssignPass(f[i - 1])
          /\ AssignScaleVisibilityToVecs(rows) = f[Min(Over(f))].rows
  BY PassesRun
<1>6. 1 \in 1 .. MaxPasses /\ 2 \in 1 .. MaxPasses
  BY SizesAssumption
<1>7. f[1] = s /\ f[2] = AssignPass(s)
  BY <1>5, <1>6 DEF s
<1>8. Over(f) \in SUBSET Nat /\ 2 \in Over(f) /\ 0 \notin Over(f)
  BY <1>4, <1>5, <1>6, <1>7 DEF Over, Fresh
<1>9. Min(Over(f)) \in {1, 2}
  <2>1. \E m \in Over(f) : \A n \in Over(f) : m <= n
    BY <1>8, LeastNat
  <2>2. Min(Over(f)) \in Over(f) /\ \A n \in Over(f) : Min(Over(f)) <= n
    BY <2>1 DEF Min
  <2> QED
    BY <1>8, <2>2
<1>10. f[Min(Over(f))].rows = s.rows
  BY <1>4, <1>7, <1>9
<1> QED
  BY <1>4, <1>5, <1>10 DEF s

-----------------------------------------------------------------------------
(* What is shown of a log *)

\* Of the rows in p that are shown at zoom z, exactly one is in the cell of
\* point, and no point there has a higher value.
ShownOnce(p, point, z) ==
    \E m \in DOMAIN p :
        /\ p[m].minz \in 0 .. z /\ SameCell(p[m], point, z) /\ ~ Higher(point.cpm, p[m].cpm)
        /\ \A l \in DOMAIN p : p[l].minz \in 0 .. z /\ SameCell(p[l], point, z) => l = m

LEMMA ScaleShows ==
    ASSUME NEW rows \in Seq(Row), \A i \in DOMAIN rows : rows[i].minz = -1
    PROVE  LET r == AssignScaleVisibilityToVecs(rows)
           IN  /\ r \in Seq(Row) /\ Len(r) = Len(rows)
               /\ \A z \in Zooms : \A i \in DOMAIN rows : ShownOnce(r, rows[i], z)
<1> DEFINE N == Len(rows)
           s == AssignPass(Fresh(rows))
           r == s.rows
<1>1. N \in Nat /\ Fresh(rows) \in Loops(N) /\ Unassigned(Fresh(rows), N)
      /\ DOMAIN rows = 1 .. N
  BY FreshRows
<1>2. s \in Loops(N) /\ Complete(s, N, MaxZoom) /\ SameData(Fresh(rows), s, N)
  BY <1>1, FirstPass, AssignPassTypes
<1>3. AssignScaleVisibilityToVecs(rows) = r
  BY TwoPassesAssign
<1> HIDE DEF s
<1>4. r \in [1 .. N -> Row]
  BY <1>2 DEF Loops
<1>5. r \in Seq(Row) /\ Len(r) = N /\ DOMAIN r = 1 .. N
  <2> HIDE DEF r
  <2> QED
    BY <1>1, <1>4, SeqDef
<1>6. ASSUME NEW z \in Zooms, NEW i \in 1 .. N
      PROVE  ShownOnce(r, rows[i], z)
  <2>1. PICK k \in DOMAIN s.slots :
            /\ Slot(s, k).minz <= z /\ SameCell(Slot(s, k), r[i], z)
            /\ ~ Higher(r[i].cpm, Slot(s, k).cpm)
            /\ \A l \in DOMAIN s.slots :
                  Slot(s, l).minz <= z /\ SameCell(Slot(s, l), r[i], z) => l = k
    BY <1>2 DEF Complete, Settled, Zooms
  <2>2. r[i].x = rows[i].x /\ r[i].cpm = rows[i].cpm
    BY <1>2 DEF SameData, Fresh
  <2> DEFINE m == s.slots[k]
  <2>3. m \in 1 .. N /\ r[m] = Slot(s, k)
    BY <1>1, <1>2, SlotTypes DEF Slot
  <2>4. r[m].minz \in 0 .. z
    <3>1. Slot(s, k).minz \in 0 .. MaxZoom
      BY <1>2 DEF Complete, Slotted
    <3> QED
      BY <2>1, <2>3, <3>1, Zoom
  <2>5. SameCell(r[m], rows[i], z) /\ ~ Higher(rows[i].cpm, r[m].cpm)
    BY <2>1, <2>2, <2>3 DEF SameCell
  <2>6. ASSUME NEW l \in 1 .. N, r[l].minz \in 0 .. z, SameCell(r[l], rows[i], z)
        PROVE  l = m
    <3>1. r[l].minz # -1 /\ r[l].minz <= z
      BY <2>6, Zoom
    <3>2. PICK j \in DOMAIN s.slots : s.slots[j] = l
      BY <1>2, <3>1 DEF Complete, Slotted
    <3>3. Slot(s, j) = r[l]
      BY <3>2 DEF Slot
    <3> QED
      BY <2>1, <2>2, <2>6, <3>1, <3>2, <3>3 DEF SameCell
  <2> HIDE DEF m, r
  <2> QED
    BY <1>5, <2>3, <2>4, <2>5, <2>6 DEF ShownOnce
<1> QED
  BY <1>1, <1>3, <1>5, <1>6

\* What leaves out rows that no zoom shows leaves what is shown.
LEMMA PickedShows ==
    ASSUME NEW r \in Seq(Row), NEW I \in SUBSET (DOMAIN r),
           \A i \in DOMAIN r : i \in I <=> r[i].minz # -1
    PROVE  /\ Pick(r, I) \in Seq(Row)
           /\ \A n \in DOMAIN Pick(r, I) : Pick(r, I)[n].minz # -1
           /\ \A point, z : z \in Zooms /\ ShownOnce(r, point, z) =>
                  ShownOnce(Pick(r, I), point, z)
<1> DEFINE C == Cardinality(I)
           p == Pick(r, I)
<1>1. p \in Seq(Row) /\ IsFiniteSet(I) /\ Len(p) = C
  BY PickSelects
<1>2. PICK at \in [1 .. C -> I] :
          /\ \A n \in 1 .. C : p[n] = r[at[n]]
          /\ \A i \in I : \E n \in 1 .. C : at[n] = i
          /\ \A m, n \in 1 .. C : m < n => at[m] < at[n]
  BY PickSelects
<1>3. C \in Nat /\ DOMAIN r = 1 .. Len(r) /\ Len(r) \in Nat
  BY <1>1, FS_CardinalityType
<1> HIDE DEF p, C
<1>4. DOMAIN p = 1 .. C
  BY <1>1, <1>3
<1>5. \A n \in 1 .. C : at[n] \in DOMAIN r /\ r[at[n]].minz # -1
  OBVIOUS
<1>6. \A i \in DOMAIN r : r[i].minz # -1 => \E n \in 1 .. C : at[n] = i
  BY <1>2
<1>7. \A m, n \in 1 .. C : at[m] = at[n] => m = n
  <2>1. SUFFICES ASSUME NEW m \in 1 .. C, NEW n \in 1 .. C, at[m] = at[n], m # n
                 PROVE  FALSE
    OBVIOUS
  <2>2. at[m] \in Nat /\ at[n] \in Nat
    BY <1>3, <1>5
  <2>3. m < n \/ n < m
    BY <1>3, <2>1
  <2> QED
    BY <1>2, <2>1, <2>2, <2>3
<1>8. ASSUME NEW point, NEW z \in Zooms, ShownOnce(r, point, z)
      PROVE  ShownOnce(p, point, z)
  <2>1. PICK m \in DOMAIN r :
            /\ r[m].minz \in 0 .. z /\ SameCell(r[m], point, z) /\ ~ Higher(point.cpm, r[m].cpm)
            /\ \A l \in DOMAIN r :
                  r[l].minz \in 0 .. z /\ SameCell(r[l], point, z) => l = m
    BY <1>8 DEF ShownOnce
  <2>2. PICK n \in 1 .. C : at[n] = m
    BY <1>6, <2>1, Zoom
  <2>3. \A l \in 1 .. C :
           p[l].minz \in 0 .. z /\ SameCell(p[l], point, z) => l = n
    BY <1>2, <1>5, <1>7, <2>1, <2>2
  <2> QED
    BY <1>2, <1>4, <2>1, <2>2, <2>3 DEF ShownOnce
<1> QED
  BY <1>1, <1>2, <1>4, <1>5, <1>8 DEF p

LEMMA AssignedShows ==
    ASSUME NEW r \in Seq(Row)
    PROVE  /\ Assigned(r) \in Seq(Row)
           /\ \A n \in DOMAIN Assigned(r) : Assigned(r)[n].minz # -1
           /\ \A point, z : z \in Zooms /\ ShownOnce(r, point, z) =>
                  ShownOnce(Assigned(r), point, z)
<1> DEFINE I == {i \in DOMAIN r : r[i].minz # -1}
<1>1. I \in SUBSET (DOMAIN r) /\ \A i \in DOMAIN r : i \in I <=> r[i].minz # -1
  OBVIOUS
<1>2. Assigned(r) = Pick(r, I)
  BY DEF Assigned
<1> HIDE DEF I
<1> QED
  BY <1>1, <1>2, PickedShows

\* What is sent of a file shows it at every zoom, and all of it is shown.
LEMMA ParsedShows ==
    ASSUME NEW file \in Seq(Lines)
    PROVE  /\ ParsedRows(file) \in Seq(Row)
           /\ (\E i \in DOMAIN file : file[i].x \in {OffMap, NoPosition}) =>
                  \A k \in DOMAIN ParsedRows(file) : ParsedRows(file)[k].minz # -1
           /\ \A z \in Zooms : \A i \in DOMAIN ReadLines(file) :
                  ShownOnce(ParsedRows(file), ReadLines(file)[i], z)
<1> DEFINE r == AssignScaleVisibilityToVecs(ReadLines(file))
<1>1. /\ ReadLines(file) \in Seq(Row)
      /\ \A k \in DOMAIN ReadLines(file) : ReadLines(file)[k].minz = -1
      /\ (\E i \in DOMAIN file : file[i].x \in {OffMap, NoPosition}) =>
             Len(ReadLines(file)) < Len(file)
  BY ReadLinesDoes DEF IsPoint
<1>2. /\ r \in Seq(Row) /\ Len(r) = Len(ReadLines(file))
      /\ \A z \in Zooms : \A i \in DOMAIN ReadLines(file) :
            ShownOnce(r, ReadLines(file)[i], z)
  BY <1>1, ScaleShows
<1>3. ParsedRows(file) = IF Len(r) = Len(file) THEN r ELSE Assigned(r)
  BY DEF ParsedRows
<1>4. Len(file) \in Nat /\ Len(r) \in Nat
  BY <1>2
<1> HIDE DEF r
<1>5. CASE Len(r) = Len(file)
  BY <1>1, <1>2, <1>3, <1>4, <1>5
<1>6. CASE Len(r) # Len(file)
  <2>1. ParsedRows(file) = Assigned(r)
    BY <1>3, <1>6
  <2> QED
    BY <1>2, <2>1, AssignedShows
<1> QED
  BY <1>5, <1>6

-----------------------------------------------------------------------------
(* PrefilterVecs *)

LEMMA DivSmaller ==
    ASSUME NEW x \in Nat, NEW a \in Nat, NEW b \in Nat, b > 0, x < a * b
    PROVE  x \div b \in Nat /\ x \div b < a
<1> DEFINE q == x \div b
<1>1. q \in Nat /\ q * b <= x
  OBVIOUS
<1> HIDE DEF q
<1>2. q < a
  <2>1. SUFFICES ASSUME q >= a PROVE FALSE
    BY <1>1
  <2>2. q * b >= a * b
    BY <1>1, <2>1
  <2>3. q * b \in Nat /\ a * b \in Nat
    BY <1>1
  <2> QED
    BY <1>1, <2>2, <2>3
<1> QED
  BY <1>1, <1>2 DEF q

LEMMA PixelIsInTile ==
    ASSUME NEW x \in World
    PROVE  Pixel(x) \in 0 .. 2^TileBits - 1
<1>1. TileBits \in Nat /\ MaxZoom \in Nat
  BY SizesAssumption
<1>2. /\ 2^TileBits \in Nat /\ 2^MaxZoom \in Nat /\ 2^MaxZoom > 0
      /\ 2^(TileBits + MaxZoom) = 2^TileBits * 2^MaxZoom
  BY <1>1, PowerOfTwo, PowersAdd
<1>3. x \in Nat /\ x < 2^TileBits * 2^MaxZoom
  <2>1. x \in 0 .. 2^(TileBits + MaxZoom) - 1
    BY DEF World
  <2> QED
    BY <1>2, <2>1
<1>4. x \div 2^MaxZoom \in Nat /\ x \div 2^MaxZoom < 2^TileBits
  BY <1>2, <1>3, DivSmaller
<1> QED
  BY <1>2, <1>4 DEF Pixel

LEMMA BitmapIsInTile ==
    ASSUME NEW old \in Seq(Row), oldtile \subseteq 0 .. 2^TileBits - 1, last_n \in Nat
    PROVE  Bitmap(old) \subseteq 0 .. 2^TileBits - 1
<1>1. ASSUME NEW j \in last_n + 1 .. Len(old)
      PROVE  Pixel(old[j].x) \in 0 .. 2^TileBits - 1
  <2>1. j \in DOMAIN old
    OBVIOUS
  <2>2. old[j] \in Row
    BY <2>1, ElementOfSeq
  <2>3. old[j].x \in World
    BY <2>2 DEF Row
  <2> QED
    BY <2>3, PixelIsInTile
<1> QED
  BY <1>1 DEF Bitmap

LEMMA PickedRows ==
    ASSUME NEW s \in Seq(Row), NEW I \in SUBSET (DOMAIN s)
    PROVE  /\ Pick(s, I) \in Seq(Row)
           /\ \A i \in I : \E n \in DOMAIN Pick(s, I) : Pick(s, I)[n] = s[i]
<1> DEFINE p == Pick(s, I)
           C == Cardinality(I)
<1>1. p \in Seq(Row) /\ Len(p) = C
  BY PickSelects
<1>2. PICK at \in [1 .. C -> I] :
          /\ \A n \in 1 .. C : p[n] = s[at[n]]
          /\ \A i \in I : \E n \in 1 .. C : at[n] = i
  BY PickSelects
<1> HIDE DEF p, C
<1>3. DOMAIN p = 1 .. C
  BY <1>1
<1>4. \A i \in I : \E n \in DOMAIN p : p[n] = s[i]
  BY <1>2, <1>3
<1> QED
  BY <1>1, <1>4 DEF p

\* The points that are kept, of those that have been parsed: each of the others
\* has no zoom or is hidden.
LEMMA KeptSelects ==
    ASSUME NEW new \in Seq(Row), NEW old \in Seq(Row)
    PROVE  /\ Kept(new, old) \in Seq(Row)
           /\ \A i \in DOMAIN new :
                 \/ \E n \in DOMAIN Kept(new, old) : Kept(new, old)[n] = new[i]
                 \/ new[i].minz = -1
                 \/ Hidden(new[i], old, OldExtent(old))
<1> DEFINE flagged(p) == WithBitmap(new, old) => Pixel(p.x) \in Bitmap(old)
           compared == IsInExtent(new, old) /\ \E i \in DOMAIN new : flagged(new[i])
           I == {i \in DOMAIN new :
                    /\ new[i].minz # -1
                    /\ ~ (flagged(new[i]) /\ Hidden(new[i], old, OldExtent(old)))}
<1>1. Kept(new, old) = IF ~ compared THEN new ELSE Pick(new, I)
  BY DEF Kept
<1>2. I \in SUBSET (DOMAIN new)
  OBVIOUS
<1>3. \A i \in DOMAIN new :
         i \in I \/ new[i].minz = -1 \/ Hidden(new[i], old, OldExtent(old))
  OBVIOUS
<1> HIDE DEF flagged, compared, I
<1>4. CASE ~ compared
  BY <1>1, <1>4
<1>5. CASE compared
  <2>1. /\ Pick(new, I) \in Seq(Row)
        /\ \A i \in I : \E n \in DOMAIN Pick(new, I) : Pick(new, I)[n] = new[i]
    BY <1>2, PickedRows
  <2>2. Pick(new, I) = Kept(new, old)
    BY <1>1, <1>5
  <2> QED
    BY <1>3, <2>1, <2>2
<1> QED
  BY <1>4, <1>5

-----------------------------------------------------------------------------
(* SortByQuadKey *)

Shown == {p \in Row : p.minz # -1}

\* Quadkeys order the rows that have a zoom: of three the shortest key decides,
\* or two of them lie in one tile at its zoom.
LEMMA KeyBeforeOrders ==
    ASSUME NEW p \in Shown, NEW q \in Shown, NEW r \in Shown
    PROVE  /\ ~ KeyBefore(p, p)
           /\ KeyBefore(p, q) /\ KeyBefore(q, r) => KeyBefore(p, r)
           /\ KeyBefore(p, q) => ~ KeyBefore(q, p)
           /\ ~ KeyBefore(p, q) /\ ~ KeyBefore(q, r) => ~ KeyBefore(p, r)
<1> DEFINE T(z, s) == Tile(s.x, z)
<1>1. \A s \in Shown : s.minz \in Zooms /\ s.minz \in Nat /\ s.x \in World
  BY Zoom DEF Shown, Row
<1>2. \A z \in Zooms, s \in Shown : T(z, s) \in Nat
  BY <1>1, TilesNest, Zoom
<1>3. \A y, z \in Zooms, s, t \in Shown :
         y <= z /\ T(z, s) <= T(z, t) => T(y, s) <= T(y, t)
  BY <1>1, TilesNest
<1>4. \A s, t \in Shown :
         KeyBefore(s, t) <=>
             LET z == IF s.minz < t.minz THEN s.minz ELSE t.minz
             IN  T(z, s) < T(z, t) \/ (T(z, s) = T(z, t) /\ s.minz < t.minz)
  BY DEF KeyBefore
<1> HIDE DEF T
<1> QED
  BY <1>1, <1>2, <1>3, <1>4

\* Of three rows in the order of their keys the one in the middle is in each
\* tile that both others are in.
LEMMA TileBetween ==
    ASSUME NEW a \in Shown, NEW b \in Shown, NEW c \in Shown, NEW z \in Zooms,
           ~ KeyBefore(b, a), ~ KeyBefore(c, b),
           a.minz >= z, c.minz >= z, Tile(c.x, z) = Tile(a.x, z)
    PROVE  b.minz >= z /\ Tile(b.x, z) = Tile(a.x, z)
<1> DEFINE T(y, s) == Tile(s.x, y)
<1>1. \A s \in Shown : s.minz \in Zooms /\ s.minz \in Nat /\ s.x \in World
  BY Zoom DEF Shown, Row
<1>2. \A y \in Zooms, s \in Shown : T(y, s) \in Nat
  BY <1>1, TilesNest, Zoom
<1>3. \A x, y \in Zooms, s, t \in Shown :
         x <= y /\ T(y, s) <= T(y, t) => T(x, s) <= T(x, t)
  BY <1>1, TilesNest
<1>4. \A s, t \in Shown :
         KeyBefore(s, t) <=>
             LET y == IF s.minz < t.minz THEN s.minz ELSE t.minz
             IN  T(y, s) < T(y, t) \/ (T(y, s) = T(y, t) /\ s.minz < t.minz)
  BY DEF KeyBefore
<1>5. T(z, c) = T(z, a) /\ z \in Nat
  BY Zoom
<1> HIDE DEF T
<1>6. b.minz >= z
  <2>1. SUFFICES ASSUME b.minz < z PROVE FALSE
    BY <1>1, <1>5
  <2>2. b.minz \in Zooms /\ b.minz < a.minz /\ b.minz < c.minz
    BY <1>1, <1>5, <2>1
  <2>3. T(b.minz, b) > T(b.minz, a)
    BY <1>1, <1>2, <1>4, <2>2
  <2>4. T(b.minz, c) >= T(b.minz, b)
    BY <1>1, <1>2, <1>4, <2>2
  <2>5. T(b.minz, c) <= T(b.minz, a)
    BY <1>1, <1>2, <1>3, <1>5, <2>1, <2>2
  <2> QED
    BY <1>2, <2>2, <2>3, <2>4, <2>5
<1>7. T(z, a) <= T(z, b)
  <2> DEFINE y == IF b.minz < a.minz THEN b.minz ELSE a.minz
  <2>1. y \in Zooms /\ z <= y
    BY <1>1, <1>6
  <2>2. T(y, a) <= T(y, b)
    BY <1>1, <1>2, <1>4, <2>1
  <2> QED
    BY <1>3, <2>1, <2>2
<1>8. T(z, b) <= T(z, c)
  <2> DEFINE y == IF c.minz < b.minz THEN c.minz ELSE b.minz
  <2>1. y \in Zooms /\ z <= y
    BY <1>1, <1>6
  <2>2. T(y, b) <= T(y, c)
    BY <1>1, <1>2, <1>4, <2>1
  <2> QED
    BY <1>3, <2>1, <2>2
<1>9. T(z, b) = T(z, a)
  BY <1>2, <1>5, <1>7, <1>8
<1> QED
  BY <1>6, <1>9 DEF T

\* Sorting puts each row in one place, none before one with a smaller key.
LEMMA ByQuadKeySorts ==
    ASSUME NEW v \in Seq(Row), \A i \in DOMAIN v : v[i].minz # -1
    PROVE  /\ ByQuadKey(v) \in Seq(Row)
           /\ Len(ByQuadKey(v)) = Len(v) /\ DOMAIN ByQuadKey(v) = DOMAIN v
           /\ \A i \in DOMAIN v : ByQuadKey(v)[i] \in Shown
           /\ \E at \in Bijection(DOMAIN v, DOMAIN v) :
                 \A n \in DOMAIN v : ByQuadKey(v)[n] = v[at[n]]
           /\ \A i, j \in DOMAIN v :
                 i <= j => ~ KeyBefore(ByQuadKey(v)[j], ByQuadKey(v)[i])
<1> DEFINE D == DOMAIN v
           R == {p \in D \X D :
                    \/ KeyBefore(v[p[1]], v[p[2]])
                    \/ ~ KeyBefore(v[p[2]], v[p[1]]) /\ p[1] < p[2]}
           at == InOrder(D, R)
           w == ByQuadKey(v)
<1>1. D = 1 .. Len(v) /\ Len(v) \in Nat /\ \A i \in D : v[i] \in Shown
  <2>1. D = 1 .. Len(v) /\ Len(v) \in Nat /\ \A i \in D : v[i] \in Row
    BY LenProperties
  <2> QED
    BY <2>1 DEF Shown
<1>2. IsFiniteSet(D) /\ Cardinality(D) = Len(v)
  BY <1>1, FS_Interval
<1>3. ASSUME NEW i \in D, NEW j \in D
      PROVE  <<i, j>> \in R <=>
                 \/ KeyBefore(v[i], v[j])
                 \/ ~ KeyBefore(v[j], v[i]) /\ i < j
  OBVIOUS
<1>4. w = [n \in D |-> v[at[n]]]
  BY DEF ByQuadKey
<1> HIDE DEF R, at, D, w
<1>5. StrictOrder(D, R)
  <2>1. ASSUME NEW i \in D
        PROVE  <<i, i>> \notin R
    BY <1>1, <1>3, KeyBeforeOrders
  <2>2. ASSUME NEW i \in D, NEW j \in D, i # j
        PROVE  <<i, j>> \in R \/ <<j, i>> \in R
    BY <1>1, <1>3, <2>2
  <2>3. ASSUME NEW i \in D, NEW j \in D, NEW k \in D,
               <<i, j>> \in R, <<j, k>> \in R
        PROVE  <<i, k>> \in R
    <3>1. v[i] \in Shown /\ v[j] \in Shown /\ v[k] \in Shown
      BY <1>1
    <3>2. /\ KeyBefore(v[i], v[j]) /\ KeyBefore(v[j], v[k]) => KeyBefore(v[i], v[k])
          /\ ~ KeyBefore(v[k], v[j]) /\ ~ KeyBefore(v[j], v[i]) => ~ KeyBefore(v[k], v[i])
          /\ ~ KeyBefore(v[i], v[k]) /\ ~ KeyBefore(v[k], v[j]) => ~ KeyBefore(v[i], v[j])
          /\ ~ KeyBefore(v[j], v[i]) /\ ~ KeyBefore(v[i], v[k]) => ~ KeyBefore(v[j], v[k])
          /\ KeyBefore(v[i], v[j]) => ~ KeyBefore(v[j], v[i])
          /\ KeyBefore(v[j], v[k]) => ~ KeyBefore(v[k], v[j])
      BY <3>1, KeyBeforeOrders
    <3> QED
      BY <1>1, <1>3, <2>3, <3>2
  <2> QED
    BY <2>1, <2>2, <2>3 DEF StrictOrder
<1>6. /\ at \in [D -> D]
      /\ \A c \in D : \E n \in D : at[n] = c
      /\ \A m, n \in D : m < n => <<at[m], at[n]>> \in R
  <2>1. /\ InOrder(D, R) \in [1 .. Cardinality(D) -> D]
        /\ \A c \in D : \E n \in 1 .. Cardinality(D) : InOrder(D, R)[n] = c
        /\ \A m, n \in 1 .. Cardinality(D) :
              m < n => <<InOrder(D, R)[m], InOrder(D, R)[n]>> \in R
    BY <1>2, <1>5, InOrderEnumerates
  <2> QED
    BY <1>1, <1>2, <2>1 DEF at
<1>7. \A m, n \in D : at[m] = at[n] => m = n
  <2>1. SUFFICES ASSUME NEW m \in D, NEW n \in D, at[m] = at[n], m # n
                 PROVE  FALSE
    OBVIOUS
  <2>2. m < n \/ n < m
    BY <1>1, <2>1
  <2>3. <<at[m], at[m]>> \in R
    BY <1>6, <2>1, <2>2
  <2> QED
    BY <1>5, <1>6, <2>3 DEF StrictOrder
<1>8. at \in Bijection(D, D)
  BY <1>6, <1>7 DEF Bijection, Injection, Surjection, IsInjective
<1>9. \A n \in D : w[n] = v[at[n]] /\ w[n] \in Shown
  BY <1>1, <1>4, <1>6
<1>10. w \in Seq(Row) /\ Len(w) = Len(v) /\ DOMAIN w = D
  <2>1. w \in [1 .. Len(v) -> Row]
    BY <1>1, <1>4, <1>9 DEF Shown
  <2> QED
    BY <1>1, <2>1, SeqDef
<1>11. ASSUME NEW i \in D, NEW j \in D, i <= j
       PROVE  ~ KeyBefore(w[j], w[i])
  <2>1. CASE i = j
    BY <1>9, <2>1, KeyBeforeOrders
  <2>2. CASE i < j
    <3>1. at[i] \in D /\ at[j] \in D /\ <<at[i], at[j]>> \in R
      BY <1>6, <2>2
    <3>2. KeyBefore(v[at[i]], v[at[j]]) \/ ~ KeyBefore(v[at[j]], v[at[i]])
      BY <1>3, <3>1
    <3> QED
      BY <1>1, <1>9, <3>1, <3>2, KeyBeforeOrders
  <2> QED
    BY <1>1, <1>11, <2>1, <2>2
<1> QED
  BY <1>8, <1>9, <1>10, <1>11 DEF D, w

\* A permutation keeps how often each row occurs.
LEMMA PermutingKeepsCounts ==
    ASSUME NEW v \in Seq(Row), NEW w \in Seq(Row), DOMAIN w = DOMAIN v,
           NEW at \in Bijection(DOMAIN v, DOMAIN v),
           \A n \in DOMAIN v : w[n] = v[at[n]], NEW row
    PROVE  Count(row, v) = Count(row, w)
<1> DEFINE D == DOMAIN v
           A == {i \in D : v[i] = row}
           B == {n \in D : w[n] = row}
           f == [n \in B |-> at[n]]
<1>1. /\ at \in [D -> D]
      /\ \A m, n \in D : at[m] = at[n] => m = n
      /\ \A c \in D : \E n \in D : at[n] = c
  BY DEF Bijection, Injection, Surjection, IsInjective
<1>2. f \in [B -> A] /\ \A m, n \in B : f[m] = f[n] => m = n
  BY <1>1
<1>3. \A c \in A : \E n \in B : f[n] = c
  BY <1>1
<1>4. IsFiniteSet(B)
  <2>1. D = 1 .. Len(v) /\ Len(v) \in Nat /\ B \subseteq D
    BY LenProperties
  <2>2. IsFiniteSet(1 .. Len(v))
    BY <2>1, FS_Interval
  <2> QED
    BY <2>1, <2>2, FS_Subset
<1> HIDE DEF f
<1>5. f \in Bijection(B, A)
  BY <1>2, <1>3 DEF Bijection, Injection, Surjection, IsInjective
<1>6. Cardinality(B) = Cardinality(A)
  <2> HIDE DEF A, B
  <2> QED
    BY <1>4, <1>5, FS_Bijection DEF ExistsBijection
<1> QED
  BY <1>6 DEF Count

-----------------------------------------------------------------------------
(* A later log *)

\* Scaling keeps the order of counts.
LEMMA ScaledGrows ==
    ASSUME NEW x \in Int, NEW y \in Int, NEW d \in Nat, d > 0, x <= y
    PROVE  Scaled(x, d) \in Int /\ Scaled(y, d) \in Int /\ Scaled(x, d) <= Scaled(y, d)
<1> DEFINE a == x * 1872
           b == y * 1872
<1>1. a \in Int /\ b \in Int /\ a <= b /\ (a < 0 <=> x < 0) /\ (b < 0 <=> y < 0)
  OBVIOUS
<1>2. -x * 1872 = -a /\ -y * 1872 = -b
  OBVIOUS
<1>3. /\ Scaled(x, d) = IF x < 0 THEN -((-a) \div d) ELSE a \div d
      /\ Scaled(y, d) = IF y < 0 THEN -((-b) \div d) ELSE b \div d
  BY <1>2 DEF Scaled
<1> HIDE DEF a, b
<1>4. CASE x < 0 /\ y < 0
  <2>1. -a \in Nat /\ -b \in Nat /\ -b <= -a
    BY <1>1, <1>4
  <2>2. (-b) \div d <= (-a) \div d /\ (-b) \div d \in Int /\ (-a) \div d \in Int
    BY <2>1, DivGrows
  <2>3. Scaled(x, d) = -((-a) \div d) /\ Scaled(y, d) = -((-b) \div d)
    BY <1>3, <1>4
  <2> QED
    BY <2>2, <2>3
<1>5. CASE x < 0 /\ ~ (y < 0)
  <2>1. -a \in Nat /\ b \in Nat
    BY <1>1, <1>5
  <2>2. (-a) \div d \in Nat /\ b \div d \in Nat
    BY <2>1
  <2>3. Scaled(x, d) = -((-a) \div d) /\ Scaled(y, d) = b \div d
    BY <1>3, <1>5
  <2> QED
    BY <2>2, <2>3
<1>6. CASE ~ (x < 0) /\ ~ (y < 0)
  <2>1. a \in Nat /\ b \in Nat
    BY <1>1, <1>6
  <2>2. a \div d <= b \div d /\ a \div d \in Int /\ b \div d \in Int
    BY <1>1, <2>1, DivGrows
  <2>3. Scaled(x, d) = a \div d /\ Scaled(y, d) = b \div d
    BY <1>3, <1>6
  <2> QED
    BY <2>2, <2>3
<1> QED
  BY <1>1, <1>4, <1>5, <1>6

\* Row q of the page stands for point p at zoom z.
StandsFor(q, p, z) ==
    /\ q.minz \in 0 .. z
    /\ Cell(q.x, q.minz) = Cell(p.x, q.minz)
    /\ ~ Higher(p.cpm, q.cpm) \/ IsDimmer(p.cpm, q.cpm)

\* What is shown of a log stands for its points, each where it comes up.
LEMMA ShownStands ==
    ASSUME NEW r \in Seq(Row), NEW p \in Row, NEW z \in Zooms, ShownOnce(r, p, z)
    PROVE  \E m \in DOMAIN r :
              /\ r[m].minz \in Zooms /\ StandsFor(r[m], p, z)
              /\ ~ Higher(p.cpm, r[m].cpm)
<1>1. PICK m \in DOMAIN r :
          /\ r[m].minz \in 0 .. z /\ SameCell(r[m], p, z)
          /\ ~ Higher(p.cpm, r[m].cpm)
  BY DEF ShownOnce
<1>2. r[m] \in Row
  BY ElementOfSeq
<1>3. r[m].minz \in Zooms /\ r[m].minz <= z /\ r[m].x \in World /\ p.x \in World
  BY <1>1, <1>2, Zoom DEF Zooms, Row
<1>4. Cell(r[m].x, r[m].minz) = Cell(p.x, r[m].minz)
  BY <1>1, <1>3, CellsNest DEF SameCell
<1> QED
  BY <1>1, <1>3, <1>4 DEF StandsFor

\* What hides such a row stands for the point as well.
LEMMA HidingStands ==
    ASSUME NEW m \in Row, NEW p \in Row, NEW q \in Row, NEW z \in Zooms,
           StandsFor(m, p, z), ~ Higher(p.cpm, m.cpm), Hides(q, m)
    PROVE  StandsFor(q, p, z)
<1>1. q.minz = m.minz /\ Cell(q.x, q.minz) = Cell(m.x, m.minz)
  BY DEF Hides
<1>2. m.cpm # NaN /\ m.cpm \in Int /\ Scaled(m.cpm, 100000) < OldValue(q.cpm)
  BY DEF Hides, IsDimmer, Row
<1>3. CASE p.cpm = NaN
  <2>1. ~ Higher(p.cpm, q.cpm)
    BY <1>3 DEF Higher
  <2> QED
    BY <1>1, <2>1 DEF StandsFor
<1>4. CASE p.cpm # NaN
  <2>1. p.cpm \in Int /\ p.cpm <= m.cpm
    <3>1. p.cpm \in Int
      BY <1>4 DEF Row
    <3>2. ~ (p.cpm > m.cpm)
      BY <1>2, <1>4 DEF Higher
    <3> QED
      BY <1>2, <3>1, <3>2
  <2>2. /\ Scaled(p.cpm, 100000) \in Int /\ Scaled(m.cpm, 100000) \in Int
        /\ Scaled(p.cpm, 100000) <= Scaled(m.cpm, 100000)
    BY <1>2, <2>1, ScaledGrows
  <2>3. OldValue(q.cpm) \in Int
    <3>1. q.cpm # NaN => q.cpm \in Int /\ Scaled(q.cpm, 10000) \in Int
      <4>1. q.cpm # NaN => q.cpm \in Int
        BY DEF Row
      <4> QED
        BY <4>1, ScaledGrows
    <3>2. 2^16 \in Nat /\ 2^16 > 0
      BY PowerOfTwo
    <3>3. \A c \in Int, w \in Nat : w > 0 => c % w \in Int
      OBVIOUS
    <3>4. q.cpm # NaN => Scaled(q.cpm, 10000) % 2^16 \in Int
      BY <3>1, <3>2, <3>3
    <3> QED
      BY <3>4 DEF OldValue
  <2>4. Scaled(p.cpm, 100000) < OldValue(q.cpm)
    BY <1>2, <2>2, <2>3
  <2>5. IsDimmer(p.cpm, q.cpm)
    BY <1>4, <2>4 DEF IsDimmer
  <2> QED
    BY <1>1, <2>5 DEF StandsFor
<1> QED
  BY <1>3, <1>4

-----------------------------------------------------------------------------
(* The specification *)

\* Each point of the log that was parsed is shown once.
Sent ==
    \A z \in Zooms : \A i \in DOMAIN ReadLines(lines) :
        ShownOnce(parsed, ReadLines(lines)[i], z)

IInv == TypeOK /\ Sent /\ ShowsEveryLog

LEMMA Stands ==
    ShowsEveryLog <=>
        \A p \in owed : \A z \in Zooms : \E j \in DOMAIN vec : StandsFor(vec[j], p, z)
<1>1. ToSet(vec) = {vec[j] : j \in DOMAIN vec}
  BY DEF ToSet
<1> QED
  BY <1>1 DEF ShowsEveryLog, StandsFor

LEMMA InitInv == Init => IInv
<1> SUFFICES ASSUME Init PROVE IInv
  OBVIOUS
<1>1. TypeOK
  <2>1. Len(Files) \in Nat /\ 0 \in 0 .. Len(Files)
    BY FilesAssumption
  <2>2. <<>> \in Seq(Row) /\ <<>> \in Seq(Lines) /\ Len(<<>>) = 0 /\ DOMAIN <<>> = {}
    OBVIOUS
  <2>3. lines \in Seq(Lines) /\ parsed \in Seq(Row) /\ vec \in Seq(Row)
    BY <2>2 DEF Init
  <2>4. \A i \in DOMAIN parsed : parsed[i].minz # -1
    BY <2>2 DEF Init
  <2>5. oldtile \subseteq 0 .. 2^TileBits - 1 /\ owed \subseteq Row /\ litcpms \in BOOLEAN
    BY DEF Init
  <2>6. last_n \in 0 .. Len(vec)
    <3>1. last_n = 0 /\ vec = <<>>
      BY DEF Init
    <3> QED
      BY <2>2, <3>1
  <2>7. files \in 0 .. Len(Files) /\ step \in {"parsed", "merged", "sorted"}
    BY <2>1 DEF Init
  <2> QED
    BY <2>3, <2>4, <2>5, <2>6, <2>7 DEF TypeOK
<1>2. Sent
  <2>1. <<>> \in Seq(Lines) /\ lines = <<>>
    BY DEF Init
  <2>2. ReadLines(<<>>) \in Seq(Row) /\ Len(ReadLines(<<>>)) <= Len(<<>>)
    BY <2>1, ReadLinesDoes
  <2>3. DOMAIN ReadLines(<<>>) = {}
    BY <2>2
  <2> QED
    BY <2>1, <2>3 DEF Sent
<1>3. ShowsEveryLog
  BY DEF Init, ShowsEveryLog
<1> QED
  BY <1>1, <1>2, <1>3 DEF IInv

LEMMA ParseKeeps ==
    ASSUME IInv, files < Len(Files), NEW file \in Files[files + 1],
           ParseLogFileToVectors(file)
    PROVE  IInv'
<1>1. files + 1 \in DOMAIN Files /\ files' \in 0 .. Len(Files)
  BY FilesAssumption DEF IInv, TypeOK, ParseLogFileToVectors
<1>2. file \in Seq(Lines)
  BY <1>1, FilesAssumption
<1>3. lines' = file /\ parsed' = ParsedRows(file)
  BY DEF ParseLogFileToVectors
<1>4. TypeOK'
  BY <1>1, <1>2, <1>3, ParsedShows DEF IInv, TypeOK, ParseLogFileToVectors
<1>5. Sent'
  BY <1>2, <1>3, ParsedShows DEF Sent
<1>6. ShowsEveryLog'
  BY DEF IInv, ShowsEveryLog, ParseLogFileToVectors
<1> QED
  BY <1>4, <1>5, <1>6 DEF IInv

LEMMA AddDataTypes ==
    ASSUME IInv, NEW rows \in Seq(Row), AddData(rows)
    PROVE  /\ vec' \in Seq(Row)
           /\ Len(vec) \in Nat /\ Len(vec') \in Nat /\ Len(vec) <= Len(vec')
           /\ owed' \subseteq Row /\ litcpms' \in BOOLEAN
<1>1. vec \in Seq(Row) /\ owed \subseteq Row /\ litcpms \in BOOLEAN /\ lines \in Seq(Lines)
  BY DEF IInv, TypeOK
<1>2. litcpms' \in BOOLEAN
  BY <1>1 DEF AddData
<1>3. owed' \subseteq Row
  <2>1. ReadLines(lines) \in Seq(Row)
    BY <1>1, ReadLinesDoes
  <2>2. ToSet(ReadLines(lines)) \subseteq Row
    BY <2>1, ElementOfSeq DEF ToSet
  <2> QED
    BY <1>1, <2>2 DEF AddData, Owes
<1>4. CASE Len(rows) < 2
  BY <1>1, <1>2, <1>3, <1>4 DEF AddData
<1>5. CASE ~ (Len(rows) < 2)
  <2>1. vec' = vec \o rows
    BY <1>5 DEF AddData
  <2> QED
    BY <1>1, <1>2, <1>3, <2>1
<1> QED
  BY <1>4, <1>5

LEMMA AppendedRows ==
    ASSUME NEW rows \in Seq(Row), NEW n \in DOMAIN rows
    PROVE  /\ Len(rows) # 1 => ~ (Len(rows) < 2)
           /\ \A v \in Seq(Row) : /\ Len(v) + n \in DOMAIN (v \o rows)
                                  /\ (v \o rows)[Len(v) + n] = rows[n]
<1> DEFINE l == Len(rows)
<1>1. l \in Nat /\ n \in 1 .. l
  BY LenProperties
<1> HIDE DEF l
<1>2. l # 0
  BY <1>1
<1>3. l # 1 => ~ (l < 2)
  BY <1>1, <1>2
<1> USE DEF l
<1> QED
  BY <1>1, <1>3

\* AddData keeps the points of the page, and adds what it gets but for a single
\* point; so the page shows the log, if what it gets does or the page did.
LEMMA AddDataShows ==
    ASSUME IInv, NEW rows \in Seq(Row), AddData(rows),
           \A i \in DOMAIN ReadLines(lines) : \A z \in Zooms :
              \/ \E n \in DOMAIN rows : StandsFor(rows[n], ReadLines(lines)[i], z)
              \/ \E j \in DOMAIN vec : StandsFor(vec[j], ReadLines(lines)[i], z)
    PROVE  ShowsEveryLog'
<1>1. vec \in Seq(Row)
  BY DEF IInv, TypeOK
<1>2. \A j \in DOMAIN vec : j \in DOMAIN vec' /\ vec'[j] = vec[j]
  BY <1>1 DEF AddData
<1>3. \A n \in DOMAIN rows :
         Len(rows) # 1 => Len(vec) + n \in DOMAIN vec' /\ vec'[Len(vec) + n] = rows[n]
  <2> SUFFICES ASSUME NEW n \in DOMAIN rows, Len(rows) # 1
               PROVE  Len(vec) + n \in DOMAIN vec' /\ vec'[Len(vec) + n] = rows[n]
    OBVIOUS
  <2>1. vec' = vec \o rows
    BY AppendedRows DEF AddData
  <2> QED
    BY <1>1, <2>1, AppendedRows
<1>4. ASSUME NEW p \in owed', NEW z \in Zooms
      PROVE  \E j \in DOMAIN vec' : StandsFor(vec'[j], p, z)
  <2>1. CASE p \in owed
    <3>1. PICK j \in DOMAIN vec : StandsFor(vec[j], p, z)
      BY <2>1, Stands DEF IInv
    <3> QED
      BY <1>2, <3>1
  <2>2. CASE p \notin owed
    <3>1. Len(rows) # 1 /\ p \in ToSet(ReadLines(lines))
      BY <1>4, <2>2 DEF AddData, Owes
    <3>2. PICK i \in DOMAIN ReadLines(lines) : p = ReadLines(lines)[i]
      BY <3>1 DEF ToSet
    <3>3. CASE \E n \in DOMAIN rows : StandsFor(rows[n], p, z)
      BY <1>3, <3>1, <3>3
    <3>4. CASE \E j \in DOMAIN vec : StandsFor(vec[j], p, z)
      BY <1>2, <3>4
    <3> QED
      BY <3>2, <3>3, <3>4
  <2> QED
    BY <2>1, <2>2
<1> QED
  BY <1>4 DEF ShowsEveryLog, StandsFor, ToSet

\* What is sent of the log stands for its points.
LEMMA ParsedStands ==
    ASSUME IInv, NEW i \in DOMAIN ReadLines(lines), NEW z \in Zooms
    PROVE  \E m \in DOMAIN parsed :
              /\ parsed[m] \in Row /\ ReadLines(lines)[i] \in Row
              /\ parsed[m].minz \in Zooms /\ StandsFor(parsed[m], ReadLines(lines)[i], z)
              /\ ~ Higher(ReadLines(lines)[i].cpm, parsed[m].cpm)
<1>1. parsed \in Seq(Row) /\ lines \in Seq(Lines)
  BY DEF IInv, TypeOK
<1>2. ReadLines(lines) \in Seq(Row)
  BY <1>1, ReadLinesDoes
<1>3. ReadLines(lines)[i] \in Row /\ \A m \in DOMAIN parsed : parsed[m] \in Row
  BY <1>1, <1>2, ElementOfSeq
<1>4. ShownOnce(parsed, ReadLines(lines)[i], z)
  BY DEF IInv, Sent
<1> QED
  BY <1>1, <1>3, <1>4, ShownStands

LEMMA AddDirectKeeps ==
    ASSUME IInv, AddDirect
    PROVE  IInv'
<1>1. parsed \in Seq(Row) /\ AddData(parsed)
  BY DEF IInv, TypeOK, AddDirect
<1>2. /\ vec' \in Seq(Row) /\ owed' \subseteq Row /\ litcpms' \in BOOLEAN
      /\ Len(vec) \in Nat /\ Len(vec') \in Nat /\ Len(vec) <= Len(vec')
  BY <1>1, AddDataTypes
<1>3. TypeOK'
  BY <1>2 DEF IInv, TypeOK, AddDirect, AddData
<1>4. Sent'
  BY DEF IInv, Sent, AddDirect, AddData
<1>5. ShowsEveryLog'
  BY <1>1, ParsedStands, AddDataShows
<1> QED
  BY <1>3, <1>4, <1>5 DEF IInv

LEMMA PrefilterKeeps ==
    ASSUME IInv, PrefilterVecs
    PROVE  IInv'
<1>1. parsed \in Seq(Row) /\ vec \in Seq(Row) /\ last_n \in 0 .. Len(vec)
      /\ oldtile \subseteq 0 .. 2^TileBits - 1
  BY DEF IInv, TypeOK
<1>2. Kept(parsed, vec) \in Seq(Row) /\ AddData(Kept(parsed, vec))
  BY <1>1, KeptSelects DEF PrefilterVecs
<1>3. /\ vec' \in Seq(Row) /\ owed' \subseteq Row /\ litcpms' \in BOOLEAN
      /\ Len(vec) \in Nat /\ Len(vec') \in Nat /\ Len(vec) <= Len(vec')
  BY <1>2, AddDataTypes
<1>4. oldtile' \subseteq 0 .. 2^TileBits - 1 /\ last_n' \in 0 .. Len(vec)
  <2>1. Bitmap(vec) \subseteq 0 .. 2^TileBits - 1 /\ Len(vec) \in 0 .. Len(vec)
    BY <1>1, <1>3, BitmapIsInTile
  <2>2. \/ oldtile' = Bitmap(vec) /\ last_n' = Len(vec)
        \/ oldtile' = oldtile /\ last_n' = last_n
    BY DEF PrefilterVecs
  <2> QED
    BY <1>1, <2>1, <2>2
<1>5. TypeOK'
  BY <1>3, <1>4 DEF IInv, TypeOK, PrefilterVecs, AddData
<1>6. Sent'
  BY DEF IInv, Sent, PrefilterVecs, AddData
<1>7. ASSUME NEW i \in DOMAIN ReadLines(lines), NEW z \in Zooms
      PROVE  \/ \E n \in DOMAIN Kept(parsed, vec) :
                    StandsFor(Kept(parsed, vec)[n], ReadLines(lines)[i], z)
             \/ \E j \in DOMAIN vec : StandsFor(vec[j], ReadLines(lines)[i], z)
  <2> DEFINE p == ReadLines(lines)[i]
  <2>1. PICK m \in DOMAIN parsed :
            /\ parsed[m] \in Row /\ p \in Row
            /\ parsed[m].minz \in Zooms /\ StandsFor(parsed[m], p, z)
            /\ ~ Higher(p.cpm, parsed[m].cpm)
    BY ParsedStands
  <2> HIDE DEF p
  <2>2. parsed[m].minz # -1
    BY <2>1, Zoom
  <2>3. CASE \E n \in DOMAIN Kept(parsed, vec) : Kept(parsed, vec)[n] = parsed[m]
    BY <2>1, <2>3 DEF p
  <2>4. CASE Hidden(parsed[m], vec, OldExtent(vec))
    <3>1. PICK j \in DOMAIN vec : Hides(vec[j], parsed[m])
      BY <2>4 DEF Hidden
    <3>2. vec[j] \in Row
      BY <1>1, ElementOfSeq
    <3>3. StandsFor(vec[j], p, z)
      BY <2>1, <3>1, <3>2, HidingStands
    <3> QED
      BY <3>3 DEF p
  <2> QED
    BY <1>1, <2>2, <2>3, <2>4, KeptSelects
<1>8. ShowsEveryLog'
  BY <1>2, <1>7, AddDataShows
<1> QED
  BY <1>5, <1>6, <1>8 DEF IInv

LEMMA SortKeeps ==
    ASSUME IInv, SortByQuadKey
    PROVE  IInv'
<1>1. vec \in Seq(Row) /\ (\A i \in DOMAIN vec : vec[i].minz # -1) /\ vec' = ByQuadKey(vec)
  BY DEF IInv, TypeOK, SortByQuadKey
<1>2. /\ vec' \in Seq(Row) /\ Len(vec') \in Nat /\ DOMAIN vec' = DOMAIN vec
      /\ \E at \in Bijection(DOMAIN vec, DOMAIN vec) :
            \A n \in DOMAIN vec : vec'[n] = vec[at[n]]
  BY <1>1, ByQuadKeySorts
<1>3. TypeOK'
  BY <1>2 DEF IInv, TypeOK, SortByQuadKey
<1>4. Sent'
  BY DEF IInv, Sent, SortByQuadKey
<1>5. \A j \in DOMAIN vec : \E n \in DOMAIN vec' : vec'[n] = vec[j]
  BY <1>2 DEF Bijection, Surjection
<1>6. ASSUME NEW p \in owed, NEW z \in Zooms
      PROVE  \E n \in DOMAIN vec' : StandsFor(vec'[n], p, z)
  <2>1. PICK j \in DOMAIN vec : StandsFor(vec[j], p, z)
    BY Stands DEF IInv
  <2> QED
    BY <1>5, <2>1
<1>7. ShowsEveryLog'
  <2>1. owed' = owed
    BY DEF SortByQuadKey
  <2> QED
    BY <1>6, <2>1 DEF ShowsEveryLog, StandsFor, ToSet
<1> QED
  BY <1>3, <1>4, <1>7 DEF IInv

LEMMA StutterKeeps ==
    ASSUME IInv, UNCHANGED vars
    PROVE  IInv'
BY DEF IInv, TypeOK, Sent, ShowsEveryLog, vars

LEMMA InvHolds == Spec => []IInv
<1>1. IInv /\ [Next]_vars => IInv'
  BY ParseKeeps, AddDirectKeeps, PrefilterKeeps, SortKeeps, StutterKeeps DEF Next
<1> QED
  BY <1>1, InitInv, PTL DEF Spec

-----------------------------------------------------------------------------

\* Points, zooms and the bitmap have their types, and every point that is sent
\* of a file with a line that is no point has a zoom.
THEOREM VectorsTypes == Spec => []TypeOK
BY InvHolds, PTL DEF IInv

\* ShowsMaxima: whatever the files, the points that the worker sends of a log
\* show each cell once at every zoom, and with its maximum, unless the point that
\* is shown has no number for a value.
THEOREM MaximaAreShown == Spec => []ShowsMaxima
<1>1. IInv => ShowsMaxima
  <2> SUFFICES ASSUME IInv, NEW z \in Zooms, NEW i \in DOMAIN ReadLines(lines)
               PROVE  LET point == ReadLines(lines)[i]
                          shown == {k \in DOMAIN parsed :
                                       /\ parsed[k].minz \in 0 .. z
                                       /\ Cell(parsed[k].x, z) = Cell(point.x, z)}
                      IN  /\ Cardinality(shown) = 1
                          /\ \A k \in shown : ~ Higher(point.cpm, parsed[k].cpm)
    BY DEF ShowsMaxima
  <2> DEFINE point == ReadLines(lines)[i]
             shown == {k \in DOMAIN parsed :
                          /\ parsed[k].minz \in 0 .. z
                          /\ Cell(parsed[k].x, z) = Cell(point.x, z)}
  <2>1. PICK m \in DOMAIN parsed :
            /\ parsed[m].minz \in 0 .. z /\ SameCell(parsed[m], point, z)
            /\ ~ Higher(point.cpm, parsed[m].cpm)
            /\ \A l \in DOMAIN parsed :
                  parsed[l].minz \in 0 .. z /\ SameCell(parsed[l], point, z) => l = m
    BY DEF IInv, Sent, ShownOnce
  <2>2. shown = {m}
    BY <2>1 DEF SameCell
  <2>3. Cardinality({m}) = 1
    BY FS_Singleton
  <2> QED
    BY <2>1, <2>2, <2>3
<1> QED
  BY <1>1, InvHolds, PTL

\* ShowsEveryLog: however many logs are loaded, added directly or compared with
\* the others, with a bitmap or without one, and sorted, none of those that were
\* added loses a point to a later one.
THEOREM EveryLogIsShown == Spec => []ShowsEveryLog
BY InvHolds, PTL DEF IInv

\* SortGroupsTiles: sorting by quadkey permutes the points, and leaves together,
\* at every zoom, those of a tile which are shown only there or deeper.
THEOREM SortingGroupsTiles == Spec => SortGroupsTiles
<1> DEFINE Within(z, i, j) ==
               vec'[j].minz >= z /\ Tile(vec'[j].x, z) = Tile(vec'[i].x, z)
           Step == step' = "sorted" =>
                       /\ \A row \in ToSet(vec) \cup ToSet(vec') :
                             Count(row, vec) = Count(row, vec')
                       /\ \A z \in Zooms, i, k \in DOMAIN vec' :
                             LET within(j) == /\ vec'[j].minz >= z
                                              /\ Tile(vec'[j].x, z) = Tile(vec'[i].x, z)
                             IN  within(i) /\ within(k) => \A j \in i .. k : within(j)
<1>1. ASSUME TypeOK, Next, step' = "sorted"
      PROVE  SortByQuadKey
  BY <1>1 DEF Next, ParseLogFileToVectors, AddDirect, PrefilterVecs, AddData
<1>2. ASSUME TypeOK, SortByQuadKey
      PROVE  Step
  <2>1. vec \in Seq(Row) /\ (\A i \in DOMAIN vec : vec[i].minz # -1)
        /\ vec' = ByQuadKey(vec)
    BY <1>2 DEF TypeOK, SortByQuadKey
  <2>2. /\ vec' \in Seq(Row) /\ DOMAIN vec' = DOMAIN vec
        /\ \A i \in DOMAIN vec : vec'[i] \in Shown
        /\ \E at \in Bijection(DOMAIN vec, DOMAIN vec) :
              \A n \in DOMAIN vec : vec'[n] = vec[at[n]]
        /\ \A i, j \in DOMAIN vec : i <= j => ~ KeyBefore(vec'[j], vec'[i])
    BY <2>1, ByQuadKeySorts
  <2>3. \A row : Count(row, vec) = Count(row, vec')
    BY <2>1, <2>2, PermutingKeepsCounts
  <2>4. ASSUME NEW z \in Zooms, NEW i \in DOMAIN vec', NEW k \in DOMAIN vec',
               Within(z, i, i), Within(z, i, k), NEW j \in i .. k
        PROVE  Within(z, i, j)
    <3>1. /\ DOMAIN vec' = 1 .. Len(vec') /\ Len(vec') \in Nat
          /\ j \in DOMAIN vec' /\ i <= j /\ j <= k
      BY <2>2
    <3>2. /\ vec'[i] \in Shown /\ vec'[j] \in Shown /\ vec'[k] \in Shown
          /\ ~ KeyBefore(vec'[j], vec'[i]) /\ ~ KeyBefore(vec'[k], vec'[j])
      BY <2>2, <3>1
    <3> QED
      BY <2>4, <3>2, TileBetween
  <2> QED
    BY <2>3, <2>4
<1>3. TypeOK /\ [Next]_vars => [Step]_vars
  BY <1>1, <1>2
<1>4. Spec => [][Step]_vars
  BY <1>3, VectorsTypes, PTL DEF Spec
<1> QED
  BY <1>4 DEF SortGroupsTiles
=============================================================================
