--------------------------- MODULE EsuPagesProofs ---------------------------
(***************************************************************************)
(* The baseline of the ESU pages is what the decoder has; what the coupler *)
(* page reads on its own leaves pending changes alone; an assignment puts  *)
(* its output on the chosen key and no other; and no write disturbs an     *)
(* output the user did not touch: for any profile that is laid out well,   *)
(* any decoder, any number of rows and of the user's actions.              *)
(***************************************************************************)
EXTENDS EsuPages, FiniteSetTheorems, SequenceTheorems, WellFoundedInduction, TLAPS

-----------------------------------------------------------------------------
(* The least number of a set, and numbers in order.                        *)

Less == OpToRel(<, Nat)

\* Every set of numbers that is not empty has a least one.
LEMMA Least ==
  ASSUME NEW S \in SUBSET Nat, S # {}
  PROVE  \E n \in S : \A m \in S : n <= m
<1>1. IsWellFoundedOn(Less, Nat)
  BY NatLessThanWellFounded DEF Less
<1>2. Less = {ss \in Nat \X Nat : ss[1] < ss[2]}
  BY DEF OpToRel, Less
<1>3. \E n \in S : \A m \in S : ~ (<<m, n>> \in Less)
  <2> HIDE DEF Less
  <2> QED BY <1>1, WFMin
<1>4. \A m, n \in Nat : m < n => <<m, n>> \in Less
  BY <1>2
<1>5. PICK n \in S : \A m \in S : ~ (<<m, n>> \in Less)
  BY <1>3
<1>6. \A m \in S : ~(m < n)
  BY <1>4, <1>5
<1>7. \A m \in S : n <= m
  BY <1>5, <1>6
<1> QED BY <1>5, <1>7

\* A finite set of n numbers has, for each i below n, one with i smaller ones.
LEMMA Ranked ==
  ASSUME NEW S \in SUBSET Nat, IsFiniteSet(S), NEW i \in Nat, i < Cardinality(S)
  PROVE  \E n \in S : Cardinality({m \in S : m < n}) = i
<1> DEFINE Below(n) == {m \in S : m < n}
           Bad == {j \in Nat : j < Cardinality(S) /\ \A n \in S : Cardinality(Below(n)) # j}
<1>1. SUFFICES ASSUME Bad # {} PROVE FALSE
  OBVIOUS
<1>2. PICK j \in Bad : \A k \in Bad : j <= k
  BY <1>1, Least
<1>3. \A T \in SUBSET S : IsFiniteSet(T) /\ Cardinality(T) \in Nat
  BY FS_Subset, FS_CardinalityType
<1>0. \A n \in S : n \in Nat
  OBVIOUS
<1>4. CASE j = 0
  <2>1. S # {}
    BY <1>2, <1>4, FS_EmptySet
  <2>2. PICK n \in S : \A m \in S : n <= m
    BY <2>1, Least
  <2>3. \A m \in S : ~(m < n)
    BY <1>0, <2>2
  <2>4. Below(n) = {}
    BY <2>3
  <2> QED BY <1>2, <1>4, <2>2, <2>4, FS_EmptySet
<1>5. CASE j # 0
  <2>1. j \in Nat /\ j - 1 \in Nat /\ j - 1 < j /\ j < Cardinality(S)
    BY <1>2, <1>5
  <2>2. PICK n \in S : Cardinality(Below(n)) = j - 1
    <3>1. j - 1 \notin Bad
      BY <1>2, <2>1
    <3>2. j - 1 < Cardinality(S)
      BY <1>3, <2>1
    <3> HIDE DEF Below
    <3> QED BY <2>1, <3>1, <3>2
  <2> DEFINE upto == {m \in S : m <= n}
  <2>3. Cardinality(upto) = j
    <3>0. n \in Nat /\ \A m \in S : m <= n <=> m < n \/ m = n
      BY <1>0, <2>2
    <3>1. upto = Below(n) \cup {n} /\ n \notin Below(n)
      <4>1. n \in S /\ ~(n < n)
        BY <2>2, <3>0
      <4>2. upto \subseteq Below(n) \cup {n}
        BY <3>0
      <4>3. Below(n) \cup {n} \subseteq upto
        BY <3>0, <4>1
      <4>4. n \notin Below(n)
        BY <4>1
      <4> QED BY <4>2, <4>3, <4>4
    <3>2. IsFiniteSet(Below(n))
      BY <1>3
    <3> HIDE DEF Below, upto, Bad
    <3>3. Cardinality(Below(n) \cup {n}) = Cardinality(Below(n)) + 1
      BY <3>1, <3>2, FS_AddElement
    <3> QED BY <2>1, <2>2, <3>1, <3>3
  <2>4. S \ upto # {}
    <3>1. upto \in SUBSET S
      OBVIOUS
    <3> HIDE DEF upto
    <3>2. S # upto
      BY <2>1, <2>3
    <3> QED BY <3>1, <3>2
  <2>5. PICK k \in S \ upto : \A m \in S \ upto : k <= m
    BY <2>4, Least
  <2>6. \A m \in S : m < k <=> m <= n
    <3>1. \A m \in S : m \in Nat /\ (m \in S \ upto <=> m > n)
      BY <1>0, <2>2
    <3> HIDE DEF upto
    <3> QED BY <2>5, <3>1
  <2>7. Below(k) = upto
    BY <2>6
  <2>8. j \in Bad
    BY <1>2
  <2> QED BY <2>3, <2>5, <2>7, <2>8
<1> QED BY <1>2, <1>4, <1>5

\* A set in order: a sequence of its elements, none twice.
LEMMA AscendingSeq ==
  ASSUME NEW S \in SUBSET Nat, IsFiniteSet(S)
  PROVE  /\ Ascending(S) \in Seq(S)
         /\ S # {} => Ascending(S) # <<>>
         /\ \A i, j \in DOMAIN Ascending(S) : Ascending(S)[i] = Ascending(S)[j] => i = j
<1> DEFINE Below(n) == {m \in S : m < n}
           s == Ascending(S)
<1>1. Cardinality(S) \in Nat /\ (S # {} => Cardinality(S) # 0)
  BY FS_CardinalityType, FS_EmptySet
<1>2. s = [i \in 1..Cardinality(S) |-> CHOOSE n \in S : Cardinality(Below(n)) = i - 1]
  BY DEF Ascending
<1>3. \A i \in 1..Cardinality(S) : s[i] \in S /\ Cardinality(Below(s[i])) = i - 1
  <2> TAKE i \in 1..Cardinality(S)
  <2>1. \E n \in S : Cardinality(Below(n)) = i - 1
    BY <1>1, Ranked
  <2>2. s[i] = CHOOSE n \in S : Cardinality(Below(n)) = i - 1
    BY <1>2
  <2> HIDE DEF Below, s
  <2> QED BY <2>1, <2>2
<1>4. DOMAIN s = 1..Cardinality(S) /\ s \in [1..Cardinality(S) -> S]
  <2> HIDE DEF Below
  <2> QED BY <1>2, <1>3
<1> HIDE DEF s
<1>5. s \in Seq(S) /\ Len(s) = Cardinality(S)
  BY <1>1, <1>4
<1>6. \A i, j \in DOMAIN s : s[i] = s[j] => i = j
  <2> TAKE i, j \in DOMAIN s
  <2> HIDE DEF Below
  <2> QED BY <1>1, <1>3, <1>4
<1>7. S # {} => s # <<>>
  BY <1>1, <1>5
<1> QED BY <1>5, <1>6, <1>7 DEF s

-----------------------------------------------------------------------------
(* The cells that are read and written are the decoder's.                  *)

Mapped == OutputConfigPage(Profile) \cup PagesForRows(Profile, Rows(Profile))

\* Everything the pages know of is in the decoder.
LEMMA MappedCells == Mapped \subseteq Cells
<1>1. PICK m \in Factories : TRUE
  BY PagesAssumption
<1>2. DOMAIN m \subseteq Cells
  BY <1>1 DEF Cells
<1>3. Mapped \subseteq DOMAIN m
  BY <1>1, PagesAssumption DEF Mapped
<1> QED BY <1>2, <1>3

\* A cell is a page and a CV from 257 on.
LEMMA CellPair ==
  \A c \in Cells : c = <<c[1], c[2]>> /\ c[1] \in 0..255 /\ c[2] \in 257..512
BY PagesAssumption DEF INDEXED_CV_START

LEMMA RowsMapped == \A R \in SUBSET Rows(Profile) : PagesForRows(Profile, R) \subseteq Mapped
BY DEF Mapped, PagesForRows

LEMMA RowMapped == \A r \in Rows(Profile) : PagesForRows(Profile, {r}) \subseteq Mapped
BY RowsMapped

LEMMA Lesser ==
  ASSUME NEW a \in Nat, NEW b \in Nat
  PROVE  Min({a, b}) \in Nat /\ Min({a, b}) <= b
<1>1. \E x \in {a, b} : \A y \in {a, b} : x <= y
  <2>1. CASE a <= b
    BY <2>1
  <2>2. CASE b <= a
    BY <2>2
  <2> QED BY <2>1, <2>2
<1>2. Min({a, b}) \in {a, b} /\ \A y \in {a, b} : Min({a, b}) <= y
  BY <1>1 DEF Min
<1> QED BY <1>2

LEMMA GroupMapped ==
  ASSUME NEW g \in 1..GroupCount(Profile)
  PROVE  RowGroup(Profile, g) \subseteq Mapped /\ RowGroup(Profile, g) # {}
<1> DEFINE size == Profile.groupSize
           count == Profile.rowCount
<1>1. size \in Nat /\ count \in Nat /\ g \in Nat /\ g >= 1
  <2>1. size \in Nat /\ count \in Nat
    BY PagesAssumption
  <2>2. g \in Int /\ g >= 1
    OBVIOUS
  <2> QED BY <2>1, <2>2
<1>2. g * size \in Nat /\ (g - 1) * size \in Nat
  <2>1. g - 1 \in Nat
    BY <1>1
  <2> HIDE DEF size
  <2>2. \A x, y \in Nat : x * y \in Nat
    OBVIOUS
  <2> QED BY <1>1, <2>1, <2>2
<1>3. Min({g * size, count}) \in Nat /\ Min({g * size, count}) <= count
  BY <1>1, <1>2, Lesser
<1>4. GroupRows(Profile, g) = ((g - 1) * size + 1)..Min({g * size, count})
  BY DEF GroupRows
<1>5. GroupRows(Profile, g) \subseteq Rows(Profile)
  <2> HIDE DEF size, count
  <2>1. \A r \in ((g - 1) * size + 1)..Min({g * size, count}) : r \in 1..count
    BY <1>1, <1>2, <1>3
  <2>2. Rows(Profile) = 1..count
    BY DEF Rows, count
  <2> QED BY <1>4, <2>1, <2>2
<1> QED BY <1>5, RowsMapped, PagesAssumption DEF RowGroup

LEMMA ConfigMapped ==
  /\ OutputConfigPage(Profile) \subseteq Mapped /\ OutputConfigPage(Profile) # {}
  /\ {0} \X CouplerOutputCvs(Profile) \subseteq Mapped
  /\ {0} \X CouplerOutputCvs(Profile) # {}
  /\ \A o \in Profile.outputConfigs : <<0, o.modeCv>> \in Mapped
<1>1. PICK o \in Profile.outputConfigs : TRUE
  BY PagesAssumption
<1>2. o.modeCv \in o.cvs
  BY <1>1, PagesAssumption
<1>3. CouplerOutputCvs(Profile) \subseteq UNION {x.cvs : x \in Profile.outputConfigs}
  BY PagesAssumption DEF CouplerOutputCvs
<1>4. \A x \in Profile.outputConfigs : x.modeCv \in CouplerOutputCvs(Profile)
  BY DEF CouplerOutputCvs
<1>5. OutputConfigPage(Profile) \subseteq Mapped
  BY DEF Mapped
<1>6. {0} \X CouplerOutputCvs(Profile) \subseteq OutputConfigPage(Profile)
  BY <1>3 DEF OutputConfigPage
<1>7. <<0, o.modeCv>> \in {0} \X CouplerOutputCvs(Profile)
  BY <1>1, <1>4
<1>8. \A x \in Profile.outputConfigs : <<0, x.modeCv>> \in {0} \X CouplerOutputCvs(Profile)
  BY <1>4
<1> QED BY <1>5, <1>6, <1>7, <1>8

LEMMA ScanMapped == PhysicalScanPages(Profile) \subseteq Mapped
<1>1. 1..Profile.physicalCvCount \subseteq 1..OutputCvCount(Profile)
  BY PagesAssumption DEF OutputCvCount
<1>2. \A r : PhysicalCells(Profile, r) \subseteq OutputCells(Profile, r)
  BY <1>1 DEF PhysicalCells, OutputCells
<1> QED BY <1>2 DEF PhysicalScanPages, Mapped, PagesForRows

\* What tells the keys of couplers, and what an assignment needs, is mapped.
LEMMA ShowMapped ==
  ASSUME NEW outputs, NEW tab
  PROVE  PagesToShowCouplerF(Profile, outputs, tab) \subseteq Mapped
<1> DEFINE R == UNION {RowsContainingPhysical(Profile, o, tab) : o \in outputs}
<1>1. R \subseteq Rows(Profile)
  BY DEF RowsContainingPhysical
<1>2. PagesForRows(Profile, R) \subseteq Mapped
  <2> HIDE DEF R
  <2> QED BY <1>1, RowsMapped
<1> QED BY <1>2, ScanMapped DEF PagesToShowCouplerF

LEMMA Greatest ==
  ASSUME NEW n \in Nat, NEW S \in SUBSET (1..n), S # {}
  PROVE  Max(S) \in S
<1> DEFINE T == {i \in Nat : n - i \in S}
<1>1. \A x \in S : x \in Nat /\ x <= n
  OBVIOUS
<1>2. T # {}
  <2>1. PICK x \in S : TRUE
    OBVIOUS
  <2>2. n - x \in Nat /\ n - (n - x) = x
    BY <1>1, <2>1
  <2> QED BY <2>1, <2>2
<1>3. PICK i \in T : \A j \in T : i <= j
  BY <1>2, Least
<1>4. i \in Nat /\ n - i \in S
  BY <1>3
<1>5. \A y \in S : n - i >= y
  <2> TAKE y \in S
  <2>1. n - y \in Nat /\ n - (n - y) = y
    BY <1>1
  <2>2. n - y \in T
    BY <2>1
  <2>3. i <= n - y
    BY <1>3, <2>2
  <2> QED BY <1>1, <1>4, <2>1, <2>3
<1>6. \E x \in S : \A y \in S : x >= y
  BY <1>4, <1>5
<1> QED BY <1>6 DEF Max

LEMMA CandidateRow ==
  ASSUME NEW tab, EmptyRowCandidate(Profile, tab).kind # "no-empty"
  PROVE  EmptyRowCandidate(Profile, tab).row \in Rows(Profile)
<1> DEFINE C == Candidates(Profile, tab)
<1>1. C \subseteq Rows(Profile)
  BY DEF Candidates
<1>2. C # {}
  BY DEF EmptyRowCandidate
<1>3. Profile.rowCount \in Nat
  BY PagesAssumption
<1>4. Max(C) \in C
  <2> HIDE DEF C
  <2> QED BY <1>1, <1>2, <1>3, Greatest DEF Rows
<1> QED BY <1>1, <1>2, <1>4 DEF EmptyRowCandidate

LEMMA AssignMapped ==
  ASSUME NEW o, NEW tab
  PROVE  PagesToAssignCouplerF(Profile, o, tab) \subseteq Mapped \ DOMAIN tab
<1>1. UnreadPages(PagesToShowCouplerF(Profile, {o}, tab), tab) \subseteq Mapped \ DOMAIN tab
  BY ShowMapped DEF UnreadPages
<1>2. ASSUME EmptyRowCandidate(Profile, tab).kind = "need"
      PROVE  UnreadPages(PagesForRows(Profile, {EmptyRowCandidate(Profile, tab).row}), tab)
               \subseteq Mapped \ DOMAIN tab
  <2>1. EmptyRowCandidate(Profile, tab).row \in Rows(Profile)
    BY <1>2, CandidateRow
  <2> QED BY <2>1, RowMapped DEF UnreadPages
<1> QED BY <1>1, <1>2 DEF PagesToAssignCouplerF

LEMMA PlannedRow ==
  ASSUME NEW o, NEW f, NEW tab, PlanCouplerFAssign(Profile, o, f, tab).kind = "apply"
  PROVE  PlanCouplerFAssign(Profile, o, f, tab).row \in Rows(Profile)
<1> DEFINE state == CouplerFState(Profile, o, tab)
           empty == EmptyRowCandidate(Profile, tab)
           plan == PlanCouplerFAssign(Profile, o, f, tab)
<1>1. state.kind = "simple" => state.row \in Rows(Profile)
  BY DEF CouplerFState, RowsContainingPhysical
<1>2. empty.kind = "found" => empty.row \in Rows(Profile)
  BY CandidateRow
<1>3. state.kind \in {"unread", "none", "simple", "complex"}
  BY DEF CouplerFState
<1>4. CASE state.kind = "simple"
  <2>1. plan.row = state.row
    BY <1>4 DEF PlanCouplerFAssign
  <2> QED BY <1>1, <1>4, <2>1
<1>5. CASE state.kind = "none"
  <2>1. empty.kind = "found"
    BY <1>5 DEF PlanCouplerFAssign
  <2>2. plan.row = empty.row
    BY <1>5, <2>1 DEF PlanCouplerFAssign
  <2> QED BY <1>2, <2>1, <2>2
<1>6. CASE state.kind \in {"unread", "complex"}
  <2>1. plan.kind = state.kind
    BY <1>6 DEF PlanCouplerFAssign
  <2> QED BY <1>6, <2>1
<1> QED BY <1>3, <1>4, <1>5, <1>6

LEMMA EntriesMapped ==
  ASSUME NEW r \in Rows(Profile), NEW row
  PROVE  DOMAIN RowEntries(Profile, r, row) \subseteq Mapped
<1>1. DOMAIN RowEntries(Profile, r, row) = ConditionCells(Profile, r) \cup OutputCells(Profile, r)
  BY DEF RowEntries
<1>2. PagesForRows(Profile, {r}) = ConditionCells(Profile, r) \cup OutputCells(Profile, r)
  BY DEF PagesForRows
<1> QED BY <1>1, <1>2, RowMapped

-----------------------------------------------------------------------------
(* Batches.                                                                *)

\* A sequence of whatever its elements are.
Sequence(s) == s \in Seq({s[i] : i \in DOMAIN s})

\* CVs 31 and 32, and then either CVs to ask for or a payload without repetition.
WellBatch(b) ==
  /\ Sequence(b.cvs) /\ Len(b.cvs) >= 2
  /\ b.cvs[1] = Entry(31, INDEX_CV31_VALUE) /\ b.cvs[2] = Entry(32, b.cv32)
  /\ \A i \in 3..Len(b.cvs) : b.cvs[i].cv >= INDEXED_CV_START /\ <<b.cv32, b.cvs[i].cv>> \in Cells
  /\ \A i, j \in 3..Len(b.cvs) : b.cvs[i].cv = b.cvs[j].cv => i = j
  /\ \A cv \in b.asks : <<b.cv32, cv>> \in Cells
  /\ b.asks # {} => Len(b.cvs) = 2

WellBatches(todo) == Sequence(todo) /\ todo # <<>> /\ \A i \in DOMAIN todo : WellBatch(todo[i])

LEMMA CellCv == \A page, cv : <<page, cv>> \in Cells => cv \in 257..512 /\ cv >= INDEXED_CV_START
<1>1. \A page, cv : <<page, cv>> \in (0..255) \X (257..512) => cv \in 257..512
  OBVIOUS
<1>2. Cells \subseteq (0..255) \X (257..512)
  BY PagesAssumption DEF INDEXED_CV_START
<1>3. \A cv \in 257..512 : cv >= INDEXED_CV_START
  BY DEF INDEXED_CV_START
<1> QED BY <1>1, <1>2, <1>3

LEMMA FiniteRange == ASSUME NEW a \in Nat, NEW b \in Nat PROVE IsFiniteSet(a..b)
BY FS_Interval

LEMMA Widened ==
  ASSUME NEW S, NEW T, S \subseteq T, NEW s \in Seq(S)
  PROVE  s \in Seq(T)
<1>1. Len(s) \in Nat /\ s \in [1..Len(s) -> S]
  OBVIOUS
<1>2. s \in [1..Len(s) -> T]
  BY <1>1
<1> QED BY <1>1, <1>2

LEMMA SequenceOf ==
  ASSUME NEW S, NEW s \in Seq(S)
  PROVE  Sequence(s)
<1>1. Len(s) \in Nat /\ s \in [1..Len(s) -> S]
  OBVIOUS
<1>2. s \in [1..Len(s) -> {s[i] : i \in DOMAIN s}]
  BY <1>1
<1> QED BY <1>1, <1>2 DEF Sequence

LEMMA Indexed ==
  ASSUME NEW n \in Nat, NEW s, s = [i \in 1..n |-> s[i]]
  PROVE  Sequence(s) /\ Len(s) = n /\ DOMAIN s = 1..n
<1> DEFINE S == {s[i] : i \in 1..n}
<1>1. s \in [1..n -> S]
  OBVIOUS
<1> HIDE DEF S
<1>2. s \in Seq(S) /\ Len(s) = n
  BY <1>1
<1> QED BY <1>1, <1>2, SequenceOf

LEMMA Prefixed ==
  ASSUME NEW x, NEW y, NEW S, NEW p \in Seq(S)
  PROVE  LET s == <<x, y>> \o p
         IN  /\ Sequence(s) /\ Len(s) = Len(p) + 2
             /\ s[1] = x /\ s[2] = y /\ \A i \in 3..Len(s) : i - 2 \in DOMAIN p /\ s[i] = p[i - 2]
<1> DEFINE T == S \cup {x, y}
           s == <<x, y>> \o p
<1>1. <<x, y>> \in Seq(T) /\ p \in Seq(T)
  OBVIOUS
<1>2. s \in Seq(T) /\ Len(s) = Len(p) + 2
  BY <1>1
<1>3. s[1] = x /\ s[2] = y /\ \A i \in 3..Len(s) : i - 2 \in DOMAIN p /\ s[i] = p[i - 2]
  BY <1>1, <1>2
<1>4. Sequence(s)
  <2> HIDE DEF s
  <2> QED BY <1>2, SequenceOf
<1> QED BY <1>2, <1>3, <1>4

LEMMA PagesInOrder ==
  ASSUME NEW cells \in SUBSET Cells
  PROVE  /\ PagesOf(cells) \in Seq(Nat)
         /\ cells # {} => PagesOf(cells) # <<>>
         /\ \A i \in DOMAIN PagesOf(cells) : \E c \in cells : PagesOf(cells)[i] = c[1]
<1> DEFINE S == {c[1] : c \in cells}
<1>1. S \in SUBSET (0..255) /\ (cells # {} => S # {})
  BY CellPair
<1> HIDE DEF S
<1>2. IsFiniteSet(S) /\ S \in SUBSET Nat
  <2>1. IsFiniteSet(0..255)
    BY FiniteRange
  <2>2. IsFiniteSet(S)
    BY <1>1, <2>1, FS_Subset
  <2> QED BY <1>1, <2>2
<1>3. /\ Ascending(S) \in Seq(S) /\ (S # {} => Ascending(S) # <<>>)
  BY <1>2, AscendingSeq
<1>4. PagesOf(cells) = Ascending(S)
  BY DEF PagesOf, S
<1>5. \A i \in DOMAIN Ascending(S) : Ascending(S)[i] \in S
  BY <1>3
<1>6. \A n \in S : \E c \in cells : n = c[1]
  BY DEF S
<1>7. Ascending(S) \in Seq(Nat)
  BY <1>2, <1>3, Widened
<1>8. \A i \in DOMAIN Ascending(S) : \E c \in cells : Ascending(S)[i] = c[1]
  BY <1>5, <1>6
<1> QED BY <1>1, <1>3, <1>4, <1>7, <1>8

LEMMA CvsInOrder ==
  ASSUME NEW cells \in SUBSET Cells, NEW page
  PROVE  LET cvs == Ascending({c[2] : c \in {c \in cells : c[1] = page}})
         IN  /\ cvs \in Seq(Nat)
             /\ \A i \in DOMAIN cvs : <<page, cvs[i]>> \in cells
             /\ \A i, j \in DOMAIN cvs : cvs[i] = cvs[j] => i = j
<1> DEFINE S == {c[2] : c \in {c \in cells : c[1] = page}}
<1>1. S \in SUBSET (257..512)
  BY CellPair
<1>2. \A cv \in S : <<page, cv>> \in cells
  BY CellPair
<1> HIDE DEF S
<1>3. IsFiniteSet(S) /\ S \in SUBSET Nat
  <2>0. 257 \in Nat /\ 512 \in Nat
    OBVIOUS
  <2>1. IsFiniteSet(257..512)
    BY ONLY <2>0, FiniteRange
  <2>2. IsFiniteSet(S)
    BY <1>1, <2>1, FS_Subset
  <2>3. \A cv \in 257..512 : cv \in Nat
    OBVIOUS
  <2> QED BY <1>1, <2>2, <2>3
<1>4. /\ Ascending(S) \in Seq(S)
      /\ \A i, j \in DOMAIN Ascending(S) : Ascending(S)[i] = Ascending(S)[j] => i = j
  BY <1>3, AscendingSeq
<1>5. \A i \in DOMAIN Ascending(S) : Ascending(S)[i] \in S
  BY <1>4
<1>6. Ascending(S) \in Seq(Nat)
  BY <1>3, <1>4, Widened
<1>7. \A i \in DOMAIN Ascending(S) : <<page, Ascending(S)[i]>> \in cells
  BY <1>2, <1>5
<1> QED BY <1>4, <1>6, <1>7 DEF S

\* What readPages() of these pages does.
LEMMA ReadsWell ==
  ASSUME NEW pages \in SUBSET Cells, pages # {}
  PROVE  /\ WellBatches(ReadBatches(pages))
         /\ \A i \in DOMAIN ReadBatches(pages) :
              LET b == ReadBatches(pages)[i]
              IN  b.asks # {} /\ \A cv \in b.asks : <<b.cv32, cv>> \in pages
<1> DEFINE order == PagesOf(pages)
           batch(i) == [cv32 |-> order[i], cvs |-> SelectPage(order[i]),
                        asks |-> CvsOf(pages, order[i])]
           todo == ReadBatches(pages)
<1>1. /\ order \in Seq(Nat) /\ order # <<>>
      /\ \A i \in DOMAIN order : \E c \in pages : order[i] = c[1]
  BY PagesInOrder
<1> HIDE DEF order
<1>2. todo = [i \in 1..Len(order) |-> batch(i)] /\ Len(order) \in Nat \ {0}
  BY <1>1 DEF ReadBatches, order
<1>3. ASSUME NEW i \in 1..Len(order)
      PROVE  /\ WellBatch(batch(i)) /\ batch(i).asks # {}
             /\ \A cv \in batch(i).asks : <<batch(i).cv32, cv>> \in pages
  <2>1. PICK c \in pages : order[i] = c[1]
    BY <1>1, <1>3
  <2>2. batch(i).asks # {}
    BY <2>1 DEF CvsOf
  <2>3. \A cv \in batch(i).asks : <<batch(i).cv32, cv>> \in pages
    BY CellPair DEF CvsOf
  <2>4. /\ Sequence(batch(i).cvs) /\ Len(batch(i).cvs) = 2
        /\ batch(i).cvs[1] = Entry(31, INDEX_CV31_VALUE)
        /\ batch(i).cvs[2] = Entry(32, batch(i).cv32)
    <3> DEFINE two == SelectPage(order[i])
    <3>1. two = <<Entry(31, INDEX_CV31_VALUE), Entry(32, order[i])>>
      BY DEF SelectPage
    <3>2. two \in Seq({Entry(31, INDEX_CV31_VALUE), Entry(32, order[i])}) /\ Len(two) = 2
      BY <3>1
    <3> HIDE DEF two
    <3>3. Sequence(two)
      BY <3>2, SequenceOf
    <3> QED BY <3>1, <3>2, <3>3 DEF two
  <2> HIDE DEF batch
  <2> QED BY <2>2, <2>3, <2>4 DEF WellBatch
<1> HIDE DEF todo, batch
<1>4. Sequence(todo) /\ Len(todo) = Len(order) /\ DOMAIN todo = 1..Len(order)
  <2>1. todo = [i \in 1..Len(order) |-> todo[i]]
    BY <1>2
  <2> QED BY <1>2, <2>1, Indexed
<1>5. todo # <<>>
  BY <1>2, <1>4
<1>6. \A i \in DOMAIN todo : todo[i] = batch(i)
  BY <1>2
<1> QED BY <1>2, <1>3, <1>4, <1>5, <1>6 DEF WellBatches, todo

\* What Apply of these changes does.
LEMMA WritesWell ==
  ASSUME NEW diffs, DOMAIN diffs \subseteq Cells, DOMAIN diffs # {}
  PROVE  /\ WellBatches(WriteBatches(diffs))
         /\ \A i \in DOMAIN WriteBatches(diffs) :
              LET b == WriteBatches(diffs)[i]
              IN  /\ b.asks = {}
                  /\ \A j \in 3..Len(b.cvs) :
                       /\ <<b.cv32, b.cvs[j].cv>> \in DOMAIN diffs
                       /\ b.cvs[j].value = diffs[<<b.cv32, b.cvs[j].cv>>]
<1> DEFINE order == PagesOf(DOMAIN diffs)
           cvs(p) == Ascending({c[2] : c \in {c \in DOMAIN diffs : c[1] = p}})
           payload(p) == [i \in DOMAIN cvs(p) |-> Entry(cvs(p)[i], diffs[<<p, cvs(p)[i]>>])]
           batch(i) == [cv32 |-> order[i], asks |-> {},
                        cvs |-> <<Entry(31, INDEX_CV31_VALUE), Entry(32, order[i])>>
                                  \o payload(order[i])]
           todo == WriteBatches(diffs)
<1>1. order \in Seq(Nat) /\ order # <<>>
  BY PagesInOrder
<1> HIDE DEF order
<1>2. todo = [i \in 1..Len(order) |-> batch(i)] /\ Len(order) \in Nat \ {0}
  BY <1>1 DEF WriteBatches, ApplyBatches, ApplyBatch, order
<1>3. ASSUME NEW i \in 1..Len(order)
      PROVE  /\ WellBatch(batch(i)) /\ batch(i).asks = {}
             /\ \A j \in 3..Len(batch(i).cvs) :
                  LET c == <<batch(i).cv32, batch(i).cvs[j].cv>>
                  IN  c \in DOMAIN diffs /\ batch(i).cvs[j].value = diffs[c]
  <2> DEFINE p == order[i]
             s == <<Entry(31, INDEX_CV31_VALUE), Entry(32, p)>> \o payload(p)
  <2>1. /\ cvs(p) \in Seq(Nat)
        /\ \A j \in DOMAIN cvs(p) : <<p, cvs(p)[j]>> \in DOMAIN diffs
        /\ \A j, k \in DOMAIN cvs(p) : cvs(p)[j] = cvs(p)[k] => j = k
    BY CvsInOrder
  <2> HIDE DEF cvs
  <2>2. payload(p) \in Seq({payload(p)[j] : j \in DOMAIN payload(p)})
        /\ DOMAIN payload(p) = DOMAIN cvs(p)
        /\ \A j \in DOMAIN cvs(p) : /\ payload(p)[j].cv = cvs(p)[j]
                                   /\ payload(p)[j].value = diffs[<<p, cvs(p)[j]>>]
    <3>1. payload(p) = [j \in 1..Len(cvs(p)) |-> payload(p)[j]] /\ Len(cvs(p)) \in Nat
          /\ DOMAIN cvs(p) = 1..Len(cvs(p))
      BY <2>1
    <3>2. Sequence(payload(p))
      BY <3>1, Indexed
    <3> QED BY <3>2 DEF Sequence, Entry
  <2> HIDE DEF payload
  <2>3. /\ Sequence(s) /\ Len(s) = Len(payload(p)) + 2 /\ Len(payload(p)) \in Nat
        /\ s[1] = Entry(31, INDEX_CV31_VALUE) /\ s[2] = Entry(32, p)
        /\ \A j \in 3..Len(s) : j - 2 \in DOMAIN payload(p) /\ s[j] = payload(p)[j - 2]
    BY <2>2, Prefixed
  <2>4. batch(i).cvs = s /\ batch(i).asks = {} /\ batch(i).cv32 = p
    OBVIOUS
  <2> HIDE DEF batch, s, p
  <2>5. \A j \in 3..Len(s) : /\ s[j].cv = cvs(p)[j - 2] /\ <<p, s[j].cv>> \in Cells
                              /\ <<p, s[j].cv>> \in DOMAIN diffs
                              /\ s[j].value = diffs[<<p, s[j].cv>>]
    <3> TAKE j \in 3..Len(s)
    <3>1. j - 2 \in DOMAIN cvs(p) /\ s[j] = payload(p)[j - 2]
      BY <2>2, <2>3
    <3>2. s[j].cv = cvs(p)[j - 2] /\ s[j].value = diffs[<<p, cvs(p)[j - 2]>>]
      BY <2>2, <3>1
    <3>3. <<p, cvs(p)[j - 2]>> \in DOMAIN diffs
      BY <2>1, <3>1
    <3> QED BY <3>2, <3>3
  <2>6. \A j \in 3..Len(s) : s[j].cv >= INDEXED_CV_START
    BY <2>5, CellCv
  <2>7. \A j, k \in 3..Len(s) : s[j].cv = s[k].cv => j = k
    <3> TAKE j, k \in 3..Len(s)
    <3>1. j - 2 \in DOMAIN cvs(p) /\ k - 2 \in DOMAIN cvs(p)
      BY <2>2, <2>3
    <3>2. s[j].cv = s[k].cv => j - 2 = k - 2
      BY <2>1, <2>5, <3>1
    <3> QED BY <2>3, <3>2
  <2> QED BY <2>3, <2>4, <2>5, <2>6, <2>7 DEF WellBatch
<1> HIDE DEF todo, batch
<1>4. Sequence(todo) /\ Len(todo) = Len(order) /\ DOMAIN todo = 1..Len(order)
  <2>1. todo = [i \in 1..Len(order) |-> todo[i]]
    BY <1>2
  <2> QED BY <1>2, <2>1, Indexed
<1>5. todo # <<>>
  BY <1>2, <1>4
<1>6. \A i \in DOMAIN todo : todo[i] = batch(i)
  BY <1>2
<1> QED BY <1>2, <1>3, <1>4, <1>5, <1>6 DEF WellBatches, todo

-----------------------------------------------------------------------------
(* The side table.                                                         *)

SnapShape(s) ==
  s \in [scope : {s.scope}, table : {s.table}, baseline : {s.baseline}]
StoreShape(st) ==
  st \in [snap : {st.snap}, stored : {st.stored}, armed : {st.armed}] /\ SnapShape(st.snap)

\* b is what a holds and what e brings.
Merged(a, e, b) ==
  /\ DOMAIN b = DOMAIN a \cup DOMAIN e
  /\ \A c \in DOMAIN e : b[c] = e[c]
  /\ \A c \in DOMAIN a \ DOMAIN e : b[c] = a[c]

LEMMA PutMerged == ASSUME NEW a, NEW e PROVE Merged(a, e, Put(a, e))
BY DEF Merged, Put

LEMMA Emitted ==
  ASSUME NEW st, StoreShape(st), NEW s, SnapShape(s)
  PROVE  StoreShape(Emit(st, s)) /\ Emit(st, s).snap = s
<1> DEFINE t == Emit(st, s)
<1>1. t = [st EXCEPT !.snap = s, !.armed = TRUE]
  BY DEF Emit
<1>2. t \in [snap : {s}, stored : {st.stored}, armed : {TRUE}]
  BY <1>1 DEF StoreShape
<1> HIDE DEF t
<1>3. t.snap = s /\ t.stored = st.stored /\ t.armed = TRUE
  BY <1>2
<1>4. SnapShape(t.snap)
  BY <1>3
<1>5. t \in [snap : {t.snap}, stored : {t.stored}, armed : {t.armed}]
  BY <1>2, <1>3
<1>6. StoreShape(t)
  BY <1>4, <1>5 DEF StoreShape
<1> QED BY <1>3, <1>6 DEF t

LEMMA NewShape ==
  /\ StoreShape(NewStore)
  /\ DOMAIN NewStore.snap.table = {} /\ DOMAIN NewStore.snap.baseline = {}
BY DEF NewStore, Empty, Nothing, StoreShape, SnapShape

LEMMA SetEffect ==
  ASSUME NEW st, StoreShape(st), NEW e
  PROVE  /\ StoreShape(SetMany(st, e))
         /\ SetMany(st, e).snap.baseline = st.snap.baseline
         /\ DOMAIN SetMany(st, e).snap.table \subseteq DOMAIN st.snap.table \cup DOMAIN e
<1> DEFINE t == Put(st.snap.table, e)
           s == [st.snap EXCEPT !.table = t]
<1>1. CASE SetMany(st, e) = st
  BY <1>1
<1>2. CASE SetMany(st, e) = Emit(st, s)
  <2>1. s = [scope |-> st.snap.scope, table |-> t, baseline |-> st.snap.baseline]
    BY DEF StoreShape, SnapShape
  <2>2. DOMAIN t = DOMAIN st.snap.table \cup DOMAIN e
    BY PutMerged DEF Merged
  <2> HIDE DEF s, t
  <2>3. StoreShape(Emit(st, s)) /\ Emit(st, s).snap = s
    BY <2>1, Emitted DEF SnapShape
  <2> QED BY <1>2, <2>1, <2>2, <2>3
<1> QED BY <1>1, <1>2 DEF SetMany

LEMMA DiscardEffect ==
  ASSUME NEW st, StoreShape(st)
  PROVE  /\ StoreShape(Discard(st))
         /\ Discard(st).snap.baseline = st.snap.baseline
         /\ Discard(st).snap.table = st.snap.baseline
<1> DEFINE s == [st.snap EXCEPT !.table = st.snap.baseline]
<1>1. s = [scope |-> st.snap.scope, table |-> st.snap.baseline, baseline |-> st.snap.baseline]
  BY DEF StoreShape, SnapShape
<1>2. Discard(st) = Emit(st, s)
  BY DEF Discard
<1> HIDE DEF s
<1>3. StoreShape(Emit(st, s)) /\ Emit(st, s).snap = s
  BY <1>1, Emitted DEF SnapShape
<1> QED BY <1>1, <1>2, <1>3

LEMMA RememberEffect ==
  ASSUME NEW st, StoreShape(st), NEW e
  PROVE  /\ StoreShape(RememberRead(st, e))
         /\ Merged(st.snap.table, e, RememberRead(st, e).snap.table)
         /\ Merged(st.snap.baseline, e, RememberRead(st, e).snap.baseline)
<1> DEFINE t == Put(st.snap.table, e)
           b == Put(st.snap.baseline, e)
           s == [st.snap EXCEPT !.table = t, !.baseline = b]
<1>1. CASE DOMAIN e = {}
  BY <1>1 DEF RememberRead, Merged
<1>2. CASE DOMAIN e # {}
  <2>1. s = [scope |-> st.snap.scope, table |-> t, baseline |-> b]
    <3> HIDE DEF t, b
    <3>1. st.snap \in [scope : {st.snap.scope}, table : {st.snap.table},
                       baseline : {st.snap.baseline}]
      BY DEF StoreShape, SnapShape
    <3>2. s \in [scope : {st.snap.scope}, table : {t}, baseline : {b}]
      BY <3>1
    <3> HIDE DEF s
    <3> QED BY <3>2
  <2>2. Merged(st.snap.table, e, t) /\ Merged(st.snap.baseline, e, b)
    BY PutMerged
  <2>3. RememberRead(st, e) = Emit(st, s)
    BY <1>2 DEF RememberRead
  <2> HIDE DEF s, t, b
  <2>4. StoreShape(Emit(st, s)) /\ Emit(st, s).snap = s
    BY <2>1, Emitted DEF SnapShape
  <2> QED BY <2>1, <2>2, <2>3, <2>4
<1> QED BY <1>1, <1>2

\* What is pending differs from the baseline, or is not in it.
LEMMA PendingIs ==
  Pending = {c \in DOMAIN side.snap.table :
               c \notin DOMAIN side.snap.baseline
                 \/ side.snap.table[c] # side.snap.baseline[c]}
BY DEF Pending, Diffs, Only

\* The same of the table after a step.
LEMMA PendingWillBe ==
  Pending' = {c \in DOMAIN side'.snap.table :
               c \notin DOMAIN side'.snap.baseline
                 \/ side'.snap.table[c] # side'.snap.baseline[c]}
BY DEF Pending, Diffs, Only

\* What is pending is known, so no unread page has it.
LEMMA PendingKnown == Pending \subseteq DOMAIN Tab
BY PendingIs, PutMerged DEF Tab, Merged

-----------------------------------------------------------------------------
(* The inductive invariant.                                                *)

Purposes == {"none", "entry", "all", "show", "button", "assign", "apply"}
JobShape ==
  /\ job \in [why : Purposes, todo : {job.todo}, cvs : {job.cvs}, errs : {job.errs},
              hit : {job.hit}]
  /\ job.why = "none" => job = NoJob

Shapes ==
  /\ StoreShape(side)
  /\ DOMAIN side.snap.table \subseteq Cells /\ DOMAIN side.snap.baseline \subseteq Cells
  /\ index = [i \in {1, 2} |-> index[i]]
  /\ view \in Views
  /\ JobShape

\* Of the batch at hand n CVs have been written: what did not fail is in the
\* decoder, the payload where it was meant to be if CVs 31 and 32 did not fail.
Written(n) ==
  /\ job.cvs = SubSeq(Batch.cvs, n + 1, Len(Batch.cvs))
  /\ n >= 1 /\ 31 \notin job.errs => index[1] = INDEX_CV31_VALUE
  /\ n >= 2 /\ 32 \notin job.errs => index[2] = Batch.cv32
  /\ \A i \in 3..n : Batch.cvs[i].cv \notin job.errs /\ job.errs \cap {31, 32} = {} =>
       mem[Meant(Batch.cvs[i].cv)] = Batch.cvs[i].value

\* A job reads or it writes; one that reads has changed no cell, and one the
\* coupler page started on its own asks for none that is pending.
Works ==
  Active =>
    /\ WellBatches(job.todo)
    /\ \A i \in DOMAIN job.todo : job.todo[i].asks = {} <=> job.why = "apply"
    /\ job.why # "apply" => job.hit = {}
    /\ \E n \in 0..Len(Batch.cvs) : Written(n)

Unasked ==
  job.why \in {"show", "assign"} =>
    \A i \in DOMAIN job.todo : \A cv \in job.todo[i].asks :
      <<job.todo[i].cv32, cv>> \notin Pending

PagesInv == Shapes /\ Works /\ Unasked /\ BaselineIsDecoder

-----------------------------------------------------------------------------
(* What keeps the parts of the invariant.                                  *)

LEMMA Nothing2Do == NoJob.why = "none" /\ NoJob.hit = {}
BY DEF NoJob

LEMMA ActiveIs == JobShape => (Active <=> job.why # "none")
BY Nothing2Do DEF JobShape, Active

\* No job runs.
LEMMA Resting ==
  ASSUME job' = NoJob
  PROVE  JobShape' /\ Works' /\ Unasked'
<1>1. JobShape'
  BY DEF JobShape, NoJob, Purposes
<1>2. ~Active'
  BY DEF Active, NoJob
<1> QED BY <1>1, <1>2, Nothing2Do DEF Works, Unasked

\* The job goes on, and the decoder is as it was.
LEMMA GoingOn ==
  ASSUME Shapes, Works, job' = job, mem' = mem, index' = index
  PROVE  JobShape' /\ Works'
<1>1. JobShape'
  BY DEF Shapes, JobShape, NoJob
<1>2. Batch' = Batch /\ \A cv : Meant(cv)' = Meant(cv)
  BY DEF Batch, Meant
<1>3. \A n : Written(n) => Written(n)'
  BY <1>2 DEF Written
<1>4. Active' => Active
  BY DEF Active, NoJob
<1>5. Active => \E n \in 0..Len(Batch.cvs) : Written(n)
  BY DEF Works
<1>6. Active => \E n \in 0..Len(Batch'.cvs) : Written(n)'
  BY <1>2, <1>3, <1>5
<1> QED BY <1>1, <1>4, <1>6 DEF Works

\* A job begins with nothing of its first batch written.
LEMMA Beginning ==
  ASSUME NEW why \in Purposes \ {"none"}, NEW batches, WellBatches(batches),
         \A i \in DOMAIN batches : batches[i].asks = {} <=> why = "apply",
         job' = Job(why, batches)
  PROVE  /\ JobShape' /\ Works'
         /\ job'.why = why /\ job'.todo = batches /\ job'.hit = {}
<1>1. job' = [why |-> why, todo |-> batches, cvs |-> batches[1].cvs, errs |-> {}, hit |-> {}]
  BY DEF Job
<1>2. /\ job'.why = why /\ job'.todo = batches /\ job'.hit = {}
      /\ job'.cvs = batches[1].cvs /\ job'.errs = {}
  BY <1>1
<1>3. JobShape'
  BY <1>1, <1>2 DEF JobShape
<1>4. batches \in Seq({batches[i] : i \in DOMAIN batches}) /\ batches # <<>> /\ 1 \in DOMAIN batches
  BY DEF WellBatches, Sequence
<1>5. Batch' = batches[1]
  BY <1>2, <1>4 DEF Batch
<1>6. LET s == batches[1].cvs
      IN  s \in Seq({s[i] : i \in DOMAIN s}) /\ Len(s) \in Nat /\ s = SubSeq(s, 1, Len(s))
  <2>1. WellBatch(batches[1])
    BY <1>4 DEF WellBatches
  <2> DEFINE s == batches[1].cvs
             S == {s[i] : i \in DOMAIN s}
  <2>2. s \in Seq(S)
    BY <2>1 DEF WellBatch, Sequence
  <2> HIDE DEF s, S
  <2>3. Len(s) \in Nat /\ s = SubSeq(s, 1, Len(s))
    BY <2>2
  <2> QED BY <2>2, <2>3 DEF s, S
<1>7. Written(0)'
  BY <1>2, <1>5, <1>6 DEF Written
<1>8. \E n \in 0..Len(Batch'.cvs) : Written(n)'
  BY <1>5, <1>6, <1>7
<1>9. Works'
  BY <1>2, <1>8 DEF Works
<1> QED BY <1>2, <1>3, <1>9

\* The tab learns nothing, and the decoder is as it was.
LEMMA NothingLearnt ==
  ASSUME BaselineIsDecoder, mem' = mem,
         side'.snap.baseline = side.snap.baseline,
         doubt \cup job.hit \subseteq doubt' \cup job'.hit
  PROVE  BaselineIsDecoder'
BY DEF BaselineIsDecoder, Unlearned

LEMMA SameSide ==
  ASSUME Shapes, side' = side
  PROVE  /\ StoreShape(side') /\ Pending' = Pending
         /\ DOMAIN side'.snap.table \subseteq Cells /\ DOMAIN side'.snap.baseline \subseteq Cells
BY PendingIs, PendingWillBe DEF Shapes

\* A job of reads of these pages.
LEMMA Reading ==
  ASSUME NEW why \in Purposes \ {"none", "apply"}, NEW pages \in SUBSET Cells, pages # {},
         job' = ReadJob(why, pages),
         why \in {"show", "assign"} => pages \cap Pending' = {}
  PROVE  JobShape' /\ Works' /\ Unasked' /\ job'.hit = {} /\ job'.why = why
<1> DEFINE todo == ReadBatches(pages)
<1>1. /\ WellBatches(todo)
      /\ \A i \in DOMAIN todo : todo[i].asks # {}
      /\ \A i \in DOMAIN todo : \A cv \in todo[i].asks : <<todo[i].cv32, cv>> \in pages
  BY ReadsWell
<1> HIDE DEF todo
<1>2. job' = Job(why, todo)
  BY DEF ReadJob, todo
<1>3. JobShape' /\ Works' /\ job'.why = why /\ job'.todo = todo /\ job'.hit = {}
  BY <1>1, <1>2, Beginning
<1>4. Unasked'
  BY <1>1, <1>3 DEF Unasked
<1> QED BY <1>3, <1>4

LEMMA StartInv ==
  ASSUME PagesInv, UNCHANGED <<mem, index, view, side>>,
         NEW why \in {"entry", "all", "show"}, NEW pages \in SUBSET Mapped,
         why = "show" => pages \cap Pending = {},
         Start(why, pages)
  PROVE  PagesInv'
<1>1. /\ StoreShape(side') /\ Pending' = Pending
      /\ DOMAIN side'.snap.table \subseteq Cells /\ DOMAIN side'.snap.baseline \subseteq Cells
  BY SameSide DEF PagesInv
<1>2. CASE job' = job /\ doubt' = doubt
  <2>1. JobShape' /\ Works'
    BY <1>2, GoingOn DEF PagesInv
  <2>2. Unasked'
    BY <1>1, <1>2 DEF PagesInv, Unasked
  <2>3. BaselineIsDecoder'
    BY <1>2, NothingLearnt DEF PagesInv
  <2> QED BY <1>1, <2>1, <2>2, <2>3 DEF PagesInv, Shapes, Views, Mapping
<1>3. CASE pages # {} /\ job' = ReadJob(why, pages) /\ doubt' = doubt \cup Unlearned
  <2>1. why \in Purposes \ {"none", "apply"}
    BY DEF Purposes
  <2>2. JobShape' /\ Works' /\ Unasked' /\ job'.hit = {}
    BY <1>1, <1>3, <2>1, MappedCells, Reading
  <2>3. BaselineIsDecoder'
    BY <1>3, NothingLearnt DEF PagesInv, Unlearned
  <2> QED BY <1>1, <2>2, <2>3 DEF PagesInv, Shapes, Views, Mapping
<1> QED BY <1>2, <1>3 DEF Start

-----------------------------------------------------------------------------
(* The steps.                                                              *)

LEMMA InitInv == Init => PagesInv
<1> SUFFICES ASSUME Init PROVE PagesInv
  OBVIOUS
<1>1. side.snap.baseline = NewStore.snap.baseline /\ side.snap.table = NewStore.snap.table
      /\ StoreShape(side)
  BY NewShape DEF Init
<1>2. JobShape /\ ~Active
  BY DEF Init, JobShape, NoJob, Purposes, Active
<1>3. index = [i \in {1, 2} |-> index[i]]
  BY DEF Init
<1>4. view \in Views
  <2>1. CASE view = Coupler
    BY <2>1 DEF Views
  <2>2. CASE view = Mapping(1)
    <3>1. GroupCount(Profile) \in Nat /\ GroupCount(Profile) >= 1
      BY PagesAssumption DEF GroupCount
    <3> QED BY <2>2, <3>1 DEF Views
  <2> QED BY <2>1, <2>2 DEF Init
<1>5. BaselineIsDecoder /\ Unasked
  BY <1>1, NewShape, Nothing2Do DEF BaselineIsDecoder, Unasked, Init
<1> QED BY <1>1, <1>2, <1>3, <1>4, <1>5, NewShape DEF PagesInv, Shapes, Works

LEMMA GotoInv == ASSUME PagesInv, NEW v \in Views, Goto(v) PROVE PagesInv'
<1>1. /\ view' = v /\ index' = index /\ mem' = mem /\ doubt' = doubt
      /\ side' = IF ~Keeps(v) /\ Pending # {} THEN Discard(side) ELSE side
      /\ job' = IF Aborted THEN NoJob ELSE job
  BY DEF Goto, decoder, history
<1>2. StoreShape(side) /\ DOMAIN side.snap.table \subseteq Cells
      /\ DOMAIN side.snap.baseline \subseteq Cells
  BY DEF PagesInv, Shapes
<1>3. /\ StoreShape(side') /\ side'.snap.baseline = side.snap.baseline
      /\ DOMAIN side'.snap.table \subseteq Cells /\ Pending' \subseteq Pending
  <2>1. CASE side' = side
    BY <1>2, <2>1, SameSide DEF PagesInv
  <2>2. CASE side' = Discard(side)
    <3>1. /\ StoreShape(side') /\ side'.snap.baseline = side.snap.baseline
          /\ side'.snap.table = side.snap.baseline
      BY <1>2, <2>2, DiscardEffect
    <3>2. Pending' = {}
      BY <3>1, PendingWillBe
    <3> QED BY <1>2, <3>1, <3>2
  <2> QED BY <1>1, <2>1, <2>2
<1>4. CASE job' = job
  <2>1. JobShape' /\ Works'
    BY <1>1, <1>4, GoingOn DEF PagesInv
  <2>2. Unasked'
    BY <1>3, <1>4 DEF PagesInv, Unasked
  <2>3. BaselineIsDecoder'
    BY <1>1, <1>3, <1>4, NothingLearnt DEF PagesInv
  <2> QED BY <1>1, <1>2, <1>3, <2>1, <2>2, <2>3 DEF PagesInv, Shapes, Views, Mapping
<1>5. CASE job' = NoJob /\ Aborted
  <2>1. JobShape' /\ Works' /\ Unasked'
    BY <1>5, Resting
  <2>2. job.hit = {}
    BY <1>5, ActiveIs DEF PagesInv, Shapes, Works, Aborted
  <2>3. BaselineIsDecoder'
    BY <1>1, <1>3, <2>2, NothingLearnt DEF PagesInv
  <2> QED BY <1>1, <1>2, <1>3, <2>1, <2>3 DEF PagesInv, Shapes, Views, Mapping
<1> QED BY <1>1, <1>4, <1>5

LEMMA CurrentMapped ==
  ASSUME view \in Views
  PROVE  CurrentPages \subseteq Mapped /\ CurrentPages # {}
<1>1. CASE view.group = 0
  BY <1>1, ConfigMapped DEF CurrentPages
<1>2. CASE view.group # 0
  <2>1. view.group \in 1..GroupCount(Profile)
    BY <1>2, PagesAssumption DEF Views, Mapping, Coupler, Away, GroupCount
  <2>2. CurrentPages = RowGroup(Profile, view.group)
    BY <1>2 DEF CurrentPages
  <2> QED BY <2>1, <2>2, GroupMapped
<1> QED BY <1>1, <1>2

LEMMA EffectInv == ASSUME PagesInv, Effect PROVE PagesInv'
<1>0. view \in Views
  BY DEF PagesInv, Shapes
<1>1. CASE EntryEffect
  <2> DEFINE pages == IF PagesLoaded(CurrentPages, Tab) THEN {} ELSE CurrentPages
  <2>1. /\ UNCHANGED <<mem, index, view, side>> /\ Start("entry", pages)
    BY <1>1 DEF EntryEffect, decoder
  <2>2. pages \in SUBSET Mapped
    BY <1>0, CurrentMapped
  <2> HIDE DEF pages
  <2> QED BY <2>1, <2>2, StartInv
<1>2. CASE AllEffect
  <2>1. UNCHANGED <<mem, index, view, side>>
        /\ \E pages \in {{}, {0} \X CouplerOutputCvs(Profile)} : Start("all", pages)
    BY <1>2 DEF AllEffect, decoder
  <2>2. PICK pages \in {{}, {0} \X CouplerOutputCvs(Profile)} : Start("all", pages)
    BY <2>1
  <2>3. pages \in SUBSET Mapped
    BY <2>2, ConfigMapped
  <2> QED BY <2>1, <2>2, <2>3, StartInv
<1>3. CASE ShowEffect
  <2> DEFINE pages == IF CouplersShown = {} THEN {} ELSE ShowGap(CouplersShown, Tab)
  <2>1. /\ UNCHANGED <<mem, index, view, side>> /\ Start("show", pages)
    BY <1>3 DEF ShowEffect, decoder
  <2>2. pages \in SUBSET Mapped /\ pages \cap DOMAIN Tab = {}
    BY ShowMapped DEF ShowGap, UnreadPages
  <2>3. pages \cap Pending = {}
    BY <2>2, PendingKnown
  <2> HIDE DEF pages
  <2> QED BY <2>1, <2>2, <2>3, StartInv
<1> QED BY <1>1, <1>2, <1>3 DEF Effect

\* A job the user starts while none runs.
LEMMA ButtonInv == ASSUME PagesInv, ReadButton PROVE PagesInv'
<1>1. /\ UNCHANGED <<mem, index, view, side, doubt>> /\ job = NoJob /\ view \in Views
  BY DEF ReadButton, decoder, history, Idle, PagesInv, Shapes
<1>2. PICK pages \in {CurrentPages, {0} \X CouplerOutputCvs(Profile)} :
        job' = ReadJob("button", pages)
  BY DEF ReadButton
<1>3. pages \in SUBSET Cells /\ pages # {}
  BY <1>1, <1>2, CurrentMapped, ConfigMapped, MappedCells
<1>4. JobShape' /\ Works' /\ Unasked' /\ job'.hit = {}
  BY <1>2, <1>3, Reading DEF Purposes
<1>5. BaselineIsDecoder'
  BY <1>1, <1>4, Nothing2Do, NothingLearnt DEF PagesInv
<1> QED BY <1>1, <1>4, <1>5, SameSide DEF PagesInv, Shapes, Views, Mapping

LEMMA ApplyInv == ASSUME PagesInv, Apply PROVE PagesInv'
<1>1. /\ UNCHANGED <<mem, index, view, side, doubt>> /\ job = NoJob
      /\ job' = Job("apply", WriteBatches(Diffs(side)))
      /\ DOMAIN Diffs(side) # {}
  BY DEF Apply, decoder, history, Idle, Pending
<1>2. DOMAIN Diffs(side) \subseteq Cells
  BY PendingIs DEF PagesInv, Shapes, Pending
<1>3. WellBatches(WriteBatches(Diffs(side)))
      /\ \A i \in DOMAIN WriteBatches(Diffs(side)) : WriteBatches(Diffs(side))[i].asks = {}
  BY <1>1, <1>2, WritesWell
<1>4. JobShape' /\ Works' /\ job'.why = "apply" /\ job'.hit = {}
  BY <1>1, <1>3, Beginning DEF Purposes
<1>5. Unasked'
  BY <1>4 DEF Unasked
<1>6. BaselineIsDecoder'
  BY <1>1, <1>4, Nothing2Do, NothingLearnt DEF PagesInv
<1> QED BY <1>1, <1>4, <1>5, <1>6, SameSide DEF PagesInv, Shapes, Views, Mapping

\* A step of the table alone while no job runs.
LEMMA TableInv ==
  ASSUME PagesInv, UNCHANGED <<mem, index, view, doubt, job>>, job = NoJob,
         StoreShape(side'), side'.snap.baseline = side.snap.baseline,
         DOMAIN side'.snap.table \subseteq Cells
  PROVE  PagesInv'
<1>1. JobShape' /\ Works' /\ Unasked'
  BY Resting
<1>2. BaselineIsDecoder'
  BY NothingLearnt DEF PagesInv
<1> QED BY <1>1, <1>2 DEF PagesInv, Shapes, Views, Mapping

LEMMA StagedInv ==
  ASSUME PagesInv, UNCHANGED <<mem, index, view, doubt, job>>, job = NoJob,
         NEW e, DOMAIN e \subseteq Mapped, side' = SetMany(side, e)
  PROVE  PagesInv'
<1>1. StoreShape(side) /\ DOMAIN side.snap.table \subseteq Cells
  BY DEF PagesInv, Shapes
<1>2. /\ StoreShape(side') /\ side'.snap.baseline = side.snap.baseline
      /\ DOMAIN side'.snap.table \subseteq DOMAIN side.snap.table \cup DOMAIN e
  BY <1>1, SetEffect
<1>3. DOMAIN side'.snap.table \subseteq Cells
  BY <1>1, <1>2, MappedCells
<1> QED BY <1>2, <1>3, TableInv

LEMMA RowInv == ASSUME PagesInv, NEW r \in Rows(Profile), NEW row, EditRow(r, row) PROVE PagesInv'
<1>1. /\ UNCHANGED <<mem, index, view, doubt, job>> /\ job = NoJob
      /\ side' = SetMany(side, RowEntries(Profile, r, row))
  BY DEF EditRow, Stage, Idle, decoder
<1> QED BY <1>1, EntriesMapped, StagedInv

LEMMA EditInv == ASSUME PagesInv, Edit PROVE PagesInv'
<1>1. ASSUME NEW r \in Rows(Profile), NEW c, EditCondition(r, c) PROVE PagesInv'
  BY <1>1, RowInv DEF EditCondition
<1>2. ASSUME NEW r \in Rows(Profile), NEW o, EditPhysical(r, o) PROVE PagesInv'
  BY <1>2, RowInv DEF EditPhysical
<1>3. ASSUME NEW o \in Profile.outputConfigs, NEW v, EditMode(o, v) PROVE PagesInv'
  <2>1. /\ UNCHANGED <<mem, index, view, doubt, job>> /\ job = NoJob
        /\ side' = SetMany(side, One(<<0, o.modeCv>>, v))
    BY <1>3 DEF EditMode, Idle, decoder, history
  <2>2. DOMAIN One(<<0, o.modeCv>>, v) \subseteq Mapped
    BY ConfigMapped DEF One
  <2> QED BY <2>1, <2>2, StagedInv
<1>4. ASSUME DiscardChanges PROVE PagesInv'
  <2>1. /\ UNCHANGED <<mem, index, view, doubt, job>> /\ job = NoJob /\ side' = Discard(side)
    BY <1>4 DEF DiscardChanges, Idle, decoder, history
  <2>2. StoreShape(side) /\ DOMAIN side.snap.baseline \subseteq Cells
    BY DEF PagesInv, Shapes
  <2>3. /\ StoreShape(side') /\ side'.snap.baseline = side.snap.baseline
        /\ side'.snap.table = side.snap.baseline
    BY <2>1, <2>2, DiscardEffect
  <2> QED BY <2>1, <2>2, <2>3, TableInv
<1> QED BY <1>1, <1>2, <1>3, <1>4 DEF Edit

LEMMA AssignInv == ASSUME PagesInv, Assign PROVE PagesInv'
<1>1. ASSUME NEW o, NEW f, AssignF(o, f) PROVE PagesInv'
  <2>1. /\ UNCHANGED <<mem, index, view, doubt, job, side>> /\ job = NoJob
    BY <1>1 DEF AssignF, Idle, decoder, history
  <2> QED BY <2>1, TableInv DEF PagesInv, Shapes
<1>2. ASSUME AssignReads PROVE PagesInv'
  <2>1. /\ UNCHANGED <<mem, index, view, doubt, side>> /\ job = NoJob
        /\ AssignGap # {} /\ job' = ReadJob("assign", AssignGap)
    BY <1>2 DEF AssignReads, Active, decoder, history
  <2>2. AssignGap \subseteq Mapped \ DOMAIN Tab
    BY AssignMapped DEF AssignGap, UnreadPages
  <2>3. AssignGap \subseteq Cells /\ AssignGap \cap Pending' = {}
    BY <2>1, <2>2, MappedCells, PendingKnown, SameSide DEF PagesInv
  <2>4. JobShape' /\ Works' /\ Unasked' /\ job'.hit = {}
    BY <2>1, <2>3, Reading DEF Purposes
  <2>5. BaselineIsDecoder'
    BY <2>1, <2>4, Nothing2Do, NothingLearnt DEF PagesInv
  <2> QED BY <2>1, <2>4, <2>5, SameSide DEF PagesInv, Shapes, Views, Mapping
<1>3. ASSUME AssignPlans PROVE PagesInv'
  <2> DEFINE plan == PlanCouplerFAssign(Profile, wish.out, wish.key, Tab)
  <2>1. /\ UNCHANGED <<mem, index, view, doubt, job>> /\ job = NoJob
    BY <1>3 DEF AssignPlans, Active, decoder
  <2>2. \/ plan.kind = "apply" /\ side' = SetMany(side, RowEntries(Profile, plan.row, plan.next))
        \/ side' = side
    BY <1>3 DEF AssignPlans, Stage
  <2>3. CASE side' = side
    BY <2>1, <2>3, TableInv DEF PagesInv, Shapes
  <2>4. CASE plan.kind = "apply" /\ side' = SetMany(side, RowEntries(Profile, plan.row, plan.next))
    <3>1. plan.row \in Rows(Profile)
      BY <2>4, PlannedRow
    <3> QED BY <2>1, <2>4, <3>1, EntriesMapped, StagedInv
  <2> QED BY <2>2, <2>3, <2>4
<1> QED BY <1>1, <1>2, <1>3 DEF Assign

LEMMA StopInv == ASSUME PagesInv, Stop PROVE PagesInv'
<1>1. /\ UNCHANGED <<mem, index, view, side>> /\ job' = NoJob /\ doubt' = doubt \cup job.hit
  BY DEF Stop, decoder
<1>2. JobShape' /\ Works' /\ Unasked'
  BY <1>1, Resting
<1>3. BaselineIsDecoder'
  BY <1>1, NothingLearnt DEF PagesInv
<1> QED BY <1>1, <1>2, <1>3, SameSide DEF PagesInv, Shapes, Views, Mapping

-----------------------------------------------------------------------------
(* What a job does.                                                        *)

\* The rest of a sequence after its first n.
LEMMA Suffix ==
  ASSUME NEW S, NEW s \in Seq(S), NEW n \in 0..Len(s)
  PROVE  /\ SubSeq(s, n + 1, Len(s)) = <<>> <=> n = Len(s)
         /\ n < Len(s) => /\ Head(SubSeq(s, n + 1, Len(s))) = s[n + 1]
                          /\ Tail(SubSeq(s, n + 1, Len(s))) = SubSeq(s, n + 2, Len(s))
<1> DEFINE t == SubSeq(s, n + 1, Len(s))
           u == SubSeq(s, n + 2, Len(s))
<1>1. Len(s) \in Nat /\ n \in Int /\ n + 1 \in Int /\ n + 2 \in Int /\ n >= 0 /\ n <= Len(s)
  OBVIOUS
<1>2. \A i \in 1..Len(s) : s[i] \in S
  OBVIOUS
<1>3. /\ t \in Seq(S) /\ Len(t) = Len(s) - n
      /\ \A i \in 1..(Len(s) - n) : t[i] = s[n + i]
  <2>1. \A i \in (n + 1)..Len(s) : s[i] \in S
    BY <1>1, <1>2
  <2>2. /\ t \in Seq(S)
        /\ Len(t) = IF n + 1 <= Len(s) THEN Len(s) - (n + 1) + 1 ELSE 0
        /\ \A i \in 1..(Len(s) - (n + 1) + 1) : t[i] = s[n + 1 + i - 1]
    BY <1>1, <2>1, SubSeqProperties
  <2> HIDE DEF t
  <2> QED BY <1>1, <2>2
<1>4. /\ u \in Seq(S)
      /\ n < Len(s) => Len(u) = Len(s) - n - 1
      /\ \A i \in 1..(Len(s) - n - 1) : u[i] = s[n + 1 + i]
  <2>1. \A i \in (n + 2)..Len(s) : s[i] \in S
    BY <1>1, <1>2
  <2>2. /\ u \in Seq(S)
        /\ Len(u) = IF n + 2 <= Len(s) THEN Len(s) - (n + 2) + 1 ELSE 0
        /\ \A i \in 1..(Len(s) - (n + 2) + 1) : u[i] = s[n + 2 + i - 1]
    BY <1>1, <2>1, SubSeqProperties
  <2> HIDE DEF u
  <2> QED BY <1>1, <2>2
<1> HIDE DEF t, u
<1>5. t = <<>> <=> n = Len(s)
  BY <1>1, <1>3
<1>6. ASSUME n < Len(s) PROVE Head(t) = s[n + 1] /\ Tail(t) = u
  <2>1. t # <<>>
    BY <1>1, <1>5, <1>6
  <2>2. Tail(t) \in Seq(S) /\ Len(Tail(t)) = Len(t) - 1
        /\ \A i \in 1..Len(Tail(t)) : Tail(t)[i] = t[i + 1]
    BY <1>3, <2>1, HeadTailProperties
  <2>3. Head(t) = t[1] /\ t[1] = s[n + 1]
    BY <1>1, <1>3, <1>6, <2>1
  <2>4. Len(Tail(t)) = Len(u)
    BY <1>1, <1>3, <1>4, <1>6, <2>2
  <2>5. ASSUME NEW i \in 1..Len(u) PROVE Tail(t)[i] = u[i]
    <3>1. /\ i \in 1..Len(Tail(t)) /\ i \in Int
          /\ i \in 1..(Len(s) - n - 1) /\ i + 1 \in 1..(Len(s) - n)
      BY <1>1, <1>4, <1>6, <2>4
    <3>2. n + (i + 1) = n + 1 + i
      BY <1>1, <3>1
    <3>3. Tail(t)[i] = t[i + 1] /\ t[i + 1] = s[n + (i + 1)]
      BY <1>3, <2>2, <3>1
    <3>4. u[i] = s[n + 1 + i]
      BY <1>4, <3>1
    <3> QED BY <3>2, <3>3, <3>4
  <2>6. Tail(t) = u
    BY <1>4, <1>6, <2>2, <2>4, <2>5, SeqEqual
  <2> QED BY <2>3, <2>6
<1> QED BY <1>5, <1>6 DEF t, u

LEMMA AtWork ==
  ASSUME PagesInv, Active
  PROVE  /\ job.todo \in Seq({job.todo[i] : i \in DOMAIN job.todo})
         /\ 1 \in DOMAIN job.todo /\ Batch = job.todo[1] /\ WellBatch(Batch)
         /\ Batch.asks = {} <=> job.why = "apply"
         /\ job.why # "none"
<1>1. /\ WellBatches(job.todo)
      /\ \A i \in DOMAIN job.todo : job.todo[i].asks = {} <=> job.why = "apply"
  BY DEF PagesInv, Works
<1>2. job.todo \in Seq({job.todo[i] : i \in DOMAIN job.todo}) /\ job.todo # <<>>
  BY <1>1 DEF WellBatches, Sequence
<1>3. 1 \in DOMAIN job.todo /\ Batch = job.todo[1]
  BY <1>2 DEF Batch
<1> QED BY <1>1, <1>2, <1>3, ActiveIs DEF WellBatches, PagesInv, Shapes

\* After the last batch no job runs; before it the next one begins.
LEMMA EndedInv ==
  ASSUME PagesInv, Active, Ended, Pending' \subseteq Pending
  PROVE  JobShape' /\ Works' /\ Unasked' /\ job'.hit = {}
<1> DEFINE rest == Tail(job.todo)
           S == {job.todo[i] : i \in DOMAIN job.todo}
<1>1. CASE Len(job.todo) = 1
  <2>1. job' = NoJob
    BY <1>1 DEF Ended
  <2> QED BY <2>1, Resting, Nothing2Do
<1>2. CASE Len(job.todo) # 1
  <2>1. job.todo \in Seq(S) /\ 1 \in DOMAIN job.todo /\ job.why # "none"
    BY AtWork
  <2> HIDE DEF S
  <2>2. /\ rest \in Seq(S) /\ rest # <<>>
        /\ \A i \in DOMAIN rest : i + 1 \in DOMAIN job.todo /\ rest[i] = job.todo[i + 1]
    <3>1. job.todo # <<>> /\ Len(job.todo) \in Nat \ {0, 1}
          /\ DOMAIN job.todo = 1..Len(job.todo)
      BY <1>2, <2>1
    <3>2. /\ rest \in Seq(S) /\ Len(rest) = Len(job.todo) - 1
          /\ \A i \in 1..Len(rest) : rest[i] = job.todo[i + 1]
      BY <2>1, <3>1, HeadTailProperties
    <3>3. DOMAIN rest = 1..Len(rest)
      BY <3>2
    <3> HIDE DEF rest
    <3>4. Len(rest) # 0 /\ \A i \in 1..Len(rest) : i + 1 \in 1..Len(job.todo)
      BY <3>1, <3>2
    <3>5. rest # <<>>
      BY <3>4
    <3> QED BY <3>1, <3>2, <3>3, <3>4, <3>5
  <2> HIDE DEF rest
  <2>3. WellBatches(rest)
    BY <2>2, SequenceOf DEF WellBatches, PagesInv, Works
  <2>4. \A i \in DOMAIN rest : rest[i].asks = {} <=> job.why = "apply"
    BY <2>2 DEF PagesInv, Works
  <2>5. job' = Job(job.why, rest)
    <3>1. job' = [job EXCEPT !.todo = rest, !.cvs = rest[1].cvs, !.errs = {}, !.hit = {}]
      BY <1>2 DEF Ended, rest
    <3>2. job \in [why : {job.why}, todo : {job.todo}, cvs : {job.cvs}, errs : {job.errs},
                   hit : {job.hit}]
      BY DEF PagesInv, Shapes, JobShape
    <3>3. job' \in [why : {job.why}, todo : {rest}, cvs : {rest[1].cvs}, errs : {{}}, hit : {{}}]
      BY <3>1, <3>2
    <3> QED BY <3>3 DEF Job
  <2>6. job.why \in Purposes \ {"none"}
    BY <2>1 DEF PagesInv, Shapes, JobShape
  <2>7. JobShape' /\ Works' /\ job'.why = job.why /\ job'.todo = rest /\ job'.hit = {}
    BY <2>3, <2>4, <2>5, <2>6, Beginning
  <2>8. Unasked'
    BY <2>2, <2>7 DEF PagesInv, Unasked
  <2> QED BY <2>7, <2>8
<1> QED BY <1>1, <1>2

\* Cells that are read or confirmed are not pending any more, others are as before.
LEMMA Told ==
  ASSUME PagesInv, NEW e, DOMAIN e \subseteq Cells, side' = RememberRead(side, e)
  PROVE  /\ StoreShape(side') /\ Pending' \subseteq Pending
         /\ DOMAIN side'.snap.table \subseteq Cells /\ DOMAIN side'.snap.baseline \subseteq Cells
         /\ Merged(side.snap.table, e, side'.snap.table)
         /\ Merged(side.snap.baseline, e, side'.snap.baseline)
<1>1. /\ StoreShape(side) /\ DOMAIN side.snap.table \subseteq Cells
      /\ DOMAIN side.snap.baseline \subseteq Cells
  BY DEF PagesInv, Shapes
<1>2. /\ StoreShape(side')
      /\ Merged(side.snap.table, e, side'.snap.table)
      /\ Merged(side.snap.baseline, e, side'.snap.baseline)
  BY <1>1, RememberEffect
<1>3. Pending' \subseteq Pending
  BY <1>2, PendingIs, PendingWillBe DEF Merged
<1>4. DOMAIN side'.snap.table \subseteq Cells /\ DOMAIN side'.snap.baseline \subseteq Cells
  BY <1>1, <1>2 DEF Merged
<1> QED BY <1>2, <1>3, <1>4

\* The cells a page's read tells of, and what it tells.
LEMMA ReadTells ==
  ASSUME PagesInv, ReadPage
  PROVE  \E got \in SUBSET Batch.asks :
           LET cells == {Meant(cv) : cv \in got}
               e == [c \in cells |-> Held(c[2])]
               right == \A cv \in Batch.asks : Selected /\ Window(cv) = Meant(cv)
           IN  /\ side' = RememberRead(side, e) /\ cells \subseteq Cells
               /\ doubt' = IF right THEN doubt \ cells ELSE doubt \cup cells
               /\ slipped' = (slipped \/ ~right)
               /\ right => \A c \in cells : e[c] = mem[c]
<1>1. Active /\ WellBatch(Batch)
  BY AtWork DEF ReadPage
<1>2. \A cv \in Batch.asks : Meant(cv) \in Cells /\ Meant(cv)[2] = cv
  BY <1>1 DEF WellBatch, Meant
<1>3. PICK got \in SUBSET Batch.asks :
        LET cells == {Meant(cv) : cv \in got}
            e == [c \in cells |-> Held(c[2])]
            right == \A cv \in Batch.asks : Selected /\ Window(cv) = Meant(cv)
        IN  /\ side' = RememberRead(side, e)
            /\ doubt' = IF right THEN doubt \ cells ELSE doubt \cup cells
            /\ slipped' = (slipped \/ ~right)
  BY DEF ReadPage
<1> DEFINE cells == {Meant(cv) : cv \in got}
           e == [c \in cells |-> Held(c[2])]
           right == \A cv \in Batch.asks : Selected /\ Window(cv) = Meant(cv)
<1>4. got \in SUBSET Batch.asks
  BY <1>3
<1>5. cells \subseteq Cells
  BY <1>2, <1>4
<1>6. ASSUME right, NEW c \in cells PROVE e[c] = mem[c]
  <2>1. PICK cv \in got : c = Meant(cv)
    BY <1>6
  <2>2. cv \in Batch.asks
    BY <1>4, <2>1
  <2>3. c[2] = cv /\ Selected /\ Window(cv) = c /\ c \in Cells
    BY <1>2, <1>6, <2>1, <2>2
  <2>4. Held(c[2]) = mem[c]
    BY <2>3 DEF Held
  <2>5. e[c] = Held(c[2])
    BY <1>6
  <2> QED BY <2>4, <2>5
<1> QED BY <1>3, <1>5, <1>6

LEMMA ReadInv == ASSUME PagesInv, ReadPage PROVE PagesInv'
<1>1. PICK got \in SUBSET Batch.asks :
        LET cells == {Meant(cv) : cv \in got}
            e == [c \in cells |-> Held(c[2])]
            right == \A cv \in Batch.asks : Selected /\ Window(cv) = Meant(cv)
        IN  /\ side' = RememberRead(side, e) /\ cells \subseteq Cells
            /\ doubt' = IF right THEN doubt \ cells ELSE doubt \cup cells
            /\ right => \A c \in cells : e[c] = mem[c]
  BY ReadTells
<1> DEFINE cells == {Meant(cv) : cv \in got}
           e == [c \in cells |-> Held(c[2])]
<1>2. /\ side' = RememberRead(side, e) /\ cells \subseteq Cells /\ DOMAIN e = cells
      /\ doubt \ cells \subseteq doubt'
      /\ \A c \in cells : e[c] = mem[c] \/ c \in doubt'
  BY <1>1
<1> HIDE DEF e, cells
<1>3. Active /\ Batch.asks # {} /\ Ended /\ UNCHANGED <<mem, index, view>>
  BY DEF ReadPage, decoder
<1>4. /\ StoreShape(side') /\ Pending' \subseteq Pending
      /\ DOMAIN side'.snap.table \subseteq Cells /\ DOMAIN side'.snap.baseline \subseteq Cells
      /\ Merged(side.snap.baseline, e, side'.snap.baseline)
  BY <1>2, Told
<1>5. JobShape' /\ Works' /\ Unasked' /\ job'.hit = {}
  BY <1>3, <1>4, EndedInv
<1>6. job.hit = {}
  BY <1>3, AtWork DEF PagesInv, Works
<1>7. BaselineIsDecoder'
  BY <1>2, <1>3, <1>4, <1>6 DEF PagesInv, BaselineIsDecoder, Unlearned, Merged
<1> QED BY <1>3, <1>4, <1>5, <1>7 DEF PagesInv, Shapes, Views, Mapping

\* An answer to Apply confirms what the decoder has.
LEMMA ConfirmedHeld ==
  ASSUME PagesInv, Active, job.cvs = <<>>, NEW i \in Confirmed(Batch, job.errs)
  PROVE  /\ Meant(Batch.cvs[i].cv) \in Cells
         /\ mem[Meant(Batch.cvs[i].cv)] = Batch.cvs[i].value
<1> DEFINE s == Batch.cvs
           S == {s[k] : k \in DOMAIN s}
<1>1. WellBatch(Batch) /\ \E n \in 0..Len(s) : Written(n)
  BY AtWork DEF PagesInv, Works
<1>2. PICK n \in 0..Len(s) : Written(n)
  BY <1>1
<1>3. s \in Seq(S) /\ Len(s) >= 2 /\ s[1].cv = 31 /\ s[2].cv = 32
      /\ \A k \in 3..Len(s) : <<Batch.cv32, s[k].cv>> \in Cells
  BY <1>1 DEF WellBatch, Sequence, Entry
<1>4. SubSeq(s, n + 1, Len(s)) = <<>>
  BY <1>2 DEF Written
<1>5. i \in DOMAIN s /\ s[i].cv >= INDEXED_CV_START /\ s[i].cv \notin job.errs
      /\ job.errs \cap {31, 32} = {}
  BY DEF Confirmed
<1>6. \A k \in 3..n : s[k].cv \notin job.errs => mem[Meant(s[k].cv)] = s[k].value
  BY <1>2, <1>5 DEF Written
<1> HIDE DEF S, s
<1>7. Len(s) \in Nat /\ DOMAIN s = 1..Len(s)
  BY <1>3
<1>8. n = Len(s)
  BY <1>2, <1>3, <1>4, Suffix
<1>9. i \in 3..Len(s)
  <2>1. s[1].cv < INDEXED_CV_START /\ s[2].cv < INDEXED_CV_START
    BY <1>3 DEF INDEXED_CV_START
  <2>2. ~(31 >= INDEXED_CV_START) /\ ~(32 >= INDEXED_CV_START)
    BY DEF INDEXED_CV_START
  <2>3. i # 1 /\ i # 2
    BY <1>3, <1>5, <2>2
  <2> QED BY <1>5, <1>7, <2>3
<1> QED BY <1>3, <1>5, <1>6, <1>8, <1>9 DEF Meant, s

\* What the answer to a batch of Apply tells.
LEMMA BatchTells ==
  ASSUME PagesInv, BatchDone
  PROVE  \E cells \in SUBSET Cells : \E sent \in [cells -> {mem[c] : c \in cells}] :
           /\ \A c \in cells : sent[c] = mem[c]
           /\ side' = RememberRead(side, sent) /\ doubt' = (doubt \cup job.hit) \ cells
<1> DEFINE ok == Confirmed(Batch, job.errs)
           cells == {Meant(Batch.cvs[i].cv) : i \in ok}
           value(c) == (CHOOSE x \in {Batch.cvs[i] : i \in ok} : Meant(x.cv) = c).value
           sent == [c \in cells |-> value(c)]
<1>1. /\ Active /\ job.cvs = <<>> /\ Ended /\ UNCHANGED <<mem, index, view>>
      /\ side' = RememberRead(side, sent) /\ doubt' = (doubt \cup job.hit) \ cells
  BY DEF BatchDone, decoder
<1>2. \A i \in ok : /\ Meant(Batch.cvs[i].cv) \in Cells
                    /\ mem[Meant(Batch.cvs[i].cv)] = Batch.cvs[i].value
  BY <1>1, ConfirmedHeld
<1> HIDE DEF ok
<1>3. \A c \in cells : value(c) = mem[c]
  <2> TAKE c \in cells
  <2> DEFINE X == {Batch.cvs[i] : i \in ok}
  <2>1. \E x \in X : Meant(x.cv) = c
    OBVIOUS
  <2> DEFINE x == CHOOSE x \in X : Meant(x.cv) = c
  <2>2. x \in X /\ Meant(x.cv) = c
    <3> HIDE DEF X
    <3> QED BY <2>1
  <2> HIDE DEF x
  <2>3. PICK i \in ok : x = Batch.cvs[i]
    BY <2>2
  <2>4. x.value = mem[c]
    BY <1>2, <2>2, <2>3
  <2> QED BY <2>4 DEF x
<1>4. cells \subseteq Cells
  BY <1>2
<1> HIDE DEF cells, value
<1>5. DOMAIN sent = cells /\ \A c \in cells : sent[c] = mem[c]
  BY <1>3
<1>6. sent \in [cells -> {mem[c] : c \in cells}]
  BY <1>3
<1> HIDE DEF sent
<1> QED BY <1>1, <1>4, <1>5, <1>6

LEMMA BatchInv == ASSUME PagesInv, BatchDone PROVE PagesInv'
<1>1. Active /\ Ended /\ UNCHANGED <<mem, index, view>>
  BY DEF BatchDone, decoder
<1>2. PICK cells \in SUBSET Cells : \E e \in [cells -> {mem[c] : c \in cells}] :
        /\ \A c \in cells : e[c] = mem[c]
        /\ side' = RememberRead(side, e) /\ doubt' = (doubt \cup job.hit) \ cells
  BY BatchTells
<1>3. PICK e \in [cells -> {mem[c] : c \in cells}] :
        /\ \A c \in cells : e[c] = mem[c]
        /\ side' = RememberRead(side, e) /\ doubt' = (doubt \cup job.hit) \ cells
  BY <1>2
<1>4. DOMAIN e = cells /\ cells \subseteq Cells
  BY <1>2, <1>3
<1>5. /\ StoreShape(side') /\ Pending' \subseteq Pending
      /\ DOMAIN side'.snap.table \subseteq Cells /\ DOMAIN side'.snap.baseline \subseteq Cells
      /\ Merged(side.snap.baseline, e, side'.snap.baseline)
  BY <1>3, <1>4, Told
<1>6. JobShape' /\ Works' /\ Unasked' /\ job'.hit = {}
  BY <1>1, <1>5, EndedInv
<1>7. BaselineIsDecoder'
  BY <1>1, <1>3, <1>4, <1>5, <1>6 DEF PagesInv, BaselineIsDecoder, Unlearned, Merged
<1> QED BY <1>1, <1>5, <1>6, <1>7 DEF PagesInv, Shapes, Views, Mapping

\* The next CV of a batch, and what its command leaves in the job.
LEMMA NextCv ==
  ASSUME PagesInv, WriteCv
  PROVE  \E n \in Nat : \E ok, taken \in BOOLEAN :
           LET e == Batch.cvs[n + 1]
               there == IF Selected /\ Window(e.cv) \in Cells THEN {Window(e.cv)} ELSE {}
               payload == e.cv >= INDEXED_CV_START
           IN  /\ n + 1 \in DOMAIN Batch.cvs /\ Written(n)
               /\ ok => taken
               /\ taken /\ ~ok => payload
               /\ job' \in [why : {job.why}, todo : {job.todo},
                            cvs : {SubSeq(Batch.cvs, n + 2, Len(Batch.cvs))},
                            errs : {IF ok THEN job.errs ELSE job.errs \cup {e.cv}},
                            hit : {IF taken /\ payload THEN job.hit \cup there ELSE job.hit}]
               /\ ~payload => /\ index' = IF taken THEN [index EXCEPT ![e.cv - 30] = e.value]
                                                   ELSE index
                              /\ mem' = mem
               /\ payload => /\ mem' = IF taken THEN [c \in Cells |-> IF c \in there THEN e.value
                                                                               ELSE mem[c]]
                                                ELSE mem
                             /\ index' = index
                             /\ slipped' = (slipped \/ there # {Meant(e.cv)})
<1>1. /\ Active /\ WellBatch(Batch) /\ \E n \in 0..Len(Batch.cvs) : Written(n)
  BY AtWork DEF WriteCv, PagesInv, Works
<1>2. PICK n \in 0..Len(Batch.cvs) : Written(n)
  BY <1>1
<1> DEFINE s == Batch.cvs
           S == {s[k] : k \in DOMAIN s}
           e == s[n + 1]
           there == IF Selected /\ Window(e.cv) \in Cells THEN {Window(e.cv)} ELSE {}
           payload == e.cv >= INDEXED_CV_START
<1>3. s \in Seq(S) /\ job.cvs = SubSeq(s, n + 1, Len(s)) /\ job.cvs # <<>>
  BY <1>1, <1>2 DEF WellBatch, Sequence, Written, WriteCv
<1>4. n \in Nat /\ n + 1 \in DOMAIN s /\ Head(job.cvs) = e
      /\ Tail(job.cvs) = SubSeq(s, n + 2, Len(s))
  <2> HIDE DEF s, S
  <2>1. n # Len(s) /\ Len(s) \in Nat /\ n \in 0..Len(s) /\ DOMAIN s = 1..Len(s)
    BY <1>2, <1>3, Suffix DEF s
  <2>2. n \in Nat /\ n < Len(s) /\ n + 1 \in DOMAIN s
    <3>1. \A k \in Nat : \A m \in 0..k : m # k => m \in Nat /\ m < k /\ m + 1 \in 1..k
      OBVIOUS
    <3> QED BY <2>1, <3>1
  <2> QED BY <1>3, <2>1, <2>2, Suffix
<1>5. PICK ok, taken \in BOOLEAN :
        /\ ok => taken
        /\ taken /\ ~ok => payload
        /\ job' = [job EXCEPT !.cvs = Tail(@),
                              !.errs = IF ok THEN @ ELSE @ \cup {e.cv},
                              !.hit = IF taken /\ payload THEN @ \cup there ELSE @]
        /\ IF e.cv < INDEXED_CV_START
             THEN /\ index' = IF taken THEN [index EXCEPT ![e.cv - 30] = e.value] ELSE index
                  /\ mem' = mem
             ELSE /\ mem' = IF taken THEN [c \in Cells |-> IF c \in there THEN e.value ELSE mem[c]]
                                     ELSE mem
                  /\ index' = index
                  /\ slipped' = (slipped \/ there # {Meant(e.cv)})
  BY <1>4 DEF WriteCv
<1>6. payload <=> ~(e.cv < INDEXED_CV_START)
  <2>1. e.cv \in Nat
    <3>1. e = s[1] \/ e = s[2] \/ n + 1 \in 3..Len(s)
      <4> HIDE DEF s, S
      <4>1. n \in Nat /\ n + 1 \in 1..Len(s) /\ Len(s) \in Nat
        BY <1>3, <1>4
      <4>2. n = 0 \/ n = 1 \/ n + 1 \in 3..Len(s)
        BY <4>1
      <4> QED BY <4>2
    <3>2. n + 1 \in 3..Len(s) => e.cv \in 257..512
      BY <1>1, CellCv DEF WellBatch
    <3>3. s[1] = Entry(31, INDEX_CV31_VALUE) /\ s[2] = Entry(32, Batch.cv32)
      BY <1>1 DEF WellBatch
    <3> HIDE DEF s, e
    <3>4. s[1].cv \in Nat /\ s[2].cv \in Nat
      BY <3>3 DEF Entry
    <3>5. \A cv \in 257..512 : cv \in Nat
      OBVIOUS
    <3> QED BY <3>1, <3>2, <3>4, <3>5
  <2> HIDE DEF e
  <2> QED BY <2>1 DEF INDEXED_CV_START
<1>7. job' \in [why : {job.why}, todo : {job.todo}, cvs : {SubSeq(s, n + 2, Len(s))},
                errs : {IF ok THEN job.errs ELSE job.errs \cup {e.cv}},
                hit : {IF taken /\ payload THEN job.hit \cup there ELSE job.hit}]
  <2>1. job \in [why : {job.why}, todo : {job.todo}, cvs : {job.cvs}, errs : {job.errs},
                 hit : {job.hit}]
    BY DEF PagesInv, Shapes, JobShape
  <2> HIDE DEF s, e, there, payload
  <2> QED BY <1>4, <1>5, <2>1
<1> HIDE DEF there
<1>8. /\ ok => taken
      /\ taken /\ ~ok => payload
  BY <1>5
<1>9. /\ ~payload => /\ index' = IF taken THEN [index EXCEPT ![e.cv - 30] = e.value] ELSE index
                     /\ mem' = mem
      /\ payload => /\ mem' = IF taken THEN [c \in Cells |-> IF c \in there THEN e.value ELSE mem[c]]
                                       ELSE mem
                    /\ index' = index
                    /\ slipped' = (slipped \/ there # {Meant(e.cv)})
  BY <1>5, <1>6
<1> QED BY <1>2, <1>4, <1>5, <1>7, <1>8, <1>9 DEF there

LEMMA WriteInv == ASSUME PagesInv, WriteCv PROVE PagesInv'
<1>1. /\ Active /\ WellBatch(Batch) /\ job.why # "none"
      /\ Batch.asks = {} <=> job.why = "apply"
  BY AtWork DEF WriteCv
<1>2. UNCHANGED <<view, side, doubt>>
  BY DEF WriteCv
<1> DEFINE s == Batch.cvs
           at(n) == s[n + 1]
           there(e) == IF Selected /\ Window(e.cv) \in Cells THEN {Window(e.cv)} ELSE {}
           payload(e) == e.cv >= INDEXED_CV_START
<1>3. PICK n \in Nat : \E ok, taken \in BOOLEAN :
           LET e == at(n)
           IN  /\ n + 1 \in DOMAIN s /\ Written(n)
               /\ ok => taken
               /\ taken /\ ~ok => payload(e)
               /\ job' \in [why : {job.why}, todo : {job.todo},
                            cvs : {SubSeq(s, n + 2, Len(s))},
                            errs : {IF ok THEN job.errs ELSE job.errs \cup {e.cv}},
                            hit : {IF taken /\ payload(e) THEN job.hit \cup there(e) ELSE job.hit}]
               /\ ~payload(e) => /\ index' = IF taken THEN [index EXCEPT ![e.cv - 30] = e.value]
                                                      ELSE index
                                 /\ mem' = mem
               /\ payload(e) => /\ mem' = IF taken
                                            THEN [c \in Cells |-> IF c \in there(e) THEN e.value
                                                                                    ELSE mem[c]]
                                            ELSE mem
                                /\ index' = index
                                /\ slipped' = (slipped \/ there(e) # {Meant(e.cv)})
  BY NextCv
<1> DEFINE e == at(n)
<1>4. PICK ok, taken \in BOOLEAN :
           /\ n + 1 \in DOMAIN s /\ Written(n)
           /\ ok => taken
           /\ taken /\ ~ok => payload(e)
           /\ job' \in [why : {job.why}, todo : {job.todo},
                        cvs : {SubSeq(s, n + 2, Len(s))},
                        errs : {IF ok THEN job.errs ELSE job.errs \cup {e.cv}},
                        hit : {IF taken /\ payload(e) THEN job.hit \cup there(e) ELSE job.hit}]
           /\ ~payload(e) => /\ index' = IF taken THEN [index EXCEPT ![e.cv - 30] = e.value]
                                                  ELSE index
                             /\ mem' = mem
           /\ payload(e) => /\ mem' = IF taken
                                        THEN [c \in Cells |-> IF c \in there(e) THEN e.value
                                                                                ELSE mem[c]]
                                        ELSE mem
                            /\ index' = index
  BY <1>3
<1>5. /\ job'.why = job.why /\ job'.todo = job.todo
      /\ job'.cvs = SubSeq(s, n + 2, Len(s))
      /\ job'.errs = IF ok THEN job.errs ELSE job.errs \cup {e.cv}
      /\ job'.hit = IF taken /\ payload(e) THEN job.hit \cup there(e) ELSE job.hit
  <2> HIDE DEF s, there, payload, at
  <2> QED BY <1>4
<1>6. Batch' = Batch /\ \A cv : Meant(cv)' = Meant(cv)
  BY <1>5 DEF Batch, Meant
<1>7. JobShape'
  <2>1. job.why \in Purposes
    BY DEF PagesInv, Shapes, JobShape
  <2> HIDE DEF s, there, payload, at
  <2>2. job' \in [why : {job.why}, todo : {job'.todo}, cvs : {job'.cvs}, errs : {job'.errs},
                  hit : {job'.hit}]
    BY <1>4, <1>5
  <2>3. job' \in [why : Purposes, todo : {job'.todo}, cvs : {job'.cvs}, errs : {job'.errs},
                  hit : {job'.hit}]
    BY <2>1, <2>2
  <2> QED BY <1>1, <1>5, <2>3 DEF JobShape
<1>8. /\ s[1] = Entry(31, INDEX_CV31_VALUE) /\ s[2] = Entry(32, Batch.cv32)
      /\ \A i \in 3..Len(s) : payload(s[i]) /\ Meant(s[i].cv) \in Cells
      /\ \A i, j \in 3..Len(s) : s[i].cv = s[j].cv => i = j
      /\ Batch.asks # {} => Len(s) = 2
  BY <1>1 DEF WellBatch, Meant
<1>9. Len(s) \in Nat /\ DOMAIN s = 1..Len(s)
  BY <1>1 DEF WellBatch, Sequence
<1>10. ~payload(s[1]) /\ ~payload(s[2])
  BY <1>8 DEF Entry, INDEXED_CV_START
<1>11. \/ n = 0 /\ e = s[1] /\ ~payload(e)
       \/ n = 1 /\ e = s[2] /\ ~payload(e)
       \/ n \in Nat /\ n >= 2 /\ n + 1 \in 3..Len(s) /\ e = s[n + 1] /\ payload(e)
  <2>1. n \in Nat /\ n + 1 \in 1..Len(s)
    BY <1>4, <1>9
  <2>2. n = 0 \/ n = 1 \/ (n >= 2 /\ n + 1 \in 3..Len(s))
    BY <1>9, <2>1
  <2>3. n >= 2 /\ n + 1 \in 3..Len(s) => payload(s[n + 1])
    BY <1>8
  <2> HIDE DEF s, payload
  <2> QED BY <1>10, <2>1, <2>2, <2>3
<1>12. index = [i \in {1, 2} |-> index[i]]
  BY DEF PagesInv, Shapes
<1>13. index' = [i \in {1, 2} |-> index'[i]]
  <2>1. CASE index' = index
    BY <1>12, <2>1
  <2>2. CASE index' = [index EXCEPT ![e.cv - 30] = e.value]
    BY <1>12, <2>2
  <2> HIDE DEF s, payload, there, at
  <2> QED BY <1>4, <2>1, <2>2
<1>14. BaselineIsDecoder'
  <2>1. ASSUME NEW c \in Cells
        PROVE  mem'[c] = mem[c] \/ c \in job'.hit
    <3> HIDE DEF there, payload, at, s
    <3> QED BY <1>4, <1>5, <2>1
  <2>2. job.hit \subseteq job'.hit
    <3> HIDE DEF there, payload, at, s
    <3> QED BY <1>5
  <2>3. DOMAIN side.snap.baseline \subseteq Cells
    BY DEF PagesInv, Shapes
  <2> QED BY <1>2, <2>1, <2>2, <2>3 DEF PagesInv, BaselineIsDecoder, Unlearned
<1>15. Unasked'
  BY <1>2, <1>5, SameSide DEF PagesInv, Unasked
<1>16. ASSUME job.why # "apply" PROVE job'.hit = {}
  <2>1. Len(s) = 2
    BY <1>1, <1>8, <1>16
  <2>2. ~payload(e)
    <3> HIDE DEF payload, s, at
    <3> QED BY <1>11, <2>1
  <2>3. job.hit = {}
    BY <1>1, <1>16 DEF PagesInv, Works
  <2> HIDE DEF payload, s, at, there
  <2> QED BY <1>5, <2>2, <2>3
<1>17. Written(n + 1)'
  <2>1. job'.cvs = SubSeq(Batch'.cvs, n + 1 + 1, Len(Batch'.cvs))
    BY <1>5, <1>6
  <2>2. job.errs \subseteq job'.errs /\ (e.cv \notin job'.errs => ok)
    <3> HIDE DEF payload, s, at, there
    <3> QED BY <1>5
  <2>3. /\ n >= 1 /\ 31 \notin job.errs => index[1] = INDEX_CV31_VALUE
        /\ n >= 2 /\ 32 \notin job.errs => index[2] = Batch.cv32
        /\ \A i \in 3..n : s[i].cv \notin job.errs /\ job.errs \cap {31, 32} = {} =>
             mem[Meant(s[i].cv)] = s[i].value
    BY <1>4 DEF Written
  <2> SUFFICES /\ n + 1 >= 1 /\ 31 \notin job'.errs => index'[1] = INDEX_CV31_VALUE
               /\ n + 1 >= 2 /\ 32 \notin job'.errs => index'[2] = Batch.cv32
               /\ \A i \in 3..(n + 1) :
                    s[i].cv \notin job'.errs /\ job'.errs \cap {31, 32} = {} =>
                      mem'[Meant(s[i].cv)] = s[i].value
    BY <1>6, <2>1 DEF Written
  <2>4. CASE n = 0 /\ e = s[1] /\ ~payload(e)
    <3>1. e.cv = 31 /\ e.value = INDEX_CV31_VALUE
      BY <1>8, <2>4 DEF Entry
    <3>2. 31 \notin job'.errs => ok
      BY <2>2, <3>1
    <3>3. ok => index' = [index EXCEPT ![1] = INDEX_CV31_VALUE]
      <4>1. ok => index' = [index EXCEPT ![e.cv - 30] = e.value]
        BY <1>4, <2>4
      <4>2. e.cv - 30 = 1
        BY <3>1
      <4> HIDE DEF e
      <4> QED BY <3>1, <4>1, <4>2
    <3>4. ok => index'[1] = INDEX_CV31_VALUE
      BY <1>12, <3>3
    <3> QED BY <2>4, <3>2, <3>4
  <2>5. CASE n = 1 /\ e = s[2] /\ ~payload(e)
    <3>1. e.cv = 32 /\ e.value = Batch.cv32
      BY <1>8, <2>5 DEF Entry
    <3>2. 32 \notin job'.errs => ok
      BY <2>2, <3>1
    <3>3. /\ ok => index' = [index EXCEPT ![2] = Batch.cv32]
          /\ index' = index \/ index' = [index EXCEPT ![2] = Batch.cv32]
      <4>1. /\ ok => index' = [index EXCEPT ![e.cv - 30] = e.value]
            /\ index' = index \/ index' = [index EXCEPT ![e.cv - 30] = e.value]
        BY <1>4, <2>5
      <4>2. e.cv - 30 = 2
        BY <3>1
      <4> HIDE DEF e
      <4> QED BY <3>1, <4>1, <4>2
    <3>4. ok => index'[2] = Batch.cv32
      BY <1>12, <3>3
    <3>5. index'[1] = index[1]
      BY <1>12, <3>3
    <3>6. 31 \notin job'.errs => index'[1] = INDEX_CV31_VALUE
      BY <2>2, <2>3, <2>5, <3>5
    <3> QED BY <2>5, <3>2, <3>4, <3>6
  <2>6. CASE n \in Nat /\ n >= 2 /\ n + 1 \in 3..Len(s) /\ e = s[n + 1] /\ payload(e)
    <3>1. index' = index /\ mem' = IF taken THEN [c \in Cells |-> IF c \in there(e) THEN e.value
                                                                                ELSE mem[c]]
                                   ELSE mem
      BY <1>4, <2>6
    <3>2. /\ 31 \notin job'.errs => index'[1] = INDEX_CV31_VALUE
          /\ 32 \notin job'.errs => index'[2] = Batch.cv32
      BY <2>2, <2>3, <2>6, <3>1
    <3>3. ASSUME NEW i \in 3..(n + 1), s[i].cv \notin job'.errs, job'.errs \cap {31, 32} = {}
          PROVE  mem'[Meant(s[i].cv)] = s[i].value
      <4>1. there(e) = {Meant(e.cv)}
        <5>1. index[1] = INDEX_CV31_VALUE /\ index[2] = Batch.cv32
          BY <3>1, <3>2, <3>3
        <5>2. Meant(e.cv) \in Cells
          BY <1>8, <2>6
        <5>3. Window(e.cv) = Meant(e.cv) /\ Selected
          BY <5>1 DEF Window, Meant, Selected
        <5> QED BY <5>2, <5>3
      <4>2. i \in Nat /\ (i = n + 1 \/ i \in 3..n) /\ i \in 3..Len(s)
        BY <1>9, <2>6, <3>3
      <4>3. CASE i = n + 1
        <5>1. ok /\ taken
          BY <1>4, <2>2, <2>6, <3>3, <4>3
        <5>2. Meant(e.cv) \in Cells
          BY <1>8, <2>6
        <5>3. mem'[Meant(e.cv)] = e.value
          <6> HIDE DEF there, e
          <6> QED BY <3>1, <4>1, <5>1, <5>2
        <5> QED BY <2>6, <4>3, <5>3
      <4>4. CASE i \in 3..n
        <5>1. s[i].cv # e.cv
          <6>1. i # n + 1
            BY <2>6, <4>4
          <6> QED BY <1>8, <2>6, <4>2, <6>1
        <5>2. Meant(s[i].cv) # Meant(e.cv) /\ Meant(s[i].cv) \in Cells
          BY <1>8, <4>2, <5>1 DEF Meant
        <5>3. mem[Meant(s[i].cv)] = s[i].value
          BY <2>2, <2>3, <3>3, <4>4
        <5>4. mem'[Meant(s[i].cv)] = mem[Meant(s[i].cv)]
          <6> HIDE DEF there, e, s
          <6> QED BY <3>1, <4>1, <5>2
        <5> QED BY <5>3, <5>4
      <4> QED BY <4>2, <4>3, <4>4
    <3> QED BY <3>2, <3>3
  <2> QED BY <1>11, <2>4, <2>5, <2>6
<1>18. Works'
  <2>1. n + 1 \in 0..Len(Batch'.cvs)
    BY <1>4, <1>6, <1>9
  <2> QED BY <1>1, <1>5, <1>16, <1>17, <2>1 DEF PagesInv, Works
<1> QED BY <1>2, <1>7, <1>13, <1>14, <1>15, <1>18, SameSide
        DEF PagesInv, Shapes, Views, Mapping

-----------------------------------------------------------------------------
(* What the tab knows, and what the coupler page reads on its own.         *)

LEMMA InvStep == PagesInv /\ [Next]_vars => PagesInv'
<1> SUFFICES ASSUME PagesInv, [Next]_vars PROVE PagesInv'
  OBVIOUS
<1>1. ASSUME NEW v \in Views, Goto(v) PROVE PagesInv'
  BY <1>1, GotoInv
<1>2. CASE Effect
  BY <1>2, EffectInv
<1>3. CASE ReadButton
  BY <1>3, ButtonInv
<1>4. CASE Apply
  BY <1>4, ApplyInv
<1>5. CASE Edit
  BY <1>5, EditInv
<1>6. CASE Assign
  BY <1>6, AssignInv
<1>7. CASE WriteCv
  BY <1>7, WriteInv
<1>8. CASE ReadPage
  BY <1>8, ReadInv
<1>9. CASE BatchDone
  BY <1>9, BatchInv
<1>10. CASE Stop
  BY <1>10, StopInv
<1>11. CASE UNCHANGED vars
  <2>1. UNCHANGED <<mem, index, view, side, doubt, job>>
    BY <1>11 DEF vars
  <2>2. JobShape' /\ Works'
    BY <2>1, GoingOn DEF PagesInv
  <2>3. Unasked' /\ BaselineIsDecoder'
    BY <2>1, SameSide, NothingLearnt DEF PagesInv, Unasked
  <2> QED BY <2>1, <2>2, <2>3, SameSide DEF PagesInv, Shapes, Views, Mapping
<1> QED BY <1>1, <1>2, <1>3, <1>4, <1>5, <1>6, <1>7, <1>8, <1>9, <1>10, <1>11 DEF Next

LEMMA AlwaysInv == Spec => []PagesInv
BY InitInv, InvStep, PTL DEF Spec

\* What the tab holds for read or written on the ESU pages is what the decoder
\* has, whichever CVs of a batch or selections of a page fail and wherever Apply
\* is cancelled: for any profile, any number of rows, outputs and actions
\* (EsuMappingPage.tsx readPages, apply; esuMapping.ts applyBatches).
THEOREM SideTableKnown == Spec => []BaselineIsDecoder
<1>1. PagesInv => BaselineIsDecoder
  BY DEF PagesInv
<1> QED BY <1>1, AlwaysInv, PTL

\* The cells the coupler page reads on its own, for showing its keys or for an
\* assignment, never hold a pending change, those of the last page as little as
\* those of the first (EsuCouplerPage.tsx unreadPages before each read).
THEOREM ReadsSparePending == Spec => CouplerKeepsPending
<1>1. ASSUME PagesInv, ReadPage, job.why \in {"show", "assign"}, NEW c \in Pending
      PROVE  side'.snap.table[c] = side.snap.table[c]
  <2>1. PICK got \in SUBSET Batch.asks :
          LET cells == {Meant(cv) : cv \in got}
              e == [x \in cells |-> Held(x[2])]
          IN  side' = RememberRead(side, e) /\ cells \subseteq Cells
    BY <1>1, ReadTells
  <2> DEFINE cells == {Meant(cv) : cv \in got}
             e == [x \in cells |-> Held(x[2])]
  <2>2. Active /\ 1 \in DOMAIN job.todo /\ Batch = job.todo[1]
    BY <1>1, AtWork DEF ReadPage
  <2>3. \A cv \in Batch.asks : Meant(cv) \notin Pending
    BY <1>1, <2>2 DEF PagesInv, Unasked, Meant
  <2>4. c \notin cells
    BY <1>1, <2>1, <2>3
  <2>5. side' = RememberRead(side, e) /\ DOMAIN e = cells /\ cells \subseteq Cells
    BY <2>1
  <2> HIDE DEF e, cells
  <2>6. Merged(side.snap.table, e, side'.snap.table)
    BY <1>1, <2>5, Told
  <2> QED BY <1>1, <2>4, <2>5, <2>6, PendingIs DEF Merged
<1>2. PagesInv =>
        [ReadPage /\ job.why \in {"show", "assign"} =>
           \A c \in Pending : side'.snap.table[c] = side.snap.table[c]]_vars
  BY <1>1
<1> QED BY <1>2, AlwaysInv, PTL DEF CouplerKeepsPending

-----------------------------------------------------------------------------
(* What is written for a row is read back as that row.                     *)

\* A CV has the bits it is made of.
LEMMA BitOfByte ==
  ASSUME NEW f \in [0..7 -> 0..1]
  PROVE  \A b \in 0..7 : Bit(Byte8(f), b) = f[b]
<1> DEFINE v == f[0] + 2 * f[1] + 4 * f[2] + 8 * f[3] + 16 * f[4] + 32 * f[5] + 64 * f[6] + 128 * f[7]
<1>1. /\ f[0] \in 0..1 /\ f[1] \in 0..1 /\ f[2] \in 0..1 /\ f[3] \in 0..1
      /\ f[4] \in 0..1 /\ f[5] \in 0..1 /\ f[6] \in 0..1 /\ f[7] \in 0..1
  OBVIOUS
<1>2. v \in Int
  BY <1>1
<1>3. /\ (v \div 1) % 2 = f[0] /\ (v \div 2) % 2 = f[1]
      /\ (v \div 4) % 2 = f[2] /\ (v \div 8) % 2 = f[3]
  BY <1>1
<1>4. /\ (v \div 16) % 2 = f[4] /\ (v \div 32) % 2 = f[5]
      /\ (v \div 64) % 2 = f[6] /\ (v \div 128) % 2 = f[7]
  BY <1>1
<1> HIDE DEF v
<1>5. 2^0 = 1 /\ 2^1 = 2 /\ 2^2 = 4 /\ 2^3 = 8 /\ 2^4 = 16 /\ 2^5 = 32 /\ 2^6 = 64 /\ 2^7 = 128
  OBVIOUS
<1>6. /\ Bit(v, 0) = f[0] /\ Bit(v, 1) = f[1] /\ Bit(v, 2) = f[2] /\ Bit(v, 3) = f[3]
      /\ Bit(v, 4) = f[4] /\ Bit(v, 5) = f[5] /\ Bit(v, 6) = f[6] /\ Bit(v, 7) = f[7]
  BY <1>3, <1>4, <1>5 DEF Bit
<1>7. \A b \in 0..7 : b = 0 \/ b = 1 \/ b = 2 \/ b = 3 \/ b = 4 \/ b = 5 \/ b = 6 \/ b = 7
  OBVIOUS
<1>8. Byte8(f) = v
  BY DEF Byte8, v
<1> QED BY <1>6, <1>7, <1>8

Code(state) == IF state = "on" THEN 1 ELSE IF state = "off" THEN 2 ELSE 0
Meaning(bits) == IF bits = 1 THEN "on" ELSE IF bits = 2 THEN "off" ELSE "ignore"

\* Of four numbers below 4 packed into one each is found again.
LEMMA PairOfByte ==
  ASSUME NEW a \in 0..3, NEW b \in 0..3, NEW c \in 0..3, NEW d \in 0..3, NEW v,
         v = a * 4^0 + b * 4^1 + c * 4^2 + d * 4^3
  PROVE  /\ UnpackPair(v, 0) = Meaning(a) /\ UnpackPair(v, 1) = Meaning(b)
         /\ UnpackPair(v, 2) = Meaning(c) /\ UnpackPair(v, 3) = Meaning(d)
<1>1. 4^0 = 1 /\ 4^1 = 4 /\ 4^2 = 16 /\ 4^3 = 64
  OBVIOUS
<1>2. v = a + 4 * b + 16 * c + 64 * d
  BY <1>1
<1>3. /\ (v \div 1) % 4 = a /\ (v \div 4) % 4 = b
      /\ (v \div 16) % 4 = c /\ (v \div 64) % 4 = d
  BY <1>2
<1> QED BY <1>1, <1>3 DEF UnpackPair, Meaning

LEMMA CodeOf ==
  ASSUME NEW state \in CondStates
  PROVE  /\ Code(state) \in 0..3 /\ Meaning(Code(state)) = state
         /\ \A i : PackPair(state, i) = Code(state) * 4^i
BY DEF CondStates, Code, Meaning, PackPair

\* Its four conditions are found again in each CV.
LEMMA ConditionsBack ==
  ASSUME NEW cond \in [Profile.conditions -> CondStates]
  PROVE  \A k \in 1..Profile.conditionCvCount : \A c \in Profile.conditions :
           1 + (c \div 4) = k =>
             UnpackPair(EncodeConditions(Profile, cond)[k], c % 4) = cond[c]
<1> DEFINE n == Profile.conditionCvCount
<1> SUFFICES ASSUME NEW k \in 1..n, NEW c \in Profile.conditions, 1 + (c \div 4) = k
             PROVE  UnpackPair(EncodeConditions(Profile, cond)[k], c % 4) = cond[c]
  OBVIOUS
<1>1. n \in Nat /\ Profile.conditions \subseteq Nat
  BY RowsAssumption DEF WellLaid
<1> DEFINE at(i) == 4 * (k - 1) + i
           Pair(i) == IF at(i) \in Profile.conditions THEN PackPair(cond[at(i)], i) ELSE 0
           code(i) == IF at(i) \in Profile.conditions THEN Code(cond[at(i)]) ELSE 0
           v == EncodeConditions(Profile, cond)[k]
<1>2. v = Pair(0) + Pair(1) + Pair(2) + Pair(3)
  BY DEF EncodeConditions
<1>3. \A i \in 0..3 : Pair(i) = code(i) * 4^i /\ code(i) \in 0..3
  <2> TAKE i \in 0..3
  <2>1. CASE at(i) \in Profile.conditions
    <3>1. cond[at(i)] \in CondStates
      BY <2>1
    <3> QED BY <2>1, <3>1, CodeOf
  <2>2. CASE at(i) \notin Profile.conditions
    <3>1. 4^i \in Int
      <4>1. 4^0 = 1 /\ 4^1 = 4 /\ 4^2 = 16 /\ 4^3 = 64
        OBVIOUS
      <4>2. i = 0 \/ i = 1 \/ i = 2 \/ i = 3
        OBVIOUS
      <4> QED BY <4>1, <4>2
    <3> QED BY <2>2, <3>1
  <2> QED BY <2>1, <2>2
<1>4. c = 4 * (k - 1) + (c % 4) /\ c % 4 \in 0..3
  BY <1>1
<1>5. code(c % 4) = Code(cond[c]) /\ cond[c] \in CondStates
  BY <1>4
<1> HIDE DEF v, Pair, code
<1>6. v = code(0) * 4^0 + code(1) * 4^1 + code(2) * 4^2 + code(3) * 4^3
  BY <1>2, <1>3
<1>7. /\ UnpackPair(v, 0) = Meaning(code(0)) /\ UnpackPair(v, 1) = Meaning(code(1))
      /\ UnpackPair(v, 2) = Meaning(code(2)) /\ UnpackPair(v, 3) = Meaning(code(3))
  BY <1>3, <1>6, PairOfByte
<1>8. UnpackPair(v, c % 4) = Meaning(code(c % 4))
  <2>1. c % 4 = 0 \/ c % 4 = 1 \/ c % 4 = 2 \/ c % 4 = 3
    BY <1>4
  <2> QED BY <1>7, <2>1
<1> QED BY <1>5, <1>8, CodeOf DEF v

\* Of the CVs that hold such things of a row, the bit of one says whether the row
\* has it.
LEMMA BitOf ==
  ASSUME NEW defs, NEW count \in Nat, Placed(defs, count), NEW ids, NEW d \in defs
  PROVE  /\ 1 + d.cvOffset \in 1..count
         /\ Bit(EncodeBits(defs, count, ids)[1 + d.cvOffset], d.bit) = 1 <=> d.id \in ids
<1> DEFINE k == 1 + d.cvOffset
           Set(b) == \E e \in defs : e.id \in ids /\ 1 + e.cvOffset = k /\ e.bit = b
           f == [b \in 0..7 |-> IF Set(b) THEN 1 ELSE 0]
<1>1. d.cvOffset \in 0..(count - 1) /\ d.bit \in 0..7
  BY DEF Placed
<1>2. k \in 1..count
  BY <1>1
<1>3. EncodeBits(defs, count, ids)[k] = Byte8(f)
  BY <1>2 DEF EncodeBits
<1>4. f \in [0..7 -> 0..1]
  OBVIOUS
<1>5. Set(d.bit) <=> d.id \in ids
  <2>1. ASSUME NEW e \in defs, e.id \in ids, 1 + e.cvOffset = k, e.bit = d.bit
        PROVE  e = d
    <3>1. e.cvOffset \in 0..(count - 1)
      BY DEF Placed
    <3>2. e.cvOffset = d.cvOffset
      BY <1>1, <2>1, <3>1
    <3> QED BY <2>1, <3>2 DEF Placed
  <2> QED BY <2>1
<1> HIDE DEF Set
<1>6. f[d.bit] = 1 <=> d.id \in ids
  BY <1>1, <1>5
<1> HIDE DEF f
<1>7. Bit(Byte8(f), d.bit) = f[d.bit]
  BY <1>1, <1>4, BitOfByte
<1> QED BY <1>2, <1>3, <1>6, <1>7

LEMMA BitsBack ==
  ASSUME NEW ids, NEW d \in Profile.physical
  PROVE  Bit(EncodeBits(Profile.physical, Profile.physicalCvCount, ids)[1 + d.cvOffset], d.bit) = 1
           <=> d.id \in ids
<1>1. Placed(Profile.physical, Profile.physicalCvCount) /\ Profile.physicalCvCount \in Nat
  BY RowsAssumption DEF WellLaid
<1> QED BY <1>1, BitOf

\* Where the CVs of a row are: no other row, nor another place of the row, is there.
LEMMA CellsAre ==
  \A r, i :
    /\ ConditionCell(Profile, r, i) =
         <<(IF Profile.split THEN 3 ELSE 2) + ((r - 1) \div 16),
           257 + ((r - 1) % 16) * 16 + i - 1>>
    /\ OutputCell(Profile, r, i) =
         <<(IF Profile.split THEN 8 ELSE 2) + ((r - 1) \div 16),
           (IF Profile.split THEN 257 + ((r - 1) % 16) * 16
              ELSE 257 + ((r - 1) % 16) * 16 + Profile.conditionCvCount) + i - 1>>
BY DEF ConditionCell, OutputCell, RowLayout, RowCvStart, INDEXED_CV_START, ROW_STRIDE,
       ROWS_PER_PAGE

Numbers ==
  /\ Profile.rowCount \in Nat /\ Profile.conditionCvCount \in Nat
  /\ Profile.physicalCvCount \in Nat /\ OutputCvCount(Profile) \in Nat
  /\ Profile.physicalCvCount <= OutputCvCount(Profile)

LEMMA NumbersAre == Numbers
BY RowsAssumption DEF WellLaid, OutputCvCount, Numbers

LEMMA StrideApart ==
  ASSUME NEW r \in Nat \ {0}, NEW q \in Nat \ {0}, NEW i \in 0..15, NEW j \in 0..15,
         (r - 1) \div 16 = (q - 1) \div 16,
         ((r - 1) % 16) * 16 + i = ((q - 1) % 16) * 16 + j
  PROVE  r = q /\ i = j
<1> DEFINE a == (r - 1) % 16
           b == (q - 1) % 16
<1>1. a \in 0..15 /\ b \in 0..15 /\ r - 1 = 16 * ((r - 1) \div 16) + a
      /\ q - 1 = 16 * ((q - 1) \div 16) + b
  OBVIOUS
<1>2. a * 16 + i = b * 16 + j
  OBVIOUS
<1> HIDE DEF a, b
<1>3. a = b /\ i = j
  BY <1>1, <1>2
<1> QED BY <1>1, <1>3

LEMMA CellsApart ==
  ASSUME NEW r \in Rows(Profile), NEW q \in Rows(Profile)
  PROVE  /\ \A i, j \in 1..Profile.conditionCvCount :
              ConditionCell(Profile, r, i) = ConditionCell(Profile, q, j) => r = q /\ i = j
         /\ \A i, j \in 1..OutputCvCount(Profile) :
              OutputCell(Profile, r, i) = OutputCell(Profile, q, j) => r = q /\ i = j
         /\ \A i \in 1..Profile.conditionCvCount : \A j \in 1..OutputCvCount(Profile) :
              ConditionCell(Profile, r, i) # OutputCell(Profile, q, j)
<1> DEFINE n == Profile.conditionCvCount
           m == OutputCvCount(Profile)
<1>1. r \in Nat \ {0} /\ q \in Nat \ {0} /\ n \in Nat /\ m \in Nat
      /\ r <= Profile.rowCount /\ q <= Profile.rowCount /\ Profile.rowCount \in Nat
  BY NumbersAre DEF Numbers, Rows
<1>2. /\ Profile.split => n <= 16 /\ m <= 16 /\ Profile.rowCount <= 80
      /\ ~Profile.split => n + m <= 16
  BY RowsAssumption DEF WellLaid, ROW_STRIDE, ROWS_PER_PAGE
<1> HIDE DEF n, m
<1>3. ASSUME NEW i \in 1..n, NEW j \in 1..n, ConditionCell(Profile, r, i) = ConditionCell(Profile, q, j)
      PROVE  r = q /\ i = j
  <2>1. (r - 1) \div 16 = (q - 1) \div 16 /\ ((r - 1) % 16) * 16 + (i - 1) = ((q - 1) % 16) * 16 + (j - 1)
    BY <1>1, <1>3, CellsAre
  <2>2. i - 1 \in 0..15 /\ j - 1 \in 0..15
    BY <1>1, <1>2
  <2>3. r = q /\ i - 1 = j - 1
    BY <1>1, <2>1, <2>2, StrideApart
  <2> QED BY <1>1, <2>3
<1>4. ASSUME NEW i \in 1..m, NEW j \in 1..m, OutputCell(Profile, r, i) = OutputCell(Profile, q, j)
      PROVE  r = q /\ i = j
  <2>1. (r - 1) \div 16 = (q - 1) \div 16 /\ ((r - 1) % 16) * 16 + (i - 1) = ((q - 1) % 16) * 16 + (j - 1)
    <3>1. CASE Profile.split
      BY <1>1, <1>4, <3>1, CellsAre
    <3>2. CASE ~Profile.split
      <4>1. /\ (r - 1) \div 16 = (q - 1) \div 16
            /\ 257 + ((r - 1) % 16) * 16 + n + i - 1 = 257 + ((q - 1) % 16) * 16 + n + j - 1
        <5>1. 2 + ((r - 1) \div 16) = 2 + ((q - 1) \div 16)
          BY <1>4, <3>2, CellsAre
        <5>2. 257 + ((r - 1) % 16) * 16 + n + i - 1 = 257 + ((q - 1) % 16) * 16 + n + j - 1
          BY <1>4, <3>2, CellsAre DEF n
        <5> QED BY <1>1, <5>1, <5>2
      <4> QED BY <1>1, <4>1
    <3> QED BY <3>1, <3>2
  <2>2. i - 1 \in 0..15 /\ j - 1 \in 0..15
    BY <1>1, <1>2
  <2>3. r = q /\ i - 1 = j - 1
    BY <1>1, <2>1, <2>2, StrideApart
  <2> QED BY <1>1, <2>3
<1>5. ASSUME NEW i \in 1..n, NEW j \in 1..m, ConditionCell(Profile, r, i) = OutputCell(Profile, q, j)
      PROVE  FALSE
  <2>1. CASE Profile.split
    <3>1. 3 + ((r - 1) \div 16) = 8 + ((q - 1) \div 16)
      BY <1>5, <2>1, CellsAre
    <3>2. r - 1 \in 0..79 /\ q - 1 \in 0..79
      BY <1>1, <1>2, <2>1
    <3>3. (r - 1) \div 16 < 5 /\ (q - 1) \div 16 >= 0 /\ (r - 1) \div 16 \in Int /\ (q - 1) \div 16 \in Int
      BY <3>2
    <3> QED BY <3>1, <3>3
  <2>2. CASE ~Profile.split
    <3>1. /\ 2 + ((r - 1) \div 16) = 2 + ((q - 1) \div 16)
          /\ 257 + ((r - 1) % 16) * 16 + i - 1 = 257 + ((q - 1) % 16) * 16 + n + j - 1
      BY <1>5, <2>2, CellsAre DEF n
    <3>2. i - 1 \in 0..15 /\ n + j - 1 \in 0..15 /\ i - 1 # n + j - 1
      BY <1>1, <1>2, <2>2
    <3>3. /\ (r - 1) \div 16 = (q - 1) \div 16
          /\ ((r - 1) % 16) * 16 + (i - 1) = ((q - 1) % 16) * 16 + (n + j - 1)
      BY <1>1, <3>1
    <3> QED BY <1>1, <3>2, <3>3, StrideApart
  <2> QED BY <2>1, <2>2
<1> QED BY <1>3, <1>4, <1>5 DEF n, m

\* The mapping is not on the page of the outputs' configuration.
LEMMA RowsOffPage ==
  ASSUME NEW r \in Rows(Profile), NEW i
  PROVE  ConditionCell(Profile, r, i)[1] # 0 /\ OutputCell(Profile, r, i)[1] # 0
<1>1. r - 1 \in Nat
  BY NumbersAre DEF Numbers, Rows
<1>2. (r - 1) \div 16 \in Nat
  BY <1>1
<1> QED BY <1>2, CellsAre

\* What a row is, from its cells.
LEMMA RowIs ==
  ASSUME NEW r, NEW tab
  PROVE  /\ ReadRow(Profile, r, tab).conditions =
              [c \in Profile.conditions |->
                 UnpackPair(tab[ConditionCell(Profile, r, 1 + (c \div 4))], c % 4)]
         /\ ReadRow(Profile, r, tab).physical = RowPhysicalIds(Profile, r, tab)
         /\ RowPhysicalIds(Profile, r, tab) \subseteq {d.id : d \in Profile.physical}
         /\ \A d \in Profile.physical :
              d.id \in RowPhysicalIds(Profile, r, tab) <=>
                Bit(tab[OutputCell(Profile, r, 1 + d.cvOffset)], d.bit) = 1
<1> DEFINE n == Profile.conditionCvCount
           m == OutputCvCount(Profile)
           k == Profile.physicalCvCount
           A == [i \in 1..n |-> tab[ConditionCell(Profile, r, i)]]
           B == [i \in 1..m |-> tab[OutputCell(Profile, r, i)]]
           C == [i \in 1..k |-> tab[OutputCell(Profile, r, i)]]
<1>1. n \in Nat /\ m \in Nat /\ k \in Nat /\ k <= m
  BY NumbersAre DEF Numbers
<1>2. /\ ReadRow(Profile, r, tab).conditions = DecodeConditions(Profile, A)
      /\ ReadRow(Profile, r, tab).physical = DecodeBits(Profile.physical, SubSeq(B, 1, k))
      /\ RowPhysicalIds(Profile, r, tab) = DecodeBits(Profile.physical, C)
  BY DEF ReadRow, DecodeRow, RowPhysicalIds
<1>3. \A c \in Profile.conditions : 1 + (c \div 4) \in 1..n
  <2>1. Profile.conditions \subseteq 0..(4 * n - 1)
    BY RowsAssumption DEF WellLaid
  <2> HIDE DEF n
  <2> QED BY <1>1, <2>1
<1>4. DecodeConditions(Profile, A) =
        [c \in Profile.conditions |->
           UnpackPair(tab[ConditionCell(Profile, r, 1 + (c \div 4))], c % 4)]
  BY <1>3 DEF DecodeConditions
<1>5. SubSeq(B, 1, k) = C
  <2> DEFINE S == {B[i] : i \in 1..m}
             s == SubSeq(B, 1, k)
  <2> HIDE DEF m, k
  <2>1. B \in Seq(S) /\ Len(B) = m
    BY <1>1
  <2>2. \A i \in 1..k : B[i] \in S /\ B[i] = C[i]
    BY <1>1
  <2> HIDE DEF B, S
  <2>3. /\ s \in Seq(S) /\ Len(s) = IF 1 <= k THEN k - 1 + 1 ELSE 0
        /\ \A i \in 1..(k - 1 + 1) : s[i] = B[1 + i - 1]
    BY <1>1, <2>1, <2>2, SubSeqProperties
  <2> HIDE DEF s
  <2>4. s \in [1..k -> S] /\ \A i \in 1..k : s[i] = B[i]
    BY <1>1, <2>3
  <2>5. \A i \in 1..k : s[i] = C[i]
    BY <2>2, <2>4
  <2> QED BY <2>4, <2>5 DEF s
<1>6. \A d \in Profile.physical : 1 + d.cvOffset \in 1..k
  BY <1>1, RowsAssumption DEF WellLaid, Placed
<1>7. \A d, e \in Profile.physical : d.id = e.id => d = e
  BY RowsAssumption DEF WellLaid, Placed
<1>8. \A d \in Profile.physical : C[1 + d.cvOffset] = tab[OutputCell(Profile, r, 1 + d.cvOffset)]
  BY <1>6
<1> HIDE DEF C
<1>9. /\ DecodeBits(Profile.physical, C) \subseteq {d.id : d \in Profile.physical}
      /\ \A d \in Profile.physical :
           d.id \in DecodeBits(Profile.physical, C) <=> Bit(C[1 + d.cvOffset], d.bit) = 1
  BY <1>7 DEF DecodeBits
<1> QED BY <1>2, <1>4, <1>5, <1>8, <1>9

LEMMA FirstOf ==
  ASSUME NEW a, NEW b, NEW c, Sequence(a), Sequence(b), Sequence(c)
  PROVE  \A i \in DOMAIN a : ((a \o b) \o c)[i] = a[i]
<1> TAKE i \in DOMAIN a
<1> DEFINE A == {a[j] : j \in DOMAIN a}
           B == {b[j] : j \in DOMAIN b}
           C == {c[j] : j \in DOMAIN c}
           S == A \cup B \cup C
<1>1. a \in Seq(A) /\ b \in Seq(B) /\ c \in Seq(C)
  BY DEF Sequence
<1>2. A \subseteq S /\ B \subseteq S /\ C \subseteq S
  OBVIOUS
<1> HIDE DEF A, B, C, S
<1>3. a \in Seq(S) /\ b \in Seq(S) /\ c \in Seq(S)
  BY <1>1, <1>2, Widened
<1>4. a \o b \in Seq(S) /\ Len(a \o b) = Len(a) + Len(b) /\ (a \o b)[i] = a[i]
      /\ i \in 1..Len(a) /\ Len(a) \in Nat /\ Len(b) \in Nat
  BY <1>3
<1> QED BY <1>3, <1>4

\* What is written to the cells of a row.
LEMMA EntriesAre ==
  ASSUME NEW r \in Rows(Profile), NEW row
  PROVE  LET e == RowEntries(Profile, r, row)
         IN  /\ DOMAIN e = PagesForRows(Profile, {r})
             /\ \A i \in 1..Profile.conditionCvCount :
                  e[ConditionCell(Profile, r, i)] = EncodeConditions(Profile, row.conditions)[i]
             /\ \A i \in 1..Profile.physicalCvCount :
                  e[OutputCell(Profile, r, i)] =
                    EncodeBits(Profile.physical, Profile.physicalCvCount, row.physical)[i]
<1> DEFINE e == RowEntries(Profile, r, row)
           encoded == EncodeRow(Profile, row)
           n == Profile.conditionCvCount
           m == OutputCvCount(Profile)
           k == Profile.physicalCvCount
           CC == ConditionCells(Profile, r)
           OC == OutputCells(Profile, r)
           cs == RowLayout(Profile, r).conditionStart
           os == RowLayout(Profile, r).outputStart
<1>1. n \in Nat /\ m \in Nat /\ k \in Nat /\ k <= m
  BY NumbersAre DEF Numbers
<1>2. e = [c \in CC \cup OC |-> IF c \in CC THEN encoded.conditions[c[2] - cs + 1]
                                ELSE encoded.outputs[c[2] - os + 1]]
  BY DEF RowEntries
<1>3. cs \in Int /\ os \in Int
  <2>1. r \in Nat
    BY NumbersAre DEF Numbers, Rows
  <2>2. (r - 1) % 16 \in Int
    BY <2>1
  <2> HIDE DEF n
  <2>3. cs = 257 + ((r - 1) % 16) * 16
        /\ os = IF Profile.split THEN 257 + ((r - 1) % 16) * 16 ELSE 257 + ((r - 1) % 16) * 16 + n
    BY DEF RowLayout, RowCvStart, INDEXED_CV_START, ROW_STRIDE, ROWS_PER_PAGE, n
  <2> HIDE DEF cs, os
  <2> QED BY <1>1, <2>2, <2>3
<1>4. CC \cup OC = PagesForRows(Profile, {r})
  BY DEF PagesForRows
<1>5. \A i \in 1..n : ConditionCell(Profile, r, i) \in CC
                      /\ ConditionCell(Profile, r, i)[2] = cs + i - 1
  BY DEF ConditionCells, ConditionCell
<1>6. \A i \in 1..m : OutputCell(Profile, r, i) \in OC /\ OutputCell(Profile, r, i)[2] = os + i - 1
  BY DEF OutputCells, OutputCell
<1>7. \A i \in 1..m : OutputCell(Profile, r, i) \notin CC
  BY CellsApart DEF ConditionCells
<1>8. encoded.conditions = EncodeConditions(Profile, row.conditions)
  BY DEF EncodeRow
<1> DEFINE a == EncodeBits(Profile.physical, k, row.physical)
           b == EncodeBits(Profile.logicFns, Profile.logicCvCount, row.logic)
           c == EncodeSlots(Profile.slotCount, row.slots)
<1>9. encoded.outputs = (a \o b) \o c
  BY DEF EncodeRow
<1>10. Sequence(a) /\ Sequence(b) /\ Sequence(c) /\ DOMAIN a = 1..k
  <2>1. Profile.logicCvCount \in Nat /\ (Profile.slotCount + 7) \div 8 \in Nat
    <3>1. Profile.logicCvCount \in Nat /\ Profile.slotCount \in Nat
      BY RowsAssumption DEF WellLaid
    <3> QED BY <3>1
  <2>2. ASSUME NEW defs, NEW count \in Nat, NEW ids
        PROVE  Sequence(EncodeBits(defs, count, ids)) /\ DOMAIN EncodeBits(defs, count, ids) = 1..count
    <3> DEFINE s == EncodeBits(defs, count, ids)
    <3>1. s = [i \in 1..count |-> s[i]]
      BY DEF EncodeBits
    <3> HIDE DEF s
    <3>2. Sequence(s) /\ DOMAIN s = 1..count
      BY <3>1, Indexed
    <3> QED BY <3>2 DEF s
  <2> QED BY <1>1, <2>1, <2>2 DEF EncodeSlots
<1> HIDE DEF a, b, c, encoded, cs, os, CC, OC, n, m, k, e
<1>11. \A i \in 1..n : e[ConditionCell(Profile, r, i)] = encoded.conditions[i]
  <2> TAKE i \in 1..n
  <2> DEFINE x == ConditionCell(Profile, r, i)
  <2>1. x \in CC /\ x[2] = cs + i - 1
    BY <1>5
  <2> HIDE DEF x
  <2>2. e[x] = encoded.conditions[x[2] - cs + 1]
    BY <1>2, <2>1
  <2>3. x[2] - cs + 1 = i
    BY <1>1, <1>3, <2>1
  <2> QED BY <2>2, <2>3 DEF x
<1>12. \A i \in 1..k : e[OutputCell(Profile, r, i)] = a[i]
  <2> TAKE i \in 1..k
  <2>0. i \in 1..m
    BY <1>1
  <2> DEFINE x == OutputCell(Profile, r, i)
  <2>1. x \in OC /\ x \notin CC /\ x[2] = os + i - 1
    BY <1>6, <1>7, <2>0
  <2> HIDE DEF x
  <2>2. e[x] = encoded.outputs[x[2] - os + 1]
    BY <1>2, <2>1
  <2>3. x[2] - os + 1 = i
    BY <1>1, <1>3, <2>1
  <2>4. i \in DOMAIN a
    BY <1>10
  <2>5. encoded.outputs[i] = a[i]
    <3>1. \A j \in DOMAIN a : ((a \o b) \o c)[j] = a[j]
      BY <1>10, FirstOf
    <3> QED BY <1>9, <2>4, <3>1
  <2> QED BY <2>2, <2>3, <2>5 DEF x
<1>13. DOMAIN e = CC \cup OC
  BY <1>2
<1> QED BY <1>4, <1>8, <1>11, <1>12, <1>13 DEF e, n, k, a

\* A table that has what is written for a row has that row.
LEMMA ReadBack ==
  ASSUME NEW r \in Rows(Profile), NEW row, NEW tab,
         row.conditions \in [Profile.conditions -> CondStates],
         row.physical \subseteq {d.id : d \in Profile.physical},
         \A c \in PagesForRows(Profile, {r}) : tab[c] = RowEntries(Profile, r, row)[c]
  PROVE  /\ ReadRow(Profile, r, tab).conditions = row.conditions
         /\ RowPhysicalIds(Profile, r, tab) = row.physical
<1> DEFINE e == RowEntries(Profile, r, row)
           n == Profile.conditionCvCount
           m == OutputCvCount(Profile)
           k == Profile.physicalCvCount
<1>1. n \in Nat /\ m \in Nat /\ k \in Nat /\ k <= m
  BY NumbersAre DEF Numbers
<1>2. /\ \A i \in 1..n : tab[ConditionCell(Profile, r, i)] = EncodeConditions(Profile, row.conditions)[i]
      /\ \A i \in 1..k : tab[OutputCell(Profile, r, i)] =
                           EncodeBits(Profile.physical, k, row.physical)[i]
  <2>1. \A i \in 1..n : ConditionCell(Profile, r, i) \in PagesForRows(Profile, {r})
    BY DEF PagesForRows, ConditionCells
  <2>2. \A i \in 1..k : OutputCell(Profile, r, i) \in PagesForRows(Profile, {r})
    <3>1. \A i \in 1..k : i \in 1..m
      BY <1>1
    <3> QED BY <3>1 DEF PagesForRows, OutputCells
  <2>3. /\ \A i \in 1..n : e[ConditionCell(Profile, r, i)] = EncodeConditions(Profile, row.conditions)[i]
        /\ \A i \in 1..k : e[OutputCell(Profile, r, i)] =
                             EncodeBits(Profile.physical, k, row.physical)[i]
    BY EntriesAre
  <2> HIDE DEF e, n, k
  <2> QED BY <2>1, <2>2, <2>3 DEF e, n, k
<1>3. \A c \in Profile.conditions : 1 + (c \div 4) \in 1..n
  <2>1. Profile.conditions \subseteq 0..(4 * n - 1)
    BY RowsAssumption DEF WellLaid
  <2> HIDE DEF n
  <2> QED BY <1>1, <2>1
<1>4. ReadRow(Profile, r, tab).conditions = row.conditions
  <2> DEFINE f == ReadRow(Profile, r, tab).conditions
  <2>1. \A c \in Profile.conditions :
          UnpackPair(EncodeConditions(Profile, row.conditions)[1 + (c \div 4)], c % 4)
            = row.conditions[c]
    BY <1>3, ConditionsBack
  <2>2. f = [c \in Profile.conditions |-> row.conditions[c]]
    <3>1. f = [c \in Profile.conditions |->
                 UnpackPair(tab[ConditionCell(Profile, r, 1 + (c \div 4))], c % 4)]
      BY RowIs
    <3> HIDE DEF f
    <3> QED BY <1>2, <1>3, <2>1, <3>1
  <2> QED BY <2>2
<1>5. RowPhysicalIds(Profile, r, tab) = row.physical
  <2>1. \A d \in Profile.physical : 1 + d.cvOffset \in 1..k
    BY <1>1, RowsAssumption DEF WellLaid, Placed
  <2>0. /\ RowPhysicalIds(Profile, r, tab) \subseteq {d.id : d \in Profile.physical}
        /\ \A d \in Profile.physical :
             d.id \in RowPhysicalIds(Profile, r, tab) <=>
               Bit(tab[OutputCell(Profile, r, 1 + d.cvOffset)], d.bit) = 1
    BY RowIs
  <2>2. \A d \in Profile.physical :
          d.id \in RowPhysicalIds(Profile, r, tab) <=> d.id \in row.physical
    <3> TAKE d \in Profile.physical
    <3>1. tab[OutputCell(Profile, r, 1 + d.cvOffset)] =
            EncodeBits(Profile.physical, k, row.physical)[1 + d.cvOffset]
      BY <1>2, <2>1
    <3>2. Bit(EncodeBits(Profile.physical, k, row.physical)[1 + d.cvOffset], d.bit) = 1
            <=> d.id \in row.physical
      BY BitsBack
    <3> QED BY <2>0, <3>1, <3>2
  <2>3. \A x \in RowPhysicalIds(Profile, r, tab) : x \in row.physical
    BY <2>0, <2>2
  <2>4. \A x \in row.physical : x \in RowPhysicalIds(Profile, r, tab)
    BY <2>2
  <2> QED BY <2>3, <2>4
<1> QED BY <1>4, <1>5

-----------------------------------------------------------------------------
(* What an assignment plans, and what it leaves.                           *)

\* The row the user lets an assignment change drives this output alone, or
\* nothing, and no other row drives it; afterwards the key is its only one.
Planned(tab, o, f, r, next) ==
  /\ r \in Rows(Profile) /\ AllPhysicalRead(Profile, tab) /\ RowRead(Profile, r, tab)
  /\ RowPhysicalIds(Profile, r, tab) \subseteq {o}
  /\ \A q \in Rows(Profile) \ {r} : o \notin RowPhysicalIds(Profile, q, tab)
  /\ next.conditions \in [Profile.conditions -> CondStates]
  /\ next.physical = {o} /\ KeysOn(Profile, next) = {f}

LEMMA KeyOn ==
  ASSUME NEW row, NEW S, NEW T, NEW U, NEW V, NEW f \in Profile.keys,
         row \in [conditions : {S}, physical : {T}, logic : {U}, slots : {V}],
         S \in [Profile.conditions -> CondStates]
  PROVE  LET next == WithFKeyOn(Profile, row, f)
         IN  /\ next.conditions \in [Profile.conditions -> CondStates]
             /\ next.physical = T /\ KeysOn(Profile, next) = {f}
<1> DEFINE on == [c \in Profile.conditions |->
                    IF c = Key(f) THEN "on"
                    ELSE IF \E n \in Profile.keys : c = Key(n) THEN "ignore"
                    ELSE S[c]]
           next == WithFKeyOn(Profile, row, f)
<1>1. row.conditions = S
  OBVIOUS
<1>2. next = [row EXCEPT !.conditions = on]
  BY <1>1 DEF WithFKeyOn
<1>3. on \in [Profile.conditions -> CondStates]
  BY DEF CondStates
<1>4. Profile.keys \subseteq Nat /\ \A n \in Profile.keys : Key(n) \in Profile.conditions
  BY RowsAssumption DEF WellLaid
<1>5. \A n \in Profile.keys : on[Key(n)] = "on" <=> n = f
  <2> TAKE n \in Profile.keys
  <2>1. Key(n) = Key(f) <=> n = f
    BY <1>4 DEF Key
  <2> QED BY <1>4, <2>1
<1> HIDE DEF on
<1>6. next.conditions = on /\ next.physical = T
  BY <1>2
<1> HIDE DEF next
<1>7. KeysOn(Profile, next) = {f}
  BY <1>5, <1>6 DEF KeysOn
<1> QED BY <1>3, <1>6, <1>7 DEF next

LEMMA PlanIs ==
  ASSUME NEW tab, NEW o, NEW f \in Profile.keys,
         PlanCouplerFAssign(Profile, o, f, tab).kind = "apply"
  PROVE  LET plan == PlanCouplerFAssign(Profile, o, f, tab)
         IN  Planned(tab, o, f, plan.row, plan.next)
<1> DEFINE state == CouplerFState(Profile, o, tab)
           empty == EmptyRowCandidate(Profile, tab)
           plan == PlanCouplerFAssign(Profile, o, f, tab)
           matching == RowsContainingPhysical(Profile, o, tab)
           C == Candidates(Profile, tab)
<1>1. state.kind \in {"unread", "none", "simple", "complex"}
  BY DEF CouplerFState
<1>2. Profile.rowCount \in Nat /\ IsFiniteSet(Rows(Profile)) /\ Rows(Profile) = 1..Profile.rowCount
  <2>1. Profile.rowCount \in Nat /\ Rows(Profile) = 1..Profile.rowCount
    BY NumbersAre DEF Numbers, Rows
  <2>2. IsFiniteSet(1..Profile.rowCount)
    BY <2>1, FiniteRange
  <2> QED BY <2>1, <2>2
<1>3. matching \subseteq Rows(Profile) /\ IsFiniteSet(matching)
      /\ \A q \in Rows(Profile) : q \in matching <=> o \in RowPhysicalIds(Profile, q, tab)
  BY <1>2, FS_Subset DEF RowsContainingPhysical
<1>4. CASE state.kind = "simple"
  <2>1. /\ plan.row = state.row /\ plan.next = WithFKeyOn(Profile, ReadRow(Profile, state.row, tab), f)
    BY <1>4 DEF PlanCouplerFAssign
  <2>2. /\ AllPhysicalRead(Profile, tab) /\ Cardinality(matching) = 1
        /\ \A r \in matching : RowRead(Profile, r, tab) /\ RowPhysicalIds(Profile, r, tab) = {o}
        /\ state.row = CHOOSE r \in matching : TRUE
    BY <1>4 DEF CouplerFState
  <2>3. PICK r : matching = {r}
    <3> HIDE DEF matching
    <3> QED BY <1>3, <2>2, FS_Singleton
  <2>4. plan.row = r /\ r \in Rows(Profile)
    BY <1>3, <2>1, <2>2, <2>3
  <2> DEFINE row == ReadRow(Profile, r, tab)
  <2>5. /\ row \in [conditions : {row.conditions}, physical : {row.physical},
                    logic : {row.logic}, slots : {row.slots}]
    BY DEF ReadRow, DecodeRow
  <2>6. row.conditions \in [Profile.conditions -> CondStates] /\ row.physical = {o}
    <3>1. row.physical = {o}
      BY <2>2, <2>3, RowIs
    <3>2. row.conditions = [c \in Profile.conditions |->
                              UnpackPair(tab[ConditionCell(Profile, r, 1 + (c \div 4))], c % 4)]
      BY RowIs
    <3>3. \A v, i : UnpackPair(v, i) \in CondStates
      BY DEF UnpackPair, CondStates
    <3> HIDE DEF row
    <3> QED BY <3>1, <3>2, <3>3
  <2> HIDE DEF row
  <2>7. /\ plan.next.conditions \in [Profile.conditions -> CondStates]
        /\ plan.next.physical = {o} /\ KeysOn(Profile, plan.next) = {f}
    <3>1. plan.next = WithFKeyOn(Profile, row, f)
      BY <2>1, <2>4 DEF row
    <3> HIDE DEF plan
    <3> QED BY <2>5, <2>6, <3>1, KeyOn
  <2>8. RowRead(Profile, r, tab) /\ RowPhysicalIds(Profile, r, tab) = {o}
        /\ \A q \in Rows(Profile) \ {r} : o \notin RowPhysicalIds(Profile, q, tab)
    BY <1>3, <2>2, <2>3
  <2> HIDE DEF plan, matching, state
  <2> QED BY <2>2, <2>4, <2>7, <2>8 DEF Planned, plan
<1>5. CASE state.kind = "none"
  <2>1. empty.kind = "found"
    BY <1>5 DEF PlanCouplerFAssign
  <2>2. /\ plan.row = empty.row
        /\ plan.next = WithFKeyOn(Profile, [EmptyRow(Profile) EXCEPT !.physical = {o}], f)
    BY <1>5, <2>1 DEF PlanCouplerFAssign
  <2>3. AllPhysicalRead(Profile, tab) /\ matching = {}
    BY <1>5 DEF CouplerFState
  <2> DEFINE r == empty.row
  <2>4. C # {} /\ r = Max(C) /\ RowRead(Profile, Max(C), tab)
    BY <2>1 DEF EmptyRowCandidate
  <2>5. r \in C /\ r \in Rows(Profile) /\ RowRead(Profile, r, tab)
    <3>1. C \subseteq Rows(Profile)
      BY DEF Candidates
    <3> HIDE DEF C, r
    <3>2. Max(C) \in C
      BY <1>2, <2>4, <3>1, Greatest
    <3> QED BY <2>4, <3>1, <3>2
  <2>6. PhysicalRead(Profile, r, tab)
    <3>1. PhysicalCells(Profile, r) \subseteq PagesForRows(Profile, {r})
      <4>1. \A i \in 1..Profile.physicalCvCount : i \in 1..OutputCvCount(Profile)
        BY NumbersAre DEF Numbers
      <4> QED BY <4>1 DEF PhysicalCells, PagesForRows, OutputCells
    <3> QED BY <2>5, <3>1 DEF PhysicalRead, RowRead, PagesLoaded
  <2>7. RowPhysicalIds(Profile, r, tab) = {}
    BY <2>5, <2>6 DEF Candidates
  <2> DEFINE on == [c \in Profile.conditions |-> "ignore"]
             row == [EmptyRow(Profile) EXCEPT !.physical = {o}]
  <2>8. row \in [conditions : {on}, physical : {{o}}, logic : {{}}, slots : {{}}]
    BY DEF EmptyRow
  <2>9. on \in [Profile.conditions -> CondStates]
    BY DEF CondStates
  <2> HIDE DEF on, row
  <2>10. /\ plan.next.conditions \in [Profile.conditions -> CondStates]
         /\ plan.next.physical = {o} /\ KeysOn(Profile, plan.next) = {f}
    <3>1. plan.next = WithFKeyOn(Profile, row, f)
      BY <2>2 DEF row
    <3> HIDE DEF plan
    <3> QED BY <2>8, <2>9, <3>1, KeyOn
  <2>11. \A q \in Rows(Profile) \ {r} : o \notin RowPhysicalIds(Profile, q, tab)
    BY <1>3, <2>3
  <2>12. plan.row = r
    BY <2>2
  <2> HIDE DEF plan, matching, state, empty, r
  <2> QED BY <2>3, <2>5, <2>7, <2>10, <2>11, <2>12 DEF Planned, plan
<1>6. CASE state.kind \in {"unread", "complex"}
  <2>1. plan.kind = state.kind
    BY <1>6 DEF PlanCouplerFAssign
  <2> QED BY <1>6, <2>1
<1> QED BY <1>1, <1>4, <1>5, <1>6

\* A row is what its cells say.
LEMMA SameIds ==
  ASSUME NEW q, NEW tab, NEW tab2,
         \A i \in 1..Profile.physicalCvCount :
           tab2[OutputCell(Profile, q, i)] = tab[OutputCell(Profile, q, i)]
  PROVE  RowPhysicalIds(Profile, q, tab2) = RowPhysicalIds(Profile, q, tab)
<1>1. [i \in 1..Profile.physicalCvCount |-> tab2[OutputCell(Profile, q, i)]] =
      [i \in 1..Profile.physicalCvCount |-> tab[OutputCell(Profile, q, i)]]
  OBVIOUS
<1> QED BY <1>1 DEF RowPhysicalIds

LEMMA RowsApart ==
  ASSUME NEW r \in Rows(Profile), NEW q \in Rows(Profile), r # q
  PROVE  PagesForRows(Profile, {r}) \cap PagesForRows(Profile, {q}) = {}
BY CellsApart DEF PagesForRows, ConditionCells, OutputCells

LEMMA PhysicalIn ==
  \A r \in Rows(Profile) : PhysicalCells(Profile, r) \subseteq PagesForRows(Profile, {r})
<1>1. \A i \in 1..Profile.physicalCvCount : i \in 1..OutputCvCount(Profile)
  BY NumbersAre DEF Numbers
<1> QED BY <1>1 DEF PhysicalCells, PagesForRows, OutputCells

LEMMA AssignHolds ==
  ASSUME NEW tab, NEW tab2, NEW o \in Outputs, NEW f, NEW r, NEW next,
         Planned(tab, o, f, r, next),
         Merged(tab, RowEntries(Profile, r, next), tab2)
  PROVE  LET state == CouplerFState(Profile, o, tab2)
         IN  /\ state.kind = "simple"
             /\ KeysOn(Profile, ReadRow(Profile, state.row, tab2)) = {f}
             /\ \A q \in Rows(Profile) :
                  RowPhysicalIds(Profile, q, tab) \ {o} # {} =>
                    \A c \in PagesForRows(Profile, {q}) \cap DOMAIN tab : tab2[c] = tab[c]
<1> DEFINE e == RowEntries(Profile, r, next)
           cells(q) == PagesForRows(Profile, {q})
           matching == RowsContainingPhysical(Profile, o, tab2)
<1>1. /\ r \in Rows(Profile) /\ AllPhysicalRead(Profile, tab) /\ RowRead(Profile, r, tab)
      /\ RowPhysicalIds(Profile, r, tab) \subseteq {o}
      /\ \A q \in Rows(Profile) \ {r} : o \notin RowPhysicalIds(Profile, q, tab)
      /\ next.conditions \in [Profile.conditions -> CondStates]
      /\ next.physical = {o} /\ KeysOn(Profile, next) = {f}
  BY DEF Planned
<1>2. DOMAIN e = cells(r)
  BY <1>1, EntriesAre
<1>3. /\ DOMAIN tab2 = DOMAIN tab \cup cells(r)
      /\ \A c \in cells(r) : tab2[c] = e[c]
      /\ \A c \in DOMAIN tab \ cells(r) : tab2[c] = tab[c]
  BY <1>2 DEF Merged
<1> HIDE DEF e
<1>4. {o} \subseteq {d.id : d \in Profile.physical}
  BY RowsAssumption DEF WellLaid, Outputs
<1>5. /\ ReadRow(Profile, r, tab2).conditions = next.conditions
      /\ RowPhysicalIds(Profile, r, tab2) = {o}
  <2>1. \A c \in PagesForRows(Profile, {r}) : tab2[c] = RowEntries(Profile, r, next)[c]
    BY <1>3 DEF e
  <2>2. next.physical \subseteq {d.id : d \in Profile.physical}
    BY <1>1, <1>4
  <2>3. ReadRow(Profile, r, tab2).conditions = next.conditions
        /\ RowPhysicalIds(Profile, r, tab2) = next.physical
    BY <1>1, <2>1, <2>2, ReadBack
  <2> QED BY <1>1, <2>3
<1>6. \A q \in Rows(Profile) \ {r} : cells(q) \cap cells(r) = {}
  BY <1>1, RowsApart
<1>7. \A q \in Rows(Profile) \ {r} : RowPhysicalIds(Profile, q, tab2) = RowPhysicalIds(Profile, q, tab)
  <2> TAKE q \in Rows(Profile) \ {r}
  <2>1. \A i \in 1..Profile.physicalCvCount : OutputCell(Profile, q, i) \in DOMAIN tab \cap cells(q)
    <3>1. PhysicalCells(Profile, q) \subseteq DOMAIN tab
      BY <1>1 DEF AllPhysicalRead, PhysicalScanPages, PagesLoaded
    <3>2. PhysicalCells(Profile, q) \subseteq cells(q)
      BY PhysicalIn
    <3>3. \A i \in 1..Profile.physicalCvCount : OutputCell(Profile, q, i) \in PhysicalCells(Profile, q)
      BY DEF PhysicalCells
    <3> HIDE DEF cells
    <3> QED BY <3>1, <3>2, <3>3
  <2>2. cells(q) \cap cells(r) = {}
    BY <1>6
  <2> HIDE DEF cells
  <2>3. \A i \in 1..Profile.physicalCvCount :
          tab2[OutputCell(Profile, q, i)] = tab[OutputCell(Profile, q, i)]
    BY <1>3, <2>1, <2>2
  <2> QED BY <2>3, SameIds
<1>8. matching = {r}
  BY <1>1, <1>5, <1>7 DEF RowsContainingPhysical
<1>9. AllPhysicalRead(Profile, tab2)
  BY <1>1, <1>3 DEF AllPhysicalRead, PagesLoaded
<1>10. RowRead(Profile, r, tab2)
  BY <1>3 DEF RowRead, PagesLoaded
<1>11. Cardinality(matching) = 1
  BY <1>8, FS_Singleton
<1> HIDE DEF matching
<1>12. CouplerFState(Profile, o, tab2) = [kind |-> "simple", row |-> CHOOSE x \in matching : TRUE]
  BY <1>5, <1>8, <1>9, <1>10, <1>11 DEF CouplerFState, matching
<1>13. (CHOOSE x \in matching : TRUE) = r
  BY <1>8
<1>14. CouplerFState(Profile, o, tab2).kind = "simple" /\ CouplerFState(Profile, o, tab2).row = r
  BY <1>12, <1>13
<1>15. KeysOn(Profile, ReadRow(Profile, r, tab2)) = {f}
  BY <1>1, <1>5 DEF KeysOn
<1>16. ASSUME NEW q \in Rows(Profile), RowPhysicalIds(Profile, q, tab) \ {o} # {},
              NEW c \in cells(q) \cap DOMAIN tab
       PROVE  tab2[c] = tab[c]
  <2>1. q # r
    BY <1>1, <1>16
  <2>2. c \notin cells(r)
    BY <1>6, <1>16, <2>1
  <2> HIDE DEF cells
  <2> QED BY <1>3, <1>16, <2>2
<1> QED BY <1>14, <1>15, <1>16

LEMMA SetMerged ==
  ASSUME NEW st, StoreShape(st), NEW e
  PROVE  Merged(st.snap.table, e, SetMany(st, e).snap.table)
<1> DEFINE t == Put(st.snap.table, e)
           s == [st.snap EXCEPT !.table = t]
<1>1. CASE \A k \in DOMAIN e : k \in DOMAIN st.snap.table /\ st.snap.table[k] = e[k]
  <2>1. SetMany(st, e) = st
    BY <1>1 DEF SetMany
  <2>2. DOMAIN st.snap.table = DOMAIN st.snap.table \cup DOMAIN e
    BY <1>1
  <2> QED BY <1>1, <2>1, <2>2 DEF Merged
<1>2. CASE ~ \A k \in DOMAIN e : k \in DOMAIN st.snap.table /\ st.snap.table[k] = e[k]
  <2>1. s = [scope |-> st.snap.scope, table |-> t, baseline |-> st.snap.baseline]
    BY DEF StoreShape, SnapShape
  <2>2. Merged(st.snap.table, e, t)
    BY PutMerged
  <2>3. SetMany(st, e) = Emit(st, s)
    BY <1>2 DEF SetMany
  <2> HIDE DEF s, t
  <2>4. StoreShape(Emit(st, s)) /\ Emit(st, s).snap = s
    BY <2>1, Emitted DEF SnapShape
  <2> QED BY <2>1, <2>2, <2>3, <2>4
<1> QED BY <1>1, <1>2

\* What is staged is what the pages show.
LEMMA TabMerged ==
  ASSUME StoreShape(side), NEW e, side' = SetMany(side, e)
  PROVE  Merged(Tab, e, Tab')
<1> DEFINE t == side.snap.table
           b == side.snap.baseline
           t2 == side'.snap.table
           b2 == side'.snap.baseline
<1>1. Merged(t, e, t2) /\ b2 = b
  BY SetMerged, SetEffect
<1>2. Merged(b, t, Tab) /\ Merged(b2, t2, Tab')
  BY PutMerged DEF Tab
<1> HIDE DEF t, b, t2, b2
<1> QED BY <1>1, <1>2 DEF Merged

\* An assignment is for an output and a key there are, and a read for it runs only
\* as long as it is wanted.
WishInv ==
  /\ wish # NoWish => wish \in [out : Outputs, key : Profile.keys, turns : Nat]
  /\ job.why = "assign" => wish # NoWish

LEMMA JobWhy ==
  /\ NoJob.why = "none"
  /\ \A why, batches : Job(why, batches).why = why
  /\ \A why, pages : ReadJob(why, pages).why = why
BY DEF NoJob, Job, ReadJob

\* What an effect starts ends an assignment, unless it starts nothing.
LEMMA StartWish ==
  ASSUME WishInv, NEW why \in {"entry", "all", "show"}, NEW pages, Start(why, pages),
         wish' = IF job' = job THEN wish ELSE NoWish
  PROVE  WishInv'
<1>1. CASE job' = job
  BY <1>1 DEF WishInv, Outputs
<1>2. CASE job' # job
  <2>1. job'.why = why
    BY <1>2, JobWhy DEF Start
  <2> QED BY <1>2, <2>1 DEF WishInv
<1> QED BY <1>1, <1>2

LEMMA EndedWish ==
  ASSUME PagesInv, WishInv, Active, Ended
  PROVE  WishInv'
<1>1. CASE Len(job.todo) = 1
  <2>1. job'.why = "none"
    BY <1>1, JobWhy DEF Ended
  <2>2. wish' = IF job.why = "assign" THEN [wish EXCEPT !.turns = @ + 1] ELSE wish
    BY <1>1 DEF Ended
  <2>3. CASE job.why = "assign"
    <3>1. wish \in [out : Outputs, key : Profile.keys, turns : Nat]
      BY <2>3 DEF WishInv
    <3>2. wish' \in [out : Outputs, key : Profile.keys, turns : Nat]
      BY <2>2, <2>3, <3>1
    <3> QED BY <2>1, <3>2 DEF WishInv, Outputs
  <2>4. CASE job.why # "assign"
    BY <2>1, <2>2, <2>4 DEF WishInv, Outputs
  <2> QED BY <2>3, <2>4
<1>2. CASE Len(job.todo) # 1
  <2>1. wish' = wish /\ job' = [job EXCEPT !.todo = Tail(@), !.cvs = Tail(job.todo)[1].cvs,
                                           !.errs = {}, !.hit = {}]
    BY <1>2 DEF Ended
  <2>2. job \in [why : Purposes, todo : {job.todo}, cvs : {job.cvs}, errs : {job.errs},
                 hit : {job.hit}]
    BY DEF PagesInv, Shapes, JobShape
  <2>3. job'.why = job.why
    BY <2>1, <2>2
  <2> QED BY <2>1, <2>3 DEF WishInv, Outputs
<1> QED BY <1>1, <1>2

LEMMA WishStep == PagesInv /\ WishInv /\ [Next]_vars => WishInv'
<1> SUFFICES ASSUME PagesInv, WishInv, [Next]_vars PROVE WishInv'
  OBVIOUS
<1>1. ASSUME NEW v \in Views, Goto(v) PROVE WishInv'
  BY <1>1, JobWhy DEF Goto, WishInv, Outputs
<1>2. CASE Effect
  BY <1>2, StartWish DEF Effect, EntryEffect, AllEffect, ShowEffect
<1>3. CASE ReadButton
  BY <1>3, JobWhy DEF ReadButton, WishInv, Outputs
<1>4. CASE Apply
  BY <1>4, JobWhy DEF Apply, WishInv, Outputs
<1>5. CASE Edit
  BY <1>5 DEF Edit, EditCondition, EditPhysical, EditRow, EditMode, DiscardChanges, WishInv, Outputs
<1>6. CASE Assign
  <2>1. ASSUME NEW o \in Outputs, NEW f \in Profile.keys, AssignF(o, f) PROVE WishInv'
    <3>1. wish' = [out |-> o, key |-> f, turns |-> 0] /\ job' = job /\ job.why = "none"
      BY <2>1, JobWhy DEF AssignF, Idle
    <3>2. wish' \in [out : Outputs, key : Profile.keys, turns : Nat]
      BY <3>1
    <3> QED BY <3>1, <3>2 DEF WishInv, Outputs
  <2>2. CASE AssignReads
    BY <2>2 DEF AssignReads, WishInv, Outputs
  <2>3. CASE AssignPlans
    BY <2>3, JobWhy DEF AssignPlans, Active, WishInv
  <2> QED BY <1>6, <2>1, <2>2, <2>3 DEF Assign
<1>7. CASE WriteCv
  <2>1. job'.why = job.why
    BY <1>7, NextCv
  <2> QED BY <1>7, <2>1 DEF WriteCv, WishInv, Outputs
<1>8. CASE ReadPage
  BY <1>8, EndedWish DEF ReadPage
<1>9. CASE BatchDone
  BY <1>9, EndedWish DEF BatchDone
<1>10. CASE Stop
  BY <1>10, JobWhy DEF Stop, WishInv
<1>11. CASE UNCHANGED vars
  BY <1>11 DEF vars, WishInv, Outputs
<1> QED BY <1>1, <1>2, <1>3, <1>4, <1>5, <1>6, <1>7, <1>8, <1>9, <1>10, <1>11 DEF Next

LEMMA AlwaysWish == Spec => []WishInv
<1>1. Init => WishInv
  BY JobWhy DEF Init, WishInv
<1> QED BY <1>1, WishStep, AlwaysInv, PTL DEF Spec

\* An assignment that stages a row puts the coupler on the chosen key alone, and
\* leaves every row that drives another output as it was: for any profile, any
\* rows read in any order and any changes pending (esuCoupler.ts
\* planCouplerFAssign, esuMapping.ts rowEntries).
THEOREM AssignmentHolds == Spec => AssignTakesHold
<1>1. ASSUME PagesInv, WishInv, AssignPlans, side' # side
      PROVE  LET state == CouplerFState(Profile, wish.out, Tab')
             IN  /\ state.kind = "simple"
                 /\ KeysOn(Profile, ReadRow(Profile, state.row, Tab')) = {wish.key}
                 /\ \A r \in Rows(Profile) :
                      RowPhysicalIds(Profile, r, Tab) \ {wish.out} # {} =>
                        \A c \in PagesForRows(Profile, {r}) \cap DOMAIN Tab : Tab'[c] = Tab[c]
  <2> DEFINE plan == PlanCouplerFAssign(Profile, wish.out, wish.key, Tab)
  <2>1. /\ wish # NoWish /\ plan.kind = "apply"
        /\ side' = SetMany(side, RowEntries(Profile, plan.row, plan.next))
    BY <1>1 DEF AssignPlans, Stage
  <2>2. wish.out \in Outputs /\ wish.key \in Profile.keys
    BY <1>1, <2>1 DEF WishInv
  <2>3. Planned(Tab, wish.out, wish.key, plan.row, plan.next)
    BY <2>1, <2>2, PlanIs
  <2>4. Merged(Tab, RowEntries(Profile, plan.row, plan.next), Tab')
    BY <1>1, <2>1, TabMerged DEF PagesInv, Shapes
  <2> HIDE DEF plan
  <2> QED BY <2>2, <2>3, <2>4, AssignHolds
<1>2. PagesInv /\ WishInv =>
        [AssignPlans /\ side' # side =>
           LET state == CouplerFState(Profile, wish.out, Tab')
           IN  /\ state.kind = "simple"
               /\ KeysOn(Profile, ReadRow(Profile, state.row, Tab')) = {wish.key}
               /\ \A r \in Rows(Profile) :
                    RowPhysicalIds(Profile, r, Tab) \ {wish.out} # {} =>
                      \A c \in PagesForRows(Profile, {r}) \cap DOMAIN Tab : Tab'[c] = Tab[c]]_vars
  BY <1>1
<1> QED BY <1>2, AlwaysInv, AlwaysWish, PTL DEF AssignTakesHold

-----------------------------------------------------------------------------
(* What is staged, sent or known disturbs no output but those touched.     *)

\* Two values of the i-th CV of outputs, or of conditions, of a row.
PhysAlike(t, v, w, i) ==
  \A d \in Profile.physical :
    1 + d.cvOffset = i /\ d.id \notin t => (Bit(v, d.bit) = 1 <=> Bit(w, d.bit) = 1)
CondAlike(v, w, i) ==
  \A c \in Profile.conditions : 1 + (c \div 4) = i => UnpackPair(v, c % 4) = UnpackPair(w, c % 4)

\* With v in this cell outputs other than t are on when they are with m.
Harmless(m, t, c, v) ==
  \A r \in Rows(Profile) :
    /\ \A i \in 1..Profile.physicalCvCount :
         c = OutputCell(Profile, r, i) => PhysAlike(t, v, m[c], i)
    /\ \A i \in 1..Profile.conditionCvCount :
         c = ConditionCell(Profile, r, i) /\ RowPhysicalIds(Profile, r, m) \ t # {} =>
           CondAlike(v, m[c], i)

LEMMA HarmlessAsIs == ASSUME NEW m, NEW t, NEW c PROVE Harmless(m, t, c, m[c])
BY DEF Harmless, PhysAlike, CondAlike

LEMMA HarmlessMore ==
  ASSUME NEW m, NEW t, NEW u, t \subseteq u, NEW c, NEW v, Harmless(m, t, c, v)
  PROVE  Harmless(m, u, c, v)
<1> SUFFICES ASSUME NEW r \in Rows(Profile)
             PROVE  /\ \A i \in 1..Profile.physicalCvCount :
                         c = OutputCell(Profile, r, i) => PhysAlike(u, v, m[c], i)
                    /\ \A i \in 1..Profile.conditionCvCount :
                         c = ConditionCell(Profile, r, i) /\ RowPhysicalIds(Profile, r, m) \ u # {} =>
                           CondAlike(v, m[c], i)
  BY DEF Harmless
<1>1. \A i : PhysAlike(t, v, m[c], i) => PhysAlike(u, v, m[c], i)
  BY DEF PhysAlike
<1>2. RowPhysicalIds(Profile, r, m) \ u # {} => RowPhysicalIds(Profile, r, m) \ t # {}
  OBVIOUS
<1> QED BY <1>1, <1>2 DEF Harmless

\* The mode of an output is in no row.
LEMMA HarmlessMode == ASSUME NEW m, NEW t, NEW cv, NEW v PROVE Harmless(m, t, <<0, cv>>, v)
<1>1. \A r \in Rows(Profile) : \A i : ConditionCell(Profile, r, i) # <<0, cv>>
                                      /\ OutputCell(Profile, r, i) # <<0, cv>>
  <2> TAKE r \in Rows(Profile)
  <2> TAKE i
  <2>1. ConditionCell(Profile, r, i)[1] # 0 /\ OutputCell(Profile, r, i)[1] # 0
    BY RowsOffPage
  <2> QED BY <2>1
<1> QED BY <1>1 DEF Harmless

LEMMA RowCells ==
  ASSUME NEW r \in Rows(Profile)
  PROVE  /\ \A i \in 1..Profile.conditionCvCount : ConditionCell(Profile, r, i) \in Cells
         /\ \A i \in 1..Profile.physicalCvCount : OutputCell(Profile, r, i) \in Cells
<1>1. \A i \in 1..Profile.conditionCvCount :
        ConditionCell(Profile, r, i) \in PagesForRows(Profile, {r})
  BY DEF PagesForRows, ConditionCells
<1>2. \A i \in 1..Profile.physicalCvCount :
        OutputCell(Profile, r, i) \in PagesForRows(Profile, {r})
  BY PhysicalIn DEF PhysicalCells
<1> QED BY <1>1, <1>2, RowMapped, MappedCells

\* A harmless value in its cell: the same outputs are on as before, and what was
\* harmless is.
LEMMA HarmlessWrite ==
  ASSUME NEW m, NEW t, NEW x, NEW w, Harmless(m, t, x, w), NEW n,
         \A c \in Cells : n[c] = IF c = x THEN w ELSE m[c]
  PROVE  /\ \A r \in Rows(Profile) : RowPhysicalIds(Profile, r, n) \ t = RowPhysicalIds(Profile, r, m) \ t
         /\ \A r \in Rows(Profile) : RowPhysicalIds(Profile, r, m) \ t # {} =>
              ReadRow(Profile, r, n).conditions = ReadRow(Profile, r, m).conditions
         /\ \A c, v : Harmless(m, t, c, v) => Harmless(n, t, c, v)
<1>0. /\ \A c \in Profile.conditions : 1 + (c \div 4) \in 1..Profile.conditionCvCount
      /\ \A d \in Profile.physical : 1 + d.cvOffset \in 1..Profile.physicalCvCount
  <2> DEFINE k == Profile.conditionCvCount
  <2>1. Profile.conditions \subseteq 0..(4 * k - 1) /\ k \in Nat /\ Profile.physicalCvCount \in Nat
        /\ \A d \in Profile.physical : d.cvOffset \in 0..(Profile.physicalCvCount - 1)
    BY RowsAssumption DEF WellLaid, Placed
  <2> HIDE DEF k
  <2>2. \A c \in Profile.conditions : 1 + (c \div 4) \in 1..k
    BY <2>1
  <2>3. \A d \in Profile.physical : 1 + d.cvOffset \in 1..Profile.physicalCvCount
    BY <2>1
  <2> QED BY <2>2, <2>3 DEF k
<1>1. ASSUME NEW r \in Rows(Profile), NEW i \in 1..Profile.physicalCvCount
      PROVE  PhysAlike(t, n[OutputCell(Profile, r, i)], m[OutputCell(Profile, r, i)], i)
  <2>1. OutputCell(Profile, r, i) \in Cells
    BY RowCells
  <2>2. CASE OutputCell(Profile, r, i) = x
    BY <2>1, <2>2 DEF Harmless
  <2>3. CASE OutputCell(Profile, r, i) # x
    BY <2>1, <2>3 DEF PhysAlike
  <2> QED BY <2>2, <2>3
<1>2. ASSUME NEW r \in Rows(Profile), NEW i \in 1..Profile.conditionCvCount,
             RowPhysicalIds(Profile, r, m) \ t # {}
      PROVE  CondAlike(n[ConditionCell(Profile, r, i)], m[ConditionCell(Profile, r, i)], i)
  <2>1. ConditionCell(Profile, r, i) \in Cells
    BY RowCells
  <2>2. CASE ConditionCell(Profile, r, i) = x
    BY <1>2, <2>1, <2>2 DEF Harmless
  <2>3. CASE ConditionCell(Profile, r, i) # x
    BY <2>1, <2>3 DEF CondAlike
  <2> QED BY <2>2, <2>3
<1>3. ASSUME NEW r \in Rows(Profile)
      PROVE  RowPhysicalIds(Profile, r, n) \ t = RowPhysicalIds(Profile, r, m) \ t
  <2> DEFINE all == {d.id : d \in Profile.physical}
             in(tab) == RowPhysicalIds(Profile, r, tab)
  <2>1. \A tab : /\ in(tab) \subseteq all
                 /\ \A d \in Profile.physical :
                      d.id \in in(tab) <=> Bit(tab[OutputCell(Profile, r, 1 + d.cvOffset)], d.bit) = 1
    BY RowIs
  <2> HIDE DEF in
  <2>2. ASSUME NEW d \in Profile.physical, d.id \notin t
        PROVE  d.id \in in(n) <=> d.id \in in(m)
    <3>1. PhysAlike(t, n[OutputCell(Profile, r, 1 + d.cvOffset)],
                       m[OutputCell(Profile, r, 1 + d.cvOffset)], 1 + d.cvOffset)
      BY <1>0, <1>1
    <3>2. Bit(n[OutputCell(Profile, r, 1 + d.cvOffset)], d.bit) = 1
            <=> Bit(m[OutputCell(Profile, r, 1 + d.cvOffset)], d.bit) = 1
      BY <2>2, <3>1 DEF PhysAlike
    <3> QED BY <2>1, <3>2
  <2>3. in(n) \ t \subseteq in(m) \ t /\ in(m) \ t \subseteq in(n) \ t
    BY <2>1, <2>2
  <2> QED BY <2>3 DEF in
<1>4. ASSUME NEW r \in Rows(Profile), RowPhysicalIds(Profile, r, m) \ t # {}
      PROVE  ReadRow(Profile, r, n).conditions = ReadRow(Profile, r, m).conditions
  <2> DEFINE cond(tab, c) == UnpackPair(tab[ConditionCell(Profile, r, 1 + (c \div 4))], c % 4)
  <2>1. \A c \in Profile.conditions : cond(n, c) = cond(m, c)
    <3> TAKE c \in Profile.conditions
    <3>1. CondAlike(n[ConditionCell(Profile, r, 1 + (c \div 4))],
                    m[ConditionCell(Profile, r, 1 + (c \div 4))], 1 + (c \div 4))
      BY <1>0, <1>2, <1>4
    <3> QED BY <3>1 DEF CondAlike
  <2>2. \A tab : ReadRow(Profile, r, tab).conditions = [c \in Profile.conditions |-> cond(tab, c)]
    BY RowIs
  <2> HIDE DEF cond
  <2> QED BY <2>1, <2>2
<1>5. ASSUME NEW c, NEW v, Harmless(m, t, c, v) PROVE Harmless(n, t, c, v)
  <2> SUFFICES ASSUME NEW r \in Rows(Profile)
               PROVE  /\ \A i \in 1..Profile.physicalCvCount :
                           c = OutputCell(Profile, r, i) => PhysAlike(t, v, n[c], i)
                      /\ \A i \in 1..Profile.conditionCvCount :
                           c = ConditionCell(Profile, r, i) /\ RowPhysicalIds(Profile, r, n) \ t # {}
                             => CondAlike(v, n[c], i)
    BY DEF Harmless
  <2>1. ASSUME NEW i \in 1..Profile.physicalCvCount, c = OutputCell(Profile, r, i)
        PROVE  PhysAlike(t, v, n[c], i)
    <3>1. PhysAlike(t, v, m[c], i)
      BY <1>5, <2>1 DEF Harmless
    <3>2. PhysAlike(t, n[c], m[c], i)
      BY <1>1, <2>1
    <3> QED BY <3>1, <3>2 DEF PhysAlike
  <2>2. ASSUME NEW i \in 1..Profile.conditionCvCount, c = ConditionCell(Profile, r, i),
               RowPhysicalIds(Profile, r, n) \ t # {}
        PROVE  CondAlike(v, n[c], i)
    <3>1. RowPhysicalIds(Profile, r, m) \ t # {}
      BY <1>3, <2>2
    <3>2. CondAlike(v, m[c], i)
      BY <1>5, <2>2, <3>1 DEF Harmless
    <3>3. CondAlike(n[c], m[c], i)
      BY <1>2, <2>2, <3>1
    <3> QED BY <3>2, <3>3 DEF CondAlike
  <2> QED BY <2>1, <2>2
<1> QED BY <1>3, <1>4, <1>5

\* What turns an output on, after a harmless write.
LEMMA DrivesAlike ==
  ASSUME NEW m, NEW t, NEW x, NEW w, Harmless(m, t, x, w), NEW n,
         \A c \in Cells : n[c] = IF c = x THEN w ELSE m[c],
         NEW o, o \notin t
  PROVE  Drives(n, o) = Drives(m, o)
<1>1. /\ \A r \in Rows(Profile) : RowPhysicalIds(Profile, r, n) \ t = RowPhysicalIds(Profile, r, m) \ t
      /\ \A r \in Rows(Profile) : RowPhysicalIds(Profile, r, m) \ t # {} =>
           ReadRow(Profile, r, n).conditions = ReadRow(Profile, r, m).conditions
  BY HarmlessWrite
<1>2. \A r \in Rows(Profile) : o \in RowPhysicalIds(Profile, r, n) <=> o \in RowPhysicalIds(Profile, r, m)
  BY <1>1
<1>3. RowsContainingPhysical(Profile, o, n) = RowsContainingPhysical(Profile, o, m)
  BY <1>2 DEF RowsContainingPhysical
<1>4. \A r \in RowsContainingPhysical(Profile, o, m) :
        ReadRow(Profile, r, n).conditions = ReadRow(Profile, r, m).conditions
  BY <1>1 DEF RowsContainingPhysical
<1> QED BY <1>3, <1>4 DEF Drives

AllHarmless(m, t, f) == \A c \in DOMAIN f : Harmless(m, t, c, f[c])

\* A row as it is staged: its outputs before and after are all touched.
LEMMA HarmlessRow ==
  ASSUME NEW r \in Rows(Profile), NEW row, NEW tab, NEW m, NEW t, NEW u, t \subseteq u,
         RowPhysicalIds(Profile, r, tab) \subseteq u, row.physical \subseteq u,
         RowRead(Profile, r, tab), AllHarmless(m, t, tab)
  PROVE  AllHarmless(m, u, RowEntries(Profile, r, row))
<1> DEFINE e == RowEntries(Profile, r, row)
<1>1. /\ DOMAIN e = PagesForRows(Profile, {r}) /\ PagesForRows(Profile, {r}) \subseteq DOMAIN tab
      /\ \A i \in 1..Profile.physicalCvCount :
           e[OutputCell(Profile, r, i)] =
             EncodeBits(Profile.physical, Profile.physicalCvCount, row.physical)[i]
  BY EntriesAre DEF RowRead, PagesLoaded
<1> HIDE DEF e
<1>2. ASSUME NEW d \in Profile.physical
      PROVE  LET c == OutputCell(Profile, r, 1 + d.cvOffset)
             IN  /\ c \in PagesForRows(Profile, {r}) /\ 1 + d.cvOffset \in 1..Profile.physicalCvCount
                 /\ d.id \notin u => Bit(m[c], d.bit) # 1 /\ Bit(e[c], d.bit) # 1
  <2> DEFINE i == 1 + d.cvOffset
             c == OutputCell(Profile, r, i)
  <2>1. i \in 1..Profile.physicalCvCount
    BY RowsAssumption DEF WellLaid, Placed
  <2> HIDE DEF i
  <2>2. c \in PagesForRows(Profile, {r})
    BY <2>1, PhysicalIn DEF PhysicalCells
  <2>3. PhysAlike(t, tab[c], m[c], i)
    <3>1. Harmless(m, t, c, tab[c])
      BY <1>1, <2>2 DEF AllHarmless
    <3> QED BY <2>1, <3>1 DEF Harmless
  <2>4. d.id \in RowPhysicalIds(Profile, r, tab) <=> Bit(tab[c], d.bit) = 1
    BY RowIs DEF i
  <2>5. Bit(e[c], d.bit) = 1 <=> d.id \in row.physical
    <3>1. e[c] = EncodeBits(Profile.physical, Profile.physicalCvCount, row.physical)[i]
      BY <1>1, <2>1
    <3> QED BY <3>1, BitsBack DEF i
  <2>6. d.id \notin u => Bit(m[c], d.bit) # 1 /\ Bit(e[c], d.bit) # 1
    BY <2>3, <2>4, <2>5 DEF PhysAlike, i
  <2> HIDE DEF c
  <2> QED BY <2>1, <2>2, <2>6 DEF c, i
<1>3. RowPhysicalIds(Profile, r, m) \subseteq u
  <2> SUFFICES ASSUME NEW x \in RowPhysicalIds(Profile, r, m) PROVE x \in u
    OBVIOUS
  <2>0. RowPhysicalIds(Profile, r, m) \subseteq {d.id : d \in Profile.physical}
    BY RowIs
  <2>1. PICK d \in Profile.physical : x = d.id
    BY <2>0
  <2>2. Bit(m[OutputCell(Profile, r, 1 + d.cvOffset)], d.bit) = 1
    BY <2>1, RowIs
  <2> QED BY <1>2, <2>1, <2>2
<1> SUFFICES ASSUME NEW c \in PagesForRows(Profile, {r}), NEW q \in Rows(Profile)
             PROVE  /\ \A i \in 1..Profile.physicalCvCount :
                         c = OutputCell(Profile, q, i) => PhysAlike(u, e[c], m[c], i)
                    /\ \A i \in 1..Profile.conditionCvCount :
                         c = ConditionCell(Profile, q, i) /\ RowPhysicalIds(Profile, q, m) \ u # {}
                           => CondAlike(e[c], m[c], i)
  BY <1>1 DEF AllHarmless, Harmless, e
<1>4. c \in PagesForRows(Profile, {q}) => q = r
  BY RowsApart
<1>5. ASSUME NEW i \in 1..Profile.physicalCvCount, c = OutputCell(Profile, q, i)
      PROVE  PhysAlike(u, e[c], m[c], i)
  <2>1. q = r
    BY <1>4, <1>5, PhysicalIn DEF PhysicalCells
  <2> QED BY <1>2, <1>5, <2>1 DEF PhysAlike
<1>6. ASSUME NEW i \in 1..Profile.conditionCvCount, c = ConditionCell(Profile, q, i)
      PROVE  RowPhysicalIds(Profile, q, m) \ u = {}
  <2>1. c \in PagesForRows(Profile, {q})
    BY <1>6 DEF PagesForRows, ConditionCells
  <2> QED BY <1>3, <1>4, <2>1
<1> QED BY <1>5, <1>6

LEMMA MergedHarmless ==
  ASSUME NEW m, NEW t, NEW a, NEW e, NEW b, Merged(a, e, b),
         AllHarmless(m, t, a), AllHarmless(m, t, e)
  PROVE  AllHarmless(m, t, b)
BY DEF Merged, AllHarmless

LEMMA AllMore ==
  ASSUME NEW m, NEW t, NEW u, t \subseteq u, NEW f, AllHarmless(m, t, f)
  PROVE  AllHarmless(m, u, f)
BY HarmlessMore DEF AllHarmless

\* The payloads of these batches.
Sends(m, t, todo) ==
  \A k \in DOMAIN todo : \A j \in 3..Len(todo[k].cvs) :
    Harmless(m, t, <<todo[k].cv32, todo[k].cvs[j].cv>>, todo[k].cvs[j].value)

\* As long as nothing was sent to a page other than the one meant, or read from one,
\* neither what the tab holds nor what it is sending disturbs an output that was
\* not touched.
OthersInv ==
  ~slipped =>
    /\ AllHarmless(mem, touched, side.snap.table)
    /\ AllHarmless(mem, touched, side.snap.baseline)
    /\ job.why = "apply" => Sends(mem, touched, job.todo)

\* The decoder is as it was, and what the job sends it was sending before.
LEMMA Quiet ==
  ASSUME OthersInv, mem' = mem, touched \subseteq touched', slipped => slipped',
         ~slipped' => AllHarmless(mem, touched', side'.snap.table),
         ~slipped' => AllHarmless(mem, touched', side'.snap.baseline),
         job'.why = "apply" =>
           job.why = "apply" /\ \A k \in DOMAIN job'.todo : \E l \in DOMAIN job.todo :
                                  job'.todo[k] = job.todo[l]
  PROVE  OthersInv'
<1> SUFFICES ASSUME ~slipped'
             PROVE  job'.why = "apply" => Sends(mem', touched', job'.todo)
  BY DEF OthersInv
<1>1. job.why = "apply" => Sends(mem, touched, job.todo)
  BY DEF OthersInv
<1>2. Sends(mem, touched, job.todo) => Sends(mem, touched', job.todo)
  BY HarmlessMore DEF Sends
<1>3. job'.why = "apply" /\ Sends(mem, touched', job.todo) => Sends(mem, touched', job'.todo)
  BY DEF Sends
<1> QED BY <1>1, <1>2, <1>3

\* A step that tells the tab nothing and sends nothing new.
LEMMA Untold ==
  ASSUME PagesInv, OthersInv, UNCHANGED <<mem, touched, slipped>>,
         side' = side \/ side' = Discard(side),
         job' = job \/ job'.why # "apply"
  PROVE  OthersInv'
<1>1. side' = Discard(side) => /\ side'.snap.table = side.snap.baseline
                               /\ side'.snap.baseline = side.snap.baseline
  BY DiscardEffect DEF PagesInv, Shapes
<1>2. ~slipped' => /\ AllHarmless(mem, touched', side'.snap.table)
                   /\ AllHarmless(mem, touched', side'.snap.baseline)
  BY <1>1 DEF OthersInv
<1>3. job'.why = "apply" =>
        job.why = "apply" /\ \A k \in DOMAIN job'.todo : \E l \in DOMAIN job.todo :
                               job'.todo[k] = job.todo[l]
  OBVIOUS
<1> QED BY <1>2, <1>3, Quiet

\* What the pages show is what the tab holds.
LEMMA TabHarmless ==
  ASSUME NEW m, NEW t, AllHarmless(m, t, side.snap.table), AllHarmless(m, t, side.snap.baseline)
  PROVE  AllHarmless(m, t, Tab)
BY PutMerged, MergedHarmless DEF Tab

LEMMA StagedHarmless ==
  ASSUME PagesInv, OthersInv, UNCHANGED <<mem, slipped, job>>, touched \subseteq touched',
         NEW e, side' = SetMany(side, e),
         ~slipped => AllHarmless(mem, touched', e)
  PROVE  OthersInv'
<1>1. /\ Merged(side.snap.table, e, side'.snap.table)
      /\ side'.snap.baseline = side.snap.baseline
  BY SetMerged, SetEffect DEF PagesInv, Shapes
<1>2. ~slipped => /\ AllHarmless(mem, touched', side.snap.table)
                  /\ AllHarmless(mem, touched', side.snap.baseline)
  BY AllMore DEF OthersInv
<1>3. ~slipped' => /\ AllHarmless(mem, touched', side'.snap.table)
                   /\ AllHarmless(mem, touched', side'.snap.baseline)
  BY <1>1, <1>2, MergedHarmless
<1>4. job'.why = "apply" =>
        job.why = "apply" /\ \A k \in DOMAIN job'.todo : \E l \in DOMAIN job.todo :
                               job'.todo[k] = job.todo[l]
  OBVIOUS
<1> QED BY <1>3, <1>4, Quiet

\* A row is staged.
LEMMA RowHarmless ==
  ASSUME PagesInv, OthersInv, UNCHANGED <<mem, slipped, job>>, touched \subseteq touched',
         NEW r \in Rows(Profile), NEW row, Stage(r, row), RowRead(Profile, r, Tab),
         RowPhysicalIds(Profile, r, Tab) \subseteq touched', row.physical \subseteq touched'
  PROVE  OthersInv'
<1>1. ~slipped => AllHarmless(mem, touched, Tab)
  BY TabHarmless DEF OthersInv
<1>2. ~slipped => AllHarmless(mem, touched', RowEntries(Profile, r, row))
  BY <1>1, HarmlessRow
<1> QED BY <1>2, StagedHarmless DEF Stage

LEMMA EditHarmless == ASSUME PagesInv, OthersInv, Edit PROVE OthersInv'
<1>1. ASSUME NEW r \in Rows(Profile), NEW row, EditRow(r, row) PROVE OthersInv'
  <2>1. /\ UNCHANGED <<mem, slipped, job>> /\ Stage(r, row) /\ RowRead(Profile, r, Tab)
        /\ touched' = touched \cup ReadRow(Profile, r, Tab).physical \cup row.physical
    BY <1>1 DEF EditRow, decoder
  <2>2. ReadRow(Profile, r, Tab).physical = RowPhysicalIds(Profile, r, Tab)
    BY RowIs
  <2>3. /\ touched \subseteq touched' /\ RowPhysicalIds(Profile, r, Tab) \subseteq touched'
        /\ row.physical \subseteq touched'
    BY <2>1, <2>2
  <2> QED BY <2>1, <2>3, RowHarmless
<1>2. ASSUME NEW r \in Rows(Profile), NEW c, EditCondition(r, c) PROVE OthersInv'
  BY <1>1, <1>2 DEF EditCondition
<1>3. ASSUME NEW r \in Rows(Profile), NEW o, EditPhysical(r, o) PROVE OthersInv'
  BY <1>1, <1>3 DEF EditPhysical
<1>4. ASSUME NEW o \in Profile.outputConfigs, NEW v, EditMode(o, v) PROVE OthersInv'
  <2> DEFINE e == One(<<0, o.modeCv>>, v)
  <2>1. /\ UNCHANGED <<mem, slipped, job, touched>> /\ side' = SetMany(side, e)
    BY <1>4 DEF EditMode, decoder, history
  <2>2. AllHarmless(mem, touched', e)
    BY HarmlessMode DEF AllHarmless, One
  <2> HIDE DEF e
  <2> QED BY <2>1, <2>2, StagedHarmless
<1>5. CASE DiscardChanges
  <2>1. UNCHANGED <<mem, touched, slipped>> /\ side' = Discard(side) /\ job' = job
    BY <1>5 DEF DiscardChanges, decoder, history
  <2> QED BY <2>1, Untold
<1> QED BY <1>2, <1>3, <1>4, <1>5 DEF Edit

LEMMA AssignHarmless == ASSUME PagesInv, WishInv, OthersInv, Assign PROVE OthersInv'
<1>1. ASSUME NEW o, NEW f, AssignF(o, f) PROVE OthersInv'
  <2>1. UNCHANGED <<mem, touched, slipped>> /\ side' = side /\ job' = job
    BY <1>1 DEF AssignF, decoder, history
  <2> QED BY <2>1, Untold
<1>2. CASE AssignReads
  <2>1. UNCHANGED <<mem, touched, slipped>> /\ side' = side /\ job'.why # "apply"
    BY <1>2, JobWhy DEF AssignReads, decoder, history
  <2> QED BY <2>1, Untold
<1>3. CASE AssignPlans
  <2> DEFINE plan == PlanCouplerFAssign(Profile, wish.out, wish.key, Tab)
  <2>1. /\ UNCHANGED <<mem, slipped, job>> /\ wish # NoWish
        /\ \/ plan.kind = "apply" /\ Stage(plan.row, plan.next)
                                  /\ touched' = touched \cup {wish.out}
           \/ side' = side /\ touched' = touched
    BY <1>3 DEF AssignPlans, decoder
  <2>2. CASE side' = side /\ touched' = touched
    BY <2>1, <2>2, Untold
  <2>3. CASE plan.kind = "apply" /\ Stage(plan.row, plan.next)
               /\ touched' = touched \cup {wish.out}
    <3>1. wish.key \in Profile.keys
      BY <2>1 DEF WishInv
    <3>2. Planned(Tab, wish.out, wish.key, plan.row, plan.next)
      BY <2>3, <3>1, PlanIs
    <3> HIDE DEF plan
    <3>3. /\ plan.row \in Rows(Profile) /\ RowRead(Profile, plan.row, Tab)
          /\ RowPhysicalIds(Profile, plan.row, Tab) \subseteq touched'
          /\ plan.next.physical \subseteq touched' /\ touched \subseteq touched'
      BY <2>3, <3>2 DEF Planned
    <3> QED BY <2>1, <2>3, <3>3, RowHarmless
  <2> QED BY <2>1, <2>2, <2>3
<1> QED BY <1>1, <1>2, <1>3 DEF Assign

\* What is sent is what is pending.
LEMMA ApplyHarmless == ASSUME PagesInv, OthersInv, Apply PROVE OthersInv'
<1> DEFINE diffs == Diffs(side)
           todo == WriteBatches(diffs)
<1>1. /\ UNCHANGED <<mem, touched, slipped, side>> /\ job' = Job("apply", todo)
      /\ DOMAIN diffs # {}
  BY DEF Apply, decoder, history, Pending
<1>2. /\ DOMAIN diffs \subseteq DOMAIN side.snap.table /\ DOMAIN diffs \subseteq Cells
      /\ \A c \in DOMAIN diffs : diffs[c] = side.snap.table[c]
  BY DEF Diffs, Only, PagesInv, Shapes
<1> HIDE DEF diffs
<1>3. \A i \in DOMAIN todo : \A j \in 3..Len(todo[i].cvs) :
        LET c == <<todo[i].cv32, todo[i].cvs[j].cv>>
        IN  c \in DOMAIN diffs /\ todo[i].cvs[j].value = diffs[c]
  BY <1>1, <1>2, WritesWell
<1> HIDE DEF todo
<1>4. ~slipped => Sends(mem, touched, todo)
  BY <1>2, <1>3 DEF OthersInv, AllHarmless, Sends
<1>5. job'.todo = todo
  BY <1>1 DEF Job
<1> QED BY <1>1, <1>4, <1>5 DEF OthersInv

\* The batches left are batches there were.
LEMMA EndedSends ==
  ASSUME PagesInv, Active, Ended
  PROVE  job'.why = "apply" =>
           job.why = "apply" /\ \A k \in DOMAIN job'.todo : \E l \in DOMAIN job.todo :
                                  job'.todo[k] = job.todo[l]
<1>1. CASE Len(job.todo) = 1
  BY <1>1, JobWhy DEF Ended
<1>2. CASE Len(job.todo) # 1
  <2> DEFINE rest == Tail(job.todo)
             S == {job.todo[i] : i \in DOMAIN job.todo}
  <2>1. job.todo \in Seq(S) /\ 1 \in DOMAIN job.todo
    BY AtWork
  <2> HIDE DEF S
  <2>2. /\ rest \in Seq(S) /\ Len(rest) = Len(job.todo) - 1
        /\ \A i \in 1..Len(rest) : rest[i] = job.todo[i + 1]
        /\ Len(job.todo) \in Nat /\ DOMAIN job.todo = 1..Len(job.todo)
    BY <2>1, HeadTailProperties
  <2> HIDE DEF rest
  <2>3. \A k \in DOMAIN rest : \E l \in DOMAIN job.todo : rest[k] = job.todo[l]
    <3> TAKE k \in DOMAIN rest
    <3>1. k + 1 \in DOMAIN job.todo /\ rest[k] = job.todo[k + 1]
      BY <2>2
    <3> QED BY <3>1
  <2>4. job' \in [why : {job.why}, todo : {rest}, cvs : {rest[1].cvs}, errs : {{}}, hit : {{}}]
    <3>1. job' = [job EXCEPT !.todo = rest, !.cvs = rest[1].cvs, !.errs = {}, !.hit = {}]
      BY <1>2 DEF Ended, rest
    <3>2. job \in [why : {job.why}, todo : {job.todo}, cvs : {job.cvs}, errs : {job.errs},
                   hit : {job.hit}]
      BY DEF PagesInv, Shapes, JobShape
    <3> QED BY <3>1, <3>2
  <2>5. job'.why = job.why /\ job'.todo = rest
    BY <2>4
  <2> QED BY <2>3, <2>5
<1> QED BY <1>1, <1>2

\* The tab is told of cells what they hold.
LEMMA ToldHarmless ==
  ASSUME PagesInv, OthersInv, Active, Ended, UNCHANGED <<mem, touched>>, slipped => slipped',
         NEW cells \in SUBSET Cells, NEW e, DOMAIN e = cells, side' = RememberRead(side, e),
         ~slipped' => \A c \in cells : e[c] = mem[c]
  PROVE  OthersInv'
<1>1. /\ Merged(side.snap.table, e, side'.snap.table)
      /\ Merged(side.snap.baseline, e, side'.snap.baseline)
  BY Told
<1>2. ~slipped' => AllHarmless(mem, touched, e)
  BY HarmlessAsIs DEF AllHarmless
<1>3. ~slipped' => /\ AllHarmless(mem, touched', side'.snap.table)
                   /\ AllHarmless(mem, touched', side'.snap.baseline)
  BY <1>1, <1>2, MergedHarmless DEF OthersInv
<1>4. job'.why = "apply" =>
        job.why = "apply" /\ \A k \in DOMAIN job'.todo : \E l \in DOMAIN job.todo :
                               job'.todo[k] = job.todo[l]
  BY EndedSends
<1> QED BY <1>3, <1>4, Quiet

LEMMA ReadHarmless == ASSUME PagesInv, OthersInv, ReadPage PROVE OthersInv'
<1>1. Active /\ Ended /\ UNCHANGED <<mem, touched>>
  BY DEF ReadPage, decoder
<1>2. PICK got \in SUBSET Batch.asks :
        LET cells == {Meant(cv) : cv \in got}
            e == [c \in cells |-> Held(c[2])]
            right == \A cv \in Batch.asks : Selected /\ Window(cv) = Meant(cv)
        IN  /\ side' = RememberRead(side, e) /\ cells \subseteq Cells
            /\ slipped' = (slipped \/ ~right)
            /\ right => \A c \in cells : e[c] = mem[c]
  BY ReadTells
<1> DEFINE cells == {Meant(cv) : cv \in got}
           e == [c \in cells |-> Held(c[2])]
<1>3. /\ side' = RememberRead(side, e) /\ cells \in SUBSET Cells /\ DOMAIN e = cells
      /\ slipped => slipped'
      /\ ~slipped' => \A c \in cells : e[c] = mem[c]
  BY <1>2
<1> HIDE DEF e, cells
<1> QED BY <1>1, <1>3, ToldHarmless

LEMMA DoneHarmless == ASSUME PagesInv, OthersInv, BatchDone PROVE OthersInv'
<1>1. Active /\ Ended /\ UNCHANGED <<mem, touched, slipped>>
  BY DEF BatchDone, decoder
<1>2. PICK cells \in SUBSET Cells : \E e \in [cells -> {mem[c] : c \in cells}] :
        (\A c \in cells : e[c] = mem[c]) /\ side' = RememberRead(side, e)
  BY BatchTells
<1>3. PICK e \in [cells -> {mem[c] : c \in cells}] :
        (\A c \in cells : e[c] = mem[c]) /\ side' = RememberRead(side, e)
  BY <1>2
<1>4. DOMAIN e = cells /\ cells \in SUBSET Cells
  BY <1>2, <1>3
<1> QED BY <1>1, <1>3, <1>4, ToldHarmless

\* A cell that is written gets what was meant for it, unless another page was selected.
LEMMA WrittenCell ==
  ASSUME PagesInv, OthersInv, WriteCv, ~slipped'
  PROVE  \/ mem' = mem
         \/ \E x \in Cells : \E k \in DOMAIN job.todo : \E j \in 3..Len(job.todo[k].cvs) :
              /\ Harmless(mem, touched, x, job.todo[k].cvs[j].value)
              /\ \A c \in Cells : mem'[c] = IF c = x THEN job.todo[k].cvs[j].value ELSE mem[c]
<1>1. /\ Active /\ WellBatch(Batch) /\ 1 \in DOMAIN job.todo /\ Batch = job.todo[1]
      /\ Batch.asks = {} <=> job.why = "apply"
  BY AtWork DEF WriteCv
<1> DEFINE s == Batch.cvs
           there(e) == IF Selected /\ Window(e.cv) \in Cells THEN {Window(e.cv)} ELSE {}
           payload(e) == e.cv >= INDEXED_CV_START
<1>2. \E n \in Nat : \E ok, taken \in BOOLEAN :
        LET e == s[n + 1]
        IN  /\ n + 1 \in DOMAIN s
            /\ ~payload(e) => mem' = mem
            /\ payload(e) => /\ mem' = IF taken THEN [c \in Cells |-> IF c \in there(e) THEN e.value
                                                                               ELSE mem[c]]
                                                ELSE mem
                             /\ slipped' = (slipped \/ there(e) # {Meant(e.cv)})
  BY NextCv
<1>3. PICK n \in Nat : \E taken \in BOOLEAN :
        LET e == s[n + 1]
        IN  /\ n + 1 \in DOMAIN s
            /\ ~payload(e) => mem' = mem
            /\ payload(e) => /\ mem' = IF taken THEN [c \in Cells |-> IF c \in there(e) THEN e.value
                                                                               ELSE mem[c]]
                                                ELSE mem
                             /\ slipped' = (slipped \/ there(e) # {Meant(e.cv)})
  BY <1>2
<1> DEFINE e == s[n + 1]
<1>4. CASE ~payload(e)
  BY <1>3, <1>4
<1>5. CASE payload(e) /\ mem' # mem
  <2>1. /\ mem' = [c \in Cells |-> IF c \in there(e) THEN e.value ELSE mem[c]]
        /\ there(e) = {Meant(e.cv)} /\ ~slipped
    <3> HIDE DEF there, payload, e
    <3> QED BY <1>3, <1>5 DEF e
  <2>2. n + 1 \in 3..Len(s)
    <3>1. ~payload(s[1]) /\ ~payload(s[2])
      BY <1>1 DEF WellBatch, Entry, INDEXED_CV_START
    <3>2. n + 1 \in 1..Len(s) /\ Len(s) \in Nat
      BY <1>1, <1>3 DEF WellBatch, Sequence
    <3> HIDE DEF payload, s
    <3>3. n + 1 # 1 /\ n + 1 # 2
      BY <1>5, <3>1
    <3> QED BY <3>2, <3>3
  <2>3. job.why = "apply"
    <3>1. Batch.asks # {} => Len(s) = 2
      BY <1>1 DEF WellBatch
    <3> DEFINE l == Len(s)
    <3>2. l = 2 => FALSE
      <4>1. n + 1 \in 3..l
        BY <2>2
      <4> HIDE DEF l
      <4> QED BY <4>1
    <3>3. Batch.asks = {}
      BY <3>1, <3>2
    <3> QED BY <1>1, <3>3
  <2>4. Sends(mem, touched, job.todo)
    BY <2>1, <2>3 DEF OthersInv
  <2>5. Harmless(mem, touched, Meant(e.cv), e.value)
    BY <1>1, <2>2, <2>4 DEF Sends, Meant
  <2>6. Meant(e.cv) \in Cells
    BY <1>1, <2>2 DEF WellBatch, Meant
  <2> DEFINE x == Meant(e.cv)
             w == e.value
  <2>7. \A c \in Cells : mem'[c] = IF c = x THEN w ELSE mem[c]
    <3> HIDE DEF there, e, x, w
    <3>1. there(e) = {x}
      BY <2>1 DEF x
    <3> QED BY <2>1, <3>1 DEF w
  <2>8. 1 \in DOMAIN job.todo /\ n + 1 \in 3..Len(job.todo[1].cvs)
        /\ w = job.todo[1].cvs[n + 1].value
    BY <1>1, <2>2
  <2> HIDE DEF e, s
  <2>9. x \in Cells /\ Harmless(mem, touched, x, w)
    BY <2>5, <2>6
  <2> HIDE DEF x, w
  <2> QED BY <2>7, <2>8, <2>9
<1> QED BY <1>4, <1>5

LEMMA WriteHarmless == ASSUME PagesInv, OthersInv, WriteCv PROVE OthersInv'
<1> SUFFICES ASSUME ~slipped' PROVE OthersInv'
  BY DEF OthersInv
<1>1. /\ UNCHANGED <<side, touched>> /\ job'.todo = job.todo /\ job'.why = job.why
      /\ slipped => slipped'
  <2>1. UNCHANGED <<side, touched>> /\ (slipped => slipped')
    BY DEF WriteCv
  <2>2. job'.todo = job.todo /\ job'.why = job.why
    BY NextCv
  <2> QED BY <2>1, <2>2
<1>2. /\ AllHarmless(mem, touched, side.snap.table)
      /\ AllHarmless(mem, touched, side.snap.baseline)
      /\ job.why = "apply" => Sends(mem, touched, job.todo)
  BY <1>1 DEF OthersInv
<1>3. \A c, v : Harmless(mem, touched, c, v) => Harmless(mem', touched, c, v)
  <2>1. CASE mem' = mem
    BY <2>1
  <2>2. ASSUME NEW x, NEW w, Harmless(mem, touched, x, w),
               \A c \in Cells : mem'[c] = IF c = x THEN w ELSE mem[c]
        PROVE  \A c, v : Harmless(mem, touched, c, v) => Harmless(mem', touched, c, v)
    BY <2>2, HarmlessWrite
  <2> QED BY <2>1, <2>2, WrittenCell
<1> QED BY <1>1, <1>2, <1>3 DEF OthersInv, AllHarmless, Sends

LEMMA OthersStep == PagesInv /\ WishInv /\ OthersInv /\ [Next]_vars => OthersInv'
<1> SUFFICES ASSUME PagesInv, WishInv, OthersInv, [Next]_vars PROVE OthersInv'
  OBVIOUS
<1>1. ASSUME NEW v \in Views, Goto(v) PROVE OthersInv'
  <2>1. UNCHANGED <<mem, touched, slipped>> /\ (side' = side \/ side' = Discard(side))
        /\ (job' = job \/ job' = NoJob)
    BY <1>1 DEF Goto, decoder, history
  <2>2. job' = job \/ job'.why # "apply"
    BY <2>1, JobWhy
  <2> QED BY <2>1, <2>2, Untold
<1>2. CASE Effect
  <2>1. UNCHANGED <<mem, touched, slipped, side>>
        /\ \E why \in {"entry", "all", "show"} : \E pages : Start(why, pages)
    BY <1>2 DEF Effect, EntryEffect, AllEffect, ShowEffect, decoder
  <2>2. job' = job \/ job'.why # "apply"
    BY <2>1, JobWhy DEF Start
  <2> QED BY <2>1, <2>2, Untold
<1>3. CASE ReadButton
  <2>1. UNCHANGED <<mem, touched, slipped, side>> /\ job'.why # "apply"
    BY <1>3, JobWhy DEF ReadButton, decoder, history
  <2> QED BY <2>1, Untold
<1>4. CASE Apply
  BY <1>4, ApplyHarmless
<1>5. CASE Edit
  BY <1>5, EditHarmless
<1>6. CASE Assign
  BY <1>6, AssignHarmless
<1>7. CASE WriteCv
  BY <1>7, WriteHarmless
<1>8. CASE ReadPage
  BY <1>8, ReadHarmless
<1>9. CASE BatchDone
  BY <1>9, DoneHarmless
<1>10. CASE Stop
  <2>1. UNCHANGED <<mem, touched, slipped, side>> /\ job'.why # "apply"
    BY <1>10, JobWhy DEF Stop, decoder
  <2> QED BY <2>1, Untold
<1>11. CASE UNCHANGED vars
  <2>1. UNCHANGED <<mem, touched, slipped, side, job>>
    BY <1>11 DEF vars
  <2> QED BY <2>1, Untold
<1> QED BY <1>1, <1>2, <1>3, <1>4, <1>5, <1>6, <1>7, <1>8, <1>9, <1>10, <1>11 DEF Next

LEMMA AlwaysOthers == Spec => []OthersInv
<1>1. Init => OthersInv
  BY JobWhy, NewShape DEF Init, OthersInv, AllHarmless
<1> QED BY <1>1, OthersStep, AlwaysInv, AlwaysWish, PTL DEF Spec

\* Only a command of a job writes to the decoder.
LEMMA OnlyWrites == ASSUME Next, mem' # mem PROVE WriteCv
<1>1. \A v \in Views : Goto(v) => mem' = mem
  BY DEF Goto, decoder
<1>2. /\ Effect => mem' = mem
      /\ ReadButton \/ Apply => mem' = mem
  BY DEF Effect, EntryEffect, AllEffect, ShowEffect, ReadButton, Apply, decoder
<1>3. Edit => mem' = mem
  BY DEF Edit, EditCondition, EditPhysical, EditRow, EditMode, DiscardChanges, decoder
<1>4. Assign => mem' = mem
  BY DEF Assign, AssignF, AssignReads, AssignPlans, decoder
<1>5. ReadPage \/ BatchDone \/ Stop => mem' = mem
  BY DEF ReadPage, BatchDone, Stop, decoder
<1> QED BY <1>1, <1>2, <1>3, <1>4, <1>5 DEF Next

\* Whatever rows are edited, assigned and applied, and wherever a write fails or is
\* cancelled, an output the user did not touch is on exactly when it was before, as
\* long as no CV went to a page other than the one meant: for any profile and any
\* mapping (esuCoupler.ts planCouplerFAssign, esuMapping.ts applyBatches).
THEOREM OthersUndisturbed == Spec => OthersKept
<1>1. ASSUME PagesInv, OthersInv, Next, mem' # mem, ~slipped', NEW o \in Outputs \ touched'
      PROVE  Drives(mem', o) = Drives(mem, o)
  <2>1. WriteCv
    BY <1>1, OnlyWrites
  <2>2. touched' = touched
    BY <2>1 DEF WriteCv
  <2>3. ASSUME NEW x, NEW w, Harmless(mem, touched, x, w),
               \A c \in Cells : mem'[c] = IF c = x THEN w ELSE mem[c]
        PROVE  Drives(mem', o) = Drives(mem, o)
    BY <1>1, <2>2, <2>3, DrivesAlike
  <2> QED BY <1>1, <2>1, <2>3, WrittenCell
<1>2. PagesInv /\ OthersInv /\ [Next]_vars =>
        [mem' # mem /\ ~slipped' =>
           \A o \in Outputs \ touched' : Drives(mem', o) = Drives(mem, o)]_vars
  BY <1>1
<1> QED BY <1>2, AlwaysInv, AlwaysOthers, PTL DEF Spec, OthersKept

-----------------------------------------------------------------------------
(* The codec.                                                              *)

\* What has been packed into these CVs is found in them again, and nothing else.
LEMMA IdsBack ==
  ASSUME NEW defs, NEW count \in Nat, Placed(defs, count),
         NEW ids, ids \subseteq {d.id : d \in defs}, NEW cvs,
         \A k \in 1..count : cvs[k] = EncodeBits(defs, count, ids)[k]
  PROVE  DecodeBits(defs, cvs) = ids
<1> DEFINE back == DecodeBits(defs, cvs)
<1>1. \A d \in defs : Bit(cvs[1 + d.cvOffset], d.bit) = 1 <=> d.id \in ids
  <2> TAKE d \in defs
  <2>1. /\ 1 + d.cvOffset \in 1..count
        /\ Bit(EncodeBits(defs, count, ids)[1 + d.cvOffset], d.bit) = 1 <=> d.id \in ids
    BY BitOf
  <2>2. cvs[1 + d.cvOffset] = EncodeBits(defs, count, ids)[1 + d.cvOffset]
    BY <2>1
  <2> QED BY <2>1, <2>2
<1>2. \A x \in back : x \in ids
  BY <1>1 DEF DecodeBits
<1>3. \A x \in ids : x \in back
  BY <1>1 DEF DecodeBits
<1> HIDE DEF back
<1>4. back = ids
  BY <1>2, <1>3
<1> QED BY <1>4 DEF back

\* The slots have a bit each.
LEMMA SlotsPlaced ==
  ASSUME NEW n \in Nat
  PROVE  /\ Placed(SlotDefs(n), (n + 7) \div 8) /\ (n + 7) \div 8 \in Nat
         /\ {d.id : d \in SlotDefs(n)} = 1..n
<1> DEFINE slot(i) == [id |-> i, cvOffset |-> (i - 1) \div 8, bit |-> (i - 1) % 8]
<1>1. SlotDefs(n) = {slot(i) : i \in 1..n}
  BY DEF SlotDefs
<1>2. \A i \in 1..n : /\ slot(i).id = i
                      /\ slot(i).cvOffset = (i - 1) \div 8 /\ slot(i).bit = (i - 1) % 8
  OBVIOUS
<1>3. \A i \in 1..n : (i - 1) \div 8 \in 0..((n + 7) \div 8 - 1) /\ (i - 1) % 8 \in 0..7
  OBVIOUS
<1>4. \A i, j \in 1..n : (i - 1) \div 8 = (j - 1) \div 8 /\ (i - 1) % 8 = (j - 1) % 8 => i = j
  OBVIOUS
<1> HIDE DEF slot
<1>5. \A d \in SlotDefs(n) : \E i \in 1..n : d = slot(i)
  BY <1>1
<1>6. \A d \in SlotDefs(n) : d.cvOffset \in 0..((n + 7) \div 8 - 1) /\ d.bit \in 0..7
  BY <1>2, <1>3, <1>5
<1>7. \A d, e \in SlotDefs(n) : d.id = e.id \/ (d.cvOffset = e.cvOffset /\ d.bit = e.bit) => d = e
  <2> TAKE d, e \in SlotDefs(n)
  <2>1. PICK i \in 1..n : d = slot(i)
    BY <1>5
  <2>2. PICK j \in 1..n : e = slot(j)
    BY <1>5
  <2>3. /\ d.id = i /\ d.cvOffset = (i - 1) \div 8 /\ d.bit = (i - 1) % 8
        /\ e.id = j /\ e.cvOffset = (j - 1) \div 8 /\ e.bit = (j - 1) % 8
    BY <1>2, <2>1, <2>2
  <2>4. d.id = e.id \/ (d.cvOffset = e.cvOffset /\ d.bit = e.bit) => i = j
    <3>1. (i - 1) \div 8 = (j - 1) \div 8 /\ (i - 1) % 8 = (j - 1) % 8 => i = j
      BY <1>4, <2>1, <2>2
    <3> QED BY <2>3, <3>1
  <2> QED BY <2>1, <2>2, <2>4
<1>8. {d.id : d \in SlotDefs(n)} = 1..n
  <2>1. \A x \in {d.id : d \in SlotDefs(n)} : x \in 1..n
    BY <1>2, <1>5
  <2>2. \A i \in 1..n : slot(i) \in SlotDefs(n) /\ slot(i).id = i
    BY <1>1, <1>2
  <2>3. \A i \in 1..n : i \in {d.id : d \in SlotDefs(n)}
    BY <2>2
  <2> QED BY <2>1, <2>3
<1>9. (n + 7) \div 8 \in Nat
  OBVIOUS
<1> QED BY <1>6, <1>7, <1>8, <1>9 DEF Placed

LEMMA Packed ==
  ASSUME NEW defs, NEW count \in Nat, NEW ids
  PROVE  LET s == EncodeBits(defs, count, ids)
         IN  Sequence(s) /\ DOMAIN s = 1..count /\ Len(s) = count
<1> DEFINE s == EncodeBits(defs, count, ids)
<1>1. s = [i \in 1..count |-> s[i]]
  BY DEF EncodeBits
<1> HIDE DEF s
<1>2. Sequence(s) /\ DOMAIN s = 1..count /\ Len(s) = count
  BY <1>1, Indexed
<1> QED BY <1>2 DEF s

\* Three sequences one after the other.
Joined(a, b, c, s) ==
  /\ \A i \in 1..Len(a) : s[i] = a[i]
  /\ \A i \in 1..Len(b) : s[Len(a) + i] = b[i]
  /\ \A i \in 1..Len(c) : s[Len(a) + Len(b) + i] = c[i]

LEMMA PartsOf ==
  ASSUME NEW a, NEW b, NEW c, Sequence(a), Sequence(b), Sequence(c)
  PROVE  Joined(a, b, c, (a \o b) \o c)
<1> DEFINE A == {a[j] : j \in DOMAIN a}
           B == {b[j] : j \in DOMAIN b}
           C == {c[j] : j \in DOMAIN c}
           S == A \cup B \cup C
           ab == a \o b
<1>1. a \in Seq(A) /\ b \in Seq(B) /\ c \in Seq(C)
  BY DEF Sequence
<1>2. A \subseteq S /\ B \subseteq S /\ C \subseteq S
  OBVIOUS
<1> HIDE DEF A, B, C, S
<1>3. a \in Seq(S) /\ b \in Seq(S) /\ c \in Seq(S)
  BY <1>1, <1>2, Widened
<1>4. /\ ab \in Seq(S) /\ Len(ab) = Len(a) + Len(b)
      /\ \A i \in 1..Len(a) : ab[i] = a[i]
      /\ \A i \in 1..Len(b) : ab[Len(a) + i] = b[i]
  BY <1>3
<1>5. Len(a) \in Nat /\ Len(b) \in Nat /\ Len(c) \in Nat
  BY <1>3
<1> HIDE DEF ab
<1>6. /\ \A i \in 1..Len(ab) : (ab \o c)[i] = ab[i]
      /\ \A i \in 1..Len(c) : (ab \o c)[Len(ab) + i] = c[i]
  BY <1>3, <1>4
<1>7. \A i \in 1..Len(a) : i \in 1..Len(ab)
  BY <1>4, <1>5
<1>8. \A i \in 1..Len(b) : Len(a) + i \in 1..Len(ab)
  BY <1>4, <1>5
<1> QED BY <1>4, <1>5, <1>6, <1>7, <1>8 DEF ab, Joined

\* A row as the pages keep it.
RowsOfProfile ==
  [conditions : [Profile.conditions -> CondStates],
   physical : SUBSET {d.id : d \in Profile.physical},
   logic : SUBSET {d.id : d \in Profile.logicFns},
   slots : SUBSET (1..Profile.slotCount)]

\* What is written for a row, to its output CVs.
LEMMA OutputsAre ==
  ASSUME NEW r \in Rows(Profile), NEW row
  PROVE  LET outputs == EncodeRow(Profile, row).outputs
         IN  /\ \A i \in 1..OutputCvCount(Profile) :
                  RowEntries(Profile, r, row)[OutputCell(Profile, r, i)] = outputs[i]
             /\ \A i \in 1..Profile.physicalCvCount :
                  outputs[i] = EncodeBits(Profile.physical, Profile.physicalCvCount, row.physical)[i]
             /\ \A i \in 1..Profile.logicCvCount :
                  outputs[Profile.physicalCvCount + i] =
                    EncodeBits(Profile.logicFns, Profile.logicCvCount, row.logic)[i]
             /\ \A i \in 1..Profile.soundCvCount :
                  outputs[Profile.physicalCvCount + Profile.logicCvCount + i] =
                    EncodeSlots(Profile.slotCount, row.slots)[i]
<1> DEFINE e == RowEntries(Profile, r, row)
           encoded == EncodeRow(Profile, row)
           m == OutputCvCount(Profile)
           k == Profile.physicalCvCount
           l == Profile.logicCvCount
           n == Profile.soundCvCount
           CC == ConditionCells(Profile, r)
           OC == OutputCells(Profile, r)
           cs == RowLayout(Profile, r).conditionStart
           os == RowLayout(Profile, r).outputStart
           a == EncodeBits(Profile.physical, k, row.physical)
           b == EncodeBits(Profile.logicFns, l, row.logic)
           c == EncodeSlots(Profile.slotCount, row.slots)
<1>1. /\ k \in Nat /\ l \in Nat /\ n \in Nat /\ m = k + l + n
      /\ Profile.slotCount \in Nat /\ (Profile.slotCount + 7) \div 8 = n
      /\ Profile.conditionCvCount \in Nat
  BY RowsAssumption DEF WellLaid, OutputCvCount
<1>2. e = [x \in CC \cup OC |-> IF x \in CC THEN encoded.conditions[x[2] - cs + 1]
                                ELSE encoded.outputs[x[2] - os + 1]]
  BY DEF RowEntries
<1>3. os \in Int
  <2>1. r \in Nat
    BY NumbersAre DEF Numbers, Rows
  <2>2. (r - 1) % 16 \in Int
    BY <2>1
  <2>3. os = IF Profile.split THEN 257 + ((r - 1) % 16) * 16
             ELSE 257 + ((r - 1) % 16) * 16 + Profile.conditionCvCount
    BY DEF RowLayout, RowCvStart, INDEXED_CV_START, ROW_STRIDE, ROWS_PER_PAGE
  <2> HIDE DEF os
  <2> QED BY <1>1, <2>2, <2>3
<1>4. \A i \in 1..m : /\ OutputCell(Profile, r, i) \in OC /\ OutputCell(Profile, r, i)[2] = os + i - 1
                      /\ OutputCell(Profile, r, i) \notin CC
  BY CellsApart DEF OutputCells, OutputCell, ConditionCells
<1>5. encoded.outputs = (a \o b) \o c
  BY DEF EncodeRow
<1>6. /\ Sequence(a) /\ Sequence(b) /\ Sequence(c)
      /\ Len(a) = k /\ Len(b) = l /\ Len(c) = n
  <2>1. c = EncodeBits(SlotDefs(Profile.slotCount), n, row.slots)
    BY <1>1 DEF EncodeSlots
  <2> HIDE DEF n, k, l
  <2> QED BY <1>1, <2>1, Packed
<1> HIDE DEF a, b, c, encoded, cs, os, CC, OC, m, k, l, n, e
<1>7. \A i \in 1..m : e[OutputCell(Profile, r, i)] = encoded.outputs[i]
  <2> TAKE i \in 1..m
  <2> DEFINE x == OutputCell(Profile, r, i)
  <2>1. x \in OC /\ x \notin CC /\ x[2] = os + i - 1
    BY <1>4
  <2> HIDE DEF x
  <2>2. e[x] = encoded.outputs[x[2] - os + 1]
    BY <1>2, <2>1
  <2>3. x[2] - os + 1 = i
    BY <1>1, <1>3, <2>1
  <2> QED BY <2>2, <2>3 DEF x
<1>8. /\ \A i \in 1..Len(a) : ((a \o b) \o c)[i] = a[i]
      /\ \A i \in 1..Len(b) : ((a \o b) \o c)[Len(a) + i] = b[i]
      /\ \A i \in 1..Len(c) : ((a \o b) \o c)[Len(a) + Len(b) + i] = c[i]
  <2>1. Joined(a, b, c, (a \o b) \o c)
    BY <1>6, PartsOf
  <2> QED BY <2>1 DEF Joined
<1>9. /\ \A i \in 1..k : encoded.outputs[i] = a[i]
      /\ \A i \in 1..l : encoded.outputs[k + i] = b[i]
      /\ \A i \in 1..n : encoded.outputs[k + l + i] = c[i]
  BY <1>5, <1>6, <1>8
<1> QED BY <1>7, <1>9 DEF e, encoded, m, k, l, n, a, b, c

LEMMA DecodedIs ==
  ASSUME NEW p, NEW A, NEW B
  PROVE  DecodeRow(p, A, B) =
           [conditions |-> DecodeConditions(p, A),
            physical |-> DecodeBits(p.physical, SubSeq(B, 1, p.physicalCvCount)),
            logic |-> DecodeBits(p.logicFns,
                                 SubSeq(B, p.physicalCvCount + 1,
                                        (p.physicalCvCount + 1 + p.logicCvCount) - 1)),
            slots |-> DecodeSlots(p.slotCount,
                                  SubSeq(B, p.physicalCvCount + 1 + p.logicCvCount, Len(B)))]
BY DEF DecodeRow

\* Whatever a row says, on whichever row and page: what is written for it is read
\* back as that row, conditions, outputs, functions and sounds, and the row's cells
\* are all it is written to (esuMapping.ts rowEntries, encodeRow, decodeRow).
THEOREM RowComesBack ==
  \A r \in Rows(Profile), row \in RowsOfProfile :
    /\ ReadRow(Profile, r, RowEntries(Profile, r, row)) = row
    /\ DOMAIN RowEntries(Profile, r, row) = PagesForRows(Profile, {r})
<1> TAKE r \in Rows(Profile), row \in RowsOfProfile
<1> DEFINE tab == RowEntries(Profile, r, row)
           m == OutputCvCount(Profile)
           k == Profile.physicalCvCount
           l == Profile.logicCvCount
           n == Profile.soundCvCount
           outputs == EncodeRow(Profile, row).outputs
           B == [i \in 1..m |-> tab[OutputCell(Profile, r, i)]]
           back == ReadRow(Profile, r, tab)
<1>1. /\ k \in Nat /\ l \in Nat /\ n \in Nat /\ m = k + l + n
      /\ Profile.slotCount \in Nat /\ (Profile.slotCount + 7) \div 8 = n
      /\ Placed(Profile.logicFns, l)
  BY RowsAssumption DEF WellLaid, OutputCvCount
<1>2. /\ row.conditions \in [Profile.conditions -> CondStates]
      /\ row.physical \subseteq {d.id : d \in Profile.physical}
      /\ row.logic \subseteq {d.id : d \in Profile.logicFns}
      /\ row.slots \subseteq 1..Profile.slotCount
      /\ row = [conditions |-> row.conditions, physical |-> row.physical,
                logic |-> row.logic, slots |-> row.slots]
  BY DEF RowsOfProfile
<1>3. back.conditions = row.conditions /\ back.physical = row.physical
  <2>1. /\ ReadRow(Profile, r, tab).conditions = row.conditions
        /\ RowPhysicalIds(Profile, r, tab) = row.physical
    BY <1>2, ReadBack
  <2> QED BY <2>1, RowIs
<1>4. /\ \A i \in 1..m : tab[OutputCell(Profile, r, i)] = outputs[i]
      /\ \A i \in 1..l : outputs[k + i] = EncodeBits(Profile.logicFns, l, row.logic)[i]
      /\ \A i \in 1..n : outputs[k + l + i] = EncodeSlots(Profile.slotCount, row.slots)[i]
  BY OutputsAre
<1>5. back \in [conditions : {back.conditions}, physical : {back.physical},
                logic : {DecodeBits(Profile.logicFns, SubSeq(B, k + 1, (k + 1 + l) - 1))},
                slots : {DecodeSlots(Profile.slotCount, SubSeq(B, k + 1 + l, Len(B)))}]
  <2> DEFINE A == [i \in 1..Profile.conditionCvCount |-> tab[ConditionCell(Profile, r, i)]]
  <2>1. back = [conditions |-> DecodeConditions(Profile, A),
                physical |-> DecodeBits(Profile.physical, SubSeq(B, 1, k)),
                logic |-> DecodeBits(Profile.logicFns, SubSeq(B, k + 1, (k + 1 + l) - 1)),
                slots |-> DecodeSlots(Profile.slotCount, SubSeq(B, k + 1 + l, Len(B)))]
    BY DecodedIs DEF ReadRow
  <2> HIDE DEF back, A, B, k, l
  <2> QED BY <2>1
<1> HIDE DEF tab, outputs, m, k, l, n
<1>6. /\ B \in Seq({B[i] : i \in 1..m}) /\ Len(B) = m /\ \A i \in 1..m : B[i] = outputs[i]
  <2>1. B = [i \in 1..m |-> tab[OutputCell(Profile, r, i)]]
    OBVIOUS
  <2>2. m \in Nat
    BY <1>1
  <2> HIDE DEF B
  <2>3. B \in [1..m -> {B[i] : i \in 1..m}]
    BY <2>1
  <2>4. B \in Seq({B[i] : i \in 1..m}) /\ Len(B) = m
    BY <2>2, <2>3
  <2>5. \A i \in 1..m : B[i] = outputs[i]
    BY <1>4, <2>1
  <2> QED BY <2>4, <2>5
<1> HIDE DEF B
<1> DEFINE bs == SubSeq(B, k + 1, (k + 1 + l) - 1)
           cs == SubSeq(B, k + 1 + l, Len(B))
<1>7. \A i \in 1..l : bs[i] = outputs[k + i]
  <2>1. \A i \in (k + 1)..(k + l) : B[i] \in {B[j] : j \in 1..m}
    <3>1. \A i \in (k + 1)..(k + l) : i \in 1..m
      BY <1>1
    <3> QED BY <3>1
  <2>4. bs = SubSeq(B, k + 1, k + l)
    <3>1. (k + 1 + l) - 1 = k + l
      BY <1>1
    <3> QED BY <3>1
  <2>2. \A i \in 1..(k + l - (k + 1) + 1) : SubSeq(B, k + 1, k + l)[i] = B[k + 1 + i - 1]
    BY <1>1, <1>6, <2>1, SubSeqProperties
  <2> HIDE DEF bs
  <2>3. ASSUME NEW i \in 1..l PROVE bs[i] = outputs[k + i]
    <3>1. i \in 1..(k + l - (k + 1) + 1) /\ k + 1 + i - 1 = k + i /\ k + i \in 1..m
      BY <1>1
    <3> QED BY <1>6, <2>2, <2>4, <3>1
  <2> QED BY <2>3
<1>8. \A i \in 1..n : cs[i] = outputs[k + l + i]
  <2>1. \A i \in (k + 1 + l)..m : B[i] \in {B[j] : j \in 1..m}
    <3>1. \A i \in (k + 1 + l)..m : i \in 1..m
      BY <1>1
    <3> QED BY <3>1
  <2>2. \A i \in 1..(m - (k + 1 + l) + 1) : SubSeq(B, k + 1 + l, m)[i] = B[k + 1 + l + i - 1]
    BY <1>1, <1>6, <2>1, SubSeqProperties
  <2>4. cs = SubSeq(B, k + 1 + l, m)
    BY <1>6
  <2> HIDE DEF cs
  <2>3. ASSUME NEW i \in 1..n PROVE cs[i] = outputs[k + l + i]
    <3>1. /\ i \in 1..(m - (k + 1 + l) + 1) /\ k + 1 + l + i - 1 = k + l + i
          /\ k + l + i \in 1..m
      BY <1>1
    <3> QED BY <1>6, <2>2, <2>4, <3>1
  <2> QED BY <2>3
<1>9. DecodeBits(Profile.logicFns, bs) = row.logic
  <2>1. \A i \in 1..l : bs[i] = EncodeBits(Profile.logicFns, l, row.logic)[i]
    BY <1>4, <1>7
  <2> HIDE DEF bs
  <2> QED BY <1>1, <1>2, <2>1, IdsBack
<1>10. DecodeSlots(Profile.slotCount, cs) = row.slots
  <2>1. \A i \in 1..n : cs[i] = EncodeBits(SlotDefs(Profile.slotCount), n, row.slots)[i]
    BY <1>1, <1>4, <1>8 DEF EncodeSlots
  <2>2. /\ Placed(SlotDefs(Profile.slotCount), n)
        /\ {d.id : d \in SlotDefs(Profile.slotCount)} = 1..Profile.slotCount
    BY <1>1, SlotsPlaced
  <2> HIDE DEF cs
  <2>3. DecodeBits(SlotDefs(Profile.slotCount), cs) = row.slots
    BY <1>1, <1>2, <2>1, <2>2, IdsBack
  <2> QED BY <2>3 DEF DecodeSlots
<1>11. DOMAIN tab = PagesForRows(Profile, {r})
  BY EntriesAre DEF tab
<1> HIDE DEF back
<1>12. back = row
  BY <1>2, <1>3, <1>5, <1>9, <1>10
<1> QED BY <1>11, <1>12 DEF back, tab

=============================================================================
