----------------------------- MODULE EsuMapping -----------------------------
(***************************************************************************)
(* The function mapping of ESU LokSound v4 and v5 (features/esuMapping.ts): *)
(* where the CVs of a mapping row and of an output are, and how a row is   *)
(* packed into them.                                                       *)
(*                                                                         *)
(* A CV of the mapping is a cell <<page, cv>>: the page is the value of    *)
(* CV 32 while CV 31 is 16.  An IndexPage[] of the code is the set of its  *)
(* cells.  A condition of a row is named by the place of its two bits:     *)
(* direction of travel and motion first, key n at n + 2, then the sensors. *)
(***************************************************************************)
EXTENDS Naturals, FiniteSets, Sequences, FiniteSetsExt, SequencesExt

INDEX_CV31_VALUE == 16
INDEXED_CV_START == 257
ROW_STRIDE == 16
ROWS_PER_PAGE == 16
SCENE_GROUP_SIZE == 5

CondStates == {"ignore", "on", "off"}
Key(n) == n + 2

\* physical and logicFns: the bits of one CV, from bit 0.
Defs(offset, ids) ==
  {[id |-> ids[i], cvOffset |-> offset, bit |-> i - 1] : i \in DOMAIN ids}

Aux(first, last) == [i \in 1..(last - first + 1) |-> <<"aux", first + i - 1>>]
Headlight == <<"headlight">>
Rearlight == <<"rearlight">>
Second == <<<<"headlight2">>, <<"rearlight2">>, <<"aux1c2">>, <<"aux2c2">>>>

\* SHARED_MODES, value 1 first.
SharedModes ==
  <<"dimmable", "fade", "firebox", "intelligentFirebox", "strobe", "doubleStrobe",
    "rotaryBeacon", "strato", "ditch1", "ditch2", "oscillator", "flash", "mars",
    "gyra", "fred", "fluorescent", "energySaver">>
Shared == {[value |-> v, id |-> SharedModes[v]] : v \in DOMAIN SharedModes}
Mode(v, name) == [value |-> v, id |-> name]

\* outputConfig()
OutputConfig(name, mode, spec2, spec3) ==
  [id |-> name, modeCv |-> mode, brightnessCv |-> mode + 3, spec2Cv |-> spec2,
   cvs |-> mode..(mode + 4) \cup {spec2} \cup (IF spec3 THEN {mode - 1} ELSE {})]

Consecutive(ids, first, spec3) ==
  {OutputConfig(ids[i], first + 8 * (i - 1), first + 8 * (i - 1) + 5, spec3) : i \in DOMAIN ids}

V4Outputs ==
  {OutputConfig(Headlight, 259, 264, FALSE), OutputConfig(Rearlight, 267, 273, FALSE)}
    \cup Consecutive(Aux(1, 10) \o Second, 275, FALSE)

V5Outputs ==
  {OutputConfig(Headlight, 259, 264, TRUE), OutputConfig(Rearlight, 267, 273, TRUE)}
    \cup Consecutive(Aux(1, 18), 275, TRUE) \cup Consecutive(Second, 419, TRUE)

LoksoundV4Mapping ==
  [split |-> FALSE, rowCount |-> 40, groupSize |-> SCENE_GROUP_SIZE,
   keys |-> 0..28, conditions |-> 0..35,
   conditionCvCount |-> 9, physicalCvCount |-> 2, logicCvCount |-> 2, soundCvCount |-> 3,
   slotCount |-> 24,
   physical |-> Defs(0, <<Headlight, Rearlight>> \o Aux(1, 6)) \cup Defs(1, Aux(7, 10) \o Second),
   logicFns |->
     Defs(0, <<"abvOff", "shunting", "dynamicBrakes", "firebox", "dimmer", "gradeCrossing">>)
       \cup Defs(1, <<"clockedSmoke", "notchUp", "notchDown", "soundFader",
                      "disableBrakeSound", "doppler", "volumeControl", "shift">>),
   outputConfigs |-> V4Outputs,
   modes |-> Shared \cup {Mode(23, "fan"), Mode(24, "seuthe"), Mode(25, "exhaustTrigger"),
     Mode(27, "servo"), Mode(28, "krois"), Mode(29, "roco"), Mode(30, "panto"),
     Mode(31, "servoCoupler")}]

LoksoundV5Mapping ==
  [split |-> TRUE, rowCount |-> 72, groupSize |-> SCENE_GROUP_SIZE,
   keys |-> 0..31, conditions |-> 0..39 \ {35},
   conditionCvCount |-> 10, physicalCvCount |-> 3, logicCvCount |-> 3, soundCvCount |-> 4,
   slotCount |-> 32,
   physical |-> Defs(0, <<Headlight, Rearlight>> \o Aux(1, 6)) \cup Defs(1, Aux(7, 14))
                  \cup Defs(2, Aux(15, 18) \o Second),
   logicFns |->
     Defs(0, <<"optionalLoad", "shunting", "brake1", "brake2", "brake3", "primaryLoad",
               "uncoupling", "driveHold">>)
       \cup Defs(1, <<"firebox", "dimmer", "gradeCrossing", "disableAccel", "smoke",
                      "soundFader", "disableBrakeSound", "volumeControl">>)
       \cup Defs(2, <<"shift1", "shift2", "shift3", "shift4", "shift5", "shift6">>),
   outputConfigs |-> V5Outputs,
   modes |-> Shared \cup {Mode(18, "randomStrobe"), Mode(21, "esuCoupler"),
     Mode(22, "smokeSound"), Mode(23, "fan"), Mode(24, "seuthe"), Mode(25, "steamTrigger"),
     Mode(26, "smokeExternal"), Mode(27, "servo"), Mode(28, "krois"), Mode(29, "roco"),
     Mode(30, "panto"), Mode(31, "powerPack")}]

-----------------------------------------------------------------------------
Rows(p) == 1..p.rowCount
OutputCvCount(p) == p.physicalCvCount + p.logicCvCount + p.soundCvCount

RowCvStart(row) == INDEXED_CV_START + ((row - 1) % ROWS_PER_PAGE) * ROW_STRIDE

MutRowLayout(p, row) ==
  LET pageIndex == (row - 1) \div ROWS_PER_PAGE
      start == RowCvStart(row)
  IN  [conditionPage |-> (IF p.split THEN 3 ELSE 2) + pageIndex,
       outputPage |-> (IF p.split THEN 8 ELSE 2) + pageIndex,
       conditionStart |-> start, outputStart |-> start]

\* v5 has conditions and outputs on pages of their own, v4 one after the other.
RowLayout(p, row) ==
  LET pageIndex == (row - 1) \div ROWS_PER_PAGE
      start == RowCvStart(row)
  IN  [conditionPage |-> (IF p.split THEN 3 ELSE 2) + pageIndex,
       outputPage |-> (IF p.split THEN 8 ELSE 2) + pageIndex,
       conditionStart |-> start,
       outputStart |-> IF p.split THEN start ELSE start + p.conditionCvCount]

ConditionCell(p, row, i) ==
  <<RowLayout(p, row).conditionPage, RowLayout(p, row).conditionStart + i - 1>>
OutputCell(p, row, i) ==
  <<RowLayout(p, row).outputPage, RowLayout(p, row).outputStart + i - 1>>

ConditionCells(p, row) == {ConditionCell(p, row, i) : i \in 1..p.conditionCvCount}
OutputCells(p, row) == {OutputCell(p, row, i) : i \in 1..OutputCvCount(p)}
PhysicalCells(p, row) == {OutputCell(p, row, i) : i \in 1..p.physicalCvCount}

\* pagesForRows()
PagesForRows(p, rows) == UNION {ConditionCells(p, r) \cup OutputCells(p, r) : r \in rows}

\* physicalScanPages()
PhysicalScanPages(p) == UNION {PhysicalCells(p, r) : r \in Rows(p)}

\* rowGroups(): the rows of group g.
GroupCount(p) == (p.rowCount + p.groupSize - 1) \div p.groupSize
GroupRows(p, g) == ((g - 1) * p.groupSize + 1)..Min({g * p.groupSize, p.rowCount})
RowGroup(p, g) == PagesForRows(p, GroupRows(p, g))

\* outputConfigPage()
OutputConfigPage(p) == {0} \X UNION {o.cvs : o \in p.outputConfigs}

UnreadPages(pages, tab) == pages \ DOMAIN tab
PagesLoaded(pages, tab) == pages \subseteq DOMAIN tab

-----------------------------------------------------------------------------
Bit(v, i) == (v \div 2^i) % 2

\* The CV with these bits.
Byte8(f) ==
  f[0] + 2 * f[1] + 4 * f[2] + 8 * f[3] + 16 * f[4] + 32 * f[5] + 64 * f[6] + 128 * f[7]

\* packPair(), unpackPair(): the states of four conditions in a CV.
PackPair(state, i) == (CASE state = "on" -> 1 [] state = "off" -> 2 [] OTHER -> 0) * 4^i
UnpackPair(v, i) ==
  LET bits == (v \div 4^i) % 4
  IN  IF bits = 1 THEN "on" ELSE IF bits = 2 THEN "off" ELSE "ignore"

\* emptyConditions(), emptyRow()
EmptyRow(p) ==
  [conditions |-> [c \in p.conditions |-> "ignore"],
   physical |-> {}, logic |-> {}, slots |-> {}]

IsRowEmpty(p, row) == row = EmptyRow(p)

DecodeConditions(p, cvs) ==
  [c \in p.conditions |-> UnpackPair(cvs[1 + (c \div 4)], c % 4)]

EncodeConditions(p, cond) ==
  [k \in 1..p.conditionCvCount |->
     LET Pair(i) == IF 4 * (k - 1) + i \in p.conditions
                      THEN PackPair(cond[4 * (k - 1) + i], i) ELSE 0
     IN  Pair(0) + Pair(1) + Pair(2) + Pair(3)]

\* decodePhysical(), decodeLogic()
DecodeBits(defs, cvs) ==
  {d.id : d \in {d \in defs : Bit(cvs[1 + d.cvOffset], d.bit) = 1}}

\* encodePhysical(), encodeLogic()
EncodeBits(defs, count, ids) ==
  [k \in 1..count |->
     LET Set(b) == \E d \in defs : d.id \in ids /\ 1 + d.cvOffset = k /\ d.bit = b
     IN  Byte8([b \in 0..7 |-> IF Set(b) THEN 1 ELSE 0])]

SlotDefs(n) == {[id |-> i, cvOffset |-> (i - 1) \div 8, bit |-> (i - 1) % 8] : i \in 1..n}
DecodeSlots(n, cvs) == DecodeBits(SlotDefs(n), cvs)
EncodeSlots(n, slots) == EncodeBits(SlotDefs(n), (n + 7) \div 8, slots)

DecodeRow(p, conditionCvs, outputCvs) ==
  LET logicFrom == p.physicalCvCount + 1
      soundFrom == logicFrom + p.logicCvCount
  IN  [conditions |-> DecodeConditions(p, conditionCvs),
       physical |-> DecodeBits(p.physical, SubSeq(outputCvs, 1, p.physicalCvCount)),
       logic |-> DecodeBits(p.logicFns, SubSeq(outputCvs, logicFrom, soundFrom - 1)),
       slots |-> DecodeSlots(p.slotCount, SubSeq(outputCvs, soundFrom, Len(outputCvs)))]

MutEncodeRow(p, row) ==
  [conditions |-> EncodeConditions(p, row.conditions),
   outputs |-> EncodeBits(p.physical, p.physicalCvCount, row.physical)
                 \o EncodeSlots(p.slotCount, row.slots)
                 \o EncodeBits(p.logicFns, p.logicCvCount, row.logic)]

EncodeRow(p, row) ==
  [conditions |-> EncodeConditions(p, row.conditions),
   outputs |-> EncodeBits(p.physical, p.physicalCvCount, row.physical)
                 \o EncodeBits(p.logicFns, p.logicCvCount, row.logic)
                 \o EncodeSlots(p.slotCount, row.slots)]

\* rowEntries(): what the cells of a row get.
RowEntries(p, row, decoded) ==
  LET encoded == EncodeRow(p, decoded)
  IN  [c \in ConditionCells(p, row) \cup OutputCells(p, row) |->
         IF c \in ConditionCells(p, row)
           THEN encoded.conditions[c[2] - RowLayout(p, row).conditionStart + 1]
           ELSE encoded.outputs[c[2] - RowLayout(p, row).outputStart + 1]]

\* readRow(), where it has been read.
RowRead(p, row, tab) == PagesLoaded(PagesForRows(p, {row}), tab)
ReadRow(p, row, tab) ==
  DecodeRow(p, [i \in 1..p.conditionCvCount |-> tab[ConditionCell(p, row, i)]],
               [i \in 1..OutputCvCount(p) |-> tab[OutputCell(p, row, i)]])

-----------------------------------------------------------------------------
\* cycleCond()
CycleCond(state) ==
  CASE state = "ignore" -> "on" [] state = "on" -> "off" [] OTHER -> "ignore"

Clamp(v, top) == Min({top, v})

\* decodeDelay(), encodeDelay(), clampBrightness(), of values not negative
DecodeDelay(v) == [on |-> v % 16, off |-> (v \div 16) % 16]
EncodeDelay(on, off) == Clamp(off, 15) * 16 + Clamp(on, 15)
ClampBrightness(v) == Clamp(v, 31)

\* sort((a, b) => a - b) of different numbers: the i-th has i - 1 below it.
Ascending(S) ==
  [i \in 1..Cardinality(S) |->
     CHOOSE n \in S : Cardinality({m \in S : m < n}) = i - 1]

\* applyBatches(): one batch per page, lowest page first; CV 31 and CV 32 go
\* before the payload, in CV order.
Entry(cv, v) == [cv |-> cv, value |-> v]
ApplyBatch(page, diffs) ==
  LET cvs == Ascending({c[2] : c \in {c \in DOMAIN diffs : c[1] = page}})
  IN  [cv32 |-> page,
       cvs |-> <<Entry(31, INDEX_CV31_VALUE), Entry(32, page)>>
                 \o [i \in DOMAIN cvs |-> Entry(cvs[i], diffs[<<page, cvs[i]>>])]]

PagesOf(cells) == Ascending({c[1] : c \in cells})
CvsOf(cells, page) == {c[2] : c \in {c \in cells : c[1] = page}}

ApplyBatches(diffs) ==
  LET pages == PagesOf(DOMAIN diffs)
  IN  [i \in DOMAIN pages |-> ApplyBatch(pages[i], diffs)]

=============================================================================
