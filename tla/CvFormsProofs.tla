---------------------------- MODULE CvFormsProofs ----------------------------
(***************************************************************************)
(* What the CV list, its pasted texts and the sliders stage, for every CV  *)
(* of every catalogue, every byte a decoder may have, every text and every *)
(* place of the volume slider.                                             *)
(***************************************************************************)
EXTENDS CvForms, TLAPS

-----------------------------------------------------------------------------
(* Bits, bytes and percents.                                               *)

LEMMA BitType == \A v \in Int : \A b \in 0..7 : Bit(v, b) \in 0..1
<1> TAKE v \in Int
<1> TAKE b \in 0..7
<1>1. 2^0 = 1 /\ 2^1 = 2 /\ 2^2 = 4 /\ 2^3 = 8 /\ 2^4 = 16 /\ 2^5 = 32 /\ 2^6 = 64 /\ 2^7 = 128
  OBVIOUS
<1>2. b = 0 \/ b = 1 \/ b = 2 \/ b = 3 \/ b = 4 \/ b = 5 \/ b = 6 \/ b = 7
  OBVIOUS
<1>3. 2^b \in {1, 2, 4, 8, 16, 32, 64, 128}
  <2>1. CASE b = 0
    BY <1>1, <2>1
  <2>2. CASE b = 1
    BY <1>1, <2>2
  <2>3. CASE b = 2
    BY <1>1, <2>3
  <2>4. CASE b = 3
    BY <1>1, <2>4
  <2>5. CASE b = 4
    BY <1>1, <2>5
  <2>6. CASE b = 5
    BY <1>1, <2>6
  <2>7. CASE b = 6
    BY <1>1, <2>7
  <2>8. CASE b = 7
    BY <1>1, <2>8
  <2> QED BY <1>2, <2>1, <2>2, <2>3, <2>4, <2>5, <2>6, <2>7, <2>8
<1>4. v \div 2^b \in Int
  BY <1>3
<1> QED BY <1>4 DEF Bit

\* A byte has the bits it is made of.
LEMMA BitOfByte ==
  ASSUME NEW f \in [0..7 -> 0..1]
  PROVE  Byte8(f) \in 0..255 /\ \A b \in 0..7 : Bit(Byte8(f), b) = f[b]
<1> DEFINE v == f[0] + 2 * f[1] + 4 * f[2] + 8 * f[3] + 16 * f[4] + 32 * f[5] + 64 * f[6] + 128 * f[7]
<1>1. /\ f[0] \in 0..1 /\ f[1] \in 0..1 /\ f[2] \in 0..1 /\ f[3] \in 0..1
      /\ f[4] \in 0..1 /\ f[5] \in 0..1 /\ f[6] \in 0..1 /\ f[7] \in 0..1
  OBVIOUS
<1>2. v \in 0..255 /\ v \in Int
  BY <1>1
<1>3. /\ (v \div 1) % 2 = f[0] /\ (v \div 2) % 2 = f[1]
      /\ (v \div 4) % 2 = f[2] /\ (v \div 8) % 2 = f[3]
  BY <1>1
<1>4. /\ (v \div 16) % 2 = f[4] /\ (v \div 32) % 2 = f[5]
      /\ (v \div 64) % 2 = f[6] /\ (v \div 128) % 2 = f[7]
  BY <1>1
<1> HIDE DEF v
<1>5. 2^0 = 1 /\ 2^1 = 2 /\ 2^2 = 4 /\ 2^3 = 8 /\ 2^4 = 16 /\ 2^5 = 32 /\ 2^6 = 64 /\ 2^7 = 128
  OBVIOUS
<1>6. /\ Bit(v, 0) = f[0] /\ Bit(v, 1) = f[1] /\ Bit(v, 2) = f[2] /\ Bit(v, 3) = f[3]
      /\ Bit(v, 4) = f[4] /\ Bit(v, 5) = f[5] /\ Bit(v, 6) = f[6] /\ Bit(v, 7) = f[7]
  BY <1>3, <1>4, <1>5 DEF Bit
<1>7. \A b \in 0..7 : b = 0 \/ b = 1 \/ b = 2 \/ b = 3 \/ b = 4 \/ b = 5 \/ b = 6 \/ b = 7
  OBVIOUS
<1>8. \A b \in 0..7 : Bit(v, b) = f[b]
  BY <1>6, <1>7
<1>9. Byte8(f) = v
  BY DEF Byte8, v
<1> QED BY <1>2, <1>8, <1>9

\* The byte the list stages for its radios.
LEMMA AssembledBits ==
  ASSUME NEW i, i.bits \subseteq 0..7, NEW previous \in Int, NEW bits,
         \A b \in DOMAIN bits : bits[b] \in 0..1
  PROVE  /\ Assembled(i, previous, bits) \in 0..255
         /\ \A b \in 0..7 : Bit(Assembled(i, previous, bits), b) =
              IF b \notin i.bits THEN Bit(previous, b)
              ELSE IF b \in DOMAIN bits THEN bits[b] ELSE 0
<1> DEFINE f == [b \in 0..7 |-> IF b \notin i.bits THEN Bit(previous, b)
                                ELSE IF b \in DOMAIN bits THEN bits[b] ELSE 0]
<1>1. f \in [0..7 -> 0..1]
  BY BitType
<1>2. Assembled(i, previous, bits) = Byte8(f)
  BY DEF Assembled
<1> HIDE DEF f
<1>3. Byte8(f) \in 0..255 /\ \A b \in 0..7 : Bit(Byte8(f), b) = f[b]
  BY <1>1, BitOfByte
<1> QED BY <1>2, <1>3 DEF f

\* What a percentage becomes and what that is shown as.
Rounds(percent, max) ==
  /\ EncodeVolume(percent, max) \in 0..max
  /\ DecodeVolume(EncodeVolume(percent, max), max) <= percent
  /\ percent = 100 => DecodeVolume(EncodeVolume(percent, max), max) = 100

LEMMA VolumeRounds ==
  \A percent \in 0..100 : \A max \in {64, 65, 192} : Rounds(percent, max)
<1> TAKE percent \in 0..100
<1> TAKE max \in {64, 65, 192}
<1> DEFINE v == (percent * max) \div 100
<1>1. CASE max = 64
  <2>1. v \in 0..64 /\ (v * 100) \div 64 <= percent /\ (percent = 100 => (v * 100) \div 64 = 100)
    BY <1>1
  <2> QED BY <1>1, <2>1 DEF EncodeVolume, DecodeVolume, Rounds
<1>2. CASE max = 65
  <2>1. v \in 0..65 /\ (v * 100) \div 65 <= percent /\ (percent = 100 => (v * 100) \div 65 = 100)
    BY <1>2
  <2> QED BY <1>2, <2>1 DEF EncodeVolume, DecodeVolume, Rounds
<1>3. CASE max = 192
  <2>1. v \in 0..192 /\ (v * 100) \div 192 <= percent /\ (percent = 100 => (v * 100) \div 192 = 100)
    BY <1>3
  <2> QED BY <1>3, <2>1 DEF EncodeVolume, DecodeVolume, Rounds
<1> QED BY <1>1, <1>2, <1>3

-----------------------------------------------------------------------------
(* The inductive invariant.                                                *)

\* The bits of v of these radios, each 0 or 1.
Binary(bits) == \A b \in DOMAIN bits : bits[b] \in 0..1

Shapes ==
  /\ dec \in Decoders /\ item \in Items(dec)
  /\ {table, base} \subseteq Int \cup {Unread}
  /\ row \in [value : Int \cup {Unread}, draft : {row.draft}, bits : {row.bits}]
  /\ row.bits # Unread => Binary(row.bits)
  /\ page = "volume" => item.cv = VolumeMap(dec).cv

FormsInv == Shapes /\ ListStagesAcceptable

\* What is known of the CV looked at.
LEMMA Entry ==
  ASSUME Shapes
  PROVE  /\ {item.cv, item.min, item.max} \subseteq Nat
         /\ item.bits \subseteq 0..7 /\ item.def \in 0..255 \cup {None}
         /\ item.bits # {} => item.min = 0 /\ item.max = 255 /\ item.vals = Whole
         /\ item.cv = VolumeMap(dec).cv =>
              item.min = 0 /\ item.vals = Whole /\ item.max >= VolumeMap(dec).max
         /\ Radios(item) \subseteq item.bits
<1>1. item \in ToSet(Cvs(dec)) /\ dec \in Decoders /\ item \in Items(dec)
  BY FormsAssumption DEF Shapes
<1> HIDE DEF Decoders
<1> QED BY <1>1, EntriesAssumption, FormsAssumption

LEMMA ReadBits == \A v \in Int : item.bits \subseteq 0..7 => Binary(BitsFromByte(item, v))
BY BitType DEF Binary, BitsFromByte

\* What the radios show is 0 or 1, and what was there before them is a number.
LEMMA ShownBits ==
  ASSUME Shapes
  PROVE  Binary(EditorBits(item, row, table)) /\ Previous \in Int
<1>1. item.bits \subseteq 0..7 /\ item.def \in 0..255 \cup {None}
  BY Entry
<1>2. item.def # None => item.def \in Int
  BY <1>1
<1>3. table # Unread => table \in Int
  BY DEF Shapes
<1>4. row.bits # Unread => Binary(row.bits)
  BY DEF Shapes
<1>5. row.value # Unread => row.value \in Int
  BY DEF Shapes
<1>6. Binary([b \in {} |-> 0])
  BY DEF Binary
<1>7. Binary(EditorBits(item, row, table))
  BY <1>1, <1>2, <1>3, <1>4, <1>6, ReadBits DEF EditorBits
<1>8. Previous \in Int
  BY <1>2, <1>3, <1>5 DEF Previous, Known
<1> QED BY <1>7, <1>8

-----------------------------------------------------------------------------
(* The steps.                                                              *)

LEMMA InitInv == Init => FormsInv
<1> SUFFICES ASSUME Init PROVE FormsInv
  OBVIOUS
<1>1. row \in [value : Int \cup {Unread}, draft : {row.draft}, bits : {row.bits}]
      /\ row.bits = Unread
  BY DEF Init, NoRow
<1>2. ListStagesAcceptable
  BY DEF Init, ListStagesAcceptable
<1> QED BY <1>1, <1>2 DEF Init, FormsInv, Shapes

LEMMA OpenInv == ASSUME FormsInv, NEW p, Open(p) PROVE FormsInv'
<1>1. UNCHANGED <<dec, item, table, base, by>> /\ page' = p /\ row' = NoRow
      /\ (p = "volume" => item.cv = VolumeMap(dec).cv)
  BY DEF Open
<1>2. row' \in [value : Int \cup {Unread}, draft : {row'.draft}, bits : {row'.bits}]
      /\ row'.bits = Unread
  BY <1>1 DEF NoRow
<1>3. ListStagesAcceptable'
  BY <1>1 DEF FormsInv, ListStagesAcceptable, Pending, Known, Accepts
<1> QED BY <1>1, <1>2, <1>3 DEF FormsInv, Shapes

LEMMA ReadInv == ASSUME FormsInv, NEW v \in Held, Read(v) PROVE FormsInv'
<1>1. UNCHANGED <<dec, item, page>> /\ table' = v /\ base' = v /\ by' = "none" /\ v \in Int
      /\ row' = IF page = "list" THEN [value |-> v, draft |-> v, bits |-> BitsFromByte(item, v)]
                ELSE row
  BY FormsAssumption DEF Read
<1>2. ListStagesAcceptable'
  BY <1>1 DEF ListStagesAcceptable
<1>3. Binary(BitsFromByte(item, v))
  BY <1>1, Entry, ReadBits DEF FormsInv
<1>4. row' \in [value : Int \cup {Unread}, draft : {row'.draft}, bits : {row'.bits}]
      /\ (row'.bits # Unread => Binary(row'.bits))
  <2>1. CASE row' = row
    BY <2>1 DEF FormsInv, Shapes
  <2>2. CASE row' = [value |-> v, draft |-> v, bits |-> BitsFromByte(item, v)]
    BY <1>1, <1>3, <2>2
  <2> QED BY <1>1, <2>1, <2>2
<1> QED BY <1>1, <1>2, <1>4 DEF FormsInv, Shapes

\* A number the editor accepts is a number.
LEMMA Acceptable == ASSUME Shapes, NEW n, Accepts(item, n) PROVE n \in Int
BY Entry DEF Accepts

LEMMA DraftInv == ASSUME FormsInv, NEW d, OnDraft(d) PROVE FormsInv'
<1>1. /\ UNCHANGED <<dec, item, page, base>> /\ ~item.readOnly /\ row' = [row EXCEPT !.draft = d]
      /\ IF ParseDraft(item, d) # Wrong THEN table' = d /\ by' = "list"
         ELSE table' = table /\ by' = by
  BY DEF OnDraft, Stage
<1>2. row' \in [value : Int \cup {Unread}, draft : {row'.draft}, bits : {row'.bits}]
      /\ row'.bits = row.bits
  <2>1. row \in [value : Int \cup {Unread}, draft : {row.draft}, bits : {row.bits}]
    BY DEF FormsInv, Shapes
  <2>2. row' \in [value : Int \cup {Unread}, draft : {d}, bits : {row.bits}]
    BY <1>1, <2>1
  <2> QED BY <2>2
<1>3. CASE table' = table /\ by' = by
  <2>1. ListStagesAcceptable'
    BY <1>1, <1>3 DEF FormsInv, ListStagesAcceptable, Pending, Known, Accepts
  <2> QED BY <1>1, <1>2, <1>3, <2>1 DEF FormsInv, Shapes
<1>4. CASE Accepts(item, d) /\ table' = d
  <2>1. d \in Int
    BY <1>4, Acceptable DEF FormsInv
  <2>2. ListStagesAcceptable'
    BY <1>1, <1>4 DEF ListStagesAcceptable, Accepts
  <2> QED BY <1>1, <1>2, <1>4, <2>1, <2>2 DEF FormsInv, Shapes
<1> QED BY <1>1, <1>3, <1>4 DEF ParseDraft

LEMMA BitInv ==
  ASSUME FormsInv, NEW b \in Radios(item), NEW x \in 0..1, OnBit(b, x)
  PROVE  FormsInv'
<1> DEFINE shown == EditorBits(item, row, table)
           bits == [c \in DOMAIN shown \cup {b} |-> IF c = b THEN x ELSE shown[c]]
<1>1. /\ UNCHANGED <<dec, item, page, base>> /\ ~item.readOnly
      /\ row' = [row EXCEPT !.bits = bits]
      /\ table' = Assembled(item, Previous, bits)
  BY DEF OnBit, Stage
<1>2. Binary(shown) /\ Previous \in Int
  BY ShownBits DEF FormsInv
<1> HIDE DEF shown
<1>3. Binary(bits)
  BY <1>2 DEF Binary
<1> HIDE DEF bits
<1>4. b \in item.bits /\ item.bits \subseteq 0..7
      /\ item.min = 0 /\ item.max = 255 /\ item.vals = Whole
  BY Entry DEF FormsInv
<1>5. table' \in 0..255
  BY <1>1, <1>2, <1>3, <1>4, AssembledBits DEF Binary
<1>6. ListStagesAcceptable'
  BY <1>1, <1>4, <1>5 DEF ListStagesAcceptable, Accepts
<1>7. row' \in [value : Int \cup {Unread}, draft : {row'.draft}, bits : {row'.bits}]
      /\ row'.bits = bits
  <2>1. row \in [value : Int \cup {Unread}, draft : {row.draft}, bits : {row.bits}]
    BY DEF FormsInv, Shapes
  <2>2. row' \in [value : Int \cup {Unread}, draft : {row.draft}, bits : {bits}]
    BY <1>1, <2>1
  <2> QED BY <2>2
<1> QED BY <1>1, <1>3, <1>5, <1>6, <1>7 DEF FormsInv, Shapes

\* What is staged elsewhere is no matter of the list.
LEMMA ElsewhereInv ==
  ASSUME FormsInv, UNCHANGED <<dec, item, page, row>>, by' # "list",
         {table', base'} \subseteq Int \cup {Unread}
  PROVE  FormsInv'
<1>1. ListStagesAcceptable'
  BY DEF ListStagesAcceptable
<1> QED BY <1>1 DEF FormsInv, Shapes

LEMMA TextInv == ASSUME FormsInv, NEW lines \in Texts, SetFromText(lines) PROVE FormsInv'
<1>1. /\ UNCHANGED <<dec, item, page, row, base>> /\ by' = "text" /\ table' = Last(lines)
      /\ \A i \in DOMAIN lines : lines[i] # Wrong
  BY DEF SetFromText, Stage, Parsed
<1>2. lines \in Seq(0..255 \cup {Wrong}) /\ lines # <<>>
  BY FormsAssumption
<1>3. Len(lines) \in DOMAIN lines /\ lines[Len(lines)] \in 0..255 \cup {Wrong}
  BY <1>2
<1>4. table' \in Int
  BY <1>1, <1>3 DEF Last
<1> QED BY <1>1, <1>4, ElsewhereInv DEF FormsInv, Shapes

LEMMA SpeedInv == ASSUME FormsInv, NEW v, SlideSpeed(v) PROVE FormsInv'
<1>1. /\ UNCHANGED <<dec, item, page, row, base>> /\ by' = "slider" /\ table' = v /\ v \in 0..item.max
  BY DEF SlideSpeed, Stage
<1>2. table' \in Int
  BY <1>1
<1> QED BY <1>1, <1>2, ElsewhereInv DEF FormsInv, Shapes

\* The volume pages of the four profiles that have one.
LEMMA VolumeMaps ==
  ASSUME Shapes, page = "volume"
  PROVE  VolumeMap(dec).max \in {64, 65, 192}
<1>1. item.cv \in Nat /\ item.cv = VolumeMap(dec).cv
  BY Entry DEF Shapes
<1>2. VolumeMap(dec).cv # None
  BY <1>1, FormsAssumption
<1> QED BY <1>2 DEF VolumeMap

LEMMA VolumeSet ==
  ASSUME FormsInv, NEW percent \in Percents, SlideVolume(percent)
  PROVE  /\ UNCHANGED <<dec, item, page, row, base>> /\ by' = "volume" /\ table' \in Int
         /\ Accepts(item, table')
         /\ DecodeVolume(table', VolumeMap(dec).max) <= percent
         /\ percent = 100 => DecodeVolume(table', VolumeMap(dec).max) = 100
<1>1. /\ page = "volume" /\ UNCHANGED <<dec, item, page, row, base>> /\ by' = "volume"
      /\ table' = EncodeVolume(percent, VolumeMap(dec).max)
  BY DEF SlideVolume, Stage
<1>2. percent \in 0..100
  BY FormsAssumption
<1>3. VolumeMap(dec).max \in {64, 65, 192} /\ item.max \in Nat /\ table' = EncodeVolume(percent, VolumeMap(dec).max)
      /\ item.min = 0 /\ item.vals = Whole /\ item.max >= VolumeMap(dec).max
  BY <1>1, VolumeMaps, Entry DEF FormsInv, Shapes
<1>4. /\ table' \in 0..VolumeMap(dec).max
      /\ DecodeVolume(table', VolumeMap(dec).max) <= percent
      /\ percent = 100 => DecodeVolume(table', VolumeMap(dec).max) = 100
  <2>1. VolumeMap(dec).max \in {64, 65, 192}
    BY <1>3
  <2>2. Rounds(percent, VolumeMap(dec).max)
    BY <1>2, <2>1, VolumeRounds
  <2> QED BY <1>3, <2>2 DEF Rounds
<1>5. Accepts(item, table') /\ table' \in Int
  BY <1>3, <1>4 DEF Accepts
<1> QED BY <1>1, <1>4, <1>5

LEMMA InvStep == FormsInv /\ [Next]_vars => FormsInv'
<1> SUFFICES ASSUME FormsInv, [Next]_vars PROVE FormsInv'
  OBVIOUS
<1>1. ASSUME NEW p, Open(p) PROVE FormsInv'
  BY <1>1, OpenInv
<1>2. ASSUME NEW v \in Held, Read(v) PROVE FormsInv'
  BY <1>2, ReadInv
<1>3. ASSUME NEW d, OnDraft(d) PROVE FormsInv'
  BY <1>3, DraftInv
<1>4. ASSUME NEW b \in Radios(item), NEW x \in 0..1, OnBit(b, x) PROVE FormsInv'
  BY <1>4, BitInv
<1>5. ASSUME NEW lines \in Texts, SetFromText(lines) PROVE FormsInv'
  BY <1>5, TextInv
<1>6. ASSUME NEW v, SlideSpeed(v) PROVE FormsInv'
  BY <1>6, SpeedInv
<1>7. ASSUME NEW percent \in Percents, SlideVolume(percent) PROVE FormsInv'
  BY <1>7, VolumeSet, ElsewhereInv DEF FormsInv, Shapes
<1>8. CASE Discard
  <2>1. UNCHANGED <<dec, item, page, row, base>> /\ by' = "none" /\ table' = base
    BY <1>8 DEF Discard
  <2> QED BY <2>1, ElsewhereInv DEF FormsInv, Shapes
<1>9. CASE Apply
  <2>1. UNCHANGED <<dec, item, page, row, table>> /\ by' = "none" /\ base' = table
    BY <1>9 DEF Apply
  <2> QED BY <2>1, ElsewhereInv DEF FormsInv, Shapes
<1>10. CASE UNCHANGED vars
  BY <1>10 DEF vars, FormsInv, Shapes, ListStagesAcceptable, Pending, Known, Accepts, Binary
<1> QED BY <1>1, <1>2, <1>3, <1>4, <1>5, <1>6, <1>7, <1>8, <1>9, <1>10 DEF Next

LEMMA AlwaysInv == Spec => []FormsInv
BY InitInv, InvStep, PTL DEF Spec

-----------------------------------------------------------------------------
(* The theorems.                                                           *)

\* What the list has staged is a value of its catalogue, for any CV of any
\* catalogue, whatever was typed, ticked, pasted, slid or read before
\* (CvListPage.tsx parseDraft, onBits).
THEOREM ListStagesGood == Spec => []ListStagesAcceptable
<1>1. FormsInv => ListStagesAcceptable
  BY DEF FormsInv
<1> QED BY <1>1, AlwaysInv, PTL

\* The text or radios the list shows, unless marked as wrong, are what Apply will
\* write (CvListPage.tsx editorDraft, editorBits).
THEOREM ListShowsPending == Spec => []ShownIsPending
<1>1. ShownIsPending
  BY DEF ShownIsPending, Pending, Known, EditorDraft, EditorBits, BitsFromByte, ParseDraft
<1> QED BY <1>1, PTL

\* Setting a radio changes one bit of the byte, for every byte and every bit
\* (CvListPage.tsx onBits).
THEOREM OneRadio == Spec => OneRadioOneBit
<1>1. ASSUME FormsInv, NEW b \in Radios(item), NEW x \in 0..1, OnBit(b, x), Known,
             NEW c \in 0..7
      PROVE  Bit(table', c) = IF c = b THEN x ELSE Bit(table, c)
  <2> DEFINE shown == EditorBits(item, row, table)
             bits == [k \in DOMAIN shown \cup {b} |-> IF k = b THEN x ELSE shown[k]]
  <2>1. table' = Assembled(item, Previous, bits)
    BY <1>1 DEF OnBit, Stage
  <2>2. table \in Int /\ Previous = table /\ shown = BitsFromByte(item, table)
    BY <1>1 DEF FormsInv, Shapes, Known, Previous, EditorBits
  <2>3. b \in item.bits /\ item.bits \subseteq 0..7
    BY <1>1, Entry DEF FormsInv
  <2>4. /\ DOMAIN bits = item.bits
        /\ \A k \in item.bits : bits[k] = IF k = b THEN x ELSE Bit(table, k)
    BY <2>2, <2>3 DEF BitsFromByte
  <2> HIDE DEF shown, bits
  <2>5. \A k \in DOMAIN bits : bits[k] \in 0..1
    BY <1>1, <2>2, <2>3, <2>4, BitType
  <2>6. Bit(table', c) = IF c \notin item.bits THEN Bit(table, c)
                         ELSE IF c \in DOMAIN bits THEN bits[c] ELSE 0
    BY <1>1, <2>1, <2>2, <2>3, <2>5, AssembledBits
  <2> QED BY <2>3, <2>4, <2>6
<1>2. FormsInv =>
        [\A b \in Radios(item), x \in 0..1 : OnBit(b, x) /\ Known =>
           \A c \in 0..7 : Bit(table', c) = IF c = b THEN x ELSE Bit(table, c)]_vars
  BY <1>1
<1> QED BY <1>2, AlwaysInv, PTL DEF OneRadioOneBit

\* No place of the volume slider makes the decoder louder than it says, 100 %
\* stays 100 %, and the catalogue accepts what is staged, for every percent and
\* every profile with a volume (volumeMap.ts encodeVolume, decodeVolume).
THEOREM NeverLouder == Spec => VolumeNeverLouder
<1>1. FormsInv =>
        [\A percent \in Percents : SlideVolume(percent) =>
           /\ Accepts(item, table')
           /\ DecodeVolume(table', VolumeMap(dec).max) <= percent
           /\ percent = 100 => DecodeVolume(table', VolumeMap(dec).max) = 100]_vars
  BY VolumeSet
<1> QED BY <1>1, AlwaysInv, PTL DEF VolumeNeverLouder

=============================================================================
