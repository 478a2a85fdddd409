------------------------------- MODULE CvForms -------------------------------
(***************************************************************************)
(* One CV of a decoder as the CV list, its "set from text" dialog and the  *)
(* sliders of the speed and volume pages edit it: what each of them stages *)
(* in the table, and what the editor of the list then shows.  The table is *)
(* that of CvRegistry for one scope and one key.                           *)
(***************************************************************************)
EXTENDS Catalogue

CONSTANTS
  Unread,      \* undefined
  Wrong,       \* text that is no acceptable number
  Items(_),    \* of a profile, the CVs looked at
  Samples(_),  \* of a CV, what is typed or slid
  Radios(_),   \* of a CV, the radios used
  Held,        \* bytes a decoder may have
  Texts,       \* of a CV, the lines pasted about it
  Percents     \* where the volume slider is put

VARIABLES
  dec,    \* the selected profile
  item,   \* the CV looked at
  page,   \* "list", "speed" or "volume"
  table,  \* getCv()
  base,   \* the baseline's value
  row,    \* RowState of the CV, while the list is mounted
  by      \* who staged the pending value

vars == <<dec, item, page, table, base, row, by>>

\* What the editor accepts.
Accepts(i, n) == n \in i.min..i.max /\ (i.vals = Whole \/ n \in i.vals)

\* The volume slider's CV, and what stands for 100 % (volumeMapFor).
VolumeMap(d) ==
  CASE d = "zimo-ms450" -> [cv |-> 266, max |-> 65]
    [] d = "loksound-v4" -> [cv |-> 63, max |-> 64]
    [] d = "loksound-v5" -> [cv |-> 63, max |-> 192]
    [] d = "rb23xx" -> [cv |-> 203, max |-> 64]
    [] OTHER -> [cv |-> None, max |-> 0]

ASSUME FormsAssumption ==
  /\ {None, Unread, Wrong} \cap Int = {}
  /\ Held \subseteq 0..255 /\ Percents \subseteq 0..100
  /\ Texts \subseteq Seq(0..255 \cup {Wrong}) \ {<<>>}
  /\ \A d \in Decoders : Items(d) \subseteq ToSet(Cvs(d))
  /\ \A d \in Decoders : \A i \in Items(d) : Radios(i) \subseteq i.bits

\* What every entry of every catalogue is like: radios are bits of a byte and
\* leave none of its values out, and so does the CV of the volume slider.
ASSUME EntriesAssumption ==
  \A d \in Decoders : \A i \in ToSet(Cvs(d)) :
    /\ {i.cv, i.min, i.max} \subseteq Nat
    /\ i.bits \subseteq 0..7 /\ i.def \in 0..255 \cup {None}
    /\ i.bits # {} => i.min = 0 /\ i.max = 255 /\ i.vals = Whole
    /\ i.cv = VolumeMap(d).cv => i.min = 0 /\ i.vals = Whole /\ i.max >= VolumeMap(d).max

\* No CV is listed twice, none is beyond 1024, and the editor accepts every
\* default; the wizards find their CVs in the list; a batch keeps its CVs.
Sound(d) ==
  LET list == Cvs(d)
      cvs == {list[i].cv : i \in DOMAIN list}
      its(cv) == {i \in ToSet(list) : i.cv = cv}
  IN  /\ Cardinality(cvs) = Len(list) /\ cvs \subseteq 1..1024
      /\ \A i \in DOMAIN list : list[i].def # None => Accepts(list[i], list[i].def)
      /\ "address" \in Features(d) =>
           /\ {1, 17, 18, 29} \subseteq cvs
           /\ \A i \in its(29) : LongAddressBit(d) \in i.bits
      /\ "volume" \in Features(d) =>
           \E i \in its(VolumeMap(d).cv) : Accepts(i, VolumeMap(d).max)
      /\ \A S \in SUBSET {1, 2, 6, 29} :
           ToSet(WriteOrder(d, S)) = S /\ Len(WriteOrder(d, S)) = Cardinality(S)

Detected == {Manufacturer(cv8) : cv8 \in 0..255} \ {None}
SoundProfiles == {d \in Decoders : Sound(Canonical(d)) /\ Detected \subseteq Decoders}

NoRow == [value |-> Unread, draft |-> Unread, bits |-> Unread]

Known == table # Unread
Pending == Known /\ table # base

Bit(v, b) == (v \div 2^b) % 2

\* The byte with these bits.
Byte8(f) == f[0] + 2 * f[1] + 4 * f[2] + 8 * f[3] + 16 * f[4] + 32 * f[5] + 64 * f[6] + 128 * f[7]

-----------------------------------------------------------------------------
MutParseDraft(i, draft) == IF draft \in 0..255 THEN draft ELSE Wrong

\* parseDraft()
ParseDraft(i, draft) == IF Accepts(i, draft) THEN draft ELSE Wrong

MutEditorDraft(i, r, staged) == IF r.draft # Unread THEN r.draft ELSE staged

\* editorDraft(): the text in the field.
EditorDraft(i, r, staged) ==
  IF r.draft # Unread
    THEN IF ParseDraft(i, r.draft) = Wrong \/ staged = Unread THEN r.draft ELSE staged
  ELSE IF staged # Unread THEN staged
  ELSE IF r.value # Unread THEN r.value
  ELSE IF i.def # None THEN i.def
  ELSE Wrong

BitsFromByte(i, v) == [b \in i.bits |-> Bit(v, b)]

\* editorBits(): the radios, some of which may be undecided.
EditorBits(i, r, staged) ==
  IF staged # Unread THEN BitsFromByte(i, staged)
  ELSE IF r.bits # Unread THEN r.bits
  ELSE IF i.def # None THEN BitsFromByte(i, i.def)
  ELSE [b \in {} |-> 0]

MutAssembled(i, previous, bits) ==
  Byte8([b \in 0..7 |-> IF b \in DOMAIN bits THEN bits[b] ELSE 0])

\* onBits: the documented bits from the radios, the others from before.
Assembled(i, previous, bits) ==
  Byte8([b \in 0..7 |-> IF b \notin i.bits THEN Bit(previous, b)
                        ELSE IF b \in DOMAIN bits THEN bits[b] ELSE 0])

Previous ==
  IF Known THEN table
  ELSE IF row.value # Unread THEN row.value
  ELSE IF item.def # None THEN item.def
  ELSE 0

MutEncodeVolume(percent, max) == (percent * max + 99) \div 100
EncodeVolume(percent, max) == (percent * max) \div 100

DecodeVolume(v, max) == ((IF v < max THEN v ELSE max) * 100) \div max

-----------------------------------------------------------------------------
Init ==
  /\ dec \in Decoders
  /\ item \in Items(dec)
  /\ page = "list"
  /\ table = Unread /\ base = Unread
  /\ row = NoRow
  /\ by = "none"

Stage(v, who) == table' = v /\ by' = who

\* The list is unmounted on another page and forgets its rows.
Open(p) ==
  /\ p # page
  /\ p = "speed" => dec \in {"nmra", "loksound-v4", "rb23xx"} /\ item.cv \in 2..6
  /\ p = "volume" => item.cv = VolumeMap(dec).cv
  /\ page' = p /\ row' = NoRow
  /\ UNCHANGED <<dec, item, table, base, by>>

\* readOne() of the list, readAll() and read() of the other pages.
Read(v) ==
  /\ table' = v /\ base' = v /\ by' = "none"
  /\ row' = IF page = "list" THEN [value |-> v, draft |-> v, bits |-> BitsFromByte(item, v)]
            ELSE row
  /\ UNCHANGED <<dec, item, page>>

\* The text of the field changes.
OnDraft(d) ==
  /\ page = "list" /\ item.bits = {} /\ ~item.readOnly
  /\ row' = [row EXCEPT !.draft = d]
  /\ IF ParseDraft(item, d) # Wrong THEN Stage(d, "list") ELSE UNCHANGED <<table, by>>
  /\ UNCHANGED <<dec, item, page, base>>

\* The radio of bit b is set to x.
OnBit(b, x) ==
  /\ page = "list" /\ ~item.readOnly
  /\ LET shown == EditorBits(item, row, table)
         bits == [c \in DOMAIN shown \cup {b} |-> IF c = b THEN x ELSE shown[c]]
     IN  /\ row' = [row EXCEPT !.bits = bits]
         /\ Stage(Assembled(item, Previous, bits), "list")
  /\ UNCHANGED <<dec, item, page, base>>

\* parseCvBackup(): the last of the lines about a CV counts, unless one is wrong;
\* lines that say "error" are skipped, and left out here.
Parsed(lines) ==
  IF \E i \in DOMAIN lines : lines[i] = Wrong THEN Wrong ELSE Last(lines)

\* "Set from text": any byte for any CV.
SetFromText(lines) ==
  /\ page = "list" /\ Parsed(lines) # Wrong
  /\ Stage(Parsed(lines), "text")
  /\ UNCHANGED <<dec, item, page, base, row>>

\* The slider of the speed page runs from 0 to the catalogue's maximum.
SlideSpeed(v) ==
  /\ page = "speed" /\ Known
  /\ v \in 0..item.max
  /\ Stage(v, "slider")
  /\ UNCHANGED <<dec, item, page, base, row>>

SlideVolume(percent) ==
  /\ page = "volume" /\ Known
  /\ Stage(EncodeVolume(percent, VolumeMap(dec).max), "volume")
  /\ UNCHANGED <<dec, item, page, base, row>>

Discard ==
  /\ Pending
  /\ table' = base /\ by' = "none"
  /\ UNCHANGED <<dec, item, page, base, row>>

\* Apply, when the CV is confirmed.
Apply ==
  /\ Pending
  /\ base' = table /\ by' = "none"
  /\ UNCHANGED <<dec, item, page, table, row>>

Next ==
  \/ \E p \in {"list", "speed", "volume"} : Open(p)
  \/ \E v \in Held : Read(v)
  \/ \E d \in Samples(item) \cup {Wrong} : OnDraft(d)
  \/ \E b \in Radios(item), x \in 0..1 : OnBit(b, x)
  \/ \E lines \in Texts : SetFromText(lines)
  \/ \E v \in Samples(item) : SlideSpeed(v)
  \/ \E percent \in Percents : SlideVolume(percent)
  \/ Discard
  \/ Apply

Spec == Init /\ [][Next]_vars

-----------------------------------------------------------------------------
\* In no catalogue is a CV listed twice, of which the rows, the open CV and the
\* volume and speed pages would take the first; every default is a value the
\* editor itself accepts; the address and volume wizards find their CVs, and the
\* bit for the long address, in the list; what detection answers is a profile
\* (decoders/*.ts, written by hand; volumeMap.ts, detectDecoder.ts).
CatalogueSound == dec \in SoundProfiles

\* What the list staged is a value of the catalogue, whatever had been read,
\* pasted or slid before (CvListPage.tsx 122-132, 308-315).
ListStagesAcceptable == Pending /\ by = "list" => Accepts(item, table) /\ ~item.readOnly

\* Setting one radio changes that bit of the byte and no other: neither the bits
\* without a radio nor those of radios that still show what was read before a
\* paste, a discard or a visit of another page (CvListPage.tsx 316-328).
OneRadioOneBit ==
  [][\A b \in Radios(item), x \in 0..1 : OnBit(b, x) /\ Known =>
       \A c \in 0..7 : Bit(table', c) = IF c = b THEN x ELSE Bit(table, c)]_vars

\* What the list shows and does not mark as wrong is what Apply will write, also
\* after the value was changed behind the editor's back by a pasted text, a
\* discard or another page (CvListPage.tsx 57-75).
ShownIsPending ==
  Pending /\ page = "list" =>
    IF item.bits = {}
      THEN ParseDraft(item, EditorDraft(item, row, table)) \in {table, Wrong}
      ELSE \A b \in item.bits : EditorBits(item, row, table)[b] = Bit(table, b)

\* Rounding never makes a decoder louder than the slider was set, nor sets a
\* volume its own catalogue entry refuses (volumeMap.ts 21-30).
VolumeNeverLouder ==
  [][\A percent \in Percents : SlideVolume(percent) =>
       /\ Accepts(item, table')
       /\ DecodeVolume(table', VolumeMap(dec).max) <= percent
       /\ percent = 100 => DecodeVolume(table', VolumeMap(dec).max) = 100]_vars

\* Claimed by ARCHITECTURE.md: out-of-range values are not staged.
OutOfRangeNotStaged == Pending /\ by = "slider" => Accepts(item, table)

\* Claimed by ARCHITECTURE.md: unknown bits stay as read (or 0).
UnknownBitsOrZero ==
  Pending /\ by = "list" /\ base = Unread /\ item.bits # {} =>
    \A b \in 0..7 \ item.bits : Bit(table, b) = 0

=============================================================================
