----------------------------- MODULE MCEsuPages -----------------------------
\* A small decoder for EsuPages, and the codec of the two real ones.
EXTENDS EsuPages, TLC

O1 == <<"aux", 1>>
O2 == <<"aux", 2>>

OneCvOutput(o, cv) == [id |-> o, modeCv |-> cv, brightnessCv |-> cv, spec2Cv |-> cv, cvs |-> {cv}]

\* Two rows of one condition CV (two keys) and one output CV (two outputs),
\* laid out as in a v5, both in one group.
Small ==
  [split |-> TRUE, rowCount |-> 2, groupSize |-> 2, keys |-> 0..1, conditions |-> 0..3,
   conditionCvCount |-> 1, physicalCvCount |-> 1, logicCvCount |-> 0, soundCvCount |-> 0,
   slotCount |-> 0, physical |-> Defs(0, <<O1, O2>>), logicFns |-> {},
   outputConfigs |-> {OneCvOutput(O1, 259), OneCvOutput(O2, 267)},
   modes |-> {Mode(1, "dimmable"), Mode(28, "krois")}]

\* Conditions and outputs of the two rows; O1 is a coupler.
Decoder(c1, o1, c2, o2) ==
  [c \in {0, 3, 8} \X {257, 259, 267, 273} |->
     CASE c = <<3, 257>> -> c1 [] c = <<8, 257>> -> o1
       [] c = <<3, 273>> -> c2 [] c = <<8, 273>> -> o2
       [] c = <<0, 259>> -> 28 [] OTHER -> 0]

\* O1 shares row 1 with O2 and row 2 has a key without an output, or O1 is in no
\* row and row 2 is free.
SmallFactories == {Decoder(16, 3, 64, 0), Decoder(16, 2, 0, 0)}

\* The user edits on the coupler page only.
CouplerSpec ==
  Init /\ [][Next /\ (Idle /\ view # Coupler => side' = side)]_vars

-----------------------------------------------------------------------------
RealProfiles == {LoksoundV4Mapping, LoksoundV5Mapping}

\* Rows with one thing set, and with everything.
SampleRows(p) ==
  LET e == EmptyRow(p)
  IN  {[e EXCEPT !.conditions[c] = st] : c \in p.conditions, st \in CondStates}
        \cup {[e EXCEPT !.physical = {d.id}] : d \in p.physical}
        \cup {[e EXCEPT !.logic = {d.id}] : d \in p.logicFns}
        \cup {[e EXCEPT !.slots = {n}] : n \in 1..p.slotCount}
        \cup {[conditions |-> [c \in p.conditions |-> st], physical |-> {d.id : d \in p.physical},
               logic |-> {d.id : d \in p.logicFns}, slots |-> 1..p.slotCount] : st \in CondStates}

KnowsDelays ==
  \A on, off \in 0..20 :
    /\ EncodeDelay(on, off) \in 0..255 /\ ClampBrightness(on) \in 0..31
    /\ on < 16 /\ off < 16 => DecodeDelay(EncodeDelay(on, off)) = [on |-> on, off |-> off]

Codecs ==
  {p \in RealProfiles : \A row \in SampleRows(p) : \A r \in {1, 16, 17, p.rowCount} :
     LET tab == RowEntries(p, r, row)
     IN  /\ ReadRow(p, r, tab) = row
         /\ DOMAIN tab = PagesForRows(p, {r})
         /\ \A c \in DOMAIN tab : tab[c] \in 0..255}

Apart(F(_), S) == \A x, y \in S : x = y \/ F(x) \cap F(y) = {}
Layouts ==
  {p \in RealProfiles :
    LET RowCells(r) == PagesForRows(p, {r})
        ConfigCvs(o) == o.cvs
    IN  /\ WellLaid(p) /\ Apart(RowCells, Rows(p)) /\ Apart(ConfigCvs, p.outputConfigs)
        /\ Apart(LAMBDA g : GroupRows(p, g), 1..GroupCount(p))
        /\ UNION {GroupRows(p, g) : g \in 1..GroupCount(p)} = Rows(p)
        /\ \A r \in Rows(p) :
             /\ Cardinality(RowCells(r)) = p.conditionCvCount + OutputCvCount(p)
             /\ \A c \in RowCells(r) : c[1] \in 2..12 /\ c[2] \in 257..512
        /\ \A D \in {p.physical, p.logicFns, SlotDefs(p.slotCount)} : \A d, e \in D :
             d = e \/ (d.id # e.id /\ <<d.cvOffset, d.bit>> # <<e.cvOffset, e.bit>>)
        /\ \A m, n \in p.modes : m = n \/ (m.value # n.value /\ m.id # n.id)}

\* Whatever page edits it: what is written for a row is read back as that row, on
\* each of its pages and places there, and touches no CV but its own; a slider of
\* the outputs tab stages a CV byte and shows what it was set to (esuMapping.ts
\* rowEntries, readRow, encodeDelay, clampBrightness).
CodecRoundTrip == view # Away => KnowsDelays /\ Codecs = RealProfiles

\* Whatever page reads them: the rows of all groups share the cells from CV 257 to
\* 512 of the mapping pages without overlapping each other or the configuration of
\* an output; no CV of a row stands for two things (esuMapping.ts rowLayout).
LayoutSound == view # Away => Layouts = RealProfiles

=============================================================================
