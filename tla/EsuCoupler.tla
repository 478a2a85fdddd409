----------------------------- MODULE EsuCoupler -----------------------------
(***************************************************************************)
(* The digital coupler of ESU decoders (features/esuCoupler.ts): which key *)
(* drives an output, as far as the mapping rows that were read tell, and   *)
(* the row that is changed to put it on another key.                       *)
(*                                                                         *)
(* tab holds the cells that were read or edited; a cell outside its domain *)
(* is unread.                                                              *)
(***************************************************************************)
EXTENDS EsuMapping

CouplerModeIds == {"esuCoupler", "krois", "roco", "servoCoupler"}

\* esuCouplerModes(), isCouplerMode()
EsuCouplerModes(p) == {m \in p.modes : m.id \in CouplerModeIds}
IsCouplerMode(p, v) == \E m \in EsuCouplerModes(p) : m.value = v

\* couplerOutputCvs()
CouplerOutputCvs(p) == UNION {{o.modeCv, o.brightnessCv} : o \in p.outputConfigs}

\* couplerOutputIds of the page
CouplerOutputIds(p, tab) ==
  {o.id : o \in {o \in p.outputConfigs : IsCouplerMode(p, tab[<<0, o.modeCv>>])}}

KeysOn(p, row) == {n \in p.keys : row.conditions[Key(n)] = "on"}

\* rowPhysicalIds(), where it has been read.
PhysicalRead(p, row, tab) == PagesLoaded(PhysicalCells(p, row), tab)
RowPhysicalIds(p, row, tab) ==
  DecodeBits(p.physical, [i \in 1..p.physicalCvCount |-> tab[OutputCell(p, row, i)]])

AllPhysicalRead(p, tab) == PagesLoaded(PhysicalScanPages(p), tab)
RowsContainingPhysical(p, o, tab) == {r \in Rows(p) : o \in RowPhysicalIds(p, r, tab)}

MutCouplerFState(p, o, tab) ==
  LET matching == RowsContainingPhysical(p, o, tab)
  IN  IF ~AllPhysicalRead(p, tab) \/ \E r \in matching : ~RowRead(p, r, tab)
        THEN [kind |-> "unread"]
      ELSE IF matching = {} THEN [kind |-> "none"]
      ELSE IF Cardinality(matching) = 1
        THEN [kind |-> "simple", row |-> CHOOSE r \in matching : TRUE]
      ELSE [kind |-> "complex"]

\* A row that drives this output and no other makes it simple.
CouplerFState(p, o, tab) ==
  IF ~AllPhysicalRead(p, tab) THEN [kind |-> "unread"]
  ELSE LET matching == RowsContainingPhysical(p, o, tab)
       IN  IF \E r \in matching : ~RowRead(p, r, tab) THEN [kind |-> "unread"]
           ELSE IF matching = {} THEN [kind |-> "none"]
           ELSE IF Cardinality(matching) = 1
                   /\ \A r \in matching : RowPhysicalIds(p, r, tab) = {o}
             THEN [kind |-> "simple", row |-> CHOOSE r \in matching : TRUE]
           ELSE [kind |-> "complex"]

\* The rows emptyRowCandidate() does not skip, from the last one up: a row not
\* read so far, or one that is empty.
Candidates(p, tab) ==
  {r \in Rows(p) :
     \/ ~PhysicalRead(p, r, tab)
     \/ /\ RowPhysicalIds(p, r, tab) = {}
        /\ RowRead(p, r, tab) => IsRowEmpty(p, ReadRow(p, r, tab))}

EmptyRowCandidate(p, tab) ==
  IF Candidates(p, tab) = {} THEN [kind |-> "no-empty"]
  ELSE LET r == Max(Candidates(p, tab))
       IN  [kind |-> IF RowRead(p, r, tab) THEN "found" ELSE "need", row |-> r]

MutWithFKeyOn(p, row, f) == [row EXCEPT !.conditions[Key(f)] = "on"]

\* withFKeyOn(): this key and no other; the other conditions stay.
WithFKeyOn(p, row, f) ==
  [row EXCEPT !.conditions =
     [c \in p.conditions |->
        IF c = Key(f) THEN "on"
        ELSE IF \E n \in p.keys : c = Key(n) THEN "ignore"
        ELSE row.conditions[c]]]

\* planCouplerFAssign()
PlanCouplerFAssign(p, o, f, tab) ==
  LET state == CouplerFState(p, o, tab)
      empty == EmptyRowCandidate(p, tab)
  IN  CASE state.kind \in {"unread", "complex"} -> [kind |-> state.kind]
        [] state.kind = "simple" ->
             [kind |-> "apply", row |-> state.row,
              next |-> WithFKeyOn(p, ReadRow(p, state.row, tab), f),
              overwrites |-> KeysOn(p, ReadRow(p, state.row, tab)) \ {f} # {}]
        [] state.kind = "none" /\ empty.kind = "found" ->
             [kind |-> "apply", row |-> empty.row,
              next |-> WithFKeyOn(p, [EmptyRow(p) EXCEPT !.physical = {o}], f),
              overwrites |-> FALSE]
        [] OTHER -> [kind |-> IF empty.kind = "need" THEN "unread" ELSE "no-empty"]

\* pagesToShowCouplerF()
PagesToShowCouplerF(p, outputs, tab) ==
  IF ~AllPhysicalRead(p, tab)
    THEN PhysicalScanPages(p)
    ELSE PagesForRows(p, UNION {RowsContainingPhysical(p, o, tab) : o \in outputs})

\* pagesToAssignCouplerF()
PagesToAssignCouplerF(p, o, tab) ==
  LET show == UnreadPages(PagesToShowCouplerF(p, {o}, tab), tab)
      empty == EmptyRowCandidate(p, tab)
  IN  IF show # {} THEN show
      ELSE IF CouplerFState(p, o, tab).kind = "none" /\ empty.kind = "need"
        THEN UnreadPages(PagesForRows(p, {empty.row}), tab)
      ELSE {}

=============================================================================
