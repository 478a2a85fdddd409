------------------------------ MODULE EsuPages ------------------------------
(***************************************************************************)
(* The mapping and the coupler page of an ESU decoder at work: what they   *)
(* read on their own, what the user edits, assigns, applies and gives up,  *)
(* and the decoder, whose CVs 31 and 32 select the page that CVs from 257  *)
(* on belong to.  Both pages share one side table (indexedTable.ts).       *)
(*                                                                         *)
(* A job is what runs under the overlay: batches of CVs to write one by    *)
(* one, each followed by the CVs to ask for, if any.  The side table stays *)
(* in the scope of one locomotive: CvRegistry has the others.  The pages   *)
(* also note CVs 31 and 32 in the main table, written or not, from where   *)
(* neither they nor apply() take a page: the main table is left out here.  *)
(***************************************************************************)
EXTENDS EsuCoupler, CvTable

CONSTANTS
  Profile,
  Factories,  \* what the decoder may have in its cells at first
  MaxTurns,   \* assignF(): i < 8
  NoWish,
  MaxActs     \* bound on the user's actions

Cells == UNION {DOMAIN m : m \in Factories}

\* The CVs of the profile are in the decoder, from CV 257 on; there are outputs
\* to configure, and CVs in every group of rows.
ASSUME PagesAssumption ==
  /\ \A m \in Factories :
       OutputConfigPage(Profile) \cup PagesForRows(Profile, Rows(Profile)) \subseteq DOMAIN m
  /\ Factories # {} /\ Cells \subseteq (0..255) \X (INDEXED_CV_START..512)
  /\ Profile.outputConfigs # {} /\ Profile.rowCount # 0 /\ Profile.groupSize # 0
  /\ \A o \in Profile.outputConfigs : {o.modeCv, o.brightnessCv} \subseteq o.cvs
  /\ \A g \in 1..GroupCount(Profile) : RowGroup(Profile, g) # {}
  /\ {Profile.rowCount, Profile.groupSize, Profile.physicalCvCount,
       Profile.logicCvCount, Profile.soundCvCount} \subseteq Nat
  /\ MaxTurns \in Nat /\ MaxActs \in Nat

\* Things of a row with a bit each in this many CVs, no two with the same.
Placed(defs, count) ==
  /\ \A d \in defs : d.cvOffset \in 0..(count - 1) /\ d.bit \in 0..7
  /\ \A d, e \in defs : d.id = e.id \/ (d.cvOffset = e.cvOffset /\ d.bit = e.bit) => d = e

\* What a condition or an output of a row is in the CVs of that row.  A stride of
\* CVs holds the row, the pages of the v5 conditions end before those of its
\* outputs begin, and no two things share a bit.
WellLaid(p) ==
  /\ {p.rowCount, p.slotCount, p.conditionCvCount, p.physicalCvCount, p.logicCvCount,
       p.soundCvCount} \subseteq Nat
  /\ IF p.split
       THEN /\ p.conditionCvCount <= ROW_STRIDE /\ OutputCvCount(p) <= ROW_STRIDE
            /\ p.rowCount <= 5 * ROWS_PER_PAGE
       ELSE p.conditionCvCount + OutputCvCount(p) <= ROW_STRIDE
  /\ p.split \in BOOLEAN
  /\ p.conditions \subseteq 0..(4 * p.conditionCvCount - 1)
  /\ p.keys \subseteq Nat /\ \A n \in p.keys : Key(n) \in p.conditions
  /\ Placed(p.physical, p.physicalCvCount) /\ Placed(p.logicFns, p.logicCvCount)
  /\ (p.slotCount + 7) \div 8 = p.soundCvCount
  /\ {o.id : o \in p.outputConfigs} \subseteq {d.id : d \in p.physical}

ASSUME RowsAssumption == WellLaid(Profile)

VARIABLES
  mem,       \* the cells of the decoder
  index,     \* its CVs 31 and 32
  view,      \* the page shown; group 0 of the mapping is its outputs tab
  due,       \* effects to run after the render
  couplers,  \* couplerKey when the effect on it last ran
  side,      \* indexedCvStore
  job,
  wish,      \* an assignF() under way
  doubt,     \* cells of which the table may not know the value
  slipped,   \* payload was written or read while another page was selected
  touched,   \* outputs of the rows the user changed
  acts

vars == <<mem, index, view, due, couplers, side, job, wish, doubt, slipped, touched, acts>>
decoder == <<mem, index>>
history == <<doubt, slipped, touched>>

Outputs == {o.id : o \in Profile.outputConfigs}
Mapping(g) == [page |-> "mapping", group |-> g]
Coupler == [page |-> "coupler", group |-> 0]
Away == [page |-> "away", group |-> 0]
Views == {Mapping(g) : g \in 0..GroupCount(Profile)} \cup {Coupler, Away}

Tab == Put(side.snap.baseline, side.snap.table)
Pending == DOMAIN Diffs(side)

OutputsReady == PagesLoaded({0} \X CouplerOutputCvs(Profile), Tab)
CouplersShown == IF OutputsReady THEN CouplerOutputIds(Profile, Tab) ELSE {}

CurrentPages ==
  IF view.group = 0 THEN OutputConfigPage(Profile) ELSE RowGroup(Profile, view.group)

\* No overlay is shown.
NoJob == [why |-> "none", todo |-> <<>>, cvs |-> <<>>, errs |-> {}, hit |-> {}]

Idle == job = NoJob /\ wish = NoWish
User == acts < MaxActs /\ acts' = acts + 1

-----------------------------------------------------------------------------
\* readPages(): CVs 31 and 32 are written, then the CVs of the page are read.
SelectPage(page) == <<Entry(31, INDEX_CV31_VALUE), Entry(32, page)>>

ReadBatches(pages) ==
  LET order == PagesOf(pages)
  IN  [i \in DOMAIN order |->
         [cv32 |-> order[i], cvs |-> SelectPage(order[i]), asks |-> CvsOf(pages, order[i])]]

WriteBatches(diffs) ==
  LET batches == ApplyBatches(diffs)
  IN  [i \in DOMAIN batches |->
         [cv32 |-> batches[i].cv32, cvs |-> batches[i].cvs, asks |-> {}]]

\* hit: cells written that the tab has not been told of.
Job(why, batches) ==
  [why |-> why, todo |-> batches, cvs |-> batches[1].cvs, errs |-> {}, hit |-> {}]

ReadJob(why, pages) == Job(why, ReadBatches(pages))

Unlearned == job.hit

\* The signal of an effect's job aborts it when the page goes or its effect runs
\* again; jobs of a button, of assignF() and of Apply go on.
Aborted == job.why \in {"entry", "all", "show"}

\* The effects of a page that is mounted, or whose tab or group changes.
Effects(v) ==
  CASE v.page = "mapping" -> {"entry"} [] v = Coupler -> {"all", "show"} [] OTHER -> {}

\* One of the pages has been opened.
Init ==
  /\ mem \in Factories
  /\ index = <<INDEX_CV31_VALUE, 0>>
  /\ view \in {Mapping(1), Coupler} /\ due = Effects(view) /\ couplers = {}
  /\ side = NewStore
  /\ job = NoJob /\ wish = NoWish
  /\ doubt = {} /\ slipped = FALSE /\ touched = {}
  /\ acts = 0

-----------------------------------------------------------------------------
Keeps(v) == v.page \in {"mapping", "coupler"}

\* Tabs, groups, links, and the browser's Back, which the overlay does not keep
\* away.  Leaving both pages with pending changes drops them (useBlocker).
Goto(v) ==
  /\ User /\ v # view
  /\ view' = v
  /\ due' = Effects(v)
  /\ couplers' = {}
  /\ side' = IF ~Keeps(v) /\ Pending # {} THEN Discard(side) ELSE side
  /\ job' = IF Aborted THEN NoJob ELSE job
  /\ UNCHANGED <<decoder, wish, history>>

\* An effect wants these pages; while another job runs the daemon refuses one of
\* the two.
Start(why, pages) ==
  IF pages = {} THEN job' = job /\ doubt' = doubt
  ELSE \/ job' = ReadJob(why, pages) /\ doubt' = doubt \cup Unlearned
       \/ job # NoJob /\ job' = job /\ doubt' = doubt

\* The group or the tab is read again as a whole unless all of it is known.
EntryEffect ==
  /\ "entry" \in due /\ due' = due \ {"entry"}
  /\ Start("entry", IF PagesLoaded(CurrentPages, Tab) THEN {} ELSE CurrentPages)
  /\ wish' = IF job' = job THEN wish ELSE NoWish
  /\ UNCHANGED <<decoder, view, couplers, side, slipped, touched, acts>>

\* readAll(): CVs 246 to 248 of the main table and the couplers of page 0, on
\* entry when one of them is not known.
AllEffect ==
  /\ "all" \in due /\ due' = due \ {"all"}
  /\ \/ Start("all", {0} \X CouplerOutputCvs(Profile))
     \/ OutputsReady /\ Start("all", {})
  /\ wish' = IF job' = job THEN wish ELSE NoWish
  /\ UNCHANGED <<decoder, view, couplers, side, slipped, touched, acts>>

MutShowGap(outputs, tab) == PagesToShowCouplerF(Profile, outputs, tab)

ShowGap(outputs, tab) ==
  UnreadPages(PagesToShowCouplerF(Profile, outputs, tab), tab)

\* Reads what tells the keys of the couplers, when there are others than before
\* or a read of it has come to its end.
ShowEffect ==
  /\ view = Coupler
  /\ "show" \in due \/ couplers # CouplersShown
  /\ due' = due \ {"show"} /\ couplers' = CouplersShown
  /\ Start("show", IF CouplersShown = {} THEN {} ELSE ShowGap(CouplersShown, Tab))
  /\ wish' = IF job' = job THEN wish ELSE NoWish
  /\ UNCHANGED <<decoder, view, side, slipped, touched, acts>>

\* The read button.
ReadButton ==
  /\ User /\ Idle /\ Keeps(view)
  /\ job' = ReadJob("button", IF view = Coupler THEN {0} \X CouplerOutputCvs(Profile)
                              ELSE CurrentPages)
  /\ UNCHANGED <<decoder, view, due, couplers, side, wish, history>>

-----------------------------------------------------------------------------
\* What the decoder has where a command for a CV goes now.
Window(cv) == <<index[2], cv>>
Selected == index[1] = INDEX_CV31_VALUE
Held(cv) == IF Selected /\ Window(cv) \in Cells THEN mem[Window(cv)] ELSE 0

Active == job # NoJob
Batch == Head(job.todo)
Meant(cv) == <<Batch.cv32, cv>>

\* The next CV of the batch is written; a failed one of the payload may have been
\* taken by the decoder.
WriteCv ==
  /\ Active /\ job.cvs # <<>>
  /\ LET e == Head(job.cvs)
         there == IF Selected /\ Window(e.cv) \in Cells THEN {Window(e.cv)} ELSE {}
     IN  \E ok, taken \in BOOLEAN :
           /\ ok => taken
           /\ taken /\ ~ok => e.cv >= INDEXED_CV_START
           /\ job' = [job EXCEPT !.cvs = Tail(@),
                                 !.errs = IF ok THEN @ ELSE @ \cup {e.cv},
                                 !.hit = IF taken /\ e.cv >= INDEXED_CV_START
                                           THEN @ \cup there ELSE @]
           /\ IF e.cv < INDEXED_CV_START
                THEN /\ index' = IF taken THEN [index EXCEPT ![e.cv - 30] = e.value] ELSE index
                     /\ UNCHANGED <<mem, slipped>>
                ELSE /\ mem' = IF taken THEN [c \in Cells |-> IF c \in there THEN e.value ELSE mem[c]]
                                        ELSE mem
                     /\ slipped' = (slipped \/ there # {Meant(e.cv)})
                     /\ UNCHANGED index
  /\ UNCHANGED <<view, due, couplers, side, wish, doubt, touched, acts>>

\* The job has no further batch: what waited for it goes on.
Ended ==
  IF Len(job.todo) = 1
    THEN /\ job' = NoJob
         /\ due' = IF job.why = "show" /\ view = Coupler THEN due \cup {"show"} ELSE due
         /\ wish' = IF job.why = "assign" THEN [wish EXCEPT !.turns = @ + 1] ELSE wish
    ELSE /\ job' = [job EXCEPT !.todo = Tail(@), !.cvs = Tail(job.todo)[1].cvs,
                               !.errs = {}, !.hit = {}]
         /\ UNCHANGED <<due, wish>>

\* readPages() goes on whatever came of CVs 31 and 32, which it remembers in the
\* main table all the same: the CVs that could be read are stored under the page
\* that was meant.
ReadPage ==
  /\ Active /\ job.cvs = <<>> /\ Batch.asks # {}
  /\ \E got \in SUBSET Batch.asks :
       LET cells == {Meant(cv) : cv \in got}
           e == [c \in cells |-> Held(c[2])]
           right == \A cv \in Batch.asks : Selected /\ Window(cv) = Meant(cv)
       IN  /\ side' = RememberRead(side, e)
           /\ doubt' = IF right THEN doubt \ cells ELSE doubt \cup cells
           /\ slipped' = (slipped \/ ~right)
  /\ Ended
  /\ UNCHANGED <<decoder, view, couplers, touched, acts>>

MutConfirmed(batch, errs) ==
  {i \in DOMAIN batch.cvs : batch.cvs[i].cv >= INDEXED_CV_START /\ batch.cvs[i].cv \notin errs}

\* The payload an answer confirms: none of it when the page was not selected.
Confirmed(batch, errs) ==
  {i \in DOMAIN batch.cvs : /\ batch.cvs[i].cv >= INDEXED_CV_START
                            /\ batch.cvs[i].cv \notin errs
                            /\ errs \cap {31, 32} = {}}

\* The answer to a batch of apply().
BatchDone ==
  /\ Active /\ job.cvs = <<>> /\ Batch.asks = {}
  /\ LET ok == Confirmed(Batch, job.errs)
         cells == {Meant(Batch.cvs[i].cv) : i \in ok}
         sent == [c \in cells |->
                    (CHOOSE x \in {Batch.cvs[i] : i \in ok} : Meant(x.cv) = c).value]
     IN  /\ side' = RememberRead(side, sent)
         /\ doubt' = (doubt \cup job.hit) \ cells
  /\ Ended
  /\ UNCHANGED <<decoder, view, couplers, slipped, touched, acts>>

\* Cancelled, refused as busy, timed out or disconnected: assignF() ends with it.
Stop ==
  /\ Active
  /\ job' = NoJob /\ wish' = NoWish
  /\ doubt' = doubt \cup job.hit
  /\ UNCHANGED <<decoder, view, due, couplers, side, slipped, touched, acts>>

-----------------------------------------------------------------------------
\* patchRow(): the whole row is encoded again.
Stage(r, row) == side' = SetMany(side, RowEntries(Profile, r, row))

EditRow(r, row) ==
  /\ User /\ Idle /\ view.page = "mapping" /\ view.group # 0
  /\ r \in GroupRows(Profile, view.group) /\ RowRead(Profile, r, Tab)
  /\ Stage(r, row)
  /\ touched' = touched \cup ReadRow(Profile, r, Tab).physical \cup row.physical
  /\ UNCHANGED <<decoder, view, due, couplers, job, wish, doubt, slipped>>

\* A condition of the row is cycled, an output of it toggled.
EditCondition(r, c) ==
  LET row == ReadRow(Profile, r, Tab)
  IN  EditRow(r, [row EXCEPT !.conditions[c] = CycleCond(@)])
EditPhysical(r, o) ==
  LET row == ReadRow(Profile, r, Tab)
  IN  EditRow(r, [row EXCEPT !.physical = IF o \in @ THEN @ \ {o} ELSE @ \cup {o}])

\* onMode of the coupler page: a coupler mode, or none.
EditMode(o, v) ==
  /\ User /\ Idle /\ view = Coupler /\ OutputsReady
  /\ side' = SetMany(side, One(<<0, o.modeCv>>, v))
  /\ UNCHANGED <<decoder, view, due, couplers, job, wish, history>>

\* A key is chosen for a coupler.
AssignF(o, f) ==
  /\ User /\ Idle /\ view = Coupler /\ OutputsReady
  /\ o \in CouplersShown /\ CouplerFState(Profile, o, Tab).kind \in {"none", "simple"}
  /\ wish' = [out |-> o, key |-> f, turns |-> 0]
  /\ UNCHANGED <<decoder, view, due, couplers, side, job, history>>

AssignGap == UnreadPages(PagesToAssignCouplerF(Profile, wish.out, Tab), Tab)

\* The loop of assignF(): what the plan needs is read first.
AssignReads ==
  /\ wish # NoWish /\ ~Active /\ wish.turns < MaxTurns
  /\ AssignGap # {}
  /\ job' = ReadJob("assign", AssignGap)
  /\ UNCHANGED <<decoder, view, due, couplers, side, wish, history, acts>>

\* Then the row is staged, if there is one and the user lets its keys go.
AssignPlans ==
  /\ wish # NoWish /\ ~Active
  /\ wish' = NoWish
  /\ LET plan == PlanCouplerFAssign(Profile, wish.out, wish.key, Tab)
     IN  IF AssignGap = {} /\ wish.turns < MaxTurns /\ plan.kind = "apply"
           THEN \/ /\ Stage(plan.row, plan.next)
                   /\ touched' = touched \cup {wish.out}
                \/ plan.overwrites /\ UNCHANGED <<side, touched>>
           ELSE /\ AssignGap = {} \/ wish.turns = MaxTurns
                /\ UNCHANGED <<side, touched>>
  /\ UNCHANGED <<decoder, view, due, couplers, job, doubt, slipped, acts>>

DiscardChanges ==
  /\ User /\ Idle /\ Keeps(view) /\ Pending # {}
  /\ side' = Discard(side)
  /\ UNCHANGED <<decoder, view, due, couplers, job, wish, history>>

Apply ==
  /\ User /\ Idle /\ Keeps(view) /\ Pending # {}
  /\ job' = Job("apply", WriteBatches(Diffs(side)))
  /\ UNCHANGED <<decoder, view, due, couplers, side, wish, history>>

-----------------------------------------------------------------------------
Effect == EntryEffect \/ AllEffect \/ ShowEffect

Edit == \/ \E r \in Rows(Profile) :
             \/ \E c \in {Key(n) : n \in Profile.keys} : EditCondition(r, c)
             \/ \E o \in Outputs : EditPhysical(r, o)
        \/ \E o \in Profile.outputConfigs :
             \E v \in {0} \cup {m.value : m \in EsuCouplerModes(Profile)} : EditMode(o, v)
        \/ DiscardChanges

Assign == \/ \E o \in Outputs, f \in Profile.keys : AssignF(o, f)
          \/ AssignReads
          \/ AssignPlans

Next == \/ \E v \in Views : Goto(v)
        \/ Effect \/ ReadButton \/ Apply \/ Edit \/ Assign
        \/ WriteCv \/ ReadPage \/ BatchDone \/ Stop

Spec == Init /\ [][Next]_vars

-----------------------------------------------------------------------------
\* What the tab holds for read or written is what the decoder has, also when CVs
\* of a batch, or the selection of its page, fail, and when Apply is cancelled in
\* the middle of a page.  Left out: cells the tab was told nothing of, and cells
\* read while another page was selected (EsuMappingPage.tsx 193-202).
BaselineIsDecoder ==
  \A c \in DOMAIN side.snap.baseline :
    side.snap.baseline[c] = mem[c] \/ c \in doubt \cup Unlearned

\* The conditions under which a set of cells turns output o on.
Drives(m, o) ==
  {ReadRow(Profile, r, m).conditions : r \in RowsContainingPhysical(Profile, o, m)}

\* Putting a coupler on another key, cell by cell and failing anywhere, never
\* changes when any other output of the decoder is on: no row in use is taken,
\* no row shared with another output is changed.
OthersKept ==
  [][mem' # mem /\ ~slipped' =>
       \A o \in Outputs \ touched' : Drives(mem', o) = Drives(mem, o)]_vars

\* After assignF() the coupler is on the chosen key alone, as the page will show
\* it, and nothing is staged for a row that drives another output.
AssignTakesHold ==
  [][AssignPlans /\ side' # side =>
       LET state == CouplerFState(Profile, wish.out, Tab')
       IN  /\ state.kind = "simple"
           /\ KeysOn(Profile, ReadRow(Profile, state.row, Tab')) = {wish.key}
           /\ \A r \in Rows(Profile) :
                RowPhysicalIds(Profile, r, Tab) \ {wish.out} # {} =>
                  \A c \in PagesForRows(Profile, {r}) \cap DOMAIN Tab : Tab'[c] = Tab[c]]_vars

\* What the coupler page reads on its own never overwrites a pending change, be
\* it made there or on the mapping page (unreadPages before each read).
CouplerKeepsPending ==
  [][ReadPage /\ job.why \in {"show", "assign"} =>
       \A c \in Pending : side'.snap.table[c] = side.snap.table[c]]_vars

\* Claimed by docs/coupler.md: leaving /coupler for /mapping does not discard.
\* The read the mapping page starts on entry keeps what is pending.
SwitchKeepsPending ==
  [][ReadPage /\ job.why = "entry" =>
       \A c \in Pending : side'.snap.table[c] = side.snap.table[c]]_vars

=============================================================================
