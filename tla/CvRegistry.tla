----------------------------- MODULE CvRegistry -----------------------------
(***************************************************************************)
(* The CV registry of one browser tab: the tables of CvTable, the URL that *)
(* names their scope, the handlers of the pages that stage, read, apply    *)
(* and discard, and the locomotives they reach.                            *)
(*                                                                         *)
(* Five CVs stand for all: "A", the short address of CV 1; "L", the long   *)
(* one of CVs 17 and 18; "M", a bit field 2 * u + k like CV 29, of which   *)
(* the catalogue names the bit k, that says which of the two counts, and   *)
(* not the bit u; "B", any other CV; and "S", an indexed CV of the side    *)
(* table that the mapping page registers.                                  *)
(*                                                                         *)
(* The URL names a locomotive by its address, and a track.  They are       *)
(* independent: what is sent on the programming track reaches the          *)
(* locomotive that stands there, whatever the address.                     *)
(***************************************************************************)
EXTENDS CvTable, Sequences, SequencesExt

CONSTANTS
  Locos,
  Decoders,   \* profiles of the catalogue, with the feature "address"
  NoDecoder,
  NoUrl,      \* nothing has been rendered yet
  Factory,    \* what the locomotives have in their CVs at first
  Addresses,  \* addresses a locomotive can be given
  Longs,      \* those that the Address page writes as long ones
  Inputs,     \* what the user types, or has a backup of, for a CV
  MaxActs     \* bound on the user's actions

VARIABLES
  mem,       \* mem[l][k]: what locomotive l has in CV k
  prog,      \* the locomotive on the programming track
  url,       \* page and query of the address bar
  shown,     \* the URL last rendered
  hist,      \* the entries behind it
  main,      \* mainCvStore
  side,      \* indexedCvStore
  rows,      \* CvListPage: row.value
  ops,       \* requests under way or queued, oldest first
  doubt,     \* <<l, k>>: the table filed under l need not have CV k of l right
  acts       \* user's actions so far

vars == <<mem, prog, url, shown, hist, main, side, rows, ops, doubt, acts>>
nav == <<url, shown, hist>>
stores == <<main, side>>

Pages == {"home", "cv", "mapping", "address"}
AddressKeys == {"A", "L", "M"}
MainKeys == AddressKeys \cup {"B"}
SideKeys == {"S"}
Keys == MainKeys \cup SideKeys
Values(k) == CASE k \in {"A", "L"} -> Addresses [] k = "M" -> 0..3 [] OTHER -> 0..1

Urls == [page : Pages, dec : Decoders \cup {NoDecoder}, addr : Addresses \cup {0},
         track : {"prog", "pom"}]
Scope(u) == <<u.dec, u.addr>>
Scopes == {Scope(u) : u \in Urls}

ASSUME RegistryAssumption ==
  /\ Addresses \subseteq Nat \ {0} /\ Longs \subseteq Addresses
  /\ NoDecoder \notin Decoders /\ NoUrl \notin Urls /\ NoScope \notin Scopes
  /\ Factory \in [Locos -> [Keys -> Nat]]
  /\ \A l \in Locos, k \in Keys : Factory[l][k] \in Values(k)
  /\ DOMAIN Inputs = MainKeys /\ \A k \in MainKeys : Inputs[k] \subseteq Values(k)
  /\ MaxActs \in Nat

\* decodeAddress()
Address(cvs) == IF cvs["M"] % 2 = 1 THEN cvs["L"] ELSE cvs["A"]

\* The locomotives that have address a.
Bearers(a) == {l \in Locos : Address(mem[l]) = a}

\* Whose table it is that is filed under address a: before an address is known it
\* is that of the locomotive on the programming track.
Owners(a) == IF a = 0 THEN {prog} ELSE Bearers(a)

\* The locomotives that hear a command sent with the query of u.
Reach(u) == IF u.track = "prog" THEN {prog} ELSE Bearers(u.addr)

\* Written in any order, any part of e gives no locomotive of L the address of
\* another one.
KeepsApart(L, e) ==
  \A l \in L, o \in Locos, K \in SUBSET DOMAIN e :
    Address(Put(mem[l], Only(e, K))) = Address(mem[o]) => l = o

Idle == ops = <<>>
Rendered == shown = url

SideDiffs == IF shown # NoUrl /\ shown.page = "mapping" THEN Diffs(side) ELSE Nothing

\* hasPending
Pending == DOMAIN Diffs(main) # {} \/ DOMAIN SideDiffs # {}

\* Requests of the Address page and of the address effect, which go to the
\* programming track whatever the query says.
OnProg(kind) == kind \in {"auto", "locate", "set", "verify"}

\* A request: the URL its handler saw, what is left to do, what the daemon answered
\* and what it could not do; sure: what of the answer is so at the locomotives that
\* hear it; owner: whose table the page showed.
Request(kind, u, e) ==
  [kind |-> kind, url |-> u, pend |-> e, todo |-> e, got |-> Nothing, sure |-> {},
   errs |-> {}, heard |-> IF OnProg(kind) THEN {prog} ELSE Reach(u),
   owner |-> Owners(u.addr)]

Asked(K) == [k \in K |-> Unread]
Writing(op) == op.kind \in {"write", "side", "set"}

\* endRead(): the last request closes the overlay and flushes the main table.
Closed(st, rest) == IF rest = <<>> THEN Flush(st) ELSE st

\* The table that op's results are stored in is not that of whom they are from: it
\* was not when op was sent, or another took its place, and it is not now.
Astray(op, st) ==
  /\ op.heard # Owners(st.snap.scope[2])
  /\ st.snap.scope # Scope(op.url) \/ op.heard # op.owner

\* What is in doubt once op's results e are stored in st.
Told(op, st, e) ==
  IF Astray(op, st)
    THEN doubt \cup (Owners(st.snap.scope[2]) \X DOMAIN e)
    ELSE doubt \ (op.heard \X (DOMAIN e \cap op.sure))

User ==
  /\ acts < MaxActs
  /\ acts' = acts + 1
  /\ Rendered
UserIdle == User /\ Idle

\* What a user's action that only touches the tables leaves alone.
Quiet == UNCHANGED <<mem, prog, nav, ops, doubt>>

-----------------------------------------------------------------------------
\* A new tab opens any address of the application.
Init ==
  /\ mem = Factory
  /\ prog \in Locos
  /\ url \in {u \in Urls : u.dec # NoDecoder \/ u.page = "home"}
  /\ shown = NoUrl
  /\ hist = <<>> /\ ops = <<>>
  /\ main = NewStore /\ side = NewStore
  /\ rows = Nothing
  /\ doubt = {}
  /\ acts = 0

\* What the table st shows of the address CVs, an unknown one as 0.
Displayed(st) == [k \in AddressKeys |-> IF Known(st, k) THEN Get(st, k) ELSE 0]

\* The address that st shows need not be that of the locomotives L: one of its CVs
\* is not known, is pending, or is in doubt.
Misled(L, st, d) ==
  \E k \in AddressKeys :
    \/ k \notin DOMAIN st.snap.baseline \/ k \in DOMAIN Diffs(st)
    \/ L = {} \/ \E l \in L : <<l, k>> \in d

\* The table st moves to address a without being that of whom it finds there.
Foisted(st, a, K) == Owners(a) \X (DOMAIN st.snap.baseline \ K)

\* The effect on decoder and station: with address 0, take the address from the
\* table, or read it (the previous effect's read, the last request, is aborted).
AddressEffect(st) ==
  LET rest == IF ops # <<>> /\ Last(ops).kind = "auto" THEN Front(ops) ELSE ops
      a == Address(Displayed(st))
  IN  IF url.dec = NoDecoder \/ url.addr # 0
        THEN /\ main' = st /\ url' = url
             /\ ops' = rest /\ doubt' = doubt
        ELSE IF \A k \in AddressKeys : Known(st, k)
        THEN /\ main' = Retarget(st, <<url.dec, a>>)
             /\ url' = [url EXCEPT !.addr = a]
             /\ doubt' = IF Misled({prog}, st, doubt) THEN doubt \cup Foisted(st, a, {})
                                                     ELSE doubt
             /\ ops' = rest
        ELSE /\ main' = st /\ url' = url /\ doubt' = doubt
             /\ ops' = Append(rest, Request("auto", url, Asked(AddressKeys)))

\* React renders a new URL: the layout effect moves the tables to its scope, the
\* registered side table with them; CvListPage keeps its rows while mounted.
Render ==
  /\ ~Rendered
  /\ shown' = url
  /\ side' = IF url.page = "mapping" THEN EnsureScope(side, Scope(url)) ELSE side
  /\ rows' = IF shown # NoUrl /\ shown.page = "cv" /\ url.page = "cv" THEN rows ELSE Nothing
  /\ LET st == EnsureScope(main, Scope(url))
     IN  IF shown = NoUrl \/ shown.dec # url.dec
           THEN AddressEffect(st)
           ELSE main' = st /\ UNCHANGED <<url, ops, doubt>>
  /\ UNCHANGED <<mem, prog, hist, acts>>

-----------------------------------------------------------------------------
\* A number is typed on the CV list.
EditNumber(k, v) ==
  /\ UserIdle /\ shown.page = "cv"
  /\ main' = SetMany(main, One(k, v))
  /\ UNCHANGED <<side, rows>> /\ Quiet

MutUnnamed(previous) == previous

\* previous & ~mask: the bit no radio names.
Unnamed(previous) == previous - (previous % 2)

\* onBits: a radio of the bit field is set to k.
EditBit(k) ==
  /\ UserIdle /\ shown.page = "cv"
  /\ LET previous == IF Known(main, "M") THEN Get(main, "M")
                     ELSE IF "M" \in DOMAIN rows THEN rows["M"] ELSE 0
     IN  main' = SetMany(main, One("M", Unnamed(previous) + k))
  /\ UNCHANGED <<side, rows>> /\ Quiet

\* patchRow of the mapping page, which shows the rows of pages that were read.
EditSide(v) ==
  /\ UserIdle /\ shown.page = "mapping" /\ Known(side, "S")
  /\ side' = SetMany(side, One("S", v))
  /\ UNCHANGED <<main, rows>> /\ Quiet

\* Odrzuc: the main table and the registered side.
DiscardAll ==
  /\ main' = Discard(main)
  /\ side' = IF shown.page = "mapping" THEN Discard(side) ELSE side

\* guardUnsaved(): go on when nothing is pending or the user gives it up.
Guarded == IF Pending THEN DiscardAll ELSE UNCHANGED stores

DiscardChanges ==
  /\ UserIdle /\ Pending
  /\ DiscardAll
  /\ UNCHANGED rows /\ Quiet

-----------------------------------------------------------------------------
\* setParams() or a link: a new entry of the history.
Push(u) ==
  /\ url' = u
  /\ hist' = Append(hist, url)
  /\ UNCHANGED <<mem, prog, shown, rows, ops, doubt>>

\* commitAddress() of the header, pick() of the locomotive list.
ChangeAddress(a) ==
  /\ UserIdle /\ a # url.addr
  /\ Guarded
  /\ Push([url EXCEPT !.addr = a])

\* changeDecoder() of the navigator.
ChangeDecoder(d) ==
  /\ UserIdle /\ d # url.dec
  /\ Guarded
  /\ Push([url EXCEPT !.dec = d])

\* The tabs of the header: the table stays.
ChangeTrack(t) ==
  /\ UserIdle /\ t # url.track
  /\ UNCHANGED stores
  /\ Push([url EXCEPT !.track = t])

\* A tile of the home page asks nothing.
PickTile(d) ==
  /\ UserIdle /\ url.page = "home" /\ d # url.dec
  /\ UNCHANGED stores
  /\ Push([url EXCEPT !.dec = d])

MutLeave(p) == side

\* useBlocker(): leaving the mapping page with pending changes drops them.
Leave(p) ==
  IF shown.page = "mapping" /\ p # "mapping" /\ DOMAIN Diffs(side) # {}
    THEN Discard(side) ELSE side

Goto(p) ==
  /\ UserIdle /\ p # url.page /\ url.dec # NoDecoder
  /\ side' = Leave(p) /\ UNCHANGED main
  /\ Push([url EXCEPT !.page = p])

\* The browser's Back, which the overlay does not keep away.
Back ==
  /\ User /\ hist # <<>>
  /\ url' = Last(hist) /\ hist' = Front(hist)
  /\ side' = Leave(Last(hist).page) /\ UNCHANGED main
  /\ UNCHANGED <<mem, prog, shown, rows, ops, doubt>>

\* The page is loaded again: beforeunload flushes; requests under way stop
\* between two CVs.
Reload ==
  /\ User
  /\ main' = Reloaded(Flush(main)) /\ side' = Reloaded(Flush(side))
  /\ shown' = NoUrl /\ rows' = Nothing /\ ops' = <<>>
  /\ UNCHANGED <<mem, prog, url, hist, doubt>>

\* persistNow(), 250 ms after the first change.
PersistMain ==
  /\ main.armed /\ main' = Flush(main)
  /\ UNCHANGED <<mem, prog, nav, side, rows, ops, doubt, acts>>
PersistSide ==
  /\ side.armed /\ side' = Flush(side)
  /\ UNCHANGED <<mem, prog, nav, main, rows, ops, doubt, acts>>

-----------------------------------------------------------------------------
Send(kind, e) ==
  /\ UserIdle
  /\ ops' = <<Request(kind, shown, e)>>
  /\ UNCHANGED <<mem, prog, nav, stores, rows, doubt>>

\* readOne() of the CV list.
ReadOne(k) == shown # NoUrl /\ shown.page = "cv" /\ Send("read", Asked({k}))

\* The mapping page reads a page that has not been read.
ReadPage ==
  /\ shown # NoUrl /\ shown.page = "mapping" /\ ~Known(side, "S")
  /\ Send("page", Asked(SideKeys))

\* apply(): the main table's diffs, or straight to the side's batches.  Nobody
\* gives a locomotive the address of another.
Apply ==
  /\ Pending
  /\ KeepsApart(Reach(shown), Diffs(main))
  /\ IF DOMAIN Diffs(main) # {} THEN Send("write", Diffs(main)) ELSE Send("side", SideDiffs)

\* The Address page reads the address, or has the daemon set it: the CVs of a short
\* or a long one, and the bit that says which.
Locate == shown # NoUrl /\ shown.page = "address" /\ Send("locate", Asked(AddressKeys))

SetAddress(a) ==
  LET bit == One("M", Unnamed(mem[prog]["M"]) + IF a \in Longs THEN 1 ELSE 0)
      e == Put(One(IF a \in Longs THEN "L" ELSE "A", a), bit)
  IN  /\ shown # NoUrl /\ shown.page = "address"
      /\ KeepsApart({prog}, e)
      /\ Send("set", e)

\* The daemon reads the next CV of the oldest request, and streams what it read
\* unless that is a page of the side table or the verification of an address.
ReadNext ==
  /\ ops # <<>> /\ ~Writing(Head(ops))
  /\ LET op == Head(ops)
     IN  \E k \in DOMAIN op.todo :
           LET after == [op EXCEPT !.todo = Only(@, DOMAIN @ \ {k})]
           IN  \/ /\ ops' = <<[after EXCEPT !.errs = @ \cup {k}]>> \o Tail(ops)
                  /\ UNCHANGED <<main, doubt>>
               \/ \E l \in op.heard :
                    LET e == One(k, mem[l][k])
                        read == [after EXCEPT !.got = Put(@, e), !.sure = @ \cup {k}]
                    IN  /\ ops' = <<read>> \o Tail(ops)
                        /\ IF op.kind \in {"page", "verify"}
                             THEN UNCHANGED <<main, doubt>>
                             ELSE /\ main' = RememberRead(main, e)
                                  /\ doubt' = Told(read, main, e)
  /\ UNCHANGED <<mem, prog, nav, side, rows, acts>>

Taken(l, k, v) == [mem[l] EXCEPT ![k] = v]

\* What the tables know that are filed under address a.
Filed(a) ==
  UNION {DOMAIN t.baseline :
           t \in {t \in {main.snap, main.stored, side.snap, side.stored} :
                   t.scope # NoScope /\ t.scope[2] = a}}

\* The locomotives of L that get another address by taking v for CV k find the
\* tables that are filed under it.
Inherited(L, k, v) ==
  UNION {{l} \X Filed(Address(Taken(l, k, v))) :
           l \in {l \in L : Address(Taken(l, k, v)) # Address(mem[l])}}

\* Locomotives L take v for CV k.
Take(L, k, v) == mem' = [l \in Locos |-> IF l \in L THEN Taken(l, k, v) ELSE mem[l]]

Hears(op) == IF OnProg(op.kind) THEN {prog} ELSE Reach(op.url)

\* The daemon writes the next CV; address.set writes the bit last and stops at a
\* failure.  On the programming track the decoder confirms it, or not although it
\* took it; on the main nobody does, and it counts as done.  What was written is in
\* doubt until the answer is remembered.
WriteNext ==
  /\ ops # <<>> /\ Writing(Head(ops))
  /\ LET op == Head(ops)
         confirms == OnProg(op.kind) \/ op.url.track = "prog"
     IN  \E k \in DOMAIN op.todo, ok, taken \in BOOLEAN :
           LET L == IF taken THEN Hears(op) ELSE {}
               sure == ok /\ taken /\ Hears(op) = op.heard
           IN  /\ op.kind = "set" => op.errs = {} /\ (k = "M" => DOMAIN op.todo = {"M"})
               /\ ok /\ ~taken => ~confirms
               /\ ops' = <<[op EXCEPT !.todo = Only(@, DOMAIN @ \ {k}),
                                      !.got = IF ok THEN Put(@, One(k, op.todo[k])) ELSE @,
                                      !.sure = IF sure THEN @ \cup {k} ELSE @,
                                      !.errs = IF ok THEN @ ELSE @ \cup {k}]>> \o Tail(ops)
               /\ Take(L, k, op.todo[k])
               /\ doubt' = doubt \cup Inherited(L, k, op.todo[k])
                                 \cup (IF ok \/ taken THEN op.heard \X {k} ELSE {})
  /\ UNCHANGED <<prog, nav, stores, rows, acts>>

Answered(kinds) == ops # <<>> /\ Head(ops).kind \in kinds /\ DOMAIN Head(ops).todo = {}

\* The read of the CV list returns: into the row and the table.
ReadDone ==
  /\ Answered({"read"})
  /\ LET op == Head(ops)
     IN  /\ rows' = IF shown # NoUrl /\ shown.page = "cv" THEN Put(rows, op.got) ELSE rows
         /\ main' = Closed(RememberRead(main, op.got), Tail(ops))
         /\ doubt' = Told(op, main, op.got)
  /\ ops' = Tail(ops)
  /\ UNCHANGED <<mem, prog, nav, side, acts>>

\* A page of the side table was read.
PageDone ==
  /\ Answered({"page"})
  /\ LET op == Head(ops)
     IN  /\ side' = RememberRead(side, op.got)
         /\ doubt' = Told(op, side, op.got)
  /\ main' = Closed(main, Tail(ops))
  /\ ops' = Tail(ops)
  /\ UNCHANGED <<mem, prog, nav, rows, acts>>

\* setParams() in a handler: the query that it saw, with another address, on the
\* page that is open now.
Moving(op, a) == [op.url EXCEPT !.addr = a, !.page = url.page]

\* address.set is through with its writes, verifies them, and answers with what it
\* read; or one failed.
SetDone ==
  /\ ops # <<>> /\ Head(ops).kind = "set"
  /\ LET op == Head(ops)
         verify == [op EXCEPT !.kind = "verify", !.pend = Asked(AddressKeys),
                              !.todo = Asked(AddressKeys), !.got = Nothing, !.sure = {}]
     IN  \/ /\ op.errs = {} /\ DOMAIN op.todo = {}
            /\ ops' = <<verify>> \o Tail(ops) /\ main' = main
         \/ /\ op.errs # {}
            /\ ops' = Tail(ops) /\ main' = Closed(main, Tail(ops))
  /\ UNCHANGED <<mem, prog, nav, side, rows, doubt, acts>>

\* The address was read, by the address effect, the read button of the Address page
\* or address.set: the table and the URL the handler saw move to it.  The Address
\* page remembers nothing of an incomplete answer.
AddressDone ==
  /\ Answered({"auto", "locate", "verify"})
  /\ LET op == Head(ops)
         complete == AddressKeys \subseteq DOMAIN op.got
         e == IF complete \/ op.kind = "auto" THEN op.got ELSE Nothing
         st == RememberRead(main, e)
         told == Told(op, main, e)
         a == Address(op.got)
     IN  IF complete /\ a # op.url.addr
           THEN /\ main' = Closed(Retarget(st, <<st.snap.scope[1], a>>), Tail(ops))
                /\ url' = Moving(op, a)
                /\ doubt' = IF Astray(op, main)
                              THEN (told \cup Foisted(st, a, AddressKeys))
                                     \ (op.heard \X AddressKeys)
                              ELSE told
           ELSE main' = Closed(st, Tail(ops)) /\ url' = url /\ doubt' = told
  /\ ops' = Tail(ops)
  /\ UNCHANGED <<mem, prog, shown, hist, side, rows, acts>>

MutConfirmed(op) == op.pend

\* The CVs the answer confirms.
Confirmed(op) == op.got

\* The batch had CV 1, 17 or 18, and the table shows another address.
Moved(op, st) ==
  DOMAIN op.pend \cap {"A", "L"} # {} /\ Address(Displayed(st)) \notin {0, op.url.addr}

\* apply() goes on after the main table's batch: what was confirmed becomes the
\* baseline; the address the table now shows becomes the target; and what the side
\* registered at Apply has pending is sent to the old target.
WriteDone ==
  /\ Answered({"write"})
  /\ LET op == Head(ops)
         st == RememberRead(main, Confirmed(op))
         told == Told(op, main, Confirmed(op))
         a == Address(Displayed(st))
         sides == IF op.url.page = "mapping" THEN Diffs(side) ELSE Nothing
         next == [op EXCEPT !.kind = "side", !.pend = sides, !.todo = sides,
                            !.got = Nothing, !.sure = {}, !.errs = {}]
         rest == IF DOMAIN sides = {} THEN Tail(ops) ELSE <<next>> \o Tail(ops)
     IN  /\ IF Moved(op, st)
              THEN /\ main' = Closed(Retarget(st, <<st.snap.scope[1], a>>), rest)
                   /\ url' = Moving(op, a)
                   /\ doubt' = IF Astray(op, main) \/ Misled(op.heard, st, told)
                                 THEN told \cup Foisted(st, a, {}) ELSE told
              ELSE main' = Closed(st, rest) /\ url' = url /\ doubt' = told
         /\ ops' = rest
  /\ UNCHANGED <<mem, prog, shown, hist, side, rows, acts>>

\* The side's batch returns; its store may have changed scope meanwhile.
SideDone ==
  /\ Answered({"side"})
  /\ LET op == Head(ops)
     IN  /\ side' = RememberRead(side, Confirmed(op))
         /\ doubt' = Told(op, side, Confirmed(op))
  /\ main' = Closed(main, Tail(ops))
  /\ ops' = Tail(ops)
  /\ UNCHANGED <<mem, prog, nav, rows, acts>>

\* Anuluj: every request is rejected, and what was written is not remembered.
Cancel ==
  /\ acts < MaxActs /\ acts' = acts + 1
  /\ ~Idle
  /\ ops' = <<>>
  /\ main' = Flush(main)
  /\ UNCHANGED <<mem, prog, nav, side, rows, doubt>>

\* The backup page writes a CV and tells the registry nothing.
Restore(k, v) ==
  /\ UserIdle /\ shown.page = "home"
  /\ KeepsApart(Reach(url), One(k, v))
  /\ Take(Reach(url), k, v)
  /\ doubt' = doubt \cup Inherited(Reach(url), k, v) \cup (Reach(url) \X {k})
  /\ UNCHANGED <<prog, nav, stores, rows, ops>>

-----------------------------------------------------------------------------
Edit == \/ \E k \in MainKeys \ {"M"} : \E v \in Inputs[k] : EditNumber(k, v)
        \/ \E k \in 0..1 : EditBit(k) \/ EditSide(k)
        \/ DiscardChanges

Navigate == \/ \E a \in Addresses \cup {0} : ChangeAddress(a)
            \/ \E t \in {"prog", "pom"} : ChangeTrack(t)
            \/ \E d \in Decoders : ChangeDecoder(d) \/ PickTile(d)
            \/ \E p \in Pages : Goto(p)
            \/ Back
            \/ Reload

Ask == \/ \E k \in MainKeys : ReadOne(k)
       \/ ReadPage \/ Apply \/ Locate
       \/ \E a \in Addresses : SetAddress(a)
       \/ Cancel
       \/ \E k \in MainKeys : \E v \in Inputs[k] : Restore(k, v)

Daemon == ReadNext \/ WriteNext

Answer == ReadDone \/ PageDone \/ SetDone \/ AddressDone \/ WriteDone \/ SideDone

Next == Render \/ PersistMain \/ PersistSide \/ Edit \/ Navigate \/ Ask \/ Daemon \/ Answer

Spec == Init /\ [][Next]_vars

-----------------------------------------------------------------------------
\* Maps are over known keys with values the CV can have, and a request holds
\* each of its CVs in one place: to do, done or failed.
TypeOK ==
  /\ mem \in [Locos -> [Keys -> Nat]] /\ prog \in Locos
  /\ url \in Urls /\ shown \in Urls \cup {NoUrl} /\ hist \in Seq(Urls)
  /\ main \in Stores(Scopes, MainKeys, Addresses \cup 0..3)
  /\ side \in Stores(Scopes, SideKeys, 0..1)
  /\ \A i \in DOMAIN ops :
       /\ ops[i].kind \in {"auto", "read", "page", "locate", "verify", "write", "side", "set"}
       /\ DOMAIN ops[i].got \cap ops[i].errs = {}
       /\ DOMAIN ops[i].todo \cap (DOMAIN ops[i].got \cup ops[i].errs) = {}

\* The tables are those of the URL, and the baseline, against which the pending
\* changes are shown and sent, is what its locomotive has: through partly failed
\* writes, moves to another address, changes of scope, track and page, Back,
\* cancels and reloads.
\* Left out, CV by CV and until it is read again where it belongs, is what is in
\* doubt: a CV that the daemon or the backup page wrote without the registry
\* learning it; a result that came from another locomotive than the one of the
\* scope, because the programming track has no regard for the address or because
\* Back had changed the scope; the table that a locomotive finds under the address
\* it was given; and a table that moved to an address decoded from CVs that were
\* not known, were pending, or in doubt themselves (CvRegistry.tsx 129-136,
\* 273-294 and 302, useAddressProgrammer.ts 79-107, table.ts 141).
BaselineOf(st) ==
  /\ st.snap.scope = Scope(shown)
  /\ \A k \in DOMAIN st.snap.baseline, l \in Owners(shown.addr) :
       st.snap.baseline[k] = mem[l][k] \/ <<l, k>> \in doubt

BaselineIsDecoder ==
  Idle /\ Rendered => BaselineOf(main) /\ (shown.page = "mapping" => BaselineOf(side))

\* What is in memory and not in sessionStorage has a timer running that will
\* store it: no change of a table, and no move to another address, skips emit()
\* (table.ts 61-91, indexedTable.ts 49-76).
PersistedOrArmed ==
  \A st \in {main, side} :
    st.armed \/ st.stored = st.snap \/ st.snap = Empty(NoScope)

\* Away from the mapping page its table has nothing pending in the scope it is
\* left in, so that no later Apply writes indexed CVs the user does not see
\* (EsuMappingPage.tsx 135-158).
NothingLeftBehind ==
  Rendered /\ shown.page # "mapping" => DOMAIN Diffs(side) = {}

\* A CV of the main table that Apply could not write stays pending: neither the
\* confirmation of the others nor the move to a new address loses it
\* (CvRegistry.tsx 272-296).
FailedStaysPending ==
  [][\A k \in MainKeys :
       /\ WriteDone /\ Rendered
       /\ k \in Head(ops).errs /\ k \in DOMAIN Diffs(main)
       => main'.snap.table[k] = main.snap.table[k] /\ k \in DOMAIN Diffs(main')]_vars

\* Claimed by ARCHITECTURE.md:274-278: two locomotives are not mixed.  While no CV
\* was written, the baseline that the page shows is that of the locomotive of the
\* URL.
NotMixed ==
  mem = Factory /\ Idle /\ Rendered =>
    \A k \in DOMAIN main.snap.baseline, l \in Owners(shown.addr) :
      main.snap.baseline[k] = mem[l][k]

\* Claimed by ARCHITECTURE.md: unknown bits stay as read (or 0).  What is pending
\* for a bit field keeps the unnamed bit of the baseline of this scope.
UnknownBitsKept ==
  "M" \in DOMAIN Diffs(main) =>
    Unnamed(Diffs(main)["M"]) =
      (IF "M" \in DOMAIN main.snap.baseline THEN Unnamed(main.snap.baseline["M"]) ELSE 0)

\* Claimed by ARCHITECTURE.md: if Apply wrote CV 1 / 17 / 18, the target address
\* is updated.  It moves only to the address of those who heard the batch.
TargetFollowsWrite ==
  [][WriteDone /\ url'.addr # url.addr /\ Rendered => Bearers(url'.addr) = Head(ops).heard]_vars

=============================================================================
