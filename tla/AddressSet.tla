------------------------------ MODULE AddressSet ------------------------------
(***************************************************************************)
(* address.set (crates/programming-center/src/address.rs): the address of  *)
(* a decoder on the programming track is changed by several CV reads and   *)
(* writes, any of which may fail, and verified.  Nothing makes the         *)
(* sequence atomic: it can be cancelled or dropped between any two CVs,    *)
(* and another connection can program the same decoder meanwhile.  That    *)
(* other connection is modelled by cv.bitop (ws.rs) on CV 29, which stands *)
(* for a tab's cv.read and later cv.write of CV 29, too.                   *)
(*                                                                         *)
(* CV 1 holds a short address, CVs 17 and 18 the two bytes of a long one,  *)
(* a bit of CV 29 says which counts, a bit of CV 28 switches RailComPlus.  *)
(* CVs 28 and 29 are records of that bit and of their other bits.          *)
(***************************************************************************)
EXTENDS Naturals, Sequences

CONSTANTS
  Shorts,   \* short addresses
  His, Los, \* the bytes of long addresses
  Rests,    \* values of the other bits of CVs 28 and 29
  Wants     \* values of those bits that the other connection sets in CV 29

ASSUME WantsAssumption == Wants \subseteq Rests

VARIABLES
  decoder,    \* decoder[n]: CV n of the decoder
  pc,         \* the await at which address.set is, "idle" between requests
  asked,      \* the payload of the request
  todo,       \* the CVs still to be read
  got,        \* what the reads have brought
  plan, at,   \* the writes, and the one that is next
  cancelled,  \* the request's CancellationToken
  ack,        \* the answer to the last request
  start,      \* history: the decoder's address when the request came
  bpc, old, want, \* cv.bitop: where it is, the byte it read, its masks
  stale       \* history: handlers whose copy of CV 29 another has overwritten

setVars == <<pc, asked, todo, got, plan, at, cancelled, ack, start>>
bitopVars == <<bpc, old, want, stale>>
vars == <<decoder, setVars, bitopVars>>

-----------------------------------------------------------------------------
Short(n) == [long |-> FALSE, n |-> n]
Long(h, l) == [long |-> TRUE, hi |-> h, lo |-> l]
Addresses == {Short(n) : n \in Shorts} \cup {Long(h, l) : h \in His, l \in Los}

Flags == [bit : BOOLEAN, rest : Rests]
ValuesOf(n) == CASE n = 1 -> Shorts [] n = 17 -> His [] n = 18 -> Los
                 [] OTHER -> Flags
AddressCvs == {1, 17, 18, 29}
Cvs == AddressCvs \cup {28}

\* decode_address()
Decode(cvs) == IF cvs[29].bit THEN Long(cvs[17], cvs[18]) ELSE Short(cvs[1])

Entry(n, v) == [cv |-> n, value |-> v]
Entries == UNION {[cv : {n}, value : ValuesOf(n)] : n \in Cvs}

MutPlanAddressWrites(a, cv29) ==
  IF a.long
    THEN <<Entry(29, [cv29 EXCEPT !.bit = TRUE]), Entry(17, a.hi), Entry(18, a.lo)>>
    ELSE <<Entry(1, a.n), Entry(29, [cv29 EXCEPT !.bit = FALSE])>>

\* plan_address_writes(): the bit comes last.
PlanAddressWrites(a, cv29) ==
  IF a.long
    THEN <<Entry(17, a.hi), Entry(18, a.lo), Entry(29, [cv29 EXCEPT !.bit = TRUE])>>
    ELSE <<Entry(1, a.n), Entry(29, [cv29 EXCEPT !.bit = FALSE])>>

MutPlanRailcomPlus(cvs, plus) ==
  IF 28 \in DOMAIN cvs /\ plus # "keep"
    THEN <<Entry(28, [bit |-> plus = "on", rest |-> cvs[29].rest])>> ELSE <<>>

\* The write of CV 28: none if no change was asked for, CV 28 could not be
\* read, or its bit is right already.
PlanRailcomPlus(cvs, plus) ==
  IF 28 \in DOMAIN cvs /\ plus # "keep" /\ cvs[28].bit # (plus = "on")
    THEN <<Entry(28, [cvs[28] EXCEPT !.bit = ~@])>> ELSE <<>>

\* plan_set_writes()
PlanSetWrites(cvs, req) ==
  PlanRailcomPlus(cvs, req.plus) \o PlanAddressWrites(req.new, cvs[29])

Requests == [new : Addresses, plus : {"keep", "on", "off"}]
Failures == {"refused", "cancelled", "programming_failed", "unavailable"}
Nothing == [n \in {} |-> n]

TypeOK ==
  /\ DOMAIN decoder = Cvs
  /\ \A n \in Cvs : decoder[n] \in ValuesOf(n)
  /\ pc \in {"idle", "read", "settle", "write", "observe", "verify"}
  /\ asked \in Requests
  /\ todo \in Seq(Cvs)
  /\ DOMAIN got \subseteq Cvs
  /\ \A n \in DOMAIN got : got[n] \in ValuesOf(n)
  /\ plan \in Seq(Entries)
  /\ at \in Nat
  /\ pc \in {"settle", "write"} => at \in DOMAIN plan
  /\ cancelled \in BOOLEAN
  /\ ack \in Failures \cup {"none", "ok", "address_reverted"}
  /\ start \in Addresses
  /\ bpc \in {"idle", "write"}
  /\ old \in Flags
  /\ want \in Rests
  /\ stale \subseteq {"set", "bitop"}

Init ==
  /\ \E s \in Shorts, h \in His, l \in Los, f28, f29 \in Flags :
       decoder = [n \in Cvs |-> CASE n = 1 -> s [] n = 17 -> h [] n = 18 -> l
                                  [] n = 28 -> f28 [] n = 29 -> f29]
  /\ pc = "idle"
  /\ start = Decode(decoder)
  /\ asked = [new |-> start, plus |-> "keep"]
  /\ todo = <<>>
  /\ got = Nothing
  /\ plan = <<>>
  /\ at = 1
  /\ cancelled = FALSE
  /\ ack = "none"
  /\ bpc = "idle"
  /\ old = decoder[29]
  /\ want = decoder[29].rest
  /\ stale = {}

-----------------------------------------------------------------------------
\* The request ends with answer a, or unanswered.
Finish(a) ==
  /\ pc' = "idle"
  /\ ack' = a
  /\ todo' = <<>>
  /\ plan' = <<>>
  /\ at' = 1
  /\ cancelled' = FALSE
  /\ UNCHANGED <<asked, start>>

\* The guards at the head of set(): disabled, no such address, no such bit.
Refuse ==
  /\ pc = "idle"
  /\ Finish("refused")
  /\ got' = Nothing
  /\ UNCHANGED <<decoder, bitopVars>>

\* A request arrives; CV 28 is read only if RailComPlus is to change.
Start(req) ==
  /\ pc = "idle"
  /\ pc' = "read"
  /\ asked' = req
  /\ start' = Decode(decoder)
  /\ todo' = IF req.plus = "keep" THEN <<29>> ELSE <<28, 29>>
  /\ got' = Nothing
  /\ plan' = <<>>
  /\ at' = 1
  /\ cancelled' = FALSE
  /\ ack' = "none"
  /\ stale' = stale \ {"set"}
  /\ UNCHANGED <<decoder, bpc, old, want>>

MutRemember(cvs, n) == [m \in DOMAIN cvs \cup {n} |->
  IF m = n THEN decoder[todo[Len(todo)]] ELSE cvs[m]]

Remember(cvs, n) == [m \in DOMAIN cvs \cup {n} |-> IF m = n THEN decoder[n] ELSE cvs[m]]

\* The next CV of a batch is read, or reported among its errors.
ReadCv ==
  /\ pc \in {"read", "verify"}
  /\ todo # <<>>
  /\ got' \in {got, Remember(got, Head(todo))}
  /\ todo' = Tail(todo)
  /\ UNCHANGED <<decoder, pc, asked, plan, at, cancelled, ack, start, bitopVars>>

\* Why a call of the bus gives up: the token, or the command station.
GivesUp == {"unavailable"} \cup IF cancelled THEN {"cancelled"} ELSE {}

\* The bus gives up the first read.
ReadFailed ==
  /\ pc = "read"
  /\ \E a \in GivesUp : Finish(a)
  /\ UNCHANGED <<decoder, got, bitopVars>>

\* read_cv28_cv29() returns and the writes are planned.
Plan ==
  /\ pc = "read"
  /\ todo = <<>>
  /\ \/ cancelled /\ Finish("cancelled")
     \/ ~cancelled /\ 29 \notin DOMAIN got /\ Finish("programming_failed")
     \/ /\ ~cancelled
        /\ 29 \in DOMAIN got
        /\ plan' = PlanSetWrites(got, asked)
        /\ at' = 1
        /\ pc' = "settle"
        /\ UNCHANGED <<asked, todo, cancelled, ack, start>>
  /\ UNCHANGED <<decoder, got, bitopVars>>

\* The pause before each write ends.
Settle ==
  /\ pc = "settle"
  /\ \/ cancelled /\ Finish("cancelled")
     \/ /\ ~cancelled
        /\ pc' = "write"
        /\ UNCHANGED <<asked, todo, plan, at, cancelled, ack, start>>
  /\ UNCHANGED <<decoder, got, bitopVars>>

Written == [decoder EXCEPT ![plan[at].cv] = plan[at].value]

\* The copy of CV 29 that handler h holds is out of date once CV 29 changes.
Outdates(h) == stale' = IF decoder'[29] = decoder[29] THEN stale ELSE stale \cup {h}

\* write_one() has the confirmation.
Confirmed ==
  /\ pc = "write"
  /\ decoder' = Written
  /\ at' = at + 1
  /\ pc' = IF at = Len(plan) THEN "observe" ELSE "settle"
  /\ Outdates("bitop")
  /\ UNCHANGED <<asked, todo, got, plan, cancelled, ack, start, bpc, old, want>>

\* It has none: the decoder may have carried out the write all the same.
WriteFailed ==
  /\ pc = "write"
  /\ decoder' \in {decoder, Written}
  /\ \E a \in GivesUp \cup {"programming_failed"} : Finish(a)
  /\ Outdates("bitop")
  /\ UNCHANGED <<got, bpc, old, want>>

\* The station leaves programming mode; a RailComPlus decoder may then take
\* back the bit.
Revert ==
  /\ pc = "observe"
  /\ decoder' = [decoder EXCEPT ![29].bit = start.long]
  /\ Outdates("bitop")
  /\ UNCHANGED <<setVars, bpc, old, want>>

\* observe_prog() returns.
Observed ==
  /\ pc = "observe"
  /\ \/ cancelled /\ Finish("cancelled") /\ UNCHANGED got
     \/ /\ ~cancelled
        /\ pc' = "verify"
        /\ todo' = <<1, 17, 18, 29>>
        /\ got' = Nothing
        /\ UNCHANGED <<asked, plan, at, cancelled, ack, start>>
  /\ UNCHANGED <<decoder, bitopVars>>

\* verify(), when the bus gives up its read.
VerifyFailed ==
  /\ pc = "verify"
  /\ Finish("address_reverted")
  /\ got' = Nothing
  /\ UNCHANGED <<decoder, bitopVars>>

MutOutcome(cvs) == IF 29 \in DOMAIN cvs => cvs[29].bit = asked.new.long
                     THEN "ok" ELSE "address_reverted"

\* verify_from_batch()
Outcome(cvs) == IF AddressCvs \subseteq DOMAIN cvs /\ Decode(cvs) = asked.new
                  THEN "ok" ELSE "address_reverted"

\* verify(), with the CVs that could be read.
Verify ==
  /\ pc = "verify"
  /\ todo = <<>>
  /\ ~cancelled
  /\ Finish(Outcome(got))
  /\ UNCHANGED <<decoder, got, bitopVars>>

\* The user cancels.
Cancel ==
  /\ pc # "idle"
  /\ ~cancelled
  /\ cancelled' = TRUE
  /\ UNCHANGED <<decoder, pc, asked, todo, got, plan, at, ack, start, bitopVars>>

\* The WebSocket closes and the request's future is dropped.
Close ==
  /\ pc # "idle"
  /\ decoder' \in IF pc = "write" THEN {decoder, Written} ELSE {decoder}
  /\ Finish("none")
  /\ got' = Nothing
  /\ Outdates("bitop")
  /\ UNCHANGED <<bpc, old, want>>

-----------------------------------------------------------------------------
\* cv.bitop of the other connection: it reads CV 29 ...
BitopRead(w) ==
  /\ bpc = "idle"
  /\ bpc' = "write"
  /\ old' = decoder[29]
  /\ want' = w
  /\ stale' = stale \ {"bitop"}
  /\ UNCHANGED <<decoder, setVars>>

\* ... and writes back the byte with some bits changed, or fails to.
BitopWrite ==
  /\ bpc = "write"
  /\ decoder' \in {decoder, [decoder EXCEPT ![29] = [old EXCEPT !.rest = want]]}
  /\ bpc' = "idle"
  /\ Outdates("set")
  /\ UNCHANGED <<old, want, setVars>>

Next ==
  \/ Refuse \/ (\E req \in Requests : Start(req))
  \/ ReadCv \/ ReadFailed \/ Plan \/ Settle \/ Confirmed \/ WriteFailed
  \/ Revert \/ Observed \/ VerifyFailed \/ Verify \/ Cancel \/ Close
  \/ (\E w \in Wants : BitopRead(w)) \/ BitopWrite

Spec == Init /\ [][Next]_vars

-----------------------------------------------------------------------------
\* The only request that passes through a third address: from one long address
\* to another, whose bytes are two CVs (address.rs:148-157).
Torn == start.long /\ asked.new.long /\ decoder[29].bit

\* Since the request came nobody else has changed CV 29.
Undisturbed == "set" \notin stale

\* Wherever address.set stops, the decoder answers to the address it had or to
\* the one it was to get, or is between two long ones: CV 29 is written last
\* (plan_address_writes, and the order of the loop in address.rs:148).
OldOrNew == Undisturbed => Decode(decoder) \in {start, asked.new} \/ Torn

\* The address that the tab takes over from the answer, if any: the one it
\* asked for or, from a complete batch, the one that batch shows
\* (useAddressProgrammer.ts:147 and 156).
Adopted == IF ack = "ok" THEN {asked.new}
           ELSE IF ack = "address_reverted" /\ AddressCvs \subseteq DOMAIN got
             THEN {Decode(got)} ELSE {}

\* The tab takes over no address but the decoder's own: the CVs that verify()
\* reads after the station left programming mode are those the decoder keeps.
AdoptedIsActual == pc = "idle" /\ Undisturbed => Adopted \subseteq {Decode(decoder)}

\* address.set and cv.bitop (ws.rs:729-748) lose each other's bits in one way
\* only, by writing back a copy of CV 29 that the other has made stale: without
\* that, address.set changes no bit but one of CV 28 and one of CV 29, as
\* ARCHITECTURE.md:356 has it, and cv.bitop leaves the bit of the address.
LostOnlyIfStale ==
  [][stale = {} =>
       /\ bpc' = bpc => \A n \in {28, 29} : decoder'[n].rest = decoder[n].rest
       /\ bpc' # bpc => decoder'[29].bit = decoder[29].bit]_vars

\* The answer address_reverted says that the decoder has not taken the address
\* (ARCHITECTURE.md:356: "Mismatch -> address_reverted with the actual CVs").
RevertedIsMismatch ==
  pc = "idle" /\ Undisturbed /\ ack = "address_reverted" =>
    Decode(decoder) # asked.new

=============================================================================
