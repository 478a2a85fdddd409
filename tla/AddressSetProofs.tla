--------------------------- MODULE AddressSetProofs ---------------------------
(* What AddressSet guarantees for every set of addresses and CV values,       *)
(* whatever the bus, the user and another connection do.                      *)
EXTENDS AddressSet, TLAPS

\* A byte that is not a record is a value of one CV only by its place.
DecoderOK(d) == DOMAIN d = Cvs /\ \A n \in Cvs : d[n] \in ValuesOf(n)

\* The decoder answers to an address.
LEMMA DecodeType ==
  ASSUME NEW d, AddressCvs \subseteq DOMAIN d,
         \A n \in DOMAIN d : d[n] \in ValuesOf(n)
  PROVE  Decode(d) \in Addresses
<1>1. d[1] \in Shorts /\ d[17] \in His /\ d[18] \in Los
  BY DEF AddressCvs, ValuesOf
<1>2. d[29] \in Flags
  BY DEF AddressCvs, ValuesOf
<1>3. CASE d[29].bit
  <2>1. Decode(d) = Long(d[17], d[18])
    BY <1>3 DEF Decode
  <2> QED BY <1>1, <2>1 DEF Addresses
<1>4. CASE ~d[29].bit
  <2>1. Decode(d) = Short(d[1])
    BY <1>4 DEF Decode
  <2> QED BY <1>1, <2>1 DEF Addresses
<1> QED BY <1>3, <1>4

\* A CV keeps its type when it is written.
LEMMA WriteType ==
  ASSUME NEW d, DecoderOK(d), NEW e \in Entries
  PROVE  DecoderOK([d EXCEPT ![e.cv] = e.value])
<1>1. e.cv \in Cvs /\ e.value \in ValuesOf(e.cv)
  BY DEF Entries
<1> QED BY <1>1 DEF DecoderOK

\* The fields of an address, by its kind.
LEMMA AddressFields ==
  ASSUME NEW a \in Addresses
  PROVE  /\ a.long \in BOOLEAN
         /\ a.long => a.hi \in His /\ a.lo \in Los /\ a = Long(a.hi, a.lo)
         /\ ~a.long => a.n \in Shorts /\ a = Short(a.n)
<1>1. CASE \E n \in Shorts : a = Short(n)
  <2>1. PICK n \in Shorts : a = Short(n)
    BY <1>1
  <2>2. a.long = FALSE /\ a.n = n
    BY <2>1 DEF Short
  <2> QED BY <2>1, <2>2
<1>2. CASE \E h \in His, l \in Los : a = Long(h, l)
  <2>1. PICK h \in His, l \in Los : a = Long(h, l)
    BY <1>2
  <2>2. a.long = TRUE /\ a.hi = h /\ a.lo = l
    BY <2>1 DEF Long
  <2> QED BY <2>1, <2>2
<1> QED BY <1>1, <1>2 DEF Addresses

(* What the proof of OldOrNew needs to know of a plan: the bit comes last and  *)
(* right before it the bytes of the new address.                              *)
Shape(p, a) ==
  /\ Len(p) >= 2
  /\ p[Len(p)].cv = 29
  /\ p[Len(p)].value \in Flags
  /\ p[Len(p)].value.bit = a.long
  /\ a.long =>
       /\ Len(p) >= 3
       /\ p[Len(p) - 2] = Entry(17, a.hi)
       /\ p[Len(p) - 1] = Entry(18, a.lo)
       /\ \A i \in 1..Len(p) - 3 : p[i].cv = 28
  /\ ~a.long =>
       /\ p[Len(p) - 1] = Entry(1, a.n)
       /\ \A i \in 1..Len(p) - 2 : p[i].cv = 28

\* plan_set_writes() plans writes of that shape.
LEMMA PlanShape ==
  ASSUME NEW cvs, DOMAIN cvs \subseteq Cvs, 29 \in DOMAIN cvs,
         \A n \in DOMAIN cvs : cvs[n] \in ValuesOf(n),
         NEW r \in Requests
  PROVE  /\ PlanSetWrites(cvs, r) \in Seq(Entries)
         /\ Shape(PlanSetWrites(cvs, r), r.new)
<1> DEFINE w == PlanAddressWrites(r.new, cvs[29])
           q == PlanRailcomPlus(cvs, r.plus)
<1>1. cvs[29] \in Flags
  BY DEF ValuesOf
<1>2. r.new \in Addresses
  BY DEF Requests
<1>3. /\ w \in Seq(Entries)
      /\ w[Len(w)].cv = 29
      /\ w[Len(w)].value \in Flags
      /\ w[Len(w)].value.bit = r.new.long
      /\ r.new.long => Len(w) = 3 /\ w[1] = Entry(17, r.new.hi) /\ w[2] = Entry(18, r.new.lo)
      /\ ~r.new.long => Len(w) = 2 /\ w[1] = Entry(1, r.new.n)
  <2>1. CASE r.new.long
    <3>1. r.new.hi \in His /\ r.new.lo \in Los
      BY <2>1, <1>2, AddressFields
    <3>2. [cvs[29] EXCEPT !.bit = TRUE] \in Flags /\ [cvs[29] EXCEPT !.bit = TRUE].bit = TRUE
      BY <1>1 DEF Flags
    <3>3. /\ Entry(17, r.new.hi) \in Entries
          /\ Entry(18, r.new.lo) \in Entries
          /\ Entry(29, [cvs[29] EXCEPT !.bit = TRUE]) \in Entries
      BY <3>1, <3>2 DEF Entry, Entries, Cvs, AddressCvs, ValuesOf
    <3>4. w = <<Entry(17, r.new.hi), Entry(18, r.new.lo),
                Entry(29, [cvs[29] EXCEPT !.bit = TRUE])>>
      BY <2>1 DEF PlanAddressWrites
    <3>5. r.new.long = TRUE
      BY <2>1, <1>2, AddressFields
    <3>6. w \in Seq(Entries)
      BY <3>3, <3>4
    <3>7. /\ Len(w) = 3
          /\ w[1] = Entry(17, r.new.hi)
          /\ w[2] = Entry(18, r.new.lo)
          /\ w[3] = Entry(29, [cvs[29] EXCEPT !.bit = TRUE])
      BY <3>4
    <3>8. w[3].cv = 29 /\ w[3].value = [cvs[29] EXCEPT !.bit = TRUE]
      BY <3>7 DEF Entry
    <3> QED BY <3>2, <3>5, <3>6, <3>7, <3>8
  <2>2. CASE ~r.new.long
    <3>1. r.new.n \in Shorts
      BY <2>2, <1>2, AddressFields
    <3>2. [cvs[29] EXCEPT !.bit = FALSE] \in Flags /\ [cvs[29] EXCEPT !.bit = FALSE].bit = FALSE
      BY <1>1 DEF Flags
    <3>3. /\ Entry(1, r.new.n) \in Entries
          /\ Entry(29, [cvs[29] EXCEPT !.bit = FALSE]) \in Entries
      BY <3>1, <3>2 DEF Entry, Entries, Cvs, AddressCvs, ValuesOf
    <3>4. w = <<Entry(1, r.new.n), Entry(29, [cvs[29] EXCEPT !.bit = FALSE])>>
      BY <2>2 DEF PlanAddressWrites
    <3>5. r.new.long = FALSE
      BY <2>2, <1>2, AddressFields
    <3>6. w \in Seq(Entries)
      BY <3>3, <3>4
    <3>7. /\ Len(w) = 2
          /\ w[1] = Entry(1, r.new.n)
          /\ w[2] = Entry(29, [cvs[29] EXCEPT !.bit = FALSE])
      BY <3>4
    <3>8. w[2].cv = 29 /\ w[2].value = [cvs[29] EXCEPT !.bit = FALSE]
      BY <3>7 DEF Entry
    <3> QED BY <3>2, <3>5, <3>6, <3>7, <3>8
  <2> QED BY <2>1, <2>2
<1>4. \/ q = <<>>
      \/ \E e \in Entries : e.cv = 28 /\ q = <<e>>
  <2>1. SUFFICES ASSUME q # <<>>
                 PROVE \E e \in Entries : e.cv = 28 /\ q = <<e>>
    OBVIOUS
  <2>2. 28 \in DOMAIN cvs /\ q = <<Entry(28, [cvs[28] EXCEPT !.bit = ~@])>>
    BY <2>1 DEF PlanRailcomPlus
  <2>3. cvs[28] \in Flags
    BY <2>2 DEF ValuesOf
  <2>4. [cvs[28] EXCEPT !.bit = ~@] \in Flags
    BY <2>3 DEF Flags
  <2>5. Entry(28, [cvs[28] EXCEPT !.bit = ~@]) \in Entries
    BY <2>4 DEF Entry, Entries, Cvs, AddressCvs, ValuesOf
  <2> QED BY <2>2, <2>5 DEF Entry
<1>5. PlanSetWrites(cvs, r) = q \o w
  BY DEF PlanSetWrites
<1> HIDE DEF w, q
<1>6. CASE q = <<>>
  <2>1. q \o w = w
    BY <1>6, <1>3
  <2> QED BY <1>2, <1>3, <1>5, <2>1, AddressFields DEF Shape
<1>7. ASSUME NEW e \in Entries, e.cv = 28, q = <<e>>
      PROVE  q \o w \in Seq(Entries) /\ Shape(q \o w, r.new)
  <2>1. q \in Seq(Entries) /\ Len(q) = 1 /\ q[1].cv = 28
    BY <1>7
  <2>2. /\ q \o w \in Seq(Entries)
        /\ Len(q \o w) = Len(w) + 1
        /\ (q \o w)[1] = e
        /\ \A i \in 2..Len(w) + 1 : (q \o w)[i] = w[i - 1]
    BY <2>1, <1>3, <1>7
  <2> DEFINE p == q \o w
  <2>3. Len(p) = Len(w) + 1 /\ p[1] = e /\ \A i \in 2..Len(w) + 1 : p[i] = w[i - 1]
    BY <2>2
  <2> HIDE DEF p
  <2>4. CASE r.new.long
    <3>0. Len(w) = 3
      BY <2>4, <1>3
    <3>1. Len(p) = 4 /\ p[1] = e /\ p[2] = w[1] /\ p[3] = w[2] /\ p[4] = w[Len(w)]
      BY <3>0, <2>3
    <3>2. Shape(p, r.new)
      BY <2>4, <3>1, <1>3, <1>7 DEF Shape
    <3> QED BY <2>2, <3>2 DEF p
  <2>5. CASE ~r.new.long
    <3>1. Len(p) = 3 /\ p[1] = e /\ p[2] = w[1] /\ p[3] = w[Len(w)]
      BY <2>5, <2>3, <1>3
    <3>2. Shape(p, r.new)
      BY <2>5, <3>1, <1>3, <1>7 DEF Shape
    <3> QED BY <2>2, <3>2 DEF p
  <2> QED BY <2>4, <2>5
<1> QED BY <1>4, <1>5, <1>6, <1>7

-----------------------------------------------------------------------------
\* Every variable has its type in the initial states ...
LEMMA TypeInit == Init => TypeOK
<1> SUFFICES ASSUME Init PROVE TypeOK
  OBVIOUS
<1>1. PICK s \in Shorts, h \in His, l \in Los, f28 \in Flags, f29 \in Flags :
        decoder = [n \in Cvs |-> CASE n = 1 -> s [] n = 17 -> h [] n = 18 -> l
                                   [] n = 28 -> f28 [] n = 29 -> f29]
  BY DEF Init
<1>2. /\ DOMAIN decoder = Cvs
      /\ decoder[1] = s
      /\ decoder[17] = h
      /\ decoder[18] = l
      /\ decoder[28] = f28
      /\ decoder[29] = f29
  BY <1>1 DEF Cvs, AddressCvs
<1>3. \A n \in Cvs : decoder[n] \in ValuesOf(n)
  BY <1>2 DEF Cvs, AddressCvs, ValuesOf
<1>4. Decode(decoder) \in Addresses
  BY <1>2, <1>3, DecodeType DEF Cvs
<1>5. asked \in Requests
  BY <1>4 DEF Init, Requests
<1>6. old \in Flags /\ want \in Rests
  BY <1>2 DEF Init, Flags
<1>7. /\ DOMAIN got \subseteq Cvs
      /\ \A n \in DOMAIN got : got[n] \in ValuesOf(n)
  BY DEF Init, Nothing
<1>8. /\ pc = "idle" /\ todo = <<>> /\ plan = <<>> /\ at = 1 /\ cancelled = FALSE
      /\ ack = "none" /\ bpc = "idle" /\ stale = {} /\ start = Decode(decoder)
  BY DEF Init
<1>11. todo \in Seq(Cvs) /\ plan \in Seq(Entries) /\ at \in Nat
  <2>1. <<>> \in Seq(Cvs) /\ <<>> \in Seq(Entries)
    OBVIOUS
  <2> QED BY <1>8, <2>1
<1>9. /\ ack \in Failures \cup {"none", "ok", "address_reverted"}
      /\ stale \subseteq {"set", "bitop"}
      /\ cancelled \in BOOLEAN
      /\ start \in Addresses
  BY <1>4, <1>8
<1>10. /\ pc \in {"idle", "read", "settle", "write", "observe", "verify"}
       /\ pc \in {"settle", "write"} => at \in DOMAIN plan
       /\ bpc \in {"idle", "write"}
  BY <1>8
<1> QED BY <1>2, <1>3, <1>5, <1>6, <1>7, <1>9, <1>10, <1>11 DEF TypeOK

\* The types, in the groups that an action disturbs.
RequestTypes == asked \in Requests /\ start \in Addresses
ReadTypes == /\ todo \in Seq(Cvs)
             /\ DOMAIN got \subseteq Cvs
             /\ \A n \in DOMAIN got : got[n] \in ValuesOf(n)
PlanTypes ==
  /\ pc \in {"idle", "read", "settle", "write", "observe", "verify"}
  /\ plan \in Seq(Entries)
  /\ at \in Nat
  /\ pc \in {"settle", "write"} => at \in DOMAIN plan
FlagTypes == /\ cancelled \in BOOLEAN
             /\ ack \in Failures \cup {"none", "ok", "address_reverted"}
BitopTypes == /\ bpc \in {"idle", "write"} /\ old \in Flags /\ want \in Rests
              /\ stale \subseteq {"set", "bitop"}

LEMMA TypeParts ==
  TypeOK <=> /\ DecoderOK(decoder) /\ RequestTypes /\ ReadTypes /\ PlanTypes
             /\ FlagTypes /\ BitopTypes
BY DEF TypeOK, DecoderOK, RequestTypes, ReadTypes, PlanTypes, FlagTypes, BitopTypes

\* ... the write that is next is one of the plan ...
LEMMA WrittenType ==
  ASSUME TypeOK, pc = "write"
  PROVE  DecoderOK(Written) /\ plan[at] \in Entries
<1>1. plan[at] \in Entries
  BY DEF TypeOK
<1>2. DecoderOK(decoder)
  BY DEF TypeOK, DecoderOK
<1> QED BY <1>1, <1>2, WriteType DEF Written

\* ... and the end of a request leaves the types alone ...
LEMMA FinishTypes ==
  ASSUME RequestTypes, NEW a \in Failures \cup {"none", "ok", "address_reverted"},
         Finish(a)
  PROVE  RequestTypes' /\ PlanTypes' /\ FlagTypes' /\ todo' \in Seq(Cvs)
<1>1. RequestTypes'
  BY DEF Finish, RequestTypes
<1>2. <<>> \in Seq(Entries) /\ <<>> \in Seq(Cvs)
  OBVIOUS
<1>3. pc' = "idle" /\ plan' = <<>> /\ at' = 1 /\ todo' = <<>> /\ cancelled' = FALSE /\ ack' = a
  BY DEF Finish
<1>4. PlanTypes'
  BY <1>2, <1>3 DEF PlanTypes
<1>5. FlagTypes'
  BY <1>3 DEF FlagTypes
<1> QED BY <1>1, <1>2, <1>3, <1>4, <1>5

\* ... and what a request has read keeps its type unless it is read anew.
LEMMA GotTypes ==
  ASSUME ReadTypes, todo' \in Seq(Cvs), got' \in {got, Nothing}
  PROVE  ReadTypes'
BY DEF ReadTypes, Nothing

\* ... as does every step.
LEMMA TypeStep == TypeOK /\ [Next]_vars => TypeOK'
<1> SUFFICES ASSUME TypeOK, [Next]_vars PROVE TypeOK'
  OBVIOUS
<1>0. /\ DecoderOK(decoder) /\ RequestTypes /\ ReadTypes /\ PlanTypes
      /\ FlagTypes /\ BitopTypes
  BY TypeParts
<1>01. /\ DecoderOK(decoder)' /\ RequestTypes' /\ ReadTypes' /\ PlanTypes'
       /\ FlagTypes' /\ BitopTypes'
       => TypeOK'
  BY TypeParts, PTL
<1> DEFINE Ack == Failures \cup {"none", "ok", "address_reverted"}
<1>02. ASSUME NEW a \in Ack, Finish(a), got' \in {got, Nothing},
              decoder' = decoder, bitopVars' = bitopVars
       PROVE  TypeOK'
  <2>1. RequestTypes' /\ PlanTypes' /\ FlagTypes' /\ todo' \in Seq(Cvs)
    BY <1>0, <1>02, FinishTypes
  <2>2. ReadTypes'
    BY <1>0, <1>02, <2>1, GotTypes
  <2>3. DecoderOK(decoder)' /\ BitopTypes'
    BY <1>0, <1>02 DEF DecoderOK, BitopTypes, bitopVars
  <2> QED BY <1>01, <2>1, <2>2, <2>3
<1>1. CASE Refuse
  BY <1>1, <1>02 DEF Refuse, Failures
<1>2. ASSUME NEW r \in Requests, Start(r) PROVE TypeOK'
  <2>1. Decode(decoder) \in Addresses
    BY <1>0, DecodeType DEF DecoderOK, Cvs
  <2>2. todo' \in Seq(Cvs)
    <3>1. <<29>> \in Seq(Cvs) /\ <<28, 29>> \in Seq(Cvs)
      BY DEF Cvs, AddressCvs
    <3> QED BY <1>2, <3>1 DEF Start
  <2>3. ReadTypes'
    BY <1>0, <1>2, <2>2, GotTypes DEF Start
  <2>4. RequestTypes'
    BY <1>2, <2>1 DEF Start, RequestTypes
  <2>5. PlanTypes'
    <3>1. <<>> \in Seq(Entries)
      OBVIOUS
    <3> QED BY <1>2, <3>1 DEF Start, PlanTypes
  <2>6. DecoderOK(decoder)' /\ FlagTypes'
    BY <1>0, <1>2 DEF Start, DecoderOK, FlagTypes
  <2>7. BitopTypes'
    BY <1>0, <1>2 DEF Start, BitopTypes
  <2> QED BY <1>01, <2>3, <2>4, <2>5, <2>6, <2>7
<1>3. CASE ReadCv
  <2>1. Head(todo) \in Cvs /\ todo' \in Seq(Cvs)
    BY <1>0, <1>3 DEF ReadCv, ReadTypes
  <2>2. ReadTypes'
    <3>1. CASE got' = got
      BY <1>0, <2>1, <3>1, GotTypes
    <3>2. CASE got' = Remember(got, Head(todo))
      BY <1>0, <2>1, <3>2 DEF ReadTypes, Remember, DecoderOK
    <3> QED BY <1>3, <3>1, <3>2 DEF ReadCv
  <2>3. DecoderOK(decoder)' /\ RequestTypes'
    BY <1>0, <1>3 DEF ReadCv, DecoderOK, RequestTypes
  <2>4. PlanTypes' /\ FlagTypes' /\ BitopTypes'
    BY <1>0, <1>3 DEF ReadCv, PlanTypes, FlagTypes, BitopTypes, bitopVars
  <2> QED BY <1>01, <2>2, <2>3, <2>4
<1>4. CASE ReadFailed
  BY <1>4, <1>02 DEF ReadFailed, GivesUp, Failures
<1>5. CASE Plan
  <2>1. CASE \E a \in Failures : Finish(a)
    BY <1>5, <1>02, <2>1 DEF Plan
  <2>2. CASE /\ ~cancelled
             /\ 29 \in DOMAIN got
             /\ plan' = PlanSetWrites(got, asked)
             /\ at' = 1
             /\ pc' = "settle"
             /\ UNCHANGED <<asked, todo, cancelled, ack, start>>
    <3>1. plan' \in Seq(Entries) /\ Len(plan') >= 2
      BY <1>0, <2>2, PlanShape DEF ReadTypes, RequestTypes, Shape
    <3>2. PlanTypes'
      BY <2>2, <3>1 DEF PlanTypes
    <3>3. ReadTypes'
      BY <1>0, <1>5, <2>2, GotTypes DEF Plan, ReadTypes
    <3>4. DecoderOK(decoder)' /\ RequestTypes' /\ FlagTypes' /\ BitopTypes'
      BY <1>0, <1>5, <2>2 DEF Plan, DecoderOK, RequestTypes, FlagTypes, BitopTypes, bitopVars
    <3> QED BY <1>01, <3>2, <3>3, <3>4
  <2> QED BY <1>5, <2>1, <2>2 DEF Plan, Failures
<1>6. CASE Settle
  <2>1. CASE Finish("cancelled")
    BY <1>6, <1>02, <2>1 DEF Settle, Failures
  <2>2. CASE pc' = "write" /\ UNCHANGED <<asked, todo, plan, at, cancelled, ack, start>>
    <3>1. ReadTypes'
      BY <1>0, <1>6, <2>2, GotTypes DEF Settle, ReadTypes
    <3>2. PlanTypes'
      BY <1>0, <1>6, <2>2 DEF Settle, PlanTypes
    <3>3. DecoderOK(decoder)' /\ RequestTypes' /\ FlagTypes' /\ BitopTypes'
      BY <1>0, <1>6, <2>2 DEF Settle, DecoderOK, RequestTypes, FlagTypes, BitopTypes, bitopVars
    <3> QED BY <1>01, <3>1, <3>2, <3>3
  <2> QED BY <1>6, <2>1, <2>2 DEF Settle
<1>03. ASSUME Outdates("bitop") \/ Outdates("set"), bpc' \in {bpc, "idle"},
              old' = old, want' = want
       PROVE  BitopTypes'
  BY <1>0, <1>03 DEF Outdates, BitopTypes
<1>7. CASE Confirmed
  <2>1. DecoderOK(decoder)'
    BY <1>7, WrittenType DEF Confirmed, DecoderOK
  <2>2. PlanTypes'
    BY <1>0, <1>7 DEF Confirmed, PlanTypes
  <2>3. BitopTypes'
    BY <1>7, <1>03 DEF Confirmed
  <2>4. RequestTypes' /\ ReadTypes' /\ FlagTypes'
    BY <1>0, <1>7 DEF Confirmed, RequestTypes, ReadTypes, FlagTypes
  <2> QED BY <1>01, <2>1, <2>2, <2>3, <2>4
<1>04. ASSUME NEW a \in Ack, Finish(a), got' \in {got, Nothing},
              decoder' = decoder \/ (pc = "write" /\ decoder' = Written), BitopTypes'
       PROVE  TypeOK'
  <2>1. RequestTypes' /\ PlanTypes' /\ FlagTypes' /\ todo' \in Seq(Cvs)
    BY <1>0, <1>04, FinishTypes
  <2>2. ReadTypes'
    BY <1>0, <1>04, <2>1, GotTypes
  <2>3. DecoderOK(decoder)'
    BY <1>0, <1>04, WrittenType DEF DecoderOK
  <2> QED BY <1>01, <1>04, <2>1, <2>2, <2>3
<1>8. CASE WriteFailed
  <2>1. BitopTypes'
    BY <1>8, <1>03 DEF WriteFailed
  <2>2. PICK a \in GivesUp \cup {"programming_failed"} : Finish(a)
    BY <1>8 DEF WriteFailed
  <2> QED BY <1>8, <1>04, <2>1, <2>2 DEF WriteFailed, GivesUp, Failures
<1>9. CASE Revert
  <2>1. decoder[29] \in Flags /\ start.long \in BOOLEAN
    BY <1>0, AddressFields DEF DecoderOK, RequestTypes, ValuesOf, Cvs, AddressCvs
  <2>2. [decoder[29] EXCEPT !.bit = start.long] \in Flags
    BY <2>1 DEF Flags
  <2>3. decoder' = [decoder EXCEPT ![29] = [decoder[29] EXCEPT !.bit = start.long]]
    BY <1>9 DEF Revert
  <2>4. DecoderOK(decoder)'
    BY <1>0, <2>2, <2>3 DEF DecoderOK, ValuesOf
  <2>5. BitopTypes'
    BY <1>9, <1>03 DEF Revert
  <2>6. RequestTypes' /\ ReadTypes' /\ PlanTypes' /\ FlagTypes'
    BY <1>0, <1>9 DEF Revert, setVars, RequestTypes, ReadTypes, PlanTypes, FlagTypes
  <2> QED BY <1>01, <2>4, <2>5, <2>6
<1>10. CASE Observed
  <2>1. CASE Finish("cancelled") /\ UNCHANGED got
    BY <1>10, <1>02, <2>1 DEF Observed, Failures
  <2>2. CASE /\ pc' = "verify"
             /\ todo' = <<1, 17, 18, 29>>
             /\ got' = Nothing
             /\ UNCHANGED <<asked, plan, at, cancelled, ack, start>>
    <3>1. <<1, 17, 18, 29>> \in Seq(Cvs)
      BY DEF Cvs, AddressCvs
    <3>2. ReadTypes'
      BY <1>0, <2>2, <3>1, GotTypes
    <3>3. PlanTypes'
      BY <1>0, <2>2 DEF PlanTypes
    <3>4. DecoderOK(decoder)' /\ RequestTypes' /\ FlagTypes' /\ BitopTypes'
      BY <1>0, <1>10, <2>2 DEF Observed, DecoderOK, RequestTypes, FlagTypes, BitopTypes, bitopVars
    <3> QED BY <1>01, <3>2, <3>3, <3>4
  <2> QED BY <1>10, <2>1, <2>2 DEF Observed
<1>11. CASE VerifyFailed
  BY <1>11, <1>02 DEF VerifyFailed
<1>12. CASE Verify
  <2>1. Outcome(got) \in Ack
    BY DEF Outcome
  <2> QED BY <1>12, <1>02, <2>1 DEF Verify
<1>13. CASE Cancel
  BY <1>0, <1>01, <1>13
  DEF Cancel, bitopVars, DecoderOK, RequestTypes, ReadTypes, PlanTypes, FlagTypes, BitopTypes
<1>14. CASE Close
  <2>1. BitopTypes'
    BY <1>14, <1>03 DEF Close
  <2> QED BY <1>14, <1>04, <2>1 DEF Close
<1>15. ASSUME NEW w \in Wants, BitopRead(w) PROVE TypeOK'
  <2>1. BitopTypes'
    BY <1>0, <1>15, WantsAssumption
    DEF BitopRead, BitopTypes, DecoderOK, ValuesOf, Cvs, AddressCvs
  <2>2. DecoderOK(decoder)' /\ RequestTypes' /\ ReadTypes' /\ PlanTypes' /\ FlagTypes'
    BY <1>0, <1>15
    DEF BitopRead, setVars, DecoderOK, RequestTypes, ReadTypes, PlanTypes, FlagTypes
  <2> QED BY <1>01, <2>1, <2>2
<1>16. CASE BitopWrite
  <2>1. [old EXCEPT !.rest = want] \in Flags
    BY <1>0 DEF BitopTypes, Flags
  <2>2. DecoderOK(decoder)'
    BY <1>0, <1>16, <2>1 DEF BitopWrite, DecoderOK, ValuesOf
  <2>3. BitopTypes'
    BY <1>16, <1>03 DEF BitopWrite
  <2>4. RequestTypes' /\ ReadTypes' /\ PlanTypes' /\ FlagTypes'
    BY <1>0, <1>16
    DEF BitopWrite, setVars, RequestTypes, ReadTypes, PlanTypes, FlagTypes
  <2> QED BY <1>01, <2>2, <2>3, <2>4
<1>17. CASE UNCHANGED vars
  BY <1>17 DEF vars, setVars, bitopVars, TypeOK, Written
<1> QED
  BY <1>1, <1>2, <1>3, <1>4, <1>5, <1>6, <1>7, <1>8, <1>9, <1>10, <1>11, <1>12,
     <1>13, <1>14, <1>15, <1>16, <1>17 DEF Next

\* Every variable has its type, whoever else programs the decoder.
THEOREM TypeCorrect == Spec => []TypeOK
BY TypeInit, TypeStep, PTL DEF Spec

-----------------------------------------------------------------------------
(* OldOrNew says nothing of the CVs that do not count at the moment.  What    *)
(* the writes rely on: a CV of the old address keeps its value until the bit  *)
(* no longer makes it count ...                                               *)
Kept(d, s, w) ==
  /\ s.long /\ ~w.long => d[17] = s.hi /\ d[18] = s.lo
  /\ ~s.long /\ w.long => d[1] = s.n
  /\ ~s.long /\ ~w.long => d[1] \in {s.n, w.n}
  /\ s.long = w.long => d[29].bit = s.long

\* ... and the CVs of the new one are there before the bit makes them count.
Done(d, w) ==
  /\ w.long => d[17] = w.hi /\ d[18] = w.lo
  /\ ~w.long => d[1] = w.n

Progress(d, p, i, w) ==
  /\ w.long => /\ i > Len(p) - 2 => d[17] = w.hi
               /\ i > Len(p) - 1 => d[18] = w.lo
  /\ ~w.long => (i > Len(p) - 1 => d[1] = w.n)

OldAddress(d, s, w) == Kept(d, s, w) /\ d[29].bit = s.long
NewAddress(d, s, w) == Kept(d, s, w) /\ Done(d, w)

Reached(d, s, w) == Decode(d) \in {s, w} \/ (s.long /\ w.long /\ d[29].bit)

Staged ==
  /\ Reached(decoder, start, asked.new)
  /\ pc \in {"read", "settle", "write"} => OldAddress(decoder, start, asked.new)
  /\ pc \in {"settle", "write"} =>
       Shape(plan, asked.new) /\ Progress(decoder, plan, at, asked.new)
  /\ pc = "observe" => NewAddress(decoder, start, asked.new)

\* All this unless another connection has changed CV 29 since the request came.
Stages == Undisturbed => Staged

\* With what the writes rely on, the decoder has one of the two addresses.
LEMMA StageReached ==
  ASSUME NEW d, DecoderOK(d), NEW s \in Addresses, NEW w \in Addresses,
         OldAddress(d, s, w) \/ NewAddress(d, s, w)
  PROVE  Reached(d, s, w)
<1>1. d[29].bit \in BOOLEAN
  BY DEF DecoderOK, ValuesOf, Cvs, AddressCvs, Flags
<1>2. CASE d[29].bit
  <2>1. Decode(d) = Long(d[17], d[18])
    BY <1>2 DEF Decode
  <2>2. CASE w.long /\ NewAddress(d, s, w)
    BY <2>1, <2>2, AddressFields DEF NewAddress, Done, Reached
  <2>3. CASE s.long /\ w.long
    BY <1>2, <2>3 DEF Reached
  <2>4. CASE s.long /\ ~w.long
    BY <2>1, <2>4, AddressFields DEF OldAddress, NewAddress, Kept, Reached
  <2>5. s.long \/ (w.long /\ NewAddress(d, s, w))
    BY <1>2, AddressFields DEF OldAddress, NewAddress, Kept
  <2> QED BY <2>2, <2>3, <2>4, <2>5
<1>3. CASE ~d[29].bit
  <2>1. Decode(d) = Short(d[1])
    BY <1>3 DEF Decode
  <2>2. CASE ~w.long /\ NewAddress(d, s, w)
    BY <2>1, <2>2, AddressFields DEF NewAddress, Done, Reached
  <2>3. CASE ~s.long
    BY <2>1, <2>3, AddressFields DEF OldAddress, NewAddress, Kept, Reached
  <2>4. ~s.long \/ (~w.long /\ NewAddress(d, s, w))
    BY <1>3, AddressFields DEF OldAddress, NewAddress, Kept
  <2> QED BY <2>2, <2>3, <2>4
<1> QED BY <1>2, <1>3

\* What one write of a plan does to the CVs of an address.
LEMMA WriteStage ==
  ASSUME NEW d, DecoderOK(d), NEW s \in Addresses, NEW w \in Addresses,
         NEW p \in Seq(Entries), Shape(p, w), NEW i \in 1..Len(p),
         OldAddress(d, s, w), Progress(d, p, i, w)
  PROVE  LET e == [d EXCEPT ![p[i].cv] = p[i].value] IN
         /\ i = Len(p) => NewAddress(e, s, w)
         /\ i # Len(p) => OldAddress(e, s, w) /\ Progress(e, p, i + 1, w)
<1> DEFINE e == [d EXCEPT ![p[i].cv] = p[i].value]
<1>0. DOMAIN d = Cvs /\ {1, 17, 18, 28, 29} = Cvs /\ s.long \in BOOLEAN /\ w.long \in BOOLEAN
  BY AddressFields DEF DecoderOK, Cvs, AddressCvs
<1>01. Len(p) \in Nat
  OBVIOUS
<1>1. CASE i = Len(p)
  <2>1. e = [d EXCEPT ![29] = p[i].value] /\ p[i].value.bit = w.long
    BY <1>1 DEF Shape
  <2>2. e[29].bit = w.long /\ e[1] = d[1] /\ e[17] = d[17] /\ e[18] = d[18]
    BY <1>0, <2>1
  <2>3. Done(e, w)
    BY <1>0, <1>1, <1>01, <2>2 DEF Progress, Done
  <2>4. Kept(e, s, w)
    BY <1>0, <2>2 DEF OldAddress, Kept
  <2> QED BY <1>1, <2>3, <2>4 DEF NewAddress
<1>2. CASE w.long /\ i = Len(p) - 1
  <2>0. p[i].cv = 18 /\ p[i].value = w.lo
    <3>1. p[i] = Entry(18, w.lo)
      BY <1>2 DEF Shape
    <3> QED BY <3>1 DEF Entry
  <2>1. e = [d EXCEPT ![18] = w.lo]
    BY <2>0
  <2>2. e[29] = d[29] /\ e[1] = d[1] /\ e[17] = d[17] /\ e[18] = w.lo
    BY <1>0, <2>1
  <2>3. OldAddress(e, s, w)
    BY <1>2, <2>2 DEF OldAddress, Kept
  <2>4. Progress(e, p, i + 1, w)
    BY <1>01, <1>2, <2>2 DEF Progress
  <2> QED BY <1>01, <1>2, <2>3, <2>4
<1>3. CASE w.long /\ i = Len(p) - 2
  <2>0. p[i].cv = 17 /\ p[i].value = w.hi
    <3>1. p[i] = Entry(17, w.hi)
      BY <1>3 DEF Shape
    <3> QED BY <3>1 DEF Entry
  <2>1. e = [d EXCEPT ![17] = w.hi]
    BY <2>0
  <2>2. e[29] = d[29] /\ e[1] = d[1] /\ e[17] = w.hi
    BY <1>0, <2>1
  <2>3. OldAddress(e, s, w)
    BY <1>3, <2>2 DEF OldAddress, Kept
  <2>4. Progress(e, p, i + 1, w)
    BY <1>01, <1>3, <2>2 DEF Progress
  <2> QED BY <1>01, <1>3, <2>3, <2>4
<1>4. CASE ~w.long /\ i = Len(p) - 1
  <2>0. p[i].cv = 1 /\ p[i].value = w.n
    <3>1. p[i] = Entry(1, w.n)
      BY <1>4 DEF Shape
    <3> QED BY <3>1 DEF Entry
  <2>1. e = [d EXCEPT ![1] = w.n]
    BY <2>0
  <2>2. e[29] = d[29] /\ e[1] = w.n /\ e[17] = d[17] /\ e[18] = d[18]
    BY <1>0, <2>1
  <2>3. OldAddress(e, s, w)
    BY <1>4, <2>2 DEF OldAddress, Kept
  <2>4. Progress(e, p, i + 1, w)
    BY <1>4, <2>2 DEF Progress
  <2> QED BY <1>01, <1>4, <2>3, <2>4
<1>5. CASE IF w.long THEN i \in 1..Len(p) - 3 ELSE i \in 1..Len(p) - 2
  <2>1. p[i].cv = 28
    BY <1>5 DEF Shape
  <2>2. e[29] = d[29] /\ e[1] = d[1] /\ e[17] = d[17] /\ e[18] = d[18]
    BY <1>0, <2>1
  <2>3. OldAddress(e, s, w)
    BY <2>2 DEF OldAddress, Kept
  <2>4. Progress(e, p, i + 1, w)
    BY <1>01, <1>5, <2>2 DEF Progress
  <2>5. i # Len(p)
    BY <1>01, <1>5
  <2> QED BY <2>3, <2>4, <2>5
<1> QED BY <1>01, <1>1, <1>2, <1>3, <1>4, <1>5

\* The stages hold in the initial states ...
LEMMA StagesInit == Init => Stages
BY DEF Init, Stages, Staged, Reached

\* ... an end of the request at one of the two addresses keeps them ...
LEMMA FinishStages ==
  ASSUME NEW a, Finish(a), Reached(decoder', start, asked.new)
  PROVE  Staged'
BY DEF Finish, Staged

\* ... and so does every step.
LEMMA StagesStep == TypeOK /\ TypeOK' /\ Stages /\ [Next]_vars => Stages'
<1> SUFFICES ASSUME TypeOK, TypeOK', Stages, [Next]_vars, Undisturbed'
             PROVE  Staged'
  BY DEF Stages
<1>0. /\ DecoderOK(decoder) /\ DecoderOK(decoder')
      /\ start \in Addresses /\ asked.new \in Addresses
  BY DEF TypeOK, DecoderOK, Requests
<1>1. ASSUME NEW r \in Requests, Start(r) PROVE Staged'
  <2>1. /\ decoder' = decoder /\ pc' = "read" /\ start' = Decode(decoder)
        /\ asked' = r
    BY <1>1 DEF Start
  <2>2. decoder[29].bit \in BOOLEAN
    BY <1>0 DEF DecoderOK, ValuesOf, Cvs, AddressCvs, Flags
  <2>3. OldAddress(decoder, Decode(decoder), r.new)
    BY <2>2 DEF OldAddress, Kept, Decode, Long, Short
  <2>4. Reached(decoder, Decode(decoder), r.new)
    BY DEF Reached
  <2> QED BY <2>1, <2>3, <2>4 DEF Staged
<1>02. ASSUME stale' = stale \/ stale' = stale \ {"bitop"}
              \/ Outdates("bitop") \/ Outdates("set")
       PROVE  Staged
  BY <1>02 DEF Undisturbed, Outdates, Stages
<1>01. ASSUME NEW a, Finish(a), decoder' = decoder, bitopVars' = bitopVars
       PROVE  Staged'
  BY <1>01, <1>02, FinishStages DEF bitopVars, Staged
<1>2. CASE Refuse
  BY <1>2, <1>01 DEF Refuse
<1>3. CASE ReadCv
  BY <1>3, <1>02 DEF ReadCv, bitopVars, Staged
<1>4. CASE ReadFailed
  BY <1>4, <1>01 DEF ReadFailed
<1>5. CASE Plan
  <2>1. CASE \E a \in Failures : Finish(a)
    BY <1>5, <1>01, <2>1 DEF Plan
  <2>2. CASE /\ ~cancelled
             /\ 29 \in DOMAIN got
             /\ plan' = PlanSetWrites(got, asked)
             /\ at' = 1
             /\ pc' = "settle"
             /\ UNCHANGED <<asked, todo, cancelled, ack, start>>
    <3>1. Shape(plan', asked.new)
      BY <2>2, PlanShape DEF TypeOK
    <3>2. Progress(decoder, plan', 1, asked.new)
      BY <3>1 DEF Progress, Shape
    <3>3. decoder' = decoder /\ stale' = stale
      BY <1>5 DEF Plan, bitopVars
    <3>4. OldAddress(decoder, start, asked.new) /\ Reached(decoder, start, asked.new)
      BY <1>5, <1>02, <3>3 DEF Plan, Staged
    <3> QED BY <2>2, <3>1, <3>2, <3>3, <3>4 DEF Staged
  <2> QED BY <1>5, <2>1, <2>2 DEF Plan, Failures
<1>6. CASE Settle
  <2>1. CASE Finish("cancelled")
    BY <1>6, <1>01, <2>1 DEF Settle
  <2>2. CASE pc' = "write" /\ UNCHANGED <<asked, todo, plan, at, cancelled, ack, start>>
    BY <1>6, <1>02, <2>2 DEF Settle, bitopVars, Staged
  <2> QED BY <1>6, <2>1, <2>2 DEF Settle
<1>03. ASSUME pc = "write", Staged
       PROVE  /\ at = Len(plan) => NewAddress(Written, start, asked.new)
              /\ at # Len(plan) => /\ OldAddress(Written, start, asked.new)
                                   /\ Progress(Written, plan, at + 1, asked.new)
  <2>1. plan \in Seq(Entries) /\ at \in 1..Len(plan)
    BY <1>03 DEF TypeOK
  <2>2. /\ Shape(plan, asked.new) /\ Progress(decoder, plan, at, asked.new)
        /\ OldAddress(decoder, start, asked.new)
    BY <1>03 DEF Staged
  <2> QED BY <1>0, <2>1, <2>2, WriteStage DEF Written
<1>04. ASSUME pc = "write", Staged PROVE Reached(Written, start, asked.new)
  BY <1>0, <1>03, <1>04, StageReached, WrittenType
<1>7. CASE Confirmed
  <2>1. /\ pc = "write" /\ decoder' = Written /\ at' = at + 1
        /\ plan' = plan /\ asked' = asked /\ start' = start
        /\ pc' = IF at = Len(plan) THEN "observe" ELSE "settle"
    BY <1>7 DEF Confirmed
  <2>2. Staged
    BY <1>7, <1>02 DEF Confirmed
  <2>3. Shape(plan, asked.new)
    BY <2>1, <2>2 DEF Staged
  <2>4. Reached(Written, start, asked.new)
    BY <1>04, <2>1, <2>2
  <2>5. CASE at = Len(plan)
    BY <1>03, <2>1, <2>2, <2>4, <2>5 DEF Staged
  <2>6. CASE at # Len(plan)
    BY <1>03, <2>1, <2>2, <2>3, <2>4, <2>6 DEF Staged
  <2> QED BY <2>5, <2>6
<1>8. CASE WriteFailed
  <2>1. PICK a \in GivesUp \cup {"programming_failed"} : Finish(a)
    BY <1>8 DEF WriteFailed
  <2>2. Staged
    BY <1>8, <1>02 DEF WriteFailed
  <2>3. Reached(decoder', start, asked.new)
    BY <1>04, <1>8, <2>2 DEF WriteFailed, Staged
  <2> QED BY <2>1, <2>3, FinishStages
<1>9. CASE Revert
  <2>1. NewAddress(decoder, start, asked.new) /\ pc = "observe"
    BY <1>9, <1>02 DEF Revert, Staged
  <2>2. /\ decoder'[1] = decoder[1] /\ decoder'[17] = decoder[17]
        /\ decoder'[18] = decoder[18] /\ decoder'[29].bit = start.long
    <3>1. decoder' = [decoder EXCEPT ![29] = [decoder[29] EXCEPT !.bit = start.long]]
      BY <1>9 DEF Revert
    <3>2. [decoder[29] EXCEPT !.bit = start.long].bit = start.long
      BY <1>0 DEF DecoderOK, ValuesOf, Cvs, AddressCvs, Flags
    <3> QED BY <1>0, <3>1, <3>2 DEF DecoderOK, Cvs, AddressCvs
  <2>3. NewAddress(decoder', start, asked.new)
    BY <2>1, <2>2 DEF NewAddress, Kept, Done
  <2>4. Reached(decoder', start, asked.new)
    BY <1>0, <2>3, StageReached
  <2>5. pc' = "observe" /\ asked' = asked /\ start' = start
    BY <1>9, <2>1 DEF Revert, setVars
  <2> QED BY <2>3, <2>4, <2>5 DEF Staged
<1>10. CASE Observed
  <2>1. CASE Finish("cancelled")
    BY <1>10, <1>01, <2>1 DEF Observed
  <2>2. CASE pc' = "verify" /\ UNCHANGED <<asked, start>>
    BY <1>10, <1>02, <2>2 DEF Observed, bitopVars, Staged
  <2> QED BY <1>10, <2>1, <2>2 DEF Observed
<1>11. CASE VerifyFailed
  BY <1>11, <1>01 DEF VerifyFailed
<1>12. CASE Verify
  BY <1>12, <1>01 DEF Verify
<1>13. CASE Cancel
  BY <1>13, <1>02 DEF Cancel, bitopVars, Staged
<1>14. CASE Close
  <2>1. Staged
    BY <1>14, <1>02 DEF Close
  <2>2. Reached(decoder', start, asked.new)
    BY <1>04, <1>14, <2>1 DEF Close, Staged
  <2> QED BY <1>14, <2>2, FinishStages DEF Close
<1>15. ASSUME NEW w \in Wants, BitopRead(w) PROVE Staged'
  BY <1>15, <1>02 DEF BitopRead, setVars, Staged
<1>16. CASE BitopWrite
  <2>1. decoder'[29] = decoder[29]
    BY <1>16 DEF BitopWrite, Outdates, Undisturbed
  <2>2. /\ decoder'[1] = decoder[1]
        /\ decoder'[17] = decoder[17]
        /\ decoder'[18] = decoder[18]
    BY <1>0, <1>16 DEF BitopWrite, DecoderOK, Cvs, AddressCvs
  <2>3. Staged
    BY <1>16, <1>02 DEF BitopWrite
  <2>4. UNCHANGED <<pc, asked, plan, at, start>>
    BY <1>16 DEF BitopWrite, setVars
  <2> QED BY <2>1, <2>2, <2>3, <2>4
          DEF Staged, Reached, Decode, OldAddress, NewAddress, Kept, Done, Progress
<1>17. CASE UNCHANGED vars
  BY <1>17, <1>02 DEF vars, setVars, bitopVars, Staged
<1> QED
  BY <1>1, <1>2, <1>3, <1>4, <1>5, <1>6, <1>7, <1>8, <1>9, <1>10, <1>11, <1>12,
     <1>13, <1>14, <1>15, <1>16, <1>17 DEF Next

\* address.set can be stopped at any of its bus calls, by an error, a cancel or a
\* closed socket: unless another connection has changed CV 29 meanwhile, the
\* decoder then answers to the address it had or to the one it was to get, or is
\* between two long ones.
THEOREM StoppedAnywhere == Spec => []OldOrNew
<1>1. Stages => OldOrNew
  BY DEF Stages, Staged, Reached, OldOrNew, Torn
<1> QED BY <1>1, StagesInit, StagesStep, TypeCorrect, PTL DEF Spec

-----------------------------------------------------------------------------
(* LostOnlyIfStale: a handler writes back what it read, so the other bits of   *)
(* its copy must still be the decoder's.                                      *)
SameRest(p, d) ==
  \A i \in 1..Len(p) : p[i].cv \in {28, 29} => p[i].value.rest = d[p[i].cv].rest

Copies ==
  /\ bpc = "write" /\ "bitop" \notin stale => old = decoder[29]
  /\ pc = "read" /\ 28 \in DOMAIN got => got[28].rest = decoder[28].rest
  /\ pc = "read" /\ 29 \in DOMAIN got /\ Undisturbed => got[29] = decoder[29]
  /\ pc \in {"settle", "write"} /\ Undisturbed => SameRest(plan, decoder)

\* plan_set_writes() keeps the other bits of what has been read.
LEMMA PlanRests ==
  ASSUME NEW cvs, DOMAIN cvs \subseteq Cvs, 29 \in DOMAIN cvs,
         \A n \in DOMAIN cvs : cvs[n] \in ValuesOf(n),
         NEW r, NEW d, cvs[29].rest = d[29].rest,
         28 \in DOMAIN cvs => cvs[28].rest = d[28].rest
  PROVE  SameRest(PlanSetWrites(cvs, r), d)
<1> DEFINE w == PlanAddressWrites(r.new, cvs[29])
           q == PlanRailcomPlus(cvs, r.plus)
           on == Entry(29, [cvs[29] EXCEPT !.bit = TRUE])
           off == Entry(29, [cvs[29] EXCEPT !.bit = FALSE])
<1>1. /\ on.cv = 29 /\ on.value.rest = d[29].rest
      /\ off.cv = 29 /\ off.value.rest = d[29].rest
  <2>1. cvs[29] \in Flags
    BY DEF ValuesOf
  <2> QED BY <2>1 DEF Entry, Flags
<1> HIDE DEF on, off
<1>2. /\ r.new.long => w = <<Entry(17, r.new.hi), Entry(18, r.new.lo), on>>
      /\ ~r.new.long => w = <<Entry(1, r.new.n), off>>
  BY DEF PlanAddressWrites, on, off
<1>3. \/ q = <<>>
      \/ \E e : e.cv = 28 /\ e.value.rest = d[28].rest /\ q = <<e>>
  <2>1. SUFFICES ASSUME q # <<>>
                 PROVE \E e : e.cv = 28 /\ e.value.rest = d[28].rest /\ q = <<e>>
    OBVIOUS
  <2>2. 28 \in DOMAIN cvs /\ q = <<Entry(28, [cvs[28] EXCEPT !.bit = ~@])>>
    BY <2>1 DEF PlanRailcomPlus
  <2>3. cvs[28] \in Flags
    BY <2>2 DEF ValuesOf
  <2>4. Entry(28, [cvs[28] EXCEPT !.bit = ~@]).value.rest = d[28].rest
    BY <2>2, <2>3 DEF Entry, Flags
  <2> QED BY <2>2, <2>4 DEF Entry
<1>5. PlanSetWrites(cvs, r) = q \o w
  BY DEF PlanSetWrites
<1> HIDE DEF w, q
<1>4. SameRest(w, d)
  <2>1. CASE r.new.long
    <3>1. Len(w) = 3 /\ w[1].cv = 17 /\ w[2].cv = 18 /\ w[3] = on
      <4>1. w = <<Entry(17, r.new.hi), Entry(18, r.new.lo), on>>
        BY <1>2, <2>1
      <4>2. /\ Len(w) = 3
            /\ w[1] = Entry(17, r.new.hi)
            /\ w[2] = Entry(18, r.new.lo)
            /\ w[3] = on
        BY <4>1
      <4> QED BY <4>2 DEF Entry
    <3>2. \A i \in 1..3 : i = 1 \/ i = 2 \/ i = 3
      OBVIOUS
    <3> QED BY <1>1, <3>1, <3>2 DEF SameRest
  <2>2. CASE ~r.new.long
    <3>1. Len(w) = 2 /\ w[1].cv = 1 /\ w[2] = off
      <4>1. w = <<Entry(1, r.new.n), off>>
        BY <1>2, <2>2
      <4>2. Len(w) = 2 /\ w[1] = Entry(1, r.new.n) /\ w[2] = off
        BY <4>1
      <4> QED BY <4>2 DEF Entry
    <3>2. \A i \in 1..2 : i = 1 \/ i = 2
      OBVIOUS
    <3> QED BY <1>1, <3>1, <3>2 DEF SameRest
  <2> QED BY <2>1, <2>2
<1> DEFINE All == {Entry(17, r.new.hi), Entry(18, r.new.lo), on,
                   Entry(1, r.new.n), off}
<1>6. w \in Seq(All)
  <2>1. CASE r.new.long
    <3>1. w = <<Entry(17, r.new.hi), Entry(18, r.new.lo), on>>
      BY <1>2, <2>1
    <3>2. /\ Entry(17, r.new.hi) \in All
          /\ Entry(18, r.new.lo) \in All
          /\ on \in All
      OBVIOUS
    <3> HIDE DEF All
    <3> QED BY <3>1, <3>2
  <2>2. CASE ~r.new.long
    <3>1. w = <<Entry(1, r.new.n), off>>
      BY <1>2, <2>2
    <3>2. Entry(1, r.new.n) \in All /\ off \in All
      OBVIOUS
    <3> HIDE DEF All
    <3> QED BY <3>1, <3>2
  <2> QED BY <2>1, <2>2
<1> HIDE DEF All
<1>7. CASE q = <<>>
  BY <1>4, <1>5, <1>6, <1>7
<1>8. ASSUME NEW e, e.cv = 28, e.value.rest = d[28].rest, q = <<e>>
      PROVE  SameRest(q \o w, d)
  <2>1. /\ Len(w) \in Nat
        /\ Len(q \o w) = Len(w) + 1
        /\ (q \o w)[1] = e
        /\ \A i \in 2..Len(w) + 1 : (q \o w)[i] = w[i - 1]
    <3> DEFINE S == All \cup {e}
    <3>1. w \in Seq(S)
      BY <1>6
    <3>2. q \in Seq(S) /\ Len(q) = 1 /\ q[1] = e
      BY <1>8
    <3> HIDE DEF S
    <3> QED BY <1>8, <3>1, <3>2
  <2> DEFINE p == q \o w
  <2>2. Len(p) = Len(w) + 1 /\ p[1] = e /\ \A i \in 2..Len(w) + 1 : p[i] = w[i - 1]
    BY <2>1
  <2> HIDE DEF p
  <2>3. ASSUME NEW i \in 1..Len(p), p[i].cv \in {28, 29}
        PROVE  p[i].value.rest = d[p[i].cv].rest
    <3>1. CASE i = 1
      BY <1>8, <2>2, <3>1
    <3>2. CASE i # 1
      <4>1. i \in 2..Len(w) + 1 /\ i - 1 \in 1..Len(w)
        BY <2>1, <2>2, <3>2
      <4>2. p[i] = w[i - 1]
        BY <2>2, <4>1
      <4> QED BY <1>4, <2>3, <4>1, <4>2 DEF SameRest
    <3> QED BY <3>1, <3>2
  <2>4. SameRest(p, d)
    BY <2>3 DEF SameRest
  <2> QED BY <2>4 DEF p
<1> QED BY <1>3, <1>5, <1>7, <1>8

LEMMA CopiesInit == Init => Copies
BY DEF Init, Copies, Nothing

\* The copies stay true as long as they are not marked stale.
LEMMA CopiesStep == TypeOK /\ TypeOK' /\ Copies /\ [Next]_vars => Copies'
<1> SUFFICES ASSUME TypeOK, TypeOK', Copies, [Next]_vars
             PROVE  Copies'
  OBVIOUS
<1>0. DecoderOK(decoder)
  BY DEF TypeOK, DecoderOK
<1>01. ASSUME NEW a, Finish(a), decoder' = decoder, bitopVars' = bitopVars
       PROVE  Copies'
  BY <1>01 DEF Finish, bitopVars, Copies
<1>1. CASE Refuse
  BY <1>1, <1>01 DEF Refuse
<1>2. ASSUME NEW r \in Requests, Start(r) PROVE Copies'
  BY <1>2 DEF Start, Copies, Nothing
<1>3. CASE ReadCv
  <2>1. CASE got' = got
    BY <1>3, <2>1 DEF ReadCv, bitopVars, Copies, Undisturbed
  <2>2. CASE got' = Remember(got, Head(todo))
    <3>1. \A n \in DOMAIN got' : got'[n] = decoder[n] \/ (n \in DOMAIN got /\ got'[n] = got[n])
      BY <2>2 DEF Remember
    <3> QED BY <1>3, <3>1 DEF ReadCv, bitopVars, Copies, Undisturbed
  <2> QED BY <1>3, <2>1, <2>2 DEF ReadCv
<1>4. CASE ReadFailed
  BY <1>4, <1>01 DEF ReadFailed
<1>5. CASE Plan
  <2>1. CASE \E a \in Failures : Finish(a)
    BY <1>5, <1>01, <2>1 DEF Plan
  <2>2. CASE /\ ~cancelled
             /\ 29 \in DOMAIN got
             /\ plan' = PlanSetWrites(got, asked)
             /\ at' = 1
             /\ pc' = "settle"
             /\ UNCHANGED <<asked, todo, cancelled, ack, start>>
    <3>1. pc = "read" /\ decoder' = decoder /\ UNCHANGED <<bpc, old, want, stale>>
      BY <1>5 DEF Plan, bitopVars
    <3>2. Undisturbed => SameRest(plan', decoder)
      BY <2>2, <3>1, PlanRests DEF Copies, TypeOK
    <3> QED BY <2>2, <3>1, <3>2 DEF Copies, Undisturbed
  <2> QED BY <1>5, <2>1, <2>2 DEF Plan, Failures
<1>6. CASE Settle
  <2>1. CASE Finish("cancelled")
    BY <1>6, <1>01, <2>1 DEF Settle
  <2>2. CASE pc' = "write" /\ UNCHANGED <<asked, todo, plan, at, cancelled, ack, start>>
    BY <1>6, <2>2 DEF Settle, bitopVars, Copies, Undisturbed
  <2> QED BY <1>6, <2>1, <2>2 DEF Settle
<1>02. ASSUME Outdates("bitop"), UNCHANGED <<bpc, old>>
       PROVE  bpc' = "write" /\ "bitop" \notin stale' => old' = decoder'[29]
  BY <1>02 DEF Outdates, Copies
<1>7. CASE Confirmed
  <2>1. /\ pc = "write" /\ decoder' = Written /\ plan' = plan
        /\ pc' \in {"observe", "settle"} /\ Outdates("bitop")
        /\ UNCHANGED <<bpc, old, want>>
    BY <1>7 DEF Confirmed
  <2>2. Undisturbed' => SameRest(plan, decoder)
    BY <2>1 DEF Copies, Undisturbed, Outdates
  <2>3. ASSUME SameRest(plan, decoder) PROVE SameRest(plan, Written)
    BY <1>0, <2>1, <2>3 DEF SameRest, Written, TypeOK, Entries, DecoderOK
  <2> QED BY <1>02, <2>1, <2>2, <2>3 DEF Copies
<1>8. CASE WriteFailed
  BY <1>8, <1>02 DEF WriteFailed, Finish, Copies
<1>9. CASE Revert
  <2>1. pc' = "observe"
    BY <1>9 DEF Revert, setVars
  <2> QED BY <1>9, <1>02, <2>1 DEF Revert, Copies
<1>10. CASE Observed
  <2>1. CASE Finish("cancelled")
    BY <1>10, <1>01, <2>1 DEF Observed
  <2>2. CASE pc' = "verify"
    BY <1>10, <2>2 DEF Observed, bitopVars, Copies
  <2> QED BY <1>10, <2>1, <2>2 DEF Observed
<1>11. CASE VerifyFailed
  BY <1>11, <1>01 DEF VerifyFailed
<1>12. CASE Verify
  BY <1>12, <1>01 DEF Verify
<1>13. CASE Cancel
  BY <1>13 DEF Cancel, bitopVars, Copies, Undisturbed
<1>14. CASE Close
  BY <1>14, <1>02 DEF Close, Finish, Copies
<1>15. ASSUME NEW w \in Wants, BitopRead(w) PROVE Copies'
  BY <1>15 DEF BitopRead, setVars, Copies, Undisturbed
<1>16. CASE BitopWrite
  <2>1. bpc' = "idle" /\ UNCHANGED <<pc, plan, got>> /\ Outdates("set")
    BY <1>16 DEF BitopWrite, setVars
  <2>2. decoder'[28].rest = decoder[28].rest
    BY <1>0, <1>16 DEF BitopWrite, DecoderOK, Cvs, AddressCvs
  <2>3. Undisturbed' => Undisturbed /\ decoder'[29] = decoder[29]
    BY <2>1 DEF Outdates, Undisturbed
  <2> QED BY <2>1, <2>2, <2>3 DEF Copies, SameRest
<1>17. CASE UNCHANGED vars
  BY <1>17 DEF vars, setVars, bitopVars, Copies, Undisturbed
<1> QED
  BY <1>1, <1>2, <1>3, <1>4, <1>5, <1>6, <1>7, <1>8, <1>9, <1>10, <1>11, <1>12,
     <1>13, <1>14, <1>15, <1>16, <1>17 DEF Next

\* A step loses the other handler's bits only if a copy is stale.
LEMMA LosesNothing ==
  ASSUME TypeOK, Copies, stale = {}, [Next]_vars
  PROVE  /\ bpc' = bpc => \A n \in {28, 29} : decoder'[n].rest = decoder[n].rest
         /\ bpc' # bpc => decoder'[29].bit = decoder[29].bit
<1>0. DecoderOK(decoder) /\ Undisturbed /\ "bitop" \notin stale
  BY DEF TypeOK, DecoderOK, Undisturbed
<1>1. CASE decoder' = decoder
  BY <1>1
<1>2. CASE pc = "write" /\ decoder' = Written /\ bpc' = bpc
  <2>1. /\ at \in 1..Len(plan) /\ plan[at] \in Entries /\ SameRest(plan, decoder)
    BY <1>0, <1>2, WrittenType DEF TypeOK, Copies
  <2>2. plan[at].cv \in {28, 29} => plan[at].value.rest = decoder[plan[at].cv].rest
    BY <2>1 DEF SameRest
  <2> QED BY <1>0, <1>2, <2>2 DEF Written, DecoderOK, Cvs, AddressCvs
<1>3. CASE Revert
  <2>1. decoder' = [decoder EXCEPT ![29] = [decoder[29] EXCEPT !.bit = start.long]]
        /\ bpc' = bpc
    BY <1>3 DEF Revert
  <2>2. [decoder[29] EXCEPT !.bit = start.long].rest = decoder[29].rest
    BY <1>0 DEF DecoderOK, ValuesOf, Cvs, AddressCvs, Flags
  <2> QED BY <1>0, <2>1, <2>2 DEF DecoderOK, Cvs, AddressCvs
<1>4. CASE BitopWrite
  <2>1. bpc = "write" /\ bpc' = "idle" /\ old = decoder[29]
    BY <1>0, <1>4 DEF BitopWrite, Copies
  <2>2. [old EXCEPT !.rest = want].bit = decoder[29].bit
    BY <2>1 DEF TypeOK, Flags
  <2> QED BY <1>0, <1>4, <2>1, <2>2 DEF BitopWrite, DecoderOK, Cvs, AddressCvs
<1>5. CASE Refuse \/ (\E r \in Requests : Start(r)) \/ ReadCv \/ ReadFailed \/ Plan \/ Settle
  BY <1>1, <1>5 DEF Refuse, Start, ReadCv, ReadFailed, Plan, Settle
<1>6. CASE Observed \/ VerifyFailed \/ Verify \/ Cancel \/ (\E w \in Wants : BitopRead(w))
  BY <1>1, <1>6 DEF Observed, VerifyFailed, Verify, Cancel, BitopRead
<1>7. CASE Confirmed
  BY <1>2, <1>7 DEF Confirmed
<1>8. CASE WriteFailed
  BY <1>1, <1>2, <1>8 DEF WriteFailed
<1>9. CASE Close
  BY <1>1, <1>2, <1>9 DEF Close
<1>10. CASE UNCHANGED vars
  BY <1>1, <1>10 DEF vars
<1> QED BY <1>3, <1>4, <1>5, <1>6, <1>7, <1>8, <1>9, <1>10 DEF Next

\* address.set and cv.bitop, interleaved in any way and failing anywhere, lose
\* each other's bits only by writing back a copy that the other made stale.
THEOREM LossNeedsStaleCopy == Spec => LostOnlyIfStale
<1>1. TypeOK /\ Copies /\ [Next]_vars =>
        [stale = {} =>
           /\ bpc' = bpc => \A n \in {28, 29} : decoder'[n].rest = decoder[n].rest
           /\ bpc' # bpc => decoder'[29].bit = decoder[29].bit]_vars
  BY LosesNothing
<1> QED
  BY <1>1, CopiesInit, CopiesStep, TypeCorrect, PTL DEF Spec, LostOnlyIfStale

-----------------------------------------------------------------------------
(* AdoptedIsActual.  What verify() has read is what the decoder has, while it  *)
(* reads and for as long as its answer stands.                                *)
Shown(g, d) == \A n \in DOMAIN g \cap AddressCvs : g[n] = d[n]

Seen ==
  Undisturbed =>
    /\ pc = "verify" => Shown(got, decoder)
    /\ pc = "idle" /\ ack \in {"ok", "address_reverted"} => Shown(got, decoder)
    /\ pc = "idle" /\ ack = "ok" => Decode(decoder) = asked.new

\* A complete batch shows the decoder's address.
LEMMA ShownDecodes ==
  ASSUME NEW g, NEW d, AddressCvs \subseteq DOMAIN g, Shown(g, d)
  PROVE  Decode(g) = Decode(d)
<1>1. g[1] = d[1] /\ g[17] = d[17] /\ g[18] = d[18] /\ g[29] = d[29]
  BY DEF Shown, AddressCvs
<1> QED BY <1>1 DEF Decode

\* A CV just read is what the decoder has.
LEMMA RememberShows ==
  ASSUME NEW g, NEW n, Shown(g, decoder)
  PROVE  Shown(Remember(g, n), decoder)
BY DEF Shown, Remember

LEMMA NothingShows == \A d : Shown(Nothing, d)
BY DEF Shown, Nothing

LEMMA SeenInit == Init => Seen
BY DEF Init, Seen

LEMMA SeenStep == TypeOK /\ Seen /\ [Next]_vars => Seen'
<1> SUFFICES ASSUME TypeOK, Seen, [Next]_vars PROVE Seen'
  OBVIOUS
<1>0. DecoderOK(decoder)
  BY DEF TypeOK, DecoderOK
<1>1. CASE Refuse
  BY <1>1 DEF Refuse, Finish, Seen
<1>2. ASSUME NEW r \in Requests, Start(r) PROVE Seen'
  BY <1>2 DEF Start, Seen
<1>3. CASE ReadCv
  <2>1. pc' = pc /\ decoder' = decoder /\ stale' = stale /\ pc \in {"read", "verify"}
    BY <1>3 DEF ReadCv, bitopVars
  <2>2. Shown(got, decoder) => Shown(got', decoder)
    BY <1>3, RememberShows DEF ReadCv
  <2>3. (Undisturbed /\ pc = "verify") => Shown(got', decoder')
    BY <2>1, <2>2 DEF Seen
  <2>4. Undisturbed' = Undisturbed
    BY <2>1 DEF Undisturbed
  <2>5. Shown(got, decoder)' <=> Shown(got', decoder')
    BY DEF Shown
  <2> QED BY <2>1, <2>3, <2>4, <2>5 DEF Seen
<1>4. CASE ReadFailed
  BY <1>4 DEF ReadFailed, Finish, GivesUp, Seen
<1>5. CASE Plan
  BY <1>5 DEF Plan, Finish, Seen
<1>6. CASE Settle
  BY <1>6 DEF Settle, Finish, Seen
<1>7. CASE Confirmed
  BY <1>7 DEF Confirmed, Seen
<1>8. CASE WriteFailed
  BY <1>8 DEF WriteFailed, Finish, GivesUp, Seen
<1>9. CASE Revert
  BY <1>9 DEF Revert, setVars, Seen
<1>10. CASE Observed
  <2>1. CASE pc' = "verify" /\ got' = Nothing
    BY <2>1, NothingShows DEF Seen, Shown
  <2>2. CASE pc' = "idle" /\ ack' = "cancelled"
    BY <2>2 DEF Seen
  <2> QED BY <1>10, <2>1, <2>2 DEF Observed, Finish
<1>11. CASE VerifyFailed
  BY <1>11, NothingShows DEF VerifyFailed, Finish, Seen, Shown
<1>12. CASE Verify
  <2>1. /\ decoder' = decoder /\ got' = got /\ asked' = asked /\ stale' = stale
        /\ pc = "verify" /\ pc' = "idle" /\ ack' = Outcome(got)
    BY <1>12 DEF Verify, Finish, bitopVars
  <2>2. Undisturbed => Shown(got, decoder)
    BY <2>1 DEF Seen
  <2>3. ack' = "ok" => AddressCvs \subseteq DOMAIN got /\ Decode(got) = asked.new
    BY <2>1 DEF Outcome
  <2>4. Undisturbed /\ ack' = "ok" => Decode(decoder) = asked.new
    BY <2>2, <2>3, ShownDecodes
  <2>5. Undisturbed' = Undisturbed /\ (Shown(got, decoder)' <=> Shown(got, decoder))
        /\ Decode(decoder)' = Decode(decoder)
    BY <2>1 DEF Undisturbed, Shown, Decode
  <2> QED BY <2>1, <2>2, <2>4, <2>5 DEF Seen
<1>13. CASE Cancel
  BY <1>13 DEF Cancel, bitopVars, Seen, Shown, Undisturbed, Decode
<1>14. CASE Close
  BY <1>14 DEF Close, Finish, Seen
<1>15. ASSUME NEW w \in Wants, BitopRead(w) PROVE Seen'
  BY <1>15 DEF BitopRead, setVars, Seen, Shown, Undisturbed, Decode
<1>16. CASE BitopWrite
  <2>1. UNCHANGED setVars /\ Outdates("set")
    BY <1>16 DEF BitopWrite
  <2>2. Undisturbed' => Undisturbed /\ decoder'[29] = decoder[29]
    BY <2>1 DEF Outdates, Undisturbed
  <2>3. decoder'[29] = decoder[29] => \A n \in AddressCvs : decoder'[n] = decoder[n]
    BY <1>0, <1>16 DEF BitopWrite, DecoderOK, Cvs, AddressCvs
  <2>4. Undisturbed' =>
          /\ Undisturbed
          /\ Shown(got', decoder') <=> Shown(got, decoder)
          /\ Decode(decoder') = Decode(decoder)
    BY <2>1, <2>2, <2>3 DEF Shown, Decode, AddressCvs, setVars
  <2> QED BY <2>1, <2>4 DEF Seen, setVars
<1>17. CASE UNCHANGED vars
  BY <1>17 DEF vars, setVars, bitopVars, Seen, Shown, Undisturbed, Decode
<1> QED
  BY <1>1, <1>2, <1>3, <1>4, <1>5, <1>6, <1>7, <1>8, <1>9, <1>10, <1>11, <1>12,
     <1>13, <1>14, <1>15, <1>16, <1>17 DEF Next

LEMMA SeenAdopts == Seen => AdoptedIsActual
<1> SUFFICES ASSUME Seen, pc = "idle", Undisturbed PROVE Adopted \subseteq {Decode(decoder)}
  BY DEF AdoptedIsActual
<1>1. CASE ack = "ok"
  BY <1>1 DEF Seen, Adopted
<1>2. CASE ack = "address_reverted" /\ AddressCvs \subseteq DOMAIN got
  <2>1. Decode(got) = Decode(decoder)
    BY <1>2, ShownDecodes DEF Seen
  <2> QED BY <1>2, <2>1 DEF Adopted
<1>3. CASE ~(ack = "ok") /\ ~(ack = "address_reverted" /\ AddressCvs \subseteq DOMAIN got)
  BY <1>3 DEF Adopted
<1> QED BY <1>1, <1>2, <1>3

\* Whatever the bus and another connection do, the tab takes over no address from
\* the answer to address.set but the one the decoder answers to.
THEOREM AdoptsTheActual == Spec => []AdoptedIsActual
BY SeenInit, SeenStep, SeenAdopts, TypeCorrect, PTL DEF Spec
=============================================================================
