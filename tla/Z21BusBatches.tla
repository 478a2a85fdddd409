--------------------------- MODULE Z21BusBatches ---------------------------
(* What a batch of Z21Bus reports, for every set of calls and faults.       *)
EXTENDS Z21BusProofs

\* Where a call does no more to its batch.
Over == {"drop"} \cup Ended

\* The kind of call each place of the loop belongs to.
Bodies ==
  \A o \in Ops :
    /\ pc[o] \in {"top", "settle"} => req[o].kind \in CvKinds
    /\ pc[o] = "await" => req[o].kind \in {"read", "write"}
    /\ pc[o] = "observe" => req[o].kind = "observe"

\* A command is of a call that was made, so what it asks for stays.
Made(c) == pc[c.op] # "idle"
AllMade ==
  /\ \A d \in wire : Made(d.cmd)
  /\ \A s \in Ops : \A i \in DOMAIN rx[s] : Made(rx[s][i].cmd)
  /\ \A o \in Ops : \A i \in DOMAIN outcome[o] : Made(outcome[o][i].cmd)

\* CV i got no answer.
TimedOut(o, i) == outcome[o][i].verdict = "timeout"

\* What a batch has entered so far.
Entered ==
  \A o \in Ops :
    /\ pc[o] = "idle" => outcome[o] = <<>>
    /\ pc[o] \notin Over => result[o] = "none"
    /\ req[o].kind \in CvKinds =>
         /\ Len(outcome[o]) <= Len(req[o].cvs)
         /\ pc[o] \in {"settle", "slot", "send", "await"} =>
              Len(outcome[o]) < Len(req[o].cvs)
         /\ result[o] = "ok" => Len(outcome[o]) = Len(req[o].cvs)

\* An answer is entered for the CV it is about.
Matched ==
  \A o \in Ops : \A i \in DOMAIN outcome[o] :
    outcome[o][i].verdict = "ok" =>
      i \in DOMAIN req[o].cvs /\ CvOf(outcome[o][i].cmd) = req[o].cvs[i]

\* Two timeouts in a row end the batch.
Apart ==
  \A o \in Ops :
    pc[o] \notin Over \/ result[o] = "ok" =>
      /\ \A i \in DOMAIN outcome[o] : i > 1 => ~(TimedOut(o, i) /\ TimedOut(o, i - 1))
      /\ pc[o] \notin Over /\ timeouts[o] = 0 /\ outcome[o] # <<>> =>
           ~TimedOut(o, Len(outcome[o]))

-----------------------------------------------------------------------------
(* Answers that come in time.  A reply is entered for the wrong command when *)
(* it arrives after its deadline, or on a session whose call was cut off     *)
(* with the reply outstanding.  The code drops the session of a batch it     *)
(* abandons, which leaves one cut that nothing tidies up: the connection     *)
(* closing.  Between the failure and the drop a second connection may still  *)
(* be handed the session.                                                    *)
OneConnection == \A o, p \in Ops : Conn[o] = Conn[p]

\* No batch is ended with a command outstanding.
NoInterrupt == Faults \cap {"cancel", "io"} = {}

Patient ==
  /\ Faults \cap {"late", "close"} = {}
  /\ OneConnection \/ NoInterrupt

\* Calls of the only connection do not overlap.
Alone == OneConnection => \A o, p \in Ops : Active(o) /\ Active(p) => o = p
Uncancelled == NoInterrupt => \A o \in Ops : ~cancelled[o]


\* A call that has no session yet has not opened one.
Unopened ==
  \A s \in Ops : pc[s] \in Before =>
    rx[s] = <<>> /\ \A d \in wire : d.ses # s

\* Command c is the one an answer on session s is awaited for.
Asked(s, c) == \E o \in Ops : pc[o] = "await" /\ ses[o] = s /\ c = CurrentCommand(o)

\* At most that answer is on its way, or in the socket.
Clean(s) ==
  /\ \A d \in wire : d.ses = s => Asked(s, d.cmd) /\ rx[s] = <<>>
  /\ rx[s] # <<>> => Asked(s, Head(rx[s]).cmd) /\ Tail(rx[s]) = <<>>

\* A session a call uses or may be handed.
Trusted(s) ==
  \/ NoInterrupt
  \/ \E o \in Ops : Active(o) /\ pc[o] # "drop" /\ ses[o] = s
  \/ inner = s /\ \A o \in Ops : pc[o] # "drop"

Quiet == \A s \in Ops : Trusted(s) => Clean(s)

\* The inductive invariants.
Batch == Shape /\ Opened /\ Held /\ Bodies /\ AllMade /\ Entered /\ Matched /\ Apart
Own == Alone /\ Uncancelled /\ Unopened /\ Quiet /\ OwnVerdict

\* What is answered "ok" has been carried out.
OkIsProgrammed ==
  /\ \A s \in Ops : \A i \in DOMAIN rx[s] :
       rx[s][i].verdict = "ok" => rx[s][i].cmd \in programmed
  /\ \A o \in Ops : \A i \in DOMAIN outcome[o] :
       req[o].kind = "write" /\ outcome[o][i].verdict = "ok" =>
         outcome[o][i].cmd \in programmed

-----------------------------------------------------------------------------
\* Each place of the loop is reached by its kinds of call only.
LEMMA BodiesStep == Shape /\ Bodies /\ [Next]_vars => Bodies'
<1> SUFFICES ASSUME Shape, Bodies, [Next]_vars PROVE Bodies'
  OBVIOUS
<1> USE ConstantsOK DEF Bodies, Shape, CallTypes, LookTypes, Slotted, CvKinds,
          Request, Kinds
<1>1. ASSUME NEW p \in Ops, Start(p) PROVE Bodies'
  BY <1>1 DEF Start, Goto, reqVars
<1>2. ASSUME NEW p \in Ops, LockInner(p) PROVE Bodies'
  BY <1>2 DEF LockInner, Goto, Return, reqVars
<1>3. ASSUME NEW p \in Ops, ReadConfig(p) PROVE Bodies'
  BY <1>3 DEF ReadConfig, Goto, Return, reqVars
<1>4. ASSUME NEW p \in Ops, ReadGeneration(p) PROVE Bodies'
  BY <1>4 DEF ReadGeneration, Goto, Body, reqVars
<1>5. ASSUME NEW p \in Ops, Connect(p) PROVE Bodies'
  BY <1>5 DEF Connect, Goto, Return, Body, reqVars
<1>6. ASSUME NEW p \in Ops, NextCv(p) PROVE Bodies'
  BY <1>6 DEF NextCv, Goto, Return, reqVars
<1>7. ASSUME NEW p \in Ops, Settle(p) PROVE Bodies'
  BY <1>7 DEF Settle, Goto, Return, reqVars
<1>8. ASSUME NEW p \in Ops, TakeSlot(p) PROVE Bodies'
  BY <1>8 DEF TakeSlot, Goto, reqVars
<1>9. ASSUME NEW p \in Ops, Send(p) PROVE Bodies'
  BY <1>9 DEF Send, Goto, DropWith, CountSend, reqVars
<1>10. ASSUME NEW p \in Ops, SendUnacknowledged(p) PROVE Bodies'
  BY <1>10 DEF SendUnacknowledged, Decide, CountSend, FreeSlot, Goto, Return,
        reqVars
<1>11. ASSUME NEW p \in Ops, CancelUnacknowledged(p) PROVE Bodies'
  BY <1>11 DEF CancelUnacknowledged, Goto, Return, DropWith, FreeSlot, reqVars
<1>12. ASSUME NEW p \in Ops, Receive(p) PROVE Bodies'
  BY <1>12 DEF Receive, Decide, FreeSlot, Goto, DropWith, reqVars
<1>13. ASSUME NEW p \in Ops, Timeout(p) PROVE Bodies'
  BY <1>13 DEF Timeout, FreeSlot, Goto, DropWith, reqVars
<1>14. ASSUME NEW p \in Ops, CancelAwait(p) PROVE Bodies'
  BY <1>14 DEF CancelAwait, FreeSlot, Goto, DropWith, reqVars
<1>15. ASSUME NEW p \in Ops, SocketError(p) PROVE Bodies'
  BY <1>15 DEF SocketError, FreeSlot, Goto, Return, DropWith, reqVars
<1>16. ASSUME NEW p \in Ops, DropSession(p) PROVE Bodies'
  BY <1>16 DEF DropSession, Goto, reqVars
<1>17. ASSUME NEW p \in Ops, Observe(p) PROVE Bodies'
  BY <1>17 DEF Observe, Goto, Return, reqVars
<1>18. ASSUME NEW p \in Ops, Close(p) PROVE Bodies'
  BY <1>18 DEF Close, Goto, reqVars
<1>19. CASE UNCHANGED <<pc, req>>
  BY <1>19
<1>20. CASE \/ (\E p \in Ops : Cancel(p))
            \/ WriteConfig
            \/ DropZ21
            \/ Station
            \/ Lose
            \/ UNCHANGED vars
  BY <1>20, <1>19 DEF Cancel, WriteConfig, DropZ21, Station, Lose, vars, cfgVars,
        lockVars, netVars, reqVars, histVars, loopVars
<1> QED BY <1>1, <1>2, <1>3, <1>4, <1>5, <1>6, <1>7, <1>8, <1>9, <1>10, <1>11,
           <1>12, <1>13, <1>14, <1>15, <1>16, <1>17, <1>18, <1>20 DEF Next, Step,
           Terminated

\* A call that was made keeps its request and never becomes new again.
LEMMA MadeStays ==
  Shape /\ [Next]_vars => \A o \in Ops : pc[o] # "idle" => pc'[o] # "idle" /\ req'[o] = req[o]
<1> DEFINE Stays == \A o \in Ops : pc[o] # "idle" => pc'[o] # "idle" /\ req'[o] = req[o]
<1> SUFFICES ASSUME Shape, [Next]_vars PROVE Stays
  OBVIOUS
<1> USE ConstantsOK DEF Shape, CallTypes, LookTypes
<1>1. ASSUME NEW p \in Ops, Start(p) PROVE Stays
  BY <1>1 DEF Start, Goto, reqVars
<1>2. ASSUME NEW p \in Ops, LockInner(p) PROVE Stays
  BY <1>2 DEF LockInner, Goto, Return, reqVars
<1>3. ASSUME NEW p \in Ops, ReadConfig(p) PROVE Stays
  BY <1>3 DEF ReadConfig, Goto, Return, reqVars
<1>4. ASSUME NEW p \in Ops, ReadGeneration(p) PROVE Stays
  BY <1>4 DEF ReadGeneration, Goto, Body, reqVars
<1>5. ASSUME NEW p \in Ops, Connect(p) PROVE Stays
  BY <1>5 DEF Connect, Goto, Return, Body, reqVars
<1>6. ASSUME NEW p \in Ops, NextCv(p) PROVE Stays
  BY <1>6 DEF NextCv, Goto, Return, reqVars
<1>7. ASSUME NEW p \in Ops, Settle(p) PROVE Stays
  BY <1>7 DEF Settle, Goto, Return, reqVars
<1>8. ASSUME NEW p \in Ops, TakeSlot(p) PROVE Stays
  BY <1>8 DEF TakeSlot, Goto, reqVars
<1>9. ASSUME NEW p \in Ops, Send(p) PROVE Stays
  BY <1>9 DEF Send, Goto, DropWith, CountSend, reqVars
<1>10. ASSUME NEW p \in Ops, SendUnacknowledged(p) PROVE Stays
  BY <1>10 DEF SendUnacknowledged, Decide, CountSend, FreeSlot, Goto, Return,
        reqVars
<1>11. ASSUME NEW p \in Ops, CancelUnacknowledged(p) PROVE Stays
  BY <1>11 DEF CancelUnacknowledged, Goto, Return, DropWith, FreeSlot, reqVars
<1>12. ASSUME NEW p \in Ops, Receive(p) PROVE Stays
  BY <1>12 DEF Receive, Decide, FreeSlot, Goto, DropWith, reqVars
<1>13. ASSUME NEW p \in Ops, Timeout(p) PROVE Stays
  BY <1>13 DEF Timeout, FreeSlot, Goto, DropWith, reqVars
<1>14. ASSUME NEW p \in Ops, CancelAwait(p) PROVE Stays
  BY <1>14 DEF CancelAwait, FreeSlot, Goto, DropWith, reqVars
<1>15. ASSUME NEW p \in Ops, SocketError(p) PROVE Stays
  BY <1>15 DEF SocketError, FreeSlot, Goto, Return, DropWith, reqVars
<1>16. ASSUME NEW p \in Ops, DropSession(p) PROVE Stays
  BY <1>16 DEF DropSession, Goto, reqVars
<1>17. ASSUME NEW p \in Ops, Observe(p) PROVE Stays
  BY <1>17 DEF Observe, Goto, Return, reqVars
<1>18. ASSUME NEW p \in Ops, Close(p) PROVE Stays
  BY <1>18 DEF Close, Goto, reqVars
<1>19. CASE UNCHANGED <<pc, req>>
  BY <1>19
<1>20. CASE \/ (\E p \in Ops : Cancel(p)) \/ WriteConfig \/ DropZ21 \/ Station \/ Lose
           \/ UNCHANGED vars
  BY <1>20, <1>19 DEF Cancel, WriteConfig, DropZ21, Station, Lose, vars, reqVars
<1> QED BY <1>1, <1>2, <1>3, <1>4, <1>5, <1>6, <1>7, <1>8, <1>9, <1>10, <1>11,
           <1>12, <1>13, <1>14, <1>15, <1>16, <1>17, <1>18, <1>20 DEF Next, Step,
           Terminated

\* The entry a call makes: its own command without an answer, or the datagram at
\* the head of the socket of its session.
Entering(o, e) ==
  \/ /\ pc[o] \in Slotted /\ e.cmd = CurrentCommand(o)
     /\ e.verdict = "timeout" \/ (e.verdict = "ok" /\ req[o].kind = "pomWrite")
  \/ /\ pc[o] = "await" /\ rx[ses[o]] # <<>> /\ e = Head(rx[ses[o]])
     /\ e.verdict = "ok" => CvOf(e.cmd) = CurrentCv(o)

WireMoves ==
  \A d \in wire' :
    d \in wire \/ \E o \in Ops : pc[o] = "send" /\ d = [ses |-> ses[o], cmd |-> CurrentCommand(o)]

RxMoves ==
  \A s \in Ops :
    \/ rx'[s] = rx[s] \/ rx'[s] = <<>>
    \/ rx[s] # <<>> /\ rx'[s] = Tail(rx[s])
    \/ \E d \in wire, v \in {"ok", "nack", "sc"} :
         /\ d.ses = s /\ rx'[s] = Append(rx[s], [cmd |-> d.cmd, verdict |-> v])
         /\ v = "ok" => d.cmd \in programmed'

OutMoves ==
  \A o \in Ops :
    \/ outcome'[o] = outcome[o]
    \/ \E e \in Entry : Entering(o, e) /\ outcome'[o] = Append(outcome[o], e)

Moves == WireMoves /\ RxMoves /\ OutMoves /\ programmed \subseteq programmed'

\* Where commands and answers come from, whatever step is taken.
LEMMA StepMoves == Shape /\ [Next]_vars => Moves
<1> SUFFICES ASSUME Shape, [Next]_vars PROVE Moves
  OBVIOUS
<1> USE ConstantsOK DEF Shape
<1>1. ASSUME UNCHANGED <<netVars, rx, outcome>> PROVE Moves
  BY <1>1 DEF netVars, Moves, WireMoves, RxMoves, OutMoves
<1>2. ASSUME NEW p \in Ops, Send(p) PROVE Moves
  <2>1. WireMoves
    BY <1>2 DEF Send, WireMoves
  <2>2. RxMoves
    BY <1>2 DEF Send, Drained, RxMoves, NetTypes
  <2>3. OutMoves /\ programmed \subseteq programmed'
    BY <1>2 DEF Send, loopVars, OutMoves
  <2> QED BY <2>1, <2>2, <2>3 DEF Moves
<1>3. ASSUME NEW p \in Ops, SendUnacknowledged(p) PROVE Moves
  <2>1. OutMoves
    <3>1. CASE UNCHANGED outcome
      BY <3>1 DEF OutMoves
    <3>2. CASE Decide(p, "ok", CurrentCommand(p)) /\ req[p].kind = "pomWrite"
      <4> DEFINE e == [cmd |-> CurrentCommand(p), verdict |-> "ok"]
      <4>1. e \in Entry
        BY CommandType, TypeOfShape DEF Entry
      <4>2. Entering(p, e)
        BY <1>3, <3>2 DEF SendUnacknowledged, Entering, Slotted
      <4>3. outcome' = [outcome EXCEPT ![p] = Append(@, e)]
        BY <3>2 DEF Decide
      <4> HIDE DEF e
      <4> QED BY <4>1, <4>2, <4>3 DEF OutMoves, OutTypes
    <3> QED BY <1>3, <3>1, <3>2 DEF SendUnacknowledged, loopVars
  <2> QED BY <1>3, <2>1 DEF SendUnacknowledged, netVars, Moves, WireMoves, RxMoves
<1>4. ASSUME NEW p \in Ops, Receive(p) PROVE Moves
  <2> DEFINE m == Head(rx[ses[p]])
  <2>0. ses[p] \in Ops /\ rx[ses[p]] \in Seq(Datagram) /\ rx[ses[p]] # <<>>
    BY <1>4 DEF Receive, Holding, InSession, NetTypes
  <2>1. RxMoves
    BY <1>4, <2>0 DEF Receive, RxMoves, NetTypes
  <2>2. OutMoves
    <3>1. CASE UNCHANGED outcome
      BY <3>1 DEF OutMoves
    <3>2. ASSUME NEW v \in {"ok", "nack"}, m.verdict = v, Decide(p, v, m.cmd),
                 v = "ok" => CvOf(m.cmd) = CurrentCv(p)
          PROVE  OutMoves
      <4> DEFINE e == [cmd |-> m.cmd, verdict |-> v]
      <4>1. m \in Datagram
        BY <2>0
      <4>2. e = m /\ e \in Entry
        BY <4>1, <3>2 DEF Datagram, Entry
      <4>3. Entering(p, e)
        BY <1>4, <2>0, <3>2, <4>2 DEF Receive, Entering
      <4>4. outcome' = [outcome EXCEPT ![p] = Append(@, e)]
        BY <3>2 DEF Decide
      <4> HIDE DEF e
      <4> QED BY <4>2, <4>3, <4>4 DEF OutMoves, OutTypes
    <3> QED BY <1>4, <3>1, <3>2 DEF Receive, loopVars
  <2> QED BY <1>4, <2>1, <2>2 DEF Receive, netVars, Moves, WireMoves
<1>5. ASSUME NEW p \in Ops, Timeout(p) PROVE Moves
  <2>1. RxMoves
    BY <1>5 DEF Timeout, Drained, RxMoves, NetTypes
  <2>2. OutMoves
    <3>1. CASE UNCHANGED outcome
      BY <3>1 DEF OutMoves
    <3>2. CASE outcome' = [outcome EXCEPT ![p] =
                 Append(@, [cmd |-> CurrentCommand(p), verdict |-> "timeout"])]
      <4> DEFINE e == [cmd |-> CurrentCommand(p), verdict |-> "timeout"]
      <4>1. e \in Entry
        BY CommandType, TypeOfShape DEF Entry
      <4>2. Entering(p, e)
        BY <1>5 DEF Timeout, Entering, Slotted
      <4> HIDE DEF e
      <4> QED BY <4>1, <4>2, <3>2 DEF OutMoves, OutTypes, e
    <3> QED BY <1>5, <3>1, <3>2 DEF Timeout
  <2> QED BY <1>5, <2>1, <2>2 DEF Timeout, netVars, Moves, WireMoves
<1>6. ASSUME NEW p \in Ops, CancelAwait(p) \/ Observe(p) PROVE Moves
  <2>1. RxMoves
    BY <1>6 DEF CancelAwait, Observe, Drained, RxMoves, NetTypes
  <2> QED BY <1>6, <2>1 DEF CancelAwait, Observe, netVars, loopVars, Moves, WireMoves, OutMoves
<1>7. ASSUME Station PROVE Moves
  <2> PICK d \in wire, v \in {"ok", "nack", "sc"} :
        /\ wire' = wire \ {d}
        /\ rx' = IF Open(d.ses)
                 THEN [rx EXCEPT ![d.ses] = Append(@, [cmd |-> d.cmd, verdict |-> v])]
                 ELSE rx
        /\ programmed' = IF v = "ok" THEN programmed \cup {d.cmd} ELSE programmed
    BY <1>7 DEF Station
  <2>1. RxMoves
    BY DEF RxMoves, NetTypes
  <2> QED BY <1>7, <2>1 DEF Station, loopVars, Moves, WireMoves, OutMoves
<1>8. ASSUME Lose PROVE Moves
  BY <1>8 DEF Lose, loopVars, Moves, WireMoves, RxMoves, OutMoves
<1>9. ASSUME NEW p \in Ops,
             \/ Start(p) \/ LockInner(p) \/ ReadConfig(p) \/ ReadGeneration(p)
             \/ Connect(p) \/ NextCv(p) \/ Settle(p) \/ TakeSlot(p)
             \/ CancelUnacknowledged(p) \/ SocketError(p) \/ DropSession(p)
             \/ Cancel(p) \/ Close(p)
      PROVE  Moves
  BY <1>9, <1>1 DEF Start, LockInner, ReadConfig, ReadGeneration, Connect, NextCv,
       Settle, TakeSlot, CancelUnacknowledged, SocketError, DropSession, Cancel, Close,
       loopVars
<1>10. CASE WriteConfig \/ DropZ21 \/ UNCHANGED vars
  BY <1>10, <1>1 DEF WriteConfig, DropZ21, vars, loopVars
<1> QED BY <1>2, <1>3, <1>4, <1>5, <1>6, <1>7, <1>8, <1>9, <1>10 DEF Next, Step,
           Terminated

\* What is entered answers a command that was sent.
LEMMA EnteringMade ==
  ASSUME Shape, AllMade, NEW o \in Ops, NEW e, Entering(o, e)
  PROVE  Made(e.cmd)
<1>1. CASE pc[o] \in Slotted /\ e.cmd = CurrentCommand(o)
  BY <1>1 DEF CurrentCommand, Made, Slotted
<1>2. CASE pc[o] = "await" /\ rx[ses[o]] # <<>> /\ e = Head(rx[ses[o]])
  <2>1. ses[o] \in Ops /\ rx[ses[o]] \in Seq(Datagram)
    BY <1>2 DEF Shape, Holding, InSession, NetTypes
  <2>2. 1 \in DOMAIN rx[ses[o]] /\ e = rx[ses[o]][1]
    BY <1>2, <2>1
  <2> QED BY <2>1, <2>2 DEF AllMade
<1> QED BY <1>1, <1>2 DEF Entering

\* Commands are sent by calls that were made, and nothing else is answered.
LEMMA AllMadeStep == Shape /\ AllMade /\ [Next]_vars => AllMade'
<1> DEFINE Kept(c) == pc'[c.op] # "idle"
<1> SUFFICES ASSUME Shape, AllMade, [Next]_vars PROVE AllMade'
  OBVIOUS
<1>1. \A c : c.op \in Ops /\ Made(c) => Kept(c)
  BY MadeStays DEF Made, Kept
<1> HIDE DEF Kept
<1>2. Moves
  BY StepMoves
<1>3. \A d \in wire' : Kept(d.cmd)
  <2> SUFFICES ASSUME NEW d \in wire' PROVE Kept(d.cmd)
    OBVIOUS
  <2>1. CASE d \in wire
    <3>1. d.cmd.op \in Ops /\ Made(d.cmd)
      BY <2>1 DEF AllMade, Shape, NetTypes, Command
    <3> QED BY <3>1, <1>1
  <2>2. CASE \E o \in Ops : pc[o] = "send" /\ d = [ses |-> ses[o], cmd |-> CurrentCommand(o)]
    BY <2>2, <1>1 DEF CurrentCommand, Made
  <2> QED BY <1>2, <2>1, <2>2 DEF Moves, WireMoves
<1>4. \A s \in Ops : \A i \in DOMAIN rx'[s] : Kept(rx'[s][i].cmd)
  <2> SUFFICES ASSUME NEW s \in Ops, NEW i \in DOMAIN rx'[s] PROVE Kept(rx'[s][i].cmd)
    OBVIOUS
  <2>0. rx[s] \in Seq(Datagram) /\ \A j \in DOMAIN rx[s] : Kept(rx[s][j].cmd)
    <3>1. rx[s] \in Seq(Datagram)
      BY DEF Shape, NetTypes
    <3>2. ASSUME NEW j \in DOMAIN rx[s] PROVE Kept(rx[s][j].cmd)
      <4>1. rx[s][j] \in Datagram
        BY <3>1
      <4>2. rx[s][j].cmd.op \in Ops
        BY <4>1 DEF Datagram, Command
      <4>3. Made(rx[s][j].cmd)
        BY DEF AllMade
      <4> QED BY <4>2, <4>3, <1>1
    <3> QED BY <3>1, <3>2
  <2>1. CASE rx'[s] = rx[s] \/ rx'[s] = <<>>
    BY <2>0, <2>1
  <2>2. CASE rx[s] # <<>> /\ rx'[s] = Tail(rx[s])
    BY <2>0, <2>2
  <2>3. ASSUME NEW d \in wire, NEW v \in {"ok", "nack", "sc"},
               rx'[s] = Append(rx[s], [cmd |-> d.cmd, verdict |-> v])
        PROVE  Kept(rx'[s][i].cmd)
    <3>1. Kept(d.cmd)
      BY <1>1 DEF AllMade, Shape, NetTypes, Command
    <3>2. i \in DOMAIN rx[s] \/ rx'[s][i] = [cmd |-> d.cmd, verdict |-> v]
      BY <2>0, <2>3
    <3> QED BY <2>0, <2>3, <3>1, <3>2
  <2> QED BY <1>2, <2>1, <2>2, <2>3 DEF Moves, RxMoves
<1>5. \A o \in Ops : \A i \in DOMAIN outcome'[o] : Kept(outcome'[o][i].cmd)
  <2> SUFFICES ASSUME NEW o \in Ops, NEW i \in DOMAIN outcome'[o]
               PROVE  Kept(outcome'[o][i].cmd)
    OBVIOUS
  <2>0. outcome[o] \in Seq(Entry) /\ \A j \in DOMAIN outcome[o] : Kept(outcome[o][j].cmd)
    <3>1. outcome[o] \in Seq(Entry)
      BY DEF Shape, OutTypes
    <3>2. ASSUME NEW j \in DOMAIN outcome[o] PROVE Kept(outcome[o][j].cmd)
      <4>1. outcome[o][j] \in Entry
        BY <3>1
      <4>2. outcome[o][j].cmd.op \in Ops
        BY <4>1 DEF Entry, Command
      <4>3. Made(outcome[o][j].cmd)
        BY DEF AllMade
      <4> QED BY <4>2, <4>3, <1>1
    <3> QED BY <3>1, <3>2
  <2>1. CASE outcome'[o] = outcome[o]
    BY <2>0, <2>1
  <2>2. ASSUME NEW e \in Entry, Entering(o, e), outcome'[o] = Append(outcome[o], e)
        PROVE  Kept(outcome'[o][i].cmd)
    <3>1. Made(e.cmd)
      BY <2>2, EnteringMade
    <3>2. Kept(e.cmd)
      BY <1>1, <3>1 DEF Entry, Command
    <3>3. i \in DOMAIN outcome[o] \/ outcome'[o][i] = e
      BY <2>0, <2>2
    <3> QED BY <2>0, <2>2, <3>2, <3>3
  <2> QED BY <1>2, <2>1, <2>2 DEF Moves, OutMoves
<1> QED BY <1>3, <1>4, <1>5 DEF AllMade, Made, Kept

\* What a command asks for does not change.
LEMMA CvStays ==
  ASSUME Shape, [Next]_vars, NEW c \in Command, Made(c)
  PROVE  req'[c.op].cvs[c.idx] = CvOf(c)
BY MadeStays DEF Made, CvOf, Command

\* The types of a batch.
LEMMA BatchTypes ==
  ASSUME Shape, NEW o \in Ops
  PROVE  /\ outcome[o] \in Seq(Entry) /\ Len(outcome[o]) \in Nat
         /\ req[o].cvs \in Seq(Cvs) /\ Len(req[o].cvs) \in Nat
<1>1. outcome[o] \in Seq(Entry) /\ req[o] \in Request
  BY DEF Shape, OutTypes, LookTypes
<1>2. req[o].cvs \in Seq(Cvs)
  BY <1>1 DEF Request
<1> QED BY <1>1, <1>2

\* A batch enters one thing per CV, and ends when it has.
LEMMA EnteredStep == Shape /\ Bodies /\ Entered /\ [Next]_vars => Entered'
<1> SUFFICES ASSUME Shape, Bodies, Entered, [Next]_vars PROVE Entered'
  OBVIOUS
<1> USE ConstantsOK DEF Entered, Bodies, Shape, CallTypes, LookTypes, OutTypes,
          Over, Ended, Slotted, CvKinds, Request, Kinds
<1>1. ASSUME NEW p \in Ops, Start(p) PROVE Entered'
  BY <1>1 DEF Start, Goto, reqVars, loopVars
<1>2. ASSUME NEW p \in Ops, LockInner(p) PROVE Entered'
  BY <1>2 DEF LockInner, Goto, Return, reqVars, loopVars
<1>3. ASSUME NEW p \in Ops, ReadConfig(p) PROVE Entered'
  BY <1>3 DEF ReadConfig, Goto, Return, reqVars, loopVars
<1>4. ASSUME NEW p \in Ops, ReadGeneration(p) PROVE Entered'
  BY <1>4 DEF ReadGeneration, Goto, Body, reqVars, loopVars
<1>5. ASSUME NEW p \in Ops, Connect(p) PROVE Entered'
  BY <1>5 DEF Connect, Goto, Return, Body, reqVars, loopVars
<1>6. ASSUME NEW p \in Ops, NextCv(p) PROVE Entered'
  <2> DEFINE n == Len(outcome[p])
  <2>1. /\ pc[p] = "top" /\ req[p].kind \in CvKinds /\ result[p] = "none"
        /\ n \in Nat /\ Len(req[p].cvs) \in Nat /\ n <= Len(req[p].cvs)
    <3>1. pc[p] = "top"
      BY <1>6 DEF NextCv
    <3>2. result[p] = "none" /\ req[p].kind \in CvKinds
      BY <3>1
    <3> HIDE DEF n, Shape, Bodies
    <3> QED BY <3>1, <3>2, BatchTypes DEF n
  <2>2. CASE Refusal(p) = "none"
    <3>1. n < Len(req[p].cvs)
      <4>1. ~(n + 1 > Len(req[p].cvs))
        BY <2>2 DEF Refusal, Index
      <4> QED BY <4>1, <2>1
    <3>2. /\ \E place \in {"settle", "slot"} : pc' = [pc EXCEPT ![p] = place]
          /\ UNCHANGED <<req, outcome, result>>
      BY <1>6, <2>2 DEF NextCv, Goto, reqVars
    <3> QED BY <2>1, <3>1, <3>2
  <2>3. CASE Refusal(p) = "ok"
    <3>1. n = Len(req[p].cvs)
      BY <2>1, <2>3 DEF Refusal, Index
    <3>2. /\ pc' = [pc EXCEPT ![p] = "done"] /\ result' = [result EXCEPT ![p] = "ok"]
          /\ UNCHANGED <<req, outcome>>
      BY <1>6, <2>3 DEF NextCv, Goto, Return, reqVars
    <3> QED BY <2>1, <3>1, <3>2
  <2>4. CASE Refusal(p) \notin {"none", "ok"}
    <3>1. /\ pc' = [pc EXCEPT ![p] = "done"] /\ result' = [result EXCEPT ![p] = Refusal(p)]
          /\ UNCHANGED <<req, outcome>>
      BY <1>6, <2>4 DEF NextCv, Goto, Return, reqVars
    <3> QED BY <2>1, <2>4, <3>1
  <2> QED BY <2>2, <2>3, <2>4
<1>7. ASSUME NEW p \in Ops, Settle(p) PROVE Entered'
  BY <1>7 DEF Settle, Goto, Return, reqVars, loopVars
<1>8. ASSUME NEW p \in Ops, TakeSlot(p) PROVE Entered'
  BY <1>8 DEF TakeSlot, Goto, reqVars, loopVars
<1>9. ASSUME NEW p \in Ops, Send(p) PROVE Entered'
  BY <1>9 DEF Send, Goto, DropWith, CountSend, reqVars, loopVars
<1>10. ASSUME NEW p \in Ops, SendUnacknowledged(p) PROVE Entered'
  BY <1>10 DEF SendUnacknowledged, Decide, CountSend, FreeSlot, Goto, Return,
        reqVars, loopVars
<1>11. ASSUME NEW p \in Ops, CancelUnacknowledged(p) PROVE Entered'
  BY <1>11 DEF CancelUnacknowledged, Goto, Return, DropWith, FreeSlot, reqVars,
        loopVars
<1>12. ASSUME NEW p \in Ops, Receive(p) PROVE Entered'
  <2> DEFINE n == Len(outcome[p])
  <2>1. /\ pc[p] = "await" /\ req[p].kind \in CvKinds /\ result[p] = "none"
        /\ n \in Nat /\ Len(req[p].cvs) \in Nat /\ n < Len(req[p].cvs)
        /\ outcome[p] \in Seq(Entry)
    <3>1. pc[p] = "await"
      BY <1>12 DEF Receive
    <3>2. result[p] = "none" /\ req[p].kind \in CvKinds
      BY <3>1
    <3> HIDE DEF n, Shape, Bodies
    <3> QED BY <3>1, <3>2, BatchTypes DEF n
  <2>2. CASE /\ outcome' = outcome /\ UNCHANGED req
             /\ \/ UNCHANGED <<pc, result>>
                \/ /\ pc' = [pc EXCEPT ![p] = "drop"]
                   /\ result' = [result EXCEPT ![p] = "short_circuit"]
    BY <2>1, <2>2
  <2>3. ASSUME NEW e, outcome' = [outcome EXCEPT ![p] = Append(@, e)],
               pc' = [pc EXCEPT ![p] = "top"], UNCHANGED <<req, result>>
        PROVE  Entered'
    <3>1. Len(outcome'[p]) = n + 1
      BY <2>1, <2>3
    <3>2. n + 1 <= Len(req[p].cvs)
      BY <2>1
    <3> HIDE DEF n
    <3> QED BY <2>1, <2>3, <3>1, <3>2
  <2> QED BY <1>12, <2>2, <2>3 DEF Receive, Decide, Goto, DropWith, loopVars, reqVars
<1>13. ASSUME NEW p \in Ops, Timeout(p) PROVE Entered'
  <2> DEFINE n == Len(outcome[p])
  <2>1. /\ pc[p] = "await" /\ req[p].kind \in CvKinds /\ result[p] = "none"
        /\ n \in Nat /\ Len(req[p].cvs) \in Nat /\ n < Len(req[p].cvs)
        /\ outcome[p] \in Seq(Entry)
    <3>1. pc[p] = "await"
      BY <1>13 DEF Timeout
    <3>2. result[p] = "none" /\ req[p].kind \in CvKinds
      BY <3>1
    <3> HIDE DEF n, Shape, Bodies
    <3> QED BY <3>1, <3>2, BatchTypes DEF n
  <2>2. CASE /\ outcome' = outcome /\ UNCHANGED <<req, result>>
             /\ pc' = [pc EXCEPT ![p] = "send"]
    BY <2>1, <2>2
  <2>3. ASSUME NEW e, outcome' = [outcome EXCEPT ![p] = Append(@, e)], UNCHANGED req,
               \/ pc' = [pc EXCEPT ![p] = "top"] /\ UNCHANGED result
               \/ /\ pc' = [pc EXCEPT ![p] = "drop"]
                  /\ result' = [result EXCEPT ![p] = "z21_unreachable"]
        PROVE  Entered'
    <3>1. Len(outcome'[p]) = n + 1
      BY <2>1, <2>3
    <3>2. n + 1 <= Len(req[p].cvs)
      BY <2>1
    <3> HIDE DEF n
    <3> QED BY <2>1, <2>3, <3>1, <3>2
  <2> QED BY <1>13, <2>2, <2>3 DEF Timeout, Goto, DropWith, reqVars
<1>14. ASSUME NEW p \in Ops, CancelAwait(p) PROVE Entered'
  BY <1>14 DEF CancelAwait, FreeSlot, Goto, DropWith, reqVars, loopVars
<1>15. ASSUME NEW p \in Ops, SocketError(p) PROVE Entered'
  BY <1>15 DEF SocketError, FreeSlot, Goto, Return, DropWith, reqVars, loopVars
<1>16. ASSUME NEW p \in Ops, DropSession(p) PROVE Entered'
  BY <1>16 DEF DropSession, Goto, reqVars, loopVars
<1>17. ASSUME NEW p \in Ops, Observe(p) PROVE Entered'
  BY <1>17 DEF Observe, Goto, Return, reqVars, loopVars
<1>18. ASSUME NEW p \in Ops, Close(p) PROVE Entered'
  BY <1>18 DEF Close, Goto, reqVars, loopVars
<1>19. CASE UNCHANGED <<pc, req, outcome, result>>
  BY <1>19
<1>20. CASE \/ (\E p \in Ops : Cancel(p))
            \/ WriteConfig
            \/ DropZ21
            \/ Station
            \/ Lose
            \/ UNCHANGED vars
  BY <1>20, <1>19 DEF Cancel, WriteConfig, DropZ21, Station, Lose, vars, cfgVars,
        lockVars, netVars, reqVars, histVars, loopVars
<1> QED BY <1>1, <1>2, <1>3, <1>4, <1>5, <1>6, <1>7, <1>8, <1>9, <1>10, <1>11,
           <1>12, <1>13, <1>14, <1>15, <1>16, <1>17, <1>18, <1>20 DEF Next, Step,
           Terminated

\* What an element of a sequence with one more is.
LEMMA Appended ==
  ASSUME NEW S, NEW q \in Seq(S), NEW e \in S, NEW i \in DOMAIN Append(q, e)
  PROVE  \/ i \in DOMAIN q /\ Append(q, e)[i] = q[i]
         \/ i = Len(q) + 1 /\ Append(q, e)[i] = e
OBVIOUS

\* What is entered as an answer is about the CV it is entered for.
LEMMA EnteringCv ==
  ASSUME Shape, Bodies, Entered, NEW o \in Ops, NEW e, Entering(o, e), e.verdict = "ok"
  PROVE  /\ Index(o) \in DOMAIN req[o].cvs
         /\ CvOf(e.cmd) = req[o].cvs[Index(o)]
<1>1. pc[o] \in {"send", "await"} /\ req[o].kind \in CvKinds
  BY DEF Entering, Bodies, Slotted, CvKinds
<1>2. Len(outcome[o]) < Len(req[o].cvs)
  BY <1>1 DEF Entered
<1>3. Index(o) \in 1..Len(req[o].cvs)
  BY <1>2, BatchTypes DEF Index
<1>4. DOMAIN req[o].cvs = 1..Len(req[o].cvs)
  BY BatchTypes
<1>5. CvOf(e.cmd) = req[o].cvs[Index(o)]
  BY DEF Entering, CvOf, CurrentCommand, CurrentCv
<1> QED BY <1>3, <1>4, <1>5

\* An answer entered stays with its CV: neither request changes.
LEMMA MatchedStep ==
  Shape /\ Bodies /\ AllMade /\ Entered /\ Matched /\ [Next]_vars => Matched'
<1> SUFFICES ASSUME Shape, Bodies, AllMade, Entered, Matched, [Next]_vars,
                    NEW o \in Ops, NEW i \in DOMAIN outcome'[o],
                    outcome'[o][i].verdict = "ok"
             PROVE  /\ i \in DOMAIN req'[o].cvs
                    /\ req'[outcome'[o][i].cmd.op].cvs[outcome'[o][i].cmd.idx]
                         = req'[o].cvs[i]
  BY DEF Matched, CvOf
<1>1. Moves /\ outcome[o] \in Seq(Entry)
  BY StepMoves, BatchTypes
<1>2. ASSUME NEW c \in Command, Made(c), pc[o] # "idle", i \in DOMAIN req[o].cvs,
             CvOf(c) = req[o].cvs[i]
      PROVE  /\ i \in DOMAIN req'[o].cvs
             /\ req'[c.op].cvs[c.idx] = req'[o].cvs[i]
  <2>1. req'[o] = req[o]
    BY <1>2, MadeStays
  <2> QED BY <1>2, <2>1, CvStays
<1>3. ASSUME i \in DOMAIN outcome[o], outcome'[o][i] = outcome[o][i]
      PROVE  /\ outcome'[o][i].cmd \in Command /\ Made(outcome'[o][i].cmd)
             /\ pc[o] # "idle" /\ i \in DOMAIN req[o].cvs
             /\ CvOf(outcome'[o][i].cmd) = req[o].cvs[i]
  <2>1. outcome[o][i] \in Entry
    BY <1>1, <1>3
  <2>2. outcome[o][i].cmd \in Command
    BY <2>1 DEF Entry
  <2>3. Made(outcome[o][i].cmd)
    BY <1>3 DEF AllMade
  <2>4. pc[o] # "idle"
    BY <1>3 DEF Entered
  <2>5. i \in DOMAIN req[o].cvs /\ CvOf(outcome[o][i].cmd) = req[o].cvs[i]
    BY <1>3 DEF Matched
  <2> QED BY <1>3, <2>2, <2>3, <2>4, <2>5
<1>4. CASE outcome'[o] = outcome[o]
  <2> HIDE DEF Made
  <2> QED BY <1>4, <1>3, <1>2
<1>5. ASSUME NEW e \in Entry, Entering(o, e), outcome'[o] = Append(outcome[o], e)
      PROVE  /\ i \in DOMAIN req'[o].cvs
             /\ req'[outcome'[o][i].cmd.op].cvs[outcome'[o][i].cmd.idx]
                  = req'[o].cvs[i]
  <2>1. CASE i \in DOMAIN outcome[o] /\ outcome'[o][i] = outcome[o][i]
    BY <2>1, <1>3, <1>2
  <2>2. CASE i = Index(o) /\ outcome'[o][i] = e
    <3>1. i \in DOMAIN req[o].cvs /\ CvOf(e.cmd) = req[o].cvs[i]
      BY <1>5, <2>2, EnteringCv
    <3>2. pc[o] # "idle"
      BY <1>5 DEF Entering, Slotted
    <3>3. e.cmd \in Command
      BY <1>5 DEF Entry
    <3>4. Made(e.cmd)
      BY <1>5, EnteringMade
    <3> QED BY <2>2, <3>1, <3>2, <3>3, <3>4, <1>2
  <2>3. \/ i \in DOMAIN outcome[o] /\ outcome'[o][i] = outcome[o][i]
        \/ i = Index(o) /\ outcome'[o][i] = e
    <3>1. i \in DOMAIN Append(outcome[o], e)
      BY <1>5
    <3>2. \/ i \in DOMAIN outcome[o] /\ Append(outcome[o], e)[i] = outcome[o][i]
          \/ i = Len(outcome[o]) + 1 /\ Append(outcome[o], e)[i] = e
      BY <1>1, <1>5, <3>1, Appended
    <3> QED BY <1>5, <3>2 DEF Index
  <2> QED BY <2>1, <2>2, <2>3
<1> QED BY <1>1, <1>4, <1>5 DEF Moves, OutMoves

\* An entry that is no timeout, or that follows none, keeps timeouts apart.
LEMMA EntryApart ==
  ASSUME Shape, Apart, NEW p \in Ops, pc[p] \notin Over, NEW e \in Entry,
         outcome' = [outcome EXCEPT ![p] = Append(@, e)],
         \A o \in Ops \ {p} :
           pc'[o] = pc[o] /\ result'[o] = result[o] /\ timeouts'[o] = timeouts[o],
         \/ e.verdict # "timeout"
         \/ e.verdict = "timeout" /\ timeouts[p] = 0 /\ timeouts'[p] # 0
  PROVE  Apart'
<1>1. ASSUME NEW o \in Ops \ {p}, pc'[o] \notin Over \/ result'[o] = "ok"
      PROVE  /\ \A i \in DOMAIN outcome'[o] :
                  i > 1 => ~( /\ outcome'[o][i].verdict = "timeout"
                             /\ outcome'[o][i - 1].verdict = "timeout" )
             /\ pc'[o] \notin Over /\ timeouts'[o] = 0 /\ outcome'[o] # <<>> =>
                  ~(outcome'[o][Len(outcome'[o])].verdict = "timeout")
  BY <1>1 DEF Apart, TimedOut, Shape, OutTypes
<1>2. /\ outcome[p] \in Seq(Entry) /\ Len(outcome[p]) \in Nat
      /\ outcome'[p] = Append(outcome[p], e)
  BY BatchTypes DEF Shape, OutTypes
<1>3. /\ Len(outcome'[p]) = Len(outcome[p]) + 1
      /\ outcome'[p][Len(outcome[p]) + 1] = e
      /\ \A i \in 1..Len(outcome[p]) : outcome'[p][i] = outcome[p][i]
      /\ DOMAIN outcome'[p] = 1..(Len(outcome[p]) + 1)
      /\ DOMAIN outcome[p] = 1..Len(outcome[p])
  BY <1>2
<1>4. outcome[p] # <<>> <=> Len(outcome[p]) > 0
  BY <1>2
<1>5. ASSUME NEW i \in DOMAIN outcome'[p], i > 1
      PROVE  ~(outcome'[p][i].verdict = "timeout" /\ outcome'[p][i - 1].verdict = "timeout")
  <2>1. CASE i \in 1..Len(outcome[p])
    <3>1. i - 1 \in 1..Len(outcome[p])
      BY <1>2, <1>5, <2>1
    <3>2. ~(outcome[p][i].verdict = "timeout" /\ outcome[p][i - 1].verdict = "timeout")
      BY <1>3, <1>5, <2>1 DEF Apart, TimedOut
    <3> QED BY <1>3, <2>1, <3>1, <3>2
  <2>2. CASE i = Len(outcome[p]) + 1
    <3>1. i - 1 = Len(outcome[p]) /\ i - 1 \in 1..Len(outcome[p])
      BY <1>2, <1>5, <2>2
    <3>2. timeouts[p] = 0 => outcome[p][i - 1].verdict # "timeout"
      BY <1>2, <1>4, <3>1 DEF Apart, TimedOut
    <3> QED BY <1>3, <2>2, <3>1, <3>2
  <2> QED BY <1>2, <1>3, <1>5, <2>1, <2>2
<1>6. timeouts'[p] = 0 => outcome'[p][Len(outcome'[p])].verdict # "timeout"
  BY <1>3
<1> QED BY <1>1, <1>5, <1>6 DEF Apart, TimedOut

\* A call that has returned Ok was not over before.
LEMMA QuietApart ==
  ASSUME Apart, UNCHANGED <<outcome, timeouts>>,
         \A o \in Ops : /\ pc'[o] \notin Over => pc[o] \notin Over
                        /\ result'[o] = "ok" => result[o] = "ok" \/ pc[o] \notin Over
  PROVE  Apart'
BY DEF Apart, TimedOut

\* Timeouts stay apart in a batch that is not given up.
LEMMA ApartStep == Shape /\ Apart /\ [Next]_vars => Apart'
<1> SUFFICES ASSUME Shape, Apart, [Next]_vars PROVE Apart'
  OBVIOUS
<1> USE ConstantsOK DEF Shape, CallTypes, LookTypes, OutTypes, Over, Ended, Slotted
<1>1. ASSUME NEW p \in Ops, Start(p) PROVE Apart'
  BY <1>1, QuietApart DEF Start, Goto, reqVars, loopVars
<1>2. ASSUME NEW p \in Ops, LockInner(p) PROVE Apart'
  BY <1>2, QuietApart DEF LockInner, Goto, Return, reqVars, loopVars
<1>3. ASSUME NEW p \in Ops, ReadConfig(p) PROVE Apart'
  BY <1>3, QuietApart DEF ReadConfig, Goto, Return, reqVars, loopVars
<1>4. ASSUME NEW p \in Ops, ReadGeneration(p) PROVE Apart'
  BY <1>4, QuietApart DEF ReadGeneration, Goto, Body, reqVars, loopVars
<1>5. ASSUME NEW p \in Ops, Connect(p) PROVE Apart'
  BY <1>5, QuietApart DEF Connect, Goto, Return, Body, reqVars, loopVars
<1>6. ASSUME NEW p \in Ops, NextCv(p) PROVE Apart'
  BY <1>6, QuietApart DEF NextCv, Goto, Return, loopVars
<1>7. ASSUME NEW p \in Ops, Settle(p) PROVE Apart'
  BY <1>7, QuietApart DEF Settle, Goto, Return, reqVars, loopVars
<1>8. ASSUME NEW p \in Ops, TakeSlot(p) PROVE Apart'
  BY <1>8, QuietApart DEF TakeSlot, Goto, reqVars, loopVars
<1>9. ASSUME NEW p \in Ops, Send(p) PROVE Apart'
  BY <1>9, QuietApart DEF Send, Goto, DropWith, CountSend, reqVars, loopVars
<1>10. ASSUME NEW p \in Ops, SendUnacknowledged(p) PROVE Apart'
  <2>1. CASE UNCHANGED <<outcome, timeouts>>
    BY <1>10, <2>1, QuietApart DEF SendUnacknowledged, Decide, Goto, Return, loopVars, FreeSlot
  <2>2. ASSUME Decide(p, "ok", CurrentCommand(p))
        PROVE  Apart'
    <3> DEFINE e == [cmd |-> CurrentCommand(p), verdict |-> "ok"]
    <3>1. e \in Entry /\ e.verdict # "timeout"
      BY CommandType, TypeOfShape DEF Entry
    <3>2. /\ outcome' = [outcome EXCEPT ![p] = Append(@, e)]
          /\ timeouts' = [timeouts EXCEPT ![p] = 0]
          /\ pc' = [pc EXCEPT ![p] = "top"] /\ result' = result
      BY <2>2 DEF Decide, Goto
    <3>3. pc[p] \notin Over
      BY <1>10 DEF SendUnacknowledged
    <3>4. \A o \in Ops \ {p} : /\ pc'[o] = pc[o] /\ result'[o] = result[o]
                               /\ timeouts'[o] = timeouts[o]
      BY <3>2 DEF LoopTypes, CallTypes
    <3> HIDE DEF e, Shape
    <3> QED BY <3>1, <3>2, <3>3, <3>4, EntryApart
  <2> QED BY <1>10, <2>1, <2>2 DEF SendUnacknowledged, loopVars
<1>11. ASSUME NEW p \in Ops, CancelUnacknowledged(p) PROVE Apart'
  BY <1>11, QuietApart DEF CancelUnacknowledged, Goto, Return, DropWith, FreeSlot, reqVars, loopVars
<1>12. ASSUME NEW p \in Ops, Receive(p) PROVE Apart'
  <2>1. CASE UNCHANGED <<outcome, timeouts>>
    BY <1>12, <2>1, QuietApart DEF Receive, Decide, Goto, DropWith, loopVars
  <2>2. ASSUME NEW v \in {"ok", "nack"}, Decide(p, v, Head(rx[ses[p]]).cmd)
        PROVE  Apart'
    <3> DEFINE e == [cmd |-> Head(rx[ses[p]]).cmd, verdict |-> v]
    <3>1. e \in Entry /\ e.verdict # "timeout"
      <4>1. ses[p] \in Ops /\ rx[ses[p]] \in Seq(Datagram) /\ rx[ses[p]] # <<>>
        BY <1>12 DEF Receive, Holding, InSession, NetTypes
      <4>2. Head(rx[ses[p]]) \in Datagram
        BY <4>1
      <4> QED BY <4>2 DEF Entry, Datagram
    <3>2. /\ outcome' = [outcome EXCEPT ![p] = Append(@, e)]
          /\ timeouts' = [timeouts EXCEPT ![p] = 0]
          /\ pc' = [pc EXCEPT ![p] = "top"] /\ result' = result
      BY <2>2 DEF Decide, Goto
    <3>3. pc[p] \notin Over
      BY <1>12 DEF Receive
    <3>4. \A o \in Ops \ {p} : /\ pc'[o] = pc[o] /\ result'[o] = result[o]
                               /\ timeouts'[o] = timeouts[o]
      BY <3>2 DEF LoopTypes, CallTypes
    <3> HIDE DEF e, Shape
    <3> QED BY <3>1, <3>2, <3>3, <3>4, EntryApart
  <2> QED BY <1>12, <2>1, <2>2 DEF Receive, loopVars
<1>13. ASSUME NEW p \in Ops, Timeout(p) PROVE Apart'
  <2>1. CASE UNCHANGED <<outcome, timeouts, result>> /\ pc' = [pc EXCEPT ![p] = "send"]
    BY <1>13, <2>1, QuietApart DEF Timeout
  <2>2. CASE /\ LastTry(p)
             /\ outcome' = [outcome EXCEPT ![p] =
                  Append(@, [cmd |-> CurrentCommand(p), verdict |-> "timeout"])]
    <3> DEFINE e == [cmd |-> CurrentCommand(p), verdict |-> "timeout"]
    <3>1. e \in Entry /\ e.verdict = "timeout"
      BY CommandType, TypeOfShape DEF Entry
    <3>2. pc[p] = "await" /\ timeouts' = [timeouts EXCEPT ![p] = @ + 1]
      BY <1>13, <2>2 DEF Timeout, LastTry
    <3>3. timeouts[p] \in 0..2
      BY DEF LoopTypes
    <3>4. CASE timeouts[p] = 0
      <4>1. ~GivesUp(timeouts[p] + 1)
        BY <3>4 DEF GivesUp
      <4>2. pc' = [pc EXCEPT ![p] = "top"] /\ UNCHANGED result
        BY <1>13, <2>2, <4>1 DEF Timeout, LastTry, Goto
      <4>3. timeouts'[p] # 0
        BY <3>2, <3>4 DEF LoopTypes
      <4> HIDE DEF e, Shape
      <4> QED BY <2>2, <3>1, <3>2, <3>4, <4>2, <4>3, EntryApart
        DEF Over, Ended, e, Shape, LoopTypes, CallTypes
    <3>5. CASE timeouts[p] # 0
      <4>1. GivesUp(timeouts[p] + 1)
        BY <3>3, <3>5 DEF GivesUp
      <4>2. /\ pc' = [pc EXCEPT ![p] = "drop"]
            /\ result' = [result EXCEPT ![p] = "z21_unreachable"]
        BY <1>13, <2>2, <4>1 DEF Timeout, LastTry, Goto, DropWith
      <4>3. \A o \in Ops \ {p} : /\ pc'[o] = pc[o] /\ result'[o] = result[o]
                                 /\ timeouts'[o] = timeouts[o] /\ outcome'[o] = outcome[o]
        BY <2>2, <3>2, <4>2 DEF LoopTypes, CallTypes, OutTypes
      <4>4. pc'[p] = "drop" /\ result'[p] = "z21_unreachable"
        BY <4>2 DEF CallTypes
      <4>5. ASSUME NEW o \in Ops, pc'[o] \notin Over \/ result'[o] = "ok"
            PROVE  /\ o # p /\ pc'[o] = pc[o] /\ timeouts'[o] = timeouts[o]
                   /\ outcome'[o] = outcome[o]
                   /\ pc[o] \notin Over \/ result[o] = "ok"
        BY <4>3, <4>4, <4>5
      <4> HIDE DEF Shape, Over
      <4> QED BY <4>5 DEF Apart, TimedOut
    <3> QED BY <3>4, <3>5
  <2> QED BY <1>13, <2>1, <2>2 DEF Timeout, LastTry, Goto
<1>14. ASSUME NEW p \in Ops, CancelAwait(p) PROVE Apart'
  BY <1>14, QuietApart DEF CancelAwait, FreeSlot, Goto, DropWith, reqVars, loopVars
<1>15. ASSUME NEW p \in Ops, SocketError(p) PROVE Apart'
  BY <1>15, QuietApart DEF SocketError, FreeSlot, Goto, Return, DropWith, reqVars, loopVars
<1>16. ASSUME NEW p \in Ops, DropSession(p) PROVE Apart'
  BY <1>16, QuietApart DEF DropSession, Goto, reqVars, loopVars
<1>17. ASSUME NEW p \in Ops, Observe(p) PROVE Apart'
  BY <1>17, QuietApart DEF Observe, Goto, Return, reqVars, loopVars
<1>18. ASSUME NEW p \in Ops, Close(p) PROVE Apart'
  BY <1>18, QuietApart DEF Close, Goto, reqVars, loopVars
<1>19. CASE UNCHANGED <<pc, req, outcome, result, timeouts>>
  BY <1>19, QuietApart
<1>20. CASE \/ (\E p \in Ops : Cancel(p))
            \/ WriteConfig
            \/ DropZ21
            \/ Station
            \/ Lose
            \/ UNCHANGED vars
  BY <1>20, <1>19 DEF Cancel, WriteConfig, DropZ21, Station, Lose, vars, cfgVars,
        lockVars, netVars, reqVars, histVars, loopVars
<1> QED BY <1>1, <1>2, <1>3, <1>4, <1>5, <1>6, <1>7, <1>8, <1>9, <1>10, <1>11,
           <1>12, <1>13, <1>14, <1>15, <1>16, <1>17, <1>18, <1>20 DEF Next, Step,
           Terminated

\* A connection that is the only one has one call at a time.
LEMMA AloneStep == Shape /\ Alone /\ [Next]_vars => Alone'
<1> SUFFICES ASSUME Shape, Alone, [Next]_vars PROVE Alone'
  OBVIOUS
<1> USE ConstantsOK DEF Alone, OneConnection, Shape, CallTypes, Active, Ended
<1>1. ASSUME NEW p \in Ops, Start(p) PROVE Alone'
  BY <1>1 DEF Start, Goto
<1>2. ASSUME NEW p \in Ops, LockInner(p) PROVE Alone'
  BY <1>2 DEF LockInner, Goto, Return
<1>3. ASSUME NEW p \in Ops, ReadConfig(p) PROVE Alone'
  BY <1>3 DEF ReadConfig, Goto, Return
<1>4. ASSUME NEW p \in Ops, ReadGeneration(p) PROVE Alone'
  BY <1>4 DEF ReadGeneration, Goto, Body
<1>5. ASSUME NEW p \in Ops, Connect(p) PROVE Alone'
  BY <1>5 DEF Connect, Goto, Return, Body
<1>6. ASSUME NEW p \in Ops, NextCv(p) PROVE Alone'
  BY <1>6 DEF NextCv, Goto, Return
<1>7. ASSUME NEW p \in Ops, Settle(p) PROVE Alone'
  BY <1>7 DEF Settle, Goto, Return
<1>8. ASSUME NEW p \in Ops, TakeSlot(p) PROVE Alone'
  BY <1>8 DEF TakeSlot, Goto
<1>9. ASSUME NEW p \in Ops, Send(p) PROVE Alone'
  BY <1>9 DEF Send, Goto, DropWith, CountSend
<1>10. ASSUME NEW p \in Ops, SendUnacknowledged(p) PROVE Alone'
  BY <1>10 DEF SendUnacknowledged, Decide, CountSend, FreeSlot, Goto, Return
<1>11. ASSUME NEW p \in Ops, CancelUnacknowledged(p) PROVE Alone'
  BY <1>11 DEF CancelUnacknowledged, Goto, Return, DropWith, FreeSlot
<1>12. ASSUME NEW p \in Ops, Receive(p) PROVE Alone'
  BY <1>12 DEF Receive, Decide, FreeSlot, Goto, DropWith
<1>13. ASSUME NEW p \in Ops, Timeout(p) PROVE Alone'
  BY <1>13 DEF Timeout, FreeSlot, Goto, DropWith
<1>14. ASSUME NEW p \in Ops, CancelAwait(p) PROVE Alone'
  BY <1>14 DEF CancelAwait, FreeSlot, Goto, DropWith
<1>15. ASSUME NEW p \in Ops, SocketError(p) PROVE Alone'
  BY <1>15 DEF SocketError, FreeSlot, Goto, Return, DropWith, Slotted
<1>16. ASSUME NEW p \in Ops, DropSession(p) PROVE Alone'
  BY <1>16 DEF DropSession, Goto
<1>17. ASSUME NEW p \in Ops, Observe(p) PROVE Alone'
  BY <1>17 DEF Observe, Goto, Return
<1>18. ASSUME NEW p \in Ops, Close(p) PROVE Alone'
  BY <1>18 DEF Close, Goto
<1>19. CASE UNCHANGED <<pc>>
  BY <1>19
<1>20. CASE \/ (\E p \in Ops : Cancel(p))
            \/ WriteConfig
            \/ DropZ21
            \/ Station
            \/ Lose
            \/ UNCHANGED vars
  BY <1>20, <1>19 DEF Cancel, WriteConfig, DropZ21, Station, Lose, vars, cfgVars,
        lockVars, netVars, reqVars, histVars, loopVars
<1> QED BY <1>1, <1>2, <1>3, <1>4, <1>5, <1>6, <1>7, <1>8, <1>9, <1>10, <1>11,
           <1>12, <1>13, <1>14, <1>15, <1>16, <1>17, <1>18, <1>20 DEF Next, Step,
           Terminated

\* Nothing cancels a call when no fault does.
LEMMA UncancelledStep == Uncancelled /\ [Next]_vars => Uncancelled'
<1> SUFFICES ASSUME Uncancelled, [Next]_vars PROVE Uncancelled'
  OBVIOUS
<1>1. CASE UNCHANGED cancelled
  BY <1>1 DEF Uncancelled
<1>2. ASSUME NEW p \in Ops, Cancel(p) PROVE Uncancelled'
  BY <1>2 DEF Cancel, Uncancelled, NoInterrupt
<1> QED
  BY <1>1, <1>2
  DEF Next, Step, Terminated, Start, LockInner, ReadConfig, ReadGeneration, Connect, NextCv,
      Settle, TakeSlot, Send, SendUnacknowledged, CancelUnacknowledged, Receive, Timeout,
      CancelAwait, SocketError, DropSession, Observe, Close, WriteConfig, DropZ21, Station,
      Lose, vars

\* A call that has not been given a session was never given one.
LEMMA BeforeStep ==
  ASSUME Shape, [Next]_vars, NEW s \in Ops, pc'[s] \in Before
  PROVE  pc[s] \in Before
<1> USE DEF Shape, CallTypes, Before
<1>1. ASSUME NEW p \in Ops, Start(p) PROVE pc[s] \in Before
  BY <1>1 DEF Start, Goto
<1>2. ASSUME NEW p \in Ops, LockInner(p) PROVE pc[s] \in Before
  BY <1>2 DEF LockInner, Goto, Return
<1>3. ASSUME NEW p \in Ops, ReadConfig(p) PROVE pc[s] \in Before
  BY <1>3 DEF ReadConfig, Goto, Return
<1>4. ASSUME NEW p \in Ops, ReadGeneration(p) PROVE pc[s] \in Before
  BY <1>4 DEF ReadGeneration, Goto, Body
<1>5. ASSUME NEW p \in Ops, Connect(p) PROVE pc[s] \in Before
  BY <1>5 DEF Connect, Goto, Return, Body
<1>6. ASSUME NEW p \in Ops, NextCv(p) PROVE pc[s] \in Before
  BY <1>6 DEF NextCv, Goto, Return
<1>7. ASSUME NEW p \in Ops, Settle(p) PROVE pc[s] \in Before
  BY <1>7 DEF Settle, Goto, Return
<1>8. ASSUME NEW p \in Ops, TakeSlot(p) PROVE pc[s] \in Before
  BY <1>8 DEF TakeSlot, Goto
<1>9. ASSUME NEW p \in Ops, Send(p) PROVE pc[s] \in Before
  BY <1>9 DEF Send, Goto, DropWith, CountSend
<1>10. ASSUME NEW p \in Ops, SendUnacknowledged(p) PROVE pc[s] \in Before
  BY <1>10 DEF SendUnacknowledged, Decide, CountSend, FreeSlot, Goto, Return
<1>11. ASSUME NEW p \in Ops, CancelUnacknowledged(p) PROVE pc[s] \in Before
  BY <1>11 DEF CancelUnacknowledged, Goto, Return, DropWith, FreeSlot
<1>12. ASSUME NEW p \in Ops, Receive(p) PROVE pc[s] \in Before
  BY <1>12 DEF Receive, Decide, FreeSlot, Goto, DropWith
<1>13. ASSUME NEW p \in Ops, Timeout(p) PROVE pc[s] \in Before
  BY <1>13 DEF Timeout, FreeSlot, Goto, DropWith
<1>14. ASSUME NEW p \in Ops, CancelAwait(p) PROVE pc[s] \in Before
  BY <1>14 DEF CancelAwait, FreeSlot, Goto, DropWith
<1>15. ASSUME NEW p \in Ops, SocketError(p) PROVE pc[s] \in Before
  BY <1>15 DEF SocketError, FreeSlot, Goto, Return, DropWith
<1>16. ASSUME NEW p \in Ops, DropSession(p) PROVE pc[s] \in Before
  BY <1>16 DEF DropSession, Goto
<1>17. ASSUME NEW p \in Ops, Observe(p) PROVE pc[s] \in Before
  BY <1>17 DEF Observe, Goto, Return
<1>18. ASSUME NEW p \in Ops, Close(p) PROVE pc[s] \in Before
  BY <1>18 DEF Close, Goto
<1>19. CASE UNCHANGED pc
  BY <1>19
<1> QED BY <1>1, <1>2, <1>3, <1>4, <1>5, <1>6, <1>7, <1>8, <1>9, <1>10, <1>11,
           <1>12, <1>13, <1>14, <1>15, <1>16, <1>17, <1>18, <1>19 DEF Next, Step,
           Terminated, Cancel, WriteConfig, DropZ21, Station, Lose, vars

\* Nothing is sent, and nothing arrives, on a session before it is opened.
LEMMA UnopenedStep == Shape /\ Opened /\ Unopened /\ [Next]_vars => Unopened'
<1> SUFFICES ASSUME Shape, Opened, Unopened, [Next]_vars, NEW s \in Ops, pc'[s] \in Before
             PROVE  rx'[s] = <<>> /\ \A d \in wire' : d.ses # s
  BY DEF Unopened
<1>1. pc[s] \in Before /\ Moves
  BY BeforeStep, StepMoves
<1>2. rx[s] = <<>> /\ \A d \in wire : d.ses # s
  BY <1>1 DEF Unopened
<1>3. rx'[s] = <<>>
  BY <1>1, <1>2 DEF Moves, RxMoves
<1>4. ASSUME NEW o \in Ops, pc[o] = "send" PROVE ses[o] # s
  <2>1. ses[o] \in Ops
    BY <1>4 DEF Shape, Holding, InSession
  <2> QED BY <1>1, <2>1, ConstantsOK DEF Opened
<1>5. ASSUME NEW d \in wire' PROVE d.ses # s
  BY <1>1, <1>2, <1>4 DEF Moves, WireMoves
<1> QED BY <1>3, <1>5

\* Whose answer a session is waiting for.
LEMMA OneAsker ==
  ASSUME Held, NEW o \in Ops, pc[o] \in Slotted, NEW c, Asked(ses[o], c)
  PROVE  pc[o] = "await" /\ c = CurrentCommand(o)
BY DEF Asked, Held, Slotted

\* A session stays clean while nothing is sent on it and it keeps its asker.
LEMMA KeepClean ==
  ASSUME NEW s \in Ops, Clean(s), rx'[s] = rx[s],
         \A d \in wire' : d.ses = s => d \in wire,
         \A o \in Ops : pc[o] = "await" /\ ses[o] = s =>
           pc'[o] = "await" /\ ses'[o] = s /\ CurrentCommand(o)' = CurrentCommand(o)
  PROVE  Clean(s)'
<1>1. \A c : Asked(s, c) =>
        \E o \in Ops : pc'[o] = "await" /\ ses'[o] = s /\ c = CurrentCommand(o)'
  BY DEF Asked
<1>2. ASSUME NEW d \in wire', d.ses = s
      PROVE  /\ \E o \in Ops : pc'[o] = "await" /\ ses'[o] = s /\ d.cmd = CurrentCommand(o)'
             /\ rx'[s] = <<>>
  BY <1>1, <1>2 DEF Clean
<1>3. ASSUME rx'[s] # <<>>
      PROVE  /\ \E o \in Ops : pc'[o] = "await" /\ ses'[o] = s
                               /\ Head(rx'[s]).cmd = CurrentCommand(o)'
             /\ Tail(rx'[s]) = <<>>
  BY <1>1, <1>3 DEF Clean
<1> QED BY <1>2, <1>3 DEF Clean, Asked

\* A datagram that arrives at an empty socket is the only one in it.
LEMMA OneDatagram ==
  ASSUME NEW m
  PROVE  Head(Append(<<>>, m)) = m /\ Tail(Append(<<>>, m)) = <<>>
<1>1. Append(<<>>, m) = <<m>>
  OBVIOUS
<1>2. Head(<<m>>) = m /\ Tail(<<m>>) = <<>>
  OBVIOUS
<1> QED BY <1>1, <1>2

\* A session with nothing on its way is clean.
LEMMA EmptyClean ==
  ASSUME NEW s \in Ops, rx'[s] = <<>>, \A d \in wire' : d.ses # s
  PROVE  Clean(s)'
BY DEF Clean

\* A session is trusted only if it was, unless it is opened or left.
LEMMA TrustStays ==
  ASSUME Opened, NEW s \in Ops, UNCHANGED <<ses, inner>>,
         \A o \in Ops : pc[o] = "drop" => pc'[o] = "drop",
         \A o \in Ops : Active(o)' => Active(o) \/ pc[o] = "idle",
         Trusted(s)'
  PROVE  Trusted(s)
<1>1. \A o \in Ops : pc[o] = "idle" => ses[o] # s
  BY ConstantsOK DEF Opened, Before
<1> QED BY <1>1 DEF Trusted, Active

\* A call that gives up its session as the only call leaves it untrusted.
LEMMA DropsTrust ==
  ASSUME Shape, Alone, OneConnection, ~NoInterrupt, NEW p \in Ops, Active(p), pc[p] # "drop",
         pc' = [pc EXCEPT ![p] = "drop"], UNCHANGED <<ses, inner>>, NEW s \in Ops
  PROVE  ~Trusted(s)'
<1>1. pc'[p] = "drop" /\ \A o \in Ops \ {p} : pc'[o] = pc[o]
  BY DEF Shape, CallTypes
<1>2. \A o \in Ops \ {p} : ~Active(o)
  BY DEF Alone
<1> QED BY <1>1, <1>2 DEF Trusted, Active

\* On a session still in use the only thing on its way is the answer to the
\* command being asked for.
LEMMA QuietStep ==
  ASSUME Patient, Shape, Bodies, Held, Opened, Unopened, Alone, Uncancelled, Quiet, [Next]_vars
  PROVE  Quiet'
<1> SUFFICES ASSUME NEW s \in Ops, Trusted(s)' PROVE Clean(s)'
  BY DEF Quiet
<1>a. Trusted(s) => Clean(s)
  BY DEF Quiet
<1>b. /\ "late" \notin Faults /\ "close" \notin Faults
      /\ OneConnection \/ NoInterrupt
      /\ "cancel" \in Faults \/ "io" \in Faults => ~NoInterrupt
  BY DEF Patient, NoInterrupt
<1>c. pc \in [Ops -> Places] /\ \A o \in Ops : pc[o] \in InSession => ses[o] \in Ops
  BY DEF Shape, CallTypes, Holding
<1>1. ASSUME UNCHANGED <<ses, inner, wire, rx, outcome>>,
             \A o \in Ops : pc[o] \in {"drop", "await"} => pc'[o] = pc[o],
             \A o \in Ops : pc[o] = "await" => attempt'[o] = attempt[o],
             \A o \in Ops : Active(o)' => Active(o) \/ pc[o] = "idle"
      PROVE  Clean(s)'
  <2>1. Clean(s)
    BY <1>1, <1>a, TrustStays
  <2>2. \A o \in Ops : pc[o] = "await" => CurrentCommand(o)' = CurrentCommand(o)
    BY <1>1 DEF CurrentCommand, Index
  <2> QED BY <1>1, <2>1, <2>2, KeepClean
<1>2. ASSUME NEW p \in Ops, Start(p) PROVE Clean(s)'
  <2>1. /\ UNCHANGED <<ses, inner, wire, rx, outcome, attempt>>
        /\ pc[p] = "idle" /\ pc' = [pc EXCEPT ![p] = "lock"]
    BY <1>2 DEF Start, Goto, netVars, loopVars, lockVars
  <2> QED BY <1>1, <1>c, <2>1 DEF Active, Ended
<1>3. ASSUME NEW p \in Ops, LockInner(p) PROVE Clean(s)'
  BY <1>3, <1>1, <1>c DEF LockInner, Goto, Return, netVars, loopVars, reqVars, Active, Ended
<1>4. ASSUME NEW p \in Ops, ReadConfig(p) PROVE Clean(s)'
  BY <1>4, <1>1, <1>c DEF ReadConfig, Goto, Return, netVars, loopVars, Active, Ended
<1>5. ASSUME NEW p \in Ops, ReadGeneration(p) PROVE Clean(s)'
  <2>1. CASE ~Fresh(p)
    BY <1>5, <2>1, <1>1, <1>c DEF ReadGeneration, Goto, netVars, loopVars, Active, Ended
  <2>2. CASE Fresh(p)
    <3>1. /\ pc[p] = "gen" /\ ses' = [ses EXCEPT ![p] = inner] /\ UNCHANGED inner
          /\ pc' = [pc EXCEPT ![p] = Body(p)]
          /\ UNCHANGED <<wire, rx, outcome, attempt>>
      BY <1>5, <2>2 DEF ReadGeneration, Goto, netVars, loopVars
    <3>2. Body(p) \in {"slot", "observe", "top"}
      BY DEF Body
    <3>3. pc'[p] = Body(p) /\ \A o \in Ops \ {p} : pc'[o] = pc[o] /\ ses'[o] = ses[o]
      BY <3>1, <1>c DEF Shape, LockTypes
    <3>4. Trusted(s)
      <4>1. CASE NoInterrupt
        BY <4>1 DEF Trusted
      <4>2. CASE ~NoInterrupt
        <5>1. \A o \in Ops \ {p} : ~Active(o)
          BY <1>b, <3>1, <4>2 DEF Alone, Active, Ended
        <5>2. \A o \in Ops : pc[o] # "drop"
          BY <3>1, <5>1 DEF Active, Ended
        <5>3. ses'[p] = inner
          BY <3>1 DEF Shape, LockTypes
        <5>4. inner = s
          BY <3>1, <3>3, <4>2, <5>1, <5>3 DEF Trusted, Active
        <5> QED BY <5>2, <5>4 DEF Trusted
      <4> QED BY <4>1, <4>2
    <3>5. \A o \in Ops : pc[o] = "await" =>
            pc'[o] = "await" /\ ses'[o] = ses[o] /\ CurrentCommand(o)' = CurrentCommand(o)
      BY <3>1, <3>3 DEF CurrentCommand, Index
    <3> QED BY <1>a, <3>1, <3>4, <3>5, KeepClean
  <2> QED BY <2>1, <2>2
<1>6. ASSUME NEW p \in Ops, Connect(p) PROVE Clean(s)'
  <2>1. CASE UNCHANGED <<inner, ses>>
    BY <1>6, <2>1, <1>1, <1>c, ConstantsOK
    DEF Connect, Goto, Return, netVars, loopVars, Active, Ended, Opened, Before
  <2>2. CASE /\ inner' = p /\ ses' = [ses EXCEPT ![p] = p] /\ Goto(p, Body(p))
    <3>1. pc[p] = "connect" /\ UNCHANGED <<wire, rx, outcome, attempt>>
      BY <1>6 DEF Connect, netVars, loopVars
    <3>2. CASE s = p
      <4>1. rx[s] = <<>> /\ \A d \in wire : d.ses # s
        BY <3>1, <3>2 DEF Unopened, Before
      <4> QED BY <3>1, <4>1, EmptyClean
    <3>3. CASE s # p
      <4>1. \A o \in Ops \ {p} : pc'[o] = pc[o] /\ ses'[o] = ses[o]
        BY <2>2, <1>c DEF Goto, Shape, LockTypes
      <4>2. ses'[p] = p
        BY <2>2 DEF Shape, LockTypes
      <4>3. Trusted(s)
        BY <2>2, <3>3, <4>1, <4>2 DEF Trusted, Active
      <4>4. \A o \in Ops : pc[o] = "await" =>
              pc'[o] = "await" /\ ses'[o] = ses[o] /\ CurrentCommand(o)' = CurrentCommand(o)
        BY <3>1, <4>1 DEF CurrentCommand, Index
      <4> QED BY <1>a, <3>1, <4>3, <4>4, KeepClean
    <3> QED BY <3>2, <3>3
  <2> QED BY <1>6, <2>1, <2>2 DEF Connect
<1>7. ASSUME NEW p \in Ops, NextCv(p) PROVE Clean(s)'
  <2>1. \A o \in Ops : pc[o] = "await" => attempt'[o] = attempt[o]
    BY <1>7 DEF NextCv, Shape, LoopTypes
  <2> QED
    BY <1>7, <1>1, <1>c, <2>1
    DEF NextCv, Goto, Return, netVars, lockVars, reqVars, Active, Ended
<1>8. ASSUME NEW p \in Ops, Settle(p) PROVE Clean(s)'
  BY <1>8, <1>1, <1>c DEF Settle, Goto, Return, netVars, loopVars, lockVars, reqVars, Active, Ended
<1>9. ASSUME NEW p \in Ops, TakeSlot(p) PROVE Clean(s)'
  BY <1>9, <1>1, <1>c DEF TakeSlot, Goto, netVars, loopVars, lockVars, reqVars, Active, Ended
<1>10. ASSUME NEW p \in Ops, Send(p) PROVE Clean(s)'
  <2> DEFINE d == [ses |-> ses[p], cmd |-> CurrentCommand(p)]
  <2>1. /\ pc[p] = "send" /\ ses[p] \in Ops /\ wire' = wire \cup {d}
        /\ UNCHANGED <<ses, inner, outcome, attempt>>
    BY <1>10, <1>c DEF Send, InSession, reqVars, loopVars, lockVars
  <2>2. CASE ~StopsListening(p)
    <3>1. pc' = [pc EXCEPT ![p] = "await"] /\ rx' = rx
      BY <1>10, <2>2 DEF Send, Goto
    <3>2. Trusted(s)
      BY <2>1, <3>1, <1>c, TrustStays DEF Active, Ended
    <3>3. \A o \in Ops : pc[o] = "await" =>
            pc'[o] = "await" /\ ses'[o] = ses[o] /\ CurrentCommand(o)' = CurrentCommand(o)
      BY <2>1, <3>1, <1>c DEF CurrentCommand, Index
    <3>4. CASE s # ses[p]
      <4>1. \A f \in wire' : f.ses = s => f \in wire
        BY <2>1, <3>4
      <4> HIDE DEF d
      <4> QED BY <1>a, <3>1, <3>2, <3>3, <4>1, KeepClean
    <3>5. CASE s = ses[p]
      <4>1. \A c : ~Asked(s, c)
        BY <2>1, <3>5, OneAsker DEF Slotted
      <4>2. rx[s] = <<>> /\ \A f \in wire : f.ses # s
        BY <1>a, <3>2, <4>1 DEF Clean
      <4>3. \A f \in wire' : f.ses = s => f = d
        BY <2>1, <4>2
      <4>4. /\ pc'[p] = "await" /\ ses'[p] = s
            /\ d.cmd = [op |-> p, idx |-> Len(outcome'[p]) + 1, try |-> attempt'[p]]
        BY <2>1, <3>1, <3>5, <1>c DEF CurrentCommand, Index
      <4> HIDE DEF d
      <4> QED BY <3>1, <4>2, <4>3, <4>4 DEF Clean, Asked, CurrentCommand, Index
    <3> QED BY <3>4, <3>5
  <2>3. CASE StopsListening(p)
    <3>1. pc' = [pc EXCEPT ![p] = "drop"]
      BY <1>10, <2>3 DEF Send, DropWith, Goto
    <3>2. ~NoInterrupt
      BY <2>3 DEF StopsListening, Uncancelled
    <3> QED BY <1>b, <2>1, <3>1, <3>2, DropsTrust DEF Active, Ended
  <2> QED BY <2>2, <2>3
<1>11. ASSUME NEW p \in Ops, SendUnacknowledged(p) PROVE Clean(s)'
  <2>1. /\ pc[p] = "send" /\ UNCHANGED <<ses, inner, wire, rx>>
    BY <1>11 DEF SendUnacknowledged, netVars, lockVars, reqVars
  <2>2. \A o \in Ops \ {p} : /\ outcome'[o] = outcome[o] /\ attempt'[o] = attempt[o]
                             /\ pc'[o] = pc[o]
    BY <1>11 DEF SendUnacknowledged, Decide, Goto, Return, loopVars, Shape, CallTypes,
                 LoopTypes, OutTypes
  <2>3. Trusted(s)
    BY <2>1, <2>2, TrustStays DEF Active, Ended
  <2>4. \A o \in Ops : pc[o] = "await" =>
          pc'[o] = "await" /\ ses'[o] = ses[o] /\ CurrentCommand(o)' = CurrentCommand(o)
    BY <2>1, <2>2 DEF CurrentCommand, Index
  <2> QED BY <1>a, <2>1, <2>3, <2>4, KeepClean
<1>12. ASSUME NEW p \in Ops, CancelUnacknowledged(p) PROVE Clean(s)'
  <2>1. ~NoInterrupt
    BY <1>12 DEF CancelUnacknowledged, Uncancelled
  <2>2. /\ pc[p] = "send" /\ UNCHANGED <<ses, inner, wire, rx, outcome, attempt>>
        /\ pc' = [pc EXCEPT ![p] = "done"] \/ pc' = [pc EXCEPT ![p] = "drop"]
    BY <1>12 DEF CancelUnacknowledged, Return, DropWith, Goto, netVars, lockVars, reqVars, loopVars
  <2> QED BY <1>1, <1>c, <2>2 DEF Active, Ended
<1>13. ASSUME NEW p \in Ops, Receive(p) PROVE Clean(s)'
  <2>1. /\ pc[p] = "await" /\ ses[p] \in Ops /\ rx[ses[p]] # <<>>
        /\ rx' = [rx EXCEPT ![ses[p]] = Tail(@)]
        /\ UNCHANGED <<ses, inner, wire, attempt>>
    BY <1>13, <1>c DEF Receive, Decide, InSession, netVars, lockVars, reqVars, loopVars
  <2>2. \A o \in Ops \ {p} : outcome'[o] = outcome[o] /\ pc'[o] = pc[o]
    BY <1>13 DEF Receive, Decide, DropWith, Goto, loopVars, Shape, CallTypes, OutTypes
  <2>3. Trusted(s)
    BY <2>1, <2>2, TrustStays DEF Active, Ended
  <2>4. CASE s # ses[p]
    <3>1. rx'[s] = rx[s]
      BY <2>1, <2>4 DEF Shape, NetTypes
    <3>2. \A o \in Ops : pc[o] = "await" /\ ses[o] = s =>
            pc'[o] = "await" /\ ses'[o] = s /\ CurrentCommand(o)' = CurrentCommand(o)
      BY <2>1, <2>2, <2>4 DEF CurrentCommand, Index
    <3> QED BY <1>a, <2>1, <2>3, <3>1, <3>2, KeepClean
  <2>5. CASE s = ses[p]
    <3>1. Tail(rx[s]) = <<>> /\ \A d \in wire : d.ses # s
      BY <1>a, <2>1, <2>3, <2>5 DEF Clean
    <3>2. rx'[s] = <<>>
      BY <2>1, <2>5, <3>1 DEF Shape, NetTypes
    <3> QED BY <2>1, <3>1, <3>2, EmptyClean
  <2> QED BY <2>4, <2>5
<1>14. ASSUME NEW p \in Ops, Timeout(p) PROVE Clean(s)'
  <2>1. /\ pc[p] = "await" /\ ses[p] \in Ops /\ ~Answerable(p)
        /\ rx' = [rx EXCEPT ![ses[p]] = <<>>]
        /\ UNCHANGED <<ses, inner, wire>>
    BY <1>14, <1>b, <1>c DEF Timeout, Drained, InSession, netVars, lockVars, reqVars
  <2>2. \A o \in Ops \ {p} : /\ outcome'[o] = outcome[o] /\ pc'[o] = pc[o]
                             /\ attempt'[o] = attempt[o]
    BY <1>14 DEF Timeout, DropWith, Goto, Shape, CallTypes, OutTypes, LoopTypes
  <2>3. Trusted(s)
    BY <2>1, <2>2, TrustStays DEF Active, Ended
  <2>4. CASE s # ses[p]
    <3>1. rx'[s] = rx[s]
      BY <2>1, <2>4 DEF Shape, NetTypes
    <3>2. \A o \in Ops : pc[o] = "await" /\ ses[o] = s =>
            pc'[o] = "await" /\ ses'[o] = s /\ CurrentCommand(o)' = CurrentCommand(o)
      BY <2>1, <2>2, <2>4 DEF CurrentCommand, Index
    <3> QED BY <1>a, <2>1, <2>3, <3>1, <3>2, KeepClean
  <2>5. CASE s = ses[p]
    <3>1. \A d \in wire : d.ses # s
      <4>1. \A d \in wire : d.cmd # CurrentCommand(p)
        BY <2>1 DEF Answerable
      <4>2. \A d \in wire : d.ses = s => Asked(s, d.cmd)
        BY <1>a, <2>3 DEF Clean
      <4> QED BY <2>1, <2>5, <4>1, <4>2, OneAsker DEF Slotted
    <3>2. rx'[s] = <<>>
      BY <2>1, <2>5 DEF Shape, NetTypes
    <3> QED BY <2>1, <3>1, <3>2, EmptyClean
  <2> QED BY <2>4, <2>5
<1>15. ASSUME NEW p \in Ops, CancelAwait(p) PROVE Clean(s)'
  <2>1. /\ pc[p] = "await" /\ UNCHANGED <<ses, inner>>
        /\ pc' = [pc EXCEPT ![p] = "drop"]
    BY <1>15 DEF CancelAwait, DropWith, Goto, lockVars, reqVars
  <2>2. ~NoInterrupt
    BY <1>15 DEF CancelAwait, Uncancelled
  <2> QED BY <1>b, <2>1, <2>2, DropsTrust DEF Active, Ended
<1>16. ASSUME NEW p \in Ops, SocketError(p) PROVE Clean(s)'
  <2>1. ~NoInterrupt /\ pc[p] \in {"send", "await", "observe"}
        /\ UNCHANGED <<ses, inner, wire, rx, outcome, attempt>>
    BY <1>16, <1>b DEF SocketError, Slotted, lockVars, netVars, loopVars, reqVars
  <2>2. CASE pc' = [pc EXCEPT ![p] = "drop"]
    BY <1>b, <2>1, <2>2, DropsTrust DEF Active, Ended
  <2>3. CASE req[p].kind \in {"function", "observe"} /\ pc' = [pc EXCEPT ![p] = "done"]
    <3>1. pc[p] # "await"
      BY <2>3 DEF Bodies
    <3> QED BY <1>1, <1>c, <2>1, <2>3, <3>1 DEF Active, Ended
  <2> QED BY <1>16, <2>2, <2>3 DEF SocketError, Return, DropWith, Goto
<1>17. ASSUME NEW p \in Ops, DropSession(p) PROVE Clean(s)'
  <2>1. /\ pc[p] = "drop" /\ pc' = [pc EXCEPT ![p] = "done"] /\ inner' = NoOne
        /\ UNCHANGED <<ses, wire, rx, outcome, attempt>>
    BY <1>17 DEF DropSession, Goto, netVars, loopVars, reqVars
  <2>2. Trusted(s)
    BY <2>1, <1>c, ConstantsOK DEF Trusted, Active, Ended
  <2>3. \A o \in Ops : pc[o] = "await" =>
          pc'[o] = "await" /\ ses'[o] = ses[o] /\ CurrentCommand(o)' = CurrentCommand(o)
    BY <2>1, <1>c DEF CurrentCommand, Index
  <2> QED BY <1>a, <2>1, <2>2, <2>3, KeepClean
<1>18. ASSUME NEW p \in Ops, Observe(p) PROVE Clean(s)'
  <2>1. /\ pc[p] = "observe" /\ ses[p] \in Ops
        /\ UNCHANGED <<ses, inner, wire, outcome, attempt>>
        /\ \A o \in Ops \ {p} : pc'[o] = pc[o]
        /\ \A o \in Ops : pc[o] \in {"drop", "await"} => pc'[o] = pc[o]
    BY <1>18, <1>c DEF Observe, Return, Goto, InSession, netVars, loopVars, lockVars, reqVars
  <2>2. \/ rx'[s] = rx[s] \/ rx'[s] = <<>>
        \/ rx[s] # <<>> /\ rx'[s] = Tail(rx[s])
    BY <1>18, <2>1 DEF Observe, Drained, Shape, NetTypes
  <2>3. Clean(s)
    BY <1>a, <2>1, TrustStays DEF Active, Ended
  <2>4. \A o \in Ops : pc[o] = "await" =>
          pc'[o] = "await" /\ ses'[o] = ses[o] /\ CurrentCommand(o)' = CurrentCommand(o)
    BY <2>1 DEF CurrentCommand, Index
  <2>5. CASE rx'[s] = rx[s]
    BY <2>1, <2>3, <2>4, <2>5, KeepClean
  <2>6. CASE rx'[s] # rx[s] /\ rx'[s] = <<>>
    <3>1. \A d \in wire : d.ses # s
      BY <2>3, <2>6 DEF Clean
    <3> QED BY <2>1, <2>6, <3>1, EmptyClean
  <2>7. CASE rx[s] # <<>> /\ rx'[s] = Tail(rx[s])
    <3>1. Tail(rx[s]) = <<>> /\ \A d \in wire : d.ses # s
      BY <2>3, <2>7 DEF Clean
    <3> QED BY <2>1, <2>7, <3>1, EmptyClean
  <2> QED BY <2>2, <2>5, <2>6, <2>7
<1>19. ASSUME Station PROVE Clean(s)'
  <2> PICK d \in wire, v \in {"ok", "nack", "sc"} :
        /\ wire' = wire \ {d}
        /\ rx' = IF Open(d.ses)
                 THEN [rx EXCEPT ![d.ses] = Append(@, [cmd |-> d.cmd, verdict |-> v])]
                 ELSE rx
    BY <1>19 DEF Station
  <2>1. UNCHANGED <<pc, ses, inner, outcome, attempt>>
    BY <1>19 DEF Station, lockVars, reqVars, loopVars
  <2>2. Clean(s)
    BY <1>a, <2>1, TrustStays DEF Active
  <2>3. \A o \in Ops : CurrentCommand(o)' = CurrentCommand(o)
    BY <2>1 DEF CurrentCommand, Index
  <2>4. CASE rx'[s] = rx[s]
    BY <2>1, <2>2, <2>3, <2>4, KeepClean
  <2>5. CASE s = d.ses /\ rx'[s] = Append(rx[s], [cmd |-> d.cmd, verdict |-> v])
    <3>1. rx[s] = <<>> /\ \A f \in wire : f.ses = s => Asked(s, f.cmd)
      BY <2>2, <2>5 DEF Clean
    <3>2. PICK o \in Ops : pc[o] = "await" /\ ses[o] = s /\ d.cmd = CurrentCommand(o)
      BY <2>5, <3>1 DEF Asked
    <3>3. \A f \in wire : f.ses = s => f.cmd = d.cmd
      BY <3>1, <3>2, OneAsker DEF Slotted
    <3>4. \A f \in wire' : f.ses # s
      <4>1. \A f \in wire : f = [ses |-> f.ses, cmd |-> f.cmd]
        BY DEF Shape, NetTypes
      <4> QED BY <2>5, <3>3, <4>1
    <3>6. Head(rx'[s]).cmd = d.cmd /\ Tail(rx'[s]) = <<>>
      BY <2>5, <3>1, OneDatagram
    <3>7. pc'[o] = "await" /\ ses'[o] = s /\ d.cmd = CurrentCommand(o)'
      BY <2>1, <2>3, <3>2
    <3> QED BY <3>4, <3>6, <3>7 DEF Clean, Asked
  <2> QED BY <2>4, <2>5 DEF Shape, NetTypes
<1>20. ASSUME Lose PROVE Clean(s)'
  <2>1. UNCHANGED <<pc, ses, inner, outcome, attempt, rx>> /\ wire' \subseteq wire
    BY <1>20 DEF Lose, lockVars, reqVars, loopVars
  <2>2. Clean(s)
    BY <1>a, <2>1, TrustStays DEF Active
  <2>3. \A o \in Ops : CurrentCommand(o)' = CurrentCommand(o)
    BY <2>1 DEF CurrentCommand, Index
  <2> QED BY <2>1, <2>2, <2>3, KeepClean
<1>21. CASE \/ (\E p \in Ops : Cancel(p)) \/ WriteConfig \/ DropZ21 \/ UNCHANGED vars
  BY <1>21, <1>1
  DEF Cancel, WriteConfig, DropZ21, vars, cfgVars, lockVars, netVars, reqVars, loopVars, Active
<1>22. ASSUME NEW p \in Ops, Close(p) PROVE FALSE
  BY <1>22, <1>b DEF Close
<1> QED
  BY <1>2, <1>3, <1>4, <1>5, <1>6, <1>7, <1>8, <1>9, <1>10, <1>11, <1>12, <1>13, <1>14,
     <1>15, <1>16, <1>17, <1>18, <1>19, <1>20, <1>21, <1>22 DEF Next, Step, Terminated

\* The verdict entered is the station's on the very command that was sent.
LEMMA OwnStep ==
  ASSUME Shape, Held, Quiet, OwnVerdict, [Next]_vars
  PROVE  OwnVerdict'
<1> SUFFICES ASSUME NEW o \in Ops, NEW i \in 1..Len(outcome'[o])
             PROVE  outcome'[o][i].cmd.op = o /\ outcome'[o][i].cmd.idx = i
  BY DEF OwnVerdict
<1>1. Moves /\ outcome[o] \in Seq(Entry)
  BY StepMoves, BatchTypes
<1>2. \A j \in DOMAIN outcome[o] : outcome[o][j].cmd.op = o /\ outcome[o][j].cmd.idx = j
  BY <1>1 DEF OwnVerdict
<1>3. CASE outcome'[o] = outcome[o]
  BY <1>3 DEF OwnVerdict
<1>4. ASSUME NEW e \in Entry, Entering(o, e), outcome'[o] = Append(outcome[o], e)
      PROVE  outcome'[o][i].cmd.op = o /\ outcome'[o][i].cmd.idx = i
  <2>1. e.cmd = CurrentCommand(o)
    <3>1. CASE pc[o] = "await" /\ rx[ses[o]] # <<>> /\ e = Head(rx[ses[o]])
      <4>1. ses[o] \in Ops
        BY <3>1 DEF Shape, Holding, InSession
      <4>2. Trusted(ses[o])
        BY <3>1 DEF Trusted, Active, Ended
      <4>3. Asked(ses[o], e.cmd)
        BY <3>1, <4>1, <4>2 DEF Quiet, Clean
      <4> QED BY <3>1, <4>3, OneAsker DEF Slotted
    <3> QED BY <1>4, <3>1 DEF Entering
  <2>2. e.cmd.op = o /\ e.cmd.idx = Len(outcome[o]) + 1
    BY <2>1 DEF CurrentCommand, Index
  <2>3. i \in DOMAIN Append(outcome[o], e)
    <3>1. Append(outcome[o], e) \in Seq(Entry)
      BY <1>1
    <3> QED BY <1>4, <3>1
  <2> QED BY <1>1, <1>2, <1>4, <2>2, <2>3, Appended
<1> QED BY <1>1, <1>3, <1>4 DEF Moves, OutMoves

\* An answer "ok", in the socket or entered by a write, is of a command the
\* decoder has carried out.
LEMMA ProgrammedStep ==
  ASSUME Shape, Bodies, Entered, OkIsProgrammed, [Next]_vars
  PROVE  OkIsProgrammed'
<1>1. Moves
  BY StepMoves
<1>2. ASSUME NEW s \in Ops, NEW i \in DOMAIN rx'[s], rx'[s][i].verdict = "ok"
      PROVE  rx'[s][i].cmd \in programmed'
  <2>1. rx[s] \in Seq(Datagram)
    BY DEF Shape, NetTypes
  <2>2. \A j \in DOMAIN rx[s] : rx[s][j].verdict = "ok" => rx[s][j].cmd \in programmed'
    BY <1>1 DEF OkIsProgrammed, Moves
  <2>3. CASE rx'[s] = rx[s] \/ rx'[s] = <<>>
    BY <1>2, <2>2, <2>3
  <2>4. CASE rx[s] # <<>> /\ rx'[s] = Tail(rx[s])
    BY <1>2, <2>1, <2>2, <2>4
  <2>5. ASSUME NEW d \in wire, NEW v \in {"ok", "nack", "sc"},
               rx'[s] = Append(rx[s], [cmd |-> d.cmd, verdict |-> v]),
               v = "ok" => d.cmd \in programmed'
        PROVE  rx'[s][i].cmd \in programmed'
    <3> DEFINE m == [cmd |-> d.cmd, verdict |-> v]
    <3>1. m \in Datagram
      BY DEF Shape, NetTypes, Datagram
    <3>2. m.verdict = "ok" => m.cmd \in programmed'
      BY <2>5
    <3> HIDE DEF m
    <3> QED BY <1>2, <2>1, <2>2, <2>5, <3>1, <3>2, Appended DEF m
  <2> QED BY <1>1, <2>3, <2>4, <2>5 DEF Moves, RxMoves
<1>3. ASSUME NEW o \in Ops, NEW i \in DOMAIN outcome'[o], req'[o].kind = "write",
             outcome'[o][i].verdict = "ok"
      PROVE  outcome'[o][i].cmd \in programmed'
  <2>1. outcome[o] \in Seq(Entry)
    BY BatchTypes
  <2>2. ASSUME NEW j \in DOMAIN outcome[o], outcome[o][j].verdict = "ok"
        PROVE  outcome[o][j].cmd \in programmed'
    <3>1. pc[o] # "idle"
      BY <2>2 DEF Entered
    <3>2. req[o].kind = "write"
      BY <1>3, <3>1, MadeStays
    <3> QED BY <1>1, <2>2, <3>2 DEF OkIsProgrammed, Moves
  <2>3. CASE outcome'[o] = outcome[o]
    BY <1>3, <2>2, <2>3
  <2>4. ASSUME NEW e \in Entry, Entering(o, e), outcome'[o] = Append(outcome[o], e)
        PROVE  outcome'[o][i].cmd \in programmed'
    <3>1. pc[o] \in Slotted
      BY <2>4 DEF Entering, Slotted
    <3>2. req[o].kind = "write"
      BY <1>3, <3>1, MadeStays DEF Slotted
    <3>3. e.verdict = "ok" => e.cmd \in programmed'
      <4>1. CASE pc[o] = "await" /\ rx[ses[o]] # <<>> /\ e = Head(rx[ses[o]])
        <5>1. ses[o] \in Ops /\ rx[ses[o]] \in Seq(Datagram)
          BY <4>1 DEF Shape, Holding, InSession, NetTypes
        <5>2. 1 \in DOMAIN rx[ses[o]] /\ e = rx[ses[o]][1]
          BY <4>1, <5>1
        <5> QED BY <1>1, <5>1, <5>2 DEF OkIsProgrammed, Moves
      <4> QED BY <2>4, <3>2, <4>1 DEF Entering
    <3> QED BY <1>3, <2>1, <2>2, <2>4, <3>3, Appended
  <2> QED BY <1>1, <2>3, <2>4 DEF Moves, OutMoves
<1> QED BY <1>2, <1>3 DEF OkIsProgrammed

-----------------------------------------------------------------------------
\* Initially nothing was asked, sent or entered.
LEMMA BatchInit ==
  Init => /\ Bodies /\ AllMade /\ Entered /\ Matched /\ Apart
          /\ Alone /\ Uncancelled /\ Unopened /\ Quiet /\ OwnVerdict /\ OkIsProgrammed
<1> SUFFICES ASSUME Init
             PROVE  /\ Bodies /\ AllMade /\ Entered /\ Matched /\ Apart
                    /\ Alone /\ Uncancelled /\ Unopened /\ Quiet /\ OwnVerdict
                    /\ OkIsProgrammed
  OBVIOUS
<1>1. /\ \A o \in Ops : outcome[o] = <<>> /\ rx[o] = <<>> /\ pc[o] = "idle"
      /\ \A o \in Ops : result[o] = "none" /\ ~cancelled[o] /\ timeouts[o] = 0
      /\ wire = {}
  BY DEF Init
<1>2. \A o \in Ops : Len(outcome[o]) = 0 /\ DOMAIN outcome[o] = {} /\ DOMAIN rx[o] = {}
  BY <1>1
<1>3. \A o \in Ops : req[o].cvs = <<>> /\ Len(req[o].cvs) = 0
  BY DEF Init
<1>4. Bodies /\ AllMade
  BY <1>1, <1>2 DEF Bodies, AllMade
<1>5. Entered
  BY <1>1, <1>2, <1>3 DEF Entered
<1>6. Matched /\ Apart /\ OwnVerdict /\ OkIsProgrammed
  BY <1>1, <1>2 DEF Matched, Apart, OwnVerdict, OkIsProgrammed
<1>7. Alone /\ Uncancelled
  BY <1>1 DEF Alone, Uncancelled, Active
<1>8. Unopened /\ Quiet
  BY <1>1 DEF Unopened, Quiet, Clean
<1> QED BY <1>4, <1>5, <1>6, <1>7, <1>8

\* What a batch has entered and how it ends, under every fault.
LEMMA BatchInvariant == Spec => []Batch
<1>1. Init => Batch
  BY ShapeInit, SafeInit, BatchInit DEF Batch
<1>2. Batch /\ [Next]_vars => Batch'
  BY ShapeStep, OpenedStep, HeldStep, BodiesStep, AllMadeStep, EnteredStep, MatchedStep, ApartStep
  DEF Batch
<1> QED BY <1>1, <1>2, PTL DEF Spec

\* A batch that returns Ok has one entry per requested CV, each "ok" one for
\* that CV, and never two timeouts in a row, whatever is lost, late or cut
\* (read_loop, write_cvs and await_result).
THEOREM BatchesAccounted == Spec => []BatchAccounted
<1>1. Batch => BatchAccounted
  <2> SUFFICES ASSUME Shape, Entered, Matched, Apart, NEW o \in Ops, result[o] = "ok",
                      req[o].kind \in CvKinds
               PROVE  /\ Len(outcome[o]) = Len(req[o].cvs)
                      /\ \A i \in 1..Len(outcome[o]) :
                           /\ outcome[o][i].verdict = "ok" =>
                                 CvOf(outcome[o][i].cmd) = req[o].cvs[i]
                           /\ i > 1 => ~( /\ outcome[o][i].verdict = "timeout"
                                         /\ outcome[o][i - 1].verdict = "timeout" )
    BY DEF BatchAccounted, Batch
  <2>1. DOMAIN outcome[o] = 1..Len(outcome[o])
    BY BatchTypes
  <2>2. Len(outcome[o]) = Len(req[o].cvs)
    BY DEF Entered
  <2> QED BY <2>1, <2>2 DEF Matched, Apart, TimedOut
<1> QED BY <1>1, BatchInvariant, PTL

\* No answer is on its way but the one being waited for.
LEMMA OwnInvariant ==
  ASSUME Patient
  PROVE  Spec => []Own
<1>1. Init => Own
  BY BatchInit DEF Own
<1>2. Batch /\ Own /\ [Next]_vars => Own'
  <2> SUFFICES ASSUME Batch, Own, [Next]_vars PROVE Own'
    OBVIOUS
  <2> USE DEF Batch, Own
  <2>1. Quiet'
    BY QuietStep
  <2>2. OwnVerdict'
    BY OwnStep
  <2> QED BY <2>1, <2>2, AloneStep, UncancelledStep, UnopenedStep
<1> QED BY <1>1, <1>2, BatchInvariant, PTL DEF Spec

\* The verdict of each CV is the station's verdict on the very command sent for
\* it, when no answer comes after its deadline and no connection closes on a
\* call (drain, await_result, and the session dropped by a broken batch).
THEOREM VerdictsAreOwn ==
  ASSUME Patient
  PROVE  Spec => []OwnVerdict
<1>1. Own => OwnVerdict
  BY DEF Own
<1> QED BY <1>1, OwnInvariant, PTL

\* Under the same condition a CV that a write batch reports as written has
\* been programmed by that write (write_cvs).
THEOREM ReportedWritesProgrammed ==
  ASSUME Patient
  PROVE  Spec => []ConfirmedWritesProgrammed
<1>1. Init => OkIsProgrammed
  BY BatchInit
<1>2. Batch /\ OkIsProgrammed /\ [Next]_vars => OkIsProgrammed'
  <2> SUFFICES ASSUME Batch, OkIsProgrammed, [Next]_vars PROVE OkIsProgrammed'
    OBVIOUS
  <2> QED BY ProgrammedStep DEF Batch
<1>3. Batch /\ Own /\ OkIsProgrammed => ConfirmedWritesProgrammed
  <2> SUFFICES ASSUME Shape, OwnVerdict, OkIsProgrammed, NEW o \in Ops,
                      NEW i \in 1..Len(outcome[o]), req[o].kind = "write",
                      outcome[o][i].verdict = "ok"
               PROVE  \E c \in programmed : c.op = o /\ c.idx = i
    BY DEF ConfirmedWritesProgrammed, Batch, Own
  <2>1. i \in DOMAIN outcome[o]
    BY BatchTypes
  <2>2. outcome[o][i].cmd \in programmed
    BY <2>1 DEF OkIsProgrammed
  <2>3. outcome[o][i].cmd.op = o /\ outcome[o][i].cmd.idx = i
    BY DEF OwnVerdict
  <2> QED BY <2>2, <2>3
<1> QED BY <1>1, <1>2, <1>3, BatchInvariant, OwnInvariant, PTL DEF Spec

-----------------------------------------------------------------------------
(* Z21Bus implements BusCalls.  The abstract bus has one thing on its way per *)
(* batch, for the CV the batch is at, and settles a CV only when nothing is:  *)
(* that is what Asking says of commands.  Its second timeout ends the batch   *)
(* because Counting ties the counter to the entries, and what it reports as   *)
(* done has been carried out because of Quiet and OkIsProgrammed.             *)
\* A command on its way is the current one of its call, which waits for the answer
\* or has given it up.
Asking ==
  \A d \in wire :
    /\ pc[d.cmd.op] \in {"await"} \cup Over
    /\ d.ses = ses[d.cmd.op] /\ d.cmd = CurrentCommand(d.cmd.op)

\* A batch counts the timeout it has entered last, and enters nothing before it has
\* a session.
Counting ==
  \A o \in Ops :
    /\ timeouts[o] # 0 => outcome[o] # <<>> /\ TimedOut(o, Len(outcome[o]))
    /\ pc[o] \in Before => outcome[o] = <<>>

\* No command of the call is on its way.
Silent(o) == \A d \in wire : d.cmd.op # o

\* Before it sends, when its answer is in the socket, and when its deadline has
\* passed, a call has no command on its way.
LEMMA SilentSaid ==
  ASSUME Asking, NEW o \in Ops
  PROVE  /\ pc[o] \notin {"await"} \cup Over => Silent(o)
         /\ ~Answerable(o) => Silent(o)
BY DEF Asking, Silent, Answerable

LEMMA SilentAnswered ==
  ASSUME Shape, Asking, Quiet, NEW o \in Ops, pc[o] = "await", rx[ses[o]] # <<>>
  PROVE  Silent(o)
<1>1. ses[o] \in Ops
  BY DEF Shape, Holding, InSession
<1>2. Trusted(ses[o])
  BY DEF Trusted, Active, Ended
<1>3. \A d \in wire : d.ses # ses[o]
  BY <1>1, <1>2 DEF Quiet, Clean
<1> QED BY <1>3 DEF Asking, Silent

\* What is on its way stays so when nothing is sent and its calls stand still.
LEMMA KeepAsking ==
  ASSUME Shape, Asking, wire' \subseteq wire,
         \A o \in Ops : Silent(o)' \/
           /\ pc[o] \in {"await"} \cup Over => pc'[o] \in {"await"} \cup Over
           /\ pc[o] \in {"await"} \cup Over =>
                ses'[o] = ses[o] /\ outcome'[o] = outcome[o] /\ attempt'[o] = attempt[o]
  PROVE  Asking'
<1> SUFFICES ASSUME NEW d \in wire'
             PROVE  /\ pc'[d.cmd.op] \in {"await"} \cup Over
                    /\ d.ses = ses'[d.cmd.op] /\ d.cmd = CurrentCommand(d.cmd.op)'
  BY DEF Asking
<1>1. d.cmd.op \in Ops
  BY DEF Shape, NetTypes, Command
<1>2. ~Silent(d.cmd.op)'
  BY DEF Silent
<1>3. /\ pc[d.cmd.op] \in {"await"} \cup Over
      /\ d.ses = ses[d.cmd.op] /\ d.cmd = CurrentCommand(d.cmd.op)
  BY DEF Asking
<1> QED BY <1>1, <1>2, <1>3 DEF CurrentCommand, Index

\* A command goes out only from "send", and its call stands still until it has been
\* answered or its deadline has passed, which it does not before an answer has.
LEMMA AskingStep ==
  ASSUME Patient, Shape, Asking, Quiet, [Next]_vars
  PROVE  Asking'
<1> USE ConstantsOK DEF Over, Ended
<1>a. pc \in [Ops -> Places] /\ "late" \notin Faults /\ "close" \notin Faults
  BY DEF Shape, CallTypes, Patient
<1>b. \A o \in Ops : Silent(o) /\ wire' \subseteq wire => Silent(o)'
  BY DEF Silent
<1>0. ASSUME UNCHANGED <<ses, attempt, outcome>>, wire' \subseteq wire,
             \A o \in Ops : pc[o] \in {"await"} \cup Over => pc'[o] \in {"await"} \cup Over
      PROVE  Asking'
  BY <1>0, KeepAsking
<1>1. ASSUME NEW p \in Ops, Start(p) PROVE Asking'
  BY <1>a, <1>0, <1>1 DEF Start, Goto, netVars, loopVars
<1>2. ASSUME NEW p \in Ops, LockInner(p) PROVE Asking'
  BY <1>a, <1>0, <1>2 DEF LockInner, Goto, Return, netVars, loopVars, reqVars
<1>3. ASSUME NEW p \in Ops, ReadConfig(p) PROVE Asking'
  BY <1>a, <1>0, <1>3 DEF ReadConfig, Goto, Return, netVars, loopVars
<1>4. ASSUME NEW p \in Ops, ReadGeneration(p) PROVE Asking'
  <2>1. /\ \A o \in Ops \ {p} : pc'[o] = pc[o] /\ ses'[o] = ses[o]
        /\ UNCHANGED <<wire, attempt, outcome>> /\ pc[p] = "gen"
    BY <1>a, <1>4 DEF ReadGeneration, Goto, netVars, loopVars, Shape, LockTypes
  <2> QED BY <2>1, KeepAsking
<1>5. ASSUME NEW p \in Ops, Connect(p) PROVE Asking'
  <2>1. /\ \A o \in Ops \ {p} : pc'[o] = pc[o] /\ ses'[o] = ses[o]
        /\ UNCHANGED <<wire, attempt, outcome>> /\ pc[p] = "connect"
    BY <1>a, <1>5 DEF Connect, Goto, Return, netVars, loopVars, Shape, LockTypes
  <2> QED BY <2>1, KeepAsking
<1>6. ASSUME NEW p \in Ops, NextCv(p) PROVE Asking'
  <2>1. /\ \A o \in Ops \ {p} : pc'[o] = pc[o] /\ attempt'[o] = attempt[o]
        /\ UNCHANGED <<wire, ses, outcome>> /\ pc[p] = "top"
    BY <1>a, <1>6 DEF NextCv, Goto, Return, netVars, reqVars, Shape, LoopTypes
  <2> QED BY <2>1, KeepAsking
<1>7. ASSUME NEW p \in Ops, Settle(p) PROVE Asking'
  BY <1>a, <1>0, <1>7 DEF Settle, Goto, Return, netVars, loopVars, reqVars
<1>8. ASSUME NEW p \in Ops, TakeSlot(p) PROVE Asking'
  BY <1>a, <1>0, <1>8 DEF TakeSlot, Goto, netVars, loopVars, reqVars
<1>9. ASSUME NEW p \in Ops, Send(p) PROVE Asking'
  <2> DEFINE new == [ses |-> ses[p], cmd |-> CurrentCommand(p)]
  <2>1. /\ wire' = wire \cup {new} /\ pc[p] = "send" /\ pc'[p] \in {"await", "drop"}
        /\ \A o \in Ops \ {p} : pc'[o] = pc[o]
        /\ UNCHANGED <<ses, attempt, outcome>>
    BY <1>a, <1>9 DEF Send, Goto, DropWith, reqVars, loopVars
  <2>2. \A o : CurrentCommand(o)' = CurrentCommand(o)
    BY <2>1 DEF CurrentCommand, Index
  <2>3. new.cmd.op = p /\ new.ses = ses[p] /\ new.cmd = CurrentCommand(p)
    BY DEF CurrentCommand
  <2>4. \A d \in wire : d.cmd.op \in Ops
    BY DEF Shape, NetTypes, Command
  <2> HIDE DEF new
  <2> QED BY <2>1, <2>2, <2>3, <2>4 DEF Asking
<1>10. ASSUME NEW p \in Ops, SendUnacknowledged(p) PROVE Asking'
  <2>1. /\ \A o \in Ops \ {p} : /\ pc'[o] = pc[o] /\ attempt'[o] = attempt[o]
                                /\ outcome'[o] = outcome[o]
        /\ UNCHANGED <<wire, ses>> /\ pc[p] = "send"
    BY <1>a, <1>10
    DEF SendUnacknowledged, Decide, Goto, Return, netVars, reqVars, loopVars, Shape, LoopTypes,
        OutTypes
  <2> QED BY <2>1, KeepAsking
<1>11. ASSUME NEW p \in Ops, CancelUnacknowledged(p) PROVE Asking'
  BY <1>a, <1>0, <1>11 DEF CancelUnacknowledged, Goto, Return, DropWith, netVars, loopVars, reqVars
<1>12. ASSUME NEW p \in Ops, Receive(p) PROVE Asking'
  <2>1. Silent(p)
    BY <1>12, SilentAnswered DEF Receive
  <2>2. /\ \A o \in Ops \ {p} : /\ pc'[o] = pc[o] /\ attempt'[o] = attempt[o]
                                /\ outcome'[o] = outcome[o]
        /\ UNCHANGED <<wire, ses>>
    BY <1>a, <1>12
    DEF Receive, Decide, Goto, DropWith, netVars, reqVars, loopVars, Shape, LoopTypes, OutTypes
  <2> QED BY <1>b, <2>1, <2>2, KeepAsking
<1>13. ASSUME NEW p \in Ops, Timeout(p) PROVE Asking'
  <2>1. Silent(p)
    BY <1>a, <1>13, SilentSaid DEF Timeout
  <2>2. /\ \A o \in Ops \ {p} : /\ pc'[o] = pc[o] /\ attempt'[o] = attempt[o]
                                /\ outcome'[o] = outcome[o]
        /\ UNCHANGED <<wire, ses>>
    BY <1>a, <1>13
    DEF Timeout, Goto, DropWith, netVars, reqVars, loopVars, Shape, LoopTypes, OutTypes
  <2> QED BY <1>b, <2>1, <2>2, KeepAsking
<1>14. ASSUME NEW p \in Ops, CancelAwait(p) PROVE Asking'
  BY <1>a, <1>0, <1>14 DEF CancelAwait, Goto, DropWith, netVars, loopVars, reqVars
<1>15. ASSUME NEW p \in Ops, SocketError(p) PROVE Asking'
  BY <1>a, <1>0, <1>15 DEF SocketError, Goto, Return, DropWith, netVars, loopVars, reqVars
<1>16. ASSUME NEW p \in Ops, DropSession(p) PROVE Asking'
  BY <1>a, <1>0, <1>16 DEF DropSession, Goto, netVars, loopVars, reqVars
<1>17. ASSUME NEW p \in Ops, Observe(p) PROVE Asking'
  BY <1>a, <1>0, <1>17 DEF Observe, Goto, Return, netVars, loopVars, reqVars
<1>18. ASSUME NEW p \in Ops, Close(p) PROVE FALSE
  BY <1>a, <1>18 DEF Close
<1>19. CASE \/ (\E p \in Ops : Cancel(p)) \/ WriteConfig \/ DropZ21 \/ Station \/ Lose
           \/ UNCHANGED vars
  BY <1>0, <1>19
  DEF Cancel, WriteConfig, DropZ21, Station, Lose, vars, netVars, reqVars, loopVars
<1> QED BY <1>1, <1>2, <1>3, <1>4, <1>5, <1>6, <1>7, <1>8, <1>9, <1>10, <1>11,
           <1>12, <1>13, <1>14, <1>15, <1>16, <1>17, <1>18, <1>19 DEF Next, Step,
           Terminated

\* What was appended is the last.
LEMMA LastAppended ==
  ASSUME NEW S, NEW q \in Seq(S), NEW e \in S
  PROVE  /\ Append(q, e) # <<>> /\ Len(Append(q, e)) = Len(q) + 1
         /\ Append(q, e)[Len(q) + 1] = e /\ Append(q, e)[Len(Append(q, e))] = e
         /\ \A i \in DOMAIN q : Append(q, e)[i] = q[i]
OBVIOUS

\* A counted timeout is the entry just made.
LEMMA CountingStep == Shape /\ Counting /\ [Next]_vars => Counting'
<1> SUFFICES ASSUME Shape, Counting, [Next]_vars PROVE Counting'
  OBVIOUS
<1> USE ConstantsOK DEF Before
<1>a. /\ pc \in [Ops -> Places] /\ outcome \in [Ops -> Seq(Entry)]
      /\ timeouts \in [Ops -> 0..2]
  BY DEF Shape, CallTypes, OutTypes, LoopTypes
<1>0. ASSUME UNCHANGED <<timeouts, outcome>>, \A o \in Ops : pc'[o] \in Before => pc[o] \in Before
      PROVE  Counting'
  BY <1>0 DEF Counting, TimedOut
<1>1. ASSUME NEW p \in Ops, Start(p) PROVE Counting'
  BY <1>a, <1>0, <1>1 DEF Start, Goto, loopVars
<1>2. ASSUME NEW p \in Ops, LockInner(p) PROVE Counting'
  BY <1>a, <1>0, <1>2 DEF LockInner, Goto, Return, loopVars
<1>3. ASSUME NEW p \in Ops, ReadConfig(p) PROVE Counting'
  BY <1>a, <1>0, <1>3 DEF ReadConfig, Goto, Return, loopVars
<1>4. ASSUME NEW p \in Ops, ReadGeneration(p) PROVE Counting'
  BY <1>a, <1>0, <1>4 DEF ReadGeneration, Goto, Body, loopVars
<1>5. ASSUME NEW p \in Ops, Connect(p) PROVE Counting'
  BY <1>a, <1>0, <1>5 DEF Connect, Goto, Return, Body, loopVars
<1>6. ASSUME NEW p \in Ops, NextCv(p) PROVE Counting'
  BY <1>a, <1>0, <1>6 DEF NextCv, Goto, Return
<1>7. ASSUME NEW p \in Ops, Settle(p) PROVE Counting'
  BY <1>a, <1>0, <1>7 DEF Settle, Goto, Return, loopVars
<1>8. ASSUME NEW p \in Ops, TakeSlot(p) PROVE Counting'
  BY <1>a, <1>0, <1>8 DEF TakeSlot, Goto, loopVars
<1>9. ASSUME NEW p \in Ops, Send(p) PROVE Counting'
  BY <1>a, <1>0, <1>9 DEF Send, Goto, DropWith, loopVars
<1>d. ASSUME NEW p \in Ops, NEW v, NEW c, Decide(p, v, c)
      PROVE  Counting'
  BY <1>a, <1>d DEF Decide, Goto, Counting, TimedOut
<1>10. ASSUME NEW p \in Ops, SendUnacknowledged(p) PROVE Counting'
  BY <1>a, <1>0, <1>d, <1>10 DEF SendUnacknowledged, Goto, Return, loopVars
<1>11. ASSUME NEW p \in Ops, CancelUnacknowledged(p) PROVE Counting'
  BY <1>a, <1>0, <1>11 DEF CancelUnacknowledged, Goto, Return, DropWith, loopVars
<1>12. ASSUME NEW p \in Ops, Receive(p) PROVE Counting'
  BY <1>a, <1>0, <1>d, <1>12 DEF Receive, Goto, DropWith, loopVars
<1>13. ASSUME NEW p \in Ops, Timeout(p) PROVE Counting'
  <2>1. CASE ~LastTry(p)
    BY <1>a, <1>0, <1>13, <2>1 DEF Timeout, Goto
  <2>2. CASE LastTry(p)
    <3> DEFINE e == [cmd |-> CurrentCommand(p), verdict |-> "timeout"]
    <3>1. /\ outcome' = [outcome EXCEPT ![p] = Append(@, e)]
          /\ \A o \in Ops \ {p} : timeouts'[o] = timeouts[o] /\ pc'[o] = pc[o]
          /\ pc'[p] \in {"drop", "top"}
      BY <1>a, <1>13, <2>2 DEF Timeout, Goto, DropWith
    <3>2. e \in Entry /\ e.verdict = "timeout"
      BY CommandType, TypeOfShape DEF Entry
    <3> HIDE DEF e
    <3>3. \A o \in Ops \ {p} : outcome'[o] = outcome[o]
      BY <1>a, <3>1
    <3>4. outcome'[p] = Append(outcome[p], e) /\ outcome[p] \in Seq(Entry)
      BY <1>a, <3>1
    <3>5. outcome'[p] # <<>> /\ outcome'[p][Len(outcome'[p])] = e
      BY <3>2, <3>4, LastAppended
    <3> QED BY <3>1, <3>2, <3>3, <3>5 DEF Counting, TimedOut
  <2> QED BY <2>1, <2>2
<1>14. ASSUME NEW p \in Ops, CancelAwait(p) PROVE Counting'
  BY <1>a, <1>0, <1>14 DEF CancelAwait, Goto, DropWith, loopVars
<1>15. ASSUME NEW p \in Ops, SocketError(p) PROVE Counting'
  BY <1>a, <1>0, <1>15 DEF SocketError, Goto, Return, DropWith, loopVars
<1>16. ASSUME NEW p \in Ops, DropSession(p) PROVE Counting'
  BY <1>a, <1>0, <1>16 DEF DropSession, Goto, loopVars
<1>17. ASSUME NEW p \in Ops, Observe(p) PROVE Counting'
  BY <1>a, <1>0, <1>17 DEF Observe, Goto, Return, loopVars
<1>18. ASSUME NEW p \in Ops, Close(p) PROVE Counting'
  BY <1>a, <1>0, <1>18 DEF Close, Goto, loopVars
<1>19. CASE \/ (\E p \in Ops : Cancel(p)) \/ WriteConfig \/ DropZ21 \/ Station \/ Lose
           \/ UNCHANGED vars
  BY <1>0, <1>19 DEF Cancel, WriteConfig, DropZ21, Station, Lose, vars, loopVars
<1> QED BY <1>1, <1>2, <1>3, <1>4, <1>5, <1>6, <1>7, <1>8, <1>9, <1>10, <1>11,
           <1>12, <1>13, <1>14, <1>15, <1>16, <1>17, <1>18, <1>19 DEF Next, Step,
           Terminated

\* What a connection sees of the calls other than p stays.
Elsewhere(p) ==
  \A o \in Ops \ {p} :
    StageOf(o)' = StageOf(o) /\ ToldOf(o)' = ToldOf(o) /\ SentOf(o)' = SentOf(o)

\* The verdicts, one by one.
LEMMA ToldIs ==
  ASSUME Shape, NEW o \in Ops
  PROVE  /\ ToldOf(o) \in Seq({"ok", "nack", "timeout"})
         /\ Len(ToldOf(o)) = Len(outcome[o]) /\ (ToldOf(o) = <<>> <=> outcome[o] = <<>>)
         /\ outcome[o] # <<>> =>
              (ToldOf(o)[Len(ToldOf(o))] = "timeout" <=> TimedOut(o, Len(outcome[o])))
<1> DEFINE n == Len(outcome[o])
<1>1. outcome[o] \in Seq(Entry) /\ n \in Nat /\ DOMAIN outcome[o] = 1..n
  BY BatchTypes
<1>2. \A i \in 1..n : outcome[o][i].verdict \in {"ok", "nack", "timeout"}
  <2>1. \A i \in 1..n : outcome[o][i] \in Entry
    BY <1>1
  <2> QED BY <2>1 DEF Entry
<1>3. ToldOf(o) = [i \in 1..n |-> outcome[o][i].verdict]
  BY <1>1 DEF ToldOf
<1> HIDE DEF n
<1>4. ToldOf(o) \in Seq({"ok", "nack", "timeout"}) /\ Len(ToldOf(o)) = n
  BY <1>1, <1>2, <1>3
<1>5. outcome[o] = <<>> <=> n = 0
  BY <1>1 DEF n
<1>6. ToldOf(o) = <<>> <=> n = 0
  BY <1>1, <1>4
<1>7. n # 0 => ToldOf(o)[n] = outcome[o][n].verdict
  BY <1>1, <1>3
<1> QED BY <1>4, <1>5, <1>6, <1>7 DEF TimedOut, n

\* An entry adds its verdict.
LEMMA ToldMore ==
  ASSUME Shape, NEW o \in Ops, NEW e \in Entry, outcome'[o] = Append(outcome[o], e)
  PROVE  ToldOf(o)' = Append(ToldOf(o), e.verdict)
<1> DEFINE n == Len(outcome[o])
           q == outcome[o]
<1>0. n \in Nat
  BY BatchTypes
<1>1. q \in Seq(Entry) /\ DOMAIN q = 1..n
  BY BatchTypes
<1>2. /\ DOMAIN Append(q, e) = 1..(n + 1)
      /\ \A i \in 1..n : Append(q, e)[i] = q[i]
      /\ Append(q, e)[n + 1] = e
  BY <1>0, <1>1
<1>3. ToldOf(o)' = [i \in 1..(n + 1) |-> Append(q, e)[i].verdict]
  BY <1>2 DEF ToldOf
<1>4. ToldOf(o) = [i \in 1..n |-> q[i].verdict]
  BY <1>1 DEF ToldOf
<1>5. ToldOf(o) \in Seq({"ok", "nack", "timeout"}) /\ Len(ToldOf(o)) = n
  BY ToldIs
<1>6. e.verdict \in {"ok", "nack", "timeout"}
  BY DEF Entry
<1> HIDE DEF n, q
<1>7. /\ DOMAIN Append(ToldOf(o), e.verdict) = 1..(n + 1)
      /\ \A i \in 1..n : Append(ToldOf(o), e.verdict)[i] = ToldOf(o)[i]
      /\ Append(ToldOf(o), e.verdict)[n + 1] = e.verdict
      /\ Append(ToldOf(o), e.verdict) = [i \in 1..(n + 1) |-> Append(ToldOf(o), e.verdict)[i]]
  BY <1>0, <1>1, <1>5, <1>6
<1>8. \A i \in 1..(n + 1) : Append(ToldOf(o), e.verdict)[i] = Append(q, e)[i].verdict
  <2> TAKE i \in 1..(n + 1)
  <2>1. CASE i \in 1..n
    BY <1>2, <1>4, <1>7, <2>1
  <2>2. CASE i = n + 1
    BY <1>2, <1>7, <2>2
  <2>3. i \in 1..n \/ i = n + 1
    BY <1>0
  <2> QED BY <2>1, <2>2, <2>3
<1> QED BY <1>3, <1>7, <1>8

\* The functions a connection sees when only call p moves.
LEMMA OneMoves ==
  ASSUME NEW p \in Ops, Elsewhere(p)
  PROVE  /\ [o \in Ops |-> StageOf(o)]' = [[o \in Ops |-> StageOf(o)] EXCEPT ![p] = StageOf(p)']
         /\ [o \in Ops |-> ToldOf(o)]' = [[o \in Ops |-> ToldOf(o)] EXCEPT ![p] = ToldOf(p)']
         /\ [o \in Ops |-> SentOf(o)]' = [[o \in Ops |-> SentOf(o)] EXCEPT ![p] = SentOf(p)']
BY DEF Elsewhere

LEMMA NothingMoves ==
  ASSUME NEW p \in Ops, Elsewhere(p)
  PROVE  /\ StageOf(p)' = StageOf(p) =>
              [o \in Ops |-> StageOf(o)]' = [o \in Ops |-> StageOf(o)]
         /\ ToldOf(p)' = ToldOf(p) => [o \in Ops |-> ToldOf(o)]' = [o \in Ops |-> ToldOf(o)]
         /\ SentOf(p)' = SentOf(p) => [o \in Ops |-> SentOf(o)]' = [o \in Ops |-> SentOf(o)]
BY DEF Elsewhere

\* Nothing a connection sees moves.
LEMMA SeenStutter ==
  ASSUME NEW p \in Ops, Elsewhere(p), StageOf(p)' = StageOf(p), ToldOf(p)' = ToldOf(p),
         SentOf(p)' = SentOf(p), UNCHANGED <<req, programmed, cancelled, result>>
  PROVE  UNCHANGED Bus!vars
BY NothingMoves DEF Bus!vars, CarriedOut

\* The call ends.
LEMMA SeenEnd ==
  ASSUME NEW p \in Ops, NEW code \in Bus!Codes, Elsewhere(p),
         StageOf(p) \in {"running", "stopping"}, StageOf(p)' = "ended",
         result' = [result EXCEPT ![p] = code], ToldOf(p)' = ToldOf(p), SentOf(p)' = SentOf(p),
         UNCHANGED <<req, programmed, cancelled>>,
         code = "ok" =>
           ~SentOf(p) /\ (req[p].kind \in CvKinds => Len(ToldOf(p)) + 1 > Len(req[p].cvs)),
         code = "cancelled" => cancelled[p],
         StageOf(p) = "stopping" => code \in {"ok", "cancelled"},
         Len(ToldOf(p)) \in Nat, Len(req[p].cvs) \in Nat
  PROVE  Bus!End(p, code)
<1>1. UNCHANGED CarriedOut
  BY DEF CarriedOut
<1>2. [o \in Ops |-> StageOf(o)]' = [[o \in Ops |-> StageOf(o)] EXCEPT ![p] = "ended"]
  BY OneMoves
<1>3. /\ [o \in Ops |-> ToldOf(o)]' = [o \in Ops |-> ToldOf(o)]
      /\ [o \in Ops |-> SentOf(o)]' = [o \in Ops |-> SentOf(o)]
  BY NothingMoves
<1>4. code = "ok" => ~[o \in Ops |-> SentOf(o)][p] /\ (Bus!Batch(p) => ~Bus!CvLeft(p))
  BY DEF Bus!Batch, Bus!CvLeft, Bus!At, CvKinds
<1> QED BY <1>1, <1>2, <1>3, <1>4 DEF Bus!End, Bus!Ends

\* This timeout follows another.
SecondInARow(p, verdict) ==
  verdict = "timeout" /\ outcome[p] # <<>> /\ TimedOut(p, Len(outcome[p]))

\* A CV of its batch is settled.
LEMMA SeenReport ==
  ASSUME Shape, NEW p \in Ops, NEW e \in Entry, Elsewhere(p), StageOf(p) = "running",
         req[p].kind \in CvKinds, Len(outcome[p]) < Len(req[p].cvs), Silent(p),
         UNCHANGED <<req, wire, programmed, cancelled>>,
         outcome'[p] = Append(outcome[p], e),
         e.verdict = "ok" /\ req[p].kind \in {"read", "write"} => <<p, Index(p)>> \in CarriedOut,
         \/ /\ SecondInARow(p, e.verdict) /\ StageOf(p)' = "ended"
            /\ result' = [result EXCEPT ![p] = "z21_unreachable"]
         \/ /\ ~SecondInARow(p, e.verdict) /\ UNCHANGED result
            /\ StageOf(p)' = IF cancelled[p] THEN "stopping" ELSE "running"
  PROVE  Bus!Report(p, e.verdict)
<1> DEFINE second == SecondInARow(p, e.verdict)
<1>1. UNCHANGED CarriedOut /\ UNCHANGED SentOf(p)
  BY DEF CarriedOut, SentOf
<1>2. [o \in Ops |-> StageOf(o)]' = [[o \in Ops |-> StageOf(o)] EXCEPT ![p] = StageOf(p)']
  BY OneMoves
<1>3. [o \in Ops |-> ToldOf(o)]' =
        [[o \in Ops |-> ToldOf(o)] EXCEPT ![p] = Append(@, e.verdict)]
  BY OneMoves, ToldMore
<1>4. [o \in Ops |-> SentOf(o)]' = [o \in Ops |-> SentOf(o)]
  BY <1>1, NothingMoves
<1>5. Bus!SecondTimeout(p, e.verdict) <=> second
  BY ToldIs DEF Bus!SecondTimeout, SecondInARow
<1>6. Bus!At(p) = Index(p)
  BY ToldIs DEF Bus!At, Index
<1>7. Bus!Batch(p) /\ Bus!CvLeft(p) /\ ~[o \in Ops |-> SentOf(o)][p]
  BY <1>6, BatchTypes DEF Bus!Batch, Bus!CvLeft, CvKinds, Index, Silent, SentOf
<1>8. e.verdict = "ok" /\ Bus!Acknowledged(p) => <<p, Bus!At(p)>> \in CarriedOut
  BY <1>6 DEF Bus!Acknowledged
<1>9. CASE second
  <2>1. Bus!Ends(p, "z21_unreachable")
    BY <1>2, <1>9 DEF Bus!Ends
  <2> HIDE DEF second
  <2> QED BY <1>1, <1>3, <1>4, <1>5, <1>7, <1>8, <1>9, <2>1 DEF Bus!Report
<1>10. CASE ~second
  <2>1. [o \in Ops |-> StageOf(o)]' =
          [[o \in Ops |-> StageOf(o)] EXCEPT ![p] = IF cancelled[p] THEN "stopping" ELSE @]
    BY <1>2, <1>10
  <2>2. UNCHANGED result
    BY <1>10
  <2> HIDE DEF second
  <2> QED BY <1>1, <1>3, <1>4, <1>5, <1>7, <1>8, <1>10, <2>1, <2>2 DEF Bus!Report
<1> QED BY <1>9, <1>10

\* Only call p moves, and nothing is sent or answered.
LEMMA SeenElsewhere ==
  ASSUME NEW p \in Ops, UNCHANGED wire,
         \A o \in Ops \ {p} :
           pc'[o] = pc[o] /\ cancelled'[o] = cancelled[o] /\ outcome'[o] = outcome[o]
  PROVE  Elsewhere(p) /\ SentOf(p)' = SentOf(p)
BY DEF Elsewhere, StageOf, ToldOf, SentOf

\* Call p goes from one place to another, and a connection sees nothing.
LEMMA SeenOnward ==
  ASSUME Shape, NEW p \in Ops, NEW place, pc' = [pc EXCEPT ![p] = place],
         UNCHANGED <<wire, outcome, cancelled, req, programmed, result>>,
         pc[p] \notin {"idle"} \cup Over, place \notin {"idle"} \cup Over,
         pc[p] = "top" \/ place = "top" => ~cancelled[p] \/ outcome[p] = <<>>
  PROVE  UNCHANGED Bus!vars
<1>1. pc \in [Ops -> Places]
  BY DEF Shape, CallTypes
<1>2. Elsewhere(p) /\ SentOf(p)' = SentOf(p)
  BY <1>1, SeenElsewhere
<1>3. StageOf(p)' = StageOf(p) /\ ToldOf(p)' = ToldOf(p)
  BY <1>1 DEF StageOf, ToldOf, Over, Ended
<1> QED BY <1>2, <1>3, SeenStutter

\* Every call looks as before.
LEMMA SeenNothing ==
  ASSUME UNCHANGED <<wire, outcome, cancelled, req, programmed, result>>,
         \A o \in Ops : StageOf(o)' = StageOf(o)
  PROVE  UNCHANGED Bus!vars
BY DEF Bus!vars, CarriedOut, ToldOf, SentOf

\* Call p returns with the code, or leaves its session first.
LEMMA SeenLeave ==
  ASSUME Shape, Asking, NEW p \in Ops, NEW place \in Over, NEW code \in Bus!Codes,
         pc' = [pc EXCEPT ![p] = place], result' = [result EXCEPT ![p] = code],
         UNCHANGED <<wire, outcome, cancelled, req, programmed>>,
         pc[p] \notin {"idle"} \cup Over,
         code = "ok" =>
           pc[p] # "await" /\ (req[p].kind \in CvKinds => Len(outcome[p]) >= Len(req[p].cvs)),
         code = "cancelled" => cancelled[p],
         pc[p] = "top" /\ cancelled[p] => code \in {"ok", "cancelled"}
  PROVE  \E o \in Ops : Bus!End(o, code)
<1>1. pc \in [Ops -> Places]
  BY DEF Shape, CallTypes
<1>2. Elsewhere(p) /\ SentOf(p)' = SentOf(p)
  BY <1>1, SeenElsewhere
<1>3. /\ StageOf(p) \in {"running", "stopping"} /\ StageOf(p)' = "ended"
      /\ ToldOf(p)' = ToldOf(p)
      /\ StageOf(p) = "stopping" => pc[p] = "top" /\ cancelled[p]
  BY <1>1 DEF StageOf, ToldOf, Over, Ended
<1>4. Len(ToldOf(p)) = Len(outcome[p]) /\ Len(outcome[p]) \in Nat /\ Len(req[p].cvs) \in Nat
  BY BatchTypes, ToldIs
<1>5. pc[p] # "await" => ~SentOf(p)
  BY SilentSaid DEF Silent, SentOf
<1>6. code = "ok" =>
        ~SentOf(p) /\ (req[p].kind \in CvKinds => Len(ToldOf(p)) + 1 > Len(req[p].cvs))
  BY <1>4, <1>5
<1>7. Bus!End(p, code)
  BY <1>2, <1>3, <1>4, <1>6, SeenEnd
<1> QED BY <1>7

\* Call p enters the verdict on a CV: an answer, a timeout or packets sent.
EntersAt(p, e, place) ==
  /\ pc' = [pc EXCEPT ![p] = place]
  /\ outcome' = [outcome EXCEPT ![p] = Append(@, e)]
  /\ UNCHANGED <<wire, cancelled, req, programmed>>
  /\ \/ /\ SecondInARow(p, e.verdict) /\ place = "drop"
        /\ result' = [result EXCEPT ![p] = "z21_unreachable"]
     \/ ~SecondInARow(p, e.verdict) /\ place = "top" /\ UNCHANGED result

LEMMA SeenEntry ==
  ASSUME Shape, Entered, NEW p \in Ops, NEW e \in Entry, NEW place, EntersAt(p, e, place),
         pc[p] \in {"send", "await"}, req[p].kind \in CvKinds, Silent(p),
         e.verdict = "ok" /\ req[p].kind \in {"read", "write"} => <<p, Index(p)>> \in CarriedOut
  PROVE  \E o \in Ops : Bus!Report(o, e.verdict)
<1> USE DEF EntersAt
<1> DEFINE second == SecondInARow(p, e.verdict)
<1>1. pc \in [Ops -> Places] /\ outcome \in [Ops -> Seq(Entry)]
  BY DEF Shape, CallTypes, OutTypes
<1>2. Elsewhere(p)
  BY <1>1, SeenElsewhere
<1>3. outcome'[p] = Append(outcome[p], e) /\ outcome'[p] # <<>>
  BY <1>1
<1>4. StageOf(p) = "running"
  BY DEF StageOf, Ended
<1>5. Len(outcome[p]) < Len(req[p].cvs)
  BY DEF Entered
<1>6. pc'[p] = place /\ cancelled' = cancelled
  BY <1>1
<1>7. place = "drop" => StageOf(p)' = "ended"
  BY <1>6 DEF StageOf, Ended
<1>8. place = "top" => StageOf(p)' = IF cancelled[p] THEN "stopping" ELSE "running"
  BY <1>3, <1>6 DEF StageOf, Ended
<1>9. \/ second /\ StageOf(p)' = "ended" /\ result' = [result EXCEPT ![p] = "z21_unreachable"]
      \/ /\ ~second /\ UNCHANGED result
         /\ StageOf(p)' = IF cancelled[p] THEN "stopping" ELSE "running"
  BY <1>7, <1>8
<1>10. Bus!Report(p, e.verdict)
  BY <1>2, <1>3, <1>4, <1>5, <1>9, SeenReport
<1> QED BY <1>10

\* What the steps rest on.
Serving ==
  Shape /\ Held /\ Bodies /\ Entered /\ Apart /\ Quiet /\ Asking /\ Counting /\ OkIsProgrammed

\* A connection sees a step of the abstract bus, or nothing.
SeenAs == Bus!Next \/ UNCHANGED Bus!vars

\* A step of the abstract bus, whichever call and code it is about.
LEMMA BusSteps ==
  ASSUME NEW p \in Ops
  PROVE  /\ Bus!Begin(p) => SeenAs
         /\ Bus!Send(p) => SeenAs
         /\ Bus!Arrive(p) => SeenAs
         /\ Bus!Cancel(p) => SeenAs
BY DEF SeenAs, Bus!Next

LEMMA BusEnds ==
  ASSUME NEW code \in Bus!Codes, \E o \in Ops : Bus!End(o, code)
  PROVE  SeenAs
BY DEF SeenAs, Bus!Next

LEMMA BusReports ==
  ASSUME NEW verdict \in {"ok", "nack", "timeout"}, \E o \in Ops : Bus!Report(o, verdict)
  PROVE  SeenAs
BY DEF SeenAs, Bus!Next, Bus!Verdicts

\* The same, as steps of the abstract bus.
LEMMA LeaveSeen ==
  ASSUME Shape, Asking, NEW p \in Ops, NEW place \in Over, NEW code \in Bus!Codes,
         pc' = [pc EXCEPT ![p] = place], result' = [result EXCEPT ![p] = code],
         UNCHANGED <<wire, outcome, cancelled, req, programmed>>,
         pc[p] \notin {"idle"} \cup Over,
         code = "ok" =>
           pc[p] # "await" /\ (req[p].kind \in CvKinds => Len(outcome[p]) >= Len(req[p].cvs)),
         code = "cancelled" => cancelled[p],
         pc[p] = "top" /\ cancelled[p] => code \in {"ok", "cancelled"}
  PROVE  SeenAs
BY SeenLeave, BusEnds

LEMMA OnwardSeen ==
  ASSUME Shape, NEW p \in Ops, NEW place, pc' = [pc EXCEPT ![p] = place],
         UNCHANGED <<wire, outcome, cancelled, req, programmed, result>>,
         pc[p] \notin {"idle"} \cup Over, place \notin {"idle"} \cup Over,
         pc[p] = "top" \/ place = "top" => ~cancelled[p] \/ outcome[p] = <<>>
  PROVE  SeenAs
BY SeenOnward DEF SeenAs

\* Getting a session.
LEMMA SessionSeen ==
  ASSUME Serving, NEW p \in Ops,
         LockInner(p) \/ ReadConfig(p) \/ ReadGeneration(p) \/ Connect(p)
  PROVE  SeenAs
<1> USE DEF Serving
<1>1. UNCHANGED <<wire, outcome, cancelled, req, programmed>> /\ pc[p] \in Before \ {"idle"}
  BY DEF LockInner, ReadConfig, ReadGeneration, Connect, netVars, loopVars, reqVars, Before
<1>2. outcome[p] = <<>> /\ pc[p] \notin {"idle", "top", "await"} \cup Over
  BY <1>1 DEF Counting, Before, Over, Ended
<1>3. ASSUME NEW place \in {"cfg", "gen", "connect", "slot", "observe", "top"}, Goto(p, place),
             UNCHANGED result
      PROVE  SeenAs
  BY <1>1, <1>2, <1>3, OnwardSeen DEF Goto, Over, Ended
<1>4. ASSUME NEW code \in Bus!Codes \ {"ok"}, Return(p, code), code = "cancelled" => cancelled[p]
      PROVE  SeenAs
  BY <1>1, <1>2, <1>4, LeaveSeen DEF Return, Goto, Over, Ended
<1>5. Body(p) \in {"slot", "observe", "top"}
  BY DEF Body
<1>6. CASE LockInner(p)
  BY <1>3, <1>4, <1>6 DEF LockInner, Bus!Codes
<1>7. CASE ReadConfig(p)
  BY <1>3, <1>4, <1>7 DEF ReadConfig, Bus!Codes
<1>8. CASE ReadGeneration(p)
  BY <1>3, <1>5, <1>8 DEF ReadGeneration
<1>9. CASE Connect(p)
  BY <1>3, <1>4, <1>5, <1>9 DEF Connect, Bus!Codes
<1> QED BY <1>6, <1>7, <1>8, <1>9

\* Between two CVs.
LEMMA LoopSeen ==
  ASSUME Serving, NEW p \in Ops, NextCv(p) \/ Settle(p) \/ TakeSlot(p)
  PROVE  SeenAs
<1> USE DEF Serving
<1>1. /\ UNCHANGED <<wire, outcome, cancelled, req, programmed>>
      /\ pc[p] \notin {"idle", "await"} \cup Over
  BY DEF NextCv, Settle, TakeSlot, netVars, loopVars, reqVars, Over, Ended
<1>2. CASE NextCv(p)
  <2>1. pc[p] = "top" /\ req[p].kind \in CvKinds
    BY <1>2 DEF NextCv, Bodies
  <2>2. CASE Refusal(p) = "none"
    <3>1. ~cancelled[p]
      BY <2>2 DEF Refusal
    <3>2. PICK place \in {"settle", "slot"} : pc' = [pc EXCEPT ![p] = place] /\ UNCHANGED result
      BY <1>2, <2>2 DEF NextCv, Goto
    <3> QED BY <1>1, <3>1, <3>2, OnwardSeen DEF Over, Ended
  <2>3. CASE Refusal(p) # "none"
    <3> DEFINE code == Refusal(p)
    <3>a. cancelled[p] \in BOOLEAN
      BY DEF Shape, FlagTypes
    <3>0. \/ Index(p) > Len(req[p].cvs) /\ code = "ok"
          \/ cancelled[p] /\ code = "cancelled"
          \/ ~cancelled[p] /\ code \in {"z21_session_replaced", "invalid_cv"}
      BY <2>3, <3>a DEF Refusal
    <3>1. /\ code \in Bus!Codes /\ (cancelled[p] => code \in {"ok", "cancelled"})
          /\ (code = "cancelled" => cancelled[p])
          /\ (code = "ok" => Index(p) > Len(req[p].cvs))
      BY <3>0 DEF Bus!Codes
    <3>2. code = "ok" => Len(outcome[p]) >= Len(req[p].cvs)
      BY <3>1, BatchTypes DEF Index
    <3>3. pc' = [pc EXCEPT ![p] = "done"] /\ result' = [result EXCEPT ![p] = code]
      BY <1>2, <2>3 DEF NextCv, Return, Goto
    <3> HIDE DEF code
    <3> QED BY <1>1, <2>1, <3>1, <3>2, <3>3, LeaveSeen DEF Over, Ended
  <2> QED BY <2>2, <2>3
<1>3. CASE Settle(p)
  <2>1. pc[p] = "settle"
    BY <1>3 DEF Settle
  <2>2. CASE cancelled[p] /\ Return(p, "cancelled")
    BY <1>1, <2>1, <2>2, LeaveSeen DEF Return, Goto, Over, Ended, Bus!Codes
  <2>3. CASE Goto(p, "slot") /\ UNCHANGED result
    BY <1>1, <2>1, <2>3, OnwardSeen DEF Goto, Over, Ended
  <2> QED BY <1>3, <2>2, <2>3 DEF Settle
<1>4. CASE TakeSlot(p)
  <2>1. pc[p] = "slot" /\ pc' = [pc EXCEPT ![p] = "send"] /\ UNCHANGED result
    BY <1>4 DEF TakeSlot, Goto
  <2> QED BY <1>1, <2>1, OnwardSeen DEF Over, Ended
<1> QED BY <1>2, <1>3, <1>4

\* Packets that nothing answers.
LEMMA PacketsSeen ==
  ASSUME Serving, NEW p \in Ops, SendUnacknowledged(p) \/ CancelUnacknowledged(p)
  PROVE  SeenAs
<1> USE DEF Serving
<1>1. /\ UNCHANGED <<wire, cancelled, req, programmed>> /\ pc[p] = "send"
      /\ req[p].kind \in {"pomWrite", "function"}
  BY DEF SendUnacknowledged, CancelUnacknowledged, netVars, reqVars
<1>2. Silent(p)
  BY <1>1, SilentSaid DEF Over, Ended
<1>3. CASE UNCHANGED <<pc, result, outcome>>
  <2>1. \A o \in Ops : StageOf(o)' = StageOf(o)
    BY <1>1, <1>3 DEF StageOf
  <2> QED BY <1>1, <1>3, <2>1, SeenNothing DEF SeenAs
<1>4. ASSUME NEW code \in Bus!Codes, Return(p, code) \/ DropWith(p, code), UNCHANGED outcome,
             code = "ok" => req[p].kind = "function", code = "cancelled" => cancelled[p]
      PROVE  SeenAs
  <2>1. PICK place \in {"done", "drop"} :
          pc' = [pc EXCEPT ![p] = place] /\ result' = [result EXCEPT ![p] = code]
    BY <1>4 DEF Return, DropWith, Goto
  <2>2. code = "ok" => req[p].kind \notin CvKinds
    BY <1>4 DEF CvKinds
  <2> QED BY <1>1, <1>4, <2>1, <2>2, LeaveSeen DEF Over, Ended
<1>5. CASE req[p].kind = "pomWrite" /\ Decide(p, "ok", CurrentCommand(p))
  <2> DEFINE e == [cmd |-> CurrentCommand(p), verdict |-> "ok"]
  <2>1. /\ outcome' = [outcome EXCEPT ![p] = Append(@, e)] /\ UNCHANGED result
        /\ pc' = [pc EXCEPT ![p] = "top"]
    BY <1>5 DEF Decide, Goto
  <2>2. e \in Entry /\ e.verdict = "ok"
    BY CommandType, TypeOfShape DEF Entry
  <2>3. req[p].kind \in CvKinds /\ req[p].kind \notin {"read", "write"}
    BY <1>5 DEF CvKinds
  <2> HIDE DEF e
  <2>4. EntersAt(p, e, "top")
    BY <1>1, <2>1, <2>2 DEF EntersAt, SecondInARow
  <2>5. \E o \in Ops : Bus!Report(o, e.verdict)
    BY <1>1, <1>2, <2>2, <2>3, <2>4, SeenEntry
  <2> QED BY <2>2, <2>5, BusReports
<1>6. CASE SendUnacknowledged(p)
  BY <1>3, <1>4, <1>5, <1>6 DEF SendUnacknowledged, loopVars, Bus!Codes
<1>7. CASE CancelUnacknowledged(p)
  BY <1>4, <1>7 DEF CancelUnacknowledged, loopVars, Bus!Codes
<1> QED BY <1>6, <1>7

\* A command goes out.
LEMMA SendSeen ==
  ASSUME Serving, NEW p \in Ops, Send(p)
  PROVE  SeenAs
<1> USE DEF Serving
<1>1. /\ pc[p] = "send" /\ req[p].kind \in {"read", "write"}
      /\ wire' = wire \cup {[ses |-> ses[p], cmd |-> CurrentCommand(p)]}
      /\ UNCHANGED <<outcome, cancelled, req, programmed>>
  BY DEF Send, reqVars, loopVars
<1>2. pc \in [Ops -> Places] /\ cancelled[p] \in BOOLEAN
  BY DEF Shape, CallTypes, FlagTypes
<1>3. \A o \in Ops \ {p} : pc'[o] = pc[o]
  BY <1>2 DEF Send, Goto, DropWith
<1>5. SentOf(p)' /\ \A o \in Ops \ {p} : SentOf(o)' = SentOf(o)
  <2> DEFINE new == [ses |-> ses[p], cmd |-> CurrentCommand(p)]
  <2>1. new.cmd.op = p
    BY DEF CurrentCommand
  <2>2. wire' = wire \cup {new}
    BY <1>1
  <2> HIDE DEF new
  <2>3. SentOf(p)'
    BY <2>1, <2>2 DEF SentOf
  <2>4. ASSUME NEW o \in Ops \ {p} PROVE SentOf(o)' = SentOf(o)
    <3>1. SentOf(o)' <=> SentOf(o)
      BY <2>1, <2>2 DEF SentOf
    <3> QED BY <3>1 DEF SentOf
  <2> QED BY <2>3, <2>4
<1>6. Elsewhere(p)
  BY <1>1, <1>3, <1>5 DEF Elsewhere, StageOf, ToldOf
<1>7. ~SentOf(p) /\ StageOf(p) = "running"
  BY <1>1, SilentSaid DEF SentOf, Silent, StageOf, Over, Ended
<1>8. Bus!Acknowledged(p) /\ Bus!CvLeft(p)
  <2>1. Len(outcome[p]) < Len(req[p].cvs)
    BY <1>1 DEF Entered, CvKinds
  <2>2. Len(outcome[p]) \in Nat /\ Len(req[p].cvs) \in Nat /\ Len(ToldOf(p)) = Len(outcome[p])
    BY BatchTypes, ToldIs
  <2> QED BY <1>1, <2>1, <2>2 DEF Bus!Acknowledged, Bus!CvLeft, Bus!At
<1>9. /\ [o \in Ops |-> SentOf(o)]' = [[o \in Ops |-> SentOf(o)] EXCEPT ![p] = TRUE]
      /\ [o \in Ops |-> ToldOf(o)]' = [o \in Ops |-> ToldOf(o)]
      /\ UNCHANGED CarriedOut
  <2>1. SentOf(p)' = TRUE
    BY <1>5 DEF SentOf
  <2>2. ToldOf(p)' = ToldOf(p) /\ UNCHANGED CarriedOut
    BY <1>1 DEF ToldOf, CarriedOut
  <2> QED BY <1>6, <2>1, <2>2, OneMoves, NothingMoves
<1>10. CASE cancelled[p]
  <2>1. pc'[p] = "drop" /\ result' = [result EXCEPT ![p] = "cancelled"]
    BY <1>2, <1>10 DEF Send, StopsListening, DropWith, Goto
  <2>2. StageOf(p)' = "ended"
    BY <2>1 DEF StageOf, Ended
  <2>3. Bus!Ends(p, "cancelled")
    BY <1>6, <2>1, <2>2, OneMoves DEF Bus!Ends
  <2>4. Bus!Send(p)
    BY <1>1, <1>7, <1>8, <1>9, <1>10, <2>3 DEF Bus!Send
  <2> QED BY <2>4, BusSteps
<1>11. CASE ~cancelled[p]
  <2>1. pc'[p] = "await" /\ UNCHANGED result
    BY <1>2, <1>11 DEF Send, StopsListening, Goto
  <2>2. StageOf(p)' = StageOf(p)
    BY <1>1, <2>1, <1>7 DEF StageOf, Ended
  <2>3. Bus!Send(p)
    BY <1>1, <1>6, <1>7, <1>8, <1>9, <1>11, <2>1, <2>2, NothingMoves DEF Bus!Send
  <2> QED BY <2>3, BusSteps
<1> QED BY <1>2, <1>10, <1>11

\* What a decided CV shows: an answer is to the command it was asked for, and an
\* "ok" among them was carried out.
LEMMA AnswerIsOwn ==
  ASSUME Shape, Held, Quiet, OkIsProgrammed, NEW p \in Ops, pc[p] = "await", rx[ses[p]] # <<>>
  PROVE  LET m == Head(rx[ses[p]]) IN
           m.cmd = CurrentCommand(p) /\ (m.verdict = "ok" => <<p, Index(p)>> \in CarriedOut)
<1> DEFINE m == Head(rx[ses[p]])
<1>1. ses[p] \in Ops /\ rx[ses[p]] \in Seq(Datagram)
  BY DEF Shape, Holding, InSession, NetTypes
<1>2. 1 \in DOMAIN rx[ses[p]] /\ m = rx[ses[p]][1]
  BY <1>1
<1>3. Trusted(ses[p])
  BY DEF Trusted, Active, Ended
<1>4. Asked(ses[p], m.cmd)
  BY <1>1, <1>3 DEF Quiet, Clean
<1>5. m.cmd = CurrentCommand(p)
  BY <1>4, OneAsker DEF Slotted
<1>6. m.verdict = "ok" => m.cmd \in programmed
  BY <1>1, <1>2 DEF OkIsProgrammed
<1>7. CurrentCommand(p).op = p /\ CurrentCommand(p).idx = Index(p)
  BY DEF CurrentCommand
<1> HIDE DEF m
<1>8. m.verdict = "ok" => <<p, Index(p)>> \in CarriedOut
  BY <1>5, <1>6, <1>7 DEF CarriedOut
<1> QED BY <1>5, <1>8 DEF m

\* An answer is taken.
LEMMA AnswerSeen ==
  ASSUME Serving, NEW p \in Ops, Receive(p)
  PROVE  SeenAs
<1> USE DEF Serving
<1> DEFINE m == Head(rx[ses[p]])
<1>1. /\ pc[p] = "await" /\ rx[ses[p]] # <<>>
      /\ UNCHANGED <<wire, cancelled, req, programmed>>
  BY DEF Receive, netVars, reqVars
<1>2. Silent(p) /\ req[p].kind \in {"read", "write"}
  BY <1>1, SilentAnswered DEF Bodies
<1>3. m.verdict = "ok" => <<p, Index(p)>> \in CarriedOut
  BY <1>1, AnswerIsOwn
<1>4. m \in Datagram
  BY <1>1 DEF Shape, Holding, InSession, NetTypes
<1>5. CASE UNCHANGED <<pc, outcome, result>>
  <2>1. \A o \in Ops : StageOf(o)' = StageOf(o)
    BY <1>1, <1>5 DEF StageOf
  <2> QED BY <1>1, <1>5, <2>1, SeenNothing DEF SeenAs
<1>6. ASSUME NEW v \in {"ok", "nack"}, m.verdict = v, Decide(p, v, m.cmd)
      PROVE  SeenAs
  <2> DEFINE e == [cmd |-> m.cmd, verdict |-> v]
  <2>1. /\ outcome' = [outcome EXCEPT ![p] = Append(@, e)] /\ UNCHANGED result
        /\ pc' = [pc EXCEPT ![p] = "top"]
    BY <1>6 DEF Decide, Goto
  <2>2. e \in Entry /\ e.verdict = v /\ v # "timeout"
    BY <1>4, <1>6 DEF Datagram, Entry
  <2>3. e.verdict = "ok" => <<p, Index(p)>> \in CarriedOut
    BY <1>3, <1>6, <2>2
  <2> HIDE DEF e, m
  <2>4. EntersAt(p, e, "top")
    BY <1>1, <2>1, <2>2 DEF EntersAt, SecondInARow
  <2>5. \E o \in Ops : Bus!Report(o, e.verdict)
    BY <1>1, <1>2, <2>2, <2>3, <2>4, SeenEntry DEF CvKinds
  <2> QED BY <2>2, <2>5, BusReports
<1>7. CASE DropWith(p, "short_circuit") /\ UNCHANGED outcome
  BY <1>1, <1>7, LeaveSeen DEF DropWith, Goto, Over, Ended, Bus!Codes
<1> QED BY <1>5, <1>6, <1>7 DEF Receive, loopVars

\* A deadline passes: the command is sent again, or the CV has timed out.
LEMMA DeadlineSeen ==
  ASSUME Patient, Serving, NEW p \in Ops, Timeout(p)
  PROVE  SeenAs
<1> USE DEF Serving
<1>1. pc[p] = "await" /\ UNCHANGED <<wire, cancelled, req, programmed>>
  BY DEF Timeout, netVars, reqVars
<1>2. Silent(p) /\ req[p].kind \in {"read", "write"}
  BY <1>1, SilentSaid DEF Bodies, Timeout, Patient
<1>3. CASE ~LastTry(p)
  <2>1. pc' = [pc EXCEPT ![p] = "send"] /\ UNCHANGED <<outcome, result>>
    BY <1>3 DEF Timeout, Goto
  <2> QED BY <1>1, <2>1, OnwardSeen DEF Over, Ended
<1>4. CASE LastTry(p)
  <2> DEFINE e == [cmd |-> CurrentCommand(p), verdict |-> "timeout"]
  <2>1. /\ outcome' = [outcome EXCEPT ![p] = Append(@, e)]
        /\ IF GivesUp(timeouts[p] + 1)
           THEN pc' = [pc EXCEPT ![p] = "drop"] /\ result' = [result EXCEPT ![p] = "z21_unreachable"]
           ELSE pc' = [pc EXCEPT ![p] = "top"] /\ UNCHANGED result
    BY <1>4 DEF Timeout, Goto, DropWith
  <2>2. e \in Entry /\ e.verdict = "timeout"
    BY CommandType, TypeOfShape DEF Entry
  <2> HIDE DEF e
  <2>3. timeouts[p] \in 0..2
    BY DEF Shape, LoopTypes
  <2>4. GivesUp(timeouts[p] + 1) <=> timeouts[p] # 0
    BY <2>3 DEF GivesUp
  <2>5. timeouts[p] # 0 <=> SecondInARow(p, e.verdict)
    BY <1>1, <2>2 DEF Counting, Apart, SecondInARow, Over, Ended
  <2>6. EntersAt(p, e, "drop") \/ EntersAt(p, e, "top")
    BY <1>1, <2>1, <2>4, <2>5 DEF EntersAt
  <2>7. \E o \in Ops : Bus!Report(o, e.verdict)
    BY <1>1, <1>2, <2>2, <2>6, SeenEntry DEF CvKinds
  <2> QED BY <2>2, <2>7, BusReports
<1> QED BY <1>3, <1>4

\* A call is cut off, drops its session or listens.
LEMMA CutSeen ==
  ASSUME Serving, NEW p \in Ops,
         CancelAwait(p) \/ SocketError(p) \/ DropSession(p) \/ Observe(p)
  PROVE  SeenAs
<1> USE DEF Serving
<1>1. UNCHANGED <<wire, cancelled, req, programmed, outcome>>
  BY DEF CancelAwait, SocketError, DropSession, Observe, netVars, reqVars, loopVars
<1>2. CASE CancelAwait(p)
  BY <1>1, <1>2, LeaveSeen DEF CancelAwait, DropWith, Goto, Over, Ended, Bus!Codes
<1>3. CASE SocketError(p)
  <2>1. PICK place \in {"done", "drop"} :
          pc' = [pc EXCEPT ![p] = place] /\ result' = [result EXCEPT ![p] = "z21_unreachable"]
    BY <1>3 DEF SocketError, DropWith, Return, Goto
  <2>2. pc[p] \in {"send", "await", "observe"}
    BY <1>3 DEF SocketError, Slotted
  <2> QED BY <1>1, <2>1, <2>2, LeaveSeen DEF Over, Ended, Bus!Codes
<1>4. CASE DropSession(p)
  <2>1. pc[p] = "drop" /\ pc' = [pc EXCEPT ![p] = "done"] /\ UNCHANGED result
    BY <1>4 DEF DropSession, Goto
  <2>2. pc \in [Ops -> Places]
    BY DEF Shape, CallTypes
  <2>3. \A o \in Ops : StageOf(o)' = StageOf(o)
    BY <1>1, <2>1, <2>2 DEF StageOf, Ended
  <2> QED BY <1>1, <2>1, <2>3, SeenNothing DEF SeenAs
<1>5. CASE Observe(p)
  <2>1. pc[p] = "observe" /\ req[p].kind \notin CvKinds
    BY <1>5 DEF Observe, Bodies, CvKinds
  <2>2. CASE UNCHANGED <<pc, result>>
    <3>1. \A o \in Ops : StageOf(o)' = StageOf(o)
      BY <1>1, <2>2 DEF StageOf
    <3> QED BY <1>1, <2>2, <3>1, SeenNothing DEF SeenAs
  <2>3. CASE Return(p, "ok")
    BY <1>1, <2>1, <2>3, LeaveSeen DEF Return, Goto, Over, Ended, Bus!Codes
  <2>4. CASE cancelled[p] /\ Return(p, "cancelled")
    BY <1>1, <2>1, <2>4, LeaveSeen DEF Return, Goto, Over, Ended, Bus!Codes
  <2> QED BY <1>5, <2>2, <2>3, <2>4 DEF Observe
<1> QED BY <1>2, <1>3, <1>4, <1>5

\* A call begins, or is asked to stop.
LEMMA OperatorSeen ==
  ASSUME Serving, NEW p \in Ops, Start(p) \/ Cancel(p)
  PROVE  SeenAs
<1> USE DEF Serving
<1>1. UNCHANGED <<wire, outcome, programmed, result>>
  BY DEF Start, Cancel, netVars, loopVars
<1>2. UNCHANGED CarriedOut /\ [o \in Ops |-> SentOf(o)]' = [o \in Ops |-> SentOf(o)]
  BY <1>1 DEF CarriedOut, SentOf
<1>3. [o \in Ops |-> ToldOf(o)]' = [o \in Ops |-> ToldOf(o)]
  BY <1>1 DEF ToldOf
<1>4. pc \in [Ops -> Places] /\ cancelled \in [Ops -> BOOLEAN]
  BY DEF Shape, CallTypes, FlagTypes
<1>5. CASE Start(p)
  <2>1. pc[p] = "idle" /\ pc' = [pc EXCEPT ![p] = "lock"] /\ UNCHANGED cancelled
    BY <1>5 DEF Start, Goto
  <2>2. StageOf(p) = "idle" /\ StageOf(p)' = "running"
    BY <1>4, <2>1 DEF StageOf, Ended
  <2>3. \A o \in Ops \ {p} : StageOf(o)' = StageOf(o)
    BY <1>1, <1>4, <2>1 DEF StageOf
  <2>4. [o \in Ops |-> StageOf(o)]' = [[o \in Ops |-> StageOf(o)] EXCEPT ![p] = "running"]
    BY <2>2, <2>3
  <2>5. \E r \in Requests[p] : req' = [req EXCEPT ![p] = r]
    BY <1>5 DEF Start
  <2>6. Bus!Begin(p)
    BY <1>1, <1>2, <1>3, <2>1, <2>2, <2>4, <2>5 DEF Bus!Begin
  <2> QED BY <2>6, BusSteps
<1>6. CASE Cancel(p)
  <2>1. /\ ~cancelled[p] /\ cancelled' = [cancelled EXCEPT ![p] = TRUE]
        /\ UNCHANGED <<pc, req>> /\ pc[p] \notin Ended \cup {"idle"}
    BY <1>6 DEF Cancel, Active, reqVars
  <2>2. \A o \in Ops \ {p} : StageOf(o)' = StageOf(o)
    BY <1>1, <1>4, <2>1 DEF StageOf
  <2>3. StageOf(p) # "idle"
    BY <2>1 DEF StageOf, Ended
  <2>4. \/ StageOf(p)' = StageOf(p)
        \/ StageOf(p) = "running" /\ StageOf(p)' = "stopping"
    <3>1. cancelled'[p]
      BY <1>4, <2>1
    <3>2. CASE pc[p] = "top" /\ outcome[p] # <<>>
      BY <1>1, <2>1, <3>1, <3>2 DEF StageOf, Ended
    <3>3. CASE outcome[p] = <<>> /\ pc[p] # "drop"
      <4>1. StageOf(p) = "running" /\ StageOf(p)' = "running"
        BY <1>1, <2>1, <3>3 DEF StageOf, Ended
      <4> QED BY <4>1
    <3>4. CASE pc[p] # "top" /\ pc[p] # "drop"
      <4>1. StageOf(p) = "running" /\ StageOf(p)' = "running"
        BY <1>1, <2>1, <3>4 DEF StageOf, Ended
      <4> QED BY <4>1
    <3>5. CASE pc[p] = "drop"
      <4>1. StageOf(p) = "ended" /\ StageOf(p)' = "ended"
        BY <2>1, <3>5 DEF StageOf, Ended
      <4> QED BY <4>1
    <3> QED BY <3>2, <3>3, <3>4, <3>5
  <2>5. \/ [o \in Ops |-> StageOf(o)]' = [o \in Ops |-> StageOf(o)]
        \/ /\ StageOf(p) = "running"
           /\ [o \in Ops |-> StageOf(o)]' = [[o \in Ops |-> StageOf(o)] EXCEPT ![p] = "stopping"]
    BY <2>2, <2>4
  <2>6. Bus!Cancel(p)
    BY <1>1, <1>2, <1>3, <2>1, <2>3, <2>5 DEF Bus!Cancel
  <2> QED BY <2>6, BusSteps
<1> QED BY <1>5, <1>6

\* A command leaves the wire: it is carried out or not, for the CV its batch is at.
LEMMA WireSeen ==
  ASSUME Serving, NEW d \in wire, wire' = wire \ {d},
         programmed' = programmed \/ programmed' = programmed \cup {d.cmd},
         UNCHANGED <<pc, req, outcome, cancelled, result>>
  PROVE  SeenAs
<1> USE DEF Serving
<1> DEFINE p == d.cmd.op
<1>1. /\ p \in Ops /\ \A b \in wire : b.cmd.op \in Ops /\ b = [ses |-> b.ses, cmd |-> b.cmd]
  BY DEF Shape, NetTypes, Command
<1>2. d.ses = ses[p] /\ d.cmd = CurrentCommand(p)
  BY DEF Asking
<1>3. \A b \in wire : b.cmd.op = p => b = d
  <2> SUFFICES ASSUME NEW b \in wire, b.cmd.op = p PROVE b = d
    OBVIOUS
  <2>1. b.ses = ses[p] /\ b.cmd = CurrentCommand(p)
    BY DEF Asking
  <2> QED BY <1>1, <1>2, <2>1
<1>4. SentOf(p) /\ ~SentOf(p)'
  BY <1>3 DEF SentOf
<1>5. ASSUME NEW o \in Ops \ {p} PROVE SentOf(o)' = SentOf(o)
  <2>1. SentOf(o)' <=> SentOf(o)
    BY DEF SentOf
  <2> QED BY <2>1 DEF SentOf
<1>6. /\ [o \in Ops |-> StageOf(o)]' = [o \in Ops |-> StageOf(o)]
      /\ [o \in Ops |-> ToldOf(o)]' = [o \in Ops |-> ToldOf(o)]
  BY DEF StageOf, ToldOf
<1>7. <<d.cmd.op, d.cmd.idx>> = <<p, Bus!At(p)>>
  BY <1>1, <1>2, ToldIs DEF CurrentCommand, Index, Bus!At
<1>8. CarriedOut' \in {CarriedOut, CarriedOut \cup {<<p, Bus!At(p)>>}}
  <2>1. CASE programmed' = programmed
    BY <2>1 DEF CarriedOut
  <2>2. CASE programmed' = programmed \cup {d.cmd}
    <3>1. CarriedOut' = CarriedOut \cup {<<d.cmd.op, d.cmd.idx>>}
      BY <2>2 DEF CarriedOut
    <3> QED BY <1>7, <3>1
  <2> QED BY <2>1, <2>2
<1> HIDE DEF p
<1>9. [o \in Ops |-> SentOf(o)]' = [[o \in Ops |-> SentOf(o)] EXCEPT ![p] = FALSE]
  <2>1. SentOf(p)' = FALSE
    BY <1>4 DEF SentOf
  <2> QED BY <1>1, <1>5, <2>1
<1>10. Bus!Arrive(p)
  BY <1>1, <1>4, <1>6, <1>8, <1>9 DEF Bus!Arrive
<1> QED BY <1>1, <1>10, BusSteps

\* What the environment does besides.
LEMMA ElseSeen ==
  ASSUME Serving, WriteConfig \/ DropZ21 \/ Station \/ Lose \/ UNCHANGED vars
  PROVE  SeenAs
<1>1. UNCHANGED <<pc, req, outcome, cancelled, result>>
  BY DEF WriteConfig, DropZ21, Station, Lose, vars, reqVars, loopVars
<1>2. CASE UNCHANGED <<wire, programmed>>
  <2>1. \A o \in Ops : StageOf(o)' = StageOf(o)
    BY <1>1 DEF StageOf
  <2> QED BY <1>1, <1>2, <2>1, SeenNothing DEF SeenAs
<1>3. CASE Station \/ Lose
  <2>1. PICK d \in wire : /\ wire' = wire \ {d}
                          /\ programmed' = programmed \/ programmed' = programmed \cup {d.cmd}
    BY <1>3 DEF Station, Lose
  <2> QED BY <1>1, <2>1, WireSeen
<1> QED BY <1>2, <1>3 DEF WriteConfig, DropZ21, vars, netVars

\* Every step is one of the abstract bus, or none.
LEMMA BusStep == Patient /\ Serving /\ [Next]_vars => [Bus!Next]_(Bus!vars)
<1> SUFFICES ASSUME Patient, Serving, [Next]_vars PROVE SeenAs
  BY DEF SeenAs
<1>1. \A p \in Ops : ~Close(p)
  BY DEF Close, Patient
<1>2. CASE WriteConfig \/ DropZ21 \/ Station \/ Lose \/ UNCHANGED vars
  BY <1>2, ElseSeen
<1>3. ASSUME NEW p \in Ops, Start(p) \/ Cancel(p) PROVE SeenAs
  BY <1>3, OperatorSeen
<1>4. ASSUME NEW p \in Ops, Step(p) \/ Observe(p) \/ SocketError(p) PROVE SeenAs
  BY <1>4, SessionSeen, LoopSeen, SendSeen, PacketsSeen, AnswerSeen, DeadlineSeen, CutSeen
  DEF Step
<1> QED BY <1>1, <1>2, <1>3, <1>4 DEF Next, Terminated

\* Initially nothing was called.
LEMMA BusInit == Init => Bus!Init
<1> SUFFICES ASSUME Init PROVE Bus!Init
  OBVIOUS
<1>1. \A o \in Ops : pc[o] = "idle" /\ outcome[o] = <<>>
  BY DEF Init
<1>2. \A o \in Ops : StageOf(o) = "idle"
  BY <1>1 DEF StageOf, Ended
<1>3. ASSUME NEW o \in Ops PROVE ToldOf(o) = <<>>
  BY <1>1, <1>3 DEF ToldOf
<1>4. \A o \in Ops : SentOf(o) = FALSE
  BY DEF SentOf, Init
<1>5. CarriedOut = {}
  BY DEF CarriedOut, Init
<1> QED BY <1>2, <1>3, <1>4, <1>5 DEF Bus!Init, Init

\* What the steps rest on holds initially.
LEMMA ServingInit == Init => Serving
<1>1. Init => Asking /\ Counting
  BY DEF Init, Asking, Counting
<1> QED BY <1>1, ShapeInit, SafeInit, BatchInit DEF Serving

\* As long as answers come in time and no connection closes on its call, a batch goes
\* through its CVs in order: none is carried out before those ahead of it are settled,
\* "ok" is reported of what was carried out only, and a cancelled batch sends or
\* reports one more CV at most (read_loop, write_cvs and await_result).
THEOREM BatchesServed ==
  ASSUME Patient
  PROVE  Spec => ServesBatches
<1>1. Init => Bus!Init /\ Serving
  BY BusInit, ServingInit
<1>2. Batch /\ Own /\ Serving /\ [Next]_vars => Serving'
  <2> SUFFICES ASSUME Batch, Own, Serving, [Next]_vars PROVE Serving'
    OBVIOUS
  <2> USE DEF Batch, Own, Serving
  <2>1. Quiet'
    BY QuietStep
  <2>2. OkIsProgrammed'
    BY ProgrammedStep
  <2>3. Asking'
    BY AskingStep
  <2>4. Shape' /\ Held' /\ Bodies' /\ Entered' /\ Apart'
    BY ShapeStep, HeldStep, BodiesStep, EnteredStep, ApartStep
  <2> QED BY <2>1, <2>2, <2>3, <2>4, CountingStep
<1>3. Serving /\ [Next]_vars => [Bus!Next]_(Bus!vars)
  BY BusStep
<1> QED BY <1>1, <1>2, <1>3, BatchInvariant, OwnInvariant, PTL
        DEF Spec, ServesBatches, Bus!Spec

=============================================================================
