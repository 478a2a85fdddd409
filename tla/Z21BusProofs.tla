---------------------------- MODULE Z21BusProofs ----------------------------
(* What Z21Bus guarantees for every set of calls, requests and faults.     *)
EXTENDS Z21Bus, TLAPS

\* Initially every variable has its type.
LEMMA TypeInit == Init => TypeOK
<1> SUFFICES ASSUME Init PROVE TypeOK
  OBVIOUS
<1>1. req \in [Ops -> Request]
  <2>1. [kind |-> "read", cvs |-> <<>>] \in Request
    BY DEF Request, Kinds
  <2> QED BY <2>1 DEF Init
<1>2. /\ rx \in [Ops -> Seq(Datagram)]
      /\ outcome \in [Ops -> Seq(Entry)]
  BY DEF Init
<1>3. /\ pc \in [Ops -> Places]
      /\ result \in [Ops -> Results]
  BY DEF Init, Places, Results
<1>4. look \in [Ops -> [host : Hosts \cup {NoHost}, gen : Nat]]
  BY DEF Init
<1>5. /\ slot \in [Ops -> Ops \cup {NoOne}]
      /\ ses \in [Ops -> Ops \cup {NoOne}]
      /\ hostsSeen \in [Ops -> SUBSET (Hosts \cup {NoHost})]
  BY DEF Init
<1>6. /\ attempt \in [Ops -> 1..2]
      /\ timeouts \in [Ops -> 0..2]
      /\ cancelled \in [Ops -> BOOLEAN]
      /\ lateSends \in [Ops -> Nat]
      /\ staleCvs \in [Ops -> Nat]
  BY DEF Init
<1>7. /\ wire \subseteq [ses : Ops, cmd : Command]
      /\ programmed \subseteq Command
  BY DEF Init
<1>8. /\ cfgHost \in Hosts \cup {NoHost}
      /\ generation \in Nat \ {0}
      /\ inner \in Ops \cup {NoOne}
      /\ innerLock \in Ops \cup {NoOne}
  BY DEF Init
<1>9. reloading \in BOOLEAN
  BY DEF Init
<1> QED BY <1>1, <1>2, <1>3, <1>4, <1>5, <1>6, <1>7, <1>8, <1>9 DEF TypeOK

\* The current command is one: outcome never runs ahead of the type.
LEMMA CommandType ==
  ASSUME TypeOK, NEW o \in Ops
  PROVE  /\ Index(o) \in Nat \ {0}
         /\ CurrentCommand(o) \in Command
<1>1. outcome[o] \in Seq(Entry) BY DEF TypeOK
<1>2. Len(outcome[o]) \in Nat BY <1>1
<1> QED BY <1>2 DEF TypeOK, Index, CurrentCommand, Command

(* Types of the variables, in the groups an action disturbs, with what the *)
(* types of the next state need from the places the calls are at.          *)
InSession == {"top", "settle", "slot", "send", "await", "observe", "drop"}

LockTypes ==
  /\ cfgHost \in Hosts \cup {NoHost}
  /\ generation \in Nat \ {0}
  /\ inner \in Ops \cup {NoOne}
  /\ innerLock \in Ops \cup {NoOne}
  /\ slot \in [Ops -> Ops \cup {NoOne}]
  /\ ses \in [Ops -> Ops \cup {NoOne}]
FlagTypes == reloading \in BOOLEAN /\ cancelled \in [Ops -> BOOLEAN]
CallTypes == pc \in [Ops -> Places] /\ result \in [Ops -> Results]
LookTypes ==
  /\ req \in [Ops -> Request]
  /\ look \in [Ops -> [host : Hosts \cup {NoHost}, gen : Nat]]
  /\ hostsSeen \in [Ops -> SUBSET (Hosts \cup {NoHost})]
NetTypes ==
  /\ rx \in [Ops -> Seq(Datagram)]
  /\ wire \subseteq [ses : Ops, cmd : Command]
  /\ programmed \subseteq Command
OutTypes == outcome \in [Ops -> Seq(Entry)]
LoopTypes ==
  /\ attempt \in [Ops -> 1..2]
  /\ timeouts \in [Ops -> 0..2]
  /\ lateSends \in [Ops -> Nat]
  /\ staleCvs \in [Ops -> Nat]

\* A call past session() has a session.
Holding == \A o \in Ops : pc[o] \in InSession => ses[o] \in Ops

\* The second timeout in a row ends the batch.
Tired == \A o \in Ops : timeouts[o] = 2 => pc[o] \in {"drop"} \cup Ended

Shape ==
  /\ LockTypes /\ FlagTypes /\ CallTypes /\ LookTypes /\ NetTypes /\ OutTypes
  /\ LoopTypes /\ Holding /\ Tired

\* Shape is TypeOK, regrouped and strengthened.
LEMMA TypeOfShape == Shape => TypeOK
  BY DEF Shape, LockTypes, FlagTypes, CallTypes, LookTypes, NetTypes, OutTypes,
         LoopTypes, TypeOK

\* A drained socket is an empty one.
LEMMA DrainedType ==
  ASSUME NetTypes, NEW o \in Ops
  PROVE  Drained(o) \in [Ops -> Seq(Datagram)]
<1>1. <<>> \in Seq(Datagram)
  OBVIOUS
<1> QED BY <1>1 DEF Drained, NetTypes

\* The strengthened types hold initially ...
LEMMA ShapeInit == Init => Shape
<1> SUFFICES ASSUME Init PROVE Shape
  OBVIOUS
<1>1. /\ LockTypes /\ FlagTypes /\ CallTypes /\ LookTypes /\ NetTypes /\ OutTypes
      /\ LoopTypes
  BY TypeInit DEF TypeOK, LockTypes, FlagTypes, CallTypes, LookTypes, NetTypes,
                  OutTypes, LoopTypes
<1>2. Holding
  BY DEF Init, Holding, InSession
<1>3. Tired
  BY DEF Init, Tired
<1> QED BY <1>1, <1>2, <1>3 DEF Shape

\* ... and every action keeps them.
LEMMA ShapeStep == Shape /\ [Next]_vars => Shape'
<1> SUFFICES ASSUME Shape, [Next]_vars PROVE Shape'
  OBVIOUS
<1>1. ASSUME NEW o \in Ops, Start(o) PROVE Shape'
  <2>1. CallTypes'
    BY <1>1, ConstantsOK DEF Start, Goto, Shape, CallTypes, Places, Results
  <2>2. LookTypes'
    <3>1. req' \in [Ops -> Request]
      BY <1>1, ConstantsOK DEF Start, Shape, LookTypes
    <3>2. look' \in [Ops -> [host : Hosts \cup {NoHost}, gen : Nat]]
      BY <1>1 DEF Start, Shape, LookTypes
    <3>3. hostsSeen' \in [Ops -> SUBSET (Hosts \cup {NoHost})]
      BY <1>1 DEF Start, Shape, LookTypes, LockTypes
    <3> QED BY <3>1, <3>2, <3>3 DEF LookTypes
  <2>3. Holding'
    BY <1>1, ConstantsOK DEF Start, Goto, Shape, Holding, CallTypes,
                             LockTypes, InSession, Places, Slotted
  <2>4. Tired'
    BY <1>1, ConstantsOK DEF Start, Goto, loopVars, Shape, Tired, CallTypes,
                             LoopTypes, Ended, Places, InSession
  <2>5. LockTypes' /\ FlagTypes' /\ NetTypes' /\ OutTypes' /\ LoopTypes'
    BY <1>1 DEF Start, cfgVars, lockVars, netVars, loopVars, Shape, LockTypes,
                FlagTypes, NetTypes, OutTypes, LoopTypes
  <2> QED BY <2>1, <2>2, <2>3, <2>4, <2>5 DEF Shape
<1>2. ASSUME NEW o \in Ops, LockInner(o) PROVE Shape'
  <2>1. LockTypes'
    BY <1>2, ConstantsOK DEF LockInner, cfgVars, reqVars, Shape, LockTypes
  <2>2. CallTypes'
    BY <1>2, ConstantsOK DEF LockInner, Goto, Return, Shape, CallTypes,
                             Places, Results
  <2>3. Holding'
    BY <1>2, ConstantsOK DEF LockInner, Goto, Return, reqVars, Shape, Holding,
                             CallTypes, LockTypes, InSession, Places, Slotted
  <2>4. Tired'
    BY <1>2, ConstantsOK DEF LockInner, Goto, Return, loopVars, Shape, Tired,
                             CallTypes, LoopTypes, Ended, Places, InSession
  <2>5. FlagTypes' /\ LookTypes' /\ NetTypes' /\ OutTypes' /\ LoopTypes'
    BY <1>2 DEF LockInner, cfgVars, netVars, reqVars, histVars, loopVars,
                Shape, FlagTypes, LookTypes, NetTypes, OutTypes, LoopTypes
  <2> QED BY <2>1, <2>2, <2>3, <2>4, <2>5 DEF Shape
<1>3. ASSUME NEW o \in Ops, ReadConfig(o) PROVE Shape'
  <2>1. LockTypes'
    BY <1>3, ConstantsOK DEF ReadConfig, cfgVars, Shape, LockTypes
  <2>2. CallTypes'
    BY <1>3, ConstantsOK DEF ReadConfig, Goto, Return, Shape, CallTypes,
                             Places, Results
  <2>3. LookTypes'
    <3>1. look' \in [Ops -> [host : Hosts \cup {NoHost}, gen : Nat]]
      BY <1>3 DEF ReadConfig, Shape, LookTypes, LockTypes
    <3> QED BY <1>3, <3>1 DEF ReadConfig, Shape, LookTypes, reqVars, histVars
  <2>4. Holding'
    BY <1>3, ConstantsOK DEF ReadConfig, Goto, Return, Shape, Holding,
                             CallTypes, LockTypes, InSession, Places, Slotted
  <2>5. Tired'
    BY <1>3, ConstantsOK DEF ReadConfig, Goto, Return, loopVars, Shape, Tired,
                             CallTypes, LoopTypes, Ended, Places, InSession
  <2>6. FlagTypes' /\ NetTypes' /\ OutTypes' /\ LoopTypes'
    BY <1>3 DEF ReadConfig, cfgVars, netVars, histVars, loopVars, Shape,
                FlagTypes, NetTypes, OutTypes, LoopTypes
  <2> QED BY <2>1, <2>2, <2>3, <2>4, <2>5, <2>6 DEF Shape
<1>4. ASSUME NEW o \in Ops, ReadGeneration(o) PROVE Shape'
  <2>1. LockTypes'
    BY <1>4, ConstantsOK DEF ReadGeneration, cfgVars, Shape, LockTypes
  <2>2. CallTypes'
    BY <1>4, ConstantsOK DEF ReadGeneration, Goto, Body, Shape, CallTypes,
                             Places, Results
  <2>3. LookTypes'
    BY <1>4, ConstantsOK DEF ReadGeneration, histVars, Shape, LookTypes,
                             LockTypes
  <2>4. Holding'
    <3>1. CASE Fresh(o)
      BY <1>4, <3>1 DEF ReadGeneration, Fresh, Goto, Shape, CallTypes, LockTypes,
                          Holding
    <3>2. CASE ~Fresh(o)
      BY <1>4, <3>2 DEF ReadGeneration, Goto, Shape, CallTypes, LockTypes, Holding,
                          InSession
    <3> QED BY <3>1, <3>2
  <2>5. Tired'
    BY <1>4, ConstantsOK DEF ReadGeneration, Goto, Body, loopVars, Shape,
                             Tired, CallTypes, LoopTypes, Ended, Places,
                             InSession
  <2>6. FlagTypes' /\ NetTypes' /\ OutTypes' /\ LoopTypes'
    BY <1>4 DEF ReadGeneration, cfgVars, netVars, histVars, loopVars, Shape,
                FlagTypes, NetTypes, OutTypes, LoopTypes
  <2> QED BY <2>1, <2>2, <2>3, <2>4, <2>5, <2>6 DEF Shape
<1>5. ASSUME NEW o \in Ops, Connect(o) PROVE Shape'
  <2>1. LockTypes'
    BY <1>5, ConstantsOK DEF Connect, cfgVars, Shape, LockTypes
  <2>2. CallTypes'
    BY <1>5, ConstantsOK DEF Connect, Goto, Return, Body, Shape, CallTypes,
                             Places, Results
  <2>3. Holding'
    BY <1>5, ConstantsOK DEF Connect, Goto, Return, Body, Shape, Holding,
                             CallTypes, LockTypes, InSession, Places, Slotted
  <2>4. Tired'
    BY <1>5, ConstantsOK DEF Connect, Goto, Return, Body, loopVars, Shape,
                             Tired, CallTypes, LoopTypes, Ended, Places,
                             InSession
  <2>5. FlagTypes' /\ LookTypes' /\ NetTypes' /\ OutTypes' /\ LoopTypes'
    BY <1>5 DEF Connect, cfgVars, netVars, histVars, loopVars, Shape,
                FlagTypes, LookTypes, NetTypes, OutTypes, LoopTypes
  <2> QED BY <2>1, <2>2, <2>3, <2>4, <2>5 DEF Shape
<1>6. ASSUME NEW o \in Ops, NextCv(o) PROVE Shape'
  <2>1. CallTypes'
    BY <1>6, ConstantsOK DEF NextCv, Goto, Return, Refusal, Shape, CallTypes,
                             Places, Results
  <2>2. LoopTypes'
    BY <1>6, ConstantsOK DEF NextCv, histVars, Shape, LoopTypes, CallTypes
  <2>3. Holding'
    BY <1>6, ConstantsOK DEF NextCv, Goto, Return, reqVars, Shape, Holding,
                             CallTypes, LockTypes, InSession, Places, Slotted
  <2>4. Tired'
    BY <1>6, ConstantsOK DEF NextCv, Goto, Return, Shape, Tired, CallTypes,
                             LoopTypes, Ended, Places, InSession
  <2>5. LockTypes' /\ FlagTypes' /\ LookTypes' /\ NetTypes' /\ OutTypes'
    BY <1>6 DEF NextCv, cfgVars, lockVars, netVars, reqVars, histVars, Shape,
                LockTypes, FlagTypes, LookTypes, NetTypes, OutTypes
  <2> QED BY <2>1, <2>2, <2>3, <2>4, <2>5 DEF Shape
<1>7. ASSUME NEW o \in Ops, Settle(o) PROVE Shape'
  <2>1. CallTypes'
    BY <1>7, ConstantsOK DEF Settle, Goto, Return, Shape, CallTypes, Places,
                             Results
  <2>2. Holding'
    BY <1>7, ConstantsOK DEF Settle, Goto, Return, reqVars, Shape, Holding,
                             CallTypes, LockTypes, InSession, Places, Slotted
  <2>3. Tired'
    BY <1>7, ConstantsOK DEF Settle, Goto, Return, loopVars, Shape, Tired,
                             CallTypes, LoopTypes, Ended, Places, InSession
  <2>4. LockTypes' /\ FlagTypes' /\ LookTypes' /\ NetTypes' /\ OutTypes' /\ LoopTypes'
    BY <1>7 DEF Settle, cfgVars, lockVars, netVars, reqVars, histVars,
                loopVars, Shape, LockTypes, FlagTypes, LookTypes, NetTypes,
                OutTypes, LoopTypes
  <2> QED BY <2>1, <2>2, <2>3, <2>4 DEF Shape
<1>8. ASSUME NEW o \in Ops, TakeSlot(o) PROVE Shape'
  <2>1. LockTypes'
    BY <1>8, ConstantsOK DEF TakeSlot, cfgVars, lockVars, reqVars, Shape,
                             LockTypes
  <2>2. CallTypes'
    BY <1>8, ConstantsOK DEF TakeSlot, Goto, Shape, CallTypes, Places, Results
  <2>3. Holding'
    BY <1>8, ConstantsOK DEF TakeSlot, Goto, reqVars, Shape, Holding,
                             CallTypes, LockTypes, InSession, Places, Slotted
  <2>4. Tired'
    BY <1>8, ConstantsOK DEF TakeSlot, Goto, loopVars, Shape, Tired,
                             CallTypes, LoopTypes, Ended, Places, InSession
  <2>5. FlagTypes' /\ LookTypes' /\ NetTypes' /\ OutTypes' /\ LoopTypes'
    BY <1>8 DEF TakeSlot, cfgVars, netVars, reqVars, histVars, loopVars,
                Shape, FlagTypes, LookTypes, NetTypes, OutTypes, LoopTypes
  <2> QED BY <2>1, <2>2, <2>3, <2>4, <2>5 DEF Shape
<1>9. ASSUME NEW o \in Ops, Send(o) PROVE Shape'
  <2>1. LockTypes'
    BY <1>9, ConstantsOK DEF Send, FreeSlot, cfgVars, lockVars, reqVars,
                             Shape, LockTypes
  <2>2. CallTypes'
    BY <1>9, ConstantsOK DEF Send, Goto, DropWith, Shape, CallTypes, Places,
                             Results
  <2>3. NetTypes'
    <3>1. ses[o] \in Ops
      BY <1>9 DEF Send, Shape, Holding, InSession
    <3>2. wire' \subseteq [ses : Ops, cmd : Command]
      BY <1>9, <3>1, CommandType, TypeOfShape DEF Send, Shape, NetTypes
    <3>3. rx' \in [Ops -> Seq(Datagram)]
      BY <1>9, DrainedType DEF Send, Shape, NetTypes
    <3> QED BY <1>9, <3>2, <3>3 DEF Send, Shape, NetTypes
  <2>4. LoopTypes'
    BY <1>9, ConstantsOK DEF Send, CountSend, loopVars, Shape, LoopTypes,
                             CallTypes
  <2>5. Holding'
    BY <1>9, ConstantsOK DEF Send, Goto, DropWith, reqVars, Shape, Holding,
                             CallTypes, LockTypes, InSession, Places, Slotted
  <2>6. Tired'
    BY <1>9, ConstantsOK DEF Send, Goto, DropWith, loopVars, Shape, Tired,
                             CallTypes, LoopTypes, Ended, Places, InSession
  <2>7. FlagTypes' /\ LookTypes' /\ OutTypes'
    BY <1>9 DEF Send, CountSend, cfgVars, reqVars, loopVars, Shape, FlagTypes,
                LookTypes, OutTypes
  <2> QED BY <2>1, <2>2, <2>3, <2>4, <2>5, <2>6, <2>7 DEF Shape
<1>10. ASSUME NEW o \in Ops, SendUnacknowledged(o) PROVE Shape'
  <2>1. LockTypes'
    BY <1>10, ConstantsOK DEF SendUnacknowledged, Decide, FreeSlot, cfgVars,
                              lockVars, reqVars, Shape, LockTypes
  <2>2. CallTypes'
    BY <1>10, ConstantsOK DEF SendUnacknowledged, Decide, Goto, Return, Shape,
                              CallTypes, Places, Results
  <2>3. OutTypes'
    <3>1. [cmd |-> CurrentCommand(o), verdict |-> "ok"] \in Entry
      BY CommandType, TypeOfShape DEF Entry
    <3>2. CASE UNCHANGED outcome
      BY <3>2 DEF Shape, OutTypes
    <3>3. CASE Decide(o, "ok", CurrentCommand(o))
      BY <3>1, <3>3 DEF Decide, Shape, OutTypes
    <3> QED BY <1>10, <3>2, <3>3 DEF SendUnacknowledged, loopVars
  <2>4. LoopTypes'
    <3>1. /\ lateSends' \in [Ops -> Nat]
          /\ staleCvs' \in [Ops -> Nat]
      BY <1>10 DEF SendUnacknowledged, CountSend, Shape, LoopTypes
    <3>2. CASE UNCHANGED <<attempt, timeouts>>
      BY <3>1, <3>2 DEF Shape, LoopTypes
    <3>3. CASE Decide(o, "ok", CurrentCommand(o))
      BY <3>1, <3>3 DEF Decide, Shape, LoopTypes
    <3>4. CASE /\ attempt[o] < Packets(o)
               /\ attempt' = [attempt EXCEPT ![o] = @ + 1]
               /\ UNCHANGED timeouts
      BY <3>1, <3>4, ConstantsOK DEF Packets, Shape, LoopTypes
    <3> QED BY <1>10, <3>2, <3>3, <3>4 DEF SendUnacknowledged, loopVars
  <2>5. Holding'
    BY <1>10, ConstantsOK DEF SendUnacknowledged, Decide, Goto, Return,
                              reqVars, Shape, Holding, CallTypes, LockTypes,
                              InSession, Places, Slotted
  <2>6. Tired'
    <3>1. CASE UNCHANGED timeouts
      BY <1>10, <3>1 DEF SendUnacknowledged, Return, Goto, Decide, Shape, CallTypes,
                          Tired, Ended
    <3>2. CASE Decide(o, "ok", CurrentCommand(o))
      BY <3>2 DEF Decide, Goto, Shape, CallTypes, LoopTypes, Tired, Ended
    <3> QED BY <1>10, <3>1, <3>2 DEF SendUnacknowledged, loopVars
  <2>7. FlagTypes' /\ LookTypes' /\ NetTypes'
    BY <1>10 DEF SendUnacknowledged, CountSend, cfgVars, netVars, reqVars,
                 Shape, FlagTypes, LookTypes, NetTypes
  <2> QED BY <2>1, <2>2, <2>3, <2>4, <2>5, <2>6, <2>7 DEF Shape
<1>11. ASSUME NEW o \in Ops, CancelUnacknowledged(o) PROVE Shape'
  <2>1. LockTypes'
    BY <1>11, ConstantsOK DEF CancelUnacknowledged, FreeSlot, cfgVars,
                              lockVars, reqVars, Shape, LockTypes
  <2>2. CallTypes'
    BY <1>11, ConstantsOK DEF CancelUnacknowledged, Goto, Return, DropWith,
                              Shape, CallTypes, Places, Results
  <2>3. Holding'
    BY <1>11, ConstantsOK DEF CancelUnacknowledged, Goto, Return, DropWith,
                              reqVars, Shape, Holding, CallTypes, LockTypes,
                              InSession, Places, Slotted
  <2>4. Tired'
    BY <1>11, ConstantsOK DEF CancelUnacknowledged, Goto, Return, DropWith,
                              loopVars, Shape, Tired, CallTypes, LoopTypes,
                              Ended, Places, InSession
  <2>5. FlagTypes' /\ LookTypes' /\ NetTypes' /\ OutTypes' /\ LoopTypes'
    BY <1>11 DEF CancelUnacknowledged, cfgVars, netVars, reqVars, histVars,
                 loopVars, Shape, FlagTypes, LookTypes, NetTypes, OutTypes,
                 LoopTypes
  <2> QED BY <2>1, <2>2, <2>3, <2>4, <2>5 DEF Shape
<1>12. ASSUME NEW o \in Ops, Receive(o) PROVE Shape'
  <2>0. ses[o] \in Ops
    BY <1>12 DEF Receive, Shape, Holding, InSession
  <2>1. LockTypes'
    BY <1>12, ConstantsOK DEF Receive, Decide, FreeSlot, cfgVars, lockVars,
                              reqVars, Shape, LockTypes
  <2>2. CallTypes'
    BY <1>12, ConstantsOK DEF Receive, Decide, Goto, DropWith, Shape,
                              CallTypes, Places, Results
  <2>3. NetTypes'
    <3>1. Tail(rx[ses[o]]) \in Seq(Datagram)
      BY <1>12, <2>0 DEF Receive, Shape, NetTypes
    <3> QED BY <1>12, <3>1 DEF Receive, Shape, NetTypes, netVars
  <2>4. OutTypes'
    <3>1. Head(rx[ses[o]]) \in Datagram
      BY <1>12, <2>0 DEF Receive, Shape, NetTypes
    <3>2. \A v \in {"ok", "nack"} :
             [cmd |-> Head(rx[ses[o]]).cmd, verdict |-> v] \in Entry
      BY <3>1 DEF Datagram, Entry
    <3>3. CASE UNCHANGED outcome
      BY <3>3 DEF Shape, OutTypes
    <3>4. CASE \E v \in {"ok", "nack"} : Decide(o, v, Head(rx[ses[o]]).cmd)
      BY <3>2, <3>4 DEF Decide, Shape, OutTypes
    <3> QED BY <1>12, <3>3, <3>4 DEF Receive, loopVars
  <2>5. LoopTypes'
    <3>1. CASE UNCHANGED loopVars
      BY <1>12, <3>1 DEF Receive, loopVars, histVars, Shape, LoopTypes
    <3>2. CASE \E v \in {"ok", "nack"} : Decide(o, v, Head(rx[ses[o]]).cmd)
      BY <1>12, <3>2 DEF Receive, Decide, histVars, Shape, LoopTypes
    <3> QED BY <1>12, <3>1, <3>2 DEF Receive, loopVars
  <2>6. Holding'
    BY <1>12, ConstantsOK DEF Receive, Decide, Goto, DropWith, reqVars, Shape,
                              Holding, CallTypes, LockTypes, InSession,
                              Places, Slotted
  <2>7. Tired'
    <3>1. CASE UNCHANGED timeouts /\ pc' \in {pc, [pc EXCEPT ![o] = "drop"]}
      BY <3>1 DEF Shape, CallTypes, Tired, Ended
    <3>2. CASE \E v \in {"ok", "nack"} : Decide(o, v, Head(rx[ses[o]]).cmd)
      BY <3>2 DEF Decide, Goto, Shape, CallTypes, LoopTypes, Tired, Ended
    <3> QED BY <1>12, <3>1, <3>2 DEF Receive, DropWith, Goto, loopVars
  <2>8. FlagTypes' /\ LookTypes'
    BY <1>12 DEF Receive, cfgVars, reqVars, histVars, Shape, FlagTypes,
                 LookTypes
  <2> QED BY <2>1, <2>2, <2>3, <2>4, <2>5, <2>6, <2>7, <2>8 DEF Shape
<1>13. ASSUME NEW o \in Ops, Timeout(o) PROVE Shape'
  <2>1. LockTypes'
    BY <1>13, ConstantsOK DEF Timeout, FreeSlot, cfgVars, lockVars, reqVars,
                              Shape, LockTypes
  <2>2. CallTypes'
    BY <1>13, ConstantsOK DEF Timeout, Goto, DropWith, Shape, CallTypes,
                              Places, Results
  <2>3. NetTypes'
    <3>1. rx' \in [Ops -> Seq(Datagram)]
      BY <1>13, DrainedType DEF Timeout, Shape
    <3> QED BY <1>13, <3>1 DEF Timeout, Shape, NetTypes, netVars
  <2>4. OutTypes'
    <3>1. [cmd |-> CurrentCommand(o), verdict |-> "timeout"] \in Entry
      BY CommandType, TypeOfShape DEF Entry
    <3>2. CASE UNCHANGED outcome
      BY <3>2 DEF Shape, OutTypes
    <3>3. CASE outcome' = [outcome EXCEPT ![o] =
                 Append(@, [cmd |-> CurrentCommand(o), verdict |-> "timeout"])]
      BY <3>1, <3>3 DEF Shape, OutTypes
    <3> QED BY <1>13, <3>2, <3>3 DEF Timeout
  <2>5. LoopTypes'
    <3>1. attempt' \in [Ops -> 1..2]
      <4>1. \/ attempt[o] # 2 /\ attempt' = [attempt EXCEPT ![o] = @ + 1]
            \/ UNCHANGED attempt
        BY <1>13 DEF Timeout, LastTry
      <4> QED BY <4>1 DEF Shape, LoopTypes
    <3>2. timeouts[o] # 2
      BY <1>13 DEF Timeout, Shape, Tired, Ended
    <3>3. timeouts' \in [Ops -> 0..2]
      <4>1. timeouts' \in {timeouts, [timeouts EXCEPT ![o] = @ + 1]}
        BY <1>13 DEF Timeout
      <4> QED BY <3>2, <4>1 DEF Shape, LoopTypes
    <3> QED BY <1>13, <3>1, <3>3 DEF Timeout, histVars, Shape, LoopTypes
  <2>6. Holding'
    BY <1>13, ConstantsOK DEF Timeout, Goto, DropWith, reqVars, Shape,
                              Holding, CallTypes, LockTypes, InSession,
                              Places, Slotted
  <2>7. Tired'
    <3>1. timeouts[o] # 2
      BY <1>13 DEF Timeout, Shape, Tired, Ended
    <3>2. CASE UNCHANGED timeouts
      BY <1>13, <3>1, <3>2 DEF Timeout, LastTry, GivesUp, DropWith, Goto, Shape,
                                CallTypes, LoopTypes, Tired, Ended
    <3>3. CASE /\ timeouts' = [timeouts EXCEPT ![o] = @ + 1]
               /\ IF GivesUp(timeouts[o] + 1) THEN DropWith(o, "z21_unreachable")
                                              ELSE Goto(o, "top")
      BY <3>3 DEF GivesUp, DropWith, Goto, Shape, CallTypes, LoopTypes, Tired, Ended
    <3> QED BY <1>13, <3>2, <3>3 DEF Timeout
  <2>8. FlagTypes' /\ LookTypes'
    BY <1>13 DEF Timeout, cfgVars, reqVars, histVars, Shape, FlagTypes,
                 LookTypes
  <2> QED BY <2>1, <2>2, <2>3, <2>4, <2>5, <2>6, <2>7, <2>8 DEF Shape
<1>14. ASSUME NEW o \in Ops, CancelAwait(o) PROVE Shape'
  <2>1. LockTypes'
    BY <1>14, ConstantsOK DEF CancelAwait, FreeSlot, cfgVars, lockVars,
                              reqVars, Shape, LockTypes
  <2>2. CallTypes'
    BY <1>14, ConstantsOK DEF CancelAwait, Goto, DropWith, Shape, CallTypes,
                              Places, Results
  <2>3. NetTypes'
    BY <1>14, DrainedType DEF CancelAwait, Shape, NetTypes, netVars
  <2>4. Holding'
    BY <1>14, ConstantsOK DEF CancelAwait, Goto, DropWith, reqVars, Shape,
                              Holding, CallTypes, LockTypes, InSession,
                              Places, Slotted
  <2>5. Tired'
    BY <1>14, ConstantsOK DEF CancelAwait, Goto, DropWith, loopVars, Shape,
                              Tired, CallTypes, LoopTypes, Ended, Places,
                              InSession
  <2>6. FlagTypes' /\ LookTypes' /\ OutTypes' /\ LoopTypes'
    BY <1>14 DEF CancelAwait, cfgVars, reqVars, histVars, loopVars, Shape,
                 FlagTypes, LookTypes, OutTypes, LoopTypes
  <2> QED BY <2>1, <2>2, <2>3, <2>4, <2>5, <2>6 DEF Shape
<1>15. ASSUME NEW o \in Ops, SocketError(o) PROVE Shape'
  <2>1. LockTypes'
    BY <1>15, ConstantsOK DEF SocketError, FreeSlot, cfgVars, lockVars,
                              reqVars, Shape, LockTypes
  <2>2. CallTypes'
    BY <1>15, ConstantsOK DEF SocketError, Goto, Return, DropWith, Shape,
                              CallTypes, Places, Results
  <2>3. Holding'
    BY <1>15, ConstantsOK DEF SocketError, Goto, Return, DropWith, reqVars,
                              Shape, Holding, CallTypes, LockTypes, InSession,
                              Places, Slotted
  <2>4. Tired'
    BY <1>15, ConstantsOK DEF SocketError, Goto, Return, DropWith, loopVars,
                              Shape, Tired, CallTypes, LoopTypes, Ended,
                              Places, InSession
  <2>5. FlagTypes' /\ LookTypes' /\ NetTypes' /\ OutTypes' /\ LoopTypes'
    BY <1>15 DEF SocketError, cfgVars, netVars, reqVars, histVars, loopVars,
                 Shape, FlagTypes, LookTypes, NetTypes, OutTypes, LoopTypes
  <2> QED BY <2>1, <2>2, <2>3, <2>4, <2>5 DEF Shape
<1>16. ASSUME NEW o \in Ops, DropSession(o) PROVE Shape'
  <2>1. LockTypes'
    BY <1>16, ConstantsOK DEF DropSession, cfgVars, reqVars, Shape, LockTypes
  <2>2. CallTypes'
    BY <1>16, ConstantsOK DEF DropSession, Goto, Shape, CallTypes, Places,
                              Results
  <2>3. Holding'
    BY <1>16, ConstantsOK DEF DropSession, Goto, reqVars, Shape, Holding,
                              CallTypes, LockTypes, InSession, Places,
                              Slotted
  <2>4. Tired'
    BY <1>16, ConstantsOK DEF DropSession, Goto, loopVars, Shape, Tired,
                              CallTypes, LoopTypes, Ended, Places, InSession
  <2>5. FlagTypes' /\ LookTypes' /\ NetTypes' /\ OutTypes' /\ LoopTypes'
    BY <1>16 DEF DropSession, cfgVars, netVars, reqVars, histVars, loopVars,
                 Shape, FlagTypes, LookTypes, NetTypes, OutTypes, LoopTypes
  <2> QED BY <2>1, <2>2, <2>3, <2>4, <2>5 DEF Shape
<1>17. ASSUME NEW o \in Ops, Observe(o) PROVE Shape'
  <2>0. ses[o] \in Ops
    BY <1>17 DEF Observe, Shape, Holding, InSession
  <2>1. CallTypes'
    BY <1>17, ConstantsOK DEF Observe, Goto, Return, Shape, CallTypes, Places,
                              Results
  <2>2. NetTypes'
    <3>1. rx[ses[o]] # <<>> => Tail(rx[ses[o]]) \in Seq(Datagram)
      BY <1>17, <2>0 DEF Observe, Shape, NetTypes
    <3> QED BY <1>17, <3>1, DrainedType DEF Observe, Shape, NetTypes, netVars
  <2>3. Holding'
    BY <1>17, ConstantsOK DEF Observe, Goto, Return, reqVars, Shape, Holding,
                              CallTypes, LockTypes, InSession, Places,
                              Slotted
  <2>4. Tired'
    BY <1>17, ConstantsOK DEF Observe, Goto, Return, loopVars, Shape, Tired,
                              CallTypes, LoopTypes, Ended, Places, InSession
  <2>5. LockTypes' /\ FlagTypes' /\ LookTypes' /\ OutTypes' /\ LoopTypes'
    BY <1>17 DEF Observe, cfgVars, lockVars, reqVars, histVars, loopVars,
                 Shape, LockTypes, FlagTypes, LookTypes, OutTypes, LoopTypes
  <2> QED BY <2>1, <2>2, <2>3, <2>4, <2>5 DEF Shape
<1>18. ASSUME NEW o \in Ops, Cancel(o) PROVE Shape'
  <2>1. FlagTypes'
    BY <1>18, ConstantsOK DEF Cancel, cfgVars, Shape, FlagTypes
  <2>2. LockTypes' /\ CallTypes' /\ LookTypes' /\ NetTypes' /\ OutTypes' /\ LoopTypes' /\ Holding' /\ Tired'
    BY <1>18 DEF Cancel, cfgVars, lockVars, netVars, reqVars, histVars,
                 loopVars, Shape, LockTypes, CallTypes, LookTypes, NetTypes,
                 OutTypes, LoopTypes, Holding, Tired
  <2> QED BY <2>1, <2>2 DEF Shape
<1>19. ASSUME NEW o \in Ops, Close(o) PROVE Shape'
  <2>1. LockTypes'
    BY <1>19, ConstantsOK DEF Close, cfgVars, reqVars, Shape, LockTypes
  <2>2. CallTypes'
    BY <1>19, ConstantsOK DEF Close, Goto, Shape, CallTypes, Places, Results
  <2>3. Holding'
    BY <1>19, ConstantsOK DEF Close, Goto, reqVars, Shape, Holding, CallTypes,
                              LockTypes, InSession, Places, Slotted
  <2>4. Tired'
    BY <1>19, ConstantsOK DEF Close, Goto, loopVars, Shape, Tired, CallTypes,
                              LoopTypes, Ended, Places, InSession
  <2>5. FlagTypes' /\ LookTypes' /\ NetTypes' /\ OutTypes' /\ LoopTypes'
    BY <1>19 DEF Close, cfgVars, netVars, reqVars, histVars, loopVars, Shape,
                 FlagTypes, LookTypes, NetTypes, OutTypes, LoopTypes
  <2> QED BY <2>1, <2>2, <2>3, <2>4, <2>5 DEF Shape
<1>20. ASSUME WriteConfig PROVE Shape'
  <2>1. LockTypes'
    BY <1>20, ConstantsOK DEF WriteConfig, lockVars, reqVars, Shape, LockTypes
  <2>2. FlagTypes'
    BY <1>20, ConstantsOK DEF WriteConfig, Shape, FlagTypes
  <2>3. LookTypes'
    BY <1>20, ConstantsOK DEF WriteConfig, reqVars, Shape, LookTypes, LockTypes
  <2>4. CallTypes' /\ NetTypes' /\ OutTypes' /\ LoopTypes' /\ Holding' /\ Tired'
    BY <1>20 DEF WriteConfig, netVars, reqVars, loopVars, Shape, CallTypes,
                 NetTypes, OutTypes, LoopTypes, Holding, Tired
  <2> QED BY <2>1, <2>2, <2>3, <2>4 DEF Shape
<1>21. ASSUME DropZ21 PROVE Shape'
  <2>1. LockTypes'
    BY <1>21, ConstantsOK DEF DropZ21, lockVars, reqVars, Shape, LockTypes
  <2>2. FlagTypes'
    BY <1>21, ConstantsOK DEF DropZ21, Shape, FlagTypes
  <2>3. CallTypes' /\ LookTypes' /\ NetTypes' /\ OutTypes' /\ LoopTypes' /\ Holding' /\ Tired'
    BY <1>21 DEF DropZ21, netVars, reqVars, histVars, loopVars, Shape,
                 CallTypes, LookTypes, NetTypes, OutTypes, LoopTypes, Holding,
                 Tired
  <2> QED BY <2>1, <2>2, <2>3 DEF Shape
<1>22. ASSUME Station PROVE Shape'
  <2>1. NetTypes'
    <3> PICK d \in wire, v \in {"ok", "nack", "sc"} :
          /\ wire' = wire \ {d}
          /\ rx' = IF Open(d.ses)
                   THEN [rx EXCEPT ![d.ses] = Append(@, [cmd |-> d.cmd, verdict |-> v])]
                   ELSE rx
          /\ programmed' = IF v = "ok" THEN programmed \cup {d.cmd} ELSE programmed
      BY <1>22 DEF Station
    <3>1. d.ses \in Ops /\ d.cmd \in Command
      BY DEF Shape, NetTypes
    <3>2. [cmd |-> d.cmd, verdict |-> v] \in Datagram
      BY <3>1 DEF Datagram
    <3>3. Append(rx[d.ses], [cmd |-> d.cmd, verdict |-> v]) \in Seq(Datagram)
      BY <3>1, <3>2 DEF Shape, NetTypes
    <3> QED BY <3>1, <3>3 DEF Shape, NetTypes
  <2>2. LockTypes' /\ FlagTypes' /\ CallTypes' /\ LookTypes' /\ OutTypes' /\ LoopTypes' /\ Holding' /\ Tired'
    BY <1>22 DEF Station, cfgVars, lockVars, reqVars, histVars, loopVars,
                 Shape, LockTypes, FlagTypes, CallTypes, LookTypes, OutTypes,
                 LoopTypes, Holding, Tired
  <2> QED BY <2>1, <2>2 DEF Shape
<1>23. ASSUME Lose PROVE Shape'
  <2>1. NetTypes'
    BY <1>23, ConstantsOK DEF Lose, Shape, NetTypes
  <2>2. LockTypes' /\ FlagTypes' /\ CallTypes' /\ LookTypes' /\ OutTypes' /\ LoopTypes' /\ Holding' /\ Tired'
    BY <1>23 DEF Lose, cfgVars, lockVars, reqVars, histVars, loopVars, Shape,
                 LockTypes, FlagTypes, CallTypes, LookTypes, OutTypes,
                 LoopTypes, Holding, Tired
  <2> QED BY <2>1, <2>2 DEF Shape
<1>24. ASSUME Terminated PROVE Shape'
  BY <1>24 DEF Terminated, vars, cfgVars, lockVars, netVars, reqVars,
               histVars, loopVars, Shape, LockTypes, FlagTypes, CallTypes,
               LookTypes, NetTypes, OutTypes, LoopTypes, Holding, Tired
<1>25. ASSUME UNCHANGED vars PROVE Shape'
  BY <1>25 DEF vars, cfgVars, lockVars, netVars, reqVars, histVars, loopVars,
               Shape, LockTypes, FlagTypes, CallTypes, LookTypes, NetTypes,
               OutTypes, LoopTypes, Holding, Tired
<1> QED BY <1>1, <1>2, <1>3, <1>4, <1>5, <1>6, <1>7, <1>8, <1>9, <1>10, <1>11,
           <1>12, <1>13, <1>14, <1>15, <1>16, <1>17, <1>18, <1>19, <1>20,
           <1>21, <1>22, <1>23, <1>24, <1>25 DEF Next, Step

(* Every variable keeps its type, whatever the calls, requests and faults. *)
THEOREM TypeCorrect == Spec => []TypeOK
<1>1. Spec => []Shape
  BY ShapeInit, ShapeStep, PTL DEF Spec
<1> QED BY <1>1, TypeOfShape, PTL

-----------------------------------------------------------------------------
(* The safety properties of Z21Bus, for every set of calls and faults.     *)

Before == {"idle", "lock", "cfg", "gen", "connect"}

\* A call at a command holds the slot of its session.
Held == \A o \in Ops : pc[o] \in Slotted => slot[ses[o]] = o

\* The send after a cancellation is the last thing a batch does.
Late ==
  \A o \in Ops :
    /\ lateSends[o] <= 1
    /\ lateSends[o] = 1 => pc[o] \in {"drop"} \cup Ended

\* A session was opened by a call that is past session() ever after, under a
\* generation that has been the current one.
Opened ==
  /\ inner # NoOne => pc[inner] \notin Before
  /\ \A o \in Ops : ses[o] # NoOne => pc[ses[o]] \notin Before
  /\ \A o \in Ops : pc[o] \in Before => ses[o] = NoOne
  /\ \A o \in Ops : look[o].gen <= generation

\* The CV begun on a replaced session is the last one its batch begins.
Stale ==
  \A o \in Ops :
    /\ staleCvs[o] <= 1
    /\ staleCvs[o] = 1 =>
         /\ ses[o] # NoOne
         /\ look[ses[o]].gen # generation
         /\ \/ pc[o] \in {"await", "top", "drop"} \cup Ended
            \/ pc[o] = "send" /\ attempt[o] = 2

\* The endpoint a call has read, and that of its session, was configured in
\* its time.
Endpoint ==
  \A o \in Ops :
    /\ Active(o) => cfgHost \in hostsSeen[o]
    /\ pc[o] \in {"gen", "connect"} => look[o].host \in hostsSeen[o]
    /\ ses[o] # NoOne => look[ses[o]].host \in hostsSeen[o]

\* A call that has the slot keeps it until its command is decided.
LEMMA HeldStep == Shape /\ Held /\ [Next]_vars => Held'
<1> SUFFICES ASSUME Shape, Held, [Next]_vars PROVE Held'
  OBVIOUS
<1> USE ConstantsOK DEF Held, Shape, LockTypes, CallTypes, Holding, InSession,
                        Slotted
<1>1. ASSUME NEW p \in Ops, Start(p) PROVE Held'
  BY <1>1 DEF Start, Goto
<1>2. ASSUME NEW p \in Ops, LockInner(p) PROVE Held'
  BY <1>2 DEF LockInner, Goto, Return, reqVars
<1>3. ASSUME NEW p \in Ops, ReadConfig(p) PROVE Held'
  BY <1>3 DEF ReadConfig, Goto, Return
<1>4. ASSUME NEW p \in Ops, ReadGeneration(p) PROVE Held'
  BY <1>4 DEF ReadGeneration, Goto, Body
<1>5. ASSUME NEW p \in Ops, Connect(p) PROVE Held'
  BY <1>5 DEF Connect, Goto, Return, Body
<1>6. ASSUME NEW p \in Ops, NextCv(p) PROVE Held'
  BY <1>6 DEF NextCv, Goto, Return, reqVars
<1>7. ASSUME NEW p \in Ops, Settle(p) PROVE Held'
  BY <1>7 DEF Settle, Goto, Return, reqVars
<1>8. ASSUME NEW p \in Ops, TakeSlot(p) PROVE Held'
  BY <1>8 DEF TakeSlot, Goto, reqVars, SlotFree
<1>9. ASSUME NEW p \in Ops, Send(p) PROVE Held'
  BY <1>9 DEF Send, Goto, DropWith, FreeSlot, reqVars
<1>10. ASSUME NEW p \in Ops, SendUnacknowledged(p) PROVE Held'
  BY <1>10 DEF SendUnacknowledged, Decide, FreeSlot, Goto, Return, reqVars
<1>11. ASSUME NEW p \in Ops, CancelUnacknowledged(p) PROVE Held'
  BY <1>11 DEF CancelUnacknowledged, FreeSlot, Goto, Return, DropWith, reqVars
<1>12. ASSUME NEW p \in Ops, Receive(p) PROVE Held'
  BY <1>12 DEF Receive, Decide, FreeSlot, Goto, DropWith, reqVars
<1>13. ASSUME NEW p \in Ops, Timeout(p) PROVE Held'
  BY <1>13 DEF Timeout, FreeSlot, Goto, DropWith, reqVars
<1>14. ASSUME NEW p \in Ops, CancelAwait(p) PROVE Held'
  BY <1>14 DEF CancelAwait, FreeSlot, Goto, DropWith, reqVars
<1>15. ASSUME NEW p \in Ops, SocketError(p) PROVE Held'
  BY <1>15 DEF SocketError, FreeSlot, Goto, Return, DropWith, reqVars
<1>16. ASSUME NEW p \in Ops, DropSession(p) PROVE Held'
  BY <1>16 DEF DropSession, Goto, reqVars
<1>17. ASSUME NEW p \in Ops, Observe(p) PROVE Held'
  BY <1>17 DEF Observe, Goto, Return, reqVars
<1>18. ASSUME NEW p \in Ops, Close(p) PROVE Held'
  BY <1>18 DEF Close, Goto, reqVars
<1>19. CASE UNCHANGED <<slot, pc, ses>>
  BY <1>19
<1>20. CASE \/ (\E p \in Ops : Cancel(p))
           \/ WriteConfig
           \/ DropZ21
           \/ Station
           \/ Lose
           \/ UNCHANGED vars
  BY <1>20, <1>19 DEF Cancel, WriteConfig, DropZ21, Station, Lose, vars, reqVars
<1> QED BY <1>1, <1>2, <1>3, <1>4, <1>5, <1>6, <1>7, <1>8, <1>9, <1>10, <1>11,
           <1>12, <1>13, <1>14, <1>15, <1>16, <1>17, <1>18, <1>20 DEF Next,
           Step, Terminated

\* After a cancelled send there is no other.
LEMMA LateStep == Shape /\ Late /\ [Next]_vars => Late'
<1> SUFFICES ASSUME Shape, Late, [Next]_vars PROVE Late'
  OBVIOUS
<1> USE DEF Late, Shape, CallTypes, LoopTypes, Slotted, Ended
<1>1. ASSUME NEW p \in Ops, Start(p) PROVE Late'
  BY <1>1 DEF Start, Goto
<1>2. ASSUME NEW p \in Ops, LockInner(p) PROVE Late'
  BY <1>2 DEF LockInner, Goto, Return, histVars
<1>3. ASSUME NEW p \in Ops, ReadConfig(p) PROVE Late'
  BY <1>3 DEF ReadConfig, Goto, Return, histVars
<1>4. ASSUME NEW p \in Ops, ReadGeneration(p) PROVE Late'
  BY <1>4 DEF ReadGeneration, Goto, Body, histVars
<1>5. ASSUME NEW p \in Ops, Connect(p) PROVE Late'
  BY <1>5 DEF Connect, Goto, Return, Body, histVars
<1>6. ASSUME NEW p \in Ops, NextCv(p) PROVE Late'
  BY <1>6 DEF NextCv, Goto, Return, histVars
<1>7. ASSUME NEW p \in Ops, Settle(p) PROVE Late'
  BY <1>7 DEF Settle, Goto, Return, histVars
<1>8. ASSUME NEW p \in Ops, TakeSlot(p) PROVE Late'
  BY <1>8 DEF TakeSlot, Goto, histVars
<1>9. ASSUME NEW p \in Ops, Send(p) PROVE Late'
  <2>1. lateSends[p] = 0
    BY <1>9 DEF Send, Shape, LoopTypes, Late, Ended
  <2>2. CASE cancelled[p]
    BY <1>9, <2>1, <2>2 DEF Send, CountSend, StopsListening, DropWith, Goto, Shape,
                              CallTypes, LoopTypes, Late
  <2>3. CASE ~cancelled[p]
    BY <1>9, <2>1, <2>3 DEF Send, CountSend, StopsListening, Goto, Shape, CallTypes,
                              LoopTypes, Late, Ended
  <2> QED BY <2>2, <2>3
<1>10. ASSUME NEW p \in Ops, SendUnacknowledged(p) PROVE Late'
  BY <1>10 DEF SendUnacknowledged, CountSend, Decide, Goto, Return
<1>11. ASSUME NEW p \in Ops, CancelUnacknowledged(p) PROVE Late'
  BY <1>11 DEF CancelUnacknowledged, Goto, Return, DropWith, histVars
<1>12. ASSUME NEW p \in Ops, Receive(p) PROVE Late'
  BY <1>12 DEF Receive, Decide, Goto, DropWith, histVars
<1>13. ASSUME NEW p \in Ops, Timeout(p) PROVE Late'
  BY <1>13 DEF Timeout, Goto, DropWith, histVars
<1>14. ASSUME NEW p \in Ops, CancelAwait(p) PROVE Late'
  BY <1>14 DEF CancelAwait, Goto, DropWith, histVars
<1>15. ASSUME NEW p \in Ops, SocketError(p) PROVE Late'
  BY <1>15 DEF SocketError, Goto, Return, DropWith, histVars
<1>16. ASSUME NEW p \in Ops, DropSession(p) PROVE Late'
  BY <1>16 DEF DropSession, Goto, histVars
<1>17. ASSUME NEW p \in Ops, Observe(p) PROVE Late'
  BY <1>17 DEF Observe, Goto, Return, histVars
<1>18. ASSUME NEW p \in Ops, Close(p) PROVE Late'
  BY <1>18 DEF Close, Goto, histVars
<1>19. CASE UNCHANGED <<pc, lateSends>>
  BY <1>19
<1>20. CASE \/ (\E p \in Ops : Cancel(p))
           \/ WriteConfig
           \/ DropZ21
           \/ Station
           \/ Lose
           \/ UNCHANGED vars
  BY <1>20, <1>19 DEF Cancel, WriteConfig, DropZ21, Station, Lose, vars,
                      histVars
<1> QED BY <1>1, <1>2, <1>3, <1>4, <1>5, <1>6, <1>7, <1>8, <1>9, <1>10, <1>11,
           <1>12, <1>13, <1>14, <1>15, <1>16, <1>17, <1>18, <1>20 DEF Next,
           Step, Terminated

\* Sessions stay the ones opened by calls past session().
LEMMA OpenedStep == Shape /\ Opened /\ [Next]_vars => Opened'
<1> SUFFICES ASSUME Shape, Opened, [Next]_vars PROVE Opened'
  OBVIOUS
<1> USE ConstantsOK DEF Opened, Shape, LockTypes, CallTypes, LookTypes, Before
<1>1. ASSUME NEW p \in Ops, Start(p) PROVE Opened'
  BY <1>1 DEF Start, Goto, cfgVars, lockVars
<1>2. ASSUME NEW p \in Ops, LockInner(p) PROVE Opened'
  BY <1>2 DEF LockInner, Goto, Return, cfgVars, reqVars
<1>3. ASSUME NEW p \in Ops, ReadConfig(p) PROVE Opened'
  BY <1>3 DEF ReadConfig, Goto, Return, cfgVars
<1>4. ASSUME NEW p \in Ops, ReadGeneration(p) PROVE Opened'
  <2>1. Body(p) \notin Before
    BY DEF Body, Before
  <2>2. look' = [look EXCEPT ![p].gen = generation]
    BY <1>4 DEF ReadGeneration
  <2>3. \A o \in Ops : look'[o].gen <= generation
    BY <2>2 DEF Opened, Shape, LookTypes, LockTypes
  <2>4. CASE Fresh(p)
    <3>1. /\ inner \in Ops /\ UNCHANGED <<inner, generation>>
          /\ ses' = [ses EXCEPT ![p] = inner]
          /\ pc' = [pc EXCEPT ![p] = Body(p)]
      BY <1>4, <2>4 DEF ReadGeneration, Fresh, Goto, cfgVars
    <3> QED BY <1>4, <2>1, <2>3, <3>1 DEF ReadGeneration
  <2>5. CASE ~Fresh(p)
    BY <1>4, <2>3, <2>5 DEF ReadGeneration, Goto, cfgVars, Shape, CallTypes,
                          LockTypes, Opened, Before
  <2> QED BY <2>4, <2>5
<1>5. ASSUME NEW p \in Ops, Connect(p) PROVE Opened'
  BY <1>5 DEF Connect, Goto, Return, Body, cfgVars
<1>6. ASSUME NEW p \in Ops, NextCv(p) PROVE Opened'
  <2>1. /\ pc[p] = "top"
        /\ \E place \in Places \ Before : pc' = [pc EXCEPT ![p] = place]
    BY <1>6 DEF NextCv, Goto, Return, Places, Before
  <2>2. UNCHANGED <<inner, ses, look, generation>>
    BY <1>6 DEF NextCv, cfgVars, lockVars, reqVars
  <2> QED BY <2>1, <2>2 DEF Shape, CallTypes, Opened, Before
<1>7. ASSUME NEW p \in Ops, Settle(p) PROVE Opened'
  BY <1>7 DEF Settle, Goto, Return, cfgVars, lockVars, reqVars
<1>8. ASSUME NEW p \in Ops, TakeSlot(p) PROVE Opened'
  BY <1>8 DEF TakeSlot, Goto, cfgVars, lockVars, reqVars
<1>9. ASSUME NEW p \in Ops, Send(p) PROVE Opened'
  BY <1>9 DEF Send, Goto, DropWith, cfgVars, lockVars, reqVars
<1>10. ASSUME NEW p \in Ops, SendUnacknowledged(p) PROVE Opened'
  BY <1>10 DEF SendUnacknowledged, Decide, Goto, Return, cfgVars, lockVars,
               reqVars
<1>11. ASSUME NEW p \in Ops, CancelUnacknowledged(p) PROVE Opened'
  BY <1>11 DEF CancelUnacknowledged, Goto, Return, DropWith, cfgVars,
               lockVars, reqVars
<1>12. ASSUME NEW p \in Ops, Receive(p) PROVE Opened'
  BY <1>12 DEF Receive, Decide, Goto, DropWith, cfgVars, lockVars, reqVars
<1>13. ASSUME NEW p \in Ops, Timeout(p) PROVE Opened'
  <2>1. /\ pc[p] = "await"
        /\ \E place \in Places \ Before : pc' = [pc EXCEPT ![p] = place]
    BY <1>13 DEF Timeout, Goto, DropWith, Places, Before
  <2>2. UNCHANGED <<inner, ses, look, generation>>
    BY <1>13 DEF Timeout, cfgVars, lockVars, reqVars
  <2> QED BY <2>1, <2>2 DEF Shape, CallTypes, Opened, Before
<1>14. ASSUME NEW p \in Ops, CancelAwait(p) PROVE Opened'
  BY <1>14 DEF CancelAwait, Goto, DropWith, cfgVars, lockVars, reqVars
<1>15. ASSUME NEW p \in Ops, SocketError(p) PROVE Opened'
  BY <1>15 DEF SocketError, Goto, Return, DropWith, cfgVars, lockVars, reqVars
<1>16. ASSUME NEW p \in Ops, DropSession(p) PROVE Opened'
  BY <1>16 DEF DropSession, Goto, cfgVars, reqVars
<1>17. ASSUME NEW p \in Ops, Observe(p) PROVE Opened'
  BY <1>17 DEF Observe, Goto, Return, cfgVars, lockVars, reqVars
<1>18. ASSUME NEW p \in Ops, Close(p) PROVE Opened'
  BY <1>18 DEF Close, Goto, cfgVars, reqVars
<1>19. ASSUME DropZ21 PROVE Opened'
  BY <1>19 DEF DropZ21, lockVars, reqVars
<1>20. CASE UNCHANGED <<generation, inner, pc, look, ses>>
  BY <1>20
<1>21. CASE \/ (\E p \in Ops : Cancel(p))
           \/ WriteConfig
           \/ Station
           \/ Lose
           \/ UNCHANGED vars
  BY <1>21, <1>20 DEF Cancel, WriteConfig, Station, Lose, vars, cfgVars,
                      lockVars, reqVars
<1> QED BY <1>1, <1>2, <1>3, <1>4, <1>5, <1>6, <1>7, <1>8, <1>9, <1>10, <1>11,
           <1>12, <1>13, <1>14, <1>15, <1>16, <1>17, <1>18, <1>19, <1>21 DEF
           Next, Step, Terminated

\* A replaced session is noticed at the head of the next CV.
LEMMA StaleStep == Shape /\ Opened /\ Stale /\ [Next]_vars => Stale'
<1> SUFFICES ASSUME Shape, Opened, Stale, [Next]_vars PROVE Stale'
  OBVIOUS
<1> USE ConstantsOK DEF Stale, Shape, LockTypes, CallTypes, LookTypes,
                        LoopTypes, Before, Ended, Opened, Slotted
<1>1. ASSUME NEW p \in Ops, Start(p) PROVE Stale'
  BY <1>1 DEF Start, Goto, cfgVars, loopVars
<1>2. ASSUME NEW p \in Ops, LockInner(p) PROVE Stale'
  BY <1>2 DEF LockInner, Goto, Return, cfgVars, reqVars, histVars, loopVars
<1>3. ASSUME NEW p \in Ops, ReadConfig(p) PROVE Stale'
  BY <1>3 DEF ReadConfig, Goto, Return, cfgVars, histVars, loopVars
<1>4. ASSUME NEW p \in Ops, ReadGeneration(p) PROVE Stale'
  BY <1>4 DEF ReadGeneration, Goto, Body, cfgVars, histVars, loopVars
<1>5. ASSUME NEW p \in Ops, Connect(p) PROVE Stale'
  BY <1>5 DEF Connect, Goto, Return, Body, cfgVars, histVars, loopVars
<1>6. ASSUME NEW p \in Ops, NextCv(p) PROVE Stale'
  BY <1>6 DEF NextCv, Goto, Return, cfgVars, reqVars, histVars, Refusal,
              Replaced
<1>7. ASSUME NEW p \in Ops, Settle(p) PROVE Stale'
  BY <1>7 DEF Settle, Goto, Return, cfgVars, reqVars, histVars, loopVars
<1>8. ASSUME NEW p \in Ops, TakeSlot(p) PROVE Stale'
  BY <1>8 DEF TakeSlot, Goto, cfgVars, reqVars, histVars, loopVars
<1>9. ASSUME NEW p \in Ops, Send(p) PROVE Stale'
  BY <1>9 DEF Send, CountSend, Goto, DropWith, cfgVars, reqVars, loopVars,
              Replaced, Holding, InSession
<1>10. ASSUME NEW p \in Ops, SendUnacknowledged(p) PROVE Stale'
  <2>1. pc[p] = "send" /\ ses[p] # NoOne /\ attempt[p] \in 1..2
    BY <1>10 DEF SendUnacknowledged, Holding, InSession
  <2>2. UNCHANGED <<ses, look, generation>>
    BY <1>10 DEF SendUnacknowledged, cfgVars, reqVars
  <2>3. staleCvs' = [staleCvs EXCEPT ![p] =
                       IF attempt[p] = 1 /\ Replaced(p) THEN @ + 1 ELSE @]
    BY <1>10 DEF SendUnacknowledged, CountSend
  <2>4. \/ /\ attempt' = [attempt EXCEPT ![p] = 2]
           /\ UNCHANGED pc
        \/ /\ UNCHANGED attempt
           /\ \E place \in {"top", "done"} : pc' = [pc EXCEPT ![p] = place]
    BY <1>10, <2>1 DEF SendUnacknowledged, Packets, Decide, Goto, Return, loopVars
  <2> QED BY <2>1, <2>2, <2>3, <2>4 DEF Replaced
<1>11. ASSUME NEW p \in Ops, CancelUnacknowledged(p) PROVE Stale'
  BY <1>11 DEF CancelUnacknowledged, Goto, Return, DropWith, cfgVars, reqVars,
               histVars, loopVars
<1>12. ASSUME NEW p \in Ops, Receive(p) PROVE Stale'
  BY <1>12 DEF Receive, Decide, Goto, DropWith, cfgVars, reqVars, histVars,
               loopVars
<1>13. ASSUME NEW p \in Ops, Timeout(p) PROVE Stale'
  <2>1. /\ pc[p] = "await"
        /\ \/ /\ attempt[p] # 2
              /\ attempt' = [attempt EXCEPT ![p] = @ + 1]
              /\ pc' = [pc EXCEPT ![p] = "send"]
           \/ /\ UNCHANGED attempt
              /\ \E place \in {"top", "drop"} : pc' = [pc EXCEPT ![p] = place]
    BY <1>13 DEF Timeout, LastTry, Goto, DropWith
  <2>2. UNCHANGED <<ses, look, generation, staleCvs>>
    BY <1>13 DEF Timeout, cfgVars, reqVars, histVars
  <2> QED BY <2>1, <2>2 DEF Shape, CallTypes, LoopTypes, Stale, Ended
<1>14. ASSUME NEW p \in Ops, CancelAwait(p) PROVE Stale'
  BY <1>14 DEF CancelAwait, Goto, DropWith, cfgVars, reqVars, histVars, loopVars
<1>15. ASSUME NEW p \in Ops, SocketError(p) PROVE Stale'
  BY <1>15 DEF SocketError, Goto, Return, DropWith, cfgVars, reqVars,
               histVars, loopVars
<1>16. ASSUME NEW p \in Ops, DropSession(p) PROVE Stale'
  BY <1>16 DEF DropSession, Goto, cfgVars, reqVars, histVars, loopVars
<1>17. ASSUME NEW p \in Ops, Observe(p) PROVE Stale'
  BY <1>17 DEF Observe, Goto, Return, cfgVars, reqVars, histVars, loopVars
<1>18. ASSUME NEW p \in Ops, Close(p) PROVE Stale'
  BY <1>18 DEF Close, Goto, cfgVars, reqVars, histVars, loopVars
<1>19. ASSUME DropZ21 PROVE Stale'
  BY <1>19 DEF DropZ21, reqVars, histVars, loopVars
<1>20. CASE UNCHANGED <<generation, pc, look, ses, attempt, staleCvs>>
  BY <1>20
<1>21. CASE \/ (\E p \in Ops : Cancel(p))
           \/ WriteConfig
           \/ Station
           \/ Lose
           \/ UNCHANGED vars
  BY <1>21, <1>20 DEF Cancel, WriteConfig, Station, Lose, vars, cfgVars,
                      reqVars, histVars, loopVars
<1> QED BY <1>1, <1>2, <1>3, <1>4, <1>5, <1>6, <1>7, <1>8, <1>9, <1>10, <1>11,
           <1>12, <1>13, <1>14, <1>15, <1>16, <1>17, <1>18, <1>19, <1>21 DEF
           Next, Step, Terminated

\* The endpoint of every session was configured in the time of its users.
LEMMA EndpointStep == Shape /\ Opened /\ Endpoint /\ [Next]_vars => Endpoint'
<1> SUFFICES ASSUME Shape, Opened, Endpoint, [Next]_vars PROVE Endpoint'
  OBVIOUS
<1> USE ConstantsOK DEF Endpoint, Shape, LockTypes, CallTypes, LookTypes,
                        Before, Ended, Opened, Active
<1>1. ASSUME NEW p \in Ops, Start(p) PROVE Endpoint'
  BY <1>1 DEF Start, Goto, cfgVars
<1>2. ASSUME NEW p \in Ops, LockInner(p) PROVE Endpoint'
  BY <1>2 DEF LockInner, Goto, Return, cfgVars, reqVars, histVars
<1>3. ASSUME NEW p \in Ops, ReadConfig(p) PROVE Endpoint'
  <2>1. pc[p] = "cfg" /\ ses[p] = NoOne /\ cfgHost \in hostsSeen[p]
    BY <1>3 DEF ReadConfig, Opened, Before, Endpoint, Active, Ended
  <2>2. \A o \in Ops : ses[o] # NoOne => ses[o] # p
    BY <2>1 DEF Opened, Before
  <2>3. /\ UNCHANGED <<cfgHost, ses, hostsSeen>>
        /\ \/ /\ UNCHANGED look
              /\ pc' = [pc EXCEPT ![p] = "done"]
           \/ /\ look' = [look EXCEPT ![p].host = cfgHost]
              /\ pc' = [pc EXCEPT ![p] = "gen"]
    BY <1>3 DEF ReadConfig, Goto, Return, cfgVars, histVars
  <2> QED BY <2>1, <2>2, <2>3 DEF Shape, CallTypes, LookTypes, LockTypes, Endpoint,
                                  Active, Ended
<1>4. ASSUME NEW p \in Ops, ReadGeneration(p) PROVE Endpoint'
  BY <1>4 DEF ReadGeneration, Goto, Body, cfgVars, histVars, Fresh
<1>5. ASSUME NEW p \in Ops, Connect(p) PROVE Endpoint'
  BY <1>5 DEF Connect, Goto, Return, Body, cfgVars, histVars
<1>6. ASSUME NEW p \in Ops, NextCv(p) PROVE Endpoint'
  BY <1>6 DEF NextCv, Goto, Return, cfgVars, reqVars, histVars
<1>7. ASSUME NEW p \in Ops, Settle(p) PROVE Endpoint'
  BY <1>7 DEF Settle, Goto, Return, cfgVars, reqVars, histVars
<1>8. ASSUME NEW p \in Ops, TakeSlot(p) PROVE Endpoint'
  BY <1>8 DEF TakeSlot, Goto, cfgVars, reqVars, histVars
<1>9. ASSUME NEW p \in Ops, Send(p) PROVE Endpoint'
  BY <1>9 DEF Send, CountSend, Goto, DropWith, cfgVars, reqVars
<1>10. ASSUME NEW p \in Ops, SendUnacknowledged(p) PROVE Endpoint'
  BY <1>10 DEF SendUnacknowledged, CountSend, Decide, Goto, Return, cfgVars,
               reqVars
<1>11. ASSUME NEW p \in Ops, CancelUnacknowledged(p) PROVE Endpoint'
  BY <1>11 DEF CancelUnacknowledged, Goto, Return, DropWith, cfgVars, reqVars,
               histVars
<1>12. ASSUME NEW p \in Ops, Receive(p) PROVE Endpoint'
  BY <1>12 DEF Receive, Decide, Goto, DropWith, cfgVars, reqVars, histVars
<1>13. ASSUME NEW p \in Ops, Timeout(p) PROVE Endpoint'
  BY <1>13 DEF Timeout, Goto, DropWith, cfgVars, reqVars, histVars
<1>14. ASSUME NEW p \in Ops, CancelAwait(p) PROVE Endpoint'
  BY <1>14 DEF CancelAwait, Goto, DropWith, cfgVars, reqVars, histVars
<1>15. ASSUME NEW p \in Ops, SocketError(p) PROVE Endpoint'
  BY <1>15 DEF SocketError, Goto, Return, DropWith, cfgVars, reqVars,
               histVars, Slotted
<1>16. ASSUME NEW p \in Ops, DropSession(p) PROVE Endpoint'
  BY <1>16 DEF DropSession, Goto, cfgVars, reqVars, histVars
<1>17. ASSUME NEW p \in Ops, Observe(p) PROVE Endpoint'
  BY <1>17 DEF Observe, Goto, Return, cfgVars, reqVars, histVars
<1>18. ASSUME NEW p \in Ops, Close(p) PROVE Endpoint'
  BY <1>18 DEF Close, Goto, cfgVars, reqVars, histVars
<1>19. ASSUME WriteConfig PROVE Endpoint'
  BY <1>19 DEF WriteConfig, reqVars
<1>20. CASE UNCHANGED <<cfgHost, pc, look, ses, hostsSeen>>
  BY <1>20
<1>21. CASE \/ (\E p \in Ops : Cancel(p))
           \/ DropZ21
           \/ Station
           \/ Lose
           \/ UNCHANGED vars
  BY <1>21, <1>20 DEF Cancel, DropZ21, Station, Lose, vars, cfgVars, reqVars,
                      histVars
<1> QED BY <1>1, <1>2, <1>3, <1>4, <1>5, <1>6, <1>7, <1>8, <1>9, <1>10, <1>11,
           <1>12, <1>13, <1>14, <1>15, <1>16, <1>17, <1>18, <1>19, <1>21 DEF
           Next, Step, Terminated

\* A dropped session does not come back.
LEMMA RetiredStep ==
  Shape /\ Opened /\ BrokenSessionRetired /\ [Next]_vars => BrokenSessionRetired'
<1> SUFFICES ASSUME Shape, Opened, BrokenSessionRetired, [Next]_vars PROVE BrokenSessionRetired'
  OBVIOUS
<1> USE ConstantsOK DEF BrokenSessionRetired, Shape, LockTypes, CallTypes,
                        Holding, InSession, Before, Opened, CvKinds, Slotted
<1>1. ASSUME NEW p \in Ops, Start(p) PROVE BrokenSessionRetired'
  BY <1>1 DEF Start, Goto, lockVars
<1>2. ASSUME NEW p \in Ops, LockInner(p) PROVE BrokenSessionRetired'
  BY <1>2 DEF LockInner, Goto, Return, reqVars
<1>3. ASSUME NEW p \in Ops, ReadConfig(p) PROVE BrokenSessionRetired'
  BY <1>3 DEF ReadConfig, Goto, Return
<1>4. ASSUME NEW p \in Ops, ReadGeneration(p) PROVE BrokenSessionRetired'
  BY <1>4 DEF ReadGeneration, Goto, Body
<1>5. ASSUME NEW p \in Ops, Connect(p) PROVE BrokenSessionRetired'
  BY <1>5 DEF Connect, Goto, Return, Body
<1>6. ASSUME NEW p \in Ops, NextCv(p) PROVE BrokenSessionRetired'
  BY <1>6 DEF NextCv, Goto, Return, lockVars, reqVars, Refusal
<1>7. ASSUME NEW p \in Ops, Settle(p) PROVE BrokenSessionRetired'
  BY <1>7 DEF Settle, Goto, Return, lockVars, reqVars
<1>8. ASSUME NEW p \in Ops, TakeSlot(p) PROVE BrokenSessionRetired'
  BY <1>8 DEF TakeSlot, Goto, lockVars, reqVars
<1>9. ASSUME NEW p \in Ops, Send(p) PROVE BrokenSessionRetired'
  BY <1>9 DEF Send, Goto, DropWith, lockVars, reqVars
<1>10. ASSUME NEW p \in Ops, SendUnacknowledged(p) PROVE BrokenSessionRetired'
  BY <1>10 DEF SendUnacknowledged, Decide, Goto, Return, lockVars, reqVars
<1>11. ASSUME NEW p \in Ops, CancelUnacknowledged(p) PROVE BrokenSessionRetired'
  BY <1>11 DEF CancelUnacknowledged, Goto, Return, DropWith, lockVars, reqVars
<1>12. ASSUME NEW p \in Ops, Receive(p) PROVE BrokenSessionRetired'
  BY <1>12 DEF Receive, Decide, Goto, DropWith, lockVars, reqVars
<1>13. ASSUME NEW p \in Ops, Timeout(p) PROVE BrokenSessionRetired'
  BY <1>13 DEF Timeout, Goto, DropWith, lockVars, reqVars
<1>14. ASSUME NEW p \in Ops, CancelAwait(p) PROVE BrokenSessionRetired'
  BY <1>14 DEF CancelAwait, Goto, DropWith, lockVars, reqVars
<1>15. ASSUME NEW p \in Ops, SocketError(p) PROVE BrokenSessionRetired'
  BY <1>15 DEF SocketError, Goto, Return, DropWith, lockVars, reqVars
<1>16. ASSUME NEW p \in Ops, DropSession(p) PROVE BrokenSessionRetired'
  BY <1>16 DEF DropSession, Goto, reqVars
<1>17. ASSUME NEW p \in Ops, Observe(p) PROVE BrokenSessionRetired'
  BY <1>17 DEF Observe, Goto, Return, lockVars, reqVars
<1>18. ASSUME NEW p \in Ops, Close(p) PROVE BrokenSessionRetired'
  BY <1>18 DEF Close, Goto, reqVars
<1>19. CASE UNCHANGED <<inner, pc, req, ses, result>>
  BY <1>19
<1>20. CASE \/ (\E p \in Ops : Cancel(p))
           \/ WriteConfig
           \/ DropZ21
           \/ Station
           \/ Lose
           \/ UNCHANGED vars
  BY <1>20, <1>19 DEF Cancel, WriteConfig, DropZ21, Station, Lose, vars,
                      lockVars, reqVars
<1> QED BY <1>1, <1>2, <1>3, <1>4, <1>5, <1>6, <1>7, <1>8, <1>9, <1>10, <1>11,
           <1>12, <1>13, <1>14, <1>15, <1>16, <1>17, <1>18, <1>20 DEF Next,
           Step, Terminated

-----------------------------------------------------------------------------
\* The parts of the invariant hold initially.
LEMMA SafeInit ==
  Init => Held /\ Late /\ Opened /\ Stale /\ Endpoint /\ BrokenSessionRetired
<1> SUFFICES ASSUME Init
             PROVE  Held /\ Late /\ Opened /\ Stale /\ Endpoint /\ BrokenSessionRetired
  OBVIOUS
<1>1. Held /\ Late /\ Stale /\ Endpoint /\ BrokenSessionRetired
  BY DEF Init, Held, Late, Stale, Endpoint, BrokenSessionRetired, Slotted, Active
<1>2. Opened
  BY DEF Init, Opened
<1> QED BY <1>1, <1>2

(* The inductive invariant, from which every safety property below follows. *)
THEOREM SafeInvariant ==
  Spec => [](Shape /\ Held /\ Late /\ Opened /\ Stale /\ Endpoint
             /\ BrokenSessionRetired)
BY ShapeInit, SafeInit, ShapeStep, HeldStep, LateStep, OpenedStep, StaleStep,
   EndpointStep, RetiredStep, PTL DEF Spec

(* Two calls never have a command outstanding on the same socket.          *)
THEOREM NoSharedSlot == Spec => []SlotExclusive
<1>1. Shape /\ Held => SlotExclusive
  BY DEF Held, SlotExclusive
<1> QED BY <1>1, SafeInvariant, PTL

(* A cancelled call sends at most one more command.                        *)
THEOREM CancelIsPrompt == Spec => []AtMostOneSendAfterCancel
<1>1. Late => AtMostOneSendAfterCancel
  BY DEF Late, AtMostOneSendAfterCancel
<1> QED BY <1>1, SafeInvariant, PTL

(* A batch begins at most one CV on a session that a reload has replaced.  *)
THEOREM ReloadIsPrompt == Spec => []AtMostOneCvAfterReload
<1>1. Stale => AtMostOneCvAfterReload
  BY DEF Stale, AtMostOneCvAfterReload
<1> QED BY <1>1, SafeInvariant, PTL

(* A call talks only to an endpoint configured since it began.             *)
THEOREM EndpointIsCurrent == Spec => []OnlyConfiguredEndpoints
<1>1. Shape /\ Endpoint => OnlyConfiguredEndpoints
  BY ConstantsOK DEF Shape, Holding, InSession, Slotted, Endpoint,
                     OnlyConfiguredEndpoints
<1> QED BY <1>1, SafeInvariant, PTL

(* A session a batch gave up on is never handed to a later call.           *)
THEOREM BrokenSessionIsDropped == Spec => []BrokenSessionRetired
BY SafeInvariant, PTL

=============================================================================
