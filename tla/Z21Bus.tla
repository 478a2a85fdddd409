------------------------------- MODULE Z21Bus -------------------------------
(***************************************************************************)
(* The Z21 side of the CV hub: Z21Programmer (bus/z21.rs) keeps at most    *)
(* one Session, a connected UDP socket stamped with the config generation  *)
(* it was opened under, and every bus call clones it and talks to the      *)
(* command station through Z21Client (bus/z21_udp.rs), whose `slot` mutex  *)
(* serialises the CV commands of that one socket.                          *)
(*                                                                         *)
(* An element of Ops is one bus call (read_cvs, write_cvs, set_function or *)
(* observe) made by the WebSocket connection Conn[o].  A connection makes  *)
(* its calls one at a time.  A call opens at most one session, so the      *)
(* session opened by call s is called s.                                   *)
(*                                                                         *)
(* The command station and the network are the environment: a command is   *)
(* answered, refused or swallowed, and datagrams are lost and delayed as   *)
(* far as Faults allows.                                                   *)
(***************************************************************************)
EXTENDS Naturals, Sequences, FiniteSets

CONSTANTS
  Ops,         \* the bus calls
  Conn,        \* Conn[o]: the WebSocket connection that makes call o
  Requests,    \* Requests[o]: what call o may ask for, a set of [kind, cvs]
  Cvs,         \* CV numbers a request may name
  ValidCvs,    \* those pc_core::valid_cv accepts
  Hosts,       \* endpoints z21.hostname:port may name
  NoHost,      \* z21 not configured
  NoOne,       \* a free mutex, an empty Option
  PomRepeat,   \* packets sent per POM write (pomWriteRepeat: 1 or 2)
  MaxReloads,  \* bound on config reloads
  Faults       \* which of the failures below the environment may produce

FaultNames == {"loss", "late", "cancel", "close", "io", "down"}

Kinds == {"read", "write", "pomWrite", "function", "observe"}

Request == [kind : Kinds, cvs : Seq(Cvs)]

ASSUME ConstantsOK ==
  /\ NoOne \notin Ops
  /\ NoHost \notin Hosts
  /\ ValidCvs \subseteq Cvs
  /\ Requests \in [Ops -> SUBSET Request]
  /\ PomRepeat \in 1..2
  /\ MaxReloads \in Nat
  /\ Faults \subseteq FaultNames

VARIABLES
  cfgHost,     \* live config: the z21 endpoint
  reloading,   \* the reloader has written the config, drop_z21 not yet called
  generation,  \* Z21Programmer.generation
  inner,       \* Z21Programmer.inner: the current session
  innerLock,   \* the call holding the mutex around inner
  slot,        \* slot[s]: the call holding the slot mutex of session s
  rx,          \* rx[s]: datagrams waiting in the socket of session s
  wire,        \* commands sent and not yet answered or lost
  programmed,  \* commands the decoder has carried out
  pc,          \* where each call is
  req,         \* its request
  look,        \* look[o]: the host and generation session() read
  ses,         \* the session the call cloned
  attempt,     \* which send of the current CV this is
  timeouts,    \* consecutive CVs that timed out
  outcome,     \* one entry per finished CV, in request order
  cancelled,   \* the call's CancellationToken
  result,      \* what the call returns
  lateSends,   \* history: sends made after the token was cancelled
  staleCvs,    \* history: CVs begun after the session was replaced
  hostsSeen    \* history: endpoints configured since the call began

cfgVars  == <<cfgHost, reloading, generation>>
lockVars == <<inner, innerLock>>
netVars  == <<wire, programmed>>
reqVars  == <<req, look, ses>>
histVars == <<lateSends, staleCvs, hostsSeen>>
loopVars == <<attempt, timeouts, outcome>>
vars == <<cfgVars, lockVars, slot, rx, netVars, pc, reqVars, loopVars,
          cancelled, result, histVars>>

Places == {"idle", "lock", "cfg", "gen", "connect", "top", "settle", "slot",
           "send", "await", "observe", "drop", "done", "gone"}
Locking == {"cfg", "gen", "connect"}      \* holds the mutex around inner
Slotted == {"send", "await"}              \* holds the slot of its session
Ended == {"done", "gone"}
Active(o) == pc[o] \notin Ended \cup {"idle"}

Results == {"none", "ok", "cancelled", "z21_not_configured", "z21_unreachable",
            "invalid_z21_address", "z21_session_replaced", "invalid_cv",
            "short_circuit"}

Command  == [op : Ops, idx : Nat \ {0}, try : 1..2]
Datagram == [cmd : Command, verdict : {"ok", "nack", "sc"}]
Entry    == [cmd : Command, verdict : {"ok", "nack", "timeout"}]

Index(o) == Len(outcome[o]) + 1
CurrentCv(o) == req[o].cvs[Index(o)]
CurrentCommand(o) == [op |-> o, idx |-> Index(o), try |-> attempt[o]]
CvOf(c) == req[c.op].cvs[c.idx]

Init ==
  /\ cfgHost \in Hosts \cup {NoHost}
  /\ reloading = FALSE
  /\ generation = 1
  /\ inner = NoOne
  /\ innerLock = NoOne
  /\ slot = [s \in Ops |-> NoOne]
  /\ rx = [s \in Ops |-> <<>>]
  /\ wire = {}
  /\ programmed = {}
  /\ pc = [o \in Ops |-> "idle"]
  /\ req = [o \in Ops |-> [kind |-> "read", cvs |-> <<>>]]
  /\ look = [o \in Ops |-> [host |-> NoHost, gen |-> 0]]
  /\ ses = [o \in Ops |-> NoOne]
  /\ attempt = [o \in Ops |-> 1]
  /\ timeouts = [o \in Ops |-> 0]
  /\ outcome = [o \in Ops |-> <<>>]
  /\ cancelled = [o \in Ops |-> FALSE]
  /\ result = [o \in Ops |-> "none"]
  /\ lateSends = [o \in Ops |-> 0]
  /\ staleCvs = [o \in Ops |-> 0]
  /\ hostsSeen = [o \in Ops |-> {}]

-----------------------------------------------------------------------------
(* Operators named Mut... are plausible mistakes, each kept beside the       *)
(* definition it could be taken for; no action uses them.                    *)

Goto(o, place) == pc' = [pc EXCEPT ![o] = place]

Return(o, code) ==
  /\ Goto(o, "done")
  /\ result' = [result EXCEPT ![o] = code]

MutDropWith(o, code) == Return(o, code)

\* The batch is abandoned with an error: the session is dropped first.
DropWith(o, code) ==
  /\ Goto(o, "drop")
  /\ result' = [result EXCEPT ![o] = code]

MutFreeSlot(o) == UNCHANGED slot

FreeSlot(o) == slot' = [slot EXCEPT ![ses[o]] = NoOne]

Drained(o) == [rx EXCEPT ![ses[o]] = <<>>]

\* A connection's next request is read only when the previous call is over.
Start(o) ==
  /\ pc[o] = "idle"
  /\ \A p \in Ops \ {o} : Conn[p] = Conn[o] => ~Active(p)
  /\ \E r \in Requests[o] : req' = [req EXCEPT ![o] = r]
  /\ Goto(o, "lock")
  /\ hostsSeen' = [hostsSeen EXCEPT ![o] = {cfgHost}]
  /\ UNCHANGED <<cfgVars, lockVars, slot, rx, netVars, look, ses, loopVars,
                 cancelled, result, lateSends, staleCvs>>

\* session(): wait for the mutex around inner, or for the token.
LockInner(o) ==
  /\ pc[o] = "lock"
  /\ \/ /\ innerLock = NoOne
        /\ innerLock' = o
        /\ Goto(o, "cfg")
        /\ UNCHANGED result
     \/ /\ cancelled[o]
        /\ Return(o, "cancelled")
        /\ UNCHANGED innerLock
  /\ UNCHANGED <<cfgVars, inner, slot, rx, netVars, reqVars, loopVars,
                 cancelled, histVars>>

\* The live endpoint is copied and the config guard dropped.
ReadConfig(o) ==
  /\ pc[o] = "cfg"
  /\ \/ /\ cfgHost = NoHost
        /\ Return(o, "z21_not_configured")
        /\ innerLock' = NoOne
        /\ UNCHANGED look
     \/ /\ cfgHost # NoHost
        /\ look' = [look EXCEPT ![o].host = cfgHost]
        /\ Goto(o, "gen")
        /\ UNCHANGED <<innerLock, result>>
  /\ UNCHANGED <<cfgVars, inner, slot, rx, netVars, req, ses, loopVars,
                 cancelled, histVars>>

\* Where the call goes once it has a session.
Body(o) == CASE req[o].kind = "function" -> "slot"
             [] req[o].kind = "observe"  -> "observe"
             [] OTHER -> "top"


MutFresh(o) == inner # NoOne /\ look[inner].gen = generation

\* The kept session is the one the configuration asks for.
Fresh(o) ==
  /\ inner # NoOne
  /\ look[inner].host = look[o].host
  /\ look[inner].gen = generation

\* The generation is loaded and the kept session compared with both.
ReadGeneration(o) ==
  /\ pc[o] = "gen"
  /\ look' = [look EXCEPT ![o].gen = generation]
  /\ \/ /\ ~Fresh(o)
        /\ Goto(o, "connect")
        /\ UNCHANGED <<ses, innerLock>>
     \/ /\ Fresh(o)
        /\ Goto(o, Body(o))
        /\ ses' = [ses EXCEPT ![o] = inner]
        /\ innerLock' = NoOne
  /\ UNCHANGED <<cfgVars, inner, slot, rx, netVars, req, loopVars,
                 cancelled, result, histVars>>

\* Z21Client::connect: bind and hello.  A failure leaves inner as it was.
Connect(o) ==
  /\ pc[o] = "connect"
  /\ innerLock' = NoOne
  /\ \/ /\ inner' = o
        /\ ses' = [ses EXCEPT ![o] = o]
        /\ Goto(o, Body(o))
        /\ UNCHANGED result
     \/ /\ "down" \in Faults
        /\ \E code \in {"z21_unreachable", "invalid_z21_address"} : Return(o, code)
        /\ UNCHANGED <<inner, ses>>
  /\ UNCHANGED <<cfgVars, slot, rx, netVars, req, look, loopVars, cancelled,
                 histVars>>

-----------------------------------------------------------------------------
(* The CV loop shared by read_loop and write_cvs.                          *)

Replaced(o) == look[ses[o]].gen # generation

\* The end of the batch and the checks at the head of an iteration, in their order.
MutRefusal(o) ==
  IF Index(o) > Len(req[o].cvs) THEN "ok" ELSE IF cancelled[o] THEN "cancelled" ELSE "none"

Refusal(o) ==
  IF Index(o) > Len(req[o].cvs) THEN "ok"
  ELSE IF cancelled[o] THEN "cancelled"
  ELSE IF Replaced(o) THEN "z21_session_replaced"
  ELSE IF CurrentCv(o) \notin ValidCvs THEN "invalid_cv"
  ELSE "none"

NextCv(o) ==
  /\ pc[o] = "top"
  /\ IF Refusal(o) = "none"
     THEN /\ Goto(o, IF Index(o) > 1 THEN "settle" ELSE "slot")
          /\ UNCHANGED result
     ELSE Return(o, Refusal(o))
  /\ attempt' = [attempt EXCEPT ![o] = 1]
  /\ UNCHANGED <<cfgVars, lockVars, slot, rx, netVars, reqVars, timeouts,
                 outcome, cancelled, histVars>>

\* SETTLE runs out, or the token ends it.  Reads look at the token once more.
Settle(o) ==
  /\ pc[o] = "settle"
  /\ \/ /\ cancelled[o]
        /\ Return(o, "cancelled")
     \/ /\ req[o].kind = "read" => ~cancelled[o]
        /\ Goto(o, "slot")
        /\ UNCHANGED result
  /\ UNCHANGED <<cfgVars, lockVars, slot, rx, netVars, reqVars, loopVars,
                 cancelled, histVars>>

MutSlotFree(o) == TRUE

SlotFree(o) == slot[ses[o]] = NoOne

\* slot.lock().await: the token does not end this wait.
TakeSlot(o) ==
  /\ pc[o] = "slot"
  /\ SlotFree(o)
  /\ slot' = [slot EXCEPT ![ses[o]] = o]
  /\ Goto(o, "send")
  /\ UNCHANGED <<cfgVars, lockVars, rx, netVars, reqVars, loopVars,
                 cancelled, result, histVars>>

CountSend(o) ==
  /\ lateSends' = [lateSends EXCEPT ![o] = IF cancelled[o] THEN @ + 1 ELSE @]
  /\ staleCvs' = [staleCvs EXCEPT ![o] =
                    IF attempt[o] = 1 /\ Replaced(o) THEN @ + 1 ELSE @]
  /\ UNCHANGED hostsSeen

MutStopsListening(o) == FALSE

StopsListening(o) == cancelled[o]

\* await_result sends, then looks at the token before it listens.
Send(o) ==
  /\ pc[o] = "send"
  /\ req[o].kind \in {"read", "write"}
  /\ wire' = wire \cup {[ses |-> ses[o], cmd |-> CurrentCommand(o)]}
  /\ CountSend(o)
  /\ \/ /\ ~StopsListening(o)
        /\ Goto(o, "await")
        /\ UNCHANGED <<slot, rx, result>>
     \/ /\ StopsListening(o)
        /\ rx' = Drained(o)
        /\ FreeSlot(o)
        /\ DropWith(o, "cancelled")
  /\ UNCHANGED <<cfgVars, lockVars, programmed, reqVars, loopVars,
                 cancelled>>

\* The reply decides the current CV: classify_cv_err, then the next one.
Decide(o, verdict, cmd) ==
  /\ outcome' = [outcome EXCEPT ![o] =
                   Append(@, [cmd |-> cmd, verdict |-> verdict])]
  /\ timeouts' = [timeouts EXCEPT ![o] = 0]
  /\ FreeSlot(o)
  /\ Goto(o, "top")
  /\ UNCHANGED <<attempt, result>>

\* write_cv_pom and set_function: unacknowledged packets, the token looked at
\* before each.  A batch goes on, or is dropped; set_function just returns.
Packets(o) == IF req[o].kind = "function" THEN 2 ELSE PomRepeat

SendUnacknowledged(o) ==
  /\ pc[o] = "send"
  /\ req[o].kind \in {"pomWrite", "function"}
  /\ ~cancelled[o]
  /\ CountSend(o)
  /\ \/ /\ attempt[o] < Packets(o)
        /\ attempt' = [attempt EXCEPT ![o] = @ + 1]
        /\ UNCHANGED <<pc, slot, result, timeouts, outcome>>
     \/ /\ attempt[o] >= Packets(o)
        /\ req[o].kind = "pomWrite"
        /\ Decide(o, "ok", CurrentCommand(o))
     \/ /\ attempt[o] >= Packets(o)
        /\ req[o].kind = "function"
        /\ FreeSlot(o)
        /\ Return(o, "ok")
        /\ UNCHANGED loopVars
  /\ UNCHANGED <<cfgVars, lockVars, rx, netVars, reqVars, cancelled>>

CancelUnacknowledged(o) ==
  /\ pc[o] = "send"
  /\ req[o].kind \in {"pomWrite", "function"}
  /\ cancelled[o]
  /\ FreeSlot(o)
  /\ \/ req[o].kind = "function" /\ Return(o, "z21_unreachable")
     \/ req[o].kind = "pomWrite" /\ DropWith(o, "cancelled")
  /\ UNCHANGED <<cfgVars, lockVars, rx, netVars, reqVars, loopVars, cancelled,
                 histVars>>

\* A datagram is taken from the socket.  A result is matched by CV number, a
\* NACK and a short circuit carry none.
Receive(o) ==
  /\ pc[o] = "await"
  /\ rx[ses[o]] # <<>>
  /\ rx' = [rx EXCEPT ![ses[o]] = Tail(@)]
  /\ LET m == Head(rx[ses[o]]) IN
       \/ /\ m.verdict = "ok" /\ CvOf(m.cmd) = CurrentCv(o)
          /\ Decide(o, "ok", m.cmd)
       \/ /\ m.verdict = "ok" /\ CvOf(m.cmd) # CurrentCv(o)
          /\ UNCHANGED <<pc, slot, loopVars, result>>
       \/ /\ m.verdict = "nack"
          /\ Decide(o, "nack", m.cmd)
       \/ /\ m.verdict = "sc"
          /\ FreeSlot(o)
          /\ DropWith(o, "short_circuit")
          /\ UNCHANGED loopVars
  /\ UNCHANGED <<cfgVars, lockVars, netVars, reqVars, cancelled, histVars>>

\* An answer to the current command is still on its way or in the socket.
Answerable(o) ==
  LET Mine(c) == c = CurrentCommand(o) IN
  \/ \E d \in wire : Mine(d.cmd)
  \/ \E i \in 1..Len(rx[ses[o]]) : Mine(rx[ses[o]][i].cmd)

MutLastTry(o) == attempt[o] = 3

LastTry(o) == attempt[o] = 2

MutGivesUp(n) == n > 2

GivesUp(n) == n >= 2

\* The reply deadline passes: drain, then one retry, then the CV has failed.
\* Two such CVs in a row end the batch.
Timeout(o) ==
  /\ pc[o] = "await"
  /\ "late" \in Faults \/ ~Answerable(o)
  /\ rx' = Drained(o)
  /\ \/ /\ ~LastTry(o)
        /\ attempt' = [attempt EXCEPT ![o] = @ + 1]
        /\ Goto(o, "send")
        /\ UNCHANGED <<slot, timeouts, outcome, result>>
     \/ /\ LastTry(o)
        /\ FreeSlot(o)
        /\ timeouts' = [timeouts EXCEPT ![o] = @ + 1]
        /\ outcome' = [outcome EXCEPT ![o] =
             Append(@, [cmd |-> CurrentCommand(o), verdict |-> "timeout"])]
        /\ UNCHANGED attempt
        /\ IF GivesUp(timeouts[o] + 1)
           THEN DropWith(o, "z21_unreachable")
           ELSE Goto(o, "top") /\ UNCHANGED result
  /\ UNCHANGED <<cfgVars, lockVars, netVars, reqVars, cancelled, histVars>>

\* The token is cancelled while a reply is awaited.
CancelAwait(o) ==
  /\ pc[o] = "await"
  /\ cancelled[o]
  /\ rx' = Drained(o)
  /\ FreeSlot(o)
  /\ DropWith(o, "cancelled")
  /\ UNCHANGED <<cfgVars, lockVars, netVars, reqVars, loopVars, cancelled,
                 histVars>>

\* A socket error.  set_function and observe keep the session.
SocketError(o) ==
  /\ "io" \in Faults
  /\ pc[o] \in Slotted \cup {"observe"}
  /\ IF pc[o] \in Slotted THEN FreeSlot(o) ELSE UNCHANGED slot
  /\ IF req[o].kind \in {"function", "observe"}
     THEN Return(o, "z21_unreachable")
     ELSE DropWith(o, "z21_unreachable")
  /\ UNCHANGED <<cfgVars, lockVars, rx, netVars, reqVars, loopVars, cancelled,
                 histVars>>

\* *guard = None, whatever session is there by now.
DropSession(o) ==
  /\ pc[o] = "drop"
  /\ innerLock = NoOne
  /\ inner' = NoOne
  /\ Goto(o, "done")
  /\ UNCHANGED <<cfgVars, innerLock, slot, rx, netVars, reqVars, loopVars,
                 cancelled, result, histVars>>

\* observe(): datagrams are swallowed, without the slot, until the station
\* leaves programming mode, the deadline passes or the token is cancelled.
Observe(o) ==
  /\ pc[o] = "observe"
  /\ \/ /\ rx[ses[o]] # <<>>
        /\ rx' = [rx EXCEPT ![ses[o]] = Tail(@)]
        /\ UNCHANGED <<pc, result>>
     \/ /\ Return(o, "ok")
        /\ UNCHANGED rx
     \/ /\ cancelled[o]
        /\ rx' \in {rx, Drained(o)}
        /\ Return(o, "cancelled")
  /\ UNCHANGED <<cfgVars, lockVars, slot, netVars, reqVars, loopVars,
                 cancelled, histVars>>

-----------------------------------------------------------------------------
(* The connection, the operator and the environment.                       *)

\* supervise() cancels the token of the call in flight.
Cancel(o) ==
  /\ "cancel" \in Faults
  /\ Active(o)
  /\ ~cancelled[o]
  /\ cancelled' = [cancelled EXCEPT ![o] = TRUE]
  /\ UNCHANGED <<cfgVars, lockVars, slot, rx, netVars, pc, reqVars, loopVars,
                 result, histVars>>

\* The WebSocket closes: the call's future is dropped where it stands, with
\* the guards it holds.
Close(o) ==
  /\ "close" \in Faults
  /\ Active(o)
  /\ Goto(o, "gone")
  /\ innerLock' = IF innerLock = o THEN NoOne ELSE innerLock
  /\ slot' = [s \in Ops |-> IF slot[s] = o THEN NoOne ELSE slot[s]]
  /\ UNCHANGED <<cfgVars, inner, rx, netVars, reqVars, loopVars, cancelled,
                 result, histVars>>

\* The reloader stores the new config ...
WriteConfig ==
  /\ ~reloading
  /\ generation <= MaxReloads
  /\ reloading' = TRUE
  /\ \E h \in Hosts \cup {NoHost} :
       /\ cfgHost' = h
       /\ hostsSeen' = [o \in Ops |-> IF Active(o) THEN hostsSeen[o] \cup {h}
                                                   ELSE hostsSeen[o]]
  /\ UNCHANGED <<generation, lockVars, slot, rx, netVars, pc, reqVars, loopVars,
                 cancelled, result, lateSends, staleCvs>>

\* ... and only then calls Hub::drop_z21.
DropZ21 ==
  /\ reloading
  /\ reloading' = FALSE
  /\ generation' = generation + 1
  /\ UNCHANGED <<cfgHost, lockVars, slot, rx, netVars, pc, reqVars, loopVars,
                 cancelled, result, histVars>>

\* The socket lives as long as the Arc<Z21Client> is held.
Open(s) == inner = s \/ \E o \in Ops : Active(o) /\ ses[o] = s

\* The station carries a command out, is refused by the decoder or shorted, and
\* its answer reaches the socket if that is still open.  The time either
\* datagram spends on its way is time the command spends in wire.
Station ==
  /\ \E d \in wire, v \in {"ok", "nack", "sc"} :
       /\ wire' = wire \ {d}
       /\ rx' = IF Open(d.ses)
                THEN [rx EXCEPT ![d.ses] = Append(@, [cmd |-> d.cmd, verdict |-> v])]
                ELSE rx
       /\ programmed' = IF v = "ok" THEN programmed \cup {d.cmd} ELSE programmed
  /\ UNCHANGED <<cfgVars, lockVars, slot, pc, reqVars, loopVars, cancelled,
                 result, histVars>>

\* A command is lost, or carried out with its answer lost.
Lose ==
  /\ "loss" \in Faults
  /\ \E d \in wire :
       /\ wire' = wire \ {d}
       /\ programmed' \in {programmed, programmed \cup {d.cmd}}
  /\ UNCHANGED <<cfgVars, lockVars, slot, rx, pc, reqVars, loopVars, cancelled,
                 result, histVars>>

Step(o) ==
  \/ LockInner(o) \/ ReadConfig(o) \/ ReadGeneration(o) \/ Connect(o)
  \/ NextCv(o) \/ Settle(o) \/ TakeSlot(o)
  \/ Send(o) \/ SendUnacknowledged(o) \/ CancelUnacknowledged(o)
  \/ Receive(o) \/ Timeout(o) \/ CancelAwait(o) \/ DropSession(o)

Terminated == (\A o \in Ops : ~Active(o)) /\ UNCHANGED vars

Next ==
  \/ \E o \in Ops : Start(o) \/ Step(o) \/ Observe(o) \/ SocketError(o)
  \/ \E o \in Ops : Cancel(o) \/ Close(o)
  \/ WriteConfig \/ DropZ21
  \/ Station \/ Lose
  \/ Terminated

Spec == Init /\ [][Next]_vars

(* The runtime polls every call that can go on, the mutexes are fair, and the *)
(* station and the network do not sit on a datagram forever.                  *)
Fairness ==
  /\ \A o \in Ops : WF_vars(Step(o)) /\ WF_vars(Observe(o))
  /\ WF_vars(Station) /\ WF_vars(DropZ21)

FairSpec == Spec /\ Fairness

-----------------------------------------------------------------------------
TypeOK ==
  /\ cfgHost \in Hosts \cup {NoHost}
  /\ reloading \in BOOLEAN
  /\ generation \in Nat \ {0}
  /\ inner \in Ops \cup {NoOne}
  /\ innerLock \in Ops \cup {NoOne}
  /\ slot \in [Ops -> Ops \cup {NoOne}]
  /\ rx \in [Ops -> Seq(Datagram)]
  /\ wire \subseteq [ses : Ops, cmd : Command]
  /\ programmed \subseteq Command
  /\ pc \in [Ops -> Places]
  /\ req \in [Ops -> Request]
  /\ look \in [Ops -> [host : Hosts \cup {NoHost}, gen : Nat]]
  /\ ses \in [Ops -> Ops \cup {NoOne}]
  /\ attempt \in [Ops -> 1..2]
  /\ timeouts \in [Ops -> 0..2]
  /\ outcome \in [Ops -> Seq(Entry)]
  /\ cancelled \in [Ops -> BOOLEAN]
  /\ result \in [Ops -> Results]
  /\ lateSends \in [Ops -> Nat]
  /\ staleCvs \in [Ops -> Nat]
  /\ hostsSeen \in [Ops -> SUBSET (Hosts \cup {NoHost})]

\* Two calls never have a command outstanding on the same socket: what
\* Z21Client.slot is for.
SlotExclusive ==
  \A o, p \in Ops :
    o # p /\ pc[o] \in Slotted /\ pc[p] \in Slotted => ses[o] # ses[p]

\* Once its token is cancelled a call puts at most one more command on the
\* wire (the one it was already queued for), however many CVs are left.
AtMostOneSendAfterCancel == \A o \in Ops : lateSends[o] <= 1

\* Once a reload has replaced its session, a batch begins at most one more CV
\* on it (the one it was settling or queued for).
AtMostOneCvAfterReload == \A o \in Ops : staleCvs[o] <= 1

\* A call talks only to an endpoint that has been configured at some time
\* since the call began: a reload takes effect on the next command, even in
\* the window between the config being written and drop_z21.
OnlyConfiguredEndpoints ==
  \A o \in Ops :
    pc[o] \in Slotted \cup {"observe"} => look[ses[o]].host \in hostsSeen[o]

CvKinds == {"read", "write", "pomWrite"}

\* A batch that returns Ok has an entry for every requested CV, each for that
\* CV, and never went on past two CVs in a row that timed out.
BatchAccounted ==
  \A o \in Ops :
    result[o] = "ok" /\ req[o].kind \in CvKinds =>
      /\ Len(outcome[o]) = Len(req[o].cvs)
      /\ \A i \in 1..Len(outcome[o]) :
           /\ outcome[o][i].verdict = "ok" =>
                 CvOf(outcome[o][i].cmd) = req[o].cvs[i]
           /\ i > 1 => ~( /\ outcome[o][i].verdict = "timeout"
                         /\ outcome[o][i - 1].verdict = "timeout" )

\* A batch that gave up with a command possibly unanswered leaves its session
\* behind: no later call is handed a socket an orphaned reply may reach.
BrokenSessionRetired ==
  \A o \in Ops :
    /\ pc[o] = "done" /\ req[o].kind \in CvKinds /\ ses[o] # NoOne
    /\ result[o] \in {"z21_unreachable", "short_circuit"}
    => inner # ses[o]

\* Every verdict in a batch is the station's verdict on that very command.
OwnVerdict ==
  \A o \in Ops : \A i \in 1..Len(outcome[o]) :
    outcome[o][i].cmd.op = o /\ outcome[o][i].cmd.idx = i

\* A CV a write batch reports as written has been programmed by that write.
ConfirmedWritesProgrammed ==
  \A o \in Ops : \A i \in 1..Len(outcome[o]) :
    req[o].kind = "write" /\ outcome[o][i].verdict = "ok" =>
      \E c \in programmed : c.op = o /\ c.idx = i

\* "a late NACK is not counted as the next CV" (z21_udp.rs, drain).
NackIsForThisCv ==
  \A o \in Ops : \A i \in 1..Len(outcome[o]) :
    outcome[o][i].verdict = "nack" => CvOf(outcome[o][i].cmd) = req[o].cvs[i]

\* What a connection sees of a call.
StageOf(o) ==
  CASE pc[o] = "idle" -> "idle"
    [] pc[o] \in Ended \cup {"drop"} -> "ended"
    [] pc[o] = "top" /\ cancelled[o] /\ outcome[o] # <<>> -> "stopping"
    [] OTHER -> "running"

\* The verdicts a batch has entered, whether a command of it is on its way, and what
\* the decoder has carried out, whichever try it was.
ToldOf(o) == [i \in DOMAIN outcome[o] |-> outcome[o][i].verdict]
SentOf(o) == \E d \in wire : d.cmd.op = o
CarriedOut == {<<c.op, c.idx>> : c \in programmed}

Bus == INSTANCE BusCalls WITH
         stage <- [o \in Ops |-> StageOf(o)],
         told <- [o \in Ops |-> ToldOf(o)],
         sent <- [o \in Ops |-> SentOf(o)],
         carried <- CarriedOut

\* As long as answers come in time and no connection closes on its call, the bus
\* keeps what BusCalls promises: of sessions, mutexes, retries and drained sockets a
\* connection sees its batch go through its CVs in order.  A CV carried out ahead of
\* its turn, an answer taken for another CV or a batch that goes on once it is
\* cancelled would break it.
ServesBatches == Bus!Spec

\* Every call returns: the timeouts, the fair mutexes and the bounded retries
\* leave no way to wait forever.
EveryCallReturns == \A o \in Ops : Active(o) ~> ~Active(o)

=============================================================================
