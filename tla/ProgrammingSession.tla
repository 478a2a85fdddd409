-------------------------- MODULE ProgrammingSession --------------------------
(***************************************************************************)
(* A tab and the daemon joined by WebSockets: ProgrammingClient and         *)
(* ProgrammingSocket over the connections of ProgrammingWire, which the     *)
(* network may cut.                                                         *)
(***************************************************************************)
EXTENDS ProgrammingClient, ProgrammingSocket

vars == <<wireVars, clientVars, socketVars>>

TypeOK == WireTypeOK /\ ClientTypeOK /\ SocketTypeOK

Init == WireInit /\ ClientInit /\ SocketInit

\* The network loses connection c, or it never opens.
Lose(c) ==
  /\ link[c] \in {"dialing", "open"}
  /\ Disturb
  /\ link' = [link EXCEPT ![c] = "closed"]
  /\ up' = [up EXCEPT ![c] = <<>>]
  /\ down' = [down EXCEPT ![c] = <<>>]
  /\ UNCHANGED <<connVars, callVars, sampleVars, aborted, sentAs, socketVars>>

Next ==
  \/ ClientNext /\ UNCHANGED socketVars
  \/ SocketNext /\ UNCHANGED clientVars
  \/ \E c \in Conns : Lose(c)

Spec == Init /\ [][Next]_vars

-----------------------------------------------------------------------------
\* Timers fire, promises continue, events are delivered and the network opens
\* or loses what is dialed.  Nobody has to log in, call, abort or cut.
ClientFairness ==
  /\ WF_vars(OpenEvent /\ UNCHANGED socketVars)
  /\ WF_vars((ErrorEvent \/ CloseEvent) /\ UNCHANGED socketVars)
  /\ WF_vars(ReconnectTimer /\ UNCHANGED socketVars)
  /\ \A r \in Reqs :
       /\ WF_vars((StartRead(r) \/ Send(r)) /\ UNCHANGED socketVars)
       /\ WF_vars(IdleTimeout(r) /\ UNCHANGED socketVars)
       /\ WF_vars(OpenTimeout(r) /\ UNCHANGED socketVars)

\* The daemon's tasks are scheduled.  A request ends by itself only when it is
\* cancelled: the bus may be walking a thousand CVs.
SocketFairness ==
  \A c \in Conns :
    /\ WF_vars((Handshake(c) \/ Loop(c) \/ Supervise(c)) /\ UNCHANGED clientVars)
    /\ WF_vars(Forward(c) /\ UNCHANGED clientVars)
    /\ WF_vars(cancel[c] /\ Finish(c) /\ UNCHANGED clientVars)
    /\ WF_vars(Hangup(c) /\ UNCHANGED clientVars)

FairSpec == Spec /\ ClientFairness /\ SocketFairness

-----------------------------------------------------------------------------
\* The session keeps what CvCalls promises: of its sockets, queues, timers and
\* frames a page sees its calls settle, and values in the table, as if there were
\* none.  Verdicts of a call that another took the socket or the login from, and
\* values that come after their read was given up, would break it.
Calls == INSTANCE CvCalls WITH
           Calls <- Reqs, made <- {r \in Reqs : stage[r] # "new"},
           result <- outcome, shown <- table \cup buffer
KeepsPromises == Calls!Spec

\* A request refused as busy was not and will not be run, so that the tab may
\* send it again (ws.rs 157-164).
BusyMeansUntouched ==
  \A r \in Reqs :
    outcome[r] = "busy" => r \notin performed /\ \A c \in Conns : op[c] # r

\* A request runs with the token the tab held when it sent it, whatever logins
\* and reconnections came in between (ws.ts 132-156, ws.rs 199-208).
RunsUnderOwnToken ==
  \A c \in Conns : op[c] # NoReq => token[c] = sentAs[op[c]]

\* Reads wait for each other: the progress that is shown, and that keeps the
\* idle timer of its read from firing, has room for one (ws.ts 97, 196-203).
OneReadAtATime ==
  Cardinality({r \in Reads : stage[r] \in {"opening", "pending"}}) <= 1

\* When a read resolves, every value that its progress channel took is in the CV
\* table: its ack does not overtake its progress on any of the channels in
\* between, and no other read has taken its place (ws.rs 657, ws.ts 535).
OkSamplesInTable ==
  [][\A r \in Reads \ Dumps :
       outcome'[r] = "ok" /\ outcome[r] # "ok" /\ r \in streamed => r \in table']_vars

\* Samples are put on their way to the CV table only for a read that still runs:
\* those that come for one that was cancelled, failed or timed out are dropped
\* (ws.ts 600).
LateSamplesDropped == [][\A r \in buffer' \ buffer : stage[r] = "pending"]_vars

\* "drops the in-memory CvRegistry" (ARCHITECTURE.md 441): while the tab is
\* logged out its CV table is empty.
LoggedOutTableEmpty == wanted = Undefined => table = {}

-----------------------------------------------------------------------------
\* Every call settles, whatever the network and the daemon do: no promise of
\* cvRead or cvWrite is left hanging, and no read is stuck in the queue.
EverySettles ==
  \A r \in Reqs : stage[r] \in {"queued", "opening", "pending"} ~> stage[r] = "done"

\* A request the tab has given up does not keep the programming track: the
\* daemon stops it, on its cancellation or because the connection ended.
AbandonedStops ==
  \A r \in Reqs : \A c \in Conns :
    (op[c] = r /\ stage[r] = "done") ~> op[c] # r

\* A tab that wants a connection gets one back.
Reconnects == wanted # Undefined ~> (wanted = Undefined \/ rs = "open")

=============================================================================
