-------------------------- MODULE ProgrammingClient --------------------------
(***************************************************************************)
(* The tab's side of the programming WebSocket: the ProgrammingClient of   *)
(* web/src/api/ws.ts, and the logout of AuthContext.tsx that disconnects   *)
(* it.  A tab is single threaded: a task (an event, a timer, a user's      *)
(* action) runs to its end and the continuations of the promises it        *)
(* settled run before the next task.                                       *)
(*                                                                         *)
(* Reads wait for each other in a queue and write the values streamed to   *)
(* them into the CV table; writes are sent at once.                        *)
(***************************************************************************)
EXTENDS ProgrammingWire

CONSTANTS
  Undefined,  \* wantedToken before connect() and after disconnect()
  Dumps       \* reads with liveApply: false, which only return their values

ASSUME ClientConstants == Undefined \notin Tokens /\ Dumps \subseteq Reads

VARIABLES
  sock,     \* the connection in this.socket, 0 for null
  rs,       \* its readyState; "failed" between its error and close events
  wanted,   \* wantedToken
  timer,    \* a reconnectTimer is armed
  stage,    \* stage[r]: how far the call of request r is
  outcome,  \* outcome[r]: what its promise settled with
  aborted,  \* aborted[r]: its AbortSignal has fired
  queue,    \* readQueue, from the read that runs
  owner,    \* progress.requestId
  buffer,   \* applyBuffer: reads with samples in it
  table,    \* reads whose samples are in the CV table
  sentAs,   \* sentAs[r]: wantedToken when r was sent
  faults    \* disturbances so far, at most MaxFaults

callVars == <<stage, outcome, queue, owner>>
sampleVars == <<buffer, table>>
connVars == <<sock, rs, wanted, timer>>
clientVars == <<connVars, callVars, sampleVars, aborted, sentAs, faults>>

Outcomes == Verdicts \cup
  {"none", "cached", "cancelled", "ws_closed", "ws_error", "ws_timeout"}

ClientTypeOK ==
  /\ sock \in Conns \cup {0}
  /\ rs \in {"none", "connecting", "open", "closing", "failed"}
  /\ wanted \in Tokens \cup {Undefined}
  /\ timer \in BOOLEAN
  /\ stage \in [Reqs -> {"new", "queued", "opening", "pending", "done"}]
  /\ outcome \in [Reqs -> Outcomes]
  /\ aborted \in [Reqs -> BOOLEAN]
  /\ queue \in Seq(Reads)
  /\ owner \in Reads \cup {NoReq}
  /\ buffer \subseteq Reads
  /\ table \subseteq Reads
  /\ sentAs \in [Reqs -> Tokens \cup {Undefined}]
  /\ faults \in 0..MaxFaults

ClientInit ==
  /\ sock = 0
  /\ rs = "none"
  /\ wanted = Undefined
  /\ timer = FALSE
  /\ stage = [r \in Reqs |-> "new"]
  /\ outcome = [r \in Reqs |-> "none"]
  /\ aborted = [r \in Reqs |-> FALSE]
  /\ queue = <<>>
  /\ owner = NoReq
  /\ buffer = {}
  /\ table = {}
  /\ sentAs = [r \in Reqs |-> Undefined]
  /\ faults = 0

-----------------------------------------------------------------------------
\* A continuation is due: the first read of the queue starts, or a request
\* that waited for the socket is sent.
MutReadIsDue(r) == stage[r] = "queued"

\* (a read is due when the reads before it have settled)
ReadIsDue(r) == stage[r] = "queued" /\ r = Head(queue)

SendIsDue(r) == stage[r] = "opening" /\ rs = "open"

\* The event loop is between two tasks.
Quiet ==
  /\ \A r \in Reqs : ~ReadIsDue(r) /\ ~SendIsDue(r)
  /\ rs # "failed"

Live == sock # 0 /\ rs \in {"connecting", "open"}

Disturb == faults < MaxFaults /\ faults' = faults + 1

-----------------------------------------------------------------------------
\* The promises of the requests in S settle, and r, if it is one, starts to
\* wait for the socket.  A read that is still behind another cannot settle.
SettleAndOpen(S, why, r) ==
  /\ stage' = [q \in Reqs |-> IF q \in S THEN "done"
                              ELSE IF q = r THEN "opening" ELSE stage[q]]
  /\ outcome' = [q \in Reqs |-> IF q \in S THEN why ELSE outcome[q]]
  /\ queue' = IF queue # <<>> /\ Head(queue) \in S THEN Tail(queue) ELSE queue
  /\ owner' = IF owner \in S THEN NoReq ELSE owner

Settle(S, why) == SettleAndOpen(S, why, NoReq)

\* flushApplyBuffer()
FlushApplyBuffer == buffer' = {} /\ table' = table \cup buffer

\* A call that ends without an ack leaves the samples that came for endRead(),
\* which flushes unless an overlay of its page goes on, or for the next frame.
FlushAfter == FlushApplyBuffer \/ UNCHANGED sampleVars

Waiting == {r \in Reqs : stage[r] \in {"opening", "pending"}}

\* failAll()
FailAll(why) == Settle(Waiting, why) /\ FlushApplyBuffer

\* A frame is sent on the socket.  Nothing tells the tab that the connection
\* is gone until the close event.
Sent(f) ==
  IF rs = "open" /\ link[sock] = "open"
    THEN [up EXCEPT ![sock] = Append(@, f)] ELSE up

MutSendCancel(r) == IF r \in Reads THEN up ELSE Sent(CancelOf(r))

\* sendCancel(), for a request that has just settled.
SendCancel(r) == Sent(CancelOf(r))

\* socket.close(): what was sent still arrives, what arrives is not read.
Hang ==
  /\ link' = [c \in Conns |-> IF c = sock THEN "closed" ELSE link[c]]
  /\ down' = [c \in Conns |-> IF c = sock THEN <<>> ELSE down[c]]

Fresh == Cardinality({c \in Conns : link[c] # "unused"}) + 1

MutReusable(t) == Live

Reusable(t) == Live /\ wanted = t

\* connect(t): the socket there is, or teardown and a new one; r, if it is a
\* request, then waits for it to open.
Connect(t, r) ==
  /\ wanted' = t
  /\ \/ /\ Reusable(t)
        /\ SettleAndOpen({}, "none", r)
        /\ UNCHANGED <<link, down, sock, rs, timer, sampleVars>>
     \/ /\ ~Reusable(t)
        /\ timer' = FALSE
        /\ sock' = Fresh
        /\ rs' = "connecting"
        /\ link' = [c \in Conns |-> CASE c = sock -> "closed"
                                      [] c = Fresh -> "dialing"
                                      [] OTHER -> link[c]]
        /\ down' = [c \in Conns |-> IF c = sock THEN <<>> ELSE down[c]]
        /\ SettleAndOpen(Waiting, "ws_closed", r)
        /\ FlushApplyBuffer

-----------------------------------------------------------------------------
\* request() up to waitOpen().
Ask(r) == Connect(IF wanted = Undefined THEN NoToken ELSE wanted, r)

\* cvRead() puts a read in the queue ...
CallRead(r) ==
  /\ Quiet
  /\ r \in Reads
  /\ stage[r] = "new"
  /\ stage' = [stage EXCEPT ![r] = "queued"]
  /\ queue' = Append(queue, r)
  /\ UNCHANGED <<wireVars, connVars, outcome, owner, sampleVars, aborted, sentAs, faults>>

\* ... where, when its turn comes, it may find that the reads before it have
\* brought every CV it wants, or that it was aborted meanwhile.
StartRead(r) ==
  /\ ReadIsDue(r)
  /\ \/ /\ table # {}
        /\ Settle({r}, "cached")
        /\ UNCHANGED <<link, down, connVars, sampleVars>>
     \/ /\ aborted[r]
        /\ Settle({r}, "cancelled")
        /\ UNCHANGED <<link, down, connVars, sampleVars>>
     \/ ~aborted[r] /\ Ask(r)
  /\ UNCHANGED <<up, aborted, sentAs, faults>>

\* cvWrite()
CallWrite(r) ==
  /\ Quiet
  /\ r \in Reqs \ Reads
  /\ stage[r] = "new"
  /\ \/ /\ aborted[r]
        /\ Settle({r}, "cancelled")
        /\ UNCHANGED <<link, down, connVars, sampleVars>>
     \/ ~aborted[r] /\ Ask(r)
  /\ UNCHANGED <<up, aborted, sentAs, faults>>

MutShown(r) == r

\* Only a read sets the progress that is shown.
Shown(r) == IF r \in Reads THEN r ELSE owner

\* request() after waitOpen().
Send(r) ==
  /\ SendIsDue(r)
  /\ stage' = [stage EXCEPT ![r] = "pending"]
  /\ owner' = Shown(r)
  /\ up' = Sent(Request(r))
  /\ sentAs' = [sentAs EXCEPT ![r] = wanted]
  /\ UNCHANGED <<link, down, connVars, outcome, queue, sampleVars, aborted, faults>>

-----------------------------------------------------------------------------
\* The socket opens; the token goes first.
OpenEvent ==
  /\ Quiet
  /\ rs = "connecting"
  /\ link[sock] = "dialing"
  /\ rs' = "open"
  /\ link' = [link EXCEPT ![sock] = "open"]
  /\ up' = [up EXCEPT ![sock] = Append(@, Auth(wanted))]
  /\ UNCHANGED <<down, sock, wanted, timer, callVars, sampleVars, aborted, sentAs, faults>>

MutAwaits(id) == stage[id] \in {"pending", "done"}

\* Only a request in the pending map takes an ack.
Awaits(id) == stage[id] = "pending"

\* onMessage() for an ack; request() then flushes whatever overlay is open.
OnAck(f) ==
  \/ /\ Awaits(f.id)
     /\ Settle({f.id}, f.verdict)
     /\ FlushApplyBuffer
  \/ /\ ~Awaits(f.id)
     /\ UNCHANGED <<callVars, sampleVars>>

MutAccepts(id) == owner # NoReq

\* onProgress(): samples are taken for the read whose progress is shown.
\* (ignoreProgress holds only ids that are no longer shown.)
Accepts(id) == owner = id

Message ==
  /\ Quiet
  /\ rs = "open"
  /\ down[sock] # <<>>
  /\ LET f == Head(down[sock]) IN
       \/ f.type = "ack" /\ OnAck(f)
       \/ /\ f.type = "progress"
          /\ buffer' = IF Accepts(f.id) /\ f.id \notin Dumps
                         THEN buffer \cup {f.id} ELSE buffer
          /\ UNCHANGED <<callVars, table>>
  /\ down' = [down EXCEPT ![sock] = Tail(@)]
  /\ UNCHANGED <<link, up, connVars, aborted, sentAs, faults>>

\* The animation frame of scheduleFlush().
AnimationFrame ==
  /\ Quiet
  /\ buffer # {}
  /\ FlushApplyBuffer
  /\ UNCHANGED <<wireVars, connVars, callVars, aborted, sentAs, faults>>

MutIdleTimerArmed(r) == stage[r] = "pending" /\ owner # r

IdleTimerArmed(r) == stage[r] = "pending"

\* Neither an ack nor progress for REQUEST_IDLE_MS.
IdleTimeout(r) ==
  /\ Quiet
  /\ IdleTimerArmed(r)
  /\ Settle({r}, "ws_timeout")
  /\ FlushAfter
  /\ up' = SendCancel(r)
  /\ UNCHANGED <<link, down, connVars, aborted, sentAs, faults>>

\* waitOpen() gives up after ten seconds and closes the socket under everyone
\* else who waits for it.
OpenTimeout(r) ==
  /\ Quiet
  /\ stage[r] = "opening"
  /\ \/ rs = "connecting" /\ Disturb
     \/ rs = "closing" /\ UNCHANGED faults
  /\ rs' = "closing"
  /\ Hang
  /\ Settle({r}, "ws_timeout")
  /\ FlushAfter
  /\ UNCHANGED <<up, sock, wanted, timer, aborted, sentAs>>

\* The user cancels, or the page that asked for the request goes away.
Abort(r) ==
  /\ Quiet
  /\ ~aborted[r]
  /\ stage[r] # "done"
  /\ aborted' = [aborted EXCEPT ![r] = TRUE]
  /\ \/ /\ stage[r] \in {"new", "queued"}
        /\ UNCHANGED <<up, callVars, sampleVars>>
     \/ /\ stage[r] = "opening"
        /\ Settle({r}, "cancelled")
        /\ FlushAfter
        /\ UNCHANGED up
     \/ /\ stage[r] = "pending"
        /\ Settle({r}, "cancelled")
        /\ FlushAfter
        /\ up' = SendCancel(r)
  /\ UNCHANGED <<link, down, connVars, sentAs, faults>>

-----------------------------------------------------------------------------
\* The error event, of a connection that did not close cleanly.
ErrorEvent ==
  /\ Quiet
  /\ sock # 0
  /\ link[sock] = "closed"
  /\ rs' = "failed"
  /\ FailAll("ws_error")
  /\ UNCHANGED <<wireVars, sock, wanted, timer, aborted, sentAs, faults>>

MutScheduleReconnect == timer' = (timer \/ wanted \notin {Undefined, NoToken})

\* scheduleReconnect()
ScheduleReconnect == timer' = (timer \/ wanted # Undefined)

\* The close event; that of a socket that was replaced does nothing.
CloseEvent ==
  /\ \/ Quiet /\ rs = "open"
     \/ rs = "failed" /\ \A r \in Reqs : ~ReadIsDue(r)
  /\ link[sock] = "closed"
  /\ sock' = 0
  /\ rs' = "none"
  /\ FailAll("ws_closed")
  /\ ScheduleReconnect
  /\ UNCHANGED <<wireVars, wanted, aborted, sentAs, faults>>

ReconnectTimer ==
  /\ Quiet
  /\ timer
  /\ Connect(wanted, NoReq)
  /\ UNCHANGED <<up, aborted, sentAs, faults>>

\* AuthContext calls connect() with the token it holds.
Login(t) ==
  /\ Quiet
  /\ \/ Live /\ wanted # t /\ Disturb
     \/ ~Live /\ UNCHANGED faults
  /\ Connect(t, NoReq)
  /\ UNCHANGED <<up, aborted, sentAs>>

\* logout() empties the table before disconnect(), whose failAll() flushes.
Logout ==
  /\ Quiet
  /\ wanted # Undefined
  /\ Disturb
  /\ wanted' = Undefined
  /\ timer' = FALSE
  /\ sock' = 0
  /\ rs' = "none"
  /\ Hang
  /\ Settle(Waiting, "ws_closed")
  /\ buffer' = {}
  /\ table' = buffer
  /\ UNCHANGED <<up, aborted, sentAs>>

ClientNext ==
  \/ \E r \in Reqs :
       \/ CallRead(r) \/ StartRead(r) \/ CallWrite(r) \/ Send(r)
       \/ IdleTimeout(r) \/ OpenTimeout(r) \/ Abort(r)
  \/ OpenEvent \/ Message \/ AnimationFrame
  \/ ErrorEvent \/ CloseEvent \/ ReconnectTimer
  \/ \E t \in Tokens : Login(t)
  \/ Logout

=============================================================================
