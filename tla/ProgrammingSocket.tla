-------------------------- MODULE ProgrammingSocket --------------------------
(***************************************************************************)
(* The daemon's side of the programming WebSocket: handle_socket in ws.rs, *)
(* one task per connection.  It takes the token from the first frame, then *)
(* runs one request at a time, supervised: while it runs, frames are read  *)
(* for its cancellation and every other request is refused as busy.        *)
(*                                                                         *)
(* What a request does on the bus is Perform; Z21Bus has the details.  A   *)
(* read streams progress through a forwarding task; one frame stands for   *)
(* all of them.  The channel between holds eight values, and what the bus  *)
(* reports while it is full is dropped.                                    *)
(***************************************************************************)
EXTENDS ProgrammingWire

VARIABLES
  phase,     \* phase[c]: where the task of connection c is
  token,     \* token[c]: what the connection authenticated with
  op,        \* op[c]: the request it runs
  cancel,    \* cancel[c]: the CancellationToken of that request
  fwd,       \* fwd[c]: the read whose progress is with the forwarding task
  streamed,  \* reads with a value that the progress channel took
  performed  \* requests whose bus call returned a batch

opVars == <<op, cancel, fwd>>
socketVars == <<phase, token, opVars, streamed, performed>>

Phases == {"handshake", "idle", "busy", "gone"}

SocketTypeOK ==
  /\ phase \in [Conns -> Phases]
  /\ token \in [Conns -> Tokens]
  /\ op \in [Conns -> Reqs \cup {NoReq}]
  /\ cancel \in [Conns -> BOOLEAN]
  /\ fwd \in [Conns -> Reads \cup {NoReq}]
  /\ streamed \subseteq Reads
  /\ performed \subseteq Reqs

SocketInit ==
  /\ phase = [c \in Conns |-> "handshake"]
  /\ token = [c \in Conns |-> NoToken]
  /\ op = [c \in Conns |-> NoReq]
  /\ cancel = [c \in Conns |-> FALSE]
  /\ fwd = [c \in Conns |-> NoReq]
  /\ streamed = {}
  /\ performed = {}

-----------------------------------------------------------------------------
\* The task takes frame f of connection c.
Takes(c, f) ==
  /\ up[c] # <<>>
  /\ f = Head(up[c])
  /\ up' = [up EXCEPT ![c] = Tail(@)]
  /\ UNCHANGED link

\* A frame is sent, into the void if the connection is closed.
Reply(c, f) ==
  down' = IF link[c] = "open" THEN [down EXCEPT ![c] = Append(@, f)] ELSE down

\* handshake(): the first frame is used up, whatever it is.
Handshake(c) ==
  /\ phase[c] = "handshake"
  /\ \E f \in UpFrames :
       /\ Takes(c, f)
       /\ token' = [token EXCEPT ![c] = IF f.type = "auth" THEN f.token ELSE NoToken]
  /\ phase' = [phase EXCEPT ![c] = "idle"]
  /\ UNCHANGED <<down, opVars, streamed, performed>>

\* The loop of handle_socket: a request is dispatched, and a cancellation that
\* comes too late is acknowledged under the id of the request it was for.
Loop(c) ==
  /\ phase[c] = "idle"
  /\ \E f \in UpFrames :
       /\ Takes(c, f)
       /\ \/ /\ f.type = "auth"
             /\ UNCHANGED <<down, phase, opVars>>
          \/ /\ f.type = "cancel"
             /\ Reply(c, Ack(f.id, "ok"))
             /\ UNCHANGED <<phase, opVars>>
          \/ /\ f.type = "request"
             /\ phase' = [phase EXCEPT ![c] = "busy"]
             /\ op' = [op EXCEPT ![c] = f.id]
             /\ cancel' = [cancel EXCEPT ![c] = FALSE]
             /\ UNCHANGED <<down, fwd>>
  /\ UNCHANGED <<token, streamed, performed>>

MutIsCancelFor(c, f) == f.type = "cancel" /\ f.id # op[c]

IsCancelFor(c, f) == f.type = "cancel" /\ f.id = op[c]

\* The refusal of another request carries that request's id.
Refusal(c, f) == Ack(f.id, "busy")

\* supervise(): frames read while a request runs.
Supervise(c) ==
  /\ phase[c] = "busy"
  /\ \E f \in UpFrames :
       /\ Takes(c, f)
       /\ cancel' = [cancel EXCEPT ![c] = @ \/ IsCancelFor(c, f)]
       /\ IF f.type = "request" THEN Reply(c, Refusal(c, f)) ELSE UNCHANGED down
  /\ UNCHANGED <<phase, token, op, fwd, streamed, performed>>

\* The bus reports a CV to the read's progress channel, unless it is full: the
\* value is then dropped, and nothing happens here (z21.rs 202-210) ...
Report(c) ==
  /\ phase[c] = "busy"
  /\ op[c] \in Reads \ streamed
  /\ streamed' = streamed \cup {op[c]}
  /\ fwd' = [fwd EXCEPT ![c] = op[c]]
  /\ UNCHANGED <<wireVars, phase, token, op, cancel, performed>>

\* ... and the forwarding task sends it.
Forward(c) ==
  /\ fwd[c] # NoReq
  /\ fwd' = [fwd EXCEPT ![c] = NoReq]
  /\ Reply(c, ProgressOf(fwd[c]))
  /\ UNCHANGED <<link, up, phase, token, op, cancel, streamed, performed>>

\* The bus call returns a batch.  A cancelled one may still get that far.
Perform(c) ==
  /\ phase[c] = "busy"
  /\ op[c] \notin performed
  /\ performed' = performed \cup {op[c]}
  /\ UNCHANGED <<wireVars, phase, token, opVars, streamed>>

MutForwarderDone(c) == TRUE

\* fwd.await: a read is acknowledged after the last progress frame.
ForwarderDone(c) == fwd[c] = NoReq

\* A read that was cancelled fails even if its batch is complete.
Succeeds(c) == op[c] \in performed /\ (op[c] \in Reads => ~cancel[c])

\* The dispatched request ends and its ack is sent.
Finish(c) ==
  /\ phase[c] = "busy"
  /\ ForwarderDone(c)
  /\ \/ Succeeds(c) /\ Reply(c, Ack(op[c], "ok"))
     \/ Reply(c, Ack(op[c], "failed"))
  /\ phase' = [phase EXCEPT ![c] = "idle"]
  /\ op' = [op EXCEPT ![c] = NoReq]
  /\ UNCHANGED <<link, up, token, cancel, fwd, streamed, performed>>

\* The stream ends: a request that runs is dropped where it stands.
Hangup(c) ==
  /\ phase[c] # "gone"
  /\ link[c] = "closed"
  /\ up[c] = <<>>
  /\ phase' = [phase EXCEPT ![c] = "gone"]
  /\ op' = [op EXCEPT ![c] = NoReq]
  /\ fwd' = [fwd EXCEPT ![c] = NoReq]
  /\ UNCHANGED <<wireVars, token, cancel, streamed, performed>>

SocketNext ==
  \E c \in Conns :
    \/ Handshake(c) \/ Loop(c) \/ Supervise(c)
    \/ Report(c) \/ Forward(c) \/ Perform(c) \/ Finish(c)
    \/ Hangup(c)

=============================================================================
