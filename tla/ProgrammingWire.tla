--------------------------- MODULE ProgrammingWire ---------------------------
(***************************************************************************)
(* What the SPA's ProgrammingClient (web/src/api/ws.ts) and the daemon's   *)
(* WebSocket handler (ws.rs) share: the requests, the connections and the  *)
(* frames under way on them.  A WebSocket keeps the order of its frames and *)
(* loses them only when it closes.                                         *)
(***************************************************************************)
EXTENDS Naturals, Sequences, FiniteSets

CONSTANTS
  Reqs,       \* requests the tab makes, by id; each is made once
  Reads,      \* those that are cv.read; the others are writes
  NoReq,      \* no request
  Tokens,     \* what the tab may authenticate with, NoToken included
  NoToken,    \* auth with token null
  MaxFaults   \* bound on closed connections, logins and logouts

ASSUME WireConstants ==
  /\ Reads \subseteq Reqs
  /\ NoReq \notin Reqs
  /\ NoToken \in Tokens
  /\ MaxFaults \in Nat

\* Every new connection is owed to a fault, except the first.
Conns == 1..(MaxFaults + 1)

VARIABLES
  link,  \* link[c]: how far connection c is
  up,    \* up[c]: frames on their way to the daemon
  down   \* down[c]: frames on their way to the tab

wireVars == <<link, up, down>>

Auth(t)       == [type |-> "auth", token |-> t]
Request(r)    == [type |-> "request", id |-> r]
CancelOf(r)   == [type |-> "cancel", id |-> r]
Ack(r, v)     == [type |-> "ack", id |-> r, verdict |-> v]
ProgressOf(r) == [type |-> "progress", id |-> r]

Verdicts == {"ok", "failed", "busy"}

UpFrames ==
  [type : {"auth"}, token : Tokens] \cup [type : {"request", "cancel"}, id : Reqs]

DownFrames ==
  [type : {"ack"}, id : Reqs, verdict : Verdicts]
    \cup [type : {"progress"}, id : Reqs]

WireTypeOK ==
  /\ link \in [Conns -> {"unused", "dialing", "open", "closed"}]
  /\ up \in [Conns -> Seq(UpFrames)]
  /\ down \in [Conns -> Seq(DownFrames)]

WireInit ==
  /\ link = [c \in Conns |-> "unused"]
  /\ up = [c \in Conns |-> <<>>]
  /\ down = [c \in Conns |-> <<>>]

=============================================================================
