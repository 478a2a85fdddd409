------------------------------ MODULE BusCalls ------------------------------
(***************************************************************************)
(* What the bus promises the connection that calls it, without sessions,   *)
(* sockets, mutexes, retries or reloads, as long as answers come in time:  *)
(* a batch goes through its CVs one by one, the decoder carries out none   *)
(* before those ahead of it are settled, a CV is reported as done only     *)
(* when it was, and a cancelled batch sends or reports one more CV at      *)
(* most.  How Z21Programmer and Z21Client do this is Z21Bus.               *)
(***************************************************************************)
EXTENDS Naturals, Sequences

CONSTANTS Ops, Requests

VARIABLES
  stage,      \* "stopping": a cancelled batch has settled its last CV
  req,        \* what is asked for
  told,       \* the verdicts of a batch so far, in request order
  sent,       \* a command is with the station
  carried,    \* <<call, CV by number>> that the decoder has carried out
  cancelled,
  result

vars == <<stage, req, told, sent, carried, cancelled, result>>

Batch(o) == req[o].kind \in {"read", "write", "pomWrite"}
Acknowledged(o) == req[o].kind \in {"read", "write"}

\* The CV a batch is at, by its number in the request.
At(o) == Len(told[o]) + 1
CvLeft(o) == At(o) <= Len(req[o].cvs)

Init ==
  /\ stage = [o \in Ops |-> "idle"]
  /\ req = [o \in Ops |-> [kind |-> "read", cvs |-> <<>>]]
  /\ told = [o \in Ops |-> <<>>]
  /\ sent = [o \in Ops |-> FALSE]
  /\ carried = {}
  /\ cancelled = [o \in Ops |-> FALSE]
  /\ result = [o \in Ops |-> "none"]

Ends(o, code) ==
  /\ stage' = [stage EXCEPT ![o] = "ended"]
  /\ result' = [result EXCEPT ![o] = code]

Begin(o) ==
  /\ stage[o] = "idle" /\ stage' = [stage EXCEPT ![o] = "running"]
  /\ \E r \in Requests[o] : req' = [req EXCEPT ![o] = r]
  /\ UNCHANGED <<told, sent, carried, cancelled, result>>

\* The command for the next CV is sent, for the first time or again.  A batch
\* that was cancelled before ends with it.
Send(o) ==
  /\ stage[o] = "running" /\ Acknowledged(o) /\ CvLeft(o)
  /\ ~sent[o] /\ sent' = [sent EXCEPT ![o] = TRUE]
  /\ IF cancelled[o] THEN Ends(o, "cancelled") ELSE UNCHANGED <<stage, result>>
  /\ UNCHANGED <<req, told, carried, cancelled>>

\* It is carried out, or is not, also after the batch has ended.
Arrive(o) ==
  /\ sent[o] /\ sent' = [sent EXCEPT ![o] = FALSE]
  /\ carried' \in {carried, carried \cup {<<o, At(o)>>}}
  /\ UNCHANGED <<stage, req, told, cancelled, result>>

SecondTimeout(o, verdict) ==
  verdict = "timeout" /\ told[o] # <<>> /\ told[o][Len(told[o])] = "timeout"

\* The CV is settled.  Packets on the main track are not acknowledged.
Report(o, verdict) ==
  /\ stage[o] = "running" /\ Batch(o) /\ CvLeft(o) /\ ~sent[o]
  /\ verdict = "ok" /\ Acknowledged(o) => <<o, At(o)>> \in carried
  /\ told' = [told EXCEPT ![o] = Append(@, verdict)]
  /\ \/ SecondTimeout(o, verdict) /\ Ends(o, "z21_unreachable")
     \/ /\ ~SecondTimeout(o, verdict)
        /\ stage' = [stage EXCEPT ![o] = IF cancelled[o] THEN "stopping" ELSE @]
        /\ UNCHANGED result
  /\ UNCHANGED <<req, sent, carried, cancelled>>

End(o, code) ==
  /\ stage[o] \in {"running", "stopping"}
  /\ code = "ok" => ~sent[o] /\ (Batch(o) => ~CvLeft(o))
  /\ code = "cancelled" => cancelled[o]
  /\ stage[o] = "stopping" => code \in {"ok", "cancelled"}
  /\ Ends(o, code)
  /\ UNCHANGED <<req, told, sent, carried, cancelled>>

\* The token is cancelled, which a batch between two CVs may see at once.
Cancel(o) ==
  /\ stage[o] # "idle" /\ ~cancelled[o]
  /\ cancelled' = [cancelled EXCEPT ![o] = TRUE]
  /\ \/ UNCHANGED stage
     \/ stage[o] = "running" /\ stage' = [stage EXCEPT ![o] = "stopping"]
  /\ UNCHANGED <<req, told, sent, carried, result>>

Verdicts == {"ok", "nack", "timeout"}
Codes ==
  {"ok", "cancelled", "z21_not_configured", "z21_unreachable", "invalid_z21_address",
   "z21_session_replaced", "invalid_cv", "short_circuit"}

Next ==
  \E o \in Ops :
    \/ Begin(o) \/ Send(o) \/ Arrive(o) \/ Cancel(o)
    \/ \E verdict \in Verdicts : Report(o, verdict)
    \/ \E code \in Codes : End(o, code)

Spec == Init /\ [][Next]_vars

=============================================================================
