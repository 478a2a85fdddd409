------------------------------- MODULE CvCalls -------------------------------
(***************************************************************************)
(* What the calls of a tab promise its pages, and all that a page can rely *)
(* on: a call settles once; it is reported done only when the decoder's    *)
(* side was done with it, and refused only when it was not and will not    *)
(* be; the values a read streams are taken in only while it waits, and     *)
(* nothing but a logout takes them away.  How requests, cancellations,     *)
(* progress and connections do this is ProgrammingSession.                 *)
(***************************************************************************)
CONSTANT Calls

VARIABLES
  made,       \* calls that have been made
  result,     \* result[r]: what the promise of r settled with, or "none"
  performed,  \* calls whose batch the daemon brought to its end
  shown       \* calls with values in the CV table, or to be in it with the next frame

vars == <<made, result, performed, shown>>

Waiting == {r \in made : result[r] = "none"}

Init ==
  /\ made = {} /\ performed = {} /\ shown = {}
  /\ result = [r \in Calls |-> "none"]

\* A call is made.  It may have been aborted already, and the connection that
\* it finds unusable is given up with the calls that wait for it.
Make(r) ==
  /\ r \notin made /\ made' = made \cup {r}
  /\ \/ result' = [result EXCEPT ![r] = "cancelled"]
     \/ \E S \in SUBSET Waiting :
          result' = [q \in Calls |-> IF q \in S THEN "ws_closed" ELSE result[q]]
  /\ UNCHANGED <<performed, shown>>

Perform(r) ==
  /\ r \in made \ performed /\ result[r] # "busy"
  /\ performed' = performed \cup {r}
  /\ UNCHANGED <<made, result, shown>>

\* A value that was streamed to r is taken in.
Take(r) ==
  /\ r \in Waiting
  /\ shown' = shown \cup {r}
  /\ UNCHANGED <<made, result, performed>>

\* The calls of S settle.
Settle(S, why) ==
  /\ S \subseteq Waiting
  /\ why = "cached" => shown # {}
  /\ why = "ok" => S \subseteq performed
  /\ why = "busy" => S \cap performed = {}
  /\ result' = [r \in Calls |-> IF r \in S THEN why ELSE result[r]]
  /\ UNCHANGED <<made, performed, shown>>

\* A logout empties the table and closes the connection.
Forget(S) ==
  /\ S \subseteq Waiting
  /\ result' = [r \in Calls |-> IF r \in S THEN "ws_closed" ELSE result[r]]
  /\ shown' \in SUBSET shown
  /\ UNCHANGED <<made, performed>>

Whys ==
  {"ok", "busy", "failed", "cached", "cancelled", "ws_closed", "ws_error", "ws_timeout"}

Next ==
  \/ \E r \in Calls : Make(r) \/ Perform(r) \/ Take(r)
  \/ \E S \in SUBSET Calls : Forget(S) \/ \E why \in Whys : Settle(S, why)

Spec == Init /\ [][Next]_vars

=============================================================================
