---------------------- MODULE ProgrammingSessionProofs ----------------------
(* What ProgrammingSession guarantees for any requests, any tokens and any *)
(* number of disturbances.                                                 *)
EXTENDS ProgrammingSession, FiniteSetTheorems, TLAPS

-----------------------------------------------------------------------------
(* Types, and the connection there is.  That sock stays one of Conns needs *)
(* that every new connection is owed to a disturbance.                     *)

CallTypes ==
  /\ stage \in [Reqs -> {"new", "queued", "opening", "pending", "done"}]
  /\ outcome \in [Reqs -> Outcomes]
  /\ queue \in Seq(Reads)
  /\ owner \in Reads \cup {NoReq}

SampleTypes == buffer \subseteq Reads /\ table \subseteq Reads

ConnTypes ==
  /\ sock \in Conns \cup {0}
  /\ rs \in {"none", "connecting", "open", "closing", "failed"}
  /\ wanted \in Tokens \cup {Undefined}
  /\ timer \in BOOLEAN

LinkTypes == link \in [Conns -> {"unused", "dialing", "open", "closed"}]
UpTypes == up \in [Conns -> Seq(UpFrames)]
DownTypes == down \in [Conns -> Seq(DownFrames)]

TellTypes ==
  /\ aborted \in [Reqs -> BOOLEAN]
  /\ sentAs \in [Reqs -> Tokens \cup {Undefined}]
  /\ faults \in 0..MaxFaults

\* The tab has a connection that may still carry frames.
Alive == Live /\ link[sock] \in {"dialing", "open"}

\* The connections so far are the first n; all but one are owed to a fault.
Budget ==
  \E n \in 0..(MaxFaults + 1) :
    /\ {c \in Conns : link[c] # "unused"} = 1..n
    /\ n <= faults + 1
    /\ ~Alive => n <= faults

\* Only the socket's connection is dialed or open, and the socket knows.
Dialed ==
  /\ \A c \in Conns : link[c] \in {"dialing", "open"} => c = sock /\ Live
  /\ sock # 0 => link[sock] # "unused" /\ wanted \in Tokens
  /\ rs # "none" => sock # 0
  /\ sock # 0 /\ link[sock] = "dialing" => rs = "connecting"
  /\ sock # 0 /\ link[sock] = "open" => rs = "open"
  /\ timer => wanted \in Tokens

Sound == TypeOK /\ Budget /\ Dialed

LEMMA TypesApart ==
  TypeOK <=> /\ CallTypes /\ SampleTypes /\ ConnTypes /\ TellTypes
             /\ LinkTypes /\ UpTypes /\ DownTypes /\ SocketTypeOK
BY DEF TypeOK, WireTypeOK, ClientTypeOK, CallTypes, SampleTypes, ConnTypes, TellTypes,
       LinkTypes, UpTypes, DownTypes

LEMMA TypesApartNext ==
  TypeOK' <=> /\ CallTypes' /\ SampleTypes' /\ ConnTypes' /\ TellTypes'
              /\ LinkTypes' /\ UpTypes' /\ DownTypes' /\ SocketTypeOK'
BY DEF TypeOK, WireTypeOK, ClientTypeOK, CallTypes, SampleTypes, ConnTypes, TellTypes,
       LinkTypes, UpTypes, DownTypes

LEMMA NoConnZero == 0 \notin Conns
BY WireConstants DEF Conns

LEMMA OneMore == \A n, f \in Nat : n <= f => n + 1 <= f + 1
OBVIOUS

LEMMA Weaker == \A n, f \in Nat : n <= f => n <= f + 1
OBVIOUS

LEMMA SoundInit == Init => Sound
<1> SUFFICES ASSUME Init PROVE Sound
  OBVIOUS
<1>1. CallTypes /\ SampleTypes
  <2>1. queue \in Seq(Reads)
    BY DEF Init, ClientInit
  <2> QED BY <2>1 DEF Init, ClientInit, CallTypes, SampleTypes, Outcomes
<1>2. ConnTypes /\ TellTypes
  <2>1. ConnTypes
    BY DEF Init, ClientInit, ConnTypes
  <2>2. TellTypes
    BY WireConstants DEF Init, ClientInit, TellTypes
  <2> QED BY <2>1, <2>2
<1>3. LinkTypes /\ UpTypes /\ DownTypes
  <2>1. <<>> \in Seq(UpFrames) /\ <<>> \in Seq(DownFrames)
    OBVIOUS
  <2> QED BY <2>1 DEF Init, WireInit, LinkTypes, UpTypes, DownTypes
<1>4. SocketTypeOK
  BY WireConstants DEF Init, SocketInit, SocketTypeOK, Phases
<1>5. TypeOK
  BY <1>1, <1>2, <1>3, <1>4, TypesApart
<1>6. Budget
  <2>1. {c \in Conns : link[c] # "unused"} = 1..0
    BY DEF Init, WireInit
  <2>2. 0 \in 0..(MaxFaults + 1) /\ faults = 0
    BY WireConstants DEF Init, ClientInit
  <2> QED BY <2>1, <2>2 DEF Budget
<1>7. Dialed
  BY DEF Init, WireInit, ClientInit, Dialed
<1> QED BY <1>5, <1>6, <1>7 DEF Sound

\* The promises that settle, and the queue, stay typed.
LEMMA SettleTypes ==
  ASSUME CallTypes, NEW S, NEW why \in Outcomes, NEW r, SettleAndOpen(S, why, r)
  PROVE  CallTypes'
<1>1. queue' \in Seq(Reads)
  BY DEF SettleAndOpen, CallTypes
<1>2. /\ stage' \in [Reqs -> {"new", "queued", "opening", "pending", "done"}]
      /\ outcome' \in [Reqs -> Outcomes]
      /\ owner' \in Reads \cup {NoReq}
  BY DEF SettleAndOpen, CallTypes
<1> QED BY <1>1, <1>2 DEF CallTypes

LEMMA FlushTypes == SampleTypes /\ FlushApplyBuffer => SampleTypes'
BY DEF SampleTypes, FlushApplyBuffer

LEMMA FlushAfterTypes == SampleTypes /\ FlushAfter => SampleTypes'
BY FlushTypes DEF SampleTypes, FlushAfter, sampleVars

LEMMA SentTypes ==
  ASSUME Sound, NEW f \in UpFrames
  PROVE  Sent(f) \in [Conns -> Seq(UpFrames)]
BY DEF Sent, Sound, TypeOK, WireTypeOK, ClientTypeOK, Dialed

LEMMA FramesTyped ==
  ASSUME NEW r \in Reqs
  PROVE  /\ Request(r) \in UpFrames /\ CancelOf(r) \in UpFrames
         /\ \A v \in Verdicts : Ack(r, v) \in DownFrames
         /\ ProgressOf(r) \in DownFrames
         /\ \A t \in Tokens : Auth(t) \in UpFrames
BY DEF Request, CancelOf, Ack, ProgressOf, Auth, UpFrames, DownFrames

\* Steps that leave the connections alone keep what is said of them.
LEMMA NetSame ==
  ASSUME Budget, Dialed, UNCHANGED <<link, sock, rs, wanted, timer, faults>>
  PROVE  Budget' /\ Dialed'
BY DEF Budget, Dialed, Alive, Live

\* The next connection is the one after those that have been used.
LEMMA FreshNext ==
  ASSUME NEW n \in Nat, {c \in Conns : link[c] # "unused"} = 1..n
  PROVE  Fresh = n + 1
<1>1. Cardinality(1..n) = n
  BY FS_Interval
<1> QED BY <1>1 DEF Fresh

LEMMA FreshUnused ==
  ASSUME Sound, NEW t, ~Reusable(t),
         \/ Live /\ wanted # t /\ Disturb
         \/ (~Live \/ wanted = t) /\ faults' = faults
  PROVE  \E n \in Nat :
           /\ {c \in Conns : link[c] # "unused"} = 1..n
           /\ n <= faults' /\ n <= MaxFaults
           /\ Fresh = n + 1 /\ n + 1 \in Conns
           /\ sock # n + 1 /\ link[n + 1] = "unused"
<1>1. faults \in 0..MaxFaults /\ MaxFaults \in Nat
  BY TypesApart, WireConstants DEF Sound, TellTypes
<1>2. PICK n \in 0..(MaxFaults + 1) :
        /\ {c \in Conns : link[c] # "unused"} = 1..n
        /\ n <= faults + 1
        /\ ~Alive => n <= faults
  BY DEF Sound, Budget
<1>3. n \in Nat /\ n <= faults' /\ n <= MaxFaults
  BY <1>1, <1>2 DEF Reusable, Disturb, Alive
<1>4. Fresh = n + 1
  BY <1>2, <1>3, FreshNext
<1>5. n + 1 \in Conns
  BY <1>1, <1>3 DEF Conns
<1>6. link[n + 1] = "unused"
  BY <1>2, <1>3, <1>5
<1>7. sock # n + 1
  BY <1>5, <1>6, NoConnZero DEF Sound, Dialed
<1> QED BY <1>2, <1>3, <1>4, <1>5, <1>6, <1>7

\* connect() with a token it is called with.
LEMMA ConnectSound ==
  ASSUME Sound, NEW t \in Tokens, NEW r, Connect(t, r),
         \/ Live /\ wanted # t /\ Disturb
         \/ (~Live \/ wanted = t) /\ faults' = faults
  PROVE  /\ Budget' /\ Dialed' /\ CallTypes' /\ SampleTypes' /\ ConnTypes'
         /\ LinkTypes' /\ DownTypes' /\ faults' \in 0..MaxFaults
<1>1. /\ CallTypes /\ SampleTypes /\ ConnTypes /\ LinkTypes /\ DownTypes
      /\ faults \in 0..MaxFaults /\ MaxFaults \in Nat
  BY TypesApart, WireConstants DEF Sound, TellTypes
<1>2. faults' \in 0..MaxFaults
  BY <1>1 DEF Disturb
<1>3. CallTypes'
  BY <1>1, SettleTypes DEF Connect, Outcomes
<1>4. SampleTypes'
  BY <1>1, FlushTypes DEF Connect, SampleTypes, sampleVars
<1>5. CASE Reusable(t)
  <2>1. UNCHANGED <<link, down, sock, rs, timer>> /\ wanted' = wanted /\ faults' = faults
    BY <1>5 DEF Connect, Reusable
  <2>2. Budget' /\ Dialed'
    BY <2>1, NetSame DEF Sound
  <2> QED BY <1>1, <1>2, <1>3, <1>4, <2>1, <2>2 DEF ConnTypes, LinkTypes, DownTypes
<1>6. CASE ~Reusable(t)
  <2>1. PICK n \in Nat :
          /\ {c \in Conns : link[c] # "unused"} = 1..n
          /\ n <= faults' /\ n <= MaxFaults
          /\ Fresh = n + 1 /\ n + 1 \in Conns
          /\ sock # n + 1 /\ link[n + 1] = "unused"
    BY <1>6, FreshUnused
  <2>2. n \in Nat /\ n <= faults' /\ n <= MaxFaults
    BY <2>1
  <2>3. Fresh = n + 1
    BY <2>1
  <2>4. n + 1 \in Conns /\ n + 1 \in 1..(MaxFaults + 1)
    BY <2>1 DEF Conns
  <2>5. sock # n + 1 /\ link[n + 1] = "unused"
    BY <2>1
  <2>6. /\ wanted' = t /\ timer' = FALSE /\ sock' = n + 1 /\ rs' = "connecting"
        /\ link' = [c \in Conns |-> CASE c = sock -> "closed"
                                      [] c = n + 1 -> "dialing"
                                      [] OTHER -> link[c]]
        /\ down' = [c \in Conns |-> IF c = sock THEN <<>> ELSE down[c]]
    BY <1>6, <2>3 DEF Connect, Reusable
  <2>7. ConnTypes' /\ LinkTypes' /\ DownTypes'
    <3>1. ConnTypes'
      BY <2>4, <2>6 DEF ConnTypes
    <3>2. LinkTypes'
      BY <1>1, <2>6 DEF LinkTypes
    <3>3. DownTypes'
      BY <1>1, <2>6 DEF DownTypes
    <3> QED BY <3>1, <3>2, <3>3
  <2>8. {c \in Conns : link'[c] # "unused"} = 1..(n + 1)
    <3>1. \A c \in Conns : link'[c] # "unused" <=> c \in 1..n \/ c = n + 1
      <4> SUFFICES ASSUME NEW c \in Conns
                   PROVE  link'[c] # "unused" <=> c \in 1..n \/ c = n + 1
        OBVIOUS
      <4>1. CASE c = sock
        <5>1. link[c] # "unused" /\ link'[c] = "closed"
          BY <2>5, <2>6, <4>1, NoConnZero DEF Sound, Dialed
        <5> QED BY <2>1, <5>1
      <4>2. CASE c # sock /\ c = n + 1
        BY <2>6, <4>2
      <4>3. CASE c # sock /\ c # n + 1
        BY <2>1, <2>6, <4>3
      <4> QED BY <4>1, <4>2, <4>3
    <3>2. 1..(n + 1) \subseteq Conns
      BY <1>1, <2>2 DEF Conns
    <3> QED BY <2>2, <3>1, <3>2
  <2>9. Budget'
    <3>1. Alive'
      BY <2>4, <2>5, <2>6 DEF Alive, Live, Conns
    <3>2. n + 1 \in 0..(MaxFaults + 1) /\ n + 1 <= faults' + 1
      <4>1. MaxFaults \in Nat /\ faults' \in Nat
        BY <1>1, <1>2
      <4>2. n + 1 \in 0..(MaxFaults + 1)
        BY <2>2, <4>1
      <4>3. n + 1 <= faults' + 1
        BY <2>2, <4>1, OneMore, Zenon
      <4> QED BY <4>2, <4>3
    <3> QED BY <2>8, <3>1, <3>2 DEF Budget
  <2>10. Dialed'
    <3>1. \A c \in Conns : link'[c] \in {"dialing", "open"} => c = n + 1
      BY <2>6 DEF Sound, Dialed
    <3>2. link'[n + 1] = "dialing" /\ n + 1 # 0
      BY <2>2, <2>4, <2>5, <2>6
    <3> QED BY <2>6, <3>1, <3>2 DEF Dialed, Live
  <2> QED BY <1>2, <1>3, <1>4, <2>7, <2>9, <2>10
<1> QED BY <1>5, <1>6

\* Asking for a connection finds the token it is asked with.
LEMMA AskConnects ==
  ASSUME Sound, NEW r, Ask(r), faults' = faults
  PROVE  \E t \in Tokens :
           /\ Connect(t, r)
           /\ (~Live \/ wanted = t) /\ faults' = faults
<1>1. Live => wanted \in Tokens
  BY DEF Live, Sound, Dialed
<1>2. wanted = Undefined => ~Live
  BY <1>1, ClientConstants
<1>3. wanted # Undefined => wanted \in Tokens
  BY DEF Sound, TypeOK, ClientTypeOK
<1> QED BY <1>2, <1>3, WireConstants DEF Ask

\* socket.close(): what is said of the connections, for a socket that is not used
\* any more and a disturbance or a connection that was lost before.
LEMMA HangSound ==
  ASSUME Sound, Hang,
         Disturb \/ (~Alive /\ faults' = faults),
         ~Live', sock' \in {0, sock}, rs' # "none" => sock' # 0,
         rs' \notin {"connecting", "open"},
         sock' # 0 => wanted' \in Tokens, timer' => wanted' \in Tokens
  PROVE  Budget' /\ Dialed' /\ LinkTypes' /\ DownTypes' /\ faults' \in 0..MaxFaults
<1>1. /\ LinkTypes /\ DownTypes /\ sock \in Conns \cup {0}
      /\ faults \in 0..MaxFaults /\ MaxFaults \in Nat
  BY TypesApart, WireConstants DEF Sound, TellTypes, ConnTypes
<1>2. /\ link' = [c \in Conns |-> IF c = sock THEN "closed" ELSE link[c]]
      /\ down' = [c \in Conns |-> IF c = sock THEN <<>> ELSE down[c]]
  BY DEF Hang
<1>3. LinkTypes' /\ DownTypes'
  <2>1. LinkTypes'
    BY <1>1, <1>2 DEF LinkTypes
  <2>2. DownTypes'
    BY <1>1, <1>2 DEF DownTypes
  <2> QED BY <2>1, <2>2
<1>4. faults' \in 0..MaxFaults
  BY <1>1 DEF Disturb
<1>5. \A c \in Conns : link'[c] \notin {"dialing", "open"}
  BY <1>1, <1>2 DEF Sound, Dialed
<1>6. Dialed'
  BY <1>1, <1>2, <1>5 DEF Dialed
<1>7. Budget'
  <2>1. PICK n \in 0..(MaxFaults + 1) :
          /\ {c \in Conns : link[c] # "unused"} = 1..n
          /\ n <= faults + 1
          /\ ~Alive => n <= faults
    BY DEF Sound, Budget
  <2>2. sock \in Conns => link[sock] # "unused"
    BY NoConnZero DEF Sound, Dialed
  <2>3. {c \in Conns : link'[c] # "unused"} = {c \in Conns : link[c] # "unused"}
    BY <1>1, <1>2, <2>2
  <2>4. n <= faults' /\ n \in Nat /\ faults' \in Nat
    BY <1>1, <1>4, <2>1 DEF Disturb
  <2>5. n <= faults' + 1
    BY <2>4, Weaker, Zenon
  <2> QED BY <2>1, <2>3, <2>4, <2>5 DEF Budget
<1> QED BY <1>3, <1>4, <1>6, <1>7

\* A step that settles, flushes and sends, and leaves the connections alone.
LEMMA SettleSound ==
  ASSUME Sound, CallTypes', SampleTypes', TellTypes', UpTypes', DownTypes',
         UNCHANGED <<link, sock, rs, wanted, timer, faults, socketVars>>
  PROVE  Sound'
<1>1. Budget' /\ Dialed'
  BY NetSame DEF Sound
<1>2. ConnTypes' /\ LinkTypes' /\ SocketTypeOK'
  BY TypesApart DEF Sound, ConnTypes, LinkTypes, socketVars, opVars, SocketTypeOK
<1> QED BY <1>1, <1>2, TypesApartNext DEF Sound

LEMMA CallReadSound ==
  ASSUME Sound, NEW r \in Reqs, CallRead(r), UNCHANGED socketVars
  PROVE  Sound'
<1>1. CallTypes'
  BY DEF CallRead, Sound, TypeOK, ClientTypeOK, CallTypes
<1>2. SampleTypes' /\ TellTypes' /\ UpTypes' /\ DownTypes'
  BY TypesApart DEF CallRead, Sound, SampleTypes, TellTypes, UpTypes, DownTypes,
                    sampleVars, wireVars
<1> QED BY <1>1, <1>2, SettleSound DEF CallRead, wireVars, connVars

\* A step that connects.
LEMMA ConnectingSound ==
  ASSUME Sound, NEW t \in Tokens, NEW r, Connect(t, r),
         \/ Live /\ wanted # t /\ Disturb
         \/ (~Live \/ wanted = t) /\ faults' = faults,
         UNCHANGED <<up, aborted, sentAs, socketVars>>
  PROVE  Sound'
<1>1. /\ Budget' /\ Dialed' /\ CallTypes' /\ SampleTypes' /\ ConnTypes'
      /\ LinkTypes' /\ DownTypes' /\ faults' \in 0..MaxFaults
  BY ConnectSound
<1>2. UpTypes' /\ SocketTypeOK'
  BY TypesApart DEF Sound, UpTypes, socketVars, opVars, SocketTypeOK
<1>3. TellTypes'
  BY <1>1, TypesApart DEF Sound, TellTypes
<1> QED BY <1>1, <1>2, <1>3, TypesApartNext DEF Sound

LEMMA AskingSound ==
  ASSUME Sound, NEW r, Ask(r), UNCHANGED <<up, aborted, sentAs, faults, socketVars>>
  PROVE  Sound'
<1>1. PICK t \in Tokens : Connect(t, r) /\ (~Live \/ wanted = t) /\ faults' = faults
  BY AskConnects
<1> QED BY <1>1, ConnectingSound

LEMMA StartReadSound ==
  ASSUME Sound, NEW r \in Reqs, StartRead(r), UNCHANGED socketVars
  PROVE  Sound'
<1>1. CASE Ask(r)
  BY <1>1, AskingSound DEF StartRead
<1>2. CASE \E why \in {"cached", "cancelled"} :
             Settle({r}, why) /\ UNCHANGED <<link, down, connVars, sampleVars>>
  <2>1. CallTypes'
    BY <1>2, TypesApart, SettleTypes DEF Settle, Sound, Outcomes
  <2>2. SampleTypes' /\ TellTypes' /\ UpTypes' /\ DownTypes'
    BY <1>2, TypesApart DEF StartRead, Sound, SampleTypes, TellTypes, UpTypes, DownTypes, sampleVars
  <2> QED BY <1>2, <2>1, <2>2, SettleSound DEF StartRead, connVars
<1> QED BY <1>1, <1>2 DEF StartRead

LEMMA CallWriteSound ==
  ASSUME Sound, NEW r \in Reqs, CallWrite(r), UNCHANGED socketVars
  PROVE  Sound'
<1>1. CASE Ask(r)
  BY <1>1, AskingSound DEF CallWrite
<1>2. CASE Settle({r}, "cancelled") /\ UNCHANGED <<link, down, connVars, sampleVars>>
  <2>1. CallTypes'
    BY <1>2, TypesApart, SettleTypes DEF Settle, Sound, Outcomes
  <2>2. SampleTypes' /\ TellTypes' /\ UpTypes' /\ DownTypes'
    BY <1>2, TypesApart DEF CallWrite, Sound, SampleTypes, TellTypes, UpTypes, DownTypes, sampleVars
  <2> QED BY <1>2, <2>1, <2>2, SettleSound DEF CallWrite, connVars
<1> QED BY <1>1, <1>2 DEF CallWrite

LEMMA SendSound ==
  ASSUME Sound, NEW r \in Reqs, Send(r), UNCHANGED socketVars
  PROVE  Sound'
<1>1. CallTypes'
  BY DEF Send, Shown, Sound, TypeOK, ClientTypeOK, CallTypes
<1>2. UpTypes'
  BY SentTypes, FramesTyped DEF Send, UpTypes
<1>3. TellTypes'
  BY DEF Send, Sound, TypeOK, ClientTypeOK, TellTypes
<1>4. SampleTypes' /\ DownTypes'
  BY TypesApart DEF Send, Sound, SampleTypes, DownTypes, sampleVars
<1> QED BY <1>1, <1>2, <1>3, <1>4, SettleSound DEF Send, connVars

LEMMA OpenEventSound ==
  ASSUME Sound, OpenEvent, UNCHANGED socketVars
  PROVE  Sound'
<1>1. sock \in Conns /\ sock # 0 /\ wanted \in Tokens /\ link[sock] = "dialing"
  BY DEF OpenEvent, Sound, TypeOK, ClientTypeOK, Dialed
<1>2. UpTypes'
  <2>1. Auth(wanted) \in UpFrames /\ up[sock] \in Seq(UpFrames) /\ UpTypes
    BY <1>1, TypesApart DEF Sound, UpTypes, Auth, UpFrames
  <2>2. Append(up[sock], Auth(wanted)) \in Seq(UpFrames)
    BY <2>1
  <2> QED BY <1>1, <2>1, <2>2 DEF OpenEvent, UpTypes
<1>3. LinkTypes' /\ ConnTypes'
  BY <1>1, TypesApart DEF OpenEvent, Sound, LinkTypes, ConnTypes
<1>4. CallTypes' /\ SampleTypes' /\ TellTypes' /\ DownTypes' /\ SocketTypeOK'
  BY TypesApart DEF OpenEvent, Sound, CallTypes, SampleTypes, TellTypes, DownTypes,
                    SocketTypeOK, callVars, sampleVars, socketVars, opVars
<1>5. link' = [link EXCEPT ![sock] = "open"] /\ sock' = sock /\ rs' = "open" /\ rs = "connecting"
  BY DEF OpenEvent
<1>6. Dialed'
  BY <1>1, <1>5, TypesApart DEF OpenEvent, Sound, Dialed, Live, LinkTypes
<1>7. Budget'
  <2>1. {c \in Conns : link'[c] # "unused"} = {c \in Conns : link[c] # "unused"}
    BY <1>1, <1>5, TypesApart DEF Sound, LinkTypes
  <2>2. Alive'
    BY <1>1, <1>5, TypesApart DEF Sound, LinkTypes, Alive, Live
  <2> QED BY <2>1, <2>2 DEF OpenEvent, Sound, Budget
<1> QED BY <1>2, <1>3, <1>4, <1>6, <1>7, TypesApartNext DEF Sound

LEMMA MessageSound ==
  ASSUME Sound, Message, UNCHANGED socketVars
  PROVE  Sound'
<1>1. sock \in Conns
  BY DEF Message, Sound, TypeOK, ClientTypeOK, Dialed
<1> DEFINE f == Head(down[sock])
<1>2. f \in DownFrames /\ down[sock] \in Seq(DownFrames) /\ down[sock] # <<>>
  BY <1>1 DEF Message, Sound, TypeOK, WireTypeOK
<1>3. DownTypes'
  BY <1>1, <1>2 DEF Message, Sound, TypeOK, WireTypeOK, DownTypes
<1> HIDE DEF f
<1>4. CallTypes' /\ SampleTypes'
  <2>1. CASE f.type = "ack" /\ OnAck(f)
    <3>1. f.verdict \in Outcomes
      BY <1>2, <2>1 DEF DownFrames, Outcomes
    <3> QED BY <2>1, <3>1, TypesApart, SettleTypes, FlushTypes
            DEF OnAck, Settle, Sound, callVars, sampleVars, CallTypes, SampleTypes
  <2>2. CASE /\ f.type = "progress"
             /\ buffer' = IF Accepts(f.id) /\ f.id \notin Dumps THEN buffer \cup {f.id} ELSE buffer
             /\ UNCHANGED <<callVars, table>>
    <3>1. f.id \in Reqs
      BY <1>2 DEF DownFrames
    <3>2. Accepts(f.id) => f.id \in Reads
      BY <3>1, WireConstants DEF Accepts, Sound, TypeOK, ClientTypeOK
    <3> QED BY <2>2, <3>2, TypesApart DEF Sound, callVars, CallTypes, SampleTypes
  <2> QED BY <2>1, <2>2 DEF Message, f
<1>5. TellTypes' /\ UpTypes'
  BY TypesApart DEF Message, Sound, TellTypes, UpTypes
<1> QED BY <1>3, <1>4, <1>5, SettleSound DEF Message, connVars

LEMMA AnimationFrameSound ==
  ASSUME Sound, AnimationFrame, UNCHANGED socketVars
  PROVE  Sound'
<1>1. SampleTypes'
  BY TypesApart, FlushTypes DEF AnimationFrame, Sound
<1>2. CallTypes' /\ TellTypes' /\ UpTypes' /\ DownTypes'
  BY TypesApart DEF AnimationFrame, Sound, CallTypes, TellTypes, UpTypes, DownTypes,
                    wireVars, callVars
<1> QED BY <1>1, <1>2, SettleSound DEF AnimationFrame, wireVars, connVars

LEMMA IdleTimeoutSound ==
  ASSUME Sound, NEW r \in Reqs, IdleTimeout(r), UNCHANGED socketVars
  PROVE  Sound'
<1>1. CallTypes' /\ SampleTypes'
  BY TypesApart, SettleTypes, FlushAfterTypes DEF IdleTimeout, Settle, Sound, Outcomes
<1>2. UpTypes'
  BY SentTypes, FramesTyped DEF IdleTimeout, SendCancel, UpTypes
<1>3. TellTypes' /\ DownTypes'
  BY TypesApart DEF IdleTimeout, Sound, TellTypes, DownTypes
<1> QED BY <1>1, <1>2, <1>3, SettleSound DEF IdleTimeout, connVars

LEMMA OpenTimeoutSound ==
  ASSUME Sound, NEW r \in Reqs, OpenTimeout(r), UNCHANGED socketVars
  PROVE  Sound'
<1>1. CallTypes' /\ SampleTypes'
  BY TypesApart, SettleTypes, FlushAfterTypes DEF OpenTimeout, Settle, Sound, Outcomes
<1>2. sock # 0 /\ wanted \in Tokens /\ sock' = sock /\ rs' = "closing" /\ wanted' = wanted
      /\ timer' = timer /\ Hang
  BY DEF OpenTimeout, Sound, Dialed
<1>3. Disturb \/ (~Alive /\ faults' = faults)
  BY DEF OpenTimeout, Alive, Live
<1>4. Budget' /\ Dialed' /\ LinkTypes' /\ DownTypes' /\ faults' \in 0..MaxFaults
  BY <1>2, <1>3, HangSound DEF Live, Sound, Dialed
<1>5. ConnTypes'
  BY <1>2, TypesApart DEF Sound, ConnTypes
<1>6. UpTypes' /\ TellTypes' /\ SocketTypeOK'
  BY <1>4, TypesApart DEF OpenTimeout, Sound, UpTypes, TellTypes, SocketTypeOK, socketVars, opVars
<1> QED BY <1>1, <1>4, <1>5, <1>6, TypesApartNext DEF Sound

LEMMA AbortSound ==
  ASSUME Sound, NEW r \in Reqs, Abort(r), UNCHANGED socketVars
  PROVE  Sound'
<1>1. CallTypes' /\ SampleTypes'
  <2>1. CASE UNCHANGED <<up, callVars, sampleVars>>
    BY <2>1, TypesApart DEF Sound, callVars, sampleVars, CallTypes, SampleTypes
  <2>2. CASE Settle({r}, "cancelled") /\ FlushAfter
    BY <2>2, TypesApart, SettleTypes, FlushAfterTypes DEF Settle, Sound, Outcomes
  <2> QED BY <2>1, <2>2 DEF Abort
<1>2. UpTypes'
  BY SentTypes, FramesTyped, TypesApart DEF Abort, SendCancel, UpTypes, Sound
<1>3. TellTypes'
  BY TypesApart DEF Abort, Sound, TellTypes
<1>4. DownTypes'
  BY TypesApart DEF Abort, Sound, DownTypes
<1> QED BY <1>1, <1>2, <1>3, <1>4, SettleSound DEF Abort, connVars

\* What is said of the connections when the socket has lost its own.
LEMMA LostSound ==
  ASSUME Sound, sock # 0, link[sock] = "closed", UNCHANGED <<link, wanted, faults>>,
         sock' \in {0, sock}, rs' \in {"none", "failed"}, rs' # "none" => sock' # 0,
         timer' => wanted \in Tokens
  PROVE  Budget' /\ Dialed'
<1>1. \A c \in Conns : link[c] \notin {"dialing", "open"}
  BY DEF Sound, Dialed
<1>2. Dialed'
  BY <1>1 DEF Sound, Dialed
<1>3. ~Alive /\ ~Alive'
  BY DEF Alive, Live
<1> QED BY <1>2, <1>3 DEF Sound, Budget

LEMMA ErrorEventSound ==
  ASSUME Sound, ErrorEvent, UNCHANGED socketVars
  PROVE  Sound'
<1>1. CallTypes' /\ SampleTypes'
  BY TypesApart, SettleTypes, FlushTypes DEF ErrorEvent, FailAll, Settle, Sound, Outcomes
<1>2. ConnTypes' /\ TellTypes' /\ LinkTypes' /\ UpTypes' /\ DownTypes' /\ SocketTypeOK'
  BY TypesApart DEF ErrorEvent, Sound, ConnTypes, TellTypes, LinkTypes, UpTypes, DownTypes,
                    SocketTypeOK, wireVars, socketVars, opVars
<1>3. Budget' /\ Dialed'
  BY LostSound DEF ErrorEvent, wireVars, Sound, Dialed
<1> QED BY <1>1, <1>2, <1>3, TypesApartNext DEF Sound

LEMMA CloseEventSound ==
  ASSUME Sound, CloseEvent, UNCHANGED socketVars
  PROVE  Sound'
<1>1. CallTypes' /\ SampleTypes'
  BY TypesApart, SettleTypes, FlushTypes DEF CloseEvent, FailAll, Settle, Sound, Outcomes
<1>2. TellTypes' /\ LinkTypes' /\ UpTypes' /\ DownTypes' /\ SocketTypeOK'
  BY TypesApart DEF CloseEvent, Sound, TellTypes, LinkTypes, UpTypes, DownTypes,
                    SocketTypeOK, wireVars, socketVars, opVars
<1>3. ConnTypes'
  BY TypesApart DEF CloseEvent, Sound, ConnTypes, ScheduleReconnect
<1>4. sock # 0 /\ wanted \in Tokens
  BY DEF CloseEvent, Sound, Dialed
<1>5. Budget' /\ Dialed'
  BY <1>4, LostSound DEF CloseEvent, wireVars
<1> QED BY <1>1, <1>2, <1>3, <1>5, TypesApartNext DEF Sound

LEMMA ReconnectTimerSound ==
  ASSUME Sound, ReconnectTimer, UNCHANGED socketVars
  PROVE  Sound'
<1>1. wanted \in Tokens
  BY DEF ReconnectTimer, Sound, Dialed
<1> QED BY <1>1, ConnectingSound DEF ReconnectTimer

LEMMA LoginSound ==
  ASSUME Sound, NEW t \in Tokens, Login(t), UNCHANGED socketVars
  PROVE  Sound'
BY ConnectingSound DEF Login

LEMMA LogoutSound ==
  ASSUME Sound, Logout, UNCHANGED socketVars
  PROVE  Sound'
<1>1. CallTypes' /\ SampleTypes'
  <2>1. CallTypes'
    BY TypesApart, SettleTypes DEF Logout, Settle, Sound, Outcomes
  <2>2. SampleTypes'
    BY TypesApart DEF Logout, Sound, SampleTypes
  <2> QED BY <2>1, <2>2
<1>2. /\ wanted' = Undefined /\ timer' = FALSE /\ sock' = 0 /\ rs' = "none"
      /\ Hang /\ Disturb
  BY DEF Logout
<1>3. Budget' /\ Dialed' /\ LinkTypes' /\ DownTypes' /\ faults' \in 0..MaxFaults
  BY <1>2, HangSound DEF Live
<1>4. UpTypes' /\ ConnTypes' /\ SocketTypeOK'
  BY <1>2, TypesApart DEF Logout, Sound, UpTypes, ConnTypes, SocketTypeOK, socketVars, opVars
<1>5. TellTypes'
  BY <1>3, TypesApart DEF Logout, Sound, TellTypes
<1> QED BY <1>1, <1>3, <1>4, <1>5, TypesApartNext DEF Sound

LEMMA LoseSound ==
  ASSUME Sound, NEW c \in Conns, Lose(c)
  PROVE  Sound'
<1>1. /\ LinkTypes /\ UpTypes /\ DownTypes /\ faults \in 0..MaxFaults /\ MaxFaults \in Nat
      /\ faults' = faults + 1 /\ faults < MaxFaults
  BY TypesApart, WireConstants DEF Sound, TellTypes, Lose, Disturb
<1>2. c = sock /\ Live /\ UNCHANGED <<sock, rs, wanted, timer>>
  BY DEF Lose, Sound, Dialed, connVars
<1>3. link' = [link EXCEPT ![c] = "closed"] /\ up' = [up EXCEPT ![c] = <<>>]
      /\ down' = [down EXCEPT ![c] = <<>>]
  BY DEF Lose
<1>4. LinkTypes' /\ UpTypes' /\ DownTypes'
  <2>1. LinkTypes'
    BY <1>1, <1>3 DEF LinkTypes
  <2>2. UpTypes' /\ DownTypes'
    BY <1>1, <1>3 DEF UpTypes, DownTypes
  <2> QED BY <2>1, <2>2
<1>5. CallTypes' /\ SampleTypes' /\ ConnTypes' /\ SocketTypeOK'
  BY TypesApart DEF Lose, Sound, CallTypes, SampleTypes, ConnTypes, SocketTypeOK, callVars,
                    sampleVars, connVars, socketVars, opVars
<1>6. TellTypes'
  BY <1>1, TypesApart DEF Lose, Sound, TellTypes
<1>7. \A d \in Conns : link'[d] \notin {"dialing", "open"}
  BY <1>1, <1>2, <1>3 DEF Sound, Dialed, LinkTypes
<1>8. Dialed'
  BY <1>1, <1>2, <1>3, <1>7 DEF Sound, Dialed, LinkTypes
<1>9. Budget'
  <2>1. PICK n \in 0..(MaxFaults + 1) :
          /\ {d \in Conns : link[d] # "unused"} = 1..n
          /\ n <= faults + 1
          /\ ~Alive => n <= faults
    BY DEF Sound, Budget
  <2>2. {d \in Conns : link'[d] # "unused"} = {d \in Conns : link[d] # "unused"}
    <3>1. link[c] # "unused"
      BY DEF Lose
    <3> QED BY <1>1, <1>3, <3>1 DEF LinkTypes
  <2>3. n <= faults' /\ n <= faults' + 1
    BY <1>1, <2>1
  <2> QED BY <2>1, <2>2, <2>3 DEF Budget
<1> QED BY <1>4, <1>5, <1>6, <1>8, <1>9, TypesApartNext DEF Sound

-----------------------------------------------------------------------------
(* The daemon's steps keep types; they open and close no connection.       *)

LEMMA TakesTypes ==
  ASSUME UpTypes, NEW c \in Conns, NEW f \in UpFrames, Takes(c, f)
  PROVE  UpTypes' /\ link' = link
<1>1. up[c] \in Seq(UpFrames) /\ up[c] # <<>>
  BY DEF UpTypes, Takes
<1>2. Tail(up[c]) \in Seq(UpFrames)
  BY <1>1
<1> QED BY <1>2 DEF UpTypes, Takes

LEMMA ReplyTypes ==
  ASSUME DownTypes, NEW c \in Conns, NEW f \in DownFrames, Reply(c, f)
  PROVE  DownTypes'
<1>1. Append(down[c], f) \in Seq(DownFrames)
  BY DEF DownTypes
<1> QED BY <1>1 DEF DownTypes, Reply

LEMMA SocketStepSound ==
  ASSUME Sound, UpTypes', DownTypes', SocketTypeOK', link' = link, UNCHANGED clientVars
  PROVE  Sound'
<1>1. Budget' /\ Dialed'
  BY NetSame DEF Sound, clientVars, connVars
<1>2. CallTypes' /\ SampleTypes' /\ ConnTypes' /\ TellTypes' /\ LinkTypes'
  BY TypesApart DEF Sound, clientVars, connVars, callVars, sampleVars, CallTypes, SampleTypes,
                    ConnTypes, TellTypes, LinkTypes
<1> QED BY <1>1, <1>2, TypesApartNext DEF Sound

\* A connection is busy with a request.
Busy == \A c \in Conns : op[c] # NoReq <=> phase[c] = "busy"

LEMMA BusyInit == Init => Busy
BY DEF Init, SocketInit, Busy

LEMMA BusyStep ==
  ASSUME Sound, Busy, [Next]_vars
  PROVE  Busy'
<1>t. SocketTypeOK
  BY TypesApart DEF Sound
<1>1. CASE UNCHANGED socketVars
  BY <1>1 DEF Busy, socketVars, opVars
<1>2. ASSUME NEW c \in Conns, Handshake(c) \/ Supervise(c) \/ Report(c) \/ Forward(c) \/ Perform(c)
      PROVE  Busy'
  BY <1>2, <1>t DEF Handshake, Supervise, Report, Forward, Perform, opVars, Busy, SocketTypeOK
<1>3. ASSUME NEW c \in Conns, Loop(c) PROVE Busy'
  <2>1. PICK f \in UpFrames :
          \/ UNCHANGED <<phase, opVars>>
          \/ /\ f.type = "request"
             /\ phase' = [phase EXCEPT ![c] = "busy"]
             /\ op' = [op EXCEPT ![c] = f.id]
    BY <1>3 DEF Loop
  <2>2. f.type = "request" => f.id # NoReq
    BY WireConstants DEF UpFrames
  <2> QED BY <1>t, <2>1, <2>2 DEF Busy, SocketTypeOK, opVars
<1>4. ASSUME NEW c \in Conns, Finish(c) \/ Hangup(c) PROVE Busy'
  BY <1>4, <1>t DEF Finish, Hangup, Busy, SocketTypeOK
<1> QED BY <1>1, <1>2, <1>3, <1>4 DEF Next, SocketNext, Lose, vars

LEMMA SocketNextSound ==
  ASSUME Sound, Busy, SocketNext, UNCHANGED clientVars
  PROVE  Sound'
<1> PICK c \in Conns :
      \/ Handshake(c) \/ Loop(c) \/ Supervise(c) \/ Report(c)
      \/ Forward(c) \/ Perform(c) \/ Finish(c) \/ Hangup(c)
  BY DEF SocketNext
<1>t. SocketTypeOK /\ UpTypes /\ DownTypes
  BY TypesApart DEF Sound
<1>1. CASE Handshake(c)
  <2>1. PICK f \in UpFrames :
          /\ Takes(c, f)
          /\ token' = [token EXCEPT ![c] = IF f.type = "auth" THEN f.token ELSE NoToken]
    BY <1>1 DEF Handshake
  <2>2. (IF f.type = "auth" THEN f.token ELSE NoToken) \in Tokens
    BY WireConstants DEF UpFrames
  <2>3. SocketTypeOK' /\ DownTypes'
    BY <1>1, <1>t, <2>1, <2>2 DEF Handshake, SocketTypeOK, Phases, opVars, DownTypes
  <2> QED BY <1>t, <2>1, <2>3, TakesTypes, SocketStepSound
<1>2. CASE Loop(c)
  <2>1. PICK f \in UpFrames :
       /\ Takes(c, f)
       /\ \/ /\ f.type = "auth"
             /\ UNCHANGED <<down, phase, opVars>>
          \/ /\ f.type = "cancel"
             /\ Reply(c, Ack(f.id, "ok"))
             /\ UNCHANGED <<phase, opVars>>
          \/ /\ f.type = "request"
             /\ phase' = [phase EXCEPT ![c] = "busy"]
             /\ op' = [op EXCEPT ![c] = f.id]
             /\ cancel' = [cancel EXCEPT ![c] = FALSE]
             /\ UNCHANGED <<down, fwd>>
    BY <1>2 DEF Loop
  <2>2. f.type \in {"cancel", "request"} => f.id \in Reqs
    BY DEF UpFrames
  <2>3. DownTypes'
    <3>1. CASE UNCHANGED down
      BY <1>t, <3>1 DEF DownTypes
    <3>2. CASE f.type = "cancel" /\ Reply(c, Ack(f.id, "ok"))
      BY <1>t, <2>2, <3>2, FramesTyped, ReplyTypes DEF Verdicts
    <3> QED BY <2>1, <3>1, <3>2
  <2>4. SocketTypeOK'
    BY <1>2, <1>t, <2>1, <2>2 DEF Loop, SocketTypeOK, Phases, opVars
  <2> QED BY <1>t, <2>1, <2>3, <2>4, TakesTypes, SocketStepSound
<1>3. CASE Supervise(c)
  <2>1. PICK f \in UpFrames :
       /\ Takes(c, f)
       /\ cancel' = [cancel EXCEPT ![c] = @ \/ IsCancelFor(c, f)]
       /\ IF f.type = "request" THEN Reply(c, Refusal(c, f)) ELSE UNCHANGED down
    BY <1>3 DEF Supervise
  <2>2. DownTypes'
    <3>1. CASE f.type = "request"
      <4>1. f.id \in Reqs
        BY <3>1 DEF UpFrames
      <4> QED BY <1>t, <2>1, <3>1, <4>1, FramesTyped, ReplyTypes DEF Refusal, Verdicts
    <3>2. CASE f.type # "request"
      BY <1>t, <2>1, <3>2 DEF DownTypes
    <3> QED BY <3>1, <3>2
  <2>3. cancel' \in [Conns -> BOOLEAN]
    BY <1>t, <2>1 DEF SocketTypeOK, IsCancelFor
  <2>4. SocketTypeOK'
    BY <1>3, <1>t, <2>3 DEF Supervise, SocketTypeOK
  <2> QED BY <1>t, <2>1, <2>2, <2>4, TakesTypes, SocketStepSound
<1>4. CASE Report(c)
  <2>1. SocketTypeOK' /\ UpTypes' /\ DownTypes' /\ link' = link
    BY <1>4, <1>t DEF Report, SocketTypeOK, wireVars, UpTypes, DownTypes
  <2> QED BY <2>1, SocketStepSound
<1>5. CASE Forward(c)
  <2>1. fwd[c] \in Reads /\ fwd[c] \in Reqs
    BY <1>5, <1>t, WireConstants DEF Forward, SocketTypeOK
  <2>2. DownTypes'
    BY <1>5, <1>t, <2>1, FramesTyped, ReplyTypes DEF Forward
  <2>3. SocketTypeOK' /\ UpTypes' /\ link' = link
    BY <1>5, <1>t DEF Forward, SocketTypeOK, UpTypes
  <2> QED BY <2>2, <2>3, SocketStepSound
<1>6. CASE Perform(c)
  <2>1. op[c] \in Reqs
    BY <1>6, <1>t DEF Perform, Busy, SocketTypeOK
  <2>2. SocketTypeOK' /\ UpTypes' /\ DownTypes' /\ link' = link
    BY <1>6, <1>t, <2>1 DEF Perform, SocketTypeOK, opVars, wireVars, UpTypes, DownTypes
  <2> QED BY <2>2, SocketStepSound
<1>7. CASE Finish(c)
  <2>1. op[c] \in Reqs
    BY <1>7, <1>t DEF Finish, Busy, SocketTypeOK
  <2>2. DownTypes'
    BY <1>7, <1>t, <2>1, FramesTyped, ReplyTypes DEF Finish, Verdicts
  <2>3. SocketTypeOK' /\ UpTypes' /\ link' = link
    BY <1>7, <1>t DEF Finish, SocketTypeOK, Phases, UpTypes
  <2> QED BY <2>2, <2>3, SocketStepSound
<1>8. CASE Hangup(c)
  <2>1. SocketTypeOK' /\ UpTypes' /\ DownTypes' /\ link' = link
    BY <1>8, <1>t DEF Hangup, SocketTypeOK, wireVars, UpTypes, DownTypes, Phases
  <2> QED BY <2>1, SocketStepSound
<1> QED BY <1>1, <1>2, <1>3, <1>4, <1>5, <1>6, <1>7, <1>8

LEMMA SoundStep == Sound /\ Busy /\ [Next]_vars => Sound'
<1> SUFFICES ASSUME Sound, Busy, [Next]_vars PROVE Sound'
  OBVIOUS
<1>1. CASE UNCHANGED vars
  <2>1. TypeOK'
    BY <1>1 DEF vars, wireVars, clientVars, connVars, callVars, sampleVars, socketVars, opVars,
                Sound, TypeOK, WireTypeOK, ClientTypeOK, SocketTypeOK
  <2> QED BY <1>1, <2>1, NetSame DEF vars, wireVars, clientVars, connVars, Sound
<1>2. ASSUME ClientNext, UNCHANGED socketVars PROVE Sound'
  BY <1>2, CallReadSound, StartReadSound, CallWriteSound, SendSound, IdleTimeoutSound,
     OpenTimeoutSound, AbortSound, OpenEventSound, MessageSound, AnimationFrameSound,
     ErrorEventSound, CloseEventSound, ReconnectTimerSound, LoginSound, LogoutSound
     DEF ClientNext
<1> QED BY <1>1, <1>2, SocketNextSound, LoseSound DEF Next

LEMMA AlwaysSound == Spec => [](Sound /\ Busy)
BY SoundInit, SoundStep, BusyInit, BusyStep, PTL DEF Spec

\* Every variable has its type; the tab never runs out of connections.
THEOREM TypeCorrect == Spec => []TypeOK
BY AlwaysSound, PTL DEF Sound

-----------------------------------------------------------------------------
(* The calls of the tab: reads take turns, a call has settled when its     *)
(* promise has, and the progress shown is that of a read that waits.       *)

Lined ==
  /\ \A r \in Reqs : stage[r] = "queued" => \E i \in DOMAIN queue : queue[i] = r
  /\ \A r \in Reads : stage[r] \in {"opening", "pending"} => queue # <<>> /\ r = Head(queue)

Settled == \A r \in Reqs : outcome[r] = "none" <=> stage[r] # "done"

Owned == owner # NoReq => stage[owner] = "pending"

Called == Lined /\ Settled /\ Owned

\* What opens has not been waiting; a read is at the head of the queue.
Opens(r) ==
  r \in Reqs => /\ stage[r] \in {"new", "queued"}
                /\ r \in Reads => queue # <<>> /\ r = Head(queue)

LEMMA CalledInit == Init => Called
BY WireConstants DEF Init, ClientInit, Called, Lined, Settled, Owned

\* Settling some calls, and opening for one.
LEMMA SettleCalled ==
  ASSUME CallTypes, Lined, Settled, Owned, NEW S, NEW why, NEW r,
         SettleAndOpen(S, why, r), Opens(r), S = {} \/ why # "none"
  PROVE  Lined' /\ Settled' /\ Owned'
<1>1. /\ stage' = [q \in Reqs |-> IF q \in S THEN "done"
                                  ELSE IF q = r THEN "opening" ELSE stage[q]]
      /\ outcome' = [q \in Reqs |-> IF q \in S THEN why ELSE outcome[q]]
      /\ queue' = IF queue # <<>> /\ Head(queue) \in S THEN Tail(queue) ELSE queue
      /\ owner' = IF owner \in S THEN NoReq ELSE owner
  BY DEF SettleAndOpen
<1>2. queue \in Seq(Reads) /\ owner \in Reads \cup {NoReq} /\ Reads \subseteq Reqs
  BY WireConstants DEF CallTypes
<1>3. \A q \in Reqs : stage'[q] = "queued" => \E i \in DOMAIN queue' : queue'[i] = q
  <2> SUFFICES ASSUME NEW q \in Reqs, stage'[q] = "queued"
               PROVE  \E i \in DOMAIN queue' : queue'[i] = q
    OBVIOUS
  <2>1. q \notin S /\ stage[q] = "queued"
    BY <1>1
  <2>2. PICK i \in DOMAIN queue : queue[i] = q
    BY <2>1 DEF Lined
  <2>3. CASE queue # <<>> /\ Head(queue) \in S
    <3>1. queue' = Tail(queue) /\ i # 1 /\ i \in 1..Len(queue)
      BY <1>1, <1>2, <2>1, <2>2, <2>3
    <3>2. i - 1 \in DOMAIN queue' /\ queue'[i - 1] = q
      BY <1>2, <2>2, <2>3, <3>1
    <3> QED BY <3>2
  <2>4. CASE ~(queue # <<>> /\ Head(queue) \in S)
    BY <1>1, <2>2, <2>4
  <2> QED BY <2>3, <2>4
<1>4. \A q \in Reads : stage'[q] \in {"opening", "pending"} => queue' # <<>> /\ q = Head(queue')
  <2> SUFFICES ASSUME NEW q \in Reads, stage'[q] \in {"opening", "pending"}
               PROVE  queue' # <<>> /\ q = Head(queue')
    OBVIOUS
  <2>1. q \notin S /\ (q = r \/ stage[q] \in {"opening", "pending"})
    BY <1>1, <1>2
  <2>2. queue # <<>> /\ q = Head(queue)
    BY <1>2, <2>1 DEF Lined, Opens
  <2> QED BY <1>1, <2>1, <2>2
<1>5. Settled'
  BY <1>1 DEF Settled, Opens, CallTypes
<1>6. Owned'
  BY <1>1, <1>2 DEF Owned, Opens
<1> QED BY <1>3, <1>4, <1>5, <1>6 DEF Lined

LEMMA NothingOpens == Opens(NoReq)
BY WireConstants DEF Opens

LEMMA SettlesCalled ==
  ASSUME Sound, Called, NEW S, NEW why, NEW r,
         SettleAndOpen(S, why, r), Opens(r), S = {} \/ why # "none"
  PROVE  Called'
BY SettleCalled, TypesApart DEF Sound, Called

LEMMA ConnectCalled ==
  ASSUME Sound, Called, NEW t, NEW r, Connect(t, r), Opens(r)
  PROVE  Called'
BY SettlesCalled DEF Connect

\* The end of one call that is not queued behind another.
LEMMA EndCalled ==
  ASSUME Sound, Called, NEW r \in Reqs, NEW why \in Outcomes \ {"none"}, Settle({r}, why)
  PROVE  Called'
BY SettlesCalled, NothingOpens DEF Settle

\* A read that is due is a read, and the first of the queue.
LEMMA DueOpens ==
  ASSUME Sound, Called, NEW r \in Reqs, ReadIsDue(r)
  PROVE  r \in Reads /\ Opens(r)
<1>1. queue \in Seq(Reads)
  BY TypesApart DEF Sound, CallTypes
<1>2. PICK i \in DOMAIN queue : queue[i] = r
  BY DEF ReadIsDue, Called, Lined
<1>3. r \in Reads /\ queue # <<>>
  BY <1>1, <1>2
<1> QED BY <1>3 DEF ReadIsDue, Opens

LEMMA CalledSame ==
  ASSUME Called, UNCHANGED callVars
  PROVE  Called'
BY DEF Called, Lined, Settled, Owned, callVars

LEMMA CallReadCalled == ASSUME Sound, Called, NEW r \in Reqs, CallRead(r) PROVE Called'
<1>1. /\ r \in Reads /\ stage[r] = "new" /\ stage' = [stage EXCEPT ![r] = "queued"]
      /\ queue' = Append(queue, r) /\ UNCHANGED <<outcome, owner>>
  BY DEF CallRead
<1>2. /\ queue \in Seq(Reads) /\ stage \in [Reqs -> {"new", "queued", "opening", "pending", "done"}]
      /\ owner \in Reqs \cup {NoReq} /\ Reads \subseteq Reqs
  BY TypesApart, WireConstants DEF Sound, CallTypes
<1>3. \A i \in DOMAIN queue : i \in DOMAIN queue' /\ queue'[i] = queue[i]
  BY <1>1, <1>2
<1>4. Len(queue) + 1 \in DOMAIN queue' /\ queue'[Len(queue) + 1] = r
  BY <1>1, <1>2
<1>5. queue # <<>> => queue' # <<>> /\ Head(queue') = Head(queue)
  BY <1>1, <1>2
<1>6. Lined'
  <2>1. \A q \in Reqs : stage'[q] = "queued" => \E i \in DOMAIN queue' : queue'[i] = q
    BY <1>1, <1>2, <1>3, <1>4 DEF Called, Lined
  <2>2. \A q \in Reads : stage'[q] \in {"opening", "pending"}
                           => queue' # <<>> /\ q = Head(queue')
    BY <1>1, <1>2, <1>5 DEF Called, Lined
  <2> QED BY <2>1, <2>2 DEF Lined
<1> QED BY <1>1, <1>2, <1>6 DEF Called, Settled, Owned

LEMMA StartReadCalled == ASSUME Sound, Called, NEW r \in Reqs, StartRead(r) PROVE Called'
<1>1. r \in Reads /\ Opens(r)
  BY DueOpens DEF StartRead
<1>2. CASE Ask(r)
  BY <1>1, <1>2, ConnectCalled DEF Ask
<1>3. CASE Settle({r}, "cached") \/ Settle({r}, "cancelled")
  BY <1>3, EndCalled DEF Outcomes
<1> QED BY <1>2, <1>3 DEF StartRead

LEMMA CallWriteCalled == ASSUME Sound, Called, NEW r \in Reqs, CallWrite(r) PROVE Called'
<1>1. Opens(r)
  BY DEF CallWrite, Opens
<1>2. CASE Ask(r)
  BY <1>1, <1>2, ConnectCalled DEF Ask
<1>3. CASE Settle({r}, "cancelled")
  BY <1>3, EndCalled DEF Outcomes
<1> QED BY <1>2, <1>3 DEF CallWrite

LEMMA SendCalled == ASSUME Sound, Called, NEW r \in Reqs, Send(r) PROVE Called'
<1>1. /\ stage[r] = "opening" /\ stage' = [stage EXCEPT ![r] = "pending"]
      /\ owner' = Shown(r) /\ UNCHANGED <<outcome, queue>>
  BY DEF Send, SendIsDue
<1>2. /\ stage \in [Reqs -> {"new", "queued", "opening", "pending", "done"}]
      /\ owner \in Reqs \cup {NoReq} /\ Reads \subseteq Reqs
  BY TypesApart, WireConstants DEF Sound, CallTypes
<1> QED BY <1>1, <1>2 DEF Called, Lined, Settled, Owned, Shown

LEMMA MessageCalled == ASSUME Sound, Called, Message PROVE Called'
<1>1. sock \in Conns
  BY DEF Message, Sound, TypeOK, ClientTypeOK, Dialed
<1> DEFINE f == Head(down[sock])
<1>2. f \in DownFrames
  BY <1>1 DEF Message, Sound, TypeOK, WireTypeOK
<1> HIDE DEF f
<1>3. CASE f.type = "ack" /\ OnAck(f)
  <2>1. f.verdict # "none"
    BY <1>2, <1>3 DEF DownFrames, Verdicts
  <2>2. CASE Settle({f.id}, f.verdict)
    BY <2>1, <2>2, SettlesCalled, NothingOpens DEF Settle
  <2>3. CASE UNCHANGED callVars
    BY <2>3, CalledSame
  <2> QED BY <1>3, <2>2, <2>3 DEF OnAck
<1>4. CASE UNCHANGED callVars
  BY <1>4, CalledSame
<1> QED BY <1>3, <1>4 DEF Message, f

LEMMA AbortCalled == ASSUME Sound, Called, NEW r \in Reqs, Abort(r) PROVE Called'
<1>1. CASE UNCHANGED callVars
  BY <1>1, CalledSame
<1>2. CASE Settle({r}, "cancelled")
  BY <1>2, EndCalled DEF Outcomes
<1> QED BY <1>1, <1>2 DEF Abort

LEMMA TimeoutCalled ==
  ASSUME Sound, Called, NEW r \in Reqs, IdleTimeout(r) \/ OpenTimeout(r)
  PROVE  Called'
BY EndCalled DEF IdleTimeout, OpenTimeout, Outcomes

LEMMA FailedCalled ==
  ASSUME Sound, Called, ErrorEvent \/ CloseEvent \/ Logout
  PROVE  Called'
BY SettlesCalled, NothingOpens DEF ErrorEvent, CloseEvent, Logout, FailAll, Settle

LEMMA CalledStep == Sound /\ Called /\ [Next]_vars => Called'
<1> SUFFICES ASSUME Sound, Called, [Next]_vars PROVE Called'
  OBVIOUS
<1>1. CASE UNCHANGED vars \/ UNCHANGED clientVars
  BY <1>1, CalledSame DEF vars, clientVars
<1>2. CASE ClientNext
  <2>1. CASE OpenEvent \/ AnimationFrame
    BY <2>1, CalledSame DEF OpenEvent, AnimationFrame
  <2>2. CASE ReconnectTimer \/ \E t \in Tokens : Login(t)
    BY <2>2, ConnectCalled, NothingOpens DEF ReconnectTimer, Login
  <2> QED BY <1>2, <2>1, <2>2, CallReadCalled, StartReadCalled, CallWriteCalled,
             SendCalled, MessageCalled, AbortCalled, TimeoutCalled, FailedCalled
             DEF ClientNext
<1>3. CASE \E c \in Conns : Lose(c)
  BY <1>3, CalledSame DEF Lose
<1> QED BY <1>1, <1>2, <1>3 DEF Next

LEMMA AlwaysCalled == Spec => []Called
BY CalledInit, CalledStep, AlwaysSound, PTL DEF Spec

-----------------------------------------------------------------------------
\* Nothing but a frame for the read that is shown adds to the samples.
LEMMA ConnectDrops == ASSUME NEW t, NEW r, Connect(t, r) PROVE buffer' \subseteq buffer
BY DEF Connect, FlushApplyBuffer, sampleVars

LEMMA ClientDrops == ASSUME ClientNext, ~Message PROVE buffer' \subseteq buffer
<1>1. CASE \E r \in Reqs : StartRead(r) \/ CallWrite(r)
  BY <1>1, ConnectDrops DEF StartRead, CallWrite, Ask, sampleVars
<1>2. CASE \E r \in Reqs : IdleTimeout(r) \/ OpenTimeout(r) \/ Abort(r)
  BY <1>2 DEF IdleTimeout, OpenTimeout, Abort, FlushAfter, FlushApplyBuffer, sampleVars
<1>3. CASE \E r \in Reqs : CallRead(r) \/ Send(r)
  BY <1>3 DEF CallRead, Send, sampleVars
<1>4. CASE OpenEvent \/ AnimationFrame \/ ErrorEvent \/ CloseEvent \/ Logout
  BY <1>4 DEF OpenEvent, AnimationFrame, ErrorEvent, CloseEvent, Logout, FailAll,
              FlushApplyBuffer, sampleVars
<1>5. CASE ReconnectTimer \/ \E t \in Tokens : Login(t)
  BY <1>5, ConnectDrops DEF ReconnectTimer, Login
<1> QED BY <1>1, <1>2, <1>3, <1>4, <1>5 DEF ClientNext

\* No samples are taken in for a read that has ended (ws.ts 600).
THEOREM NoLateSamples == Spec => LateSamplesDropped
<1> DEFINE Step == \A r \in buffer' \ buffer : stage[r] = "pending"
<1>1. ASSUME Sound, Called, [Next]_vars PROVE [Step]_vars
  <2> SUFFICES ASSUME NEW r \in buffer' \ buffer PROVE stage[r] = "pending"
    OBVIOUS
  <2>1. Message
    <3>1. CASE ClientNext
      BY <3>1, ClientDrops
    <3>2. CASE ~ClientNext
      BY <1>1, <3>2 DEF Next, Lose, vars, clientVars, sampleVars
    <3> QED BY <3>1, <3>2
  <2>2. sock \in Conns
    BY <1>1, <2>1 DEF Message, Sound, TypeOK, ClientTypeOK, Dialed
  <2> DEFINE f == Head(down[sock])
  <2>3. f \in DownFrames
    BY <1>1, <2>1, <2>2 DEF Message, Sound, TypeOK, WireTypeOK
  <2> HIDE DEF f
  <2>4. ~OnAck(f)
    BY DEF OnAck, FlushApplyBuffer, sampleVars
  <2>5. r = f.id /\ Accepts(f.id)
    BY <2>1, <2>4 DEF Message, f
  <2>6. f.id \in Reqs
    BY <2>3 DEF DownFrames
  <2> QED BY <1>1, <2>5, <2>6, WireConstants DEF Accepts, Called, Owned
<1> HIDE DEF Step
<1>2. Spec => [][Step]_vars
  BY <1>1, AlwaysSound, AlwaysCalled, PTL DEF Spec
<1> QED BY <1>2 DEF Step, LateSamplesDropped

\* The reads that wait are all the head of the queue.
LEMMA LinedOne == Sound /\ Lined => OneReadAtATime
<1> SUFFICES ASSUME Sound, Lined PROVE OneReadAtATime
  OBVIOUS
<1> DEFINE W == {r \in Reads : stage[r] \in {"opening", "pending"}}
<1>1. W \subseteq {Head(queue)}
  BY DEF Lined
<1>2. W = {} \/ W = {Head(queue)}
  BY <1>1
<1>3. Cardinality(W) <= 1
  <2>1. Cardinality({}) = 0
    BY FS_EmptySet
  <2>2. Cardinality({Head(queue)}) = 1
    BY FS_Singleton
  <2> HIDE DEF W
  <2> QED BY <1>2, <2>1, <2>2
<1> QED BY <1>3 DEF OneReadAtATime

\* Two reads are never with the daemon at the same time.
THEOREM ReadsTakeTurns == Spec => []OneReadAtATime
BY AlwaysSound, AlwaysCalled, LinedOne, PTL DEF Called
-----------------------------------------------------------------------------
(* The token of a connection: the one its first frame brings, also while   *)
(* that frame is on its way.                                               *)

TokenOf(c) == IF phase[c] = "handshake" THEN Head(up[c]).token ELSE token[c]

\* A connection that is not open yet carries nothing, one that is has its token
\* first, and what was sent on it was sent under that token.
Authed ==
  \A c \in Conns :
    /\ link[c] \in {"unused", "dialing"} => up[c] = <<>> /\ phase[c] = "handshake"
    /\ phase[c] = "handshake" /\ up[c] # <<>> => Head(up[c]).type = "auth"
    /\ phase[c] = "handshake" /\ link[c] = "open" => up[c] # <<>>
    /\ c = sock /\ link[c] = "open" => wanted = TokenOf(c)
    /\ \A i \in DOMAIN up[c] : up[c][i].type = "request" => sentAs[up[c][i].id] = TokenOf(c)
    /\ op[c] # NoReq => sentAs[op[c]] = token[c]

LEMMA TailIs ==
  ASSUME NEW F, NEW s \in Seq(F), s # <<>>
  PROVE  /\ Head(s) = s[1] /\ 1 \in DOMAIN s
         /\ \A i \in DOMAIN Tail(s) : i + 1 \in DOMAIN s /\ Tail(s)[i] = s[i + 1] /\ i + 1 # 1
OBVIOUS

LEMMA AppendIs ==
  ASSUME NEW F, NEW s \in Seq(F), NEW f \in F
  PROVE  /\ Append(s, f) # <<>>
         /\ s # <<>> => Head(Append(s, f)) = Head(s)
         /\ s = <<>> => Head(Append(s, f)) = f
         /\ \A i \in DOMAIN Append(s, f) :
              \/ i \in DOMAIN s /\ Append(s, f)[i] = s[i]
              \/ i = Len(s) + 1 /\ i \notin DOMAIN s /\ Append(s, f)[i] = f
<1>1. /\ Append(s, f) # <<>>
      /\ s # <<>> => Head(Append(s, f)) = Head(s)
      /\ s = <<>> => Head(Append(s, f)) = f
  OBVIOUS
<1>2. /\ DOMAIN s = 1..Len(s) /\ Len(s) \in Nat
      /\ DOMAIN Append(s, f) = 1..(Len(s) + 1)
      /\ \A i \in 1..Len(s) : Append(s, f)[i] = s[i]
      /\ Append(s, f)[Len(s) + 1] = f
  OBVIOUS
<1>3. \A i \in 1..(Len(s) + 1) : i \in 1..Len(s) \/ (i = Len(s) + 1 /\ i \notin 1..Len(s))
  BY <1>2
<1> QED BY <1>1, <1>2, <1>3

LEMMA AuthedInit == Init => Authed
BY DEF Init, WireInit, SocketInit, Authed

\* The tab never takes a connection back, and opens one in OpenEvent only.
LinkMoves ==
  \A c \in Conns :
    /\ link'[c] \in {"unused", "dialing"} => link[c] \in {"unused", "dialing"}
    /\ link'[c] = "open" => link[c] = "open"
    /\ c = sock' /\ link'[c] = "open" => c = sock /\ wanted' = wanted

LEMMA LinkSame ==
  ASSUME link' = link, (sock' = sock /\ wanted' = wanted) \/ sock' = 0
  PROVE  LinkMoves
BY NoConnZero DEF LinkMoves

LEMMA HangMoves ==
  ASSUME Sound, Hang, (sock' = sock /\ wanted' = wanted) \/ sock' = 0
  PROVE  LinkMoves
BY NoConnZero DEF LinkMoves, Hang, Sound, Dialed

LEMMA ConnectMoves ==
  ASSUME Sound, NEW t \in Tokens, NEW r, Connect(t, r),
         \/ Live /\ wanted # t /\ Disturb
         \/ (~Live \/ wanted = t) /\ faults' = faults
  PROVE  LinkMoves
<1>1. CASE Reusable(t)
  BY <1>1, LinkSame DEF Connect, Reusable
<1>2. CASE ~Reusable(t)
  <2>1. Fresh \in Conns /\ link[Fresh] = "unused"
    BY <1>2, FreshUnused
  <2>2. /\ sock' = Fresh
        /\ link' = [c \in Conns |-> CASE c = sock -> "closed"
                                      [] c = Fresh -> "dialing"
                                      [] OTHER -> link[c]]
    BY <1>2 DEF Connect
  <2> HIDE DEF Fresh
  <2>3. \A c \in Conns : \/ link'[c] = "closed"
                         \/ c = Fresh /\ link'[c] = "dialing"
                         \/ c # Fresh /\ link'[c] = link[c]
    BY <2>2
  <2> QED BY <2>1, <2>2, <2>3 DEF LinkMoves
<1> QED BY <1>1, <1>2

LEMMA AskMoves == ASSUME Sound, NEW r, Ask(r), faults' = faults PROVE LinkMoves
BY AskConnects, ConnectMoves

\* A step that sends nothing.
LEMMA AuthedMoves ==
  ASSUME Authed, LinkMoves, UNCHANGED <<sentAs, phase, token, op>>,
         \A c \in Conns : up'[c] = up[c] \/ (up'[c] = <<>> /\ link'[c] = "closed")
  PROVE  Authed'
<1> SUFFICES ASSUME NEW c \in Conns
    PROVE  (/\ link[c] \in {"unused", "dialing"} => up[c] = <<>> /\ phase[c] = "handshake"
            /\ phase[c] = "handshake" /\ up[c] # <<>> => Head(up[c]).type = "auth"
            /\ phase[c] = "handshake" /\ link[c] = "open" => up[c] # <<>>
            /\ c = sock /\ link[c] = "open" => wanted = TokenOf(c)
            /\ \A i \in DOMAIN up[c] : up[c][i].type = "request" => sentAs[up[c][i].id] = TokenOf(c)
            /\ op[c] # NoReq => sentAs[op[c]] = token[c])'
  BY DEF Authed
<1>1. CASE up'[c] = up[c]
  BY <1>1 DEF Authed, LinkMoves, TokenOf
<1>2. CASE up'[c] = <<>> /\ link'[c] = "closed"
  BY <1>2 DEF Authed, LinkMoves, TokenOf
<1> QED BY <1>1, <1>2

\* The tab sends a frame.
LEMMA AuthedSends ==
  ASSUME Sound, Authed, NEW f \in UpFrames, up' = Sent(f),
         UNCHANGED <<link, sock, wanted, phase, token, op>>,
         f.type = "request" => sentAs'[f.id] = wanted,
         \A c \in Conns :
           /\ \A i \in DOMAIN up[c] :
                up[c][i].type = "request" => sentAs'[up[c][i].id] = sentAs[up[c][i].id]
           /\ op[c] # NoReq => sentAs'[op[c]] = sentAs[op[c]]
  PROVE  Authed'
<1> SUFFICES ASSUME NEW c \in Conns
    PROVE  (/\ link[c] \in {"unused", "dialing"} => up[c] = <<>> /\ phase[c] = "handshake"
            /\ phase[c] = "handshake" /\ up[c] # <<>> => Head(up[c]).type = "auth"
            /\ phase[c] = "handshake" /\ link[c] = "open" => up[c] # <<>>
            /\ c = sock /\ link[c] = "open" => wanted = TokenOf(c)
            /\ \A i \in DOMAIN up[c] : up[c][i].type = "request" => sentAs[up[c][i].id] = TokenOf(c)
            /\ op[c] # NoReq => sentAs[op[c]] = token[c])'
  BY DEF Authed
<1>1. CASE up'[c] = up[c]
  BY <1>1 DEF Authed, TokenOf
<1>2. CASE up'[c] # up[c]
  <2>1. /\ c = sock /\ link[c] = "open" /\ up[c] \in Seq(UpFrames)
        /\ up'[c] = Append(up[c], f)
    BY <1>2, TypesApart DEF Sent, Sound, UpTypes, Dialed
  <2>2. /\ up'[c] # <<>>
        /\ up[c] # <<>> => Head(up'[c]) = Head(up[c])
        /\ \A i \in DOMAIN up'[c] :
             \/ i \in DOMAIN up[c] /\ up'[c][i] = up[c][i]
             \/ up'[c][i] = f
    BY <2>1, AppendIs
  <2>3. phase[c] = "handshake" => up[c] # <<>>
    BY <2>1 DEF Authed
  <2>4. TokenOf(c)' = TokenOf(c)
    BY <2>2, <2>3 DEF TokenOf
  <2>5. wanted = TokenOf(c)
    BY <2>1 DEF Authed
  <2> QED BY <2>1, <2>2, <2>3, <2>4, <2>5 DEF Authed
<1> QED BY <1>1, <1>2

\* The daemon's task takes a frame of connection d and keeps its token.
LEMMA AuthedTakes ==
  ASSUME Sound, Busy, Authed, NEW d \in Conns, NEW f \in UpFrames, Takes(d, f),
         UNCHANGED <<sock, wanted, sentAs>>,
         \A c \in Conns \ {d} : phase'[c] = phase[c] /\ token'[c] = token[c] /\ op'[c] = op[c],
         phase'[d] # "handshake" /\ token'[d] = TokenOf(d),
         op'[d] = op[d] \/ (f.type = "request" /\ op'[d] = f.id)
  PROVE  Authed'
<1>1. /\ up[d] \in Seq(UpFrames) /\ up[d] # <<>> /\ f = Head(up[d]) /\ link' = link
      /\ up' = [up EXCEPT ![d] = Tail(up[d])] /\ up'[d] = Tail(up[d])
  BY TypesApart DEF Sound, UpTypes, Takes
<1> SUFFICES ASSUME NEW c \in Conns
    PROVE  (/\ link[c] \in {"unused", "dialing"} => up[c] = <<>> /\ phase[c] = "handshake"
            /\ phase[c] = "handshake" /\ up[c] # <<>> => Head(up[c]).type = "auth"
            /\ phase[c] = "handshake" /\ link[c] = "open" => up[c] # <<>>
            /\ c = sock /\ link[c] = "open" => wanted = TokenOf(c)
            /\ \A i \in DOMAIN up[c] : up[c][i].type = "request" => sentAs[up[c][i].id] = TokenOf(c)
            /\ op[c] # NoReq => sentAs[op[c]] = token[c])'
  BY DEF Authed
<1>2. CASE c # d
  <2>1. up'[c] = up[c] /\ TokenOf(c)' = TokenOf(c)
    BY <1>1, <1>2, TypesApart DEF TokenOf, Sound, UpTypes
  <2> QED BY <1>1, <1>2, <2>1 DEF Authed
<1>3. CASE c = d
  <2>1. TokenOf(c)' = TokenOf(c)
    BY <1>3 DEF TokenOf
  <2>2. \A i \in DOMAIN up'[d] : \E j \in DOMAIN up[d] : up'[d][i] = up[d][j]
    BY <1>1, TailIs
  <2>3. f.type = "request" => sentAs[f.id] = TokenOf(d)
    BY <1>1, TailIs DEF Authed
  <2>4. link[d] \notin {"unused", "dialing"}
    BY <1>1 DEF Authed
  <2>5. op[d] # NoReq => sentAs[op[d]] = token'[d]
    <3>1. CASE phase[d] = "handshake"
      BY <3>1 DEF Busy
    <3>2. CASE phase[d] # "handshake"
      BY <3>2 DEF Authed, TokenOf
    <3> QED BY <3>1, <3>2
  <2>6. link'[d] \notin {"unused", "dialing"} /\ phase'[d] # "handshake"
    BY <1>1, <2>4
  <2>7. d = sock' /\ link'[d] = "open" => wanted' = TokenOf(d)'
    BY <1>1, <1>3, <2>1 DEF Authed
  <2>8. ASSUME NEW i \in DOMAIN up'[d], up'[d][i].type = "request"
        PROVE  sentAs'[up'[d][i].id] = TokenOf(d)'
    <3>1. PICK j \in DOMAIN up[d] : up'[d][i] = up[d][j]
      BY <2>2
    <3>2. sentAs[up[d][j].id] = TokenOf(d)
      BY <2>8, <3>1 DEF Authed
    <3> QED BY <1>3, <2>1, <3>1, <3>2
  <2>9. op'[d] # NoReq => sentAs'[op'[d]] = token'[d]
    BY <2>3, <2>5
  <2> QED BY <1>3, <2>6, <2>7, <2>8, <2>9
<1> QED BY <1>2, <1>3

\* Requests that have not been sent are nowhere at the daemon.
Early(r) == stage[r] \in {"new", "queued", "opening"}
Asks(c, i, r) == i \in DOMAIN up[c] /\ up[c][i].type = "request" /\ up[c][i].id = r
Asked(r) == \E c \in Conns : \E i \in DOMAIN up[c] : Asks(c, i, r)
Running(r) == \E c \in Conns : op[c] = r
Untouched(r) == ~Asked(r) /\ ~Running(r) /\ r \notin performed

\* A request is in one place: on its way, running, or behind it.
Once ==
  /\ \A r \in Reqs : Early(r) => Untouched(r)
  /\ \A r \in Reqs : Asked(r) => ~Running(r) /\ r \notin performed
  /\ \A r \in Reqs : \A c, d \in Conns : \A i \in DOMAIN up[c], j \in DOMAIN up[d] :
       Asks(c, i, r) /\ Asks(d, j, r) => c = d /\ i = j
  /\ \A c, d \in Conns : op[c] # NoReq /\ op[c] = op[d] => c = d

LEMMA OnceInit == Init => Once
BY WireConstants
   DEF Init, WireInit, ClientInit, SocketInit, Once, Untouched, Asks, Asked, Running

\* The frames of every connection are frames.
LEMMA UpIs == Sound => \A c \in Conns : up[c] \in Seq(UpFrames)
BY TypesApart DEF Sound, UpTypes

LEMMA AuthedClient ==
  ASSUME Sound, Busy, Called, Authed, Once, ClientNext, UNCHANGED socketVars
  PROVE  Authed'
<1>s. UNCHANGED <<phase, token, op>>
  BY DEF socketVars, opVars
<1>1. ASSUME NEW r \in Reqs, CallRead(r) \/ StartRead(r) \/ CallWrite(r) PROVE Authed'
  <2>1. LinkMoves
    BY <1>1, LinkSame, AskMoves DEF CallRead, StartRead, CallWrite, wireVars, connVars
  <2> QED BY <1>1, <1>s, <2>1, AuthedMoves DEF CallRead, StartRead, CallWrite, wireVars
<1>2. ASSUME NEW r \in Reqs, Send(r) PROVE Authed'
  <2>1. Untouched(r) /\ Request(r) \in UpFrames /\ sentAs' = [sentAs EXCEPT ![r] = wanted]
    BY <1>2, FramesTyped DEF Send, SendIsDue, Once, Early
  <2>2. sentAs'[r] = wanted /\ \A q \in Reqs \ {r} : sentAs'[q] = sentAs[q]
    BY <2>1, TypesApart DEF Sound, TellTypes
  <2>3. \A c \in Conns :
          /\ \A i \in DOMAIN up[c] :
               up[c][i].type = "request" => up[c][i].id \in Reqs \ {r}
          /\ op[c] # NoReq => op[c] \in Reqs \ {r}
    <3> SUFFICES ASSUME NEW c \in Conns
                 PROVE  /\ \A i \in DOMAIN up[c] :
                             up[c][i].type = "request" => up[c][i].id \in Reqs \ {r}
                        /\ op[c] # NoReq => op[c] \in Reqs \ {r}
      OBVIOUS
    <3>1. \A i \in DOMAIN up[c] : up[c][i] \in UpFrames
      BY UpIs
    <3>2. \A i \in DOMAIN up[c] : up[c][i].type = "request" => up[c][i].id \in Reqs
      BY <3>1 DEF UpFrames
    <3>3. op[c] \in Reqs \cup {NoReq}
      BY TypesApart DEF Sound, SocketTypeOK
    <3> QED BY <2>1, <3>2, <3>3 DEF Untouched, Asked, Asks, Running
  <2>4. Request(r).type = "request" => sentAs'[Request(r).id] = wanted
    BY <2>2 DEF Request
  <2>5. up' = Sent(Request(r)) /\ UNCHANGED <<link, sock, wanted>>
    BY <1>2 DEF Send, connVars
  <2> QED BY <1>s, <2>1, <2>2, <2>3, <2>4, <2>5, AuthedSends
<1>3. ASSUME NEW r \in Reqs, up' = Sent(CancelOf(r)), UNCHANGED <<link, sock, wanted, sentAs>>
      PROVE  Authed'
  <2>1. CancelOf(r) \in UpFrames /\ CancelOf(r).type # "request"
    BY FramesTyped DEF CancelOf
  <2> QED BY <1>3, <1>s, <2>1, AuthedSends
<1>4. ASSUME NEW r \in Reqs, IdleTimeout(r) \/ Abort(r) PROVE Authed'
  <2>1. CASE up' = up
    BY <1>4, <1>s, <2>1, LinkSame, AuthedMoves DEF IdleTimeout, Abort, connVars
  <2>2. CASE up' = Sent(CancelOf(r))
    BY <1>3, <1>4, <2>2 DEF IdleTimeout, Abort, connVars
  <2> QED BY <1>4, <2>1, <2>2 DEF IdleTimeout, Abort, SendCancel
<1>5. ASSUME NEW r \in Reqs, OpenTimeout(r) PROVE Authed'
  BY <1>5, <1>s, HangMoves, AuthedMoves DEF OpenTimeout
<1>6. CASE OpenEvent
  <2>1. /\ sock \in Conns /\ link[sock] = "dialing" /\ wanted \in Tokens
        /\ up[sock] = <<>> /\ phase[sock] = "handshake" /\ up \in [Conns -> Seq(UpFrames)]
    BY <1>6, TypesApart DEF OpenEvent, Sound, Dialed, ConnTypes, UpTypes, Authed
  <2>2. /\ up' = [up EXCEPT ![sock] = Append(up[sock], Auth(wanted))]
        /\ link' = [link EXCEPT ![sock] = "open"] /\ UNCHANGED <<sock, wanted, sentAs>>
    BY <1>6 DEF OpenEvent
  <2>3. up'[sock] = <<Auth(wanted)>>
    BY <2>1, <2>2
  <2>4. /\ Head(up'[sock]) = Auth(wanted) /\ up'[sock] # <<>>
        /\ \A i \in DOMAIN up'[sock] : up'[sock][i] = Auth(wanted)
    BY <2>3
  <2>5. Auth(wanted).type = "auth" /\ Auth(wanted).token = wanted
    BY DEF Auth
  <2>6. \A c \in Conns \ {sock} : up'[c] = up[c] /\ link'[c] = link[c]
    BY <2>1, <2>2, TypesApart DEF Sound, LinkTypes
  <2>7. link'[sock] = "open"
    BY <2>1, <2>2, TypesApart DEF Sound, LinkTypes
  <2> HIDE DEF Auth
  <2> QED BY <1>s, <2>1, <2>2, <2>4, <2>5, <2>6, <2>7 DEF Authed, TokenOf
<1>7. CASE Message \/ AnimationFrame \/ ErrorEvent \/ CloseEvent
  <2>1. LinkMoves
    BY <1>7, LinkSame DEF Message, AnimationFrame, ErrorEvent, CloseEvent, wireVars, connVars
  <2> QED BY <1>7, <1>s, <2>1, AuthedMoves
          DEF Message, AnimationFrame, ErrorEvent, CloseEvent, wireVars
<1>8. CASE ReconnectTimer
  <2>1. wanted \in Tokens
    BY <1>8 DEF ReconnectTimer, Sound, Dialed
  <2> QED BY <1>8, <1>s, <2>1, ConnectMoves, AuthedMoves DEF ReconnectTimer
<1>9. ASSUME NEW t \in Tokens, Login(t) PROVE Authed'
  BY <1>9, <1>s, ConnectMoves, AuthedMoves DEF Login
<1>10. CASE Logout
  BY <1>10, <1>s, HangMoves, AuthedMoves DEF Logout
<1> QED BY <1>1, <1>2, <1>4, <1>5, <1>6, <1>7, <1>8, <1>9, <1>10 DEF ClientNext

LEMMA AuthedSocket ==
  ASSUME Sound, Busy, Authed, SocketNext, UNCHANGED clientVars
  PROVE  Authed'
<1> PICK c \in Conns :
      \/ Handshake(c) \/ Loop(c) \/ Supervise(c) \/ Report(c)
      \/ Forward(c) \/ Perform(c) \/ Finish(c) \/ Hangup(c)
  BY DEF SocketNext
<1>s. UNCHANGED <<sock, wanted, sentAs>>
  BY DEF clientVars, connVars
<1>t. SocketTypeOK /\ \A d \in Conns : up[d] \in Seq(UpFrames)
  BY TypesApart, UpIs DEF Sound
<1>1. CASE Handshake(c)
  <2>1. PICK f \in UpFrames :
          /\ Takes(c, f)
          /\ token' = [token EXCEPT ![c] = IF f.type = "auth" THEN f.token ELSE NoToken]
    BY <1>1 DEF Handshake
  <2>2. f.type = "auth" /\ f = Head(up[c]) /\ TokenOf(c) = f.token
    BY <1>1, <2>1 DEF Handshake, Takes, Authed, TokenOf
  <2>3. /\ phase' = [phase EXCEPT ![c] = "idle"] /\ op' = op
        /\ token' = [token EXCEPT ![c] = TokenOf(c)]
    BY <1>1, <2>1, <2>2 DEF Handshake, opVars
  <2>4. phase'[c] # "handshake" /\ token'[c] = TokenOf(c)
    BY <1>t, <2>3 DEF SocketTypeOK
  <2>5. \A d \in Conns \ {c} : phase'[d] = phase[d] /\ token'[d] = token[d] /\ op'[d] = op[d]
    BY <1>t, <2>3 DEF SocketTypeOK
  <2> QED BY <1>s, <2>1, <2>3, <2>4, <2>5, AuthedTakes
<1>2. CASE Loop(c)
  <2>1. PICK f \in UpFrames :
          /\ Takes(c, f)
          /\ \/ UNCHANGED <<phase, opVars>>
             \/ /\ f.type = "request"
                /\ phase' = [phase EXCEPT ![c] = "busy"]
                /\ op' = [op EXCEPT ![c] = f.id]
    BY <1>2 DEF Loop
  <2>2. phase[c] = "idle" /\ token' = token
    BY <1>2 DEF Loop
  <2>3. /\ phase'[c] # "handshake" /\ token'[c] = TokenOf(c)
        /\ op'[c] = op[c] \/ (f.type = "request" /\ op'[c] = f.id)
    BY <1>t, <2>1, <2>2 DEF SocketTypeOK, opVars, TokenOf
  <2>4. \A d \in Conns \ {c} : phase'[d] = phase[d] /\ token'[d] = token[d] /\ op'[d] = op[d]
    BY <1>t, <2>1, <2>2 DEF SocketTypeOK, opVars
  <2> QED BY <1>s, <2>1, <2>3, <2>4, AuthedTakes
<1>3. CASE Supervise(c)
  <2>1. PICK f \in UpFrames : Takes(c, f)
    BY <1>3 DEF Supervise
  <2>2. phase[c] = "busy" /\ UNCHANGED <<phase, token, op>>
    BY <1>3 DEF Supervise
  <2> QED BY <1>s, <2>1, <2>2, AuthedTakes DEF TokenOf
<1>4. CASE Report(c) \/ Forward(c) \/ Perform(c)
  <2>1. UNCHANGED <<link, up, phase, token, op>>
    BY <1>4 DEF Report, Forward, Perform, wireVars, opVars
  <2> QED BY <1>s, <2>1, LinkSame, AuthedMoves
<1>5. CASE Finish(c) \/ Hangup(c)
  <2>1. /\ link' = link /\ up' = up /\ token' = token /\ op' = [op EXCEPT ![c] = NoReq]
        /\ phase' = [phase EXCEPT ![c] = IF phase[c] = "busy" /\ Finish(c) THEN "idle" ELSE "gone"]
        /\ phase[c] = "handshake" => link[c] = "closed" /\ up[c] = <<>>
    BY <1>5 DEF Finish, Hangup, wireVars
  <2>2. /\ op'[c] = NoReq /\ \A d \in Conns \ {c} : op'[d] = op[d]
        /\ phase'[c] # "handshake" /\ \A d \in Conns \ {c} : phase'[d] = phase[d]
    BY <1>t, <2>1 DEF SocketTypeOK
  <2>3. \A d \in Conns \ {c} : TokenOf(d)' = TokenOf(d)
    BY <2>1, <2>2 DEF TokenOf
  <2>4. phase[c] # "handshake" => TokenOf(c)' = TokenOf(c)
    BY <2>1, <2>2 DEF TokenOf
  <2>5. link[c] \notin {"unused", "dialing"}
    <3>1. phase[c] # "handshake" => link[c] \notin {"unused", "dialing"}
      BY DEF Authed
    <3> QED BY <2>1, <3>1
  <2> QED BY <1>s, <2>1, <2>2, <2>3, <2>4, <2>5 DEF Authed
<1> QED BY <1>1, <1>2, <1>3, <1>4, <1>5

LEMMA AuthedStep == Sound /\ Busy /\ Called /\ Authed /\ Once /\ [Next]_vars => Authed'
<1> SUFFICES ASSUME Sound, Busy, Called, Authed, Once, [Next]_vars PROVE Authed'
  OBVIOUS
<1>1. CASE UNCHANGED vars
  BY <1>1, LinkSame, AuthedMoves DEF vars, wireVars, clientVars, connVars, socketVars, opVars
<1>2. ASSUME NEW c \in Conns, Lose(c) PROVE Authed'
  <2>1. /\ link' = [link EXCEPT ![c] = "closed"] /\ up' = [up EXCEPT ![c] = <<>>]
        /\ UNCHANGED <<sock, wanted, sentAs, phase, token, op>>
    BY <1>2 DEF Lose, connVars, socketVars, opVars
  <2>2. /\ link'[c] = "closed" /\ up'[c] = <<>>
        /\ \A d \in Conns \ {c} : link'[d] = link[d] /\ up'[d] = up[d]
    BY <2>1, TypesApart DEF Sound, LinkTypes, UpTypes
  <2> QED BY <2>1, <2>2, AuthedMoves DEF LinkMoves
<1> QED BY <1>1, <1>2, AuthedClient, AuthedSocket DEF Next

-----------------------------------------------------------------------------
(* Each request is run at most once, and none is run that was refused.     *)

\* Nothing becomes unsent, and what has settled stays so.
Ages ==
  \A r \in Reqs : /\ Early(r)' => Early(r)
                  /\ stage[r] = "done" => stage'[r] = "done"

LEMMA SettleAges ==
  ASSUME NEW S, NEW why, NEW r, SettleAndOpen(S, why, r), Opens(r)
  PROVE  Ages
BY DEF SettleAndOpen, Opens, Ages, Early

LEMMA ConnectAges == ASSUME NEW t, NEW r, Connect(t, r), Opens(r) PROVE Ages
BY SettleAges DEF Connect

LEMMA AgesStep ==
  ASSUME Sound, Called, [Next]_vars
  PROVE  Ages
<1>t. stage \in [Reqs -> {"new", "queued", "opening", "pending", "done"}]
  BY TypesApart DEF Sound, CallTypes
<1>1. CASE stage' = stage
  BY <1>1 DEF Ages, Early
<1>2. ASSUME NEW S, NEW why, Settle(S, why) PROVE Ages
  BY <1>2, SettleAges, NothingOpens DEF Settle
<1>3. ASSUME NEW r \in Reqs, CallRead(r) \/ Send(r) PROVE Ages
  BY <1>3, <1>t DEF CallRead, Send, SendIsDue, Ages, Early
<1>4. ASSUME NEW r \in Reqs, StartRead(r) PROVE Ages
  <2>1. Opens(r)
    BY <1>4, DueOpens DEF StartRead
  <2> QED BY <1>2, <1>4, <2>1, ConnectAges DEF StartRead, Ask
<1>5. ASSUME NEW r \in Reqs, CallWrite(r) PROVE Ages
  <2>1. Opens(r)
    BY <1>5 DEF CallWrite, Opens
  <2> QED BY <1>2, <1>5, <2>1, ConnectAges DEF CallWrite, Ask
<1>6. ASSUME NEW r \in Reqs, IdleTimeout(r) \/ OpenTimeout(r) \/ Abort(r) PROVE Ages
  BY <1>1, <1>2, <1>6 DEF IdleTimeout, OpenTimeout, Abort, callVars
<1>7. CASE OpenEvent \/ AnimationFrame \/ Message
  BY <1>1, <1>2, <1>7 DEF OpenEvent, AnimationFrame, Message, OnAck, callVars
<1>8. CASE ErrorEvent \/ CloseEvent \/ Logout
  BY <1>2, <1>8 DEF ErrorEvent, CloseEvent, Logout, FailAll
<1>9. CASE ReconnectTimer \/ \E t \in Tokens : Login(t)
  BY <1>9, ConnectAges, NothingOpens DEF ReconnectTimer, Login
<1>10. CASE UNCHANGED clientVars \/ UNCHANGED vars \/ \E c \in Conns : Lose(c)
  BY <1>1, <1>10 DEF clientVars, vars, Lose, callVars
<1> QED BY <1>3, <1>4, <1>5, <1>6, <1>7, <1>8, <1>9, <1>10 DEF Next, ClientNext

\* A step that brings no request forward.
OldRequests ==
  \A c \in Conns : \A i \in DOMAIN up'[c] :
    up'[c][i].type = "request" => i \in DOMAIN up[c] /\ up[c][i] = up'[c][i]

LEMMA QuietOnce ==
  ASSUME Once, Ages, OldRequests, performed' = performed,
         \A c \in Conns : op'[c] \in {op[c], NoReq}
  PROVE  Once' /\ \A r \in Reqs : Untouched(r) => Untouched(r)'
<1>1. \A r, c, i : c \in Conns /\ Asks(c, i, r)' => Asks(c, i, r)
  BY DEF OldRequests, Asks
<1>2. \A r \in Reqs : /\ Asked(r)' => Asked(r)
                      /\ Running(r)' => Running(r)
  <2>1. \A r \in Reqs : Asked(r)' => Asked(r)
    BY <1>1 DEF Asked, Asks
  <2>2. \A r \in Reqs : Running(r)' => Running(r)
    BY WireConstants DEF Running
  <2> QED BY <2>1, <2>2
<1>3. \A r \in Reqs : Untouched(r) => Untouched(r)'
  BY <1>2 DEF Untouched
<1>4. \A r \in Reqs : Early(r)' => Untouched(r)'
  BY <1>3 DEF Once, Ages
<1>5. \A r \in Reqs : Asked(r)' => ~Running(r)' /\ r \notin performed'
  BY <1>2 DEF Once
<1>6. \A r \in Reqs : \A c, d \in Conns : \A i \in DOMAIN up'[c], j \in DOMAIN up'[d] :
        Asks(c, i, r)' /\ Asks(d, j, r)' => c = d /\ i = j
  BY <1>1 DEF Once, Asks
<1>7. \A c, d \in Conns : op'[c] # NoReq /\ op'[c] = op'[d] => c = d
  BY DEF Once
<1> QED BY <1>3, <1>4, <1>5, <1>6, <1>7 DEF Once

\* A request is sent.
LEMMA SendOnce ==
  ASSUME Sound, Once, Ages, NEW r \in Reqs, Send(r), UNCHANGED socketVars
  PROVE  Once' /\ \A q \in Reqs : ~Early(q) /\ Untouched(q) => Untouched(q)'
<1>1. /\ up' = Sent(Request(r)) /\ op' = op /\ performed' = performed
      /\ Early(r) /\ Untouched(r) /\ ~Early(r)'
  BY TypesApart DEF Send, SendIsDue, Early, Once, socketVars, opVars, Sound, CallTypes
<1>2. \A c \in Conns : \A i \in DOMAIN up'[c] :
        \/ i \in DOMAIN up[c] /\ up'[c][i] = up[c][i]
        \/ c = sock /\ i = Len(up[c]) + 1 /\ up'[c][i] = Request(r)
  <2> SUFFICES ASSUME NEW c \in Conns, up'[c] # up[c]
               PROVE  \A i \in DOMAIN up'[c] :
                        \/ i \in DOMAIN up[c] /\ up'[c][i] = up[c][i]
                        \/ c = sock /\ i = Len(up[c]) + 1 /\ up'[c][i] = Request(r)
    OBVIOUS
  <2>1. c = sock /\ up[c] \in Seq(UpFrames) /\ up'[c] = Append(up[c], Request(r))
    BY <1>1, UpIs, TypesApart DEF Sent, Sound, UpTypes
  <2>2. Request(r) \in UpFrames
    BY FramesTyped
  <2> QED BY <2>1, <2>2, AppendIs
<1>3. Request(r).type = "request" /\ Request(r).id = r
  BY DEF Request
<1>4. \A q, c, i : c \in Conns /\ Asks(c, i, q)' =>
        Asks(c, i, q) \/ (q = r /\ c = sock /\ i = Len(up[c]) + 1)
  BY <1>2, <1>3 DEF Asks
<1>5. \A q \in Reqs : Asked(q)' => Asked(q) \/ q = r
  BY <1>4 DEF Asked, Asks
<1>6. \A q \in Reqs : Running(q)' <=> Running(q)
  BY <1>1 DEF Running
<1>7. \A q \in Reqs \ {r} : Untouched(q) => Untouched(q)'
  BY <1>1, <1>5, <1>6 DEF Untouched
<1>8. \A q \in Reqs : Early(q)' => Untouched(q)'
  BY <1>1, <1>7 DEF Once, Ages
<1>9. \A q \in Reqs : Asked(q)' => ~Running(q)' /\ q \notin performed'
  BY <1>1, <1>5, <1>6 DEF Once, Untouched
<1>10. \A q \in Reqs : \A c, d \in Conns : \A i \in DOMAIN up'[c], j \in DOMAIN up'[d] :
         Asks(c, i, q)' /\ Asks(d, j, q)' => c = d /\ i = j
  <2>1. \A c, i : c \in Conns => ~Asks(c, i, r)
    BY <1>1 DEF Untouched, Asked, Asks
  <2>2. \A q \in Reqs : \A c, d, i, j :
          c \in Conns /\ d \in Conns /\ Asks(c, i, q) /\ Asks(d, j, q) => c = d /\ i = j
    BY DEF Once, Asks
  <2> QED BY <1>4, <2>1, <2>2
<1>11. \A c, d \in Conns : op'[c] # NoReq /\ op'[c] = op'[d] => c = d
  BY <1>1 DEF Once
<1>12. \A q \in Reqs : ~Early(q) /\ Untouched(q) => Untouched(q)'
  BY <1>1, <1>7
<1> QED BY <1>8, <1>9, <1>10, <1>11, <1>12 DEF Once

\* The daemon takes a frame, and perhaps starts on the request in it.
LEMMA TakesOnce ==
  ASSUME Sound, Once, Ages, NEW c \in Conns, NEW f \in UpFrames, Takes(c, f),
         performed' = performed,
         op' = op \/ (f.type = "request" /\ op' = [op EXCEPT ![c] = f.id])
  PROVE  /\ Once' /\ \A r \in Reqs : Untouched(r) => Untouched(r)'
         /\ f.type = "request" => ~Asked(f.id)' /\ ~Early(f.id) /\ f.id \in Reqs
                                  /\ ~Running(f.id) /\ f.id \notin performed
<1>1. /\ up[c] \in Seq(UpFrames) /\ up[c] # <<>> /\ f = Head(up[c])
      /\ up'[c] = Tail(up[c]) /\ \A d \in Conns \ {c} : up'[d] = up[d]
  BY UpIs, TypesApart DEF Sound, UpTypes, Takes
<1>2. /\ 1 \in DOMAIN up[c] /\ up[c][1] = f
      /\ \A i \in DOMAIN up'[c] : i \in Nat /\ i + 1 \in DOMAIN up[c] /\ up'[c][i] = up[c][i + 1]
                                  /\ i + 1 # 1
  BY <1>1, TailIs
<1>3. \A r, i : Asks(c, i, r)' => Asks(c, i + 1, r) /\ i + 1 # 1 /\ i \in Nat
  BY <1>2 DEF Asks
<1>4. \A r, d, i : d \in Conns \ {c} /\ Asks(d, i, r)' => Asks(d, i, r)
  BY <1>1 DEF Asks
<1>5. f.type = "request" => Asks(c, 1, f.id) /\ f.id \in Reqs /\ Asked(f.id)
  <2>1. f.type = "request" => Asks(c, 1, f.id) /\ f.id \in Reqs
    BY <1>2 DEF Asks, UpFrames
  <2> QED BY <1>2, <2>1 DEF Asked
<1>6. \A r \in Reqs : Asked(r)' => Asked(r)
  <2> SUFFICES ASSUME NEW r \in Reqs, NEW d \in Conns, NEW i \in DOMAIN up'[d], Asks(d, i, r)'
               PROVE  Asked(r)
    BY DEF Asked
  <2>1. CASE d = c
    BY <1>3, <2>1 DEF Asked, Asks
  <2>2. CASE d # c
    BY <1>4, <2>2 DEF Asked, Asks
  <2> QED BY <2>1, <2>2
<1>7. \A r \in Reqs : \A d, e, i, j :
        d \in Conns /\ e \in Conns /\ Asks(d, i, r) /\ Asks(e, j, r) => d = e /\ i = j
  BY DEF Once, Asks
<1>8. f.type = "request" => ~Asked(f.id)'
  <2> SUFFICES ASSUME f.type = "request", NEW d \in Conns, NEW i \in DOMAIN up'[d],
                      Asks(d, i, f.id)'
               PROVE  FALSE
    BY DEF Asked
  <2>1. CASE d = c
    BY <1>3, <1>5, <1>7, <2>1
  <2>2. CASE d # c
    BY <1>4, <1>5, <1>7, <2>2
  <2> QED BY <2>1, <2>2
<1>9. f.type = "request" => ~Early(f.id) /\ ~Running(f.id) /\ f.id \notin performed
  BY <1>5 DEF Once, Untouched
<1>10. \A d \in Conns : op'[d] = op[d] \/ (d = c /\ f.type = "request" /\ op'[d] = f.id)
  BY TypesApart DEF Sound, SocketTypeOK
<1>11. \A r \in Reqs : Running(r)' => Running(r) \/ (f.type = "request" /\ r = f.id)
  BY <1>10 DEF Running
<1>12. \A r \in Reqs : Untouched(r) => Untouched(r)'
  BY <1>5, <1>6, <1>11 DEF Untouched
<1>13. \A r \in Reqs : Early(r)' => Untouched(r)'
  BY <1>12 DEF Once, Ages
<1>14. \A r \in Reqs : Asked(r)' => ~Running(r)' /\ r \notin performed'
  BY <1>6, <1>8, <1>11 DEF Once
<1>15. \A r \in Reqs : \A d, e \in Conns : \A i \in DOMAIN up'[d], j \in DOMAIN up'[e] :
         Asks(d, i, r)' /\ Asks(e, j, r)' => d = e /\ i = j
  <2> SUFFICES ASSUME NEW r \in Reqs, NEW d \in Conns, NEW e \in Conns,
                      NEW i \in DOMAIN up'[d], NEW j \in DOMAIN up'[e],
                      Asks(d, i, r)', Asks(e, j, r)'
               PROVE  d = e /\ i = j
    OBVIOUS
  <2>1. CASE d = c /\ e = c
    BY <1>3, <1>7, <2>1
  <2>2. CASE d = c /\ e # c
    BY <1>3, <1>4, <1>7, <2>2
  <2>3. CASE d # c /\ e = c
    BY <1>3, <1>4, <1>7, <2>3
  <2>4. CASE d # c /\ e # c
    BY <1>4, <1>7, <2>4
  <2> QED BY <2>1, <2>2, <2>3, <2>4
<1>16. \A d, e \in Conns : op'[d] # NoReq /\ op'[d] = op'[e] => d = e
  BY <1>9, <1>10 DEF Once, Running
<1> QED BY <1>5, <1>8, <1>9, <1>12, <1>13, <1>14, <1>15, <1>16 DEF Once

\* The bus call of a request returns.
LEMMA PerformOnce ==
  ASSUME Once, Ages, NEW c \in Conns, performed' = performed \cup {op[c]},
         UNCHANGED <<up, op>>
  PROVE  Once' /\ \A r \in Reqs : Untouched(r) => Untouched(r)'
<1>1. \A r \in Reqs : /\ Asked(r)' <=> Asked(r)
                      /\ Running(r)' <=> Running(r)
                      /\ r \in performed' => r \in performed \/ Running(r)
  BY DEF Asked, Asks, Running
<1>2. \A r \in Reqs : Untouched(r) => Untouched(r)'
  BY <1>1 DEF Untouched
<1>3. \A r \in Reqs : Early(r)' => Untouched(r)'
  BY <1>2 DEF Once, Ages
<1>4. \A r \in Reqs : Asked(r)' => ~Running(r)' /\ r \notin performed'
  BY <1>1 DEF Once
<1> QED BY <1>2, <1>3, <1>4 DEF Once, Asks

LEMMA SentIs ==
  ASSUME Sound, NEW f \in UpFrames, up' = Sent(f), NEW c \in Conns, NEW i \in DOMAIN up'[c]
  PROVE  (i \in DOMAIN up[c] /\ up'[c][i] = up[c][i]) \/ up'[c][i] = f
<1>1. CASE up'[c] = up[c]
  BY <1>1
<1>2. CASE up'[c] # up[c]
  <2>1. up[c] \in Seq(UpFrames) /\ up'[c] = Append(up[c], f)
    BY <1>2, UpIs, TypesApart DEF Sent, Sound, UpTypes
  <2> QED BY <2>1, AppendIs
<1> QED BY <1>1, <1>2

\* What the tab sends: nothing, a request, its token, or the cancellation of what
\* it has given up.
LEMMA ClientUp ==
  ASSUME Sound, ClientNext
  PROVE  \/ up' = up
         \/ \E r \in Reqs : Send(r)
         \/ \E r \in Reqs : up' = Sent(CancelOf(r)) /\ stage'[r] = "done"
         \/ OpenEvent
<1>1. ASSUME NEW r \in Reqs, IdleTimeout(r) \/ Abort(r)
      PROVE  up' = up \/ (up' = Sent(CancelOf(r)) /\ stage'[r] = "done")
  <2>1. Settle({r}, "cancelled") \/ Settle({r}, "ws_timeout") => stage'[r] = "done"
    BY DEF Settle, SettleAndOpen
  <2> QED BY <1>1, <2>1 DEF IdleTimeout, Abort, SendCancel
<1> QED BY <1>1 DEF ClientNext, CallRead, StartRead, CallWrite, OpenTimeout, Message,
                    AnimationFrame, ErrorEvent, CloseEvent, ReconnectTimer, Login, Logout, wireVars

LEMMA OpenEventUp ==
  ASSUME Sound, OpenEvent, NEW c \in Conns, NEW i \in DOMAIN up'[c]
  PROVE  \/ i \in DOMAIN up[c] /\ up'[c][i] = up[c][i]
         \/ up'[c][i].type = "auth"
<1>1. /\ sock \in Conns /\ wanted \in Tokens
      /\ up' = [up EXCEPT ![sock] = Append(up[sock], Auth(wanted))]
  BY TypesApart DEF OpenEvent, Sound, ConnTypes, Dialed
<1>2. Auth(wanted) \in UpFrames /\ Auth(wanted).type = "auth"
  BY <1>1 DEF Auth, UpFrames
<1>3. CASE c = sock
  <2>1. up[c] \in Seq(UpFrames) /\ up'[c] = Append(up[c], Auth(wanted))
    BY <1>1, <1>3, UpIs, TypesApart DEF Sound, UpTypes
  <2> QED BY <1>2, <2>1, AppendIs
<1>4. CASE c # sock
  BY <1>1, <1>4, UpIs, TypesApart DEF Sound, UpTypes
<1> QED BY <1>3, <1>4

LEMMA OnceClient ==
  ASSUME Sound, Called, Once, Ages, ClientNext, UNCHANGED socketVars
  PROVE  Once' /\ \A q \in Reqs : ~Early(q) /\ Untouched(q) => Untouched(q)'
<1>s. performed' = performed /\ op' = op
  BY DEF socketVars, opVars
<1>1. CASE up' = up
  <2>1. OldRequests
    BY <1>1 DEF OldRequests
  <2> QED BY <1>s, <2>1, QuietOnce
<1>2. CASE \E r \in Reqs : Send(r)
  BY <1>2, SendOnce
<1>3. ASSUME NEW r \in Reqs, up' = Sent(CancelOf(r)) PROVE OldRequests
  <2>1. CancelOf(r) \in UpFrames /\ CancelOf(r).type # "request"
    BY FramesTyped DEF CancelOf
  <2> QED BY <1>3, <2>1, SentIs DEF OldRequests
<1>4. CASE \E r \in Reqs : up' = Sent(CancelOf(r))
  BY <1>s, <1>3, <1>4, QuietOnce
<1>5. CASE OpenEvent
  <2>1. OldRequests
    BY <1>5, OpenEventUp DEF OldRequests
  <2> QED BY <1>s, <2>1, QuietOnce
<1> QED BY <1>1, <1>2, <1>4, <1>5, ClientUp

LEMMA OnceSocket ==
  ASSUME Sound, Once, Ages, SocketNext
  PROVE  Once' /\ \A r \in Reqs : Untouched(r) => Untouched(r)'
<1> PICK c \in Conns :
      \/ Handshake(c) \/ Loop(c) \/ Supervise(c) \/ Report(c)
      \/ Forward(c) \/ Perform(c) \/ Finish(c) \/ Hangup(c)
  BY DEF SocketNext
<1>1. CASE Handshake(c) \/ Loop(c) \/ Supervise(c)
  <2>1. PICK f \in UpFrames :
          Takes(c, f) /\ (op' = op \/ (f.type = "request" /\ op' = [op EXCEPT ![c] = f.id]))
    BY <1>1 DEF Handshake, Loop, Supervise, opVars
  <2>2. performed' = performed
    BY <1>1 DEF Handshake, Loop, Supervise
  <2> QED BY <2>1, <2>2, TakesOnce
<1>2. CASE Perform(c)
  BY <1>2, PerformOnce DEF Perform, wireVars, opVars
<1>3. CASE Report(c) \/ Forward(c) \/ Finish(c) \/ Hangup(c)
  <2>1. /\ up' = up /\ performed' = performed
        /\ op' = op \/ op' = [op EXCEPT ![c] = NoReq]
    BY <1>3 DEF Report, Forward, Finish, Hangup, wireVars
  <2>2. \A d \in Conns : op'[d] \in {op[d], NoReq}
    BY <2>1, TypesApart DEF Sound, SocketTypeOK
  <2> QED BY <2>1, <2>2, QuietOnce DEF OldRequests
<1> QED BY <1>1, <1>2, <1>3

LEMMA OnceStep ==
  ASSUME Sound, Called, Once, [Next]_vars
  PROVE  Once' /\ \A q \in Reqs : ~Early(q) /\ Untouched(q) => Untouched(q)'
<1>1. Ages
  BY AgesStep
<1>2. CASE UNCHANGED vars
  BY <1>1, <1>2, QuietOnce DEF vars, wireVars, socketVars, opVars, OldRequests
<1>3. ASSUME NEW c \in Conns, Lose(c)
      PROVE  Once' /\ \A q \in Reqs : ~Early(q) /\ Untouched(q) => Untouched(q)'
  <2>1. \A d \in Conns : up'[d] = up[d] \/ up'[d] = <<>>
    BY <1>3, TypesApart DEF Lose, Sound, UpTypes
  <2>2. OldRequests
    BY <2>1 DEF OldRequests
  <2> QED BY <1>1, <1>3, <2>2, QuietOnce DEF Lose, socketVars, opVars
<1> QED BY <1>1, <1>2, <1>3, OnceClient, OnceSocket DEF Next

LEMMA AlwaysOnce == Spec => [](Authed /\ Once)
<1>1. Init => Authed /\ Once
  BY AuthedInit, OnceInit
<1>2. Sound /\ Busy /\ Called /\ Authed /\ Once /\ [Next]_vars => (Authed /\ Once)'
  BY AuthedStep, OnceStep
<1> QED BY <1>1, <1>2, AlwaysSound, AlwaysCalled, PTL DEF Spec

\* Whatever logins and reconnections come between, a request runs under the token
\* it was sent with.
THEOREM OwnToken == Spec => []RunsUnderOwnToken
<1>1. Authed => RunsUnderOwnToken
  BY DEF Authed, RunsUnderOwnToken
<1> QED BY <1>1, AlwaysOnce, PTL

-----------------------------------------------------------------------------
(* What an ack says is true when it arrives: it is for a request that was  *)
(* sent; done means performed, unless the call has ended by then, and busy *)
(* that the request is not and will not be run.                            *)

AckOk(f) ==
  f.type = "ack" =>
    /\ ~Early(f.id)
    /\ f.verdict = "ok" => f.id \in performed \/ stage[f.id] = "done"
    /\ f.verdict = "busy" => Untouched(f.id)

Told ==
  /\ \A c \in Conns : \A i \in DOMAIN up[c] :
       up[c][i].type = "cancel" => stage[up[c][i].id] = "done"
  /\ \A c \in Conns : \A i \in DOMAIN down[c] : AckOk(down[c][i])
  /\ \A r \in Reqs : outcome[r] = "busy" => Untouched(r)

LEMMA ToldInit == Init => Told
BY DEF Init, WireInit, ClientInit, Told

\* Cancellations are old or of what has ended; frames for the tab are old or true;
\* and a call is refused only by what was true.
OldCancels ==
  \A c \in Conns : \A i \in DOMAIN up'[c] :
    up'[c][i].type = "cancel" =>
      \/ \E j \in DOMAIN up[c] : up[c][j] = up'[c][i]
      \/ stage'[up'[c][i].id] = "done"

OldDown ==
  \A c \in Conns : \A i \in DOMAIN down'[c] :
    \/ \E j \in DOMAIN down[c] : down[c][j] = down'[c][i]
    \/ \E f \in DownFrames : down'[c][i] = f /\ AckOk(f)'

OldBusy ==
  \A r \in Reqs :
    outcome'[r] = "busy" => outcome[r] = "busy" \/ (Untouched(r) /\ ~Early(r))

LEMMA ToldKept ==
  ASSUME Sound, Called, Told, Ages, OldCancels, OldDown, OldBusy,
         performed \subseteq performed',
         \A q \in Reqs : ~Early(q) /\ Untouched(q) => Untouched(q)'
  PROVE  Told'
<1>1. \A c \in Conns : \A i \in DOMAIN up'[c] :
        up'[c][i].type = "cancel" => stage'[up'[c][i].id] = "done"
  <2> SUFFICES ASSUME NEW c \in Conns, NEW i \in DOMAIN up'[c], up'[c][i].type = "cancel",
                      NEW j \in DOMAIN up[c], up[c][j] = up'[c][i]
               PROVE  stage'[up'[c][i].id] = "done"
    BY DEF OldCancels
  <2>1. up[c][j] \in UpFrames /\ up[c][j].type = "cancel"
    BY UpIs
  <2>2. up[c][j].id \in Reqs /\ stage[up[c][j].id] = "done"
    BY <2>1 DEF UpFrames, Told
  <2> QED BY <2>2 DEF Ages
<1>2. \A c \in Conns : \A i \in DOMAIN down'[c] : \E f \in DownFrames : down'[c][i] = f /\ AckOk(f)'
  <2>1. \A f \in DownFrames : AckOk(f) => AckOk(f)'
    BY DEF AckOk, Ages, DownFrames
  <2> SUFFICES ASSUME NEW c \in Conns, NEW i \in DOMAIN down'[c],
                      NEW j \in DOMAIN down[c], down[c][j] = down'[c][i]
               PROVE  \E f \in DownFrames : down'[c][i] = f /\ AckOk(f)'
    BY DEF OldDown
  <2>2. down[c][j] \in DownFrames /\ AckOk(down[c][j])
    BY TypesApart DEF Sound, DownTypes, Told
  <2>3. PICK f \in DownFrames : f = down[c][j]
    BY <2>2
  <2> QED BY <2>1, <2>2, <2>3
<1>3. \A r \in Reqs : outcome'[r] = "busy" => Untouched(r)'
  <2>1. \A r \in Reqs : outcome[r] = "busy" => Untouched(r) /\ ~Early(r)
    BY DEF Told, Called, Settled, Early
  <2> QED BY <2>1 DEF OldBusy
<1>4. (\A c \in Conns : \A i \in DOMAIN down[c] : AckOk(down[c][i]))'
  BY <1>2
<1> QED BY <1>1, <1>3, <1>4 DEF Told

\* The tab takes frames and makes none.
LEMMA ClientDown ==
  ASSUME Sound, ClientNext
  PROVE  \A c \in Conns : \A i \in DOMAIN down'[c] :
           \E j \in DOMAIN down[c] : down[c][j] = down'[c][i]
<1>1. CASE down' = down
  BY <1>1
<1>2. CASE down' = [c \in Conns |-> IF c = sock THEN <<>> ELSE down[c]]
  BY <1>2
<1>3. CASE Message
  <2>1. /\ sock \in Conns /\ down[sock] \in Seq(DownFrames) /\ down[sock] # <<>>
        /\ down' = [down EXCEPT ![sock] = Tail(down[sock])] /\ DownTypes
    BY <1>3, TypesApart DEF Message, Sound, ConnTypes, Dialed, DownTypes
  <2>2. \A i \in DOMAIN Tail(down[sock]) :
          i + 1 \in DOMAIN down[sock] /\ Tail(down[sock])[i] = down[sock][i + 1]
    BY <2>1, TailIs
  <2> QED BY <2>1, <2>2 DEF DownTypes
<1>4. \A r : Ask(r) => down' = down \/ down' = [c \in Conns |-> IF c = sock THEN <<>> ELSE down[c]]
  BY DEF Ask, Connect
<1>5. ReconnectTimer \/ (\E t \in Tokens : Login(t)) =>
        down' = down \/ down' = [c \in Conns |-> IF c = sock THEN <<>> ELSE down[c]]
  BY DEF ReconnectTimer, Login, Connect
<1> QED BY <1>1, <1>2, <1>3, <1>4, <1>5
        DEF ClientNext, CallRead, StartRead, CallWrite, Send, IdleTimeout, OpenTimeout, Abort,
            OpenEvent, AnimationFrame, ErrorEvent, CloseEvent, Logout, Hang, wireVars

LEMMA ClientCancels == ASSUME Sound, ClientNext PROVE OldCancels
<1>1. CASE up' = up
  BY <1>1 DEF OldCancels
<1>2. ASSUME NEW r \in Reqs, Send(r) PROVE OldCancels
  <2>1. /\ Request(r) \in UpFrames /\ Request(r).type # "cancel" /\ up' = Sent(Request(r))
    BY <1>2, FramesTyped DEF Request, Send
  <2> HIDE DEF Request
  <2> QED BY <2>1, SentIs DEF OldCancels
<1>3. ASSUME NEW r \in Reqs, up' = Sent(CancelOf(r)), stage'[r] = "done" PROVE OldCancels
  <2>1. CancelOf(r) \in UpFrames /\ CancelOf(r).id = r
    BY FramesTyped DEF CancelOf
  <2> HIDE DEF CancelOf
  <2> QED BY <1>3, <2>1, SentIs DEF OldCancels
<1>4. CASE OpenEvent
  BY <1>4, OpenEventUp DEF OldCancels
<1> QED BY <1>1, <1>2, <1>3, <1>4, ClientUp

\* A call is refused by an ack only.
LEMMA SettleBusy ==
  ASSUME NEW S, NEW why, NEW r, SettleAndOpen(S, why, r), why # "busy"
  PROVE  OldBusy
BY DEF SettleAndOpen, OldBusy

LEMMA ClientBusy == ASSUME Sound, Told, ClientNext PROVE OldBusy
<1>1. CASE outcome' = outcome
  BY <1>1 DEF OldBusy
<1>2. ASSUME NEW S, NEW why \in Outcomes \ {"busy"}, Settle(S, why) PROVE OldBusy
  BY <1>2, SettleBusy DEF Settle
<1>3. ASSUME NEW t, NEW r, Connect(t, r) PROVE OldBusy
  BY <1>3, SettleBusy DEF Connect
<1>4. CASE Message
  <2>1. /\ sock \in Conns /\ down[sock] \in Seq(DownFrames) /\ down[sock] # <<>>
    BY <1>4, TypesApart DEF Message, Sound, ConnTypes, Dialed, DownTypes
  <2> DEFINE f == Head(down[sock])
  <2>2. f \in DownFrames /\ AckOk(f)
    BY <2>1, TailIs DEF Told
  <2>3. (f.type = "ack" /\ OnAck(f)) \/ outcome' = outcome
    BY <1>4 DEF Message, callVars
  <2> HIDE DEF f
  <2>4. CASE f.type = "ack" /\ OnAck(f) /\ outcome' # outcome
    <3>1. SettleAndOpen({f.id}, f.verdict, NoReq)
      BY <2>4 DEF OnAck, Settle, callVars
    <3>2. \A r \in Reqs : outcome'[r] = "busy" =>
            outcome[r] = "busy" \/ (r = f.id /\ f.verdict = "busy")
      BY <3>1 DEF SettleAndOpen
    <3> QED BY <2>2, <2>4, <3>2 DEF OldBusy, AckOk
  <2> QED BY <1>1, <2>3, <2>4
<1>5. ASSUME NEW r \in Reqs, StartRead(r) \/ CallWrite(r) PROVE OldBusy
  BY <1>2, <1>3, <1>5 DEF StartRead, CallWrite, Ask, Outcomes
<1>6. ASSUME NEW r \in Reqs, CallRead(r) \/ Send(r) PROVE OldBusy
  BY <1>1, <1>6 DEF CallRead, Send
<1>7. ASSUME NEW r \in Reqs, IdleTimeout(r) \/ OpenTimeout(r) \/ Abort(r) PROVE OldBusy
  BY <1>1, <1>2, <1>7 DEF IdleTimeout, OpenTimeout, Abort, Outcomes, callVars
<1>8. CASE ErrorEvent \/ CloseEvent \/ Logout
  BY <1>2, <1>8 DEF ErrorEvent, CloseEvent, Logout, FailAll, Outcomes
<1>9. CASE ReconnectTimer \/ \E t \in Tokens : Login(t)
  BY <1>3, <1>9 DEF ReconnectTimer, Login
<1>10. CASE OpenEvent \/ AnimationFrame
  BY <1>1, <1>10 DEF OpenEvent, AnimationFrame, callVars
<1> QED BY <1>4, <1>5, <1>6, <1>7, <1>8, <1>9, <1>10 DEF ClientNext

LEMMA ReplyIs ==
  ASSUME Sound, NEW c \in Conns, NEW f \in DownFrames, Reply(c, f),
         NEW d \in Conns, NEW i \in DOMAIN down'[d]
  PROVE  (\E j \in DOMAIN down[d] : down[d][j] = down'[d][i]) \/ down'[d][i] = f
<1>1. CASE down'[d] = down[d]
  BY <1>1
<1>2. CASE down'[d] # down[d]
  <2>1. down[d] \in Seq(DownFrames) /\ down'[d] = Append(down[d], f)
    BY <1>2, TypesApart DEF Reply, Sound, DownTypes
  <2> QED BY <2>1, AppendIs
<1> QED BY <1>1, <1>2

LEMMA TakesCancels ==
  ASSUME Sound, NEW c \in Conns, NEW f \in UpFrames, Takes(c, f)
  PROVE  OldCancels
<1>1. /\ up[c] \in Seq(UpFrames) /\ up[c] # <<>>
      /\ up'[c] = Tail(up[c]) /\ \A d \in Conns \ {c} : up'[d] = up[d]
  BY UpIs, TypesApart DEF Sound, UpTypes, Takes
<1>2. \A i \in DOMAIN up'[c] : i + 1 \in DOMAIN up[c] /\ up'[c][i] = up[c][i + 1]
  BY <1>1, TailIs
<1> QED BY <1>1, <1>2 DEF OldCancels

\* A frame that the daemon takes off a connection.
LEMMA TakesHead ==
  ASSUME Sound, Told, NEW c \in Conns, NEW f \in UpFrames, Takes(c, f)
  PROVE  f.type = "cancel" => stage[f.id] = "done"
<1>1. up[c] \in Seq(UpFrames) /\ up[c] # <<>> /\ f = Head(up[c])
  BY UpIs DEF Takes
<1>2. 1 \in DOMAIN up[c] /\ up[c][1] = f
  BY <1>1, TailIs
<1> QED BY <1>2 DEF Told

LEMMA SocketTold ==
  ASSUME Sound, Busy, Called, Once, Told, Ages, SocketNext, UNCHANGED clientVars,
         \A q \in Reqs : ~Early(q) /\ Untouched(q) => Untouched(q)'
  PROVE  Told'
<1> PICK c \in Conns :
      \/ Handshake(c) \/ Loop(c) \/ Supervise(c) \/ Report(c)
      \/ Forward(c) \/ Perform(c) \/ Finish(c) \/ Hangup(c)
  BY DEF SocketNext
<1>s. stage' = stage /\ OldBusy
  BY DEF clientVars, callVars, OldBusy
<1>p. performed \subseteq performed'
  BY DEF Handshake, Loop, Supervise, Report, Forward, Perform, Finish, Hangup
<1>1. CASE Handshake(c)
  <2>1. OldCancels
    BY <1>1, TakesCancels DEF Handshake
  <2>2. OldDown
    BY <1>1 DEF Handshake, OldDown
  <2> QED BY <1>s, <1>p, <2>1, <2>2, ToldKept
<1>2. CASE Loop(c)
  <2>1. PICK f \in UpFrames :
          /\ Takes(c, f)
          /\ \/ UNCHANGED down
             \/ f.type = "cancel" /\ Reply(c, Ack(f.id, "ok"))
    BY <1>2 DEF Loop
  <2>2. OldCancels
    BY <2>1, TakesCancels
  <2>3. ASSUME f.type = "cancel", Reply(c, Ack(f.id, "ok")) PROVE OldDown
    <3>1. f.id \in Reqs /\ stage[f.id] = "done"
      BY <2>1, <2>3, TakesHead DEF UpFrames
    <3>2. Ack(f.id, "ok") \in DownFrames
      BY <3>1, FramesTyped DEF Verdicts
    <3>3. AckOk(Ack(f.id, "ok"))'
      BY <1>s, <3>1 DEF AckOk, Ack, Early
    <3> HIDE DEF Ack
    <3> QED BY <2>3, <3>2, <3>3, ReplyIs DEF OldDown
  <2>4. OldDown
    BY <2>1, <2>3 DEF OldDown
  <2> QED BY <1>s, <1>p, <2>2, <2>4, ToldKept
<1>3. CASE Supervise(c)
  <2>1. PICK f \in UpFrames :
          /\ Takes(c, f)
          /\ IF f.type = "request" THEN Reply(c, Ack(f.id, "busy")) ELSE UNCHANGED down
    BY <1>3 DEF Supervise, Refusal
  <2>2. OldCancels
    BY <2>1, TakesCancels
  <2>3. ASSUME f.type = "request" PROVE OldDown
    <3>1. /\ ~Asked(f.id)' /\ ~Early(f.id) /\ f.id \in Reqs
          /\ ~Running(f.id) /\ f.id \notin performed /\ op' = op /\ performed' = performed
      <4>1. op' = op /\ performed' = performed
        BY <1>3 DEF Supervise
      <4> QED BY <2>1, <2>3, <4>1, TakesOnce
    <3>2. Ack(f.id, "busy") \in DownFrames
      BY <3>1, FramesTyped DEF Verdicts
    <3>3. Untouched(f.id)' /\ ~Early(f.id)'
      BY <1>s, <3>1 DEF Untouched, Running, Early
    <3>4. AckOk(Ack(f.id, "busy"))'
      BY <3>3 DEF AckOk, Ack
    <3> HIDE DEF Ack
    <3> QED BY <2>1, <2>3, <3>2, <3>4, ReplyIs DEF OldDown
  <2>4. OldDown
    BY <2>1, <2>3 DEF OldDown
  <2> QED BY <1>s, <1>p, <2>2, <2>4, ToldKept
<1>4. CASE Report(c) \/ Perform(c) \/ Hangup(c)
  <2>1. OldCancels /\ OldDown
    BY <1>4 DEF Report, Perform, Hangup, wireVars, OldCancels, OldDown
  <2> QED BY <1>s, <1>p, <2>1, ToldKept
<1>5. CASE Forward(c)
  <2>1. OldCancels
    BY <1>5 DEF Forward, OldCancels
  <2>2. PICK r \in Reqs : r = fwd[c]
    BY <1>5, TypesApart, WireConstants DEF Forward, Sound, SocketTypeOK
  <2>3. ProgressOf(r) \in DownFrames /\ AckOk(ProgressOf(r))'
    BY FramesTyped DEF ProgressOf, AckOk
  <2>4. Reply(c, ProgressOf(r))
    BY <1>5, <2>2 DEF Forward
  <2>5. OldDown
    <3> HIDE DEF ProgressOf
    <3> QED BY <2>3, <2>4, ReplyIs DEF OldDown
  <2> QED BY <1>s, <1>p, <2>1, <2>5, ToldKept
<1>6. CASE Finish(c)
  <2>1. OldCancels
    BY <1>6 DEF Finish, OldCancels
  <2>2. PICK r \in Reqs : r = op[c]
    BY <1>6, TypesApart DEF Finish, Busy, Sound, SocketTypeOK
  <2>3. ~Early(r) /\ ~Early(r)'
    BY <1>s, <2>2 DEF Once, Untouched, Running, Early
  <2>4. PICK v \in {"ok", "failed"} : Reply(c, Ack(r, v)) /\ (v = "ok" => r \in performed)
    BY <1>6, <2>2 DEF Finish, Succeeds
  <2>5. Ack(r, v) \in DownFrames
    BY <2>2, FramesTyped DEF Verdicts
  <2>6. AckOk(Ack(r, v))'
    BY <1>p, <2>3, <2>4 DEF AckOk, Ack, Early
  <2>7. OldDown
    <3> HIDE DEF Ack
    <3> QED BY <2>4, <2>5, <2>6, ReplyIs DEF OldDown
  <2> QED BY <1>s, <1>p, <2>1, <2>7, ToldKept
<1> QED BY <1>1, <1>2, <1>3, <1>4, <1>5, <1>6

LEMMA ToldStep == Sound /\ Busy /\ Called /\ Once /\ Told /\ [Next]_vars => Told'
<1> SUFFICES ASSUME Sound, Busy, Called, Once, Told, [Next]_vars PROVE Told'
  OBVIOUS
<1>1. Ages /\ \A q \in Reqs : ~Early(q) /\ Untouched(q) => Untouched(q)'
  BY AgesStep, OnceStep
<1>2. CASE UNCHANGED vars
  <2>1. OldCancels /\ OldDown /\ OldBusy /\ performed' = performed
    BY <1>2 DEF vars, wireVars, clientVars, callVars, socketVars, OldCancels, OldDown, OldBusy
  <2> QED BY <1>1, <2>1, ToldKept
<1>3. CASE ClientNext /\ UNCHANGED socketVars
  <2>1. OldDown
    BY <1>3, ClientDown DEF OldDown
  <2>2. performed' = performed
    BY <1>3 DEF socketVars
  <2> QED BY <1>1, <1>3, <2>1, <2>2, ClientCancels, ClientBusy, ToldKept
<1>4. ASSUME NEW c \in Conns, Lose(c) PROVE Told'
  <2>1. /\ \A d \in Conns : up'[d] = up[d] \/ up'[d] = <<>>
        /\ \A d \in Conns : down'[d] = down[d] \/ down'[d] = <<>>
    BY <1>4, TypesApart DEF Lose, Sound, UpTypes, DownTypes
  <2>2. OldCancels /\ OldDown
    BY <2>1 DEF OldCancels, OldDown
  <2>3. OldBusy /\ performed' = performed
    BY <1>4 DEF Lose, callVars, socketVars, OldBusy
  <2> QED BY <1>1, <2>2, <2>3, ToldKept
<1> QED BY <1>1, <1>2, <1>3, <1>4, SocketTold DEF Next

LEMMA AlwaysTold == Spec => []Told
BY ToldInit, ToldStep, AlwaysSound, AlwaysCalled, AlwaysOnce, PTL DEF Spec

\* A call that is refused as busy was not and will not be run.
THEOREM BusyIsUntouched == Spec => []BusyMeansUntouched
<1>1. Told => BusyMeansUntouched
  BY DEF Told, Untouched, Running, BusyMeansUntouched
<1> QED BY <1>1, AlwaysTold, PTL

-----------------------------------------------------------------------------
(* The session implements CvCalls: each of its steps makes a call, settles *)
(* calls, takes a value in, performs a call, forgets, or is not seen.      *)

LEMMA WaitsIsWaiting ==
  ASSUME Called, NEW r \in Reqs
  PROVE  stage[r] \in {"queued", "opening", "pending"} => r \in Calls!Waiting
BY DEF Called, Settled, Calls!Waiting

SameMade == \A r \in Reqs : stage'[r] = "new" <=> stage[r] = "new"

\* What has been taken in stays, whether it is flushed or not.
LEMMA SamplesStay ==
  FlushApplyBuffer \/ UNCHANGED sampleVars => table' \cup buffer' = table \cup buffer
BY DEF FlushApplyBuffer, sampleVars

LEMMA NotSeen ==
  ASSUME SameMade, UNCHANGED <<outcome, table \cup buffer, performed>>
  PROVE  UNCHANGED Calls!vars
BY DEF SameMade, Calls!vars

\* Settling calls that wait, and perhaps opening for a read from the queue.
LEMMA SettlesMade ==
  ASSUME Sound, Called, NEW S \in SUBSET Reqs, NEW why, NEW r, SettleAndOpen(S, why, r),
         \A q \in S : stage[q] # "new", r \in Reqs => stage[r] # "new"
  PROVE  SameMade
BY DEF SettleAndOpen, SameMade

LEMMA SettleSeen ==
  ASSUME Sound, Called, performed' = performed, NEW S \in SUBSET Reqs,
         NEW why \in Calls!Whys, NEW r, SettleAndOpen(S, why, r),
         \A q \in S : stage[q] \in {"queued", "opening", "pending"},
         r \in Reqs => stage[r] # "new",
         FlushApplyBuffer \/ UNCHANGED sampleVars,
         why = "cached" => table # {},
         why = "ok" => S \subseteq performed,
         why = "busy" => S \cap performed = {}
  PROVE  Calls!Next
<1>1. SameMade
  BY SettlesMade
<1>2. S \subseteq Calls!Waiting
  BY WaitsIsWaiting
<1>3. outcome' = [q \in Reqs |-> IF q \in S THEN why ELSE outcome[q]]
  BY DEF SettleAndOpen
<1>4. Calls!Settle(S, why)
  BY <1>1, <1>2, <1>3, SamplesStay DEF SameMade, Calls!Settle
<1> QED BY <1>4 DEF Calls!Next

LEMMA WaitingStages ==
  \A q \in Waiting : q \in Reqs /\ stage[q] \in {"queued", "opening", "pending"}
BY DEF Waiting

\* A step that connects for a call in the queue, or for none.
LEMMA ConnectSeen ==
  ASSUME Sound, Called, performed' = performed, NEW t, NEW r, Connect(t, r),
         r \in Reqs => stage[r] # "new"
  PROVE  Calls!Next \/ UNCHANGED Calls!vars
<1>1. CASE Reusable(t)
  <2>1. SettleAndOpen({}, "none", r) /\ UNCHANGED sampleVars
    BY <1>1 DEF Connect
  <2>2. SameMade
    BY <2>1, SettlesMade
  <2>3. outcome' = outcome
    BY <2>1, TypesApart DEF SettleAndOpen, Sound, CallTypes
  <2> QED BY <2>1, <2>2, <2>3, SamplesStay, NotSeen
<1>2. CASE ~Reusable(t)
  <2>1. SettleAndOpen(Waiting, "ws_closed", r) /\ FlushApplyBuffer
    BY <1>2 DEF Connect
  <2>2. Waiting \in SUBSET Reqs /\ "ws_closed" \in Calls!Whys
    BY DEF Waiting, Calls!Whys
  <2> QED BY <2>1, <2>2, WaitingStages, SettleSeen
<1> QED BY <1>1, <1>2

LEMMA IsMake ==
  ASSUME NEW r \in Reqs, stage[r] = "new", performed' = performed,
         {q \in Reqs : stage'[q] # "new"} = {q \in Reqs : stage[q] # "new"} \cup {r},
         NEW S \in SUBSET Calls!Waiting,
         outcome' = [q \in Reqs |-> IF q \in S THEN "ws_closed" ELSE outcome[q]],
         FlushApplyBuffer \/ UNCHANGED sampleVars
  PROVE  Calls!Next
<1>1. Calls!Make(r)
  BY SamplesStay DEF Calls!Make
<1> QED BY <1>1 DEF Calls!Next

\* A write is made, with or without a connection.
LEMMA MakeSeen ==
  ASSUME Sound, Called, performed' = performed, NEW r \in Reqs, stage[r] = "new", Ask(r)
  PROVE  Calls!Next
<1>1. PICK t : Connect(t, r)
  BY DEF Ask
<1>2. Waiting \subseteq Calls!Waiting
  BY WaitsIsWaiting, WaitingStages
<1>3. ASSUME NEW S \in SUBSET Waiting, NEW why, SettleAndOpen(S, why, r)
      PROVE  {q \in Reqs : stage'[q] # "new"} = {q \in Reqs : stage[q] # "new"} \cup {r}
  <2>1. \A q \in S : stage[q] # "new"
    BY WaitingStages
  <2> QED BY <1>3, <2>1 DEF SettleAndOpen
<1>4. CASE Reusable(t)
  <2>1. SettleAndOpen({}, "none", r) /\ UNCHANGED sampleVars
    BY <1>1, <1>4 DEF Connect
  <2>2. PICK S \in SUBSET Waiting : S = {}
    OBVIOUS
  <2>3. outcome' = [q \in Reqs |-> IF q \in S THEN "ws_closed" ELSE outcome[q]]
    BY <2>1, <2>2 DEF SettleAndOpen
  <2> QED BY <1>2, <1>3, <2>1, <2>2, <2>3, IsMake
<1>5. CASE ~Reusable(t)
  <2>1. SettleAndOpen(Waiting, "ws_closed", r) /\ FlushApplyBuffer
    BY <1>1, <1>5 DEF Connect
  <2>2. outcome' = [q \in Reqs |-> IF q \in Waiting THEN "ws_closed" ELSE outcome[q]]
    BY <2>1 DEF SettleAndOpen
  <2> QED BY <1>2, <1>3, <2>1, <2>2, IsMake
<1> QED BY <1>4, <1>5

\* One call ends.
LEMMA EndSeen ==
  ASSUME Sound, Called, performed' = performed, NEW r \in Reqs,
         stage[r] \in {"queued", "opening", "pending"},
         NEW why \in Calls!Whys, Settle({r}, why),
         FlushApplyBuffer \/ UNCHANGED sampleVars,
         why = "cached" => table # {},
         why = "ok" => r \in performed, why = "busy" => r \notin performed
  PROVE  Calls!Next
<1>1. PICK S \in SUBSET Reqs : S = {r}
  OBVIOUS
<1>2. /\ SettleAndOpen(S, why, NoReq) /\ NoReq \notin Reqs
      /\ \A q \in S : stage[q] \in {"queued", "opening", "pending"}
      /\ why = "ok" => S \subseteq performed
      /\ why = "busy" => S \cap performed = {}
  BY <1>1, WireConstants DEF Settle
<1> QED BY <1>2, SettleSeen

\* All calls that wait end.
LEMMA AllSeen ==
  ASSUME Sound, Called, performed' = performed, ErrorEvent \/ CloseEvent
  PROVE  Calls!Next
<1>1. PICK why \in {"ws_closed", "ws_error"} : SettleAndOpen(Waiting, why, NoReq) /\ FlushApplyBuffer
  BY DEF ErrorEvent, CloseEvent, FailAll, Settle
<1>2. Waiting \in SUBSET Reqs /\ why \in Calls!Whys /\ NoReq \notin Reqs
  BY WireConstants DEF Waiting, Calls!Whys
<1> QED BY <1>1, <1>2, WaitingStages, SettleSeen

LEMMA LogoutSeen ==
  ASSUME Sound, Called, performed' = performed, Logout
  PROVE  Calls!Next
<1>1. SettleAndOpen(Waiting, "ws_closed", NoReq) /\ table' \cup buffer' \subseteq table \cup buffer
  BY DEF Logout, Settle
<1>2. Waiting \in SUBSET Reqs /\ Waiting \subseteq Calls!Waiting
  BY WaitsIsWaiting, WaitingStages DEF Waiting
<1>3. SameMade
  BY <1>1, <1>2, WaitingStages, SettlesMade, WireConstants
<1>4. outcome' = [q \in Reqs |-> IF q \in Waiting THEN "ws_closed" ELSE outcome[q]]
  BY <1>1 DEF SettleAndOpen
<1>5. Calls!Forget(Waiting)
  BY <1>1, <1>2, <1>3, <1>4 DEF SameMade, Calls!Forget
<1> QED BY <1>2, <1>5 DEF Calls!Next

LEMMA MessageSeen ==
  ASSUME Sound, Called, Told, Message, performed' = performed
  PROVE  Calls!Next \/ UNCHANGED Calls!vars
<1>1. sock \in Conns /\ down[sock] \in Seq(DownFrames) /\ down[sock] # <<>>
  BY TypesApart DEF Message, Sound, ConnTypes, Dialed, DownTypes
<1> DEFINE f == Head(down[sock])
<1>2. f \in DownFrames /\ AckOk(f)
  BY <1>1, TailIs DEF Told
<1>3. \/ f.type = "ack" /\ OnAck(f)
      \/ /\ buffer' = buffer \/ (Accepts(f.id) /\ buffer' = buffer \cup {f.id})
         /\ UNCHANGED <<callVars, table>>
  BY DEF Message
<1> HIDE DEF f
<1>4. CASE UNCHANGED <<callVars, sampleVars>>
  BY <1>4, NotSeen, SamplesStay DEF callVars, SameMade
<1>5. CASE f.type = "ack" /\ OnAck(f) /\ Awaits(f.id)
  <2>1. PICK r \in Reqs : r = f.id
    BY <1>2, <1>5 DEF DownFrames
  <2>2. /\ Settle({r}, f.verdict) /\ FlushApplyBuffer /\ stage[r] = "pending"
    BY <1>5, <2>1 DEF OnAck, Awaits
  <2>3. /\ f.verdict \in Calls!Whys
        /\ f.verdict = "ok" => r \in performed
        /\ f.verdict = "busy" => r \notin performed
        /\ f.verdict # "cached"
    BY <1>2, <1>5, <2>1, <2>2 DEF AckOk, Untouched, DownFrames, Verdicts, Calls!Whys
  <2> QED BY <2>2, <2>3, EndSeen
<1>6. CASE Accepts(f.id) /\ buffer' = buffer \cup {f.id} /\ UNCHANGED <<callVars, table>>
  <2>1. PICK r \in Reqs : r = f.id
    BY <1>2 DEF DownFrames
  <2>2. r \in Calls!Waiting
    BY <1>6, <2>1, WaitsIsWaiting, WireConstants DEF Accepts, Called, Owned
  <2>3. SameMade /\ outcome' = outcome /\ table' \cup buffer' = (table \cup buffer) \cup {r}
    BY <1>6, <2>1 DEF callVars, SameMade
  <2>4. Calls!Take(r)
    BY <2>2, <2>3 DEF SameMade, Calls!Take
  <2> QED BY <2>4 DEF Calls!Next
<1> QED BY <1>3, <1>4, <1>5, <1>6 DEF OnAck, sampleVars

LEMMA ClientSeen ==
  ASSUME Sound, Called, Told, ClientNext, UNCHANGED socketVars
  PROVE  Calls!Next \/ UNCHANGED Calls!vars
<1>s. performed' = performed
  BY DEF socketVars
<1>t. /\ stage \in [Reqs -> {"new", "queued", "opening", "pending", "done"}]
      /\ outcome \in [Reqs -> Outcomes]
  BY TypesApart DEF Sound, CallTypes
<1>1. ASSUME NEW r \in Reqs, CallRead(r) PROVE Calls!Next
  <2>1. {q \in Reqs : stage'[q] # "new"} = {q \in Reqs : stage[q] # "new"} \cup {r}
    BY <1>1, <1>t DEF CallRead
  <2>2. PICK S \in SUBSET Calls!Waiting : S = {}
    OBVIOUS
  <2>3. /\ stage[r] = "new" /\ UNCHANGED sampleVars
        /\ outcome' = [q \in Reqs |-> IF q \in S THEN "ws_closed" ELSE outcome[q]]
    BY <1>1, <1>t, <2>2 DEF CallRead
  <2> QED BY <1>s, <2>1, <2>3, IsMake
<1>2. ASSUME NEW r \in Reqs, StartRead(r) PROVE Calls!Next \/ UNCHANGED Calls!vars
  <2>1. stage[r] = "queued"
    BY <1>2 DEF StartRead, ReadIsDue
  <2>2. CASE Ask(r)
    BY <1>s, <2>1, <2>2, ConnectSeen DEF Ask
  <2>3. CASE table # {} /\ Settle({r}, "cached") /\ UNCHANGED sampleVars
    BY <1>s, <2>1, <2>3, EndSeen DEF Calls!Whys
  <2>4. CASE Settle({r}, "cancelled") /\ UNCHANGED sampleVars
    BY <1>s, <2>1, <2>4, EndSeen DEF Calls!Whys
  <2> QED BY <1>2, <2>2, <2>3, <2>4 DEF StartRead
<1>3. ASSUME NEW r \in Reqs, CallWrite(r) PROVE Calls!Next
  <2>1. stage[r] = "new"
    BY <1>3 DEF CallWrite
  <2>2. CASE Ask(r)
    BY <1>s, <2>1, <2>2, MakeSeen
  <2>3. CASE Settle({r}, "cancelled") /\ UNCHANGED sampleVars
    <3>1. {q \in Reqs : stage'[q] # "new"} = {q \in Reqs : stage[q] # "new"} \cup {r}
      BY <2>3, WireConstants DEF Settle, SettleAndOpen
    <3>2. outcome' = [outcome EXCEPT ![r] = "cancelled"]
      BY <1>t, <2>3 DEF Settle, SettleAndOpen
    <3>3. Calls!Make(r)
      BY <1>s, <2>1, <2>3, <3>1, <3>2, SamplesStay DEF Calls!Make
    <3> QED BY <3>3 DEF Calls!Next
  <2> QED BY <1>3, <2>2, <2>3 DEF CallWrite
<1>4. ASSUME NEW r \in Reqs, Send(r) PROVE UNCHANGED Calls!vars
  BY <1>4, <1>s, <1>t, NotSeen, SamplesStay DEF Send, SendIsDue, SameMade
<1>5. ASSUME NEW r \in Reqs, IdleTimeout(r) \/ OpenTimeout(r) PROVE Calls!Next
  <2>1. /\ stage[r] \in {"opening", "pending"} /\ Settle({r}, "ws_timeout") /\ FlushAfter
        /\ "ws_timeout" \in Calls!Whys
    BY <1>5 DEF IdleTimeout, OpenTimeout, IdleTimerArmed, Calls!Whys
  <2> QED BY <1>s, <2>1, EndSeen DEF FlushAfter
<1>6. ASSUME NEW r \in Reqs, Abort(r) PROVE Calls!Next \/ UNCHANGED Calls!vars
  <2>1. CASE UNCHANGED <<callVars, sampleVars>>
    BY <1>s, <2>1, NotSeen, SamplesStay DEF callVars, SameMade
  <2>2. CASE /\ stage[r] \in {"opening", "pending"}
             /\ Settle({r}, "cancelled") /\ FlushAfter
    <3>1. "cancelled" \in Calls!Whys
      BY DEF Calls!Whys
    <3> QED BY <1>s, <2>2, <3>1, EndSeen DEF FlushAfter
  <2> QED BY <1>6, <2>1, <2>2 DEF Abort
<1>7. CASE OpenEvent \/ AnimationFrame
  <2>1. UNCHANGED callVars /\ (FlushApplyBuffer \/ UNCHANGED sampleVars)
    BY <1>7 DEF OpenEvent, AnimationFrame
  <2> QED BY <1>s, <2>1, NotSeen, SamplesStay DEF callVars, SameMade
<1>8. CASE ReconnectTimer \/ \E t \in Tokens : Login(t)
  BY <1>s, <1>8, WireConstants, ConnectSeen DEF ReconnectTimer, Login
<1> QED BY <1>1, <1>2, <1>3, <1>4, <1>5, <1>6, <1>7, <1>8, <1>s, AllSeen, LogoutSeen,
           MessageSeen DEF ClientNext

LEMMA SocketSeen ==
  ASSUME Sound, Busy, Called, Once, Told, SocketNext, UNCHANGED clientVars
  PROVE  Calls!Next \/ UNCHANGED Calls!vars
<1>s. UNCHANGED <<outcome, table, buffer, stage>> /\ SameMade
  BY DEF clientVars, callVars, sampleVars, SameMade
<1>1. ASSUME NEW c \in Conns, Perform(c) PROVE Calls!Next
  <2>1. PICK r \in Reqs : r = op[c]
    BY <1>1, TypesApart DEF Perform, Busy, Sound, SocketTypeOK
  <2>2. stage[r] # "new" /\ outcome[r] # "busy" /\ r \notin performed
    BY <1>1, <2>1 DEF Once, Told, Untouched, Running, Early, Perform
  <2>3. performed' = performed \cup {r}
    BY <1>1, <2>1 DEF Perform
  <2>4. Calls!Perform(r)
    BY <1>s, <2>2, <2>3 DEF Calls!Perform
  <2> QED BY <2>4 DEF Calls!Next
<1>2. CASE performed' = performed
  BY <1>s, <1>2, NotSeen
<1> QED BY <1>1, <1>2
        DEF SocketNext, Handshake, Loop, Supervise, Report, Forward, Finish, Hangup

LEMMA InitSeen == Init => Calls!Init
BY DEF Init, ClientInit, SocketInit, Calls!Init

LEMMA StepSeen ==
  Sound /\ Busy /\ Called /\ Once /\ Told /\ [Next]_vars => [Calls!Next]_(Calls!vars)
<1> SUFFICES ASSUME Sound, Busy, Called, Once, Told, [Next]_vars
             PROVE  Calls!Next \/ UNCHANGED Calls!vars
  OBVIOUS
<1>1. CASE UNCHANGED vars \/ \E c \in Conns : Lose(c)
  <2>1. UNCHANGED <<outcome, table, buffer, stage, performed>>
    BY <1>1 DEF vars, clientVars, socketVars, callVars, sampleVars, Lose
  <2> QED BY <2>1, NotSeen DEF SameMade
<1> QED BY <1>1, ClientSeen, SocketSeen DEF Next

\* What a page may rely on, whatever sockets, queues, timers and frames do.
THEOREM Implements == Spec => KeepsPromises
<1> QED BY InitSeen, StepSeen, AlwaysSound, AlwaysCalled, AlwaysOnce, AlwaysTold, PTL
        DEF Spec, KeepsPromises, Calls!Spec

-----------------------------------------------------------------------------
(* No value that its channel took is missing when a read resolves:         *)
(* for any requests, any tokens and any number of disturbances, its ack    *)
(* does not overtake its progress.                                         *)

Pends(r) == stage[r] = "pending"
Got(r) == r \in table \cup buffer
Shows(c, i, r) ==
  i \in DOMAIN down[c] /\ down[c][i].type = "progress" /\ down[c][i].id = r
Confirms(c, i, r) ==
  /\ i \in DOMAIN down[c] /\ down[c][i].type = "ack"
  /\ down[c][i].id = r /\ down[c][i].verdict = "ok"

\* A read that waits for its answer is the one shown, and only the daemon's end of
\* the socket that is open knows it.
Home(r) ==
  /\ owner = r /\ rs = "open"
  /\ \A c \in Conns : op[c] = r => c = sock
  /\ \A c \in Conns : \A i \in DOMAIN up[c] : Asks(c, i, r) => c = sock

\* What it has streamed has arrived, or is still coming unless the connection is lost.
Coming(r) ==
  r \in streamed =>
    \/ Got(r)
    \/ link[sock] = "open" => fwd[sock] = r \/ \E i \in DOMAIN down[sock] : Shows(sock, i, r)

\* Its ok is the last that is heard of it, and comes behind what it has streamed.
Ordered(r) ==
  \A i \in DOMAIN down[sock] : Confirms(sock, i, r) =>
    /\ ~Running(r) /\ ~Asked(r)
    /\ r \in streamed => Got(r) \/ \E j \in DOMAIN down[sock] : j < i /\ Shows(sock, j, r)

Way(r) == Home(r) /\ Coming(r) /\ Ordered(r)

Brought ==
  /\ \A c \in Conns : fwd[c] # NoReq => fwd[c] = op[c]
  /\ \A r \in Reads : Early(r) => r \notin streamed
  /\ \A r \in Reads \ Dumps : Pends(r) => Way(r)

LEMMA BroughtInit == Init => Brought
BY WireConstants DEF Init, SocketInit, ClientInit, Brought, Pends

-----------------------------------------------------------------------------
(* The tab.  While a read pends the socket stays, and what the tab has of  *)
(* its samples stays.                                                      *)

\* What a step of the tab keeps for a read that pends before and after it.
Stays(r) ==
  /\ UNCHANGED <<sock, rs, owner, link>>
  /\ Got(r) => Got(r)'
  /\ down' = down \/ Message

LEMMA FlushGot == ASSUME NEW r, FlushApplyBuffer \/ UNCHANGED sampleVars PROVE Got(r) => Got(r)'
BY DEF FlushApplyBuffer, sampleVars, Got

LEMMA StaysIn ==
  ASSUME Sound, NEW r \in Reads, Home(r), Pends(r), Pends(r)', NEW S, NEW why, NEW q,
         SettleAndOpen(S, why, q)
  PROVE  r \notin S /\ owner' = owner
BY WireConstants DEF SettleAndOpen, Home, Pends

\* A read that pends has nothing to do with a socket that is not open.
LEMMA ConnectStays ==
  ASSUME Sound, NEW r \in Reads, Home(r), Pends(r), Pends(r)', NEW t, NEW q, Connect(t, q)
  PROVE  Stays(r)
<1>1. r \in Waiting
  BY WireConstants DEF Pends, Waiting
<1>2. Reusable(t)
  BY <1>1, StaysIn DEF Connect
<1>3. SettleAndOpen({}, "none", q) /\ UNCHANGED <<link, down, sock, rs, timer, sampleVars>>
  BY <1>2 DEF Connect
<1> QED BY <1>3, StaysIn, FlushGot DEF Stays

LEMMA SettleStays ==
  ASSUME Sound, NEW r \in Reads, Home(r), Pends(r), Pends(r)', NEW S, NEW why, Settle(S, why),
         FlushApplyBuffer \/ UNCHANGED sampleVars, UNCHANGED <<sock, rs, link, down>>
  PROVE  Stays(r)
BY StaysIn, FlushGot DEF Stays, Settle

LEMMA ClientStays ==
  ASSUME Sound, Called, NEW r \in Reads, Home(r), Pends(r), Pends(r)', ClientNext
  PROVE  Stays(r)
<1>w. r \in Waiting /\ r \in Reqs
  BY WireConstants DEF Pends, Waiting
<1>g. UNCHANGED sampleVars => (Got(r) => Got(r)')
  BY FlushGot
<1>1. ASSUME NEW q \in Reqs, CallRead(q) PROVE Stays(r)
  BY <1>1, <1>g DEF CallRead, Stays, wireVars, connVars
<1>2. ASSUME NEW q \in Reqs, StartRead(q) \/ CallWrite(q) PROVE Stays(r)
  <2>1. CASE Ask(q)
    BY <2>1, ConnectStays DEF Ask
  <2>2. CASE /\ Settle({q}, "cached") \/ Settle({q}, "cancelled")
             /\ UNCHANGED <<link, down, connVars, sampleVars>>
    BY <2>2, SettleStays DEF connVars
  <2> QED BY <1>2, <2>1, <2>2 DEF StartRead, CallWrite
<1>3. ASSUME NEW q \in Reqs, Send(q) PROVE Stays(r)
  <2>1. q \in Reads => q = r
    BY <1>3, <1>w DEF Send, SendIsDue, Called, Lined, Pends
  <2>2. owner' = owner
    BY <1>3, <2>1 DEF Send, Shown, Home
  <2> QED BY <1>3, <1>g, <2>2 DEF Send, Stays, connVars
<1>4. ASSUME NEW q \in Reqs, IdleTimeout(q) \/ Abort(q) PROVE Stays(r)
  <2>1. CASE UNCHANGED <<callVars, sampleVars>>
    BY <1>4, <1>g, <2>1 DEF IdleTimeout, Abort, Stays, connVars, callVars
  <2>2. CASE (Settle({q}, "cancelled") \/ Settle({q}, "ws_timeout")) /\ FlushAfter
    BY <1>4, <2>2, SettleStays DEF IdleTimeout, Abort, connVars, FlushAfter
  <2> QED BY <1>4, <2>1, <2>2 DEF IdleTimeout, Abort
<1>5. CASE (\E q \in Reqs : OpenTimeout(q)) \/ OpenEvent
  BY <1>5 DEF OpenTimeout, OpenEvent, Home
<1>6. CASE ErrorEvent \/ CloseEvent \/ Logout
  <2>1. \A why : Settle(Waiting, why) => FALSE
    BY <1>w, StaysIn DEF Settle
  <2> QED BY <1>6, <2>1 DEF ErrorEvent, CloseEvent, Logout, FailAll
<1>7. CASE ReconnectTimer \/ \E t \in Tokens : Login(t)
  BY <1>7, ConnectStays DEF ReconnectTimer, Login
<1>8. CASE AnimationFrame
  BY <1>8, FlushGot DEF AnimationFrame, Stays, wireVars, connVars, callVars
<1>9. CASE Message
  <2>1. UNCHANGED <<sock, rs, link>>
    BY <1>9 DEF Message, connVars
  <2> DEFINE f == Head(down[sock])
  <2>2. CASE OnAck(f)
    <3> HIDE DEF f
    <3>1. CASE Settle({f.id}, f.verdict) /\ FlushApplyBuffer
      BY <1>9, <2>1, <3>1, FlushGot, StaysIn DEF Settle, Stays
    <3>2. CASE UNCHANGED <<callVars, sampleVars>>
      BY <1>9, <1>g, <2>1, <3>2 DEF Stays, callVars
    <3> QED BY <2>2, <3>1, <3>2 DEF OnAck
  <2>3. CASE /\ buffer' = IF Accepts(f.id) /\ f.id \notin Dumps THEN buffer \cup {f.id} ELSE buffer
             /\ UNCHANGED <<callVars, table>>
    BY <1>9, <2>1, <2>3 DEF Stays, Got, callVars
  <2> QED BY <1>9, <2>2, <2>3 DEF Message
<1> QED BY <1>1, <1>2, <1>3, <1>4, <1>5, <1>6, <1>7, <1>8, <1>9 DEF ClientNext

\* Only a request that starts to pend is sent.
LEMMA ClientAsks ==
  ASSUME Sound, ClientNext, NEW r \in Reads, Pends(r), NEW c \in Conns, NEW i \in DOMAIN up'[c],
         Asks(c, i, r)'
  PROVE  i \in DOMAIN up[c] /\ Asks(c, i, r)
<1>1. CASE up' = up
  BY <1>1 DEF Asks
<1>2. ASSUME NEW q \in Reqs, Send(q) PROVE i \in DOMAIN up[c] /\ Asks(c, i, r)
  <2>1. /\ Request(q) \in UpFrames /\ Request(q).id = q /\ up' = Sent(Request(q)) /\ q # r
    BY <1>2, FramesTyped DEF Request, Send, SendIsDue, Pends
  <2> HIDE DEF Request
  <2> QED BY <2>1, SentIs DEF Asks
<1>3. ASSUME NEW q \in Reqs, up' = Sent(CancelOf(q)) PROVE i \in DOMAIN up[c] /\ Asks(c, i, r)
  <2>1. CancelOf(q) \in UpFrames /\ CancelOf(q).type # "request"
    BY FramesTyped DEF CancelOf
  <2> HIDE DEF CancelOf
  <2> QED BY <1>3, <2>1, SentIs DEF Asks
<1>4. CASE OpenEvent
  BY <1>4, OpenEventUp DEF Asks
<1> QED BY <1>1, <1>2, <1>3, <1>4, ClientUp

\* The tab takes a frame, and keeps what it brings.
LEMMA MessageWay ==
  ASSUME Sound, NEW r \in Reads \ Dumps, Way(r), Pends(r), Pends(r)', Message, Stays(r),
         UNCHANGED socketVars, Running(r)' => Running(r), Asked(r)' => Asked(r)
  PROVE  Coming(r)' /\ Ordered(r)'
<1>1. /\ sock \in Conns /\ down[sock] \in Seq(DownFrames) /\ down[sock] # <<>>
      /\ down' = [down EXCEPT ![sock] = Tail(down[sock])] /\ DownTypes
  BY TypesApart DEF Message, Sound, ConnTypes, Dialed, DownTypes
<1>2. /\ sock' = sock /\ link' = link /\ fwd' = fwd /\ streamed' = streamed
      /\ Got(r) => Got(r)'
  BY DEF Stays, socketVars, opVars
<1>3. /\ down'[sock] = Tail(down[sock])
      /\ \A i \in DOMAIN down'[sock] :
           i + 1 \in DOMAIN down[sock] /\ down'[sock][i] = down[sock][i + 1]
  BY <1>1, TailIs DEF DownTypes
<1>4. \A i \in DOMAIN down[sock] : i # 1 =>
        i - 1 \in DOMAIN down'[sock] /\ down'[sock][i - 1] = down[sock][i]
  <2>1. /\ DOMAIN down[sock] = 1..Len(down[sock]) /\ Len(down[sock]) \in Nat
        /\ DOMAIN down'[sock] = 1..(Len(down[sock]) - 1)
    <3> DEFINE d == down[sock]
    <3>1. d \in Seq(DownFrames) /\ d # <<>> /\ down'[sock] = Tail(d)
      BY <1>1, <1>3
    <3> HIDE DEF d
    <3>2. Len(d) \in Nat /\ DOMAIN d = 1..Len(d) /\ DOMAIN Tail(d) = 1..(Len(d) - 1)
      BY <3>1
    <3> QED BY <3>1, <3>2 DEF d
  <2>2. \A i \in DOMAIN down[sock] : i # 1 => i - 1 \in DOMAIN down'[sock] /\ (i - 1) + 1 = i
    BY <2>1
  <2> QED BY <1>3, <2>2
<1>5. Shows(sock, 1, r) => Got(r)'
  <2>1. Head(down[sock]) = down[sock][1]
    BY <1>1, TailIs
  <2>2. ASSUME Shows(sock, 1, r) PROVE buffer' = buffer \cup {r}
    BY <2>1, <2>2 DEF Shows, Message, Accepts, Way, Home
  <2> QED BY <2>2 DEF Got
<1>6. \A i \in DOMAIN down[sock] : i # 1 /\ Shows(sock, i, r) =>
        i - 1 \in DOMAIN down'[sock] /\ Shows(sock, i - 1, r)'
  BY <1>2, <1>4 DEF Shows
<1>7. Coming(r)'
  BY <1>2, <1>5, <1>6 DEF Way, Coming
<1>8. Ordered(r)'
  <2> SUFFICES ASSUME NEW i \in DOMAIN down'[sock], Confirms(sock, i, r)'
               PROVE  /\ ~Running(r)' /\ ~Asked(r)'
                      /\ r \in streamed' => Got(r)' \/ \E j \in DOMAIN down'[sock] :
                                                         j < i /\ Shows(sock, j, r)'
    BY <1>2 DEF Ordered
  <2>1. i + 1 \in DOMAIN down[sock] /\ Confirms(sock, i + 1, r) /\ i \in Nat
    BY <1>1, <1>2, <1>3 DEF Confirms
  <2>2. /\ ~Running(r) /\ ~Asked(r)
        /\ r \in streamed => Got(r) \/ \E j \in DOMAIN down[sock] :
                                         j < i + 1 /\ Shows(sock, j, r)
    BY <2>1 DEF Way, Ordered
  <2>3. ASSUME NEW j \in DOMAIN down[sock], j < i + 1, Shows(sock, j, r), j # 1
        PROVE  \E k \in DOMAIN down'[sock] : k < i /\ Shows(sock, k, r)'
    <3>1. j - 1 \in DOMAIN down'[sock] /\ Shows(sock, j - 1, r)'
      BY <1>6, <2>3
    <3>2. j \in Nat /\ j - 1 < i
      BY <1>1, <2>1, <2>3
    <3> QED BY <3>1, <3>2
  <2> QED BY <1>2, <1>5, <2>2, <2>3
<1> QED BY <1>7, <1>8

\* A read that goes on pending.
LEMMA ClientWay ==
  ASSUME Sound, Called, NEW r \in Reads \ Dumps, Way(r), Pends(r), Pends(r)', ClientNext,
         UNCHANGED socketVars
  PROVE  Way(r)'
<1>1. Stays(r)
  BY ClientStays DEF Way
<1>2. op' = op /\ fwd' = fwd /\ streamed' = streamed
  BY DEF socketVars, opVars
<1>3. Running(r)' => Running(r)
  BY <1>2 DEF Running
<1>4. Asked(r)' => Asked(r)
  BY ClientAsks DEF Asked
<1>5. Home(r)'
  <2>1. \A c \in Conns : \A i \in DOMAIN up'[c] : Asks(c, i, r)' => c = sock
    BY ClientAsks DEF Way, Home
  <2> QED BY <1>1, <1>2, <2>1 DEF Way, Home, Stays
<1>6. Coming(r)' /\ Ordered(r)'
  <2>1. CASE down' = down
    BY <1>1, <1>2, <1>3, <1>4, <2>1 DEF Way, Coming, Ordered, Stays, Shows, Confirms
  <2>2. CASE Message
    BY <1>1, <1>3, <1>4, <2>2, MessageWay
  <2> QED BY <1>1, <2>1, <2>2 DEF Stays
<1> QED BY <1>5, <1>6 DEF Way

\* A read that starts to pend is new to the daemon.
LEMMA SendWay ==
  ASSUME Sound, Called, Once, Told, Brought, NEW r \in Reads, Send(r), UNCHANGED socketVars
  PROVE  Way(r)'
<1>1. /\ r \in Reqs /\ Early(r) /\ Untouched(r) /\ r \notin streamed
  BY WireConstants DEF Send, SendIsDue, Early, Once, Brought
<1>2. /\ op' = op /\ fwd' = fwd /\ streamed' = streamed /\ down' = down /\ sock' = sock
      /\ rs' = rs /\ rs = "open" /\ owner' = r /\ up' = Sent(Request(r))
  BY DEF Send, SendIsDue, Shown, socketVars, opVars, connVars
<1>3. \A c \in Conns : \A i \in DOMAIN up[c] : ~Asks(c, i, r)
  BY <1>1 DEF Untouched, Asked
<1>4. \A c \in Conns : \A i \in DOMAIN up'[c] : Asks(c, i, r)' => c = sock
  BY <1>2, <1>3 DEF Sent, Asks, Sound, TypeOK, WireTypeOK
<1>5. sock \in Conns
  BY <1>2, TypesApart DEF Sound, ConnTypes, Dialed
<1>6. \A i \in DOMAIN down[sock] : ~Confirms(sock, i, r)
  BY <1>1, <1>5 DEF Told, AckOk, Confirms
<1>7. Home(r)'
  BY <1>1, <1>2, <1>4 DEF Home, Untouched, Running
<1>8. Coming(r)'
  BY <1>1, <1>2 DEF Coming
<1>9. Ordered(r)'
  BY <1>2, <1>6 DEF Ordered, Confirms
<1> QED BY <1>7, <1>8, <1>9 DEF Way

LEMMA StartsPending ==
  ASSUME Sound, Called, ClientNext, NEW r \in Reads, Pends(r)', ~Pends(r)
  PROVE  Send(r)
<1>r. r \in Reqs
  BY WireConstants
<1>1. CASE stage' = stage
  BY <1>1 DEF Pends
<1>2. ASSUME NEW S, NEW why, NEW q, SettleAndOpen(S, why, q) PROVE FALSE
  BY <1>r, <1>2 DEF SettleAndOpen, Pends
<1>3. ASSUME NEW t, NEW q, Connect(t, q) PROVE FALSE
  BY <1>2, <1>3 DEF Connect
<1>4. ASSUME NEW q \in Reqs, CallRead(q) PROVE FALSE
  BY <1>r, <1>4, TypesApart DEF CallRead, Pends, Sound, CallTypes
<1>5. ASSUME NEW q \in Reqs, StartRead(q) \/ CallWrite(q) PROVE FALSE
  BY <1>2, <1>3, <1>5 DEF StartRead, CallWrite, Ask, Settle
<1>6. ASSUME NEW q \in Reqs, Send(q) PROVE Send(r)
  BY <1>r, <1>6, TypesApart DEF Send, Pends, Sound, CallTypes
<1>7. ASSUME NEW q \in Reqs, IdleTimeout(q) \/ OpenTimeout(q) \/ Abort(q) PROVE FALSE
  <2>1. stage' = stage \/ Settle({q}, "cancelled") \/ Settle({q}, "ws_timeout")
    BY <1>7 DEF IdleTimeout, OpenTimeout, Abort, callVars
  <2> QED BY <1>2, <2>1 DEF Settle, Pends
<1>8. CASE ErrorEvent \/ CloseEvent \/ Logout
  BY <1>2, <1>8 DEF ErrorEvent, CloseEvent, Logout, FailAll, Settle
<1>9. CASE ReconnectTimer \/ \E t \in Tokens : Login(t)
  BY <1>3, <1>9 DEF ReconnectTimer, Login
<1>10. CASE OpenEvent \/ AnimationFrame \/ Message
  BY <1>1, <1>2, <1>10 DEF OpenEvent, AnimationFrame, Message, OnAck, Settle, callVars
<1> QED BY <1>4, <1>5, <1>6, <1>7, <1>8, <1>9, <1>10 DEF ClientNext

-----------------------------------------------------------------------------
(* The daemon.  Frames for the tab are added at the end.                   *)

Grows(g) ==
  \A c \in Conns :
    /\ \A i \in DOMAIN down[c] : i \in DOMAIN down'[c] /\ down'[c][i] = down[c][i]
    /\ \A i \in DOMAIN down'[c] : i \in DOMAIN down[c] \/ down'[c][i] = g

LEMMA ReplyGrows ==
  ASSUME Sound, NEW c \in Conns, NEW g \in DownFrames, Reply(c, g)
  PROVE  /\ Grows(g)
         /\ link[c] = "open" =>
              /\ Len(down[c]) + 1 \in DOMAIN down'[c] /\ down'[c][Len(down[c]) + 1] = g
              /\ \A i \in DOMAIN down[c] : i < Len(down[c]) + 1
              /\ \A i \in DOMAIN down'[c] : i \in DOMAIN down[c] \/ i = Len(down[c]) + 1
         /\ link[c] # "open" => down' = down
<1>1. down \in [Conns -> Seq(DownFrames)]
  BY TypesApart DEF Sound, DownTypes
<1>2. CASE link[c] = "open"
  <2>1. /\ down[c] \in Seq(DownFrames) /\ down'[c] = Append(down[c], g)
        /\ \A d \in Conns \ {c} : down'[d] = down[d]
    BY <1>1, <1>2 DEF Reply
  <2>2. /\ DOMAIN down'[c] = 1..(Len(down[c]) + 1) /\ DOMAIN down[c] = 1..Len(down[c])
        /\ Len(down[c]) \in Nat /\ down'[c][Len(down[c]) + 1] = g
        /\ \A i \in DOMAIN down[c] : down'[c][i] = down[c][i]
    BY <2>1
  <2>3. /\ Len(down[c]) + 1 \in DOMAIN down'[c]
        /\ \A i \in DOMAIN down[c] : i \in DOMAIN down'[c] /\ i < Len(down[c]) + 1
        /\ \A i \in DOMAIN down'[c] : i \in DOMAIN down[c] \/ i = Len(down[c]) + 1
    BY <2>2
  <2> QED BY <1>2, <2>1, <2>2, <2>3 DEF Grows
<1>3. CASE link[c] # "open"
  BY <1>3 DEF Reply, Grows
<1> QED BY <1>2, <1>3

\* What stays of a read that pends when the daemon takes a step.
Same(r) ==
  /\ UNCHANGED <<sock, rs, owner, link, buffer, table>>
  /\ sock \in Conns

LEMMA GrowsComing ==
  ASSUME NEW r \in Reads, Coming(r), Same(r), NEW g, Grows(g),
         r \in streamed' => r \in streamed, fwd[sock] = r => fwd'[sock] = r
  PROVE  Coming(r)'
BY DEF Coming, Same, Grows, Shows, Got

LEMMA GrowsOrdered ==
  ASSUME NEW r \in Reads, Ordered(r), Same(r), NEW g, Grows(g),
         g.type = "ack" => ~(g.id = r /\ g.verdict = "ok"),
         r \in streamed' => r \in streamed,
         Running(r)' \/ Asked(r)' => Running(r) \/ Asked(r)
  PROVE  Ordered(r)'
<1> SUFFICES ASSUME NEW i \in DOMAIN down'[sock], Confirms(sock, i, r)'
             PROVE  /\ ~Running(r)' /\ ~Asked(r)'
                    /\ r \in streamed' => Got(r)' \/ \E j \in DOMAIN down'[sock] :
                                                       j < i /\ Shows(sock, j, r)'
  BY DEF Ordered, Same
<1>1. i \in DOMAIN down[sock] /\ Confirms(sock, i, r)
  BY DEF Grows, Same, Confirms
<1>2. /\ ~Running(r) /\ ~Asked(r)
      /\ r \in streamed => Got(r) \/ \E j \in DOMAIN down[sock] : j < i /\ Shows(sock, j, r)
  BY <1>1 DEF Ordered
<1>3. \A j \in DOMAIN down[sock] : Shows(sock, j, r) =>
        j \in DOMAIN down'[sock] /\ Shows(sock, j, r)'
  BY DEF Grows, Same, Shows
<1> QED BY <1>2, <1>3 DEF Same, Got

\* The daemon takes a frame, and perhaps refuses or starts what it asks for.
LEMMA TakesWay ==
  ASSUME Sound, NEW r \in Reads, Way(r), Same(r), NEW c \in Conns, NEW f \in UpFrames,
         Takes(c, f), op' = op \/ (f.type = "request" /\ op' = [op EXCEPT ![c] = f.id]),
         fwd' = fwd, streamed' = streamed,
         NEW g, Grows(g), g.type = "ack" => ~(g.id = r /\ g.verdict = "ok")
  PROVE  Way(r)'
<1>1. /\ up[c] \in Seq(UpFrames) /\ up[c] # <<>> /\ f = Head(up[c])
      /\ up'[c] = Tail(up[c]) /\ \A d \in Conns \ {c} : up'[d] = up[d]
  BY UpIs, TypesApart DEF Sound, UpTypes, Takes
<1>2. /\ 1 \in DOMAIN up[c] /\ up[c][1] = f
      /\ \A i \in DOMAIN up'[c] : i + 1 \in DOMAIN up[c] /\ up'[c][i] = up[c][i + 1]
  BY <1>1, TailIs
<1>3. \A d \in Conns : \A i \in DOMAIN up'[d] : Asks(d, i, r)' =>
        \E j \in DOMAIN up[d] : Asks(d, j, r)
  <2> SUFFICES ASSUME NEW d \in Conns, NEW i \in DOMAIN up'[d], Asks(d, i, r)'
               PROVE  \E j \in DOMAIN up[d] : Asks(d, j, r)
    OBVIOUS
  <2>1. CASE d = c
    <3>1. i + 1 \in DOMAIN up[c] /\ Asks(c, i + 1, r)
      BY <1>2, <2>1 DEF Asks
    <3> QED BY <2>1, <3>1
  <2>2. CASE d # c
    BY <1>1, <2>2 DEF Asks
  <2> QED BY <2>1, <2>2
<1>4. f.type = "request" /\ f.id = r => Asks(c, 1, r)
  BY <1>2 DEF Asks
<1>5. \A d \in Conns : op'[d] = op[d] \/ (d = c /\ f.type = "request" /\ op'[d] = f.id)
  BY TypesApart DEF Sound, SocketTypeOK
<1>6. Home(r)'
  <2>1. \A d \in Conns : op'[d] = r => d = sock
    BY <1>2, <1>4, <1>5 DEF Way, Home
  <2>2. \A d \in Conns : \A i \in DOMAIN up'[d] : Asks(d, i, r)' => d = sock
    BY <1>3 DEF Way, Home
  <2> QED BY <2>1, <2>2 DEF Way, Home, Same
<1>7. Running(r)' \/ Asked(r)' => Running(r) \/ Asked(r)
  BY <1>2, <1>3, <1>4, <1>5 DEF Running, Asked
<1> QED BY <1>6, <1>7, GrowsComing, GrowsOrdered DEF Way

LEMMA SocketWay ==
  ASSUME Sound, Busy, Called, Once, Told, Brought, SocketNext, UNCHANGED clientVars,
         NEW r \in Reads \ Dumps, Pends(r)
  PROVE  Way(r)'
<1> PICK c \in Conns :
      \/ Handshake(c) \/ Loop(c) \/ Supervise(c) \/ Report(c)
      \/ Forward(c) \/ Perform(c) \/ Finish(c) \/ Hangup(c)
  BY DEF SocketNext
<1>w. Way(r) /\ r \in Reqs /\ r # NoReq
  BY WireConstants DEF Brought
<1>t. SocketTypeOK
  BY TypesApart DEF Sound
<1>s. Same(r)
  <2>1. UNCHANGED <<sock, rs, owner, buffer, table>>
    BY DEF clientVars, connVars, callVars, sampleVars
  <2>2. link' = link
    BY DEF Handshake, Loop, Supervise, Report, Forward, Perform, Finish, Hangup, Takes, wireVars
  <2>3. sock \in Conns
    BY <1>w, TypesApart DEF Way, Home, Sound, ConnTypes, Dialed
  <2> QED BY <2>1, <2>2, <2>3 DEF Same
<1>g. down' = down => Grows(ProgressOf(r)) /\ ProgressOf(r).type = "progress"
  BY DEF Grows, ProgressOf
<1>1. CASE Handshake(c) \/ Loop(c) \/ Supervise(c)
  <2>1. PICK f \in UpFrames :
          /\ Takes(c, f)
          /\ op' = op \/ (f.type = "request" /\ op' = [op EXCEPT ![c] = f.id])
          /\ \/ UNCHANGED down
             \/ f.type = "cancel" /\ Reply(c, Ack(f.id, "ok"))
             \/ f.type = "request" /\ Reply(c, Ack(f.id, "busy"))
    BY <1>1 DEF Handshake, Loop, Supervise, opVars, Refusal
  <2>2. fwd' = fwd /\ streamed' = streamed
    BY <1>1 DEF Handshake, Loop, Supervise, opVars
  <2>3. CASE UNCHANGED down
    <3> HIDE DEF ProgressOf
    <3> QED BY <1>w, <1>s, <1>g, <2>1, <2>2, <2>3, TakesWay
  <2>4. CASE f.type = "cancel" /\ Reply(c, Ack(f.id, "ok"))
    <3>1. f.id \in Reqs /\ f.id # r
      BY <2>1, <2>4, TakesHead DEF UpFrames, Pends
    <3>2. /\ Ack(f.id, "ok") \in DownFrames /\ Ack(f.id, "ok").id # r
      BY <3>1, FramesTyped DEF Ack, Verdicts
    <3> HIDE DEF Ack
    <3>3. Grows(Ack(f.id, "ok"))
      BY <2>4, <3>2, ReplyGrows
    <3> QED BY <1>w, <1>s, <2>1, <2>2, <3>2, <3>3, TakesWay
  <2>5. CASE f.type = "request" /\ Reply(c, Ack(f.id, "busy"))
    <3>1. f.id \in Reqs
      BY <2>5 DEF UpFrames
    <3>2. /\ Ack(f.id, "busy") \in DownFrames /\ Ack(f.id, "busy").verdict # "ok"
      BY <3>1, FramesTyped DEF Ack, Verdicts
    <3> HIDE DEF Ack
    <3>3. Grows(Ack(f.id, "busy"))
      BY <2>5, <3>2, ReplyGrows
    <3> QED BY <1>w, <1>s, <2>1, <2>2, <3>2, <3>3, TakesWay
  <2> QED BY <2>1, <2>3, <2>4, <2>5
<1>a. up' = up => (Asked(r)' => Asked(r))
  BY DEF Asked, Asks
<1>h. ASSUME up' = up, \A d \in Conns : op'[d] \in {op[d], NoReq}
      PROVE  Home(r)' /\ (Running(r)' \/ Asked(r)' => Running(r) \/ Asked(r))
  <2>1. Home(r)'
    BY <1>w, <1>s, <1>h DEF Way, Home, Same, Asks
  <2>2. Running(r)' => Running(r)
    BY <1>w, <1>h DEF Running
  <2> QED BY <1>a, <1>h, <2>1, <2>2
<1>2. CASE Report(c)
  <2>1. /\ up' = up /\ down' = down /\ op' = op /\ streamed' = streamed \cup {op[c]}
        /\ fwd'[c] = op[c] /\ \A d \in Conns \ {c} : fwd'[d] = fwd[d]
    BY <1>t, <1>2 DEF Report, wireVars, SocketTypeOK
  <2>2. Home(r)' /\ (Running(r)' \/ Asked(r)' => Running(r) \/ Asked(r))
    BY <1>h, <2>1
  <2>3. CASE op[c] = r
    <3>1. c = sock /\ Running(r)
      BY <1>w, <2>3 DEF Way, Home, Running
    <3>2. Coming(r)'
      BY <1>s, <2>1, <2>3, <3>1 DEF Coming, Same
    <3>3. Ordered(r)'
      BY <1>w, <1>s, <2>1, <3>1 DEF Way, Ordered, Same, Confirms
    <3> QED BY <2>2, <3>2, <3>3 DEF Way
  <2>4. CASE op[c] # r
    <3>1. fwd[sock] = r => fwd'[sock] = r
      BY <1>w, <1>s, <2>1, <2>4 DEF Brought, Same
    <3>2. r \in streamed' => r \in streamed
      BY <2>1, <2>4
    <3> HIDE DEF ProgressOf
    <3> QED BY <1>w, <1>s, <1>g, <2>1, <2>2, <3>1, <3>2, GrowsComing, GrowsOrdered DEF Way
  <2> QED BY <2>3, <2>4
<1>3. CASE Forward(c)
  <2>1. PICK q \in Reqs : q = fwd[c]
    BY <1>3, <1>t, WireConstants DEF Forward, SocketTypeOK
  <2>2. /\ ProgressOf(q) \in DownFrames /\ ProgressOf(q).type = "progress"
        /\ ProgressOf(q).id = q
    BY FramesTyped DEF ProgressOf
  <2>3. /\ up' = up /\ op' = op /\ streamed' = streamed /\ Reply(c, ProgressOf(q))
        /\ \A d \in Conns \ {c} : fwd'[d] = fwd[d]
    BY <1>3, <1>t, <2>1 DEF Forward, SocketTypeOK
  <2> HIDE DEF ProgressOf
  <2>4. Grows(ProgressOf(q))
    BY <2>2, <2>3, ReplyGrows
  <2>5. Home(r)' /\ Ordered(r)'
    <3>1. Home(r)' /\ (Running(r)' \/ Asked(r)' => Running(r) \/ Asked(r))
      BY <1>h, <2>3
    <3> QED BY <1>w, <1>s, <2>2, <2>3, <2>4, <3>1, GrowsOrdered DEF Way
  <2>6. Coming(r)'
    <3>1. CASE c = sock /\ q = r
      <4>1. link[sock] = "open" => \E i \in DOMAIN down'[sock] : Shows(sock, i, r)'
        BY <1>s, <2>2, <2>3, <3>1, ReplyGrows DEF Same, Shows
      <4> QED BY <1>s, <4>1 DEF Coming, Same
    <3>2. CASE ~(c = sock /\ q = r)
      <4>1. fwd[sock] = r => fwd'[sock] = r
        BY <1>s, <2>1, <2>3, <3>2 DEF Same
      <4> QED BY <1>w, <1>s, <2>3, <2>4, <4>1, GrowsComing DEF Way
    <3> QED BY <3>1, <3>2
  <2> QED BY <2>5, <2>6 DEF Way
<1>4. CASE Perform(c)
  <2>1. up' = up /\ down' = down /\ op' = op /\ fwd' = fwd /\ streamed' = streamed
    BY <1>4 DEF Perform, wireVars, opVars
  <2>2. Home(r)' /\ (Running(r)' \/ Asked(r)' => Running(r) \/ Asked(r))
    BY <1>h, <2>1
  <2> HIDE DEF ProgressOf
  <2> QED BY <1>w, <1>s, <1>g, <2>1, <2>2, GrowsComing, GrowsOrdered DEF Way
<1>5. CASE Finish(c)
  <2>1. PICK q \in Reqs : q = op[c]
    BY <1>5, <1>t DEF Finish, Busy, SocketTypeOK
  <2>2. PICK v \in {"ok", "failed"} : Reply(c, Ack(q, v))
    BY <1>5, <2>1 DEF Finish
  <2>3. /\ Ack(q, v) \in DownFrames /\ Ack(q, v).id = q /\ Ack(q, v).verdict = v
        /\ Ack(q, v).type = "ack"
    BY FramesTyped DEF Verdicts, Ack
  <2>4. /\ up' = up /\ fwd' = fwd /\ streamed' = streamed /\ fwd[c] = NoReq
        /\ op'[c] = NoReq /\ \A d \in Conns \ {c} : op'[d] = op[d]
    BY <1>5, <1>t DEF Finish, ForwarderDone, SocketTypeOK
  <2> HIDE DEF Ack
  <2>5. Grows(Ack(q, v))
    BY <2>2, <2>3, ReplyGrows
  <2>6. Home(r)' /\ (Running(r)' \/ Asked(r)' => Running(r) \/ Asked(r))
    BY <1>h, <2>4
  <2>7. Coming(r)'
    BY <1>w, <1>s, <2>4, <2>5, GrowsComing DEF Way
  <2>8. CASE q # r
    BY <1>w, <1>s, <2>3, <2>4, <2>5, <2>6, <2>7, <2>8, GrowsOrdered DEF Way
  <2>9. CASE q = r
    <3>1. c = sock /\ Running(r) /\ ~Asked(r)
      BY <1>w, <2>1, <2>9 DEF Way, Home, Running, Once
    <3>2. ~Running(r)' /\ ~Asked(r)'
      <4>1. \A d \in Conns : op'[d] # r
        BY <1>w, <2>1, <2>4, <2>9 DEF Once
      <4> QED BY <1>a, <2>4, <3>1, <4>1 DEF Running
    <3>3. CASE link[sock] # "open"
      <4>1. down' = down
        BY <2>2, <2>3, <3>1, <3>3, ReplyGrows
      <4> QED BY <1>w, <1>s, <2>6, <2>7, <3>1, <4>1 DEF Way, Ordered, Same, Confirms
    <3>4. CASE link[sock] = "open"
      <4>1. r \in streamed => Got(r) \/ \E j \in DOMAIN down[sock] : Shows(sock, j, r)
        BY <1>w, <2>4, <3>1, <3>4 DEF Way, Coming
      <4>2. \A j \in DOMAIN down[sock] : Shows(sock, j, r) =>
              j \in DOMAIN down'[sock] /\ Shows(sock, j, r)' /\ j < Len(down[sock]) + 1
        BY <1>s, <2>2, <2>3, <2>5, <3>1, <3>4, ReplyGrows DEF Grows, Shows, Same
      <4>3. \A i \in DOMAIN down'[sock] : Confirms(sock, i, r)' => i = Len(down[sock]) + 1
        <5>1. \A i \in DOMAIN down[sock] : ~Confirms(sock, i, r)
          BY <1>w, <3>1 DEF Way, Ordered
        <5>2. \A i \in DOMAIN down[sock] : down'[sock][i] = down[sock][i]
          BY <1>s, <2>5 DEF Grows, Same
        <5>3. \A i \in DOMAIN down'[sock] : i \in DOMAIN down[sock] \/ i = Len(down[sock]) + 1
          BY <2>2, <2>3, <3>1, <3>4, ReplyGrows
        <5> QED BY <1>s, <5>1, <5>2, <5>3 DEF Confirms, Same
      <4>4. Got(r) => Got(r)'
        BY <1>s DEF Same, Got
      <4>5. Ordered(r)'
        BY <1>s, <2>4, <3>2, <4>1, <4>2, <4>3, <4>4 DEF Ordered, Same
      <4> QED BY <2>6, <2>7, <4>5 DEF Way
    <3> QED BY <3>3, <3>4
  <2> QED BY <2>8, <2>9
<1>6. CASE Hangup(c)
  <2>1. /\ up' = up /\ down' = down /\ streamed' = streamed /\ link[c] = "closed"
        /\ op'[c] = NoReq /\ \A d \in Conns \ {c} : op'[d] = op[d] /\ fwd'[d] = fwd[d]
    BY <1>6, <1>t DEF Hangup, wireVars, SocketTypeOK
  <2>2. Home(r)' /\ (Running(r)' \/ Asked(r)' => Running(r) \/ Asked(r))
    BY <1>h, <2>1
  <2>3. Coming(r)'
    BY <1>w, <1>s, <2>1 DEF Way, Coming, Same, Shows, Got
  <2> HIDE DEF ProgressOf
  <2> QED BY <1>w, <1>s, <1>g, <2>1, <2>2, <2>3, GrowsOrdered DEF Way
<1> QED BY <1>1, <1>2, <1>3, <1>4, <1>5, <1>6

\* A connection that is lost takes all its frames with it.
LEMMA LoseWay ==
  ASSUME Sound, NEW r \in Reads, Way(r), NEW c \in Conns, Lose(c)
  PROVE  Way(r)'
<1>1. UNCHANGED <<sock, rs, owner, buffer, table, op, fwd, streamed>>
  BY DEF Lose, connVars, callVars, sampleVars, socketVars, opVars
<1>2. /\ link'[c] = "closed" /\ down'[c] = <<>>
      /\ \A d \in Conns \ {c} : link'[d] = link[d] /\ down'[d] = down[d]
      /\ \A d \in Conns : up'[d] = up[d] \/ up'[d] = <<>>
  BY TypesApart DEF Lose, Sound, LinkTypes, UpTypes, DownTypes
<1>3. sock \in Conns
  BY TypesApart DEF Way, Home, Sound, ConnTypes, Dialed
<1>4. \A d \in Conns : \A i \in DOMAIN up'[d] :
        Asks(d, i, r)' => i \in DOMAIN up[d] /\ Asks(d, i, r)
  BY <1>2 DEF Asks
<1>5. ~Asked(r) => ~Asked(r)'
  BY <1>4 DEF Asked
<1>6. Home(r)'
  BY <1>1, <1>4 DEF Way, Home
<1>7. Coming(r)'
  BY <1>1, <1>2, <1>3 DEF Way, Coming, Shows, Got
<1>8. Ordered(r)'
  BY <1>1, <1>2, <1>3, <1>5 DEF Way, Ordered, Shows, Confirms, Got, Running
<1> QED BY <1>6, <1>7, <1>8 DEF Way

LEMMA SameWay ==
  ASSUME NEW r, Way(r), UNCHANGED vars
  PROVE  Way(r)'
BY DEF Way, Home, Coming, Ordered, Shows, Confirms, Got, Asks, Asked, Running, vars, wireVars,
       clientVars, connVars, callVars, sampleVars, socketVars, opVars

LEMMA BroughtStep ==
  Sound /\ Busy /\ Called /\ Once /\ Told /\ Brought /\ [Next]_vars => Brought'
<1> SUFFICES ASSUME Sound, Busy, Called, Once, Told, Brought, [Next]_vars PROVE Brought'
  OBVIOUS
<1>t. SocketTypeOK /\ Reads \subseteq Reqs
  BY TypesApart, WireConstants DEF Sound
<1>1. \A c \in Conns : fwd'[c] # NoReq => fwd'[c] = op'[c]
  <2>1. CASE UNCHANGED <<op, fwd>>
    BY <2>1 DEF Brought
  <2>2. ASSUME NEW c \in Conns, Loop(c) PROVE \A d \in Conns : fwd'[d] # NoReq => fwd'[d] = op'[d]
    <3>1. op[c] = NoReq
      BY <2>2 DEF Loop, Busy
    <3>2. fwd' = fwd /\ \A d \in Conns \ {c} : op'[d] = op[d]
      BY <1>t, <2>2 DEF Loop, SocketTypeOK, opVars
    <3> QED BY <3>1, <3>2 DEF Brought
  <2>3. ASSUME NEW c \in Conns, Report(c) \/ Forward(c) \/ Finish(c) \/ Hangup(c)
        PROVE  \A d \in Conns : fwd'[d] # NoReq => fwd'[d] = op'[d]
    BY <1>t, <2>3
       DEF Report, Forward, Finish, Hangup, ForwarderDone, Brought, SocketTypeOK
  <2>4. ASSUME NEW c \in Conns, Handshake(c) \/ Supervise(c) \/ Perform(c) \/ Lose(c)
        PROVE  UNCHANGED <<op, fwd>>
    BY <2>4 DEF Handshake, Supervise, Perform, Lose, socketVars, opVars
  <2>5. UNCHANGED vars \/ UNCHANGED socketVars => UNCHANGED <<op, fwd>>
    BY DEF vars, socketVars, opVars
  <2> QED BY <2>1, <2>2, <2>3, <2>4, <2>5 DEF Next, SocketNext
<1>2. \A r \in Reads : Early(r)' => r \notin streamed'
  <2>1. Ages
    BY AgesStep
  <2>2. ASSUME NEW c \in Conns, Report(c) PROVE \A r \in Reads : Early(r) => r \notin streamed'
    BY <1>t, <2>2 DEF Report, Brought, Once, Untouched, Running
  <2>3. streamed' = streamed \/ \E c \in Conns : Report(c)
    BY DEF Next, SocketNext, Handshake, Loop, Supervise, Forward, Perform, Finish, Hangup, Lose,
           vars, socketVars
  <2> QED BY <1>t, <2>1, <2>2, <2>3 DEF Ages, Brought
<1>3. ASSUME NEW r \in Reads \ Dumps, Pends(r)' PROVE Way(r)'
  <2>1. CASE ClientNext /\ UNCHANGED socketVars
    BY <1>3, <2>1, ClientWay, SendWay, StartsPending DEF Brought
  <2>2. CASE ~ClientNext \/ ~UNCHANGED socketVars
    <3>1. stage' = stage
      BY <2>2 DEF Next, Lose, vars, clientVars, callVars
    <3>2. Pends(r) /\ Way(r)
      BY <1>3, <3>1 DEF Pends, Brought
    <3> QED BY <2>2, <3>2, SocketWay, LoseWay, SameWay DEF Next
  <2> QED BY <2>1, <2>2
<1> QED BY <1>1, <1>2, <1>3 DEF Brought

LEMMA AlwaysBrought == Spec => []Brought
BY BroughtInit, BroughtStep, AlwaysSound, AlwaysCalled, AlwaysOnce, AlwaysTold, PTL DEF Spec

-----------------------------------------------------------------------------
(* A read resolves by an ack.                                              *)

OldOk(r) == outcome'[r] = "ok" => outcome[r] = "ok"

LEMMA SettleOk ==
  ASSUME NEW r \in Reads, NEW S, NEW why, NEW q, SettleAndOpen(S, why, q), why # "ok"
  PROVE  OldOk(r)
BY WireConstants DEF SettleAndOpen, OldOk

LEMMA ClientOk == ASSUME ClientNext, NEW r \in Reads, ~Message PROVE OldOk(r)
<1>1. CASE outcome' = outcome
  BY <1>1 DEF OldOk
<1>2. ASSUME NEW S, NEW why \in Outcomes \ {"ok"}, Settle(S, why) PROVE OldOk(r)
  BY <1>2, SettleOk DEF Settle
<1>3. ASSUME NEW t, NEW q, Connect(t, q) PROVE OldOk(r)
  BY <1>3, SettleOk DEF Connect
<1>4. ASSUME NEW q \in Reqs, StartRead(q) \/ CallWrite(q) PROVE OldOk(r)
  BY <1>2, <1>3, <1>4 DEF StartRead, CallWrite, Ask, Outcomes
<1>5. ASSUME NEW q \in Reqs, CallRead(q) \/ Send(q) PROVE OldOk(r)
  BY <1>1, <1>5 DEF CallRead, Send
<1>6. ASSUME NEW q \in Reqs, IdleTimeout(q) \/ OpenTimeout(q) \/ Abort(q) PROVE OldOk(r)
  BY <1>1, <1>2, <1>6 DEF IdleTimeout, OpenTimeout, Abort, Outcomes, callVars
<1>7. CASE ErrorEvent \/ CloseEvent \/ Logout
  BY <1>2, <1>7 DEF ErrorEvent, CloseEvent, Logout, FailAll, Outcomes
<1>8. CASE ReconnectTimer \/ \E t \in Tokens : Login(t)
  BY <1>3, <1>8 DEF ReconnectTimer, Login
<1>9. CASE OpenEvent \/ AnimationFrame
  BY <1>1, <1>9 DEF OpenEvent, AnimationFrame, callVars
<1> QED BY <1>4, <1>5, <1>6, <1>7, <1>8, <1>9 DEF ClientNext

LEMMA OkBrings ==
  ASSUME Sound, Brought, Message, NEW r \in Reads \ Dumps, outcome'[r] = "ok", outcome[r] # "ok",
         r \in streamed
  PROVE  r \in table'
<1>1. /\ sock \in Conns /\ down[sock] \in Seq(DownFrames) /\ down[sock] # <<>>
  BY TypesApart DEF Message, Sound, ConnTypes, Dialed, DownTypes
<1> DEFINE f == Head(down[sock])
<1>2. f = down[sock][1] /\ 1 \in DOMAIN down[sock]
  BY <1>1, TailIs
<1>3. f.type = "ack" /\ OnAck(f)
  BY DEF Message, callVars
<1> HIDE DEF f
<1>4. Awaits(f.id) /\ SettleAndOpen({f.id}, f.verdict, NoReq) /\ FlushApplyBuffer
  BY <1>3 DEF OnAck, callVars, Settle
<1>5. r = f.id /\ f.verdict = "ok"
  BY <1>4, WireConstants DEF SettleAndOpen
<1>6. Confirms(sock, 1, r) /\ Pends(r)
  BY <1>2, <1>3, <1>4, <1>5 DEF Confirms, Awaits, Pends
<1>7. Got(r) \/ \E j \in DOMAIN down[sock] : j < 1
  BY <1>2, <1>6 DEF Brought, Way, Ordered
<1>8. Got(r)
  BY <1>1, <1>7
<1> QED BY <1>4, <1>8 DEF Got, FlushApplyBuffer

\* When a read resolves, every value that its channel took is in the CV table.
THEOREM SamplesArrive == Spec => OkSamplesInTable
<1> DEFINE Step == \A r \in Reads \ Dumps :
                     outcome'[r] = "ok" /\ outcome[r] # "ok" /\ r \in streamed => r \in table'
<1>1. ASSUME Sound, Brought, [Next]_vars PROVE [Step]_vars
  <2> SUFFICES ASSUME NEW r \in Reads \ Dumps, outcome'[r] = "ok", outcome[r] # "ok", r \in streamed
               PROVE  r \in table'
    OBVIOUS
  <2>1. CASE ClientNext
    BY <1>1, <2>1, ClientOk, OkBrings DEF OldOk
  <2>2. CASE ~ClientNext
    BY <1>1, <2>2 DEF Next, Lose, vars, clientVars, callVars
  <2> QED BY <2>1, <2>2
<1> HIDE DEF Step
<1>2. Spec => [][Step]_vars
  BY <1>1, AlwaysSound, AlwaysBrought, PTL DEF Spec
<1> QED BY <1>2 DEF Step, OkSamplesInTable

=============================================================================
