------------------------- MODULE CvRegistryBaseline -------------------------
(***************************************************************************)
(* The baseline of the CV tables is what the locomotive of the URL has,    *)
(* but for what is in doubt, after any number of edits, reads on either    *)
(* track, applies that fail in part, moves to other addresses, changes of  *)
(* scope, cancels and reloads, provided that no two locomotives had the    *)
(* same address at first.                                                  *)
(*                                                                         *)
(* The parts of the invariant are operators on m = mem, p = prog,          *)
(* d = doubt, q = ops and on one store, so that a step is the same         *)
(* operator on other arguments.                                            *)
(***************************************************************************)
EXTENDS CvRegistryProofs

\* Locomotives can be told apart by their addresses.
Distinct(m) == \A l, o \in Locos : Address(m[l]) = Address(m[o]) => l = o

\* Bearers(), Owners(), Hears() and KeepsApart(), of a state.
Bearing(m, a) == {l \in Locos : Address(m[l]) = a}

Owning(m, p, a) == IF a = 0 THEN {p} ELSE Bearing(m, a)

Hearing(op, m, p) ==
  IF OnProg(op.kind) \/ op.url.track = "prog" THEN {p} ELSE Bearing(m, op.url.addr)

Parted(m, L, e) ==
  \A l \in L, o \in Locos, K \in SUBSET DOMAIN e :
    Address(Put(m[l], Only(e, K))) = Address(m[o]) => l = o

\* What a table holds, or will hold when it is next given a scope.
Effective(st) == IF st.snap.scope = NoScope THEN st.stored ELSE st.snap

\* A table without a scope holds nothing.
Blank(st) == st.snap.scope = NoScope => st.snap = Empty(NoScope) /\ ~st.armed

\* What a request has got is so at the locomotives that hear it, or in doubt.
GotTrue(op, m, d) ==
  \A k \in DOMAIN op.got, l \in op.heard :
    IF k \in op.sure THEN op.got[k] = m[l][k] ELSE <<l, k>> \in d

\* One locomotive at most hears a request, and one at most was shown.  If it is not
\* the same, the one shown still has the address: only who hears a request is given
\* another.
Sound(op, m, p, d) ==
  /\ \A l, o \in op.heard : l = o
  /\ \A l, o \in op.owner : l = o
  /\ Hearing(op, m, p) \subseteq op.heard
  /\ Owning(m, p, op.url.addr) \subseteq op.heard \cup op.owner
  /\ op.heard # op.owner => op.owner \subseteq Owning(m, p, op.url.addr)
  /\ op.kind = "auto" => op.url.addr = 0
  /\ Writing(op) => Parted(m, op.heard, op.todo)
  /\ op.sure \subseteq DOMAIN op.got /\ (~Writing(op) => DOMAIN op.got \subseteq op.sure)
  /\ GotTrue(op, m, d)

\* A read of the address that has not begun.
Waits(op) == op.kind = "auto" /\ DOMAIN op.got = {}

\* It is all that waits behind another request.
Queue(q, m, p, d) ==
  \/ q = <<>>
  \/ \E o \in Requests : q = <<o>> /\ Sound(o, m, p, d)
  \/ \E o, w \in Requests :
       q = <<o, w>> /\ Sound(o, m, p, d) /\ Sound(w, m, p, d) /\ o.kind # "auto" /\ Waits(w)

\* Requests that touch the side table, or will.
Touches(op) == op.kind \in {"page", "side"} \/ (op.kind = "write" /\ op.url.page = "mapping")

\* The tables are in the scope of what is rendered.
Placed ==
  /\ Blank(main) /\ Blank(side)
  /\ shown = NoUrl => ops = <<>>
  /\ shown # NoUrl => /\ main.snap.scope # NoScope /\ main.snap.scope[1] = shown.dec
                      /\ shown = url => main.snap.scope = Scope(shown)
  /\ shown # NoUrl /\ shown.page = "mapping" => side.snap.scope = Scope(shown)
  /\ side.snap.scope = NoScope /\ ops # <<>> => ~Touches(Head(ops))

\* The baseline of snap is what the locomotives L have.
TrueOf(snap, L, m, d) ==
  \A k \in DOMAIN snap.baseline, l \in L : snap.baseline[k] = m[l][k] \/ <<l, k>> \in d

\* The oldest request is from scope s: who had its address may have got another.
Sharing(q, s) == IF q # <<>> /\ Scope(Head(q).url) = s THEN Head(q).owner ELSE {}

MainTrue(snap, m, p, d, q) ==
  snap.scope # NoScope =>
    TrueOf(snap, Owning(m, p, snap.scope[2]) \cup Sharing(q, snap.scope), m, d)

SideTrue(snap, m, p, d) ==
  snap.scope # NoScope => TrueOf(snap, Owning(m, p, snap.scope[2]), m, d)

\* The invariant.
Certain ==
  /\ Distinct(mem) /\ Placed
  /\ Queue(ops, mem, prog, doubt)
  /\ MainTrue(Effective(main), mem, prog, doubt, ops)
  /\ SideTrue(Effective(side), mem, prog, doubt)

LEMMA OwnersAre ==
  /\ \A a : Bearers(a) = Bearing(mem, a) /\ Owners(a) = Owning(mem, prog, a)
  /\ \A op : Hears(op) = Hearing(op, mem, prog)
  /\ \A L, e : KeepsApart(L, e) = Parted(mem, L, e)
BY DEF Bearers, Bearing, Owners, Owning, Hears, Reach, Hearing, KeepsApart, Parted

-----------------------------------------------------------------------------
(* What the operations do to the effective snapshot of a store.            *)

LEMMA EmitEffect ==
  ASSUME NEW K, NEW st \in StoresOf(K), NEW snap
  PROVE  Emit(st, snap).snap = snap
BY DEF Emit, StoresOf

\* A store that is scoped is its snapshot.
LEMMA ScopedEffect ==
  ASSUME NEW st, st.snap.scope # NoScope
  PROVE  Blank(st) /\ Effective(st) = st.snap
BY DEF Blank, Effective

LEMMA EmptyEffect ==
  \A s : /\ Empty(s).scope = s
         /\ DOMAIN Empty(s).table = {} /\ DOMAIN Empty(s).baseline = {}
BY DEF Empty, Nothing

LEMMA FlushEffect ==
  ASSUME NEW K, NEW st \in StoresOf(K), Blank(st)
  PROVE  /\ Blank(Flush(st)) /\ Effective(Flush(st)) = Effective(st)
         /\ Flush(st).snap = st.snap
BY DEF Flush, Blank, Effective, StoresOf

LEMMA ReloadEffect ==
  ASSUME NEW K, NEW st \in StoresOf(K), Blank(st), Kept(st)
  PROVE  LET new == Reloaded(Flush(st))
         IN  Blank(new) /\ Effective(new) = Effective(st) /\ new.snap.scope = NoScope
<1> DEFINE new == Reloaded(Flush(st))
<1>1. Flush(st) \in StoresOf(K)
  BY FlushType
<1>2. /\ new.snap = Empty(NoScope) /\ ~new.armed /\ new.stored = Flush(st).stored
  BY <1>1 DEF Reloaded, StoresOf
<1>3. Flush(st).stored = Effective(st)
  BY EmptyEffect DEF Flush, Kept, Blank, Effective, StoresOf
<1> QED BY <1>2, <1>3, EmptyEffect DEF Blank, Effective

LEMMA EnsureEffect ==
  ASSUME NEW K, NEW st \in StoresOf(K), Blank(st), Kept(st), NEW s \in Scopes
  PROVE  LET new == EnsureScope(st, s)
         IN  /\ new.snap.scope = s /\ s # NoScope
             /\ new.snap \in {Effective(st), Empty(s)}
             /\ st.snap.scope \notin {s, NoScope} => new.snap = Empty(s)
<1> DEFINE new == EnsureScope(st, s)
<1>1. s # NoScope
  BY RegistryAssumption
<1>2. CASE st.snap.scope = s
  BY <1>1, <1>2 DEF EnsureScope, Effective
<1>3. CASE st.snap.scope # s
  <2>1. Flush(st) \in StoresOf(K)
    BY FlushType
  <2>2. new.snap = Load(Flush(st), s)
    BY <1>3, <2>1, EmitEffect DEF EnsureScope
  <2>3. CASE st.snap.scope = NoScope
    <3>1. Flush(st) = st /\ Effective(st) = st.stored
      BY <2>3 DEF Flush, Blank, Effective
    <3> QED BY <1>1, <2>2, <2>3, <3>1, EmptyEffect DEF Load
  <2>4. CASE st.snap.scope # NoScope
    <3>1. Flush(st).stored = st.snap
      BY <2>4, EmptyEffect DEF Flush, Kept, StoresOf
    <3> QED BY <1>1, <1>3, <2>2, <2>4, <3>1, EmptyEffect DEF Load
  <2> QED BY <2>3, <2>4
<1> QED BY <1>2, <1>3

LEMMA SetManyEffect ==
  ASSUME NEW K, NEW st \in StoresOf(K), NEW e \in Maps(K)
  PROVE  LET new == SetMany(st, e).snap
         IN  /\ new.scope = st.snap.scope /\ new.baseline = st.snap.baseline
             /\ new.table \in {st.snap.table, Put(st.snap.table, e)}
<1>1. [st.snap EXCEPT !.table = Put(@, e)]
        = [scope |-> st.snap.scope, table |-> Put(st.snap.table, e),
           baseline |-> st.snap.baseline]
  BY DEF StoresOf, Snaps
<1> QED BY <1>1, EmitEffect DEF SetMany

LEMMA DiscardEffect ==
  ASSUME NEW K, NEW st \in StoresOf(K)
  PROVE  LET new == Discard(st).snap
         IN  /\ new.scope = st.snap.scope /\ new.baseline = st.snap.baseline
             /\ new.table = st.snap.baseline
<1>1. [st.snap EXCEPT !.table = st.snap.baseline]
        = [scope |-> st.snap.scope, table |-> st.snap.baseline,
           baseline |-> st.snap.baseline]
  BY DEF StoresOf, Snaps
<1> QED BY <1>1, EmitEffect DEF Discard

LEMMA RememberEffect ==
  ASSUME NEW K, NEW st \in StoresOf(K), NEW e \in Maps(K)
  PROVE  /\ DOMAIN e = {} => RememberRead(st, e) = st
         /\ DOMAIN e # {} =>
              LET new == RememberRead(st, e).snap
              IN  /\ new.scope = st.snap.scope
                  /\ new.baseline = Put(st.snap.baseline, e)
                  /\ new.table = Put(st.snap.table, e)
<1> DEFINE t == Put(st.snap.table, e)
           b == Put(st.snap.baseline, e)
           new == [st.snap EXCEPT !.table = t, !.baseline = b]
<1>1. st.snap \in [scope : Scopes \cup {NoScope}, table : Maps(K), baseline : Maps(K)]
  BY DEF StoresOf, Snaps
<1>2. DOMAIN e # {} => RememberRead(st, e).snap = new
  BY EmitEffect DEF RememberRead
<1>3. DOMAIN e = {} => RememberRead(st, e) = st
  BY DEF RememberRead
<1> HIDE DEF t, b
<1>4. new.scope = st.snap.scope /\ new.baseline = b /\ new.table = t
  BY <1>1
<1>5. DOMAIN e # {} => /\ RememberRead(st, e).snap.scope = st.snap.scope
                       /\ RememberRead(st, e).snap.baseline = b
                       /\ RememberRead(st, e).snap.table = t
  BY <1>2, <1>4
<1> QED BY <1>3, <1>5 DEF t, b

LEMMA RetargetEffect ==
  ASSUME NEW K, NEW st \in StoresOf(K), NEW s, st.snap.scope # NoScope
  PROVE  LET new == Retarget(st, s).snap
         IN  /\ new.scope = s
             /\ new.baseline = st.snap.baseline /\ new.table = st.snap.table
<1>1. [st.snap EXCEPT !.scope = s]
        = [scope |-> s, table |-> st.snap.table, baseline |-> st.snap.baseline]
  BY DEF StoresOf, Snaps
<1> QED BY <1>1, EmitEffect DEF Retarget

LEMMA ClosedEffect ==
  ASSUME NEW K, NEW st \in StoresOf(K), Blank(st), NEW rest
  PROVE  /\ Blank(Closed(st, rest)) /\ Effective(Closed(st, rest)) = Effective(st)
         /\ Closed(st, rest).snap = st.snap
BY FlushEffect DEF Closed

-----------------------------------------------------------------------------
(* The queue of requests.                                                  *)

LEMMA Shapes ==
  ASSUME NEW o, NEW w, NEW n
  PROVE  /\ Head(<<o>>) = o /\ Head(<<o, w>>) = o
         /\ Tail(<<o>>) = <<>> /\ Tail(<<o, w>>) = <<w>>
         /\ <<n>> \o <<>> = <<n>> /\ <<n>> \o <<w>> = <<n, w>>
         /\ Append(<<>>, n) = <<n>> /\ Append(<<o>>, n) = <<o, n>>
         /\ Front(<<o>>) = <<>> /\ Front(<<o, w>>) = <<o>>
         /\ Last(<<o>>) = o /\ Last(<<o, w>>) = w
         /\ <<o>> # <<>> /\ <<o, w>> # <<>>
<1> DEFINE S == {o, w, n}
<1>1. /\ <<o>> \in Seq(S) /\ <<o, w>> \in Seq(S) /\ <<w>> \in Seq(S) /\ <<n>> \in Seq(S)
      /\ <<n, w>> \in Seq(S) /\ <<o, n>> \in Seq(S) /\ <<>> \in Seq(S)
      /\ Len(<<o>>) = 1 /\ Len(<<o, w>>) = 2 /\ Len(<<w>>) = 1 /\ Len(<<n>>) = 1
      /\ <<o, w>>[1] = o /\ <<o, w>>[2] = w
  OBVIOUS
<1>2. Head(<<o>>) = o /\ Head(<<o, w>>) = o /\ <<o>> # <<>> /\ <<o, w>> # <<>>
  OBVIOUS
<1>3. Tail(<<o>>) = <<>> /\ Tail(<<o, w>>) = <<w>>
  <2> DEFINE t == Tail(<<o, w>>)
  <2>1. t \in Seq(S) /\ Len(t) = 1 /\ t[1] = w
    BY <1>1
  <2> HIDE DEF t
  <2>2. t = <<w>>
    BY <1>1, <2>1
  <2> QED BY <2>2 DEF t
<1>4. <<n>> \o <<>> = <<n>> /\ <<n>> \o <<w>> = <<n, w>>
  <2> DEFINE t == <<n>> \o <<w>>
  <2>1. t \in Seq(S) /\ Len(t) = 2 /\ t[1] = n /\ t[2] = w
    BY <1>1
  <2> HIDE DEF t
  <2>2. t = <<n, w>>
    BY <1>1, <2>1
  <2> QED BY <2>2 DEF t
<1>5. Append(<<>>, n) = <<n>> /\ Append(<<o>>, n) = <<o, n>>
  <2> DEFINE t == Append(<<o>>, n)
  <2>1. t \in Seq(S) /\ Len(t) = 2 /\ t[1] = o /\ t[2] = n
    BY <1>1
  <2> HIDE DEF t
  <2>2. t = <<o, n>>
    BY <1>1, <2>1
  <2> QED BY <2>2 DEF t
<1>6. Front(<<o>>) = <<>> /\ Front(<<o, w>>) = <<o>>
  <2> DEFINE t == SubSeq(<<o, w>>, 1, 1)
  <2>1. t \in Seq(S) /\ Len(t) = 1 /\ t[1] = o
    BY <1>1, SubSeqProperties
  <2>2. SubSeq(<<o>>, 1, 0) = <<>>
    OBVIOUS
  <2> HIDE DEF t
  <2>3. t = <<o>>
    BY <1>1, <2>1
  <2> QED BY <1>1, <2>2, <2>3 DEF t, Front
<1>7. Last(<<o>>) = o /\ Last(<<o, w>>) = w
  BY <1>1 DEF Last
<1> QED BY <1>2, <1>3, <1>4, <1>5, <1>6, <1>7

\* The read of an address reaches the locomotive on the programming track, whose
\* table is shown, whatever the locomotives have.
LEMMA WaitingSound ==
  ASSUME NEW w \in Requests, NEW m, NEW p, NEW d, Sound(w, m, p, d), Waits(w), NEW m2, NEW d2
  PROVE  Sound(w, m2, p, d2) /\ w.owner \subseteq {p} /\ w.url.addr = 0
<1>1. /\ w.url.addr = 0 /\ ~Writing(w) /\ \A n : Owning(n, p, 0) = {p}
      /\ \A n : Hearing(w, n, p) = {p}
  BY DEF Sound, Waits, Writing, Owning, Hearing, OnProg
<1>2. w.owner \subseteq {p}
  BY <1>1 DEF Sound
<1>3. GotTrue(w, m2, d2)
  BY DEF GotTrue, Waits
<1> QED BY <1>1, <1>2, <1>3 DEF Sound

LEMMA QueueHead ==
  ASSUME NEW q, NEW m, NEW p, NEW d, Queue(q, m, p, d), q # <<>>
  PROVE  Head(q) \in Requests /\ Sound(Head(q), m, p, d)
BY Shapes DEF Queue

\* The oldest request is answered.
LEMMA QueueTail ==
  ASSUME NEW q, NEW m, NEW p, NEW d, Queue(q, m, p, d), q # <<>>, NEW m2, NEW d2
  PROVE  /\ Queue(Tail(q), m2, p, d2)
         /\ Tail(q) # <<>> => /\ Head(Tail(q)).kind = "auto" /\ Head(Tail(q)).url.addr = 0
                              /\ Head(Tail(q)).owner \subseteq {p}
<1>1. ASSUME NEW o, q = <<o>> PROVE Tail(q) = <<>>
  BY <1>1, Shapes
<1>2. ASSUME NEW o \in Requests, NEW w \in Requests, q = <<o, w>>, Sound(w, m, p, d), Waits(w)
      PROVE  /\ Queue(Tail(q), m2, p, d2)
             /\ Head(Tail(q)).kind = "auto" /\ Head(Tail(q)).url.addr = 0
             /\ Head(Tail(q)).owner \subseteq {p}
  <2>1. Tail(q) = <<w>> /\ Head(Tail(q)) = w
    BY <1>2, Shapes
  <2>2. Sound(w, m2, p, d2) /\ w.owner \subseteq {p} /\ w.url.addr = 0
    BY <1>2, WaitingSound
  <2> QED BY <1>2, <2>1, <2>2 DEF Queue, Waits
<1> QED BY <1>1, <1>2 DEF Queue

\* The oldest request goes on as another.
LEMMA QueueNext ==
  ASSUME NEW q, NEW m, NEW p, NEW d, Queue(q, m, p, d), q # <<>>, NEW m2, NEW d2,
         NEW new \in Requests, Sound(new, m2, p, d2),
         Head(q).kind # "auto" => new.kind # "auto"
  PROVE  LET r == <<new>> \o Tail(q)
         IN  Queue(r, m2, p, d2) /\ r # <<>> /\ Head(r) = new
<1>1. ASSUME NEW o, q = <<o>> PROVE <<new>> \o Tail(q) = <<new>>
  BY <1>1, Shapes
<1>2. ASSUME NEW o \in Requests, NEW w \in Requests, q = <<o, w>>, o.kind # "auto",
             Sound(w, m, p, d), Waits(w)
      PROVE  /\ <<new>> \o Tail(q) = <<new, w>> /\ Sound(w, m2, p, d2) /\ new.kind # "auto"
  <2>1. Tail(q) = <<w>> /\ Head(q) = o
    BY <1>2, Shapes
  <2>2. <<new>> \o <<w>> = <<new, w>>
    BY Shapes
  <2>3. Sound(w, m2, p, d2)
    BY <1>2, WaitingSound
  <2> QED BY <1>2, <2>1, <2>2, <2>3
<1>3. Queue(<<new>>, m2, p, d2) /\ <<new>> # <<>> /\ Head(<<new>>) = new
  BY Shapes DEF Queue
<1>4. ASSUME NEW w \in Requests, Sound(w, m2, p, d2), Waits(w), new.kind # "auto"
      PROVE  Queue(<<new, w>>, m2, p, d2) /\ <<new, w>> # <<>> /\ Head(<<new, w>>) = new
  BY <1>4, Shapes DEF Queue
<1>5. \/ <<new>> \o Tail(q) = <<new>>
      \/ \E w \in Requests : /\ <<new>> \o Tail(q) = <<new, w>> /\ Sound(w, m2, p, d2)
                             /\ Waits(w) /\ new.kind # "auto"
  BY <1>1, <1>2 DEF Queue
<1> QED BY <1>3, <1>4, <1>5

\* More is in doubt.
LEMMA QueueMore ==
  ASSUME NEW q, NEW m, NEW p, NEW d, NEW d2, d \subseteq d2, Queue(q, m, p, d)
  PROVE  Queue(q, m, p, d2)
<1>1. \A op : Sound(op, m, p, d) => Sound(op, m, p, d2)
  BY DEF Sound, GotTrue
<1> QED BY <1>1 DEF Queue

\* A read of the address under way is aborted.
Staying(q) == IF q # <<>> /\ Last(q).kind = "auto" THEN Front(q) ELSE q

LEMMA QueueStays ==
  ASSUME NEW q, NEW m, NEW p, NEW d, Queue(q, m, p, d)
  PROVE  /\ Queue(Staying(q), m, p, d)
         /\ Staying(q) # <<>> => q # <<>> /\ Head(Staying(q)) = Head(q)
         /\ q = <<>> => Staying(q) = <<>>
         /\ \A new \in Requests : Sound(new, m, p, d) /\ Waits(new) =>
              LET r == Append(Staying(q), new)
              IN  /\ Queue(r, m, p, d) /\ r # <<>>
                  /\ \/ Head(r) = new
                     \/ q # <<>> /\ Head(r) = Head(q)
<1>1. \/ Staying(q) = <<>>
      \/ \E o \in Requests : /\ q # <<>> /\ Head(q) = o /\ Staying(q) = <<o>>
                             /\ Sound(o, m, p, d) /\ o.kind # "auto"
  <2>1. CASE q = <<>>
    BY <2>1 DEF Staying
  <2>2. ASSUME NEW o \in Requests, q = <<o>>, Sound(o, m, p, d)
        PROVE  \/ Staying(q) = <<>>
               \/ /\ q # <<>> /\ Head(q) = o /\ Staying(q) = <<o>>
                  /\ Sound(o, m, p, d) /\ o.kind # "auto"
    BY <2>2, Shapes DEF Staying
  <2>3. ASSUME NEW o \in Requests, NEW w \in Requests, q = <<o, w>>, Sound(o, m, p, d),
               o.kind # "auto", Waits(w)
        PROVE  /\ q # <<>> /\ Head(q) = o /\ Staying(q) = <<o>>
               /\ Sound(o, m, p, d) /\ o.kind # "auto"
    <3>1. Last(q) = w /\ Front(q) = <<o>> /\ Head(q) = o /\ q # <<>>
      BY <2>3, Shapes
    <3> QED BY <2>3, <3>1 DEF Staying, Waits
  <2> QED BY <2>1, <2>2, <2>3 DEF Queue
<1>2. q = <<>> => Staying(q) = <<>>
  BY DEF Staying
<1>3. CASE Staying(q) = <<>>
  <2>1. \A new \in Requests : Sound(new, m, p, d) =>
          /\ Append(Staying(q), new) = <<new>> /\ Queue(<<new>>, m, p, d)
          /\ <<new>> # <<>> /\ Head(<<new>>) = new
    BY <1>3, Shapes DEF Queue
  <2> QED BY <1>3, <2>1 DEF Queue
<1>4. ASSUME NEW o \in Requests, q # <<>>, Head(q) = o, Staying(q) = <<o>>,
             Sound(o, m, p, d), o.kind # "auto"
      PROVE  /\ Queue(<<o>>, m, p, d) /\ Head(<<o>>) = o
             /\ \A new \in Requests : Sound(new, m, p, d) /\ Waits(new) =>
                  /\ Append(<<o>>, new) = <<o, new>> /\ Queue(<<o, new>>, m, p, d)
                  /\ <<o, new>> # <<>> /\ Head(<<o, new>>) = o
  BY <1>4, Shapes DEF Queue
<1>5. CASE Staying(q) # <<>>
  <2>1. PICK o \in Requests : /\ q # <<>> /\ Head(q) = o /\ Staying(q) = <<o>>
                             /\ Sound(o, m, p, d) /\ o.kind # "auto"
    BY <1>1, <1>5
  <2>2. /\ Queue(<<o>>, m, p, d) /\ Head(<<o>>) = o
        /\ \A new \in Requests : Sound(new, m, p, d) /\ Waits(new) =>
             /\ Append(<<o>>, new) = <<o, new>> /\ Queue(<<o, new>>, m, p, d)
             /\ <<o, new>> # <<>> /\ Head(<<o, new>>) = o
    BY <1>4, <2>1
  <2> QED BY <2>1, <2>2
<1> QED BY <1>3, <1>5


-----------------------------------------------------------------------------
(* The user's edits, navigation, reloads and cancels, and the timers.      *)

\* A new store with the scope and the baseline of the old one.
Like(st, new) ==
  /\ Blank(new) /\ new.snap.scope = st.snap.scope
  /\ Effective(new).scope = Effective(st).scope
  /\ Effective(new).baseline = Effective(st).baseline

LEMMA LikeOperations ==
  ASSUME NEW K, NEW st \in StoresOf(K), Blank(st)
  PROVE  /\ Like(st, st) /\ Like(st, Flush(st))
         /\ st.snap.scope # NoScope =>
              Like(st, Discard(st)) /\ \A e \in Maps(K) : Like(st, SetMany(st, e))
<1>1. Like(st, st) /\ Like(st, Flush(st))
  BY FlushEffect DEF Like
<1>2. ASSUME st.snap.scope # NoScope PROVE Like(st, Discard(st))
  BY <1>2, DiscardEffect, ScopedEffect DEF Like
<1>3. ASSUME st.snap.scope # NoScope, NEW e \in Maps(K) PROVE Like(st, SetMany(st, e))
  BY <1>3, SetManyEffect, ScopedEffect DEF Like
<1> QED BY <1>1, <1>2, <1>3

\* More is in doubt, and fewer locomotives are asked about.
LEMMA TrueMono ==
  ASSUME NEW snap, NEW new, new.baseline = snap.baseline,
         NEW L, NEW M, M \subseteq L, NEW m, NEW d, NEW d2, d \subseteq d2,
         TrueOf(snap, L, m, d)
  PROVE  TrueOf(new, M, m, d2)
BY DEF TrueOf

\* The locomotives and the baselines stay as they are.
LEMMA Undisturbed ==
  ASSUME Certain, mem' = mem, prog' = prog, doubt \subseteq doubt', ops' \in {ops, <<>>},
         Effective(main').scope = Effective(main).scope,
         Effective(main').baseline = Effective(main).baseline,
         Effective(side').scope = Effective(side).scope,
         Effective(side').baseline = Effective(side).baseline,
         Placed'
  PROVE  Certain'
<1>1. Queue(ops', mem, prog, doubt')
  BY QueueMore DEF Certain, Queue
<1>2. \A s : Sharing(ops', s) \subseteq Sharing(ops, s)
  BY DEF Sharing
<1>3. MainTrue(Effective(main'), mem, prog, doubt', ops')
  <2> DEFINE s == Effective(main).scope
             L == Owning(mem, prog, s[2]) \cup Sharing(ops, s)
             M == Owning(mem, prog, s[2]) \cup Sharing(ops', s)
  <2>1. SUFFICES ASSUME s # NoScope PROVE TrueOf(Effective(main'), M, mem, doubt')
    BY DEF MainTrue
  <2>2. TrueOf(Effective(main), L, mem, doubt)
    BY <2>1 DEF Certain, MainTrue
  <2>3. M \subseteq L
    BY <1>2
  <2> HIDE DEF L, M
  <2> QED BY <2>2, <2>3, TrueMono
<1>4. SideTrue(Effective(side'), mem, prog, doubt')
  <2> DEFINE s == Effective(side).scope
             L == Owning(mem, prog, s[2])
  <2>1. SUFFICES ASSUME s # NoScope PROVE TrueOf(Effective(side'), L, mem, doubt')
    BY DEF SideTrue
  <2>2. TrueOf(Effective(side), L, mem, doubt)
    BY <2>1 DEF Certain, SideTrue
  <2> HIDE DEF L
  <2> QED BY <2>2, TrueMono
<1> QED BY <1>1, <1>3, <1>4 DEF Certain

LEMMA StoreTypes == Typed => main \in StoresOf(MainKeys) /\ side \in StoresOf(SideKeys)
BY DEF Typed

\* What a user acts on is rendered, and the tables are in its scope.
LEMMA OnScreen ==
  ASSUME Typed, Certain, User
  PROVE  /\ shown \in Urls /\ shown = url /\ shown # NoUrl
         /\ main.snap.scope = Scope(shown) /\ main.snap.scope # NoScope
         /\ Effective(main) = main.snap
         /\ shown.page = "mapping" => side.snap.scope # NoScope
         /\ Blank(main) /\ Blank(side)
<1>1. shown \in Urls /\ shown = url /\ shown # NoUrl
  BY ActsOnShown, RegistryAssumption DEF User, Rendered
<1>2. Scope(shown) # NoScope
  BY <1>1, ScopeType, RegistryAssumption
<1> QED BY <1>1, <1>2, ScopedEffect DEF Certain, Placed

\* The tables stay where they are.
LEMMA PlacedBy ==
  ASSUME Placed, shown' = shown, ops' \in {ops, <<>>}, Like(main, main'), Like(side, side'),
         url' = url \/ shown = url
  PROVE  Placed'
BY DEF Placed, Like

\* An action of the user on the tables, with no request under way.
LEMMA ActsOnTables ==
  ASSUME Typed, Certain, User, mem' = mem, prog' = prog, ops' = ops, doubt' = doubt,
         shown' = shown,
         main' \in {main, Discard(main)} \/ \E e \in Maps(MainKeys) : main' = SetMany(main, e),
         Like(side, side')
  PROVE  Certain'
<1>1. Like(main, main')
  BY OnScreen, StoreTypes, LikeOperations
<1>2. shown = url /\ Placed
  BY OnScreen DEF Certain
<1>3. Placed'
  BY <1>1, <1>2, PlacedBy
<1> QED BY <1>1, <1>3, Undisturbed DEF Like

LEMMA DiscardAllLike ==
  ASSUME Typed, Certain, User, DiscardAll
  PROVE  main' \in {main, Discard(main)} /\ Like(side, side')
<1>1. side \in StoresOf(SideKeys) /\ Blank(side)
  BY OnScreen, StoreTypes
<1>2. CASE shown.page = "mapping"
  BY <1>1, <1>2, OnScreen, LikeOperations DEF DiscardAll
<1>3. CASE shown.page # "mapping"
  BY <1>1, <1>3, LikeOperations DEF DiscardAll
<1> QED BY <1>2, <1>3 DEF DiscardAll

\* onBits writes a value of the bit field.
LEMMA EditBitSets ==
  ASSUME Typed, NEW k \in 0..1, EditBit(k)
  PROVE  \E v \in Values("M") : main' = SetMany(main, One("M", v))
<1> DEFINE previous == IF Known(main, "M") THEN Get(main, "M")
                       ELSE IF "M" \in DOMAIN rows THEN rows["M"] ELSE 0
<1>1. previous \in Values("M")
  <2>1. Known(main, "M") => Get(main, "M") \in Values("M")
    BY GetType DEF Typed
  <2>2. "M" \in DOMAIN rows => rows["M"] \in Values("M")
    BY MapElim DEF Typed
  <2>3. 0 \in Values("M")
    BY DEF Values
  <2> QED BY <2>1, <2>2, <2>3
<1>2. main' = SetMany(main, One("M", Unnamed(previous) + k))
  BY DEF EditBit
<1> HIDE DEF previous
<1> QED BY <1>1, <1>2, UnnamedType

LEMMA EditCertain == ASSUME Typed, Certain, Edit PROVE Certain'
<1>1. UserIdle => User /\ Blank(side) /\ side \in StoresOf(SideKeys)
  BY OnScreen, StoreTypes DEF UserIdle
<1>2. ASSUME NEW k \in MainKeys \ {"M"}, NEW v \in Inputs[k], EditNumber(k, v) PROVE Certain'
  <2>1. One(k, v) \in Maps(MainKeys)
    BY OneMap, RegistryAssumption
  <2>2. Like(side, side')
    BY <1>1, <1>2, LikeOperations DEF EditNumber
  <2> QED BY <1>1, <1>2, <2>1, <2>2, ActsOnTables DEF EditNumber, Quiet, nav
<1>3. ASSUME NEW k \in 0..1, EditBit(k) PROVE Certain'
  <2>1. PICK v \in Values("M") : main' = SetMany(main, One("M", v))
    BY <1>3, EditBitSets
  <2>2. One("M", v) \in Maps(MainKeys)
    <3>1. "M" \in MainKeys
      BY DEF MainKeys, AddressKeys
    <3> QED BY <3>1, OneMap
  <2>3. Like(side, side')
    BY <1>1, <1>3, LikeOperations DEF EditBit
  <2> QED BY <1>1, <1>3, <2>1, <2>2, <2>3, ActsOnTables DEF EditBit, Quiet, nav
<1>4. ASSUME NEW v \in 0..1, EditSide(v) PROVE Certain'
  <2>1. One("S", v) \in Maps(SideKeys)
    BY OneMap DEF SideKeys, Values
  <2>2. Like(side, side')
    BY <1>1, <1>4, <2>1, OnScreen, LikeOperations DEF EditSide
  <2> QED BY <1>1, <1>4, <2>2, ActsOnTables DEF EditSide, Quiet, nav
<1>5. ASSUME DiscardChanges PROVE Certain'
  BY <1>1, <1>5, DiscardAllLike, ActsOnTables DEF DiscardChanges, Quiet, nav
<1> QED BY <1>2, <1>3, <1>4, <1>5 DEF Edit

\* Going to another page, decoder, track or locomotive.
LEMMA GuardedTables ==
  ASSUME Typed, Certain, User, Guarded
  PROVE  main' \in {main, Discard(main)} /\ Like(side, side')
<1>1. Like(side, side)
  BY OnScreen, StoreTypes, LikeOperations
<1> QED BY <1>1, DiscardAllLike DEF Guarded, stores

LEMMA LeaveLike == ASSUME Typed, Certain, User PROVE \A p : Like(side, Leave(p))
<1>1. /\ side \in StoresOf(SideKeys) /\ Blank(side)
      /\ shown.page = "mapping" => side.snap.scope # NoScope
  BY OnScreen, StoreTypes
<1> QED BY <1>1, LikeOperations DEF Leave

LEMMA ReloadCertain == ASSUME Typed, BothKept, Certain, Reload PROVE Certain'
<1>1. /\ main \in StoresOf(MainKeys) /\ side \in StoresOf(SideKeys)
      /\ Blank(main) /\ Blank(side) /\ Kept(main) /\ Kept(side)
  BY OnScreen, StoreTypes DEF Reload, BothKept
<1>2. /\ Effective(main') = Effective(main) /\ Blank(main') /\ main'.snap.scope = NoScope
      /\ Effective(side') = Effective(side) /\ Blank(side')
  BY <1>1, ReloadEffect DEF Reload
<1>3. ops' = <<>> /\ shown' = NoUrl
  BY DEF Reload
<1>4. Placed'
  BY <1>2, <1>3 DEF Placed
<1> QED BY <1>2, <1>3, <1>4, Undisturbed DEF Reload

LEMMA NavigateCertain == ASSUME Typed, BothKept, Certain, Navigate PROVE Certain'
<1>1. ASSUME NEW a \in Addresses \cup {0}, ChangeAddress(a) PROVE Certain'
  BY <1>1, GuardedTables, ActsOnTables DEF ChangeAddress, UserIdle, Push
<1>2. ASSUME NEW d \in Decoders, ChangeDecoder(d) PROVE Certain'
  BY <1>2, GuardedTables, ActsOnTables DEF ChangeDecoder, UserIdle, Push
<1>3. ASSUME User, UNCHANGED stores, NEW u, Push(u) PROVE Certain'
  <2>1. Like(side, side')
    BY <1>3, OnScreen, StoreTypes, LikeOperations DEF stores
  <2> QED BY <1>3, <2>1, ActsOnTables DEF Push, stores
<1>4. ASSUME NEW p \in Pages, Goto(p) PROVE Certain'
  BY <1>4, LeaveLike, ActsOnTables DEF Goto, UserIdle, Push
<1>5. ASSUME Back PROVE Certain'
  BY <1>5, LeaveLike, ActsOnTables DEF Back
<1> QED BY <1>1, <1>2, <1>3, <1>4, <1>5, ReloadCertain
    DEF Navigate, ChangeTrack, PickTile, UserIdle

\* The timers and Anuluj store what is there.
LEMMA FlushCertain ==
  ASSUME Typed, Certain, mem' = mem, prog' = prog, doubt' = doubt, ops' \in {ops, <<>>},
         shown' = shown, url' = url, main' \in {main, Flush(main)}, side' \in {side, Flush(side)}
  PROVE  Certain'
<1>1. Like(main, main') /\ Like(side, side') /\ Placed
  BY StoreTypes, LikeOperations DEF Certain, Placed
<1>2. Placed'
  BY <1>1, PlacedBy
<1> QED BY <1>1, <1>2, Undisturbed DEF Like

LEMMA PersistCertain ==
  ASSUME Typed, Certain, PersistMain \/ PersistSide PROVE Certain'
BY FlushCertain DEF PersistMain, PersistSide, nav

LEMMA CancelCertain == ASSUME Typed, Certain, Cancel PROVE Certain'
BY FlushCertain DEF Cancel, nav

-----------------------------------------------------------------------------
(* Requests that are sent.                                                 *)

LEMMA OwningOne ==
  ASSUME NEW m, NEW p \in Locos, Distinct(m), NEW a
  PROVE  /\ \A l, o \in Owning(m, p, a) : l = o
         /\ \A l, o \in Bearing(m, a) : l = o
         /\ Owning(m, p, a) \subseteq Locos
BY DEF Owning, Bearing, Distinct

\* A new request is sound.
LEMMA FreshSound ==
  ASSUME Typed, Distinct(mem), NEW kind, NEW u, NEW e, NEW d,
         kind = "auto" => u.addr = 0,
         Writing(Request(kind, u, e)) => KeepsApart(Request(kind, u, e).heard, e)
  PROVE  /\ Sound(Request(kind, u, e), mem, prog, d)
         /\ DOMAIN Request(kind, u, e).got = {}
<1> DEFINE op == Request(kind, u, e)
<1>1. /\ op.kind = kind /\ op.url = u /\ op.todo = e /\ op.got = Nothing /\ op.sure = {}
      /\ op.heard = IF OnProg(kind) THEN {prog} ELSE Reach(u)
      /\ op.owner = Owners(u.addr)
  BY DEF Request
<1>2. /\ op.owner = Owning(mem, prog, u.addr) /\ op.heard = Hearing(op, mem, prog)
      /\ op.heard = {prog} \/ op.heard = Bearing(mem, u.addr)
  BY <1>1 DEF Owners, Owning, Bearers, Bearing, Hearing, Reach
<1>3. (\A l, o \in op.heard : l = o) /\ (\A l, o \in op.owner : l = o)
  BY <1>2, OwningOne DEF Typed
<1>4. DOMAIN op.got = {}
  BY <1>1 DEF Nothing
<1>5. Writing(op) => Parted(mem, op.heard, op.todo)
  BY <1>1, OwnersAre
<1>6. GotTrue(op, mem, d)
  BY <1>4 DEF GotTrue
<1> HIDE DEF op
<1>7. Sound(op, mem, prog, d)
  BY <1>1, <1>2, <1>3, <1>4, <1>5, <1>6 DEF Sound
<1> QED BY <1>4, <1>7 DEF op

\* What is written to the side table changes no address.
LEMMA SideParted ==
  ASSUME Typed, Distinct(mem), NEW L \in SUBSET Locos, NEW e, DOMAIN e \subseteq SideKeys
  PROVE  Parted(mem, L, e)
<1> SUFFICES ASSUME NEW l \in L, NEW o \in Locos, NEW K \in SUBSET DOMAIN e,
                    Address(Put(mem[l], Only(e, K))) = Address(mem[o])
             PROVE  l = o
  BY DEF Parted
<1> DEFINE f == Put(mem[l], Only(e, K))
<1>1. \A k \in AddressKeys : k \in DOMAIN mem[l] /\ k \notin DOMAIN Only(e, K)
  BY DEF Typed, Only, AddressKeys, SideKeys, Keys, MainKeys
<1>2. f["A"] = mem[l]["A"] /\ f["L"] = mem[l]["L"] /\ f["M"] = mem[l]["M"]
  BY <1>1 DEF Put, AddressKeys
<1>3. Address(f) = Address(mem[l])
  BY <1>2 DEF Address
<1> QED BY <1>3 DEF Distinct

LEMMA SendCertain ==
  ASSUME Typed, Certain, NEW kind \in Kinds \ {"auto"}, NEW e, Send(kind, e),
         Request(kind, shown, e) \in Requests,
         kind \in {"write", "side", "set"} => KeepsApart(Request(kind, shown, e).heard, e),
         kind \in {"page", "side"} => shown.page = "mapping"
  PROVE  Certain'
<1> DEFINE op == Request(kind, shown, e)
<1>1. op.kind = kind /\ op.url = shown /\ op.owner = Owning(mem, prog, shown.addr)
  BY OwnersAre DEF Request
<1>2. Sound(op, mem, prog, doubt)
  BY <1>1, FreshSound DEF Certain, Writing
<1>3. /\ User /\ ops' = <<op>> /\ UNCHANGED <<mem, prog, url, shown, main, side, doubt>>
  BY DEF Send, UserIdle, nav, stores
<1>4. /\ shown # NoUrl /\ main.snap.scope = Scope(shown) /\ Effective(main) = main.snap
      /\ shown.page = "mapping" => side.snap.scope # NoScope
  BY <1>3, OnScreen
<1>5. op \in Requests
  OBVIOUS
<1> HIDE DEF op
<1>6. Head(ops') = op /\ ops' # <<>>
  BY <1>3, Shapes
<1>7. Queue(ops', mem, prog, doubt)
  BY <1>2, <1>3, <1>5 DEF Queue
<1>8. Placed'
  <2>1. Touches(op) => shown.page = "mapping"
    BY <1>1 DEF Touches
  <2> QED BY <1>3, <1>4, <1>6, <2>1 DEF Certain, Placed
<1>9. MainTrue(Effective(main), mem, prog, doubt, ops')
  <2> DEFINE s == main.snap.scope
  <2>1. s[2] = shown.addr
    BY <1>4 DEF Scope
  <2>2. Owning(mem, prog, s[2]) \cup Sharing(ops', s)
          \subseteq Owning(mem, prog, s[2]) \cup Sharing(ops, s)
    BY <1>1, <1>6, <2>1 DEF Sharing
  <2> DEFINE L == Owning(mem, prog, s[2]) \cup Sharing(ops, s)
             M == Owning(mem, prog, s[2]) \cup Sharing(ops', s)
  <2>3. s # NoScope => TrueOf(main.snap, L, mem, doubt)
    BY <1>4 DEF Certain, MainTrue
  <2>4. M \subseteq L
    BY <2>2
  <2> HIDE DEF L, M
  <2>5. s # NoScope => TrueOf(main.snap, M, mem, doubt)
    BY <2>3, <2>4, TrueMono
  <2> QED BY <1>4, <2>5 DEF MainTrue, M
<1>10. Effective(main') = Effective(main) /\ Effective(side') = Effective(side)
  BY <1>3
<1> QED BY <1>3, <1>7, <1>8, <1>9, <1>10 DEF Certain

LEMMA SentCertain ==
  ASSUME Typed, Certain,
         (\E k \in MainKeys : ReadOne(k)) \/ ReadPage \/ Apply \/ Locate
           \/ \E a \in Addresses : SetAddress(a)
  PROVE  Certain'
<1>1. ASSUME NEW k \in MainKeys, ReadOne(k) PROVE Certain'
  <2>1. {k} \in SUBSET KeysOf("read") /\ "read" \in Kinds \ {"auto"}
    BY DEF KeysOf, Kinds
  <2>2. Request("read", shown, Asked({k})) \in Requests
    BY <1>1, <2>1, AskedRequest, ActsOnShown DEF ReadOne, Send, UserIdle
  <2> QED BY <1>1, <2>1, <2>2, SendCertain DEF ReadOne
<1>2. ASSUME ReadPage PROVE Certain'
  <2>1. SideKeys \in SUBSET KeysOf("page") /\ "page" \in Kinds \ {"auto"}
    BY DEF KeysOf, Kinds
  <2>2. Request("page", shown, Asked(SideKeys)) \in Requests
    BY <1>2, <2>1, AskedRequest, ActsOnShown DEF ReadPage, Send, UserIdle
  <2> QED BY <1>2, <2>1, <2>2, SendCertain DEF ReadPage
<1>3. ASSUME Apply PROVE Certain'
  <2>1. CASE DOMAIN Diffs(main) # {}
    <3>1. Send("write", Diffs(main)) /\ KeepsApart(Reach(shown), Diffs(main))
      BY <1>3, <2>1 DEF Apply
    <3>2. Diffs(main) \in Maps(KeysOf("write")) /\ "write" \in Kinds \ {"auto"}
      BY DiffsType DEF KeysOf, Kinds, Typed
    <3>3. Request("write", shown, Diffs(main)) \in Requests
      BY <3>1, <3>2, WriteRequest, ActsOnShown DEF Send, UserIdle
    <3>4. Request("write", shown, Diffs(main)).heard = Reach(shown)
      BY DEF Request, OnProg
    <3> QED BY <3>1, <3>2, <3>3, <3>4, SendCertain
  <2>2. CASE DOMAIN Diffs(main) = {}
    <3>1. Send("side", SideDiffs) /\ DOMAIN SideDiffs # {}
      BY <1>3, <2>2 DEF Apply, Pending
    <3>2. SideDiffs \in Maps(SideKeys) /\ KeysOf("side") = SideKeys /\ "side" \in Kinds \ {"auto"}
      BY DiffsType, NothingMap DEF SideDiffs, KeysOf, Kinds, Typed
    <3>3. Request("side", shown, SideDiffs) \in Requests
      BY <3>1, <3>2, WriteRequest, ActsOnShown DEF Send, UserIdle
    <3>4. Request("side", shown, SideDiffs).heard \in SUBSET Locos
      BY <3>3 DEF Requests
    <3>5. KeepsApart(Request("side", shown, SideDiffs).heard, SideDiffs)
      BY <3>2, <3>4, MapElim, SideParted, OwnersAre DEF Certain
    <3>6. shown.page = "mapping"
      BY <3>1, NothingMap DEF SideDiffs
    <3> QED BY <3>1, <3>2, <3>3, <3>5, <3>6, SendCertain
  <2> QED BY <2>1, <2>2
<1>4. ASSUME Locate PROVE Certain'
  <2>1. AddressKeys \in SUBSET KeysOf("locate") /\ "locate" \in Kinds \ {"auto"}
    BY DEF KeysOf, MainKeys, Kinds
  <2>2. Request("locate", shown, Asked(AddressKeys)) \in Requests
    BY <1>4, <2>1, AskedRequest, ActsOnShown DEF Locate, Send, UserIdle
  <2> QED BY <1>4, <2>1, <2>2, SendCertain DEF Locate
<1>5. ASSUME NEW a \in Addresses, SetAddress(a) PROVE Certain'
  <2>1. PICK e \in Maps(MainKeys) : Send("set", e) /\ KeepsApart({prog}, e)
    BY <1>5, SetTyped
  <2>2. KeysOf("set") = MainKeys /\ "set" \in Kinds \ {"auto"}
    BY DEF KeysOf, Kinds
  <2>3. Request("set", shown, e) \in Requests
    BY <2>1, <2>2, WriteRequest, ActsOnShown DEF Send, UserIdle
  <2>4. Request("set", shown, e).heard = {prog}
    BY DEF Request, OnProg
  <2> QED BY <2>1, <2>2, <2>3, <2>4, SendCertain
<1> QED BY <1>1, <1>2, <1>3, <1>4, <1>5

-----------------------------------------------------------------------------
(* What the locomotives take: writes of the daemon and of the backup page. *)

\* A locomotive that takes a value has it, and the others are as they were.
LEMMA TakeIs ==
  ASSUME Typed, NEW L \in SUBSET Locos, NEW k \in Keys, NEW v, Take(L, k, v)
  PROVE  /\ \A l \in Locos \ L : mem'[l] = mem[l]
         /\ \A l \in L : /\ mem'[l] = Taken(l, k, v) /\ mem'[l][k] = v
                         /\ \A j \in Keys \ {k} : mem'[l][j] = mem[l][j]
<1>1. \A l \in Locos : mem[l] \in [Keys -> Nat]
  BY DEF Typed
<1> QED BY <1>1 DEF Take, Taken

\* Its address is the one that a part of the request gives it.
LEMMA TakenAddress ==
  ASSUME Typed, NEW l \in Locos, NEW k \in Keys, NEW e, k \in DOMAIN e,
         NEW K \in SUBSET (DOMAIN e \ {k})
  PROVE  /\ Address(Put(Taken(l, k, e[k]), Only(e, K)))
              = Address(Put(mem[l], Only(e, K \cup {k})))
         /\ Address(Taken(l, k, e[k])) = Address(Put(mem[l], Only(e, {k})))
<1> DEFINE t == Taken(l, k, e[k])
<1>1. /\ DOMAIN mem[l] = Keys /\ DOMAIN t = Keys
      /\ \A j \in Keys : t[j] = IF j = k THEN e[k] ELSE mem[l][j]
  BY DEF Typed, Taken
<1>2. ASSUME NEW N \in SUBSET DOMAIN e
      PROVE  /\ DOMAIN Only(e, N) = N /\ (\A j \in N : Only(e, N)[j] = e[j])
             /\ \A f : \A j \in DOMAIN f :
                  Put(f, Only(e, N))[j] = IF j \in N THEN e[j] ELSE f[j]
  BY DEF Only, Put
<1>3. AddressKeys \subseteq Keys
  BY DEF Keys, MainKeys
<1> HIDE DEF t
<1>4. \A j \in AddressKeys : Put(t, Only(e, K))[j] = Put(mem[l], Only(e, K \cup {k}))[j]
  <2>1. \A j \in Keys : /\ Put(t, Only(e, K))[j] = IF j \in K THEN e[j] ELSE t[j]
                        /\ Put(mem[l], Only(e, K \cup {k}))[j]
                             = IF j \in K \cup {k} THEN e[j] ELSE mem[l][j]
    BY <1>1, <1>2
  <2> QED BY <1>1, <1>3, <2>1
<1>5. \A j \in AddressKeys : t[j] = Put(mem[l], Only(e, {k}))[j]
  <2>1. \A j \in Keys : Put(mem[l], Only(e, {k}))[j] = IF j \in {k} THEN e[j] ELSE mem[l][j]
    BY <1>1, <1>2
  <2> QED BY <1>1, <1>3, <2>1
<1> QED BY <1>4, <1>5 DEF Address, AddressKeys, t

\* No two locomotives get the same address.
LEMMA TakeDistinct ==
  ASSUME Typed, Distinct(mem), NEW L \in SUBSET Locos, \A l, o \in L : l = o, NEW k \in Keys,
         NEW e, k \in DOMAIN e, Parted(mem, L, e), Take(L, k, e[k])
  PROVE  Distinct(mem')
<1> SUFFICES ASSUME NEW l \in Locos, NEW o \in Locos, Address(mem'[l]) = Address(mem'[o])
             PROVE  l = o
  BY DEF Distinct
<1>4. /\ \A x \in Locos \ L : mem'[x] = mem[x]
      /\ \A x \in L : mem'[x] = Taken(x, k, e[k])
  BY TakeIs
<1>1. ASSUME NEW x \in L, NEW y \in Locos \ L, Address(mem'[x]) = Address(mem'[y])
      PROVE  FALSE
  <2>1. /\ mem'[x] = Taken(x, k, e[k]) /\ mem'[y] = mem[y]
    BY <1>4
  <2>2. Address(Taken(x, k, e[k])) = Address(Put(mem[x], Only(e, {k})))
    <3>1. x \in Locos /\ {} \in SUBSET (DOMAIN e \ {k})
      OBVIOUS
    <3> QED BY <3>1, TakenAddress
  <2>3. {k} \in SUBSET DOMAIN e
    OBVIOUS
  <2>4. x = y
    BY <1>1, <2>1, <2>2, <2>3 DEF Parted
  <2> QED BY <2>4
<1>2. CASE l \in L \/ o \in L
  BY <1>1, <1>2
<1>3. CASE l \notin L /\ o \notin L
  BY <1>3, <1>4 DEF Distinct
<1> QED BY <1>2, <1>3

\* All is in doubt that locomotives L that take v for CV k put in doubt.
Doubted(d, L, k, v) == doubt \cup Inherited(L, k, v) \cup (L \X {k}) \subseteq d

\* What a table knows stays true or is in doubt: of those it was about before, and of
\* those that got the address it is filed under.
LEMMA TakeTrue ==
  ASSUME Typed, NEW L \in SUBSET Locos, NEW k \in Keys, NEW v, Take(L, k, v),
         NEW snap \in {main.snap, main.stored, side.snap, side.stored},
         snap.scope # NoScope, NEW O \in SUBSET Locos,
         TrueOf(snap, Owning(mem, prog, snap.scope[2]) \cup O, mem, doubt), NEW d,
         Doubted(d, L, k, v)
  PROVE  TrueOf(snap, Owning(mem', prog, snap.scope[2]) \cup O, mem', d)
<1>5. /\ \A l \in Locos \ L : mem'[l] = mem[l]
      /\ \A l \in L : /\ mem'[l] = Taken(l, k, v) /\ mem'[l][k] = v
                      /\ \A j \in Keys \ {k} : mem'[l][j] = mem[l][j]
  BY TakeIs
<1> DEFINE a == snap.scope[2]
<1> SUFFICES ASSUME NEW j \in DOMAIN snap.baseline,
                    NEW l \in Owning(mem', prog, a) \cup O
             PROVE  snap.baseline[j] = mem'[l][j] \/ <<l, j>> \in d
  BY DEF TrueOf
<1>1. DOMAIN snap.baseline \subseteq Keys
  <2>1. snap.baseline \in Maps(MainKeys) \/ snap.baseline \in Maps(SideKeys)
    BY DEF Typed, StoresOf, Snaps
  <2> QED BY <2>1, MapElim DEF Keys
<1>2. l \in Locos
  BY DEF Owning, Bearing, Typed
<1>3. CASE l \in Owning(mem, prog, a) \cup O
  <2>1. snap.baseline[j] = mem[l][j] \/ <<l, j>> \in doubt
    BY <1>3 DEF TrueOf
  <2>2. CASE l \in L /\ j = k
    BY <2>2 DEF Doubted
  <2>3. CASE ~(l \in L /\ j = k)
    BY <1>1, <1>2, <1>5, <2>1, <2>3 DEF Doubted
  <2> QED BY <2>2, <2>3
<1>4. CASE l \notin Owning(mem, prog, a) \cup O
  <2>1. a # 0 /\ Address(mem'[l]) = a /\ Address(mem[l]) # a
    BY <1>2, <1>4 DEF Owning, Bearing
  <2>2. l \in L /\ mem'[l] = Taken(l, k, v)
    BY <1>2, <1>5, <2>1
  <2>3. j \in Filed(a)
    BY DEF Filed
  <2>4. <<l, j>> \in Inherited(L, k, v)
    BY <2>1, <2>2, <2>3 DEF Inherited
  <2> QED BY <2>4 DEF Doubted
<1> QED BY <1>3, <1>4

\* A write that is under way goes on being sound.
LEMMA TakeSound ==
  ASSUME Typed, Distinct(mem), NEW op \in Requests, NEW new \in Requests,
         Sound(op, mem, prog, doubt), Writing(op), NEW k \in DOMAIN op.todo, k \in Keys,
         NEW L \in SUBSET Hearing(op, mem, prog), Take(L, k, op.todo[k]), NEW d,
         doubt \subseteq d,
         new.kind = op.kind, new.url = op.url, new.heard = op.heard, new.owner = op.owner,
         new.todo = Only(op.todo, DOMAIN op.todo \ {k}),
         \A j \in Keys \ {k} : /\ j \in DOMAIN new.got <=> j \in DOMAIN op.got
                               /\ j \in DOMAIN op.got => new.got[j] = op.got[j]
                               /\ j \in new.sure <=> j \in op.sure,
         k \in DOMAIN new.got =>
           /\ new.got[k] = op.todo[k]
           /\ k \in new.sure => L = op.heard
           /\ op.heard \X {k} \subseteq d,
         k \in new.sure => k \in DOMAIN new.got
  PROVE  Sound(new, mem', prog, d)
<1>1. /\ op.heard \in SUBSET Locos /\ op.owner \in SUBSET Locos /\ L \subseteq op.heard
      /\ DOMAIN op.got \subseteq Keys /\ DOMAIN new.got \subseteq Keys
      /\ op.sure \subseteq Keys /\ new.sure \subseteq Keys
  BY MapElim, KeysOfKeys DEF Requests, Sound
<1>2. /\ \A l, o \in op.heard : l = o
      /\ \A l, o \in op.owner : l = o
      /\ op.heard # op.owner => op.owner \subseteq Owning(mem, prog, op.url.addr)
      /\ Hearing(op, mem, prog) \subseteq op.heard
      /\ Owning(mem, prog, op.url.addr) \subseteq op.heard \cup op.owner
      /\ Parted(mem, op.heard, op.todo)
  BY DEF Sound
<1>3. /\ \A l \in Locos \ L : mem'[l] = mem[l]
      /\ \A l \in L : /\ mem'[l] = Taken(l, k, op.todo[k]) /\ mem'[l][k] = op.todo[k]
                      /\ \A j \in Keys \ {k} : mem'[l][j] = mem[l][j]
  <2>1. L \in SUBSET Locos
    BY <1>1
  <2> QED BY <2>1, TakeIs
<1>4. \A a : Bearing(mem', a) \subseteq Bearing(mem, a) \cup L
  BY <1>3 DEF Bearing
<1>5. Hearing(new, mem', prog) \subseteq op.heard
  BY <1>1, <1>2, <1>4 DEF Hearing
<1>6. Owning(mem', prog, op.url.addr) \subseteq op.heard \cup op.owner
  BY <1>1, <1>2, <1>4 DEF Owning
<1>7. ASSUME op.heard # op.owner PROVE op.owner \subseteq Owning(mem', prog, op.url.addr)
  <2>1. ASSUME NEW l \in op.owner PROVE l \notin L
    <3>1. SUFFICES ASSUME l \in op.heard PROVE FALSE
      BY <1>1
    <3>2. op.heard = {l} /\ op.owner = {l}
      BY <1>2, <2>1, <3>1
    <3> QED BY <1>7, <3>2
  <2> QED BY <1>1, <1>2, <1>3, <1>7, <2>1 DEF Owning, Bearing
<1>8. Parted(mem', op.heard, new.todo)
  <2> SUFFICES ASSUME NEW l \in op.heard, NEW o \in Locos, NEW K \in SUBSET DOMAIN new.todo,
                      Address(Put(mem'[l], Only(new.todo, K))) = Address(mem'[o])
               PROVE  l = o
    BY DEF Parted
  <2>1. SUFFICES ASSUME o \notin L PROVE l = o
    BY <1>1, <1>2
  <2>2. mem'[o] = mem[o] /\ l \in Locos
    BY <1>1, <1>3, <2>1
  <2>3. K \in SUBSET (DOMAIN op.todo \ {k}) /\ Only(new.todo, K) = Only(op.todo, K)
    BY DEF Only
  <2>4. CASE l \in L
    <3> DEFINE e == op.todo
    <3>1. k \in DOMAIN e /\ K \in SUBSET (DOMAIN e \ {k}) /\ K \cup {k} \in SUBSET DOMAIN e
      BY <2>3
    <3> HIDE DEF e
    <3>2. /\ Address(Put(Taken(l, k, e[k]), Only(e, K)))
               = Address(Put(mem[l], Only(e, K \cup {k})))
          /\ Address(Taken(l, k, e[k])) = Address(Put(mem[l], Only(e, {k})))
      BY <2>2, <3>1, TakenAddress
    <3> QED BY <1>2, <1>3, <2>2, <2>3, <2>4, <3>1, <3>2 DEF Parted, e
  <2>5. CASE l \notin L
    <3>1. mem'[l] = mem[l] /\ K \in SUBSET DOMAIN op.todo
      BY <1>3, <2>2, <2>3, <2>5
    <3> QED BY <1>2, <2>2, <2>3, <3>1 DEF Parted
  <2> QED BY <2>4, <2>5
<1>9. GotTrue(new, mem', d)
  <2> SUFFICES ASSUME NEW j \in DOMAIN new.got, NEW l \in op.heard
               PROVE  IF j \in new.sure THEN new.got[j] = mem'[l][j] ELSE <<l, j>> \in d
    BY DEF GotTrue
  <2>1. CASE j = k
    BY <1>3, <2>1
  <2>2. CASE j # k
    <3>1. j \in DOMAIN op.got /\ new.got[j] = op.got[j] /\ (j \in new.sure <=> j \in op.sure)
      BY <1>1, <2>2
    <3>2. IF j \in op.sure THEN op.got[j] = mem[l][j] ELSE <<l, j>> \in doubt
      BY <3>1 DEF Sound, GotTrue
    <3>3. mem'[l][j] = mem[l][j]
      BY <1>1, <1>3, <2>2
    <3> QED BY <3>1, <3>2, <3>3
  <2> QED BY <2>1, <2>2
<1>10. new.sure \subseteq DOMAIN new.got
  BY <1>1 DEF Sound
<1>11. Writing(new) /\ new.kind # "auto"
  BY DEF Writing
<1> QED BY <1>2, <1>5, <1>6, <1>7, <1>8, <1>9, <1>10, <1>11 DEF Sound

\* The tables after a write.
LEMMA TakeTables ==
  ASSUME Typed, Certain, NEW L \in SUBSET Locos, NEW k \in Keys, NEW v, Take(L, k, v),
         prog' = prog, main' = main, side' = side,
         Doubted(doubt', L, k, v),
         \A s : Sharing(ops', s) = Sharing(ops, s)
  PROVE  /\ MainTrue(Effective(main'), mem', prog', doubt', ops')
         /\ SideTrue(Effective(side'), mem', prog', doubt')
<1>1. Effective(main) \in {main.snap, main.stored} /\ Effective(side) \in {side.snap, side.stored}
  BY DEF Effective
<1>2. MainTrue(Effective(main), mem', prog, doubt', ops')
  <2> DEFINE snap == Effective(main)
             O == Sharing(ops, snap.scope)
  <2>1. O \in SUBSET Locos
    BY QueueHead DEF Sharing, Requests, Certain
  <2>2. SUFFICES ASSUME snap.scope # NoScope
                 PROVE  TrueOf(snap, Owning(mem', prog, snap.scope[2]) \cup O, mem', doubt')
    BY DEF MainTrue
  <2>3. TrueOf(snap, Owning(mem, prog, snap.scope[2]) \cup O, mem, doubt)
    BY <2>2 DEF Certain, MainTrue
  <2> HIDE DEF snap, O
  <2>4. snap \in {main.snap, main.stored, side.snap, side.stored}
    BY <1>1 DEF snap
  <2> QED BY <2>1, <2>2, <2>3, <2>4, TakeTrue
<1>3. SideTrue(Effective(side), mem', prog, doubt')
  <2> DEFINE snap == Effective(side)
             O == {}
  <2>2. SUFFICES ASSUME snap.scope # NoScope
                 PROVE  TrueOf(snap, Owning(mem', prog, snap.scope[2]) \cup O, mem', doubt')
    BY DEF SideTrue
  <2>3. TrueOf(snap, Owning(mem, prog, snap.scope[2]) \cup O, mem, doubt)
    BY <2>2 DEF Certain, SideTrue
  <2>4. O \in SUBSET Locos
    OBVIOUS
  <2> HIDE DEF snap, O
  <2>5. snap \in {main.snap, main.stored, side.snap, side.stored}
    BY <1>1 DEF snap
  <2> QED BY <2>2, <2>3, <2>4, <2>5, TakeTrue
<1> QED BY <1>2, <1>3

LEMMA RestoreCertain ==
  ASSUME Typed, Certain, NEW k \in MainKeys, NEW v \in Inputs[k], Restore(k, v) PROVE Certain'
<1> DEFINE L == Reach(url)
           e == One(k, v)
<1>1. /\ ops = <<>> /\ UNCHANGED <<prog, url, shown, main, side, ops>>
      /\ Take(L, k, v) /\ KeepsApart(L, e)
      /\ doubt' = doubt \cup Inherited(L, k, v) \cup (L \X {k})
  BY DEF Restore, UserIdle, Idle, nav, stores
<1>2. L \in SUBSET Locos /\ (\A l, o \in L : l = o) /\ k \in Keys
  BY ReachType, OwningOne, OwnersAre DEF Reach, Certain, Keys, Typed
<1>3. k \in DOMAIN e /\ e[k] = v
  BY DEF One
<1> HIDE DEF L, e
<1>4. Distinct(mem')
  BY <1>1, <1>2, <1>3, TakeDistinct, OwnersAre DEF Certain
<1>5. /\ MainTrue(Effective(main'), mem', prog', doubt', ops')
      /\ SideTrue(Effective(side'), mem', prog', doubt')
  <2>1. \A s : Sharing(ops', s) = Sharing(ops, s)
    BY <1>1
  <2>2. Doubted(doubt', L, k, v)
    BY <1>1 DEF Doubted
  <2> QED BY <1>1, <1>2, <2>1, <2>2, TakeTables
<1>6. Placed' /\ Queue(ops', mem', prog', doubt')
  BY <1>1 DEF Certain, Placed, Queue
<1> QED BY <1>4, <1>5, <1>6 DEF Certain

LEMMA AskCertain == ASSUME Typed, Certain, Ask PROVE Certain'
BY SentCertain, CancelCertain, RestoreCertain DEF Ask

LEMMA HeadNext ==
  ASSUME NEW q, NEW m, NEW p, NEW d, Queue(q, m, p, d), q # <<>>, NEW new
  PROVE  Head(<<new>> \o Tail(q)) = new /\ <<new>> \o Tail(q) # <<>>
<1>1. ASSUME NEW o, q = <<o>> PROVE <<new>> \o Tail(q) = <<new>>
  BY <1>1, Shapes
<1>2. ASSUME NEW o, NEW w, q = <<o, w>> PROVE <<new>> \o Tail(q) = <<new, w>>
  <2>1. Tail(q) = <<w>>
    BY <1>2, Shapes
  <2>2. <<new>> \o <<w>> = <<new, w>>
    BY Shapes
  <2> QED BY <2>1, <2>2
<1>3. \A w : /\ Head(<<new, w>>) = new /\ <<new, w>> # <<>>
             /\ Head(<<new>>) = new /\ <<new>> # <<>>
  BY Shapes
<1> QED BY <1>1, <1>2, <1>3 DEF Queue

LEMMA WriteNextCertain == ASSUME Typed, Certain, WriteNext PROVE Certain'
<1> DEFINE op == Head(ops)
           after(k, ok, S) ==
             [op EXCEPT !.todo = Only(@, DOMAIN @ \ {k}),
                        !.got = IF ok THEN Put(@, One(k, op.todo[k])) ELSE @,
                        !.sure = IF S THEN @ \cup {k} ELSE @,
                        !.errs = IF ok THEN @ ELSE @ \cup {k}]
<1>1. /\ op \in Requests /\ Sound(op, mem, prog, doubt) /\ ops # <<>> /\ Writing(op)
      /\ UNCHANGED <<prog, url, shown, main, side>>
      /\ Distinct(mem) /\ Hears(op) = Hearing(op, mem, prog)
  BY QueueHead, OwnersAre DEF WriteNext, nav, stores, Certain
<1>2. PICK k \in DOMAIN op.todo, ok \in BOOLEAN, taken \in BOOLEAN :
        LET L == IF taken THEN Hears(op) ELSE {}
        IN  /\ ops' = <<after(k, ok, ok /\ taken /\ Hears(op) = op.heard)>> \o Tail(ops)
            /\ Take(L, k, op.todo[k])
            /\ doubt' = doubt \cup Inherited(L, k, op.todo[k])
                              \cup (IF ok \/ taken THEN op.heard \X {k} ELSE {})
  BY DEF WriteNext
<1> DEFINE L == IF taken THEN Hears(op) ELSE {}
           S == ok /\ taken /\ Hears(op) = op.heard
           new == after(k, ok, S)
<1>3. /\ k \in Keys /\ L \in SUBSET Locos /\ L \in SUBSET op.heard
      /\ L \in SUBSET Hearing(op, mem, prog)
      /\ (\A l, o \in L : l = o) /\ Parted(mem, L, op.todo)
      /\ op.heard \in SUBSET Locos /\ k \notin DOMAIN op.got /\ k \notin op.sure
  <2>1. k \in Keys /\ k \notin DOMAIN op.got /\ op.heard \in SUBSET Locos
    BY <1>1, KeysOfKeys DEF Requests, OneToken
  <2>2. /\ op.sure \subseteq DOMAIN op.got /\ Hearing(op, mem, prog) \subseteq op.heard
        /\ \A l, o \in op.heard : l = o
        /\ Parted(mem, op.heard, op.todo)
    BY <1>1 DEF Sound
  <2>3. L \in SUBSET Hearing(op, mem, prog)
    BY <1>1
  <2>4. L \in SUBSET op.heard
    BY <2>2, <2>3
  <2> HIDE DEF L, op
  <2> QED BY <2>1, <2>2, <2>3, <2>4 DEF Parted
<1>4. ops' = <<new>> \o Tail(ops) /\ Take(L, k, op.todo[k])
  BY <1>2
<1>5. /\ Doubted(doubt', L, k, op.todo[k]) /\ doubt \subseteq doubt'
      /\ ok => op.heard \X {k} \subseteq doubt'
  <2>1. doubt' = doubt \cup Inherited(L, k, op.todo[k])
                       \cup (IF ok \/ taken THEN op.heard \X {k} ELSE {})
    BY <1>2
  <2>2. ~taken => L = {}
    OBVIOUS
  <2> HIDE DEF L, op
  <2> QED BY <1>3, <2>1, <2>2 DEF Doubted
<1>6. /\ new.kind = op.kind /\ new.url = op.url /\ new.heard = op.heard /\ new.owner = op.owner
      /\ new.todo = Only(op.todo, DOMAIN op.todo \ {k})
      /\ new.got = IF ok THEN Put(op.got, One(k, op.todo[k])) ELSE op.got
      /\ new.sure = IF S THEN op.sure \cup {k} ELSE op.sure
  BY <1>1 DEF Requests
<1>7. S => ok /\ L = op.heard
  OBVIOUS
<1> HIDE DEF op, new, L, S
<1>8. new \in Requests
  <2>1. ops' \in Seq(Requests)
    BY WriteNextTyped DEF Typed
  <2>2. Head(ops') = new /\ ops' # <<>>
    BY <1>1, <1>4, HeadNext DEF Certain
  <2> QED BY <2>1, <2>2
<1>9. Sound(new, mem', prog, doubt')
  <2>1. /\ \A j \in Keys \ {k} : /\ j \in DOMAIN new.got <=> j \in DOMAIN op.got
                                 /\ j \in DOMAIN op.got => new.got[j] = op.got[j]
                                 /\ j \in new.sure <=> j \in op.sure
        /\ k \in DOMAIN new.got => ok /\ new.got[k] = op.todo[k]
        /\ k \in new.sure => S
        /\ ok => k \in DOMAIN new.got
    BY <1>3, <1>6 DEF Put, One
  <2> QED BY <1>1, <1>3, <1>4, <1>5, <1>6, <1>7, <1>8, <2>1, TakeSound
<1>10. Distinct(mem')
  BY <1>1, <1>3, <1>4, TakeDistinct
<1>11. Queue(ops', mem', prog, doubt') /\ ops' # <<>> /\ Head(ops') = new
  BY <1>1, <1>4, <1>6, <1>8, <1>9, QueueNext DEF Certain, Writing, op
<1>12. \A s : Sharing(ops', s) = Sharing(ops, s)
  BY <1>1, <1>6, <1>11 DEF Sharing, op
<1>13. /\ MainTrue(Effective(main'), mem', prog', doubt', ops')
       /\ SideTrue(Effective(side'), mem', prog', doubt')
  BY <1>1, <1>3, <1>4, <1>5, <1>12, TakeTables
<1>14. Placed'
  BY <1>1, <1>6, <1>11 DEF Certain, Placed, Touches, op
<1> QED BY <1>1, <1>10, <1>11, <1>13, <1>14 DEF Certain

-----------------------------------------------------------------------------
(* A new URL is rendered.                                                  *)

\* What is not misled shows the address of its locomotives.
LEMMA ShowsAddress ==
  ASSUME NEW st \in StoresOf(MainKeys), NEW L, NEW m, NEW d,
         ~Misled(L, st, d), TrueOf(st.snap, L, m, d)
  PROVE  L # {} /\ \A l \in L : Address(Displayed(st)) = Address(m[l])
<1>1. L # {} /\ \A k \in AddressKeys : /\ k \in DOMAIN st.snap.baseline
                                      /\ k \notin DOMAIN Diffs(st)
                                      /\ \A l \in L : <<l, k>> \notin d
  BY DEF Misled, AddressKeys
<1>2. ASSUME NEW k \in AddressKeys, NEW l \in L PROVE Displayed(st)[k] = m[l][k]
  <2>1. st.snap.baseline[k] = m[l][k]
    BY <1>1 DEF TrueOf
  <2>2. k \in DOMAIN st.snap.table => st.snap.table[k] = st.snap.baseline[k]
    BY <1>1, PendingKey
  <2>3. Known(st, k) /\ Get(st, k) = st.snap.baseline[k]
    BY <1>1, <2>2 DEF Known, Get
  <2> QED BY <2>1, <2>3 DEF Displayed
<1> QED BY <1>1, <1>2 DEF Address, AddressKeys

LEMMA OnlyBearer ==
  ASSUME NEW m, NEW p, Distinct(m), NEW l \in Locos, Address(m[l]) # 0
  PROVE  Owning(m, p, Address(m[l])) = {l}
BY DEF Distinct, Owning, Bearing

\* The table that a scope gets is what was known of it, or empty.
LEMMA EnsuredTrue ==
  ASSUME NEW K, NEW st \in StoresOf(K), Blank(st), Kept(st), NEW s \in Scopes,
         NEW L, NEW m, NEW d,
         Effective(st).scope = s => TrueOf(Effective(st), L, m, d)
  PROVE  LET new == EnsureScope(st, s)
         IN  /\ Blank(new) /\ new.snap.scope = s /\ Effective(new) = new.snap
             /\ TrueOf(new.snap, L, m, d)
<1> DEFINE new == EnsureScope(st, s)
<1>1. /\ new.snap.scope = s /\ s # NoScope
      /\ new.snap \in {Effective(st), Empty(s)}
      /\ st.snap.scope \notin {s, NoScope} => new.snap = Empty(s)
  BY EnsureEffect
<1> HIDE DEF new
<1>2. Blank(new) /\ Effective(new) = new.snap
  BY <1>1, ScopedEffect
<1>3. TrueOf(new.snap, L, m, d)
  <2>1. CASE new.snap = Empty(s)
    BY <2>1, EmptyEffect DEF TrueOf
  <2>2. CASE new.snap = Effective(st)
    BY <1>1, <2>2
  <2> QED BY <1>1, <2>1, <2>2
<1> QED BY <1>1, <1>2, <1>3 DEF new

\* The tables once the URL is rendered, before the address effect.
LEMMA RenderedTables ==
  ASSUME Typed, BothKept, Certain, Render
  PROVE  LET s == Scope(url)
             st == EnsureScope(main, s)
         IN  /\ s \in Scopes /\ s # NoScope /\ url # NoUrl /\ shown' = url
             /\ st \in StoresOf(MainKeys) /\ Blank(st) /\ Effective(st) = st.snap
             /\ st.snap.scope = s
             /\ TrueOf(st.snap, Owning(mem, prog, url.addr) \cup Sharing(ops, s), mem, doubt)
             /\ Blank(side') /\ SideTrue(Effective(side'), mem, prog, doubt)
             /\ url.page = "mapping" => side'.snap.scope = s
             /\ side'.snap.scope = NoScope /\ ops # <<>> => ~Touches(Head(ops))
<1> DEFINE s == Scope(url)
           st == EnsureScope(main, s)
<1>1. s \in Scopes /\ s # NoScope /\ url # NoUrl /\ s[2] = url.addr
  BY ScopeType, RegistryAssumption DEF Typed, Scope
<1>2. /\ main \in StoresOf(MainKeys) /\ Blank(main) /\ Kept(main)
      /\ side \in StoresOf(SideKeys) /\ Blank(side) /\ Kept(side)
      /\ MainTrue(Effective(main), mem, prog, doubt, ops)
      /\ SideTrue(Effective(side), mem, prog, doubt)
      /\ side.snap.scope = NoScope /\ ops # <<>> => ~Touches(Head(ops))
  BY StoreTypes DEF Certain, Placed, BothKept
<1>3. side' = IF url.page = "mapping" THEN EnsureScope(side, s) ELSE side
  BY DEF Render
<1> HIDE DEF s
<1>4. st \in StoresOf(MainKeys)
  BY <1>1, <1>2, EnsureScopeType
<1>5. /\ Blank(st) /\ Effective(st) = st.snap /\ st.snap.scope = s
      /\ TrueOf(st.snap, Owning(mem, prog, s[2]) \cup Sharing(ops, s), mem, doubt)
  <2> DEFINE L == Owning(mem, prog, s[2]) \cup Sharing(ops, s)
  <2>1. Effective(main).scope = s => TrueOf(Effective(main), L, mem, doubt)
    BY <1>1, <1>2 DEF MainTrue
  <2> HIDE DEF L
  <2>2. /\ Blank(st) /\ st.snap.scope = s /\ Effective(st) = st.snap
        /\ TrueOf(st.snap, L, mem, doubt)
    BY <1>1, <1>2, <2>1, EnsuredTrue
  <2> QED BY <2>2 DEF L
<1>6. /\ Blank(side') /\ SideTrue(Effective(side'), mem, prog, doubt)
      /\ url.page = "mapping" => side'.snap.scope = s
      /\ side'.snap.scope = NoScope /\ ops # <<>> => ~Touches(Head(ops))
  <2>1. CASE url.page # "mapping"
    BY <1>2, <1>3, <2>1
  <2>2. CASE url.page = "mapping"
    <3> DEFINE new == EnsureScope(side, s)
               L == Owning(mem, prog, s[2])
    <3>1. Effective(side).scope = s => TrueOf(Effective(side), L, mem, doubt)
      BY <1>1, <1>2 DEF SideTrue
    <3> HIDE DEF L
    <3>2. /\ Blank(new) /\ new.snap.scope = s /\ Effective(new) = new.snap
          /\ TrueOf(new.snap, L, mem, doubt)
      BY <1>1, <1>2, <3>1, EnsuredTrue
    <3> QED BY <1>1, <1>3, <2>2, <3>2 DEF SideTrue, L
  <2> QED BY <2>1, <2>2
<1>7. shown' = url
  BY DEF Render
<1> QED BY <1>1, <1>4, <1>5, <1>6, <1>7 DEF s

\* The table waits for the address effect, or stays.
LEMMA RenderStays ==
  ASSUME Typed, BothKept, Certain, Render, main' = EnsureScope(main, Scope(url)),
         url' = url, doubt' = doubt, Queue(ops', mem, prog, doubt),
         ops' # <<>> => \/ ops # <<>> /\ Head(ops') = Head(ops)
                        \/ Head(ops').url = url /\ Head(ops').owner = Owning(mem, prog, url.addr)
                             /\ ~Touches(Head(ops'))
  PROVE  Certain'
<1> DEFINE s == Scope(url)
<1>1. /\ s # NoScope /\ url # NoUrl /\ shown' = url
      /\ Blank(main') /\ Effective(main') = main'.snap /\ main'.snap.scope = s
      /\ TrueOf(main'.snap, Owning(mem, prog, url.addr) \cup Sharing(ops, s), mem, doubt)
      /\ Blank(side') /\ SideTrue(Effective(side'), mem, prog, doubt)
      /\ url.page = "mapping" => side'.snap.scope = s
      /\ side'.snap.scope = NoScope /\ ops # <<>> => ~Touches(Head(ops))
  BY RenderedTables
<1>2. UNCHANGED <<mem, prog>> /\ s[2] = url.addr /\ s[1] = url.dec
  BY DEF Render, Scope
<1>3. Placed'
  BY <1>1, <1>2 DEF Placed
<1> HIDE DEF s
<1>4. MainTrue(main'.snap, mem, prog, doubt, ops')
  <2> DEFINE L == Owning(mem, prog, url.addr) \cup Sharing(ops, s)
             M == Owning(mem, prog, url.addr) \cup Sharing(ops', s)
  <2>1. M \subseteq L
    BY DEF Sharing
  <2> HIDE DEF L, M
  <2>2. TrueOf(main'.snap, M, mem, doubt)
    BY <1>1, <2>1, TrueMono DEF L
  <2> QED BY <1>1, <1>2, <2>2 DEF MainTrue, M
<1>5. Distinct(mem)
  BY DEF Certain
<1> QED BY <1>1, <1>2, <1>3, <1>4, <1>5 DEF Certain

\* The address effect takes the address from the table.
LEMMA RenderMoves ==
  ASSUME Typed, BothKept, Certain, Render, shown = NoUrl \/ shown.dec # url.dec,
         url.addr = 0,
         LET st == EnsureScope(main, Scope(url))
             a == Address(Displayed(st))
         IN  /\ \A k \in AddressKeys : Known(st, k)
             /\ main' = Retarget(st, <<url.dec, a>>)
             /\ url' = [url EXCEPT !.addr = a]
             /\ doubt' = IF Misled({prog}, st, doubt) THEN doubt \cup Foisted(st, a, {})
                                                     ELSE doubt
             /\ ops' = Staying(ops)
  PROVE  Certain'
<1> DEFINE s == Scope(url)
           st == EnsureScope(main, s)
           a == Address(Displayed(st))
<1>1. /\ s \in Scopes /\ s # NoScope /\ url # NoUrl /\ shown' = url
      /\ st \in StoresOf(MainKeys) /\ st.snap.scope = s
      /\ TrueOf(st.snap, Owning(mem, prog, url.addr) \cup Sharing(ops, s), mem, doubt)
      /\ Blank(side') /\ SideTrue(Effective(side'), mem, prog, doubt)
      /\ url.page = "mapping" => side'.snap.scope = s
  BY RenderedTables
<1>2. UNCHANGED <<mem, prog>> /\ s[2] = 0 /\ s[1] = url.dec /\ Distinct(mem) /\ prog \in Locos
  BY DEF Render, Scope, Certain, Typed
<1>3. ops = <<>>
  <2>1. st.snap # Empty(s)
    <3>1. "A" \in AddressKeys
      BY DEF AddressKeys
    <3>2. DOMAIN st.snap.table # {} \/ DOMAIN st.snap.baseline # {}
      BY <3>1 DEF Known
    <3> QED BY <3>2, EmptyEffect
  <2>2. main \in StoresOf(MainKeys) /\ Blank(main) /\ Kept(main)
    BY StoreTypes DEF Certain, Placed, BothKept
  <2>3. main.snap.scope \in {s, NoScope}
    <3> HIDE DEF s
    <3> QED BY <1>1, <2>1, <2>2, EnsureEffect
  <2>4. shown = NoUrl
    <3>1. SUFFICES ASSUME shown # NoUrl PROVE FALSE
      OBVIOUS
    <3>2. main.snap.scope # NoScope /\ main.snap.scope[1] = shown.dec
      BY <3>1 DEF Certain, Placed
    <3> HIDE DEF s
    <3> QED BY <1>2, <2>3, <3>1, <3>2
  <2> QED BY <2>4 DEF Certain, Placed
<1>4. ops' = <<>>
  BY <1>3 DEF Staying
<1>5. a \in Addresses /\ a # 0
  BY <1>1, GivenAddress, RegistryAssumption
<1>6. /\ main' = Retarget(st, <<url.dec, a>>)
      /\ url' = [url EXCEPT !.addr = a] /\ url' # url
      /\ doubt' = IF Misled({prog}, st, doubt) THEN doubt \cup Foisted(st, a, {}) ELSE doubt
  <2>1. url' = [url EXCEPT !.addr = a]
    OBVIOUS
  <2>2. url'.addr = a
    BY <2>1 DEF Typed, Urls
  <2> QED BY <1>5, <2>1, <2>2
<1>7. doubt \subseteq doubt'
  BY <1>6
<1> HIDE DEF s, st, a
<1>8. /\ main'.snap.scope = <<url.dec, a>> /\ main'.snap.baseline = st.snap.baseline
  <2> DEFINE t == <<url.dec, a>>
  <2>1. st.snap.scope # NoScope
    BY <1>1
  <2> HIDE DEF t
  <2>2. LET new == Retarget(st, t).snap
        IN  /\ new.scope = t
            /\ new.baseline = st.snap.baseline /\ new.table = st.snap.table
    BY <1>1, <2>1, RetargetEffect
  <2> QED BY <1>6, <2>2 DEF t
<1>9. <<url.dec, a>> # NoScope
  BY <1>5, ScopeType, RegistryAssumption DEF Typed, Urls
<1>10. Blank(main') /\ Effective(main') = main'.snap
  BY <1>8, <1>9, ScopedEffect
<1>11. TrueOf(main'.snap, Owning(mem, prog, a), mem, doubt')
  <2>1. CASE Misled({prog}, st, doubt)
    <3>1. Owning(mem, prog, a) \X DOMAIN st.snap.baseline \subseteq doubt'
      BY <1>6, <2>1, OwnersAre DEF Foisted
    <3> QED BY <1>8, <3>1 DEF TrueOf
  <2>2. CASE ~Misled({prog}, st, doubt)
    <3>1. TrueOf(st.snap, {prog}, mem, doubt)
      <4>1. Owning(mem, prog, url.addr) = {prog}
        BY DEF Owning
      <4> QED BY <1>1, <4>1, TrueMono
    <3>2. a = Address(mem[prog])
      BY <1>1, <2>2, <3>1, ShowsAddress DEF a
    <3>3. Owning(mem, prog, a) = {prog}
      BY <1>2, <1>5, <3>2, OnlyBearer
    <3> QED BY <1>7, <1>8, <3>1, <3>3, TrueMono
  <2> QED BY <2>1, <2>2
<1>12. MainTrue(Effective(main'), mem, prog, doubt', ops')
  <2>1. \A t : Sharing(ops', t) = {}
    BY <1>4 DEF Sharing
  <2>2. Owning(mem, prog, a) \cup Sharing(ops', <<url.dec, a>>) = Owning(mem, prog, a)
    BY <2>1
  <2>3. <<url.dec, a>>[2] = a
    OBVIOUS
  <2> QED BY <1>8, <1>10, <1>11, <2>2, <2>3 DEF MainTrue
<1>13. SideTrue(Effective(side'), mem, prog, doubt')
  BY <1>1, <1>7 DEF SideTrue, TrueOf
<1>14. Placed'
  <2>1. main'.snap.scope # NoScope /\ main'.snap.scope[1] = shown'.dec
    BY <1>1, <1>8, <1>9
  <2>2. shown' # url' /\ shown' # NoUrl
    BY <1>1, <1>6
  <2>3. shown'.page = "mapping" => side'.snap.scope = Scope(shown')
    BY <1>1 DEF s
  <2> QED BY <1>1, <1>4, <1>10, <2>1, <2>2, <2>3 DEF Placed
<1>15. Queue(ops', mem, prog, doubt')
  BY <1>4 DEF Queue
<1> QED BY <1>2, <1>12, <1>13, <1>14, <1>15 DEF Certain

LEMMA RenderCertain == ASSUME Typed, BothKept, Certain, Render PROVE Certain'
<1> DEFINE st == EnsureScope(main, Scope(url))
           a == Address(Displayed(st))
           new == Request("auto", url, Asked(AddressKeys))
<1>1. Queue(ops, mem, prog, doubt) /\ Distinct(mem)
  BY DEF Certain
<1>2. CASE ~(shown = NoUrl \/ shown.dec # url.dec)
  <2>1. main' = st /\ url' = url /\ doubt' = doubt /\ ops' = ops
    BY <1>2 DEF Render
  <2> QED BY <1>1, <2>1, RenderStays
<1>3. CASE shown = NoUrl \/ shown.dec # url.dec
  <2>1. AddressEffect(st)
    BY <1>3 DEF Render
  <2>2. CASE url.dec = NoDecoder \/ url.addr # 0
    <3>1. main' = st /\ url' = url /\ doubt' = doubt /\ ops' = Staying(ops)
      BY <2>1, <2>2 DEF AddressEffect, Staying
    <3>2. /\ Queue(ops', mem, prog, doubt)
          /\ ops' # <<>> => ops # <<>> /\ Head(ops') = Head(ops)
      BY <1>1, <3>1, QueueStays
    <3> QED BY <3>1, <3>2, RenderStays
  <2>3. CASE ~(url.dec = NoDecoder \/ url.addr # 0) /\ \A k \in AddressKeys : Known(st, k)
    <3>1. /\ main' = Retarget(st, <<url.dec, a>>)
          /\ url' = [url EXCEPT !.addr = a]
          /\ doubt' = IF Misled({prog}, st, doubt) THEN doubt \cup Foisted(st, a, {}) ELSE doubt
          /\ ops' = Staying(ops)
      BY <2>1, <2>3 DEF AddressEffect, Staying
    <3> QED BY <1>3, <2>3, <3>1, RenderMoves
  <2>4. CASE ~(url.dec = NoDecoder \/ url.addr # 0) /\ ~\A k \in AddressKeys : Known(st, k)
    <3>1. main' = st /\ url' = url /\ doubt' = doubt /\ ops' = Append(Staying(ops), new)
      BY <2>1, <2>4 DEF AddressEffect, Staying
    <3>2. new \in Requests
      <4>1. AddressKeys \in SUBSET KeysOf("auto")
        BY DEF KeysOf, MainKeys
      <4> QED BY <4>1, AskedRequest DEF Typed
    <3>3. Sound(new, mem, prog, doubt) /\ Waits(new)
      <4>1. Sound(new, mem, prog, doubt) /\ DOMAIN new.got = {}
        BY <1>1, <2>4, FreshSound DEF Request, Writing
      <4> QED BY <4>1 DEF Waits, Request
    <3>4. new.url = url /\ new.owner = Owning(mem, prog, url.addr) /\ ~Touches(new)
      BY OwnersAre DEF Request, Touches
    <3> HIDE DEF new
    <3>5. /\ Queue(ops', mem, prog, doubt)
          /\ Head(ops') = new \/ (ops # <<>> /\ Head(ops') = Head(ops))
      BY <1>1, <3>1, <3>2, <3>3, QueueStays
    <3> QED BY <3>1, <3>4, <3>5, RenderStays
  <2> QED BY <2>2, <2>3, <2>4
<1> QED BY <1>2, <1>3

-----------------------------------------------------------------------------
(* Answers: what is remembered is so, or in doubt.                         *)

\* Whom the table st is about while op is the oldest request.
About(op, st, m, p) ==
  Owning(m, p, st.snap.scope[2]) \cup IF Scope(op.url) = st.snap.scope THEN op.owner ELSE {}

\* Results that are not astray are of those whom the table is about.
LEMMA HeardIsAbout ==
  ASSUME NEW op, NEW st, Sound(op, mem, prog, doubt), ~Astray(op, st)
  PROVE  About(op, st, mem, prog) = op.heard
<1> DEFINE a == st.snap.scope[2]
<1>1. /\ Owning(mem, prog, op.url.addr) \subseteq op.heard \cup op.owner
      /\ op.heard # op.owner => op.owner \subseteq Owning(mem, prog, op.url.addr)
  BY DEF Sound
<1>2. \/ op.heard = Owning(mem, prog, a)
      \/ Scope(op.url) = st.snap.scope /\ op.heard = op.owner
  BY OwnersAre DEF Astray
<1>3. Scope(op.url) = st.snap.scope => a = op.url.addr
  <2>1. Scope(op.url)[2] = op.url.addr
    BY DEF Scope
  <2> QED BY <2>1
<1> HIDE DEF a
<1> QED BY <1>1, <1>2, <1>3 DEF About, a

LEMMA ToldTrue ==
  ASSUME NEW K, NEW st \in StoresOf(K), NEW e \in Maps(K), NEW op,
         Sound(op, mem, prog, doubt),
         \A k \in DOMAIN e : k \in DOMAIN op.got /\ e[k] = op.got[k],
         NEW L, L \subseteq About(op, st, mem, prog), TrueOf(st.snap, L, mem, doubt)
  PROVE  TrueOf(RememberRead(st, e).snap, L, mem, Told(op, st, e))
<1> DEFINE new == RememberRead(st, e).snap
           told == Told(op, st, e)
<1>1. /\ DOMAIN new.baseline = DOMAIN st.snap.baseline \cup DOMAIN e
      /\ \A k \in DOMAIN new.baseline :
           new.baseline[k] = IF k \in DOMAIN e THEN e[k] ELSE st.snap.baseline[k]
  <2>1. st.snap.baseline \in Maps(K)
    BY DEF StoresOf, Snaps
  <2>2. CASE DOMAIN e = {}
    BY <2>2, RememberEffect
  <2>3. CASE DOMAIN e # {}
    <3>1. new.baseline = Put(st.snap.baseline, e)
      BY <2>3, RememberEffect
    <3> DEFINE b == st.snap.baseline
    <3>2. /\ DOMAIN Put(b, e) = DOMAIN b \cup DOMAIN e
          /\ \A k \in DOMAIN Put(b, e) :
               Put(b, e)[k] = IF k \in DOMAIN e THEN e[k] ELSE b[k]
      BY DEF Put
    <3> HIDE DEF new
    <3> QED BY <3>1, <3>2
  <2> QED BY <2>2, <2>3
<1>2. told = IF Astray(op, st) THEN doubt \cup (Owning(mem, prog, st.snap.scope[2]) \X DOMAIN e)
             ELSE doubt \ (op.heard \X (DOMAIN e \cap op.sure))
  BY OwnersAre DEF Told
<1> SUFFICES ASSUME NEW j \in DOMAIN new.baseline, NEW l \in L
             PROVE  new.baseline[j] = mem[l][j] \/ <<l, j>> \in told
  BY DEF TrueOf
<1> HIDE DEF new, told
<1>3. CASE j \notin DOMAIN e
  <2>1. j \in DOMAIN st.snap.baseline /\ new.baseline[j] = st.snap.baseline[j]
    BY <1>1, <1>3
  <2>2. st.snap.baseline[j] = mem[l][j] \/ <<l, j>> \in doubt
    BY <2>1 DEF TrueOf
  <2> QED BY <1>2, <1>3, <2>1, <2>2
<1>4. CASE j \in DOMAIN e
  <2>1. new.baseline[j] = op.got[j] /\ j \in DOMAIN op.got
    BY <1>1, <1>4
  <2>2. CASE Astray(op, st)
    <3>1. l \in Owning(mem, prog, st.snap.scope[2])
      <4>1. SUFFICES ASSUME Scope(op.url) = st.snap.scope, l \in op.owner
                     PROVE  l \in Owning(mem, prog, st.snap.scope[2])
        BY DEF About
      <4>2. op.heard # op.owner
        BY <2>2, <4>1 DEF Astray
      <4>3. Scope(op.url)[2] = op.url.addr
        BY DEF Scope
      <4> QED BY <4>1, <4>2, <4>3 DEF Sound
    <3> QED BY <1>2, <1>4, <2>2, <3>1
  <2>3. CASE ~Astray(op, st)
    <3>1. l \in op.heard
      BY <2>3, HeardIsAbout
    <3>2. IF j \in op.sure THEN op.got[j] = mem[l][j] ELSE <<l, j>> \in doubt
      BY <2>1, <3>1 DEF Sound, GotTrue
    <3> QED BY <1>2, <2>1, <2>3, <3>2
  <2> QED BY <2>2, <2>3
<1> QED BY <1>3, <1>4

\* What is remembered in one table says nothing of the other.
LEMMA ToldElsewhere ==
  ASSUME NEW snap, NEW op, NEW st, NEW e, NEW L,
         DOMAIN snap.baseline \cap DOMAIN e = {}, TrueOf(snap, L, mem, doubt)
  PROVE  TrueOf(snap, L, mem, Told(op, st, e))
BY DEF TrueOf, Told

LEMMA EffectiveKeys ==
  ASSUME Typed
  PROVE  /\ DOMAIN Effective(main).baseline \subseteq MainKeys
         /\ DOMAIN Effective(side).baseline \subseteq SideKeys
         /\ \A f \in Maps(MainKeys) : DOMAIN f \subseteq MainKeys
         /\ \A f \in Maps(SideKeys) : DOMAIN f \subseteq SideKeys
         /\ MainKeys \cap SideKeys = {}
<1>1. /\ Effective(main).baseline \in Maps(MainKeys)
      /\ Effective(side).baseline \in Maps(SideKeys)
  BY DEF Typed, StoresOf, Snaps, Effective
<1>2. MainKeys \cap SideKeys = {}
  BY DEF MainKeys, SideKeys, AddressKeys
<1> QED BY <1>1, <1>2, MapElim

\* A request under way.
LEMMA UnderWay ==
  ASSUME Typed, Certain, ops # <<>>
  PROVE  /\ Head(ops) \in Requests /\ Sound(Head(ops), mem, prog, doubt)
         /\ shown # NoUrl /\ main.snap.scope # NoScope /\ main.snap.scope[1] = shown.dec
         /\ Blank(main) /\ Blank(side) /\ Effective(main) = main.snap
         /\ main \in StoresOf(MainKeys) /\ side \in StoresOf(SideKeys)
         /\ About(Head(ops), main, mem, prog)
              = Owning(mem, prog, main.snap.scope[2]) \cup Sharing(ops, main.snap.scope)
         /\ TrueOf(main.snap, About(Head(ops), main, mem, prog), mem, doubt)
         /\ SideTrue(Effective(side), mem, prog, doubt)
         /\ Touches(Head(ops)) => side.snap.scope # NoScope
<1>1. shown # NoUrl /\ main.snap.scope # NoScope /\ main.snap.scope[1] = shown.dec
  BY DEF Certain, Placed
<1>2. Effective(main) = main.snap
  BY <1>1, ScopedEffect
<1>3. About(Head(ops), main, mem, prog)
        = Owning(mem, prog, main.snap.scope[2]) \cup Sharing(ops, main.snap.scope)
  BY DEF About, Sharing
<1>4. TrueOf(main.snap, About(Head(ops), main, mem, prog), mem, doubt)
  BY <1>1, <1>2, <1>3 DEF Certain, MainTrue
<1>5. Head(ops) \in Requests /\ Sound(Head(ops), mem, prog, doubt)
  BY QueueHead DEF Certain
<1> QED BY <1>1, <1>2, <1>3, <1>4, <1>5, StoreTypes DEF Certain, Placed

\* What the main table remembers, and the side table then.
LEMMA MainTold ==
  ASSUME Typed, Certain, ops # <<>>, NEW op, Sound(op, mem, prog, doubt),
         op.url = Head(ops).url, op.owner = Head(ops).owner, NEW e \in Maps(MainKeys),
         \A k \in DOMAIN e : k \in DOMAIN op.got /\ e[k] = op.got[k]
  PROVE  LET st == RememberRead(main, e)
         IN  /\ st \in StoresOf(MainKeys) /\ st.snap.scope = main.snap.scope
             /\ Blank(st) /\ Effective(st) = st.snap
             /\ TrueOf(st.snap, About(op, main, mem, prog), mem, Told(op, main, e))
             /\ About(op, main, mem, prog) = About(Head(ops), main, mem, prog)
             /\ SideTrue(Effective(side), mem, prog, Told(op, main, e))
<1> DEFINE st == RememberRead(main, e)
<1>1. /\ main \in StoresOf(MainKeys) /\ main.snap.scope # NoScope
      /\ TrueOf(main.snap, About(Head(ops), main, mem, prog), mem, doubt)
      /\ SideTrue(Effective(side), mem, prog, doubt)
  BY UnderWay
<1>2. About(op, main, mem, prog) = About(Head(ops), main, mem, prog)
  BY DEF About
<1>3. TrueOf(st.snap, About(op, main, mem, prog), mem, Told(op, main, e))
  <2> DEFINE L == About(op, main, mem, prog)
  <2>1. L \subseteq About(op, main, mem, prog) /\ TrueOf(main.snap, L, mem, doubt)
    BY <1>1, <1>2
  <2> HIDE DEF L
  <2>2. TrueOf(st.snap, L, mem, Told(op, main, e))
    BY <1>1, <2>1, ToldTrue
  <2> QED BY <2>2 DEF L
<1>4. st \in StoresOf(MainKeys)
  BY <1>1, RememberReadType
<1>5. st.snap.scope = main.snap.scope
  BY <1>1, RememberEffect
<1>6. SideTrue(Effective(side), mem, prog, Told(op, main, e))
  <2>1. DOMAIN Effective(side).baseline \cap DOMAIN e = {}
    BY EffectiveKeys
  <2> QED BY <1>1, <2>1, ToldElsewhere DEF SideTrue
<1> HIDE DEF st
<1>7. Blank(st) /\ Effective(st) = st.snap
  BY <1>1, <1>5, ScopedEffect
<1> QED BY <1>2, <1>3, <1>4, <1>5, <1>6, <1>7 DEF st

\* What follows the oldest request: itself as another, or the read of an address.
Continues(q) ==
  q # <<>> =>
    \/ /\ Head(q).url = Head(ops).url /\ Head(q).owner = Head(ops).owner
       /\ Touches(Head(q)) => Touches(Head(ops))
    \/ Head(q).kind = "auto" /\ Head(q).url.addr = 0 /\ Head(q).owner \subseteq {prog}

LEMMA TailContinues ==
  ASSUME Certain, ops # <<>>
  PROVE  Continues(Tail(ops)) /\ \A d : Queue(Tail(ops), mem, prog, d)
<1>1. Queue(ops, mem, prog, doubt)
  BY DEF Certain
<1>2. /\ \A d : Queue(Tail(ops), mem, prog, d)
      /\ Tail(ops) # <<>> => /\ Head(Tail(ops)).kind = "auto" /\ Head(Tail(ops)).url.addr = 0
                             /\ Head(Tail(ops)).owner \subseteq {prog}
  BY <1>1, QueueTail
<1> QED BY <1>2 DEF Continues

LEMMA SharingContinues ==
  ASSUME NEW q, Continues(q), ops # <<>>
  PROVE  /\ \A s : Sharing(q, s) \subseteq Owning(mem, prog, s[2]) \cup Sharing(ops, s)
         /\ q # <<>> /\ Touches(Head(q)) => Touches(Head(ops))
         /\ \A s : s[2] # 0 /\ s[2] # Head(ops).url.addr => Sharing(q, s) = {}
<1>1. \A u : Scope(u)[2] = u.addr
  BY DEF Scope
<1>2. q # <<>> /\ Touches(Head(q)) => Touches(Head(ops))
  BY DEF Continues, Touches
<1>3. ASSUME NEW s
      PROVE  Sharing(q, s) \subseteq Owning(mem, prog, s[2]) \cup Sharing(ops, s)
  BY <1>1 DEF Continues, Sharing, Owning
<1>4. ASSUME NEW s, s[2] # 0, s[2] # Head(ops).url.addr PROVE Sharing(q, s) = {}
  BY <1>1, <1>4 DEF Continues, Sharing
<1> QED BY <1>2, <1>3, <1>4

\* An answer that moves no table.
LEMMA StaysAnswered ==
  ASSUME Typed, Certain, ops # <<>>, UNCHANGED <<mem, prog, shown, url>>,
         Continues(ops'), Queue(ops', mem, prog, doubt'),
         Blank(main'), main'.snap.scope = main.snap.scope,
         TrueOf(main'.snap, About(Head(ops), main, mem, prog), mem, doubt'),
         Blank(side'), side'.snap.scope = side.snap.scope,
         SideTrue(Effective(side'), mem, prog, doubt')
  PROVE  Certain'
<1> DEFINE s == main.snap.scope
           L == About(Head(ops), main, mem, prog)
           M == Owning(mem, prog, s[2]) \cup Sharing(ops', s)
<1>1. /\ s # NoScope /\ L = Owning(mem, prog, s[2]) \cup Sharing(ops, s)
      /\ \A t : Sharing(ops', t) \subseteq Owning(mem, prog, t[2]) \cup Sharing(ops, t)
      /\ ops' # <<>> /\ Touches(Head(ops')) => Touches(Head(ops))
  BY UnderWay, SharingContinues
<1>2. M \subseteq L
  BY <1>1
<1>3. Effective(main') = main'.snap
  BY <1>1, ScopedEffect
<1>4. MainTrue(Effective(main'), mem, prog, doubt', ops')
  <2> HIDE DEF L, M
  <2>1. TrueOf(main'.snap, M, mem, doubt')
    BY <1>2, TrueMono DEF L
  <2> QED BY <1>3, <2>1 DEF MainTrue, M
<1>5. Placed'
  BY <1>1 DEF Certain, Placed
<1> QED BY <1>4, <1>5 DEF Certain

\* An answer that moves the main table to address a.
LEMMA MovesAnswered ==
  ASSUME Typed, Certain, ops # <<>>, UNCHANGED <<mem, prog, shown, side>>,
         NEW a \in Addresses, a # Head(ops).url.addr, url' = Moving(Head(ops), a),
         Continues(ops'), Queue(ops', mem, prog, doubt'),
         NEW st \in StoresOf(MainKeys), st.snap.scope = main.snap.scope,
         main' = Closed(Retarget(st, <<st.snap.scope[1], a>>), ops'),
         TrueOf(st.snap, Owning(mem, prog, a), mem, doubt'),
         SideTrue(Effective(side), mem, prog, doubt')
  PROVE  Certain'
<1> DEFINE s == <<st.snap.scope[1], a>>
           new == Retarget(st, s)
<1>1. /\ main.snap.scope # NoScope /\ main.snap.scope[1] = shown.dec /\ shown # NoUrl
      /\ Blank(side) /\ shown \in Urls /\ Head(ops) \in Requests
  BY UnderWay DEF Typed
<1>2. s[2] = a /\ s[1] = shown.dec
  BY <1>1
<1>3. s # NoScope
  BY <1>1, ScopeType, RegistryAssumption DEF Urls
<1> HIDE DEF s
<1>4. new.snap.scope = s /\ new.snap.baseline = st.snap.baseline
  <2>1. LET n == Retarget(st, s).snap
        IN  /\ n.scope = s
            /\ n.baseline = st.snap.baseline /\ n.table = st.snap.table
    BY <1>1, RetargetEffect
  <2> QED BY <2>1
<1>5. new \in StoresOf(MainKeys)
  BY RetargetType DEF s
<1> HIDE DEF new
<1>6. /\ Blank(main') /\ main'.snap = new.snap /\ Effective(main') = new.snap
  <2>1. Blank(new) /\ Effective(new) = new.snap
    BY <1>3, <1>4, ScopedEffect
  <2>2. main' = Closed(new, ops')
    BY DEF new, s
  <2> QED BY <1>5, <2>1, <2>2, ClosedEffect
<1>7. /\ \A t : t[2] # 0 /\ t[2] # Head(ops).url.addr => Sharing(ops', t) = {}
      /\ ops' # <<>> /\ Touches(Head(ops')) => Touches(Head(ops))
  BY SharingContinues
<1>8. Sharing(ops', s) = {}
  BY <1>2, <1>7, RegistryAssumption
<1>9. MainTrue(Effective(main'), mem, prog, doubt', ops')
  <2> DEFINE M == Owning(mem, prog, s[2]) \cup Sharing(ops', s)
             L == Owning(mem, prog, a)
  <2>1. M = L
    BY <1>2, <1>8
  <2> HIDE DEF M, L
  <2>2. TrueOf(new.snap, M, mem, doubt')
    BY <1>4, <2>1, TrueMono DEF L
  <2> QED BY <1>4, <1>6, <2>2 DEF MainTrue, M
<1>10. Placed'
  <2>1. shown = url' => main'.snap.scope = Scope(shown)
    <3>1. url'.addr = a
      BY <1>1 DEF Moving, Requests, Urls
    <3>2. s = <<shown.dec, a>>
      BY <1>1 DEF s
    <3> QED BY <1>4, <1>6, <3>1, <3>2 DEF Scope
  <2> QED BY <1>1, <1>2, <1>3, <1>4, <1>6, <1>7, <2>1 DEF Certain, Placed
<1> QED BY <1>9, <1>10 DEF Certain

-----------------------------------------------------------------------------
(* The daemon's reads, and the answers one by one.                         *)

LEMMA ReadNextCertain == ASSUME Typed, Certain, ReadNext PROVE Certain'
<1> DEFINE op == Head(ops)
           after(k) == [op EXCEPT !.todo = Only(@, DOMAIN @ \ {k})]
           failed(k) == [after(k) EXCEPT !.errs = @ \cup {k}]
           read(k, l) ==
             [after(k) EXCEPT !.got = Put(@, One(k, mem[l][k])), !.sure = @ \cup {k}]
<1>1. /\ op \in Requests /\ Sound(op, mem, prog, doubt) /\ ops # <<>> /\ ~Writing(op)
      /\ UNCHANGED <<mem, prog, url, shown, side>> /\ Queue(ops, mem, prog, doubt)
      /\ ops' \in Seq(Requests)
  BY UnderWay, ReadNextTyped DEF ReadNext, nav, Certain, Typed
<1>2. PICK k \in DOMAIN op.todo :
        \/ /\ ops' = <<failed(k)>> \o Tail(ops)
           /\ UNCHANGED <<main, doubt>>
        \/ \E l \in op.heard :
             /\ ops' = <<read(k, l)>> \o Tail(ops)
             /\ IF op.kind \in {"page", "verify"}
                  THEN UNCHANGED <<main, doubt>>
                  ELSE /\ main' = RememberRead(main, One(k, mem[l][k]))
                       /\ doubt' = Told(read(k, l), main, One(k, mem[l][k]))
  BY DEF ReadNext
<1>3. ASSUME NEW new, ops' = <<new>> \o Tail(ops), new.kind = op.kind, new.url = op.url,
             new.owner = op.owner, Sound(new, mem, prog, doubt')
      PROVE  new \in Requests /\ Queue(ops', mem, prog, doubt') /\ Continues(ops')
  <2>1. Head(ops') = new /\ ops' # <<>>
    BY <1>1, <1>3, HeadNext
  <2>2. new \in Requests
    BY <1>1, <2>1
  <2> HIDE DEF op
  <2>3. Queue(ops', mem, prog, doubt')
    BY <1>1, <1>3, <2>2, QueueNext DEF op
  <2>4. Continues(ops')
    BY <1>3, <2>1 DEF Continues, Touches, op
  <2> QED BY <2>2, <2>3, <2>4
<1>4. /\ k \in KeysOf(op.kind) /\ k \in Keys /\ op.heard \in SUBSET Locos
      /\ DOMAIN op.got \subseteq Keys
  BY <1>1, KeysOfKeys, MapElim DEF Requests
<1>5. ASSUME main' = main, doubt' = doubt, Continues(ops'), Queue(ops', mem, prog, doubt')
      PROVE  Certain'
  BY <1>1, <1>5, UnderWay, StaysAnswered
<1>6. CASE ops' = <<failed(k)>> \o Tail(ops) /\ UNCHANGED <<main, doubt>>
  <2> DEFINE new == failed(k)
  <2>1. /\ new.kind = op.kind /\ new.url = op.url /\ new.owner = op.owner
        /\ new.heard = op.heard /\ new.got = op.got /\ new.sure = op.sure
    BY <1>1 DEF Requests
  <2> HIDE DEF new, op
  <2>2. Sound(new, mem, prog, doubt)
    BY <1>1, <2>1 DEF Sound, GotTrue, Hearing, Writing
  <2> QED BY <1>3, <1>5, <1>6, <2>1, <2>2 DEF new
<1>7. ASSUME NEW l \in op.heard, ops' = <<read(k, l)>> \o Tail(ops),
             IF op.kind \in {"page", "verify"}
               THEN UNCHANGED <<main, doubt>>
               ELSE /\ main' = RememberRead(main, One(k, mem[l][k]))
                    /\ doubt' = Told(read(k, l), main, One(k, mem[l][k]))
      PROVE  Certain'
  <2> DEFINE new == read(k, l)
             e == One(k, mem[l][k])
  <2>1. /\ new.kind = op.kind /\ new.url = op.url /\ new.owner = op.owner
        /\ new.heard = op.heard /\ new.got = Put(op.got, e) /\ new.sure = op.sure \cup {k}
    BY <1>1 DEF Requests
  <2>2. /\ DOMAIN e = {k} /\ e[k] = mem[l][k] /\ mem[l][k] \in Values(k)
        /\ k \in MainKeys => e \in Maps(MainKeys)
    <3>1. mem[l][k] \in Values(k)
      BY <1>4 DEF Typed
    <3> QED BY <3>1, OneMap DEF One
  <2>3. /\ DOMAIN new.got = DOMAIN op.got \cup {k}
        /\ \A j \in DOMAIN new.got : new.got[j] = IF j = k THEN e[k] ELSE op.got[j]
    <3> HIDE DEF e, new, op
    <3> QED BY <2>1, <2>2 DEF Put
  <2>4. ops' = <<new>> \o Tail(ops)
    BY <1>7
  <2>5. IF op.kind \in {"page", "verify"}
          THEN UNCHANGED <<main, doubt>>
          ELSE /\ main' = RememberRead(main, e)
               /\ doubt' = Told(new, main, e)
    BY <1>7
  <2> HIDE DEF new, e, op
  <2>6. ASSUME NEW d PROVE Sound(new, mem, prog, d)
    <3>1. GotTrue(new, mem, d)
      <4>1. ASSUME NEW j \in DOMAIN new.got, NEW o \in op.heard
            PROVE  j \in new.sure /\ new.got[j] = mem[o][j]
        <5>1. o = l
          BY <1>1, <1>7 DEF Sound
        <5>2. CASE j = k
          BY <2>1, <2>2, <2>3, <5>1, <5>2
        <5>3. CASE j # k
          BY <1>1, <2>1, <2>3, <5>3 DEF Sound, GotTrue
        <5> QED BY <5>2, <5>3
      <4> QED BY <2>1, <4>1 DEF GotTrue
    <3>2. new.sure = DOMAIN new.got
      BY <1>1, <2>1, <2>3 DEF Sound
    <3> QED BY <1>1, <2>1, <3>1, <3>2 DEF Sound, Hearing, Writing
  <2>7. new \in Requests /\ Queue(ops', mem, prog, doubt') /\ Continues(ops')
    BY <1>3, <2>1, <2>4, <2>6
  <2>8. CASE op.kind \in {"page", "verify"}
    BY <1>5, <2>5, <2>7, <2>8
  <2>9. CASE op.kind \notin {"page", "verify"}
    <3>1. main' = RememberRead(main, e) /\ doubt' = Told(new, main, e)
      BY <2>5, <2>9
    <3>2. e \in Maps(MainKeys)
      BY <1>1, <1>4, <2>2, <2>9 DEF KeysOf, Writing
    <3>3. \A j \in DOMAIN e : j \in DOMAIN new.got /\ e[j] = new.got[j]
      BY <2>2, <2>3
    <3>4. /\ main'.snap.scope = main.snap.scope /\ Blank(main')
          /\ TrueOf(main'.snap, About(new, main, mem, prog), mem, doubt')
          /\ About(new, main, mem, prog) = About(Head(ops), main, mem, prog)
          /\ SideTrue(Effective(side), mem, prog, doubt')
      BY <1>1, <2>1, <2>6, <3>1, <3>2, <3>3, MainTold DEF op
    <3> QED BY <1>1, <2>7, <3>4, UnderWay, StaysAnswered
  <2> QED BY <2>8, <2>9
<1> QED BY <1>2, <1>6, <1>7

\* A result remembered in the main table, which stays where it is.
LEMMA MainAnswered ==
  ASSUME Typed, Certain, ops # <<>>, UNCHANGED <<mem, prog, shown, url, side>>,
         NEW e \in {Head(ops).got, Nothing}, e \in Maps(MainKeys),
         Continues(ops'), Queue(ops', mem, prog, doubt'),
         main' = Closed(RememberRead(main, e), Tail(ops))
           \/ main' = Closed(RememberRead(main, e), ops'),
         doubt' = Told(Head(ops), main, e)
  PROVE  Certain'
<1> DEFINE op == Head(ops)
           st == RememberRead(main, e)
<1>1. \A k \in DOMAIN e : k \in DOMAIN op.got /\ e[k] = op.got[k]
  BY NothingMap
<1>2. Sound(op, mem, prog, doubt) /\ Blank(side)
  BY UnderWay
<1>3. /\ st \in StoresOf(MainKeys) /\ st.snap.scope = main.snap.scope
      /\ Blank(st) /\ Effective(st) = st.snap
      /\ TrueOf(st.snap, About(op, main, mem, prog), mem, doubt')
      /\ SideTrue(Effective(side), mem, prog, doubt')
  BY <1>1, <1>2, MainTold
<1>4. Blank(main') /\ main'.snap = st.snap
  <2> HIDE DEF st
  <2> QED BY <1>3, ClosedEffect DEF st
<1> HIDE DEF st
<1> QED BY <1>2, <1>3, <1>4, StaysAnswered

LEMMA ReadDoneCertain == ASSUME Typed, Certain, ReadDone PROVE Certain'
<1>1. /\ ops # <<>> /\ Head(ops).got \in Maps(MainKeys)
      /\ UNCHANGED <<mem, prog, shown, url, side>> /\ ops' = Tail(ops)
      /\ main' = Closed(RememberRead(main, Head(ops).got), Tail(ops))
      /\ doubt' = Told(Head(ops), main, Head(ops).got)
  BY AnswerType DEF ReadDone, KeysOf, Answered, nav
<1>2. Continues(ops') /\ Queue(ops', mem, prog, doubt')
  BY <1>1, TailContinues
<1> QED BY <1>1, <1>2, MainAnswered

\* Results of the side table.
LEMMA SideAnswersCertain ==
  ASSUME Typed, Certain, PageDone \/ SideDone PROVE Certain'
<1> DEFINE op == Head(ops)
           e == op.got
           st == RememberRead(side, e)
           L == Owning(mem, prog, side.snap.scope[2])
<1>1. /\ ops # <<>> /\ op.kind \in {"page", "side"} /\ e \in Maps(SideKeys)
      /\ UNCHANGED <<mem, prog, shown, url>> /\ ops' = Tail(ops)
      /\ main' = Closed(main, Tail(ops)) /\ side' = st /\ doubt' = Told(op, side, e)
  BY AnswerType DEF PageDone, SideDone, KeysOf, Answered, Confirmed, nav
<1>2. Continues(ops') /\ Queue(ops', mem, prog, doubt')
  BY <1>1, TailContinues
<1>3. /\ Sound(op, mem, prog, doubt) /\ Blank(main) /\ main \in StoresOf(MainKeys)
      /\ side \in StoresOf(SideKeys) /\ Effective(main) = main.snap
      /\ TrueOf(main.snap, About(op, main, mem, prog), mem, doubt)
      /\ SideTrue(Effective(side), mem, prog, doubt)
      /\ Touches(op) => side.snap.scope # NoScope
  BY <1>1, UnderWay
<1>4. side.snap.scope # NoScope
  BY <1>1, <1>3 DEF Touches
<1>5. Effective(side) = side.snap
  BY <1>4, ScopedEffect
<1>6. Blank(main') /\ main'.snap = main.snap
  BY <1>1, <1>3, ClosedEffect
<1>7. TrueOf(main'.snap, About(op, main, mem, prog), mem, doubt')
  <2>1. DOMAIN main.snap.baseline \cap DOMAIN e = {}
    BY <1>1, <1>3, EffectiveKeys
  <2>2. TrueOf(main.snap, About(op, main, mem, prog), mem, doubt')
    BY <1>1, <1>3, <2>1, ToldElsewhere
  <2> QED BY <1>6, <2>2
<1>8. st.snap.scope = side.snap.scope
  BY <1>1, <1>3, RememberEffect
<1>9. TrueOf(st.snap, L, mem, doubt')
  <2>1. TrueOf(side.snap, L, mem, doubt)
    BY <1>3, <1>4, <1>5 DEF SideTrue
  <2>2. L \subseteq About(op, side, mem, prog)
    BY DEF About
  <2>3. \A k \in DOMAIN e : k \in DOMAIN op.got /\ e[k] = op.got[k]
    OBVIOUS
  <2>4. doubt' = Told(op, side, e)
    BY <1>1
  <2> HIDE DEF L, e, op
  <2>5. TrueOf(RememberRead(side, e).snap, L, mem, Told(op, side, e))
    BY <1>1, <1>3, <2>1, <2>2, <2>3, ToldTrue
  <2> QED BY <2>4, <2>5
<1> HIDE DEF st
<1>10. /\ Blank(side') /\ side'.snap.scope = side.snap.scope
       /\ SideTrue(Effective(side'), mem, prog, doubt')
  <2>1. Blank(st) /\ Effective(st) = st.snap
    BY <1>4, <1>8, ScopedEffect
  <2> QED BY <1>1, <1>8, <1>9, <2>1 DEF SideTrue
<1> QED BY <1>1, <1>2, <1>6, <1>7, <1>10, StaysAnswered

\* address.set is through, or goes on to verify.
LEMMA SetDoneCertain == ASSUME Typed, Certain, SetDone PROVE Certain'
<1> DEFINE op == Head(ops)
           verify == [op EXCEPT !.kind = "verify", !.pend = Asked(AddressKeys),
                                !.todo = Asked(AddressKeys), !.got = Nothing, !.sure = {}]
<1>1. /\ op \in Requests /\ Sound(op, mem, prog, doubt) /\ ops # <<>> /\ op.kind = "set"
      /\ UNCHANGED <<mem, prog, url, shown, side, doubt>> /\ Queue(ops, mem, prog, doubt)
      /\ ops' \in Seq(Requests)
      /\ Blank(main) /\ Blank(side) /\ main \in StoresOf(MainKeys)
      /\ TrueOf(main.snap, About(op, main, mem, prog), mem, doubt)
      /\ SideTrue(Effective(side), mem, prog, doubt)
  BY UnderWay, SetDoneTyped DEF SetDone, nav, Certain, Typed
<1>2. \/ ops' = <<verify>> \o Tail(ops) /\ main' = main
      \/ ops' = Tail(ops) /\ main' = Closed(main, Tail(ops))
  BY DEF SetDone
<1>3. Blank(main') /\ main'.snap = main.snap
  <2> HIDE DEF op, verify
  <2> QED BY <1>1, <1>2, ClosedEffect
<1>4. Continues(ops') /\ Queue(ops', mem, prog, doubt')
  <2>1. CASE ops' = Tail(ops)
    BY <1>1, <2>1, TailContinues
  <2>2. CASE ops' = <<verify>> \o Tail(ops)
    <3>1. /\ verify.kind = "verify" /\ verify.url = op.url /\ verify.owner = op.owner
          /\ verify.heard = op.heard /\ verify.got = Nothing /\ verify.sure = {}
      BY <1>1 DEF Requests
    <3> HIDE DEF verify
    <3>2. Sound(verify, mem, prog, doubt')
      <4>1. DOMAIN verify.got = {}
        BY <3>1 DEF Nothing
      <4>2. Hearing(verify, mem, prog) = Hearing(op, mem, prog)
        BY <1>1, <3>1 DEF Hearing, OnProg
      <4>3. GotTrue(verify, mem, doubt') /\ ~Writing(verify) /\ verify.kind # "auto"
        BY <3>1, <4>1 DEF GotTrue, Writing
      <4> HIDE DEF op
      <4> QED BY <1>1, <3>1, <4>1, <4>2, <4>3 DEF Sound
    <3>3. Head(ops') = verify /\ ops' # <<>>
      BY <1>1, <2>2, HeadNext
    <3>4. verify \in Requests
      BY <1>1, <3>3
    <3>5. Queue(ops', mem, prog, doubt')
      <4>1. Head(ops).kind # "auto" /\ verify.kind # "auto"
        BY <1>1, <3>1
      <4> HIDE DEF op
      <4> QED BY <1>1, <2>2, <3>2, <3>4, <4>1, QueueNext
    <3>6. Continues(ops')
      BY <3>1, <3>3 DEF Continues, Touches
    <3> QED BY <3>5, <3>6
  <2> QED BY <1>2, <2>1, <2>2
<1> QED BY <1>1, <1>3, <1>4, StaysAnswered

\* The address was read: of the locomotive on the programming track.
LEMMA AddressDoneCertain == ASSUME Typed, Certain, AddressDone PROVE Certain'
<1> DEFINE op == Head(ops)
           complete == AddressKeys \subseteq DOMAIN op.got
           e == IF complete \/ op.kind = "auto" THEN op.got ELSE Nothing
           st == RememberRead(main, e)
           told == Told(op, main, e)
           a == Address(op.got)
<1>1. /\ ops # <<>> /\ op.kind \in {"auto", "locate", "verify"} /\ op \in Requests
      /\ op.got \in Maps(MainKeys) /\ ops' = Tail(ops)
      /\ UNCHANGED <<mem, prog, shown, side>>
  BY AnswerType DEF AddressDone, KeysOf, Answered
<1>2. IF complete /\ a # op.url.addr
        THEN /\ main' = Closed(Retarget(st, <<st.snap.scope[1], a>>), Tail(ops))
             /\ url' = Moving(op, a)
             /\ doubt' = IF Astray(op, main)
                           THEN (told \cup Foisted(st, a, AddressKeys))
                                  \ (op.heard \X AddressKeys)
                           ELSE told
        ELSE main' = Closed(st, Tail(ops)) /\ url' = url /\ doubt' = told
  BY DEF AddressDone
<1>3. Continues(ops') /\ Queue(ops', mem, prog, doubt')
  BY <1>1, TailContinues
<1>4. e \in {op.got, Nothing} /\ e \in Maps(MainKeys)
  BY <1>1, NothingMap
<1>5. CASE ~(complete /\ a # op.url.addr)
  <2>1. main' = Closed(st, Tail(ops)) /\ url' = url /\ doubt' = told
    BY <1>2, <1>5
  <2> HIDE DEF e
  <2> QED BY <1>1, <1>3, <1>4, <2>1, MainAnswered
<1>6. CASE complete /\ a # op.url.addr
  <2>1. /\ main' = Closed(Retarget(st, <<st.snap.scope[1], a>>), ops')
        /\ url' = Moving(op, a)
        /\ doubt' = IF Astray(op, main)
                      THEN (told \cup Foisted(st, a, AddressKeys)) \ (op.heard \X AddressKeys)
                      ELSE told
    BY <1>1, <1>2, <1>6
  <2>2. e = op.got /\ AddressKeys \subseteq DOMAIN e
    BY <1>6
  <2>3. Sound(op, mem, prog, doubt) /\ prog \in Locos /\ Distinct(mem)
    BY <1>1, UnderWay DEF Typed, Certain
  <2> HIDE DEF e, st, told, complete, op, a
  <2>4. op.heard = {prog}
    <3>1. Hearing(op, mem, prog) = {prog}
      BY <1>1 DEF Hearing, OnProg
    <3> QED BY <2>3, <3>1 DEF Sound
  <2>5. \A k \in AddressKeys : e[k] = mem[prog][k]
    <3>1. DOMAIN op.got \subseteq op.sure
      BY <1>1, <2>3 DEF Sound, Writing
    <3> QED BY <2>2, <2>3, <2>4, <3>1 DEF Sound, GotTrue
  <2>6. a = Address(mem[prog])
    BY <2>2, <2>5 DEF a, Address, AddressKeys
  <2>7. a \in Addresses /\ a # 0
    <3>1. "A" \in AddressKeys /\ "L" \in AddressKeys
      BY DEF AddressKeys
    <3>2. op.got["A"] \in Addresses /\ op.got["L"] \in Addresses
      BY <1>1, <2>2, <3>1, MapElim DEF Values
    <3> QED BY <3>2, AddressType, RegistryAssumption DEF a
  <2>8. Owning(mem, prog, a) = {prog}
    BY <2>3, <2>6, <2>7, OnlyBearer
  <2>9. /\ st \in StoresOf(MainKeys) /\ st.snap.scope = main.snap.scope
        /\ TrueOf(st.snap, About(op, main, mem, prog), mem, told)
        /\ SideTrue(Effective(side), mem, prog, told)
    <3>1. \A k \in DOMAIN e : k \in DOMAIN op.got /\ e[k] = op.got[k]
      BY <2>2
    <3> QED BY <1>1, <1>4, <2>3, <3>1, MainTold DEF st, told, op
  <2>10. TrueOf(st.snap, {prog}, mem, doubt')
    <3>1. CASE Astray(op, main)
      <4> SUFFICES ASSUME NEW k \in DOMAIN st.snap.baseline
                   PROVE  st.snap.baseline[k] = mem[prog][k] \/ <<prog, k>> \in doubt'
        BY DEF TrueOf
      <4>1. CASE k \in AddressKeys
        <5>1. st.snap.baseline = Put(main.snap.baseline, e)
          <6>1. DOMAIN e # {} /\ main \in StoresOf(MainKeys)
            BY <2>2, StoreTypes DEF AddressKeys
          <6>2. LET new == RememberRead(main, e).snap
                IN  /\ new.scope = main.snap.scope
                    /\ new.baseline = Put(main.snap.baseline, e)
                    /\ new.table = Put(main.snap.table, e)
            BY <1>4, <6>1, RememberEffect
          <6> QED BY <6>2 DEF st
        <5>2. st.snap.baseline[k] = e[k]
          BY <2>2, <4>1, <5>1 DEF Put
        <5> QED BY <2>5, <4>1, <5>2
      <4>2. CASE k \notin AddressKeys
        <5>1. <<prog, k>> \in Foisted(st, a, AddressKeys)
          BY <2>8, <4>2, OwnersAre DEF Foisted
        <5> QED BY <2>1, <3>1, <4>2, <5>1
      <4> QED BY <4>1, <4>2
    <3>2. CASE ~Astray(op, main)
      <4>1. About(op, main, mem, prog) = op.heard
        BY <2>3, <3>2, HeardIsAbout
      <4> QED BY <2>1, <2>4, <2>9, <3>2, <4>1
    <3> QED BY <3>1, <3>2
  <2>11. SideTrue(Effective(side), mem, prog, doubt')
    <3>1. SUFFICES ASSUME NEW k \in DOMAIN Effective(side).baseline, NEW l, <<l, k>> \in told
                   PROVE  <<l, k>> \in doubt'
      BY <2>9 DEF SideTrue, TrueOf
    <3>2. k \notin AddressKeys
      BY EffectiveKeys DEF MainKeys
    <3> QED BY <2>1, <3>1, <3>2
  <2>12. TrueOf(st.snap, Owning(mem, prog, a), mem, doubt')
    BY <2>8, <2>10
  <2> QED BY <1>1, <1>3, <1>6, <2>1, <2>7, <2>9, <2>11, <2>12, MovesAnswered DEF op
<1> QED BY <1>5, <1>6

\* The main table's batch is through.
LEMMA WriteDoneCertain == ASSUME Typed, Certain, WriteDone PROVE Certain'
<1> DEFINE op == Head(ops)
           e == op.got
           st == RememberRead(main, e)
           told == Told(op, main, e)
           a == Address(Displayed(st))
           sides == IF op.url.page = "mapping" THEN Diffs(side) ELSE Nothing
<1>1. /\ op \in Requests /\ op.kind = "write" /\ e \in Maps(MainKeys)
      /\ st \in StoresOf(MainKeys) /\ sides \in Maps(SideKeys)
      /\ ops' = IF DOMAIN sides = {} THEN Tail(ops) ELSE <<SideBatch(op, sides)>> \o Tail(ops)
      /\ \/ /\ Moved(op, st) /\ a \in Addresses /\ url' = Moving(op, a)
            /\ main' = Closed(Retarget(st, <<st.snap.scope[1], a>>), ops')
         \/ ~Moved(op, st) /\ url' = url /\ main' = Closed(st, ops')
  BY WriteMoves
<1>2. /\ ops # <<>> /\ UNCHANGED <<mem, prog, shown, side>>
      /\ doubt' = IF Moved(op, st)
                    THEN IF Astray(op, main) \/ Misled(op.heard, st, told)
                           THEN told \cup Foisted(st, a, {}) ELSE told
                    ELSE told
  BY DEF WriteDone, Answered, Confirmed
<1>3. Sound(op, mem, prog, doubt) /\ Distinct(mem)
  BY <1>2, UnderWay DEF Certain
<1>4. Continues(ops') /\ Queue(ops', mem, prog, doubt')
  <2>1. CASE DOMAIN sides = {}
    BY <1>1, <1>2, <2>1, TailContinues
  <2>2. CASE DOMAIN sides # {}
    <3> DEFINE next == SideBatch(op, sides)
    <3>1. /\ next \in Requests /\ next.kind = "side" /\ next.url = op.url
          /\ next.heard = op.heard /\ next.owner = op.owner /\ next.todo = sides
          /\ next.got = Nothing /\ next.sure = {}
      BY <1>1, SideBatchType
    <3>2. op.url.page = "mapping" /\ ops' = <<next>> \o Tail(ops)
      BY <1>1, <2>2, NothingMap
    <3>3. op.heard \in SUBSET Locos
      BY <1>1 DEF Requests
    <3>4. Parted(mem, op.heard, sides)
      <4>1. DOMAIN sides \subseteq SideKeys
        BY <1>1, MapElim
      <4> HIDE DEF sides, op
      <4> QED BY <1>3, <3>3, <4>1, SideParted
    <3> HIDE DEF next, sides, op
    <3>5. Sound(next, mem, prog, doubt')
      <4>1. DOMAIN next.got = {}
        BY <3>1 DEF Nothing
      <4>2. Hearing(next, mem, prog) = Hearing(op, mem, prog)
        BY <1>1, <3>1 DEF Hearing, OnProg
      <4>3. GotTrue(next, mem, doubt') /\ Writing(next) /\ next.kind # "auto"
        BY <3>1, <4>1 DEF GotTrue, Writing
      <4> QED BY <1>3, <3>1, <3>4, <4>1, <4>2, <4>3 DEF Sound
    <3>6. Queue(ops', mem, prog, doubt') /\ Head(ops') = next /\ ops' # <<>>
      <4>1. next.kind # "auto" /\ Queue(ops, mem, prog, doubt)
        BY <3>1 DEF Certain
      <4> QED BY <1>2, <3>1, <3>2, <3>5, <4>1, QueueNext
    <3>7. Continues(ops')
      BY <1>1, <3>1, <3>2, <3>6 DEF Continues, Touches, op
    <3> QED BY <3>6, <3>7
  <2> QED BY <2>1, <2>2
<1>5. \A k \in DOMAIN e : k \in DOMAIN op.got /\ e[k] = op.got[k]
  OBVIOUS
<1> HIDE DEF sides
<1>6. CASE ~Moved(op, st)
  <2>1. main' = Closed(st, ops') /\ url' = url /\ doubt' = told
    BY <1>1, <1>2, <1>6
  <2> QED BY <1>1, <1>2, <1>4, <2>1, MainAnswered
<1>7. CASE Moved(op, st)
  <2>1. /\ main' = Closed(Retarget(st, <<st.snap.scope[1], a>>), ops')
        /\ url' = Moving(op, a) /\ a \in Addresses
        /\ doubt' = IF Astray(op, main) \/ Misled(op.heard, st, told)
                      THEN told \cup Foisted(st, a, {}) ELSE told
    BY <1>1, <1>2, <1>7
  <2>2. a # op.url.addr /\ a # 0
    BY <1>7 DEF Moved
  <2> HIDE DEF e, st, told, op, a
  <2>3. /\ st.snap.scope = main.snap.scope
        /\ TrueOf(st.snap, About(op, main, mem, prog), mem, told)
        /\ SideTrue(Effective(side), mem, prog, told)
    BY <1>1, <1>2, <1>3, <1>5, MainTold DEF st, told, op
  <2>4. told \subseteq doubt'
    BY <2>1
  <2>5. TrueOf(st.snap, Owning(mem, prog, a), mem, doubt')
    <3>1. CASE Astray(op, main) \/ Misled(op.heard, st, told)
      <4>1. Owning(mem, prog, a) \X DOMAIN st.snap.baseline \subseteq doubt'
        BY <2>1, <3>1, OwnersAre DEF Foisted
      <4> QED BY <4>1 DEF TrueOf
    <3>2. CASE ~(Astray(op, main) \/ Misled(op.heard, st, told))
      <4>1. TrueOf(st.snap, op.heard, mem, told)
        BY <1>3, <2>3, <3>2, HeardIsAbout
      <4>2. op.heard # {} /\ \A l \in op.heard : a = Address(mem[l])
        <5> DEFINE L == op.heard
        <5> HIDE DEF L
        <5>1. ~Misled(L, st, told) /\ TrueOf(st.snap, L, mem, told)
          BY <3>2, <4>1 DEF L
        <5>2. st \in StoresOf(MainKeys)
          BY <1>1 DEF st
        <5>3. L # {} /\ \A l \in L : Address(Displayed(st)) = Address(mem[l])
          BY <5>1, <5>2, ShowsAddress
        <5> QED BY <5>3 DEF a, L
      <4>3. PICK l \in op.heard : op.heard = {l} /\ l \in Locos /\ a = Address(mem[l])
        BY <1>1, <1>3, <4>2 DEF Sound, Requests
      <4>4. Owning(mem, prog, a) = {l}
        BY <1>3, <2>2, <4>3, OnlyBearer
      <4> QED BY <2>4, <4>1, <4>3, <4>4, TrueMono
    <3> QED BY <3>1, <3>2
  <2>6. SideTrue(Effective(side), mem, prog, doubt')
    BY <2>3, <2>4 DEF SideTrue, TrueOf
  <2> QED BY <1>1, <1>2, <1>4, <2>1, <2>2, <2>3, <2>5, <2>6, MovesAnswered DEF op
<1> QED BY <1>6, <1>7

-----------------------------------------------------------------------------
(* The invariant holds, and says what BaselineIsDecoder does.              *)

\* No two locomotives have the same address at first.
ToldApart == Distinct(Factory)

LEMMA CertainInit == ASSUME ToldApart, Init PROVE Certain
<1>1. /\ main = NewStore /\ side = NewStore /\ ops = <<>> /\ shown = NoUrl /\ mem = Factory
  BY DEF Init
<1>2. /\ NewStore.snap = Empty(NoScope) /\ NewStore.stored = Empty(NoScope)
      /\ NewStore.armed = FALSE
  BY DEF NewStore
<1>3. Blank(NewStore) /\ Effective(NewStore).scope = NoScope
  BY <1>2, EmptyEffect DEF Blank, Effective
<1>4. Placed
  BY <1>1, <1>2, <1>3, EmptyEffect DEF Placed
<1> QED BY <1>1, <1>3, <1>4 DEF Certain, Queue, MainTrue, SideTrue, ToldApart

LEMMA CertainStep == Typed /\ BothKept /\ Certain /\ [Next]_vars => Certain'
<1> SUFFICES ASSUME Typed, BothKept, Certain, [Next]_vars PROVE Certain'
  OBVIOUS
<1>1. CASE UNCHANGED vars
  BY <1>1, FlushCertain DEF vars
<1>2. CASE Answer
  BY <1>2, ReadDoneCertain, SideAnswersCertain, SetDoneCertain, AddressDoneCertain,
     WriteDoneCertain DEF Answer
<1>3. CASE Daemon
  BY <1>3, ReadNextCertain, WriteNextCertain DEF Daemon
<1> QED BY <1>1, <1>2, <1>3, RenderCertain, PersistCertain, EditCertain, NavigateCertain,
        AskCertain
    DEF Next

LEMMA AlwaysCertain == ASSUME ToldApart PROVE Spec => []Certain
<1>1. Init => Certain
  BY CertainInit
<1> QED BY <1>1, CertainStep, AlwaysTyped, AlwaysKept, PTL DEF Spec

\* Whatever the locomotives, profiles and addresses, and however often the user acts:
\* while no request is under way and what the URL names is rendered, the tables are
\* those of the URL, and every CV of a baseline is what its locomotive has, or is in
\* doubt for one of the reasons that the model counts (CvRegistry.tsx 119-296,
\* useAddressProgrammer.ts 79-147, table.ts 141).
THEOREM BaselineKnown == ASSUME ToldApart PROVE Spec => []BaselineIsDecoder
<1>1. ASSUME Typed, Certain PROVE BaselineIsDecoder
  <2> SUFFICES ASSUME Idle, Rendered
               PROVE  BaselineOf(main) /\ (shown.page = "mapping" => BaselineOf(side))
    BY DEF BaselineIsDecoder
  <2>1. shown \in Urls /\ shown # NoUrl
    BY <1>1, RegistryAssumption DEF Rendered, Typed
  <2>2. Scope(shown) # NoScope /\ Scope(shown)[2] = shown.addr
    <3>1. Scope(shown) \in Scopes
      BY <2>1 DEF Scopes
    <3> QED BY <3>1, RegistryAssumption DEF Scope
  <2> DEFINE L == Owning(mem, prog, shown.addr)
  <2>3. ASSUME NEW st, st.snap.scope = Scope(shown), TrueOf(st.snap, L, mem, doubt)
        PROVE  BaselineOf(st)
    BY <2>3, OwnersAre DEF TrueOf, BaselineOf
  <2>4. main.snap.scope = Scope(shown)
    BY <1>1, <2>1 DEF Certain, Placed, Rendered
  <2>5. shown.page = "mapping" => side.snap.scope = Scope(shown)
    BY <1>1, <2>1 DEF Certain, Placed
  <2>6. TrueOf(main.snap, L, mem, doubt)
    <3> DEFINE M == Owning(mem, prog, main.snap.scope[2]) \cup Sharing(ops, main.snap.scope)
    <3>1. Effective(main) = main.snap
      BY <2>2, <2>4, ScopedEffect
    <3>2. TrueOf(main.snap, M, mem, doubt)
      BY <1>1, <2>2, <2>4, <3>1 DEF Certain, MainTrue
    <3>3. L \subseteq M
      BY <2>2, <2>4
    <3> HIDE DEF L, M
    <3> QED BY <3>2, <3>3 DEF TrueOf
  <2>7. shown.page = "mapping" => TrueOf(side.snap, L, mem, doubt)
    <3> SUFFICES ASSUME side.snap.scope = Scope(shown) PROVE TrueOf(side.snap, L, mem, doubt)
      BY <2>5
    <3>1. Effective(side) = side.snap
      BY <2>2, ScopedEffect
    <3> QED BY <1>1, <2>2, <3>1 DEF Certain, SideTrue
  <2> HIDE DEF L
  <2> QED BY <2>3, <2>4, <2>5, <2>6, <2>7
<1> QED BY <1>1, AlwaysCertain, AlwaysTyped, PTL

=============================================================================
