-------------------------- MODULE CvRegistryProofs --------------------------
(* What CvRegistry guarantees for any locomotives, profiles and addresses, *)
(* and for any number of actions of the user.                              *)
EXTENDS CvRegistry, SequenceTheorems, TLAPS

-----------------------------------------------------------------------------
(* CV maps and stores, with the values each CV can have.                   *)

Maps(K) ==
  {f \in UNION {[D -> Nat] : D \in SUBSET K} : \A k \in DOMAIN f : f[k] \in Values(k)}

Snaps(K) == [scope : Scopes \cup {NoScope}, table : Maps(K), baseline : Maps(K)]

StoresOf(K) == [snap : Snaps(K), stored : Snaps(K), armed : BOOLEAN]

\* Every CV has natural numbers as values.
LEMMA ValuesNat == \A k : Values(k) \subseteq Nat
BY RegistryAssumption DEF Values

\* What membership in Maps says.
LEMMA MapElim ==
  ASSUME NEW K, NEW f \in Maps(K)
  PROVE  /\ DOMAIN f \subseteq K
         /\ f = [k \in DOMAIN f |-> f[k]]
         /\ \A k \in DOMAIN f : f[k] \in Values(k)
<1>1. PICK D \in SUBSET K : f \in [D -> Nat]
  BY DEF Maps
<1> QED BY <1>1 DEF Maps

\* The operations on maps give maps.
LEMMA NothingMap == \A K : Nothing \in Maps(K) /\ DOMAIN Nothing = {}
<1> SUFFICES ASSUME NEW K PROVE Nothing \in Maps(K) /\ DOMAIN Nothing = {}
  OBVIOUS
<1>1. Nothing \in [{} -> Nat]
  BY DEF Nothing
<1>2. [{} -> Nat] \in {[E -> Nat] : E \in SUBSET K}
  OBVIOUS
<1> QED BY <1>1, <1>2 DEF Maps, Nothing

LEMMA OneMap ==
  ASSUME NEW K, NEW k \in K, NEW v \in Values(k)
  PROVE  One(k, v) \in Maps(K) /\ DOMAIN One(k, v) = {k} /\ One(k, v)[k] = v
<1>1. One(k, v) \in [{k} -> Nat]
  BY ValuesNat DEF One
<1>2. [{k} -> Nat] \in {[E -> Nat] : E \in SUBSET K}
  OBVIOUS
<1> QED BY <1>1, <1>2 DEF Maps, One

LEMMA PutMap ==
  ASSUME NEW K, NEW f \in Maps(K), NEW e \in Maps(K)
  PROVE  /\ Put(f, e) \in Maps(K)
         /\ DOMAIN Put(f, e) = DOMAIN f \cup DOMAIN e
         /\ \A k \in DOMAIN Put(f, e) :
              Put(f, e)[k] = IF k \in DOMAIN e THEN e[k] ELSE f[k]
<1> DEFINE D == DOMAIN f \cup DOMAIN e
<1>1. D \subseteq K /\ \A k \in D : (IF k \in DOMAIN e THEN e[k] ELSE f[k]) \in Values(k)
  BY MapElim
<1>2. Put(f, e) \in [D -> Nat]
  BY <1>1, ValuesNat DEF Put
<1>3. [D -> Nat] \in {[E -> Nat] : E \in SUBSET K}
  BY <1>1
<1> QED BY <1>1, <1>2, <1>3 DEF Maps, Put

LEMMA OnlyMap ==
  ASSUME NEW K, NEW f \in Maps(K), NEW L
  PROVE  /\ Only(f, L) \in Maps(K)
         /\ DOMAIN Only(f, L) = DOMAIN f \cap L
         /\ \A k \in DOMAIN Only(f, L) : Only(f, L)[k] = f[k]
<1> DEFINE D == DOMAIN f \cap L
<1>1. D \subseteq K /\ \A k \in D : f[k] \in Values(k)
  BY MapElim
<1>2. Only(f, L) \in [D -> Nat]
  BY <1>1, ValuesNat DEF Only
<1>3. [D -> Nat] \in {[E -> Nat] : E \in SUBSET K}
  BY <1>1
<1> QED BY <1>1, <1>2, <1>3 DEF Maps, Only

LEMMA EmptySnap ==
  ASSUME NEW K, NEW s \in Scopes \cup {NoScope}
  PROVE  Empty(s) \in Snaps(K)
BY NothingMap DEF Empty, Snaps

\* The operations of a store give stores.
LEMMA NewStoreType == \A K : NewStore \in StoresOf(K)
BY EmptySnap DEF NewStore, StoresOf

LEMMA EmitType ==
  ASSUME NEW K, NEW st \in StoresOf(K), NEW s \in Snaps(K)
  PROVE  Emit(st, s) \in StoresOf(K)
BY DEF Emit, StoresOf

LEMMA FlushType ==
  ASSUME NEW K, NEW st \in StoresOf(K)
  PROVE  Flush(st) \in StoresOf(K)
BY DEF Flush, StoresOf

LEMMA EnsureScopeType ==
  ASSUME NEW K, NEW st \in StoresOf(K), NEW s \in Scopes
  PROVE  EnsureScope(st, s) \in StoresOf(K)
<1>1. Flush(st) \in StoresOf(K)
  BY FlushType
<1>2. Load(Flush(st), s) \in Snaps(K)
  BY <1>1, EmptySnap DEF Load, StoresOf
<1> QED BY <1>1, <1>2, EmitType DEF EnsureScope

LEMMA SetManyType ==
  ASSUME NEW K, NEW st \in StoresOf(K), NEW e \in Maps(K)
  PROVE  SetMany(st, e) \in StoresOf(K)
<1>1. [st.snap EXCEPT !.table = Put(@, e)] \in Snaps(K)
  BY PutMap DEF StoresOf, Snaps
<1> QED BY <1>1, EmitType DEF SetMany

LEMMA RememberReadType ==
  ASSUME NEW K, NEW st \in StoresOf(K), NEW e \in Maps(K)
  PROVE  RememberRead(st, e) \in StoresOf(K)
<1>1. [st.snap EXCEPT !.table = Put(@, e), !.baseline = Put(@, e)] \in Snaps(K)
  BY PutMap DEF StoresOf, Snaps
<1> QED BY <1>1, EmitType DEF RememberRead

LEMMA DiscardType ==
  ASSUME NEW K, NEW st \in StoresOf(K)
  PROVE  Discard(st) \in StoresOf(K)
<1>1. [st.snap EXCEPT !.table = st.snap.baseline] \in Snaps(K)
  BY DEF StoresOf, Snaps
<1> QED BY <1>1, EmitType DEF Discard

LEMMA ReloadedType ==
  ASSUME NEW K, NEW st \in StoresOf(K)
  PROVE  Reloaded(Flush(st)) \in StoresOf(K)
BY FlushType, EmptySnap DEF Reloaded, StoresOf

LEMMA DiffsType ==
  ASSUME NEW K, NEW st \in StoresOf(K)
  PROVE  Diffs(st) \in Maps(K)
BY OnlyMap DEF Diffs, StoresOf, Snaps

LEMMA GetType ==
  ASSUME NEW K, NEW st \in StoresOf(K), NEW k
  PROVE  /\ Get(st, k) = Unread \/ Get(st, k) \in Values(k)
         /\ Known(st, k) => Get(st, k) \in Values(k)
<1>1. st.snap.table \in Maps(K) /\ st.snap.baseline \in Maps(K)
  BY DEF StoresOf, Snaps
<1> QED BY <1>1, MapElim DEF Get, Known

LEMMA ScopeType ==
  /\ \A u \in Urls : Scope(u) \in Scopes
  /\ \A d \in Decoders \cup {NoDecoder}, a \in Addresses \cup {0} : <<d, a>> \in Scopes
<1>1. \A u \in Urls : Scope(u) \in Scopes
  BY DEF Scopes
<1>2. ASSUME NEW d \in Decoders \cup {NoDecoder}, NEW a \in Addresses \cup {0}
      PROVE  <<d, a>> \in Scopes
  <2>1. [page |-> "home", dec |-> d, addr |-> a, track |-> "prog"] \in Urls
    BY DEF Urls, Pages
  <2>2. Scope([page |-> "home", dec |-> d, addr |-> a, track |-> "prog"]) = <<d, a>>
    BY DEF Scope
  <2> QED BY <1>1, <2>1, <2>2
<1> QED BY <1>1, <1>2

\* A table moves to another address of a decoder, or of the one it is for.
LEMMA RetargetType ==
  ASSUME NEW K, NEW st \in StoresOf(K), NEW a \in Addresses
  PROVE  /\ \A d \in Decoders \cup {NoDecoder} : Retarget(st, <<d, a>>) \in StoresOf(K)
         /\ Retarget(st, <<st.snap.scope[1], a>>) \in StoresOf(K)
<1>1. ASSUME NEW s \in Scopes PROVE Retarget(st, s) \in StoresOf(K)
  <2>1. [st.snap EXCEPT !.scope = s] \in Snaps(K)
    BY DEF StoresOf, Snaps
  <2> QED BY <2>1, EmitType DEF Retarget
<1>2. CASE st.snap.scope = NoScope
  BY <1>1, <1>2, ScopeType DEF Retarget
<1>3. CASE st.snap.scope # NoScope
  <2>1. st.snap.scope \in Scopes
    BY <1>3 DEF StoresOf, Snaps
  <2>2. PICK u \in Urls : st.snap.scope = Scope(u)
    BY <2>1 DEF Scopes
  <2>3. st.snap.scope[1] \in Decoders \cup {NoDecoder}
    BY <2>2 DEF Scope, Urls
  <2> QED BY <1>1, <2>3, ScopeType
<1> QED BY <1>2, <1>3

-----------------------------------------------------------------------------
(* Requests: each CV is in one place, and a write's values are the CVs'.   *)

Kinds == {"auto", "read", "page", "locate", "verify", "write", "side", "set"}

KeysOf(kind) == IF kind \in {"page", "side"} THEN SideKeys ELSE MainKeys

Asks == UNION {[D -> Nat \cup {Unread}] : D \in SUBSET Keys}

OneToken(op) ==
  /\ DOMAIN op.got \cap op.errs = {}
  /\ DOMAIN op.todo \cap (DOMAIN op.got \cup op.errs) = {}

Requests ==
  {op \in [kind : Kinds, url : Urls, pend : Asks, todo : Asks, got : Asks,
           sure : SUBSET Keys, errs : SUBSET Keys, heard : SUBSET Locos,
           owner : SUBSET Locos] :
     /\ DOMAIN op.todo \subseteq KeysOf(op.kind)
     /\ Writing(op) => op.todo \in Maps(KeysOf(op.kind))
     /\ op.got \in Maps(KeysOf(op.kind))
     /\ OneToken(op)}

\* Typing with the values each CV can have.
Typed ==
  /\ mem \in [Locos -> [Keys -> Nat]]
  /\ \A l \in Locos, k \in Keys : mem[l][k] \in Values(k)
  /\ prog \in Locos
  /\ url \in Urls /\ shown \in Urls \cup {NoUrl} /\ hist \in Seq(Urls)
  /\ main \in StoresOf(MainKeys) /\ side \in StoresOf(SideKeys)
  /\ rows \in Maps(MainKeys)
  /\ ops \in Seq(Requests)

LEMMA MapsAreAsks == \A K \in SUBSET Keys : Maps(K) \subseteq Asks
<1> SUFFICES ASSUME NEW K \in SUBSET Keys, NEW f \in Maps(K) PROVE f \in Asks
  OBVIOUS
<1>1. DOMAIN f \in SUBSET Keys /\ f \in [DOMAIN f -> Nat \cup {Unread}]
  BY MapElim, ValuesNat
<1> QED BY <1>1 DEF Asks

LEMMA KeysOfKeys == \A kind : KeysOf(kind) \subseteq Keys
BY DEF KeysOf, Keys

\* Those who hear a command, or own a table, are locomotives.
LEMMA ReachType ==
  ASSUME Typed
  PROVE  (\A u : Reach(u) \subseteq Locos) /\ (\A a : Owners(a) \subseteq Locos)
BY DEF Reach, Owners, Bearers, Typed

LEMMA AskedRequest ==
  ASSUME Typed, NEW kind \in {"auto", "read", "page", "locate"}, NEW u \in Urls,
         NEW K \in SUBSET KeysOf(kind)
  PROVE  Request(kind, u, Asked(K)) \in Requests
<1>1. Asked(K) \in Asks /\ DOMAIN Asked(K) = K
  <2>1. Asked(K) \in [K -> Nat \cup {Unread}] /\ K \in SUBSET Keys
    BY KeysOfKeys DEF Asked
  <2> QED BY <2>1 DEF Asks
<1>2. Nothing \in Maps(KeysOf(kind)) /\ Nothing \in Asks /\ DOMAIN Nothing = {}
  BY NothingMap, MapsAreAsks, KeysOfKeys
<1>3. /\ kind \in Kinds /\ Reach(u) \in SUBSET Locos /\ {prog} \in SUBSET Locos
      /\ Owners(u.addr) \in SUBSET Locos
  BY ReachType DEF Kinds, Typed
<1> QED BY <1>1, <1>2, <1>3 DEF Request, Requests, Writing, OneToken

LEMMA WriteRequest ==
  ASSUME Typed, NEW kind \in {"write", "side", "set"}, NEW u \in Urls,
         NEW e \in Maps(KeysOf(kind))
  PROVE  Request(kind, u, e) \in Requests
<1>1. e \in Asks /\ DOMAIN e \subseteq KeysOf(kind)
  BY MapsAreAsks, KeysOfKeys, MapElim
<1>2. Nothing \in Maps(KeysOf(kind)) /\ Nothing \in Asks /\ DOMAIN Nothing = {}
  BY NothingMap, MapsAreAsks, KeysOfKeys
<1>3. /\ kind \in Kinds /\ Reach(u) \in SUBSET Locos /\ {prog} \in SUBSET Locos
      /\ Owners(u.addr) \in SUBSET Locos
  BY ReachType DEF Kinds, Typed
<1> QED BY <1>1, <1>2, <1>3 DEF Request, Requests, OneToken

\* What a step of the daemon leaves to do.
LEMMA LessToDo ==
  ASSUME NEW op \in Requests, NEW k \in DOMAIN op.todo
  PROVE  LET t == Only(op.todo, DOMAIN op.todo \ {k})
         IN  /\ t \in Asks /\ DOMAIN t = DOMAIN op.todo \ {k}
             /\ Writing(op) => t \in Maps(KeysOf(op.kind))
<1> DEFINE t == Only(op.todo, DOMAIN op.todo \ {k})
<1>1. DOMAIN t = DOMAIN op.todo \ {k}
  BY DEF Only
<1>2. PICK D \in SUBSET Keys : op.todo \in [D -> Nat \cup {Unread}]
  BY DEF Requests, Asks
<1>3. t \in [D \ {k} -> Nat \cup {Unread}] /\ D \ {k} \in SUBSET Keys
  BY <1>1, <1>2 DEF Only
<1>4. t \in Asks
  BY <1>3 DEF Asks
<1>5. Writing(op) => t \in Maps(KeysOf(op.kind))
  BY OnlyMap DEF Requests
<1> QED BY <1>1, <1>4, <1>5

\* A CV that fails, and one that is done.
LEMMA Failing ==
  ASSUME NEW op \in Requests, NEW k \in DOMAIN op.todo
  PROVE  [op EXCEPT !.todo = Only(@, DOMAIN @ \ {k}), !.errs = @ \cup {k}] \in Requests
<1> DEFINE t == Only(op.todo, DOMAIN op.todo \ {k})
           new == [op EXCEPT !.todo = t, !.errs = @ \cup {k}]
<1>1. /\ t \in Asks /\ DOMAIN t = DOMAIN op.todo \ {k}
      /\ Writing(op) => t \in Maps(KeysOf(op.kind))
  BY LessToDo
<1>2. k \in Keys
  BY KeysOfKeys DEF Requests
<1> HIDE DEF t
<1>3. /\ new.kind = op.kind /\ new.todo = t /\ new.got = op.got
      /\ new.errs = op.errs \cup {k}
      /\ new \in [kind : Kinds, url : Urls, pend : Asks, todo : Asks, got : Asks,
                  sure : SUBSET Keys, errs : SUBSET Keys, heard : SUBSET Locos,
                  owner : SUBSET Locos]
  BY <1>1, <1>2 DEF Requests
<1>4. OneToken(new)
  BY <1>1, <1>3 DEF Requests, OneToken
<1>5. new \in Requests
  BY <1>1, <1>3, <1>4 DEF Requests, Writing
<1> QED BY <1>5 DEF t

LEMMA Succeeding ==
  ASSUME NEW op \in Requests, NEW k \in DOMAIN op.todo, NEW v \in Values(k),
         NEW S \in SUBSET Keys
  PROVE  [op EXCEPT !.todo = Only(@, DOMAIN @ \ {k}), !.got = Put(@, One(k, v)),
                    !.sure = S] \in Requests
<1> DEFINE t == Only(op.todo, DOMAIN op.todo \ {k})
           g == Put(op.got, One(k, v))
           new == [op EXCEPT !.todo = t, !.got = g, !.sure = S]
<1>1. /\ t \in Asks /\ DOMAIN t = DOMAIN op.todo \ {k}
      /\ Writing(op) => t \in Maps(KeysOf(op.kind))
  BY LessToDo
<1>2. k \in KeysOf(op.kind) /\ op.got \in Maps(KeysOf(op.kind))
  BY DEF Requests
<1>3. /\ g \in Maps(KeysOf(op.kind))
      /\ DOMAIN g = DOMAIN op.got \cup {k}
  <2>1. One(k, v) \in Maps(KeysOf(op.kind)) /\ DOMAIN One(k, v) = {k}
    BY <1>2, OneMap
  <2> QED BY <1>2, <2>1, PutMap
<1>4. g \in Asks
  BY <1>3, MapsAreAsks, KeysOfKeys
<1> HIDE DEF t, g
<1>5. /\ new.kind = op.kind /\ new.todo = t /\ new.got = g /\ new.errs = op.errs
      /\ new \in [kind : Kinds, url : Urls, pend : Asks, todo : Asks, got : Asks,
                  sure : SUBSET Keys, errs : SUBSET Keys, heard : SUBSET Locos,
                  owner : SUBSET Locos]
  BY <1>1, <1>4 DEF Requests
<1>6. OneToken(new)
  BY <1>1, <1>3, <1>5 DEF Requests, OneToken
<1>7. new \in Requests
  BY <1>1, <1>3, <1>5, <1>6 DEF Requests, Writing
<1> QED BY <1>7 DEF t, g

\* Another kind of request for other CVs of the same locomotives.
LEMMA GoingOn ==
  ASSUME NEW op \in Requests, NEW kind \in Kinds, NEW e \in Asks,
         DOMAIN e \subseteq KeysOf(kind),
         kind \in {"write", "side", "set"} => e \in Maps(KeysOf(kind)), NEW E \in SUBSET Keys,
         DOMAIN e \cap E = {}
  PROVE  [op EXCEPT !.kind = kind, !.pend = e, !.todo = e, !.got = Nothing, !.sure = {},
                    !.errs = E] \in Requests
<1> DEFINE new == [op EXCEPT !.kind = kind, !.pend = e, !.todo = e, !.got = Nothing,
                             !.sure = {}, !.errs = E]
<1>1. Nothing \in Maps(KeysOf(kind)) /\ Nothing \in Asks /\ DOMAIN Nothing = {}
  BY NothingMap, MapsAreAsks, KeysOfKeys
<1>2. /\ new.kind = kind /\ new.todo = e /\ new.got = Nothing /\ new.errs = E
      /\ new \in [kind : Kinds, url : Urls, pend : Asks, todo : Asks, got : Asks,
                  sure : SUBSET Keys, errs : SUBSET Keys, heard : SUBSET Locos,
                  owner : SUBSET Locos]
  BY <1>1 DEF Requests
<1>3. OneToken(new)
  BY <1>1, <1>2 DEF OneToken
<1> HIDE DEF new
<1>4. new \in Requests
  BY <1>1, <1>2, <1>3 DEF Requests, Writing
<1> QED BY <1>4 DEF new

\* The oldest request is one, and can be replaced by another.
LEMMA Oldest ==
  ASSUME Typed, ops # <<>>
  PROVE  /\ Head(ops) \in Requests
         /\ Tail(ops) \in Seq(Requests)
         /\ \A op \in Requests : <<op>> \o Tail(ops) \in Seq(Requests)
BY DEF Typed

\* Without the last element.
LEMMA FrontType ==
  ASSUME NEW S, NEW s \in Seq(S), s # <<>>
  PROVE  Front(s) \in Seq(S) /\ Last(s) \in S
<1>1. Len(s) \in Nat /\ Len(s) # 0 /\ \A i \in 1..Len(s) : s[i] \in S
  OBVIOUS
<1>2. \A i \in 1..(Len(s) - 1) : s[i] \in S
  BY <1>1
<1>3. SubSeq(s, 1, Len(s) - 1) \in Seq(S)
  BY <1>1, <1>2, SubSeqProperties
<1> QED BY <1>1, <1>3 DEF Front, Last

-----------------------------------------------------------------------------
(* Every reachable state is Typed.                                         *)

LEMMA TypedInit == Init => Typed
<1> SUFFICES ASSUME Init PROVE Typed
  OBVIOUS
<1>1. main \in StoresOf(MainKeys) /\ side \in StoresOf(SideKeys)
  BY NewStoreType DEF Init
<1>2. rows \in Maps(MainKeys)
  BY NothingMap DEF Init
<1>3. url \in Urls /\ shown \in Urls \cup {NoUrl} /\ hist = <<>> /\ ops = <<>>
  BY DEF Init
<1>4. hist \in Seq(Urls) /\ ops \in Seq(Requests)
  BY <1>3
<1>5. mem = Factory /\ prog \in Locos
  BY DEF Init
<1> QED BY <1>1, <1>2, <1>3, <1>4, <1>5, RegistryAssumption DEF Typed

\* Three address CVs give an address, and so does a table that shows one.
LEMMA AddressType ==
  ASSUME NEW f, f["A"] \in Addresses, f["L"] \in Addresses
  PROVE  Address(f) \in Addresses
BY DEF Address

LEMMA GivenAddress ==
  ASSUME NEW st \in StoresOf(MainKeys)
  PROVE  /\ Address(Displayed(st)) \in Addresses \cup {0}
         /\ (\A k \in AddressKeys : Known(st, k)) => Address(Displayed(st)) \in Addresses
<1> DEFINE f == Displayed(st)
<1>1. ASSUME NEW k \in {"A", "L"}
      PROVE  f[k] \in Addresses \cup {0} /\ (Known(st, k) => f[k] \in Addresses)
  <2>1. f[k] = IF Known(st, k) THEN Get(st, k) ELSE 0
    BY DEF Displayed, AddressKeys
  <2>2. Known(st, k) => Get(st, k) \in Addresses
    BY GetType DEF Values
  <2> QED BY <2>1, <2>2
<1>2. "A" \in AddressKeys /\ "L" \in AddressKeys
  BY DEF AddressKeys
<1> HIDE DEF f
<1>3. Address(f) \in Addresses \cup {0}
  BY <1>1 DEF Address
<1>4. (\A k \in AddressKeys : Known(st, k)) => Address(f) \in Addresses
  BY <1>1, <1>2 DEF Address
<1> QED BY <1>3, <1>4 DEF f

\* The address effect leaves the main table, the URL and the requests typed.
LEMMA AddressEffectTyped ==
  ASSUME Typed, NEW st \in StoresOf(MainKeys), AddressEffect(st)
  PROVE  main' \in StoresOf(MainKeys) /\ url' \in Urls /\ ops' \in Seq(Requests)
<1> DEFINE rest == IF ops # <<>> /\ Last(ops).kind = "auto" THEN Front(ops) ELSE ops
           a == Address(Displayed(st))
           known == \A k \in AddressKeys : Known(st, k)
<1>1. rest \in Seq(Requests)
  BY FrontType DEF Typed
<1>2. known => a \in Addresses
  BY GivenAddress
<1> HIDE DEF rest, a, known
<1>3. CASE url.dec = NoDecoder \/ url.addr # 0
  <2>1. main' = st /\ url' = url /\ ops' = rest
    BY <1>3 DEF AddressEffect, rest
  <2> QED BY <1>1, <2>1 DEF Typed
<1>4. CASE ~(url.dec = NoDecoder \/ url.addr # 0) /\ known
  <2>1. /\ main' = Retarget(st, <<url.dec, a>>) /\ url' = [url EXCEPT !.addr = a]
        /\ ops' = rest
    BY <1>4 DEF AddressEffect, rest, a, known
  <2>2. url.dec \in Decoders \cup {NoDecoder} /\ url' \in Urls
    BY <1>2, <1>4, <2>1 DEF Typed, Urls
  <2>3. main' \in StoresOf(MainKeys)
    BY <1>2, <1>4, <2>1, <2>2, RetargetType
  <2> QED BY <1>1, <2>1, <2>2, <2>3
<1>5. CASE ~(url.dec = NoDecoder \/ url.addr # 0) /\ ~known
  <2>1. /\ main' = st /\ url' = url
        /\ ops' = Append(rest, Request("auto", url, Asked(AddressKeys)))
    BY <1>5 DEF AddressEffect, rest, known
  <2>2. AddressKeys \in SUBSET KeysOf("auto")
    BY DEF KeysOf, MainKeys
  <2>3. Request("auto", url, Asked(AddressKeys)) \in Requests
    BY <2>2, AskedRequest DEF Typed
  <2> QED BY <1>1, <2>1, <2>3 DEF Typed
<1> QED BY <1>3, <1>4, <1>5

LEMMA RenderTyped == ASSUME Typed, Render PROVE Typed'
<1>1. Scope(url) \in Scopes
  BY ScopeType DEF Typed
<1>2. EnsureScope(main, Scope(url)) \in StoresOf(MainKeys)
  BY <1>1, EnsureScopeType DEF Typed
<1>3. side' \in StoresOf(SideKeys)
  BY <1>1, EnsureScopeType DEF Render, Typed
<1>4. rows' \in Maps(MainKeys)
  BY NothingMap DEF Render, Typed
<1>5. main' \in StoresOf(MainKeys) /\ url' \in Urls /\ ops' \in Seq(Requests)
  BY <1>2, AddressEffectTyped DEF Render, Typed
<1>6. shown' \in Urls /\ UNCHANGED <<mem, prog, hist>>
  BY DEF Render, Typed
<1> QED BY <1>3, <1>4, <1>5, <1>6 DEF Typed

\* Actions of the user that only touch the tables.
LEMMA QuietTyped ==
  ASSUME Typed, Quiet, rows' = rows,
         main' \in StoresOf(MainKeys), side' \in StoresOf(SideKeys)
  PROVE  Typed'
BY DEF Quiet, nav, Typed

LEMMA DiscardAllTyped ==
  ASSUME Typed, DiscardAll
  PROVE  main' \in StoresOf(MainKeys) /\ side' \in StoresOf(SideKeys)
BY DiscardType DEF DiscardAll, Typed

LEMMA UnnamedType ==
  \A v \in Values("M"), k \in 0..1 : Unnamed(v) + k \in Values("M")
<1> SUFFICES ASSUME NEW v \in 0..3, NEW k \in 0..1 PROVE Unnamed(v) + k \in 0..3
  BY DEF Values
<1>1. v = 0 \/ v = 1 \/ v = 2 \/ v = 3
  OBVIOUS
<1>2. 0 % 2 = 0 /\ 1 % 2 = 1 /\ 2 % 2 = 0 /\ 3 % 2 = 1
  OBVIOUS
<1> QED BY <1>1, <1>2 DEF Unnamed

LEMMA EditTyped == ASSUME Typed, Edit PROVE Typed'
<1>1. ASSUME NEW k \in MainKeys \ {"M"}, NEW v \in Inputs[k], EditNumber(k, v) PROVE Typed'
  <2>1. One(k, v) \in Maps(MainKeys)
    BY OneMap, RegistryAssumption
  <2>2. main' \in StoresOf(MainKeys)
    BY <1>1, <2>1, SetManyType DEF EditNumber, Typed
  <2> QED BY <1>1, <2>2, QuietTyped DEF EditNumber, Typed
<1>2. ASSUME NEW k \in 0..1, EditBit(k) PROVE Typed'
  <2> DEFINE previous == IF Known(main, "M") THEN Get(main, "M")
                         ELSE IF "M" \in DOMAIN rows THEN rows["M"] ELSE 0
  <2>1. previous \in Values("M")
    <3>1. Known(main, "M") => Get(main, "M") \in Values("M")
      BY GetType DEF Typed
    <3>2. "M" \in DOMAIN rows => rows["M"] \in Values("M")
      BY MapElim DEF Typed
    <3>3. 0 \in Values("M")
      BY DEF Values
    <3> QED BY <3>1, <3>2, <3>3
  <2>2. main' = SetMany(main, One("M", Unnamed(previous) + k))
    BY <1>2 DEF EditBit
  <2> HIDE DEF previous
  <2>3. One("M", Unnamed(previous) + k) \in Maps(MainKeys)
    BY <2>1, UnnamedType, OneMap DEF MainKeys, AddressKeys
  <2>4. main' \in StoresOf(MainKeys)
    BY <2>2, <2>3, SetManyType DEF Typed
  <2> QED BY <1>2, <2>4, QuietTyped DEF EditBit, Typed
<1>3. ASSUME NEW v \in 0..1, EditSide(v) PROVE Typed'
  <2>1. One("S", v) \in Maps(SideKeys)
    BY OneMap DEF SideKeys, Values
  <2>2. side' \in StoresOf(SideKeys)
    BY <1>3, <2>1, SetManyType DEF EditSide, Typed
  <2> QED BY <1>3, <2>2, QuietTyped DEF EditSide, Typed
<1>4. ASSUME DiscardChanges PROVE Typed'
  BY <1>4, DiscardAllTyped, QuietTyped DEF DiscardChanges
<1> QED BY <1>1, <1>2, <1>3, <1>4 DEF Edit

\* A new entry of the history.
LEMMA PushTyped ==
  ASSUME Typed, NEW u \in Urls, Push(u),
         main' \in StoresOf(MainKeys), side' \in StoresOf(SideKeys)
  PROVE  Typed'
<1>1. hist' \in Seq(Urls)
  BY DEF Push, Typed
<1> QED BY <1>1 DEF Push, Typed

LEMMA GuardedTyped ==
  ASSUME Typed, Guarded
  PROVE  main' \in StoresOf(MainKeys) /\ side' \in StoresOf(SideKeys)
BY DiscardAllTyped DEF Guarded, stores, Typed

LEMMA LeaveTyped == ASSUME Typed PROVE \A p : Leave(p) \in StoresOf(SideKeys)
BY DiscardType DEF Leave, Typed

LEMMA NavigateTyped == ASSUME Typed, Navigate PROVE Typed'
<1>1. ASSUME NEW a \in Addresses \cup {0}, ChangeAddress(a) PROVE Typed'
  <2>1. [url EXCEPT !.addr = a] \in Urls
    BY DEF Typed, Urls
  <2> QED BY <1>1, <2>1, PushTyped, GuardedTyped DEF ChangeAddress
<1>6. ASSUME NEW t \in {"prog", "pom"}, ChangeTrack(t) PROVE Typed'
  <2>1. [url EXCEPT !.track = t] \in Urls
    BY DEF Typed, Urls
  <2> QED BY <1>6, <2>1, PushTyped DEF ChangeTrack, stores, Typed
<1>2. ASSUME NEW d \in Decoders, ChangeDecoder(d) \/ PickTile(d) PROVE Typed'
  <2>1. [url EXCEPT !.dec = d] \in Urls
    BY DEF Typed, Urls
  <2>2. CASE ChangeDecoder(d)
    BY <2>1, <2>2, PushTyped, GuardedTyped DEF ChangeDecoder
  <2>3. CASE PickTile(d)
    BY <2>1, <2>3, PushTyped DEF PickTile, stores, Typed
  <2> QED BY <1>2, <2>2, <2>3
<1>3. ASSUME NEW p \in Pages, Goto(p) PROVE Typed'
  <2>1. [url EXCEPT !.page = p] \in Urls
    BY DEF Typed, Urls
  <2> QED BY <1>3, <2>1, PushTyped, LeaveTyped DEF Goto, Typed
<1>4. ASSUME Back PROVE Typed'
  <2>1. url' \in Urls /\ hist' \in Seq(Urls)
    BY <1>4, FrontType DEF Back, Typed
  <2>2. side' \in StoresOf(SideKeys)
    BY <1>4, LeaveTyped DEF Back
  <2> QED BY <1>4, <2>1, <2>2 DEF Back, Typed
<1>5. ASSUME Reload PROVE Typed'
  <2>1. main' \in StoresOf(MainKeys) /\ side' \in StoresOf(SideKeys)
    BY <1>5, ReloadedType DEF Reload, Typed
  <2>2. rows' \in Maps(MainKeys)
    BY <1>5, NothingMap DEF Reload
  <2>3. ops' \in Seq(Requests)
    BY <1>5 DEF Reload
  <2> QED BY <1>5, <2>1, <2>2, <2>3 DEF Reload, Typed
<1> QED BY <1>1, <1>2, <1>3, <1>4, <1>5, <1>6 DEF Navigate

\* A user's action runs on the page of the URL.
LEMMA ActsOnShown == ASSUME Typed, User PROVE shown \in Urls
BY DEF User, Rendered, Typed

LEMMA SendTyped ==
  ASSUME Typed, NEW kind, NEW e, Send(kind, e), Request(kind, shown, e) \in Requests
  PROVE  Typed'
<1>1. ops' \in Seq(Requests)
  BY DEF Send
<1> QED BY <1>1 DEF Send, nav, stores, Typed

\* Locomotives that take a value a CV can have.
LEMMA TakeTyped ==
  ASSUME Typed, NEW L, NEW k \in Keys, NEW v \in Values(k), Take(L, k, v)
  PROVE  /\ mem' \in [Locos -> [Keys -> Nat]]
         /\ \A l \in Locos, j \in Keys : mem'[l][j] \in Values(j)
<1>1. ASSUME NEW l \in Locos
      PROVE  /\ Taken(l, k, v) \in [Keys -> Nat]
             /\ \A j \in Keys : Taken(l, k, v)[j] \in Values(j)
  <2>1. mem[l] \in [Keys -> Nat] /\ \A j \in Keys : mem[l][j] \in Values(j)
    BY DEF Typed
  <2> QED BY <2>1, ValuesNat DEF Taken
<1>2. mem' = [l \in Locos |-> IF l \in L THEN Taken(l, k, v) ELSE mem[l]]
  BY DEF Take
<1> QED BY <1>1, <1>2 DEF Typed

\* The CVs of an address that is set.
LEMMA SetTyped ==
  ASSUME Typed, NEW a \in Addresses, SetAddress(a)
  PROVE  \E e \in Maps(MainKeys) : Send("set", e) /\ KeepsApart({prog}, e)
<1> DEFINE bit == IF a \in Longs THEN 1 ELSE 0
           key == IF a \in Longs THEN "L" ELSE "A"
           v == Unnamed(mem[prog]["M"]) + bit
<1>1. key \in MainKeys /\ "M" \in MainKeys /\ "M" \in Keys /\ a \in Values(key) /\ bit \in 0..1
  BY DEF MainKeys, AddressKeys, Values, Keys
<1>2. mem[prog]["M"] \in Values("M")
  BY <1>1 DEF Typed
<1>3. v \in Values("M")
  BY <1>1, <1>2, UnnamedType
<1> DEFINE e == Put(One(key, a), One("M", v))
<1>4. Send("set", e) /\ KeepsApart({prog}, e)
  BY DEF SetAddress
<1> HIDE DEF key, v
<1>5. One(key, a) \in Maps(MainKeys) /\ One("M", v) \in Maps(MainKeys)
  BY <1>1, <1>3, OneMap
<1>6. e \in Maps(MainKeys)
  BY <1>5, PutMap
<1> HIDE DEF e
<1> QED BY <1>4, <1>6

LEMMA AskTyped == ASSUME Typed, Ask PROVE Typed'
<1>1. ASSUME NEW k \in MainKeys, ReadOne(k) PROVE Typed'
  <2>1. {k} \in SUBSET KeysOf("read")
    BY DEF KeysOf
  <2>2. Request("read", shown, Asked({k})) \in Requests
    BY <1>1, <2>1, AskedRequest, ActsOnShown DEF ReadOne, Send, UserIdle
  <2> QED BY <1>1, <2>2, SendTyped DEF ReadOne
<1>2. ASSUME ReadPage PROVE Typed'
  <2>1. SideKeys \in SUBSET KeysOf("page")
    BY DEF KeysOf
  <2>2. Request("page", shown, Asked(SideKeys)) \in Requests
    BY <1>2, <2>1, AskedRequest, ActsOnShown DEF ReadPage, Send, UserIdle
  <2> QED BY <1>2, <2>2, SendTyped DEF ReadPage
<1>3. ASSUME Apply PROVE Typed'
  <2>1. CASE Send("write", Diffs(main))
    <3>1. Diffs(main) \in Maps(KeysOf("write"))
      BY DiffsType DEF KeysOf, Typed
    <3>2. Request("write", shown, Diffs(main)) \in Requests
      BY <2>1, <3>1, WriteRequest, ActsOnShown DEF Send, UserIdle
    <3> QED BY <2>1, <3>2, SendTyped
  <2>2. CASE Send("side", SideDiffs)
    <3>1. SideDiffs \in Maps(KeysOf("side"))
      BY DiffsType, NothingMap DEF SideDiffs, KeysOf, Typed
    <3>2. Request("side", shown, SideDiffs) \in Requests
      BY <2>2, <3>1, WriteRequest, ActsOnShown DEF Send, UserIdle
    <3> QED BY <2>2, <3>2, SendTyped
  <2> QED BY <1>3, <2>1, <2>2 DEF Apply
<1>4. ASSUME Cancel PROVE Typed'
  <2>1. main' \in StoresOf(MainKeys) /\ ops' \in Seq(Requests)
    BY <1>4, FlushType DEF Cancel, Typed
  <2> QED BY <1>4, <2>1 DEF Cancel, nav, Typed
<1>5. ASSUME NEW k \in MainKeys, NEW v \in Inputs[k], Restore(k, v) PROVE Typed'
  <2>1. v \in Values(k) /\ k \in Keys
    BY RegistryAssumption DEF Keys
  <2>2. /\ mem' \in [Locos -> [Keys -> Nat]]
        /\ \A l \in Locos, j \in Keys : mem'[l][j] \in Values(j)
    BY <1>5, <2>1, TakeTyped DEF Restore
  <2> QED BY <1>5, <2>2 DEF Restore, nav, stores, Typed
<1>6. ASSUME Locate PROVE Typed'
  <2>1. AddressKeys \in SUBSET KeysOf("locate")
    BY DEF KeysOf, MainKeys
  <2>2. Request("locate", shown, Asked(AddressKeys)) \in Requests
    BY <1>6, <2>1, AskedRequest, ActsOnShown DEF Locate, Send, UserIdle
  <2> QED BY <1>6, <2>2, SendTyped DEF Locate
<1>7. ASSUME NEW a \in Addresses, SetAddress(a) PROVE Typed'
  <2>1. PICK e \in Maps(MainKeys) : Send("set", e)
    BY <1>7, SetTyped
  <2>2. KeysOf("set") = MainKeys
    BY DEF KeysOf
  <2>3. Request("set", shown, e) \in Requests
    BY <2>1, <2>2, WriteRequest, ActsOnShown DEF Send, UserIdle
  <2> QED BY <2>1, <2>3, SendTyped
<1> QED BY <1>1, <1>2, <1>3, <1>4, <1>5, <1>6, <1>7 DEF Ask

LEMMA ReadNextTyped == ASSUME Typed, ReadNext PROVE Typed'
<1> DEFINE op == Head(ops)
<1>1. /\ op \in Requests /\ ops # <<>> /\ ~Writing(op)
      /\ \A new \in Requests : <<new>> \o Tail(ops) \in Seq(Requests)
  BY Oldest DEF ReadNext
<1>2. PICK k \in DOMAIN op.todo :
        LET after == [op EXCEPT !.todo = Only(@, DOMAIN @ \ {k})]
        IN  \/ /\ ops' = <<[after EXCEPT !.errs = @ \cup {k}]>> \o Tail(ops)
               /\ main' = main
            \/ \E l \in op.heard :
                 LET e == One(k, mem[l][k])
                     read == [after EXCEPT !.got = Put(@, e), !.sure = @ \cup {k}]
                 IN  /\ ops' = <<read>> \o Tail(ops)
                     /\ IF op.kind \in {"page", "verify"} THEN main' = main
                        ELSE main' = RememberRead(main, e)
  BY DEF ReadNext
<1> HIDE DEF op
<1> DEFINE after == [op EXCEPT !.todo = Only(@, DOMAIN @ \ {k})]
<1>3. k \in Keys /\ k \in KeysOf(op.kind) /\ op.sure \cup {k} \in SUBSET Keys
  BY <1>1, KeysOfKeys DEF Requests
<1>4. main' \in StoresOf(MainKeys) /\ ops' \in Seq(Requests)
  <2>1. CASE /\ ops' = <<[after EXCEPT !.errs = @ \cup {k}]>> \o Tail(ops)
             /\ main' = main
    <3>1. [op EXCEPT !.todo = Only(@, DOMAIN @ \ {k}), !.errs = @ \cup {k}] \in Requests
      BY <1>1, Failing
    <3>2. [after EXCEPT !.errs = @ \cup {k}]
            = [op EXCEPT !.todo = Only(@, DOMAIN @ \ {k}), !.errs = @ \cup {k}]
      BY <1>1 DEF Requests
    <3> QED BY <1>1, <2>1, <3>1, <3>2 DEF Typed
  <2>2. ASSUME NEW l \in op.heard,
               ops' = <<[after EXCEPT !.got = Put(@, One(k, mem[l][k])),
                                      !.sure = @ \cup {k}]>> \o Tail(ops),
               main' = main \/ (op.kind # "page" /\ main' = RememberRead(main, One(k, mem[l][k])))
        PROVE  main' \in StoresOf(MainKeys) /\ ops' \in Seq(Requests)
    <3>1. l \in Locos /\ mem[l][k] \in Values(k)
      BY <1>1, <1>3 DEF Requests, Typed
    <3>2. [op EXCEPT !.todo = Only(@, DOMAIN @ \ {k}), !.got = Put(@, One(k, mem[l][k])),
                     !.sure = op.sure \cup {k}] \in Requests
      BY <1>1, <1>3, <3>1, Succeeding
    <3>3. [after EXCEPT !.got = Put(@, One(k, mem[l][k])), !.sure = @ \cup {k}]
            = [op EXCEPT !.todo = Only(@, DOMAIN @ \ {k}), !.got = Put(@, One(k, mem[l][k])),
                         !.sure = op.sure \cup {k}]
      BY <1>1 DEF Requests
    <3>4. ops' \in Seq(Requests)
      BY <1>1, <2>2, <3>2, <3>3
    <3>5. CASE op.kind # "page" /\ main' = RememberRead(main, One(k, mem[l][k]))
      <4>1. op.kind # "side"
        BY <1>1, <3>5 DEF Writing
      <4>2. One(k, mem[l][k]) \in Maps(MainKeys)
        BY <1>3, <3>1, <3>5, <4>1, OneMap DEF KeysOf
      <4> QED BY <3>4, <3>5, <4>2, RememberReadType DEF Typed
    <3> QED BY <2>2, <3>4, <3>5 DEF Typed
  <2> QED BY <1>2, <2>1, <2>2
<1> QED BY <1>4 DEF ReadNext, nav, Typed

LEMMA WriteNextTyped == ASSUME Typed, WriteNext PROVE Typed'
<1> DEFINE op == Head(ops)
           after(k, ok, S) ==
             [op EXCEPT !.todo = Only(@, DOMAIN @ \ {k}),
                        !.got = IF ok THEN Put(@, One(k, op.todo[k])) ELSE @,
                        !.sure = IF S THEN @ \cup {k} ELSE @,
                        !.errs = IF ok THEN @ ELSE @ \cup {k}]
<1>1. /\ op \in Requests /\ ops # <<>> /\ Writing(op)
      /\ \A new \in Requests : <<new>> \o Tail(ops) \in Seq(Requests)
  BY Oldest DEF WriteNext
<1>2. PICK k \in DOMAIN op.todo, ok \in BOOLEAN, taken \in BOOLEAN :
        /\ ops' = <<after(k, ok, ok /\ taken /\ Hears(op) = op.heard)>> \o Tail(ops)
        /\ Take(IF taken THEN Hears(op) ELSE {}, k, op.todo[k])
  BY DEF WriteNext
<1>3. PICK S \in BOOLEAN : ops' = <<after(k, ok, S)>> \o Tail(ops) /\ (S => ok)
  BY <1>2
<1> HIDE DEF op
<1>4. k \in Keys /\ k \in KeysOf(op.kind) /\ op.todo[k] \in Values(k)
  BY <1>1, KeysOfKeys, MapElim DEF Requests
<1>5. ops' \in Seq(Requests)
  <2>1. CASE ok
    <3> DEFINE T == IF S THEN op.sure \cup {k} ELSE op.sure
    <3>1. T \in SUBSET Keys
      BY <1>1, <1>4 DEF Requests
    <3>2. after(k, ok, S)
            = [op EXCEPT !.todo = Only(@, DOMAIN @ \ {k}), !.got = Put(@, One(k, op.todo[k])),
                         !.sure = T]
      BY <1>1, <2>1 DEF Requests
    <3> HIDE DEF T
    <3> QED BY <1>1, <1>3, <1>4, <3>1, <3>2, Succeeding
  <2>2. CASE ~ok
    <3>1. after(k, ok, S)
            = [op EXCEPT !.todo = Only(@, DOMAIN @ \ {k}), !.errs = @ \cup {k}]
      BY <1>1, <1>3, <2>2 DEF Requests
    <3> QED BY <1>1, <1>3, <3>1, Failing
  <2> QED BY <2>1, <2>2
<1>6. /\ mem' \in [Locos -> [Keys -> Nat]]
      /\ \A l \in Locos, j \in Keys : mem'[l][j] \in Values(j)
  BY <1>2, <1>4, TakeTyped
<1> QED BY <1>5, <1>6 DEF WriteNext, nav, stores, Typed

LEMMA ClosedType ==
  ASSUME NEW st \in StoresOf(MainKeys), NEW rest
  PROVE  Closed(st, rest) \in StoresOf(MainKeys)
BY FlushType DEF Closed

\* What an answer holds.
LEMMA AnswerType ==
  ASSUME Typed, NEW kinds, Answered(kinds)
  PROVE  /\ Head(ops) \in Requests /\ Head(ops).kind \in kinds
         /\ Head(ops).got \in Maps(KeysOf(Head(ops).kind)) /\ Head(ops).url \in Urls
         /\ Tail(ops) \in Seq(Requests)
BY Oldest DEF Answered, Requests

LEMMA ReadDoneTyped == ASSUME Typed, ReadDone PROVE Typed'
<1>1. Head(ops).got \in Maps(MainKeys) /\ Tail(ops) \in Seq(Requests)
  BY AnswerType DEF ReadDone, KeysOf
<1>2. main' \in StoresOf(MainKeys)
  BY <1>1, RememberReadType, ClosedType DEF ReadDone, Typed
<1>3. rows' \in Maps(MainKeys)
  BY <1>1, PutMap DEF ReadDone, Typed
<1> QED BY <1>1, <1>2, <1>3 DEF ReadDone, nav, Typed

LEMMA PageDoneTyped == ASSUME Typed, PageDone PROVE Typed'
<1>1. Head(ops).got \in Maps(SideKeys) /\ Tail(ops) \in Seq(Requests)
  BY AnswerType DEF PageDone, KeysOf
<1>2. main' \in StoresOf(MainKeys) /\ side' \in StoresOf(SideKeys)
  BY <1>1, RememberReadType, ClosedType DEF PageDone, Typed
<1> QED BY <1>1, <1>2 DEF PageDone, nav, Typed

LEMMA SideDoneTyped == ASSUME Typed, SideDone PROVE Typed'
<1>1. Confirmed(Head(ops)) \in Maps(SideKeys) /\ Tail(ops) \in Seq(Requests)
  BY AnswerType DEF SideDone, KeysOf, Confirmed
<1>2. main' \in StoresOf(MainKeys) /\ side' \in StoresOf(SideKeys)
  BY <1>1, RememberReadType, ClosedType DEF SideDone, Typed
<1> QED BY <1>1, <1>2 DEF SideDone, nav, Typed

\* A handler sets another address on the page that is open.
LEMMA MovingType ==
  ASSUME Typed, NEW op \in Requests, NEW a \in Addresses
  PROVE  Moving(op, a) \in Urls /\ Moving(op, a).page = url.page
BY DEF Moving, Typed, Requests, Urls

\* What AddressDone does to the main table, the URL and the requests.
LEMMA AddressMoves ==
  ASSUME Typed, AddressDone
  PROVE  LET op == Head(ops)
             a == Address(op.got)
         IN  /\ op \in Requests /\ op.got \in Maps(MainKeys) /\ ops' = Tail(ops)
             /\ \E e \in {op.got, Nothing} :
                  LET st == RememberRead(main, e)
                  IN  /\ e \in Maps(MainKeys) /\ st \in StoresOf(MainKeys)
                      /\ \/ /\ a \in Addresses /\ url' = Moving(op, a)
                            /\ main' = Closed(Retarget(st, <<st.snap.scope[1], a>>), ops')
                         \/ url' = url /\ main' = Closed(st, ops')
<1> DEFINE op == Head(ops)
           a == Address(op.got)
           complete == AddressKeys \subseteq DOMAIN op.got
           e == IF complete \/ op.kind = "auto" THEN op.got ELSE Nothing
           st == RememberRead(main, e)
<1>1. op \in Requests /\ op.got \in Maps(MainKeys)
  BY AnswerType DEF AddressDone, KeysOf
<1>2. e \in {op.got, Nothing} /\ e \in Maps(MainKeys)
  BY <1>1, NothingMap
<1>3. st \in StoresOf(MainKeys)
  BY <1>2, RememberReadType DEF Typed
<1>4. complete => a \in Addresses
  <2>1. complete => op.got["A"] \in Addresses /\ op.got["L"] \in Addresses
    BY <1>1, MapElim DEF AddressKeys, Values
  <2> QED BY <2>1, AddressType
<1>5. ops' = Tail(ops)
  BY DEF AddressDone
<1>6. \/ /\ complete /\ url' = Moving(op, a)
         /\ main' = Closed(Retarget(st, <<st.snap.scope[1], a>>), ops')
      \/ url' = url /\ main' = Closed(st, ops')
  BY DEF AddressDone
<1> QED BY <1>1, <1>2, <1>3, <1>4, <1>5, <1>6

LEMMA AddressDoneTyped == ASSUME Typed, AddressDone PROVE Typed'
<1> DEFINE op == Head(ops)
           a == Address(op.got)
<1>1. /\ op \in Requests /\ ops' \in Seq(Requests)
  BY AddressMoves, AnswerType DEF AddressDone
<1>2. PICK st \in StoresOf(MainKeys) :
        \/ /\ a \in Addresses /\ url' = Moving(op, a)
           /\ main' = Closed(Retarget(st, <<st.snap.scope[1], a>>), ops')
        \/ url' = url /\ main' = Closed(st, ops')
  BY AddressMoves
<1> HIDE DEF op, a
<1>3. main' \in StoresOf(MainKeys) /\ url' \in Urls
  BY <1>1, <1>2, RetargetType, ClosedType, MovingType DEF Typed
<1> QED BY <1>1, <1>3 DEF AddressDone, Typed

\* The batch of the side that follows the main table's.
SideBatch(op, e) ==
  [op EXCEPT !.kind = "side", !.pend = e, !.todo = e, !.got = Nothing, !.sure = {}, !.errs = {}]

LEMMA SideBatchType ==
  ASSUME NEW op \in Requests, NEW e \in Maps(SideKeys)
  PROVE  /\ SideBatch(op, e) \in Requests /\ SideBatch(op, e).kind = "side"
         /\ SideBatch(op, e).url = op.url /\ SideBatch(op, e).heard = op.heard
         /\ SideBatch(op, e).owner = op.owner /\ SideBatch(op, e).todo = e
         /\ SideBatch(op, e).got = Nothing /\ SideBatch(op, e).sure = {}
<1>1. e \in Asks /\ DOMAIN e \subseteq SideKeys /\ KeysOf("side") = SideKeys /\ "side" \in Kinds
  BY MapsAreAsks, MapElim DEF KeysOf, Kinds, Keys
<1>2. SideBatch(op, e) \in Requests
  BY <1>1, GoingOn DEF SideBatch
<1> QED BY <1>2 DEF SideBatch, Requests

\* What WriteDone does to the main table, the URL and the requests.
LEMMA WriteMoves ==
  ASSUME Typed, WriteDone
  PROVE  LET op == Head(ops)
             st == RememberRead(main, op.got)
             a == Address(Displayed(st))
             sides == IF op.url.page = "mapping" THEN Diffs(side) ELSE Nothing
         IN  /\ op \in Requests /\ op.kind = "write" /\ op.got \in Maps(MainKeys)
             /\ st \in StoresOf(MainKeys) /\ sides \in Maps(SideKeys)
             /\ ops' = IF DOMAIN sides = {} THEN Tail(ops)
                                             ELSE <<SideBatch(op, sides)>> \o Tail(ops)
             /\ ops' \in Seq(Requests)
             /\ \/ /\ Moved(op, st) /\ a \in Addresses /\ url' = Moving(op, a)
                   /\ main' = Closed(Retarget(st, <<st.snap.scope[1], a>>), ops')
                \/ ~Moved(op, st) /\ url' = url /\ main' = Closed(st, ops')
<1> DEFINE op == Head(ops)
           st == RememberRead(main, op.got)
           a == Address(Displayed(st))
           sides == IF op.url.page = "mapping" THEN Diffs(side) ELSE Nothing
<1>1. op \in Requests /\ op.kind = "write" /\ op.got \in Maps(MainKeys)
  BY AnswerType DEF WriteDone, KeysOf
<1>2. st \in StoresOf(MainKeys) /\ sides \in Maps(SideKeys)
  BY <1>1, RememberReadType, DiffsType, NothingMap DEF Typed
<1>3. ops' = IF DOMAIN sides = {} THEN Tail(ops) ELSE <<SideBatch(op, sides)>> \o Tail(ops)
  BY DEF WriteDone, SideBatch
<1>4. ops' \in Seq(Requests)
  <2>1. ops # <<>> /\ SideBatch(op, sides) \in Requests
    BY <1>1, <1>2, SideBatchType DEF WriteDone, Answered
  <2> HIDE DEF sides, op
  <2> QED BY <1>3, <2>1, Oldest
<1>5. Moved(op, st) => a \in Addresses
  BY <1>2, GivenAddress DEF Moved
<1>6. \/ /\ Moved(op, st) /\ url' = Moving(op, a)
         /\ main' = Closed(Retarget(st, <<st.snap.scope[1], a>>), ops')
      \/ ~Moved(op, st) /\ url' = url /\ main' = Closed(st, ops')
  BY DEF WriteDone, Confirmed
<1> QED BY <1>1, <1>2, <1>3, <1>4, <1>5, <1>6

LEMMA WriteDoneTyped == ASSUME Typed, WriteDone PROVE Typed'
<1> DEFINE op == Head(ops)
           st == RememberRead(main, op.got)
           a == Address(Displayed(st))
<1>1. /\ op \in Requests /\ st \in StoresOf(MainKeys) /\ ops' \in Seq(Requests)
      /\ \/ /\ a \in Addresses /\ url' = Moving(op, a)
            /\ main' = Closed(Retarget(st, <<st.snap.scope[1], a>>), ops')
         \/ url' = url /\ main' = Closed(st, ops')
  BY WriteMoves
<1> HIDE DEF op, st, a
<1>2. main' \in StoresOf(MainKeys) /\ url' \in Urls
  BY <1>1, RetargetType, ClosedType, MovingType DEF Typed
<1> QED BY <1>1, <1>2 DEF WriteDone, Typed

LEMMA SetDoneTyped == ASSUME Typed, SetDone PROVE Typed'
<1> DEFINE op == Head(ops)
           verify == [op EXCEPT !.kind = "verify", !.pend = Asked(AddressKeys),
                                !.todo = Asked(AddressKeys), !.got = Nothing, !.sure = {}]
<1>1. ops # <<>> /\ op \in Requests /\ Tail(ops) \in Seq(Requests)
  BY Oldest DEF SetDone
<1>2. \/ op.errs = {} /\ ops' = <<verify>> \o Tail(ops) /\ main' = main
      \/ ops' = Tail(ops) /\ main' = Closed(main, Tail(ops))
  BY DEF SetDone
<1>3. op.errs = {} => verify \in Requests
  <2>1. Asked(AddressKeys) \in [AddressKeys -> Nat \cup {Unread}]
    BY DEF Asked
  <2>2. Asked(AddressKeys) \in Asks /\ DOMAIN Asked(AddressKeys) \subseteq KeysOf("verify")
    BY <2>1 DEF Asks, KeysOf, Keys, MainKeys
  <2>3. "verify" \in Kinds /\ "verify" \notin {"write", "side", "set"}
    BY DEF Kinds
  <2>4. op.errs = {} =>
          verify = [op EXCEPT !.kind = "verify", !.pend = Asked(AddressKeys),
                              !.todo = Asked(AddressKeys), !.got = Nothing, !.sure = {},
                              !.errs = {}]
    BY <1>1 DEF Requests
  <2> DEFINE e == Asked(AddressKeys)
  <2> HIDE DEF verify, op, e
  <2>5. [op EXCEPT !.kind = "verify", !.pend = e, !.todo = e, !.got = Nothing, !.sure = {},
                   !.errs = {}] \in Requests
    BY <1>1, <2>2, <2>3, GoingOn DEF e
  <2> QED BY <2>4, <2>5 DEF verify, e
<1> HIDE DEF verify, op
<1>4. ops' \in Seq(Requests) /\ main' \in StoresOf(MainKeys)
  BY <1>1, <1>2, <1>3, Oldest, ClosedType DEF Typed
<1> QED BY <1>4 DEF SetDone, nav, Typed

LEMMA TypedStep == Typed /\ [Next]_vars => Typed'
<1> SUFFICES ASSUME Typed, [Next]_vars PROVE Typed'
  OBVIOUS
<1>1. CASE PersistMain \/ PersistSide
  <2>1. main' \in StoresOf(MainKeys) /\ side' \in StoresOf(SideKeys)
    BY <1>1, FlushType DEF PersistMain, PersistSide, Typed
  <2> QED BY <1>1, <2>1 DEF PersistMain, PersistSide, nav, Typed
<1>2. CASE Daemon
  BY <1>2, ReadNextTyped, WriteNextTyped DEF Daemon
<1>3. CASE Answer
  BY <1>3, ReadDoneTyped, PageDoneTyped, SetDoneTyped, AddressDoneTyped,
     WriteDoneTyped, SideDoneTyped
  DEF Answer
<1>4. CASE UNCHANGED vars
  BY <1>4 DEF vars, Typed
<1> QED BY <1>1, <1>2, <1>3, <1>4, RenderTyped, EditTyped, NavigateTyped, AskTyped DEF Next

LEMMA AlwaysTyped == Spec => []Typed
BY TypedInit, TypedStep, PTL DEF Spec

\* The maps of Typed are those of the type invariant.
LEMMA StoresType ==
  /\ StoresOf(MainKeys) \subseteq Stores(Scopes, MainKeys, Addresses \cup 0..3)
  /\ StoresOf(SideKeys) \subseteq Stores(Scopes, SideKeys, 0..1)
<1>1. ASSUME NEW K, NEW V, \A k \in K : Values(k) \subseteq V
      PROVE  StoresOf(K) \subseteq Stores(Scopes, K, V)
  <2>1. ASSUME NEW f \in Maps(K) PROVE f \in UNION {[D -> V] : D \in SUBSET K}
    <3>1. DOMAIN f \in SUBSET K /\ f \in [DOMAIN f -> V]
      BY <1>1, MapElim
    <3> QED BY <3>1
  <2> QED BY <2>1 DEF StoresOf, Stores, Snaps
<1>2. \A k \in MainKeys : Values(k) \subseteq Addresses \cup 0..3
  BY DEF MainKeys, AddressKeys, Values
<1>3. \A k \in SideKeys : Values(k) \subseteq 0..1
  BY DEF SideKeys, Values
<1> QED BY <1>1, <1>2, <1>3

\* Every reachable state of the registry is well typed: each CV of a table has
\* a value that CV can have, and a request never counts a CV twice.
THEOREM TypeCorrect == Spec => []TypeOK
<1>1. Typed => TypeOK
  <2> SUFFICES ASSUME Typed PROVE TypeOK
    OBVIOUS
  <2>1. \A i \in DOMAIN ops : ops[i] \in Requests
    BY DEF Typed
  <2>2. \A i \in DOMAIN ops :
          /\ ops[i].kind \in {"auto", "read", "page", "locate", "verify", "write", "side", "set"}
          /\ DOMAIN ops[i].got \cap ops[i].errs = {}
          /\ DOMAIN ops[i].todo \cap (DOMAIN ops[i].got \cup ops[i].errs) = {}
    BY <2>1 DEF Requests, OneToken, Kinds
  <2> QED BY <2>2, StoresType DEF Typed, TypeOK
<1> QED BY <1>1, AlwaysTyped, PTL

-----------------------------------------------------------------------------
(* What failed stays pending: the CVs a request reports as done and those  *)
(* it reports as failed are disjoint, and only the former touch a table.   *)

\* The CVs that are pending.
LEMMA PendingKey ==
  ASSUME NEW K, NEW st \in StoresOf(K), NEW k
  PROVE  k \in DOMAIN Diffs(st) <=>
           /\ k \in DOMAIN st.snap.table
           /\ k \notin DOMAIN st.snap.baseline \/ st.snap.table[k] # st.snap.baseline[k]
BY DEF Diffs, Only

\* What is remembered of other CVs leaves a CV alone.
LEMMA RememberedOthers ==
  ASSUME NEW K, NEW st \in StoresOf(K), NEW e \in Maps(K), NEW k \in DOMAIN Diffs(st),
         k \notin DOMAIN e
  PROVE  /\ k \in DOMAIN Diffs(RememberRead(st, e))
         /\ RememberRead(st, e).snap.table[k] = st.snap.table[k]
<1> DEFINE new == RememberRead(st, e)
<1>1. new \in StoresOf(K)
  BY RememberReadType
<1>2. CASE DOMAIN e = {}
  BY <1>2 DEF RememberRead
<1>3. CASE DOMAIN e # {}
  <2>1. /\ st.snap.table \in Maps(K) /\ st.snap.baseline \in Maps(K)
        /\ new.snap.table = Put(st.snap.table, e)
        /\ new.snap.baseline = Put(st.snap.baseline, e)
    BY <1>3 DEF RememberRead, Emit, StoresOf, Snaps
  <2>2. /\ DOMAIN new.snap.table = DOMAIN st.snap.table \cup DOMAIN e
        /\ DOMAIN new.snap.baseline = DOMAIN st.snap.baseline \cup DOMAIN e
        /\ k \in DOMAIN new.snap.table => new.snap.table[k] = st.snap.table[k]
        /\ k \in DOMAIN new.snap.baseline => new.snap.baseline[k] = st.snap.baseline[k]
    <3>1. ASSUME NEW f \in Maps(K)
          PROVE  /\ DOMAIN Put(f, e) = DOMAIN f \cup DOMAIN e
                 /\ k \in DOMAIN Put(f, e) => Put(f, e)[k] = f[k]
      BY DEF Put
    <3> HIDE DEF new
    <3> QED BY <2>1, <3>1
  <2>3. /\ k \in DOMAIN st.snap.table
        /\ k \notin DOMAIN st.snap.baseline \/ st.snap.table[k] # st.snap.baseline[k]
    BY PendingKey
  <2> HIDE DEF new
  <2>4. k \in DOMAIN Diffs(new)
    BY <1>1, <2>2, <2>3, PendingKey
  <2> USE DEF new
  <2> QED BY <2>2, <2>3, <2>4
<1> QED BY <1>2, <1>3

\* The move to another address and the flush leave the maps alone.
LEMMA SameMaps ==
  ASSUME NEW st \in StoresOf(MainKeys)
  PROVE  /\ \A s : Retarget(st, s).snap.table = st.snap.table
         /\ \A s : Diffs(Retarget(st, s)) = Diffs(st)
         /\ \A rest : Closed(st, rest).snap = st.snap
         /\ \A rest : Diffs(Closed(st, rest)) = Diffs(st)
<1>1. \A s : /\ Retarget(st, s).snap.table = st.snap.table
             /\ Retarget(st, s).snap.baseline = st.snap.baseline
  BY DEF Retarget, Emit, StoresOf, Snaps
<1>2. \A rest : Closed(st, rest).snap = st.snap
  BY DEF Closed, Flush, StoresOf
<1> QED BY <1>1, <1>2 DEF Diffs

LEMMA FailureKept ==
  ASSUME Typed, WriteDone, NEW k \in MainKeys,
         k \in Head(ops).errs, k \in DOMAIN Diffs(main)
  PROVE  main'.snap.table[k] = main.snap.table[k] /\ k \in DOMAIN Diffs(main')
<1> DEFINE op == Head(ops)
           st == RememberRead(main, op.got)
           a == Address(Displayed(st))
<1>1. op \in Requests /\ op.got \in Maps(MainKeys) /\ st \in StoresOf(MainKeys)
  BY WriteMoves
<1>2. k \notin DOMAIN op.got
  BY <1>1 DEF Requests, OneToken
<1>3. k \in DOMAIN Diffs(st) /\ st.snap.table[k] = main.snap.table[k]
  BY <1>1, <1>2, RememberedOthers DEF Typed
<1>4. PICK moved \in {st, Retarget(st, <<st.snap.scope[1], a>>)} :
        main' = Closed(moved, ops') /\ moved \in StoresOf(MainKeys)
  <2>1. \/ a \in Addresses /\ main' = Closed(Retarget(st, <<st.snap.scope[1], a>>), ops')
        \/ main' = Closed(st, ops')
    BY WriteMoves
  <2> HIDE DEF st, a
  <2> QED BY <1>1, <2>1, RetargetType
<1> HIDE DEF st, op, a
<1>5. moved.snap.table = st.snap.table /\ Diffs(moved) = Diffs(st)
  BY <1>1, <1>4, SameMaps
<1>6. Closed(moved, ops').snap = moved.snap /\ Diffs(Closed(moved, ops')) = Diffs(moved)
  BY <1>4, SameMaps
<1> QED BY <1>3, <1>4, <1>5, <1>6

\* A CV of the main table that Apply could not write stays pending, whatever
\* else the answer confirms and wherever the tables move (CvRegistry.tsx 272-296).
THEOREM FailureIsNotForgotten == Spec => FailedStaysPending
<1>1. ASSUME Typed, [Next]_vars
      PROVE  [\A k \in MainKeys :
                /\ WriteDone /\ Rendered
                /\ k \in Head(ops).errs /\ k \in DOMAIN Diffs(main)
                => main'.snap.table[k] = main.snap.table[k]
                   /\ k \in DOMAIN Diffs(main')]_vars
  BY <1>1, FailureKept
<1> QED BY <1>1, AlwaysTyped, PTL DEF Spec, FailedStaysPending

-----------------------------------------------------------------------------
(* Every change of a table arms the timer, and only storing disarms it.    *)

Kept(st) == st.armed \/ st.stored = st.snap \/ st.snap = Empty(NoScope)

LEMMA EmitKept ==
  ASSUME NEW K, NEW st \in StoresOf(K), NEW s
  PROVE  Kept(Emit(st, s))
BY DEF Kept, Emit, StoresOf

\* The operations of a store keep it.
LEMMA OperationsKeep ==
  ASSUME NEW K, NEW st \in StoresOf(K), Kept(st)
  PROVE  /\ Kept(Flush(st))
         /\ \A s : Kept(EnsureScope(st, s)) /\ Kept(Retarget(st, s))
         /\ \A e : Kept(SetMany(st, e)) /\ Kept(RememberRead(st, e))
         /\ Kept(Discard(st))
         /\ Kept(Reloaded(Flush(st)))
<1>1. Kept(Flush(st)) /\ Flush(st) \in StoresOf(K)
  BY FlushType DEF Kept, Flush, StoresOf
<1>2. \A s : Kept(EnsureScope(st, s)) /\ Kept(Retarget(st, s))
  BY <1>1, EmitKept DEF EnsureScope, Retarget
<1>3. \A e : Kept(SetMany(st, e)) /\ Kept(RememberRead(st, e))
  BY EmitKept DEF SetMany, RememberRead
<1>4. Kept(Discard(st))
  BY EmitKept DEF Discard
<1>5. Kept(Reloaded(Flush(st)))
  <2>1. Reloaded(Flush(st)).snap = Empty(NoScope)
    BY <1>1 DEF Reloaded, StoresOf
  <2> QED BY <2>1 DEF Kept
<1> QED BY <1>1, <1>2, <1>3, <1>4, <1>5

\* Closing the overlay keeps what is kept.
LEMMA ClosedKept ==
  ASSUME NEW st \in StoresOf(MainKeys), Kept(st)
  PROVE  \A rest : Kept(Closed(st, rest))
BY OperationsKeep DEF Closed

BothKept == Kept(main) /\ Kept(side)

\* Actions of the user keep both stores.
LEMMA UserKeeps ==
  ASSUME Typed, BothKept, Edit \/ Navigate \/ Ask
  PROVE  BothKept'
<1>1. main \in StoresOf(MainKeys) /\ side \in StoresOf(SideKeys)
  BY DEF Typed
<1>2. ASSUME Edit PROVE BothKept'
  BY <1>1, <1>2, OperationsKeep
  DEF Edit, EditNumber, EditBit, EditSide, DiscardChanges, DiscardAll, BothKept
<1>3. ASSUME Navigate PROVE BothKept'
  <2>1. ASSUME Guarded PROVE BothKept'
    BY <1>1, <2>1, OperationsKeep DEF Guarded, DiscardAll, stores, BothKept
  <2>2. \A p : Kept(Leave(p))
    BY <1>1, OperationsKeep DEF Leave, BothKept
  <2>3. CASE \E a \in Addresses \cup {0} : ChangeAddress(a)
    BY <2>1, <2>3 DEF ChangeAddress
  <2>4. CASE \E d \in Decoders : ChangeDecoder(d) \/ PickTile(d)
    BY <2>1, <2>4 DEF ChangeDecoder, PickTile, stores, BothKept
  <2>5. CASE \E p \in Pages : Goto(p)
    BY <2>2, <2>5 DEF Goto, BothKept
  <2>6. CASE Back
    BY <2>2, <2>6 DEF Back, BothKept
  <2>7. CASE Reload
    BY <1>1, <2>7, OperationsKeep DEF Reload, BothKept
  <2>8. CASE \E t \in {"prog", "pom"} : ChangeTrack(t)
    BY <2>8 DEF ChangeTrack, stores, BothKept
  <2> QED BY <1>3, <2>3, <2>4, <2>5, <2>6, <2>7, <2>8 DEF Navigate
<1>4. ASSUME Ask PROVE BothKept'
  BY <1>1, <1>4, OperationsKeep
  DEF Ask, ReadOne, ReadPage, Apply, Locate, SetAddress, Cancel, Restore, Send, stores, BothKept
<1> QED BY <1>2, <1>3, <1>4

\* Answers and the daemon's progress keep both stores.
LEMMA AnswersKeep ==
  ASSUME Typed, BothKept, Daemon \/ Answer
  PROVE  BothKept'
<1>1. main \in StoresOf(MainKeys) /\ side \in StoresOf(SideKeys)
  BY DEF Typed
<1>2. \A e : Kept(RememberRead(main, e)) /\ Kept(RememberRead(side, e))
  BY <1>1, OperationsKeep DEF BothKept
<1>3. CASE Daemon
  BY <1>2, <1>3 DEF Daemon, ReadNext, WriteNext, stores, BothKept
<1>4. CASE ReadDone
  <2>1. RememberRead(main, Head(ops).got) \in StoresOf(MainKeys)
    BY <1>1, <1>4, AnswerType, RememberReadType DEF ReadDone, KeysOf
  <2> QED BY <1>2, <1>4, <2>1, ClosedKept DEF ReadDone, BothKept
<1>5. CASE PageDone
  BY <1>1, <1>2, <1>5, ClosedKept DEF PageDone, BothKept
<1>6. CASE SideDone
  BY <1>1, <1>2, <1>6, ClosedKept DEF SideDone, BothKept
<1>7. CASE AddressDone
  <2> DEFINE a == Address(Head(ops).got)
  <2>1. PICK e : LET st == RememberRead(main, e)
                 IN  /\ st \in StoresOf(MainKeys)
                     /\ \/ /\ a \in Addresses
                           /\ main' = Closed(Retarget(st, <<st.snap.scope[1], a>>), ops')
                        \/ main' = Closed(st, ops')
    BY <1>7, AddressMoves
  <2> DEFINE st == RememberRead(main, e)
  <2>2. st \in StoresOf(MainKeys) /\ Kept(st)
    BY <1>2, <2>1
  <2>3. a \in Addresses \/ main' = Closed(st, ops')
    BY <2>1
  <2> HIDE DEF st, a
  <2>4. a \in Addresses =>
          LET new == Retarget(st, <<st.snap.scope[1], a>>)
          IN  new \in StoresOf(MainKeys) /\ Kept(new)
    BY <2>2, RetargetType, OperationsKeep
  <2>5. Kept(main')
    BY <2>1, <2>2, <2>4, ClosedKept DEF st
  <2> QED BY <1>7, <2>5 DEF AddressDone, BothKept
<1>8. CASE WriteDone
  <2> DEFINE st == RememberRead(main, Head(ops).got)
             a == Address(Displayed(st))
  <2>1. /\ st \in StoresOf(MainKeys) /\ Kept(st)
        /\ \/ /\ a \in Addresses
              /\ main' = Closed(Retarget(st, <<st.snap.scope[1], a>>), ops')
           \/ main' = Closed(st, ops')
    BY <1>2, <1>8, WriteMoves
  <2> HIDE DEF st, a
  <2>2. a \in Addresses =>
          LET new == Retarget(st, <<st.snap.scope[1], a>>)
          IN  new \in StoresOf(MainKeys) /\ Kept(new)
    BY <2>1, RetargetType, OperationsKeep
  <2>3. Kept(main')
    BY <2>1, <2>2, ClosedKept
  <2> QED BY <1>8, <2>3 DEF WriteDone, BothKept
<1>9. CASE SetDone
  BY <1>1, <1>9, ClosedKept DEF SetDone, BothKept
<1> QED BY <1>3, <1>4, <1>5, <1>6, <1>7, <1>8, <1>9 DEF Answer

LEMMA RenderKeeps == ASSUME Typed, BothKept, Render PROVE BothKept'
<1>1. /\ main \in StoresOf(MainKeys) /\ side \in StoresOf(SideKeys)
      /\ Scope(url) \in Scopes
  BY ScopeType DEF Typed
<1> DEFINE st == EnsureScope(main, Scope(url))
<1>2. st \in StoresOf(MainKeys) /\ Kept(st)
  BY <1>1, EnsureScopeType, OperationsKeep DEF BothKept
<1>3. main' = st \/ \E s : main' = Retarget(st, s)
  BY DEF Render, AddressEffect
<1> HIDE DEF st
<1>4. Kept(main')
  BY <1>2, <1>3, OperationsKeep
<1>5. Kept(side')
  BY <1>1, OperationsKeep DEF Render, BothKept
<1> QED BY <1>4, <1>5 DEF BothKept

LEMMA KeptStep == Typed /\ BothKept /\ [Next]_vars => BothKept'
<1> SUFFICES ASSUME Typed, BothKept, [Next]_vars PROVE BothKept'
  OBVIOUS
<1>1. CASE PersistMain \/ PersistSide
  BY <1>1, OperationsKeep DEF PersistMain, PersistSide, BothKept, Typed
<1>2. CASE UNCHANGED vars
  BY <1>2 DEF vars, BothKept
<1> QED BY <1>1, <1>2, RenderKeeps, UserKeeps, AnswersKeep DEF Next

LEMMA AlwaysKept == Spec => []BothKept
<1>1. Init => BothKept
  BY DEF Init, NewStore, BothKept, Kept
<1> QED BY <1>1, AlwaysTyped, KeptStep, PTL DEF Spec

\* What is in memory and not in sessionStorage has a timer running that will
\* store it, after any number of edits, reads, moves and reloads (table.ts 61-91).
THEOREM NothingUnsaved == Spec => []PersistedOrArmed
<1>1. BothKept => PersistedOrArmed
  BY DEF BothKept, Kept, PersistedOrArmed
<1> QED BY <1>1, AlwaysKept, PTL

-----------------------------------------------------------------------------
(* Nothing is pending in the side table but on the mapping page.  A store  *)
(* is safe when nothing is pending in it, nor will be when what is in      *)
(* sessionStorage is loaded.                                               *)

Clean(snap) ==
  \A k \in DOMAIN snap.table :
    k \in DOMAIN snap.baseline /\ snap.table[k] = snap.baseline[k]

Safe(st) == Clean(st.snap) /\ (st.armed \/ Clean(st.stored))

\* No handler changes the page, so that the side table stays safe elsewhere.
Behind ==
  /\ Safe(side) \/ url.page = "mapping"
  /\ shown # NoUrl /\ shown.page = "mapping" => side.snap.scope # NoScope

LEMMA CleanIsNothing ==
  ASSUME NEW K, NEW st \in StoresOf(K)
  PROVE  Clean(st.snap) <=> DOMAIN Diffs(st) = {}
BY DEF Clean, Diffs, Only

LEMMA EmptyClean == \A s : Clean(Empty(s))
BY NothingMap DEF Clean, Empty

\* Discarding makes a store safe.
LEMMA DiscardSafe ==
  ASSUME NEW K, NEW st \in StoresOf(K)
  PROVE  Safe(Discard(st)) /\ Discard(st).snap.scope = st.snap.scope
BY DEF Safe, Clean, Discard, Emit, StoresOf, Snaps

LEMMA FlushSafe ==
  ASSUME NEW K, NEW st \in StoresOf(K), Safe(st)
  PROVE  Safe(Flush(st)) /\ Clean(Flush(st).stored) /\ Flush(st) \in StoresOf(K)
BY FlushType DEF Safe, Flush, StoresOf

LEMMA RememberReadSafe ==
  ASSUME NEW K, NEW st \in StoresOf(K), NEW e \in Maps(K), Safe(st)
  PROVE  Safe(RememberRead(st, e))
<1>1. CASE DOMAIN e = {}
  BY <1>1 DEF RememberRead
<1>2. CASE DOMAIN e # {}
  <2> DEFINE new == RememberRead(st, e)
  <2>1. /\ new.armed = TRUE
        /\ new.snap.table = Put(st.snap.table, e)
        /\ new.snap.baseline = Put(st.snap.baseline, e)
    BY <1>2 DEF RememberRead, Emit, StoresOf, Snaps
  <2>2. \A k \in DOMAIN st.snap.table :
          k \in DOMAIN st.snap.baseline /\ st.snap.table[k] = st.snap.baseline[k]
    BY DEF Safe, Clean
  <2>3. \A k \in DOMAIN Put(st.snap.table, e) :
          /\ k \in DOMAIN Put(st.snap.baseline, e)
          /\ Put(st.snap.table, e)[k] = Put(st.snap.baseline, e)[k]
    BY <2>2 DEF Put
  <2> HIDE DEF new
  <2>4. Clean(new.snap)
    BY <2>1, <2>3 DEF Clean
  <2>5. Safe(new)
    BY <2>1, <2>4 DEF Safe
  <2> QED BY <2>5 DEF new
<1> QED BY <1>1, <1>2

LEMMA EnsureScopeSafe ==
  ASSUME NEW K, NEW st \in StoresOf(K), NEW s \in Scopes
  PROVE  /\ EnsureScope(st, s).snap.scope = s
         /\ Safe(st) => Safe(EnsureScope(st, s))
<1>1. Load(Flush(st), s).scope = s
  BY DEF Load, Empty
<1>2. EnsureScope(st, s).snap.scope = s
  BY <1>1, FlushType DEF EnsureScope, Emit, StoresOf
<1>3. ASSUME Safe(st) PROVE Safe(EnsureScope(st, s))
  <2>1. Clean(Load(Flush(st), s))
    BY <1>3, FlushSafe, EmptyClean DEF Load
  <2>2. Safe(Emit(Flush(st), Load(Flush(st), s)))
    BY <2>1, FlushType DEF Safe, Emit, StoresOf
  <2> QED BY <1>3, <2>2 DEF EnsureScope
<1> QED BY <1>2, <1>3

LEMMA ReloadedSafe ==
  ASSUME NEW K, NEW st \in StoresOf(K), Safe(st)
  PROVE  Safe(Reloaded(Flush(st)))
<1>1. Clean(Flush(st).stored) /\ Flush(st) \in StoresOf(K)
  BY FlushSafe
<1>2. /\ Reloaded(Flush(st)).snap = Empty(NoScope)
      /\ Reloaded(Flush(st)).stored = Flush(st).stored
  BY <1>1 DEF Reloaded, StoresOf
<1> QED BY <1>1, <1>2, EmptyClean DEF Safe

\* What a step can do to the side table.
SideMoves ==
  \/ side' \in {side, Discard(side), Flush(side)}
  \/ \E e \in Maps(SideKeys) : side' = RememberRead(side, e)

LEMMA MovesSafe ==
  ASSUME Typed, SideMoves
  PROVE  /\ Safe(side) => Safe(side')
         /\ side'.snap.scope = side.snap.scope
<1>1. side \in StoresOf(SideKeys)
  BY DEF Typed
<1>2. Safe(side) => Safe(side')
  BY <1>1, DiscardSafe, FlushSafe, RememberReadSafe DEF SideMoves
<1>3. /\ Discard(side).snap.scope = side.snap.scope
      /\ Flush(side).snap.scope = side.snap.scope
      /\ \A e : RememberRead(side, e).snap.scope = side.snap.scope
  BY <1>1 DEF Discard, Flush, RememberRead, Emit, StoresOf, Snaps
<1> QED BY <1>2, <1>3 DEF SideMoves

\* A step that leaves the rendered page alone and, if the side table is unsafe,
\* makes it safe or stays on the mapping page.
LEMMA BehindBy ==
  ASSUME Typed, Behind, SideMoves, shown' = shown,
         ~Safe(side) => Safe(side') \/ url'.page = "mapping"
  PROVE  Behind'
BY MovesSafe DEF Behind

LEMMA RenderBehind == ASSUME Typed, Behind, Render PROVE Behind'
<1>1. Scope(url) \in Scopes /\ side \in StoresOf(SideKeys) /\ url \in Urls
  BY ScopeType DEF Typed
<1>2. Safe(side) => Safe(side')
  BY <1>1, EnsureScopeSafe DEF Render
<1>3. shown' = url /\ (url.page = "mapping" => side'.snap.scope # NoScope)
  BY <1>1, EnsureScopeSafe, RegistryAssumption DEF Render
<1>4. url'.page = url.page
  BY <1>1 DEF Render, AddressEffect, Urls
<1> QED BY <1>2, <1>3, <1>4 DEF Behind

LEMMA EditBehind == ASSUME Typed, Behind, Edit PROVE Behind'
<1>1. ASSUME NEW v \in 0..1, EditSide(v) PROVE Behind'
  <2>1. url.page = "mapping" /\ shown' = shown /\ url' = url
    BY <1>1 DEF EditSide, UserIdle, User, Rendered, Quiet, nav
  <2>2. side'.snap.scope = side.snap.scope
    BY <1>1 DEF EditSide, SetMany, Emit, Typed, StoresOf, Snaps
  <2> QED BY <2>1, <2>2 DEF Behind
<1>2. ASSUME side' = side \/ side' = Discard(side), Quiet PROVE Behind'
  <2>1. SideMoves /\ shown' = shown /\ url' = url
    BY <1>2 DEF SideMoves, Quiet, nav
  <2> QED BY <2>1, BehindBy DEF Behind
<1>3. ASSUME \/ \E k \in MainKeys \ {"M"} : \E v \in Inputs[k] : EditNumber(k, v)
             \/ \E k \in 0..1 : EditBit(k)
             \/ DiscardChanges
      PROVE  Behind'
  BY <1>2, <1>3 DEF EditNumber, EditBit, DiscardChanges, DiscardAll
<1> QED BY <1>1, <1>3 DEF Edit

\* Leaving the mapping page makes an unsafe side table safe.
LEMMA LeaveSafe ==
  ASSUME Typed, BothKept, Behind, Rendered, NEW p, p # "mapping", ~Safe(side)
  PROVE  Safe(Leave(p))
<1>1. shown.page = "mapping" /\ side.snap.scope # NoScope
  BY RegistryAssumption DEF Behind, Rendered, Typed
<1>2. side \in StoresOf(SideKeys)
  BY DEF Typed
<1>3. ASSUME DOMAIN Diffs(side) = {} PROVE FALSE
  <2>1. Clean(side.snap)
    BY <1>2, <1>3, CleanIsNothing
  <2>2. side.armed \/ side.stored = side.snap
    BY <1>1 DEF BothKept, Kept, Empty
  <2> QED BY <2>1, <2>2 DEF Safe
<1> QED BY <1>1, <1>2, <1>3, DiscardSafe DEF Leave

LEMMA NavigateBehind == ASSUME Typed, BothKept, Behind, Navigate PROVE Behind'
<1>1. \A p : Leave(p) \in {side, Discard(side)}
  BY DEF Leave
<1>2. ASSUME Guarded \/ UNCHANGED stores, NEW u, Push(u), u.page = url.page PROVE Behind'
  <2>1. SideMoves
    BY <1>2 DEF Guarded, DiscardAll, stores, SideMoves
  <2>2. url' = u /\ shown' = shown
    BY <1>2 DEF Push
  <2> QED BY <1>2, <2>1, <2>2, BehindBy DEF Behind
<1>3. ASSUME NEW a \in Addresses \cup {0}, ChangeAddress(a) PROVE Behind'
  <2>1. [url EXCEPT !.addr = a].page = url.page
    BY DEF Typed, Urls
  <2> QED BY <1>2, <1>3, <2>1 DEF ChangeAddress
<1>4. ASSUME NEW d \in Decoders, ChangeDecoder(d) \/ PickTile(d) PROVE Behind'
  <2>1. [url EXCEPT !.dec = d].page = url.page
    BY DEF Typed, Urls
  <2>2. Guarded \/ UNCHANGED stores
    BY <1>4 DEF ChangeDecoder, PickTile
  <2>3. Push([url EXCEPT !.dec = d])
    BY <1>4 DEF ChangeDecoder, PickTile
  <2> QED BY <1>2, <2>1, <2>2, <2>3
<1>5. ASSUME NEW p \in Pages, Goto(p) PROVE Behind'
  <2>1. SideMoves /\ shown' = shown /\ Rendered
    BY <1>1, <1>5 DEF Goto, Push, UserIdle, User, SideMoves
  <2>2. side' = Leave(p) /\ p # url.page
    BY <1>5 DEF Goto
  <2>3. ~Safe(side) => Safe(side')
    BY <2>1, <2>2, LeaveSafe DEF Behind
  <2> QED BY <2>1, <2>3, BehindBy
<1>6. ASSUME Back PROVE Behind'
  <2>1. /\ SideMoves /\ shown' = shown /\ Rendered
        /\ url' = Last(hist) /\ side' = Leave(url'.page)
    BY <1>1, <1>6 DEF Back, User, SideMoves
  <2>2. CASE url'.page = "mapping"
    BY <2>1, <2>2, BehindBy DEF Behind
  <2>3. CASE url'.page # "mapping"
    <3>1. ~Safe(side) => Safe(side')
      BY <2>1, <2>3, LeaveSafe
    <3> QED BY <2>1, <3>1, BehindBy
  <2> QED BY <2>2, <2>3
<1>7. ASSUME Reload PROVE Behind'
  <2>1. /\ side' = Reloaded(Flush(side)) /\ url' = url /\ shown' = NoUrl
        /\ side \in StoresOf(SideKeys)
    BY <1>7 DEF Reload, Typed
  <2>2. Safe(side) => Safe(side')
    BY <2>1, ReloadedSafe
  <2> QED BY <2>1, <2>2 DEF Behind
<1>8. ASSUME NEW t \in {"prog", "pom"}, ChangeTrack(t) PROVE Behind'
  <2>1. [url EXCEPT !.track = t].page = url.page
    BY DEF Typed, Urls
  <2> QED BY <1>2, <1>8, <2>1 DEF ChangeTrack
<1> QED BY <1>3, <1>4, <1>5, <1>6, <1>7, <1>8 DEF Navigate

\* Steps that leave the side table to what was read or confirmed, and the page.
LEMMA AskBehind == ASSUME Typed, Behind, Ask PROVE Behind'
<1>1. SideMoves /\ shown' = shown /\ url' = url
  BY DEF Ask, ReadOne, ReadPage, Apply, Locate, SetAddress, Send, Cancel, Restore, nav, stores,
         SideMoves
<1> QED BY <1>1, BehindBy DEF Behind

LEMMA DaemonBehind == ASSUME Typed, Behind, Daemon PROVE Behind'
<1>1. SideMoves /\ shown' = shown /\ url' = url
  BY DEF Daemon, ReadNext, WriteNext, nav, stores, SideMoves
<1> QED BY <1>1, BehindBy DEF Behind

LEMMA AnswerBehind == ASSUME Typed, Behind, Answer PROVE Behind'
<1>1. ASSUME PageDone \/ SideDone PROVE SideMoves /\ shown' = shown /\ url' = url
  <2>1. Head(ops).got \in Maps(SideKeys)
    BY <1>1, AnswerType DEF PageDone, SideDone, KeysOf
  <2> QED BY <1>1, <2>1 DEF PageDone, SideDone, nav, SideMoves, Confirmed
<1>2. ASSUME ReadDone \/ SetDone PROVE SideMoves /\ shown' = shown /\ url' = url
  BY <1>2 DEF ReadDone, SetDone, nav, SideMoves
<1>3. ASSUME AddressDone \/ WriteDone
      PROVE  SideMoves /\ shown' = shown /\ url'.page = url.page
  <2>1. SideMoves /\ shown' = shown
    BY <1>3 DEF AddressDone, WriteDone, SideMoves
  <2>2. CASE AddressDone
    BY <2>1, <2>2, AddressMoves, MovingType
  <2>3. CASE WriteDone
    BY <2>1, <2>3, WriteMoves, MovingType
  <2> QED BY <1>3, <2>1, <2>2, <2>3
<1> QED BY <1>1, <1>2, <1>3, BehindBy DEF Answer, Behind

LEMMA BehindStep == Typed /\ BothKept /\ Behind /\ [Next]_vars => Behind'
<1> SUFFICES ASSUME Typed, BothKept, Behind, [Next]_vars PROVE Behind'
  OBVIOUS
<1>1. CASE PersistMain \/ PersistSide
  <2>1. SideMoves /\ shown' = shown /\ url' = url
    BY <1>1 DEF PersistMain, PersistSide, nav, SideMoves
  <2> QED BY <2>1, BehindBy DEF Behind
<1>2. CASE UNCHANGED vars
  BY <1>2 DEF vars, Behind
<1> QED BY <1>1, <1>2, RenderBehind, EditBehind, NavigateBehind, AskBehind, DaemonBehind,
           AnswerBehind DEF Next

\* Away from the mapping page its table has nothing pending, whatever was read,
\* stored, reloaded or answered before, and by whichever way the page was left
\* (EsuMappingPage.tsx 135-158).
THEOREM NothingStaysBehind == Spec => []NothingLeftBehind
<1>1. Init => Behind
  <2> SUFFICES ASSUME Init PROVE Behind
    OBVIOUS
  <2>1. Clean(side.snap) /\ Clean(side.stored)
    BY EmptyClean DEF Init, NewStore
  <2> QED BY <2>1 DEF Init, Behind, Safe
<1>2. Typed /\ Behind => NothingLeftBehind
  <2> SUFFICES ASSUME Typed, Behind, Rendered, shown.page # "mapping"
               PROVE  DOMAIN Diffs(side) = {}
    BY DEF NothingLeftBehind
  <2>1. Safe(side)
    BY DEF Behind, Rendered
  <2> QED BY <2>1, CleanIsNothing DEF Safe, Typed
<1> QED BY <1>1, <1>2, BehindStep, AlwaysTyped, AlwaysKept, PTL DEF Spec

=============================================================================
