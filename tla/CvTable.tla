------------------------------- MODULE CvTable -------------------------------
(***************************************************************************)
(* One observed CV table of the tab: a working copy and a baseline, scoped *)
(* by locomotive, kept in memory and, a little later, in sessionStorage.   *)
(* The main table (cv/table.ts) and the indexed one (cv/indexedTable.ts)   *)
(* are built alike; an element here is a store of either kind.             *)
(*                                                                         *)
(* A CV map is a function whose domain is the set of keys that are known.  *)
(* There is one storage key for all scopes.                                *)
(***************************************************************************)
EXTENDS Naturals, FiniteSets

CONSTANTS
  NoScope,  \* scope of the table before the first ensureScope
  Unread    \* undefined

Nothing == [k \in {} |-> Unread]

One(k, v) == [x \in {k} |-> v]

\* { ...f, ...e }
Put(f, e) ==
  [k \in DOMAIN f \cup DOMAIN e |-> IF k \in DOMAIN e THEN e[k] ELSE f[k]]

Only(f, K) == [k \in DOMAIN f \cap K |-> f[k]]

\* { scope, table, baseline }
Empty(s) == [scope |-> s, table |-> Nothing, baseline |-> Nothing]

\* snap: the snapshot in memory; stored: that of sessionStorage; armed: the
\* persist timer runs.
NewStore == [snap |-> Empty(NoScope), stored |-> Empty(NoScope), armed |-> FALSE]

Stores(Scopes, Keys, Vals) ==
  LET Maps == UNION {[K -> Vals] : K \in SUBSET Keys}
      Snaps == [scope : Scopes \cup {NoScope}, table : Maps, baseline : Maps]
  IN  [snap : Snaps, stored : Snaps, armed : BOOLEAN]

-----------------------------------------------------------------------------
\* getCv()
Get(st, k) ==
  IF k \in DOMAIN st.snap.table THEN st.snap.table[k]
  ELSE IF k \in DOMAIN st.snap.baseline THEN st.snap.baseline[k]
  ELSE Unread

Known(st, k) == k \in DOMAIN st.snap.table \cup DOMAIN st.snap.baseline

\* cvDiffs(): what the working copy has and the baseline has not, or not so.
Diffs(st) ==
  Only(st.snap.table,
       {k \in DOMAIN st.snap.table :
          k \notin DOMAIN st.snap.baseline \/ st.snap.table[k] # st.snap.baseline[k]})

\* emit(): every change arms the persist timer.
Emit(st, s) == [st EXCEPT !.snap = s, !.armed = TRUE]

\* persistNow(), when the timer expires or is flushed.
Flush(st) == IF st.armed THEN [st EXCEPT !.stored = st.snap, !.armed = FALSE] ELSE st

MutLoad(st, s) == [st.stored EXCEPT !.scope = s]

\* load(): what is stored is used if it is of that scope.
Load(st, s) == IF st.stored.scope = s THEN st.stored ELSE Empty(s)

\* ensureCvScope()
EnsureScope(st, s) ==
  IF st.snap.scope = s THEN st ELSE Emit(Flush(st), Load(Flush(st), s))

\* setCvs(), and setCv() for a single entry.
SetMany(st, e) ==
  IF \A k \in DOMAIN e : k \in DOMAIN st.snap.table /\ st.snap.table[k] = e[k]
    THEN st ELSE Emit(st, [st.snap EXCEPT !.table = Put(@, e)])

\* rememberRead(): read from the locomotive, or confirmed by it.
RememberRead(st, e) ==
  IF DOMAIN e = {}
    THEN st
    ELSE Emit(st, [st.snap EXCEPT !.table = Put(@, e), !.baseline = Put(@, e)])

\* discardCvTable()
Discard(st) == Emit(st, [st.snap EXCEPT !.table = st.snap.baseline])

MutRetarget(st, s) == [st EXCEPT !.snap.scope = s]

\* retargetCvScopeAddress(): the same table under the new scope.
Retarget(st, s) ==
  IF st.snap.scope \in {s, NoScope} THEN st ELSE Emit(st, [st.snap EXCEPT !.scope = s])

\* The page is loaded again: the module starts over with an empty table, and
\* beforeunload has flushed (unless the tab was killed).
Reloaded(st) == [st EXCEPT !.snap = Empty(NoScope), !.armed = FALSE]

=============================================================================
