# Programming Center in TLA+

Programming Center programs the CVs (configuration variables) of model
locomotive decoders. A daemon (`crates/programming-center`, Rust/tokio) serves a
single-page app (`web/`, React) and talks to a command station: a Z21 over UDP
(standalone mode) or BigFred's dcc-bus over HTTP. The tab and the daemon exchange
programming requests over one WebSocket.

This directory holds a TLA+ model of it, the TLC configurations that check the model
on small instances, and proofs that TLAPS checks for every instance. Everything is
translated from the source; `PROJECT.json` maps each definition to its lines.

- [Inventory](#inventory)
- [Modules](#modules)
- [Runs](#runs)
- [Findings](#findings)
- [Proofs](#proofs)
- [What is not modelled](#what-is-not-modelled)

## Inventory

### Components, their state and their operations

| component | source | state it keeps | operations |
|---|---|---|---|
| Z21 session | `bus/z21.rs` | `inner` (the current session, under a mutex), `generation` | `session`, `read_cvs_reporting`, `write_cvs`, `set_function`, `observe`, `invalidate` |
| Z21 client | `bus/z21_udp.rs` | a UDP socket, the `slot` mutex | `connect`, `read_cv`, `write_cv`, `*_pom`, `await_result` with its retry and `drain` |
| Bus hub | `bus/mod.rs` | none (chooses the bus per call) | `read_cvs`, `write_cvs`, `set_function`, `observe`, `drop_z21` |
| dcc-bus client | `bus/dcc_bus.rs` | none | chunked HTTP reads and writes |
| WebSocket, daemon | `ws.rs` | per connection: token, the running request and its cancellation token, the progress forwarder | `handshake`, `handle_socket`, `supervise`, one handler per kind |
| WebSocket, tab | `web/src/api/ws.ts` | socket, wanted token, pending requests, read queue, progress, apply buffer, timers | `connect`, `disconnect`, `cvRead`, `cvWrite`, `request`, cancel, events |
| Address programming | `address.rs`, `pc-core/address.rs` | none across calls | `address.set`, `address.verify` |
| CV lists, bit operations | `pc-core/cv.rs`, `bitop.rs` | none | `expand_cv_list`, `CvBatch::merge`, masks |
| Config and reloader | `config.rs`, `main.rs` | the live config | load, validate, watch, swap |
| Wireless programmer, firmware | `wp.rs`, `firmware.rs` | the link, the job | hello loop, scan, update, watch, cancel |
| Change lists | `changelists.rs`, `db.rs` | SQLite rows | list, create, replace, delete |
| CV table | `web/src/cv/table.ts`, `indexedTable.ts` | scope, working table, baseline, persist timer | `rememberRead`, `setCv`, `ensureCvScope`, `discard`, `reset` |
| CV registry | `web/src/cv/CvRegistry.tsx` | registered items, reads under way, apply state | auto read, `apply`, `discard`, `ensureRead` |
| Address page | `useAddressProgrammer.ts`, `dccAddress.ts` | draft, plan | read, apply |
| Write order | `web/src/decoders/types.ts` | none | `cvWritePriorityOf`, `sortCvDiffsForWrite` |
| ESU pages | `esuMapping.ts`, `esuCoupler.ts`, `EsuMappingPage.tsx`, `EsuCouplerPage.tsx` | the side table, an assignment under way, effects due | read, edit, assign a key, apply, leave |
| CV list | `CvListPage.tsx` | a row per CV: value read, draft, bits | read, draft, radio, set from text |
| Speed and volume pages | `SpeedPage.tsx`, `VolumePage.tsx`, `volumeMap.ts` | none | sliders |
| Catalogues | `web/src/decoders/*.ts`, `detectDecoder.ts` | none | look up a CV, match a manufacturer |
| Navigation | `Header.tsx`, `Navigator.tsx`, `HomePage.tsx`, `query.ts` | the URL | change address, track, decoder, page |
| Backup | `BackupPage.tsx`, `cvBackup.ts` | none | parse, restore |
| HTTP, OAuth, ZIMO forms, theme, translations | the rest | none that outlives a request | I/O, conversions, rendering |

### How they interact

```
 pages -> CvRegistry -> CvTable
              |            ^ samples (rememberRead, per animation frame)
              v            |
        ProgrammingClient (one per tab)
              |  ^
   auth, requests, cancels | acks, progress      one WebSocket at a time
              v  |
        handle_socket / supervise (one task per connection)
              |
              v
        Hub -> Z21Programmer -> Z21Client -> UDP -> command station
                  ^   ^
   other tabs ----+   +---- reloader (drop_z21)
```

- A *connection task* runs one request at a time and, while it runs, reads frames
  for its cancellation. Different connections run concurrently and share the Z21
  session and its socket.
- The *reloader* stores a new config and then bumps the session generation, in two
  steps, while calls are under way.
- The *tab* is single threaded but everything it waits for (ack, progress, socket
  events, four kinds of timers, the user) arrives in any order.

### What is hard

1. Answers of the Z21 carry no request id, and a NACK not even a CV number; they are
   matched by time. Retries, cancellations, dropped futures and shared sockets each
   threaten that match.
2. Cancellation interrupts some awaits and not others.
3. The config changes under running batches.
4. An ack and the progress it concludes travel through different tasks and channels.
5. The tab settles requests for its own reasons (abort, idle timeout, closed socket)
   while the daemon still performs them; acks and samples for them keep coming.
6. Logins, logouts and reconnections replace the socket under queued and running
   requests.
7. Multi-step programming (address, paged CVs, chunks) can fail half way.
8. One table stands for whichever locomotive the URL names; results, timers, moves to
   another address, Back and reloads come while that changes.
9. Two pages share the side table of indexed CVs, both read on their own, and one
   looks for a free row to put a coupler's key in.
10. Editors show drafts while the value behind them changes elsewhere.
11. The catalogues are thousands of lines typed by hand.

The list with source lines is in `PROJECT.json` under "hazards".

### What makes each component correct

- *Z21 session and client*: one command outstanding per socket; a verdict is the
  verdict on that command; a confirmed write was carried out; a batch accounts for
  every CV; cancellation and reload take effect within one CV; a socket with an
  orphaned command is not reused; every call returns.
- *WebSocket*: what the tab is told of a request is true of the daemon; samples of
  an abandoned read stay out of the table, those of a resolved one are all in it; a
  request runs under the token it was sent with; every promise settles; an abandoned
  request leaves the track; the tab reconnects.
- *Address programming*: after a failure the decoder answers to its old or to its
  new address; verification never reports success for another address.
- *CV table and registry*: values belong to the locomotive of their scope; the
  baseline holds confirmed values only; what failed stays pending; nothing is lost at
  a reload; nothing is pending where the user does not see it.
- *ESU pages*: rows do not overlap and are read back as they were written; the payload
  of a page that was not selected is not taken for written; a coupler's key is
  changed without changing when anything else is on; pages that read on their own
  leave pending changes alone.
- *CV list, sliders, catalogues*: what the list stages the catalogue accepts; what it
  shows is what will be written; one radio changes one bit; volume is rounded down;
  every wizard finds its CVs.
- *Firmware*: one job at a time, its end is always reported.

## Modules

| module | models | composes |
|---|---|---|
| `BusCalls` | what the bus promises the connection that calls it (abstract) | |
| `Z21Bus` | `bus/z21.rs`, `bus/z21_udp.rs`, the reloader's two steps, the cancellation and closing of `ws.rs`; implements `BusCalls` | |
| `MCZ21Bus` | instances of it | `Z21Bus` |
| `Z21BusProofs`, `Z21BusBatches` | theorems | `Z21Bus` |
| `ProgrammingWire` | requests, connections, frames | |
| `ProgrammingSocket` | `ws.rs` | `ProgrammingWire` |
| `ProgrammingClient` | `web/src/api/ws.ts`, logout of `AuthContext.tsx` | `ProgrammingWire` |
| `CvCalls` | what a call promises a page (abstract) | |
| `ProgrammingSession` | both ends and the network; implements `CvCalls` | `ProgrammingSocket`, `ProgrammingClient` |
| `MCProgrammingSession` | instances of it | `ProgrammingSession` |
| `ProgrammingSessionProofs` | theorems | `ProgrammingSession` |
| `AddressSet` | `address.rs`, `pc-core/address.rs`, `cv_bitop` of `ws.rs` | |
| `AddressSetProofs` | theorems | `AddressSet` |
| `CvTable` | `cv/table.ts`, `cv/indexedTable.ts` | |
| `CvRegistry` | `CvRegistry.tsx`, the navigation, the handlers that stage, read and apply | `CvTable` |
| `CvRegistryProofs`, `CvRegistryBaseline` | theorems | `CvRegistry` |
| `MCCvRegistry` | an instance of it | `CvRegistry` |
| `Catalogue` | `decoders/*.ts`, `detectDecoder.ts` | |
| `CvForms` | `CvListPage.tsx`, `SpeedPage.tsx`, `VolumePage.tsx`, `volumeMap.ts`, `cvBackup.ts` | `Catalogue` |
| `MCCvForms` | an instance of it | `CvForms` |
| `CvFormsProofs` | theorems | `CvForms` |
| `EsuMapping` | `features/esuMapping.ts` | |
| `EsuCoupler` | `features/esuCoupler.ts` | `EsuMapping` |
| `EsuPages` | `EsuMappingPage.tsx`, `EsuCouplerPage.tsx` and a decoder with paged CVs | `EsuCoupler`, `CvTable` |
| `MCEsuPages` | a small decoder, and checks of the two real profiles | `EsuPages` |
| `EsuPagesProofs` | theorems | `EsuPages` |

Operators named `Mut...` stand next to the definition they are a plausible mistake
for. No action uses them: they exist to show that each property notices a bug.

### Z21Bus

An element of `Ops` is one bus call. Its program counter `pc` names the await it is
at; a step is the code from one await to the next, so the model interleaves exactly
where tokio may.

| place | code | actions |
|---|---|---|
| `lock` | waiting for the mutex around `inner` (or the token) | `LockInner` |
| `cfg`, `gen`, `connect` | `session()` with the mutex held: read the endpoint, load the generation and compare, connect | `ReadConfig`, `ReadGeneration`, `Connect` |
| `top` | head of the CV loop: token, generation, CV range | `NextCv` |
| `settle` | the pause between CVs | `Settle` |
| `slot` | waiting for the slot mutex (the token does not help here) | `TakeSlot` |
| `send` | `send_to`, then the token | `Send`, `SendUnacknowledged`, `CancelUnacknowledged` |
| `await` | `select!` over reply, deadline and token | `Receive`, `Timeout`, `CancelAwait` |
| `drop` | `*guard = None` after an error | `DropSession` |
| `observe` | listening without the slot | `Observe` |

`Cancel` and `Close` are what `supervise()` does to a running call: cancel its token
or drop its future with the guards it holds. `WriteConfig` and `DropZ21` are the
reloader. `Station` and `Lose` are the command station and the network. A command
is `[op, idx, try]`, so that the model knows which send an answer answers; the code
only sees its CV number, and for a NACK nothing. `programmed` records what the
decoder carried out. `lateSends`, `staleCvs` and `hostsSeen` are history variables.

`Faults` chooses what the environment does: `"loss"` (datagrams), `"late"` (an
answer outlasts its deadline), `"cancel"`, `"close"`, `"io"` (socket errors),
`"down"` (connect fails). Without `"late"`, `Timeout` waits until no answer to the
current command is under way: deadlines that are long enough.

CV values, tracks and packet layout are left out: no property depends on them.

### BusCalls

What a connection sees of its bus calls, without sessions, sockets, mutexes, retries or
reloads: `Begin` a call, `Send` the command for the CV its batch is at, which `Arrive`s (it
is carried out or not), `Report` the verdict on that CV, `End` with a code; `Cancel` at any
time. One command of a batch is on its way at a time and a CV is settled only when none is,
so the decoder carries out no CV before those ahead of it are settled - which the page
orders its writes for. `ok` on an acknowledged CV needs it to be carried out, the second
timeout in a row ends the batch, and a cancelled batch sends or reports one more CV and is
then `stopping`. `Z21Bus` maps `stage` to the places of `pc`, `told` to the verdicts
entered, `sent` to "a command of the call is in `wire`" and `carried` to `programmed`
without the tries. The packets of an unacknowledged write, a result for another CV and
everything that happens to sessions are stutters; a retry is another `Send`. It holds in the environments
of `Patient` (see [Proofs](#proofs)): an answer that is late belongs to no command any more.

### ProgrammingWire, ProgrammingSocket, ProgrammingClient, ProgrammingSession

`link`, `up` and `down` are the connections: frames keep their order and are lost
only when a connection closes. The tab's own `close()` loses what is under way to
it and still delivers what it sent; a lost connection (`Lose`) loses both.

*Socket* has a `phase` per connection: `handshake` (first frame is the token, or is
used up as "no token"), `idle` (the loop of `handle_socket`), `busy` (`supervise`),
`gone`. `Report`, `Forward` and `Finish` separate a sample's way through the bus,
the forwarding task and the ack. `Report` is a value that the read's progress channel takes:
one that comes while the channel is full is dropped (`try_send`), and stands for a step in
which nothing happens. `Perform` stands for the bus call; it may happen
in a cancelled request (the bus may be past its last await) and a write then still
answers ok, a read does not.

*Client* has a `stage` per request: `new`, `queued` (a read in `readQueue`),
`opening` (`waitOpen`), `pending` (sent, in the pending map), `done`, with the
`outcome` its promise settled with. A *task* is guarded by `Quiet`: promise
continuations (`StartRead`, `Send`) run before the next task does, as the event loop
of a browser guarantees, and so does the close event that follows an error event.
`rs` is what the tab believes of its socket (`readyState`), `link` what is true: a
send into a lost connection that has not been reported is silently lost.
`ignoreProgress` is not a variable: it only ever holds requests that are no longer
shown as `owner` and is cleared with it. `Dumps` are reads with `liveApply: false` (the backup
and the ESU pages), whose samples never reach the apply buffer. How many
overlays are open is not kept: an ack flushes the buffer, a call that ends without one flushes it or leaves it for the next
frame (`FlushAfter`), as `endRead()` does when an overlay of its page goes on.

*Session* joins the two and lets the network lose connections. `faults` bounds
disturbances: lost connections, dials given up, logouts, logins with another token.
A new connection is only ever opened in the wake of one, so `MaxFaults + 1`
connections are enough: TLC would stop at an undefined `Fresh` otherwise, and
`TypeCorrect` proves it for any number of disturbances (`Budget`).

### AddressSet

`pc` is the await at which `address.set` is: `read` (CVs 28 and 29), `settle` and
`write` for each planned CV, `observe` (the station leaves programming mode),
`verify` (CVs 1, 17, 18, 29). A step is the code from one await to the next. Each CV
of a read may be missing from its batch; the bus may give up a call (`GivesUp`); a
write without a confirmation may have been carried out (`WriteFailed`; `Z21Bus`
says why); the user may cancel and the socket may close at any await. `Revert` is
the reason for the verification: a RailComPlus decoder may restore its bit.

`BitopRead` and `BitopWrite` are another connection's `cv.bitop` of CV 29, between
any two bus calls of `address.set`: the slot is only held for one CV. They stand for
a tab's read and later write of CV 29 as well. With `Wants` empty there is no other
connection. (Its constants need no definitions, so there is no MC module.)

An address is `[long |-> FALSE, n]` or `[long |-> TRUE, hi, lo]`: the bytes of a long
address are separate because two CVs hold them, their encoding is left out. CVs 28
and 29 are `[bit, rest]`. `start` and `stale` are history variables.

### CvCalls

What a page may rely on, without sockets, queues, timers or frames: `Make` a call,
the daemon may `Perform` it, and `Settle` settles some waiting calls for one reason
and puts values of waiting reads into the table. `ok` needs the call to be performed,
`busy` that it is not and never will be, `cached` that the table shows something. A call
may be cancelled at once, if its signal was aborted already, and making it may close the
calls that wait on a connection it finds unusable. `ProgrammingSession` maps `made` to the calls
past stage `new`, `result` to `outcome` and `shown` to the samples in the table or buffered for it, and the
run `session_safe` checks that each of its steps is a step or a stutter of `CvCalls`
(`KeepsPromises`). That an `ok` was performed at the daemon is part of it.

### CvTable and CvRegistry

A store is `[snap, stored, armed]`: the snapshot in memory (`scope`, `table`,
`baseline`), the one in `sessionStorage` and the 250 ms timer. There is one storage key
for all scopes, so `Load` finds a scope's values only if they were stored last.

`url` is the address bar, `shown` what React has rendered: the layout effect and the
address effect run at `Render`, between them. Five CVs stand for all: `A`, the short
address of CV 1; `L`, the long one of CVs 17 and 18; `M`, a bit field like CV 29, with the
bit that says which of the two counts and a bit that no radio names; `B`, any other CV;
and `S`, an indexed CV of the side table. So an Apply can write part of an address, and
only one with `A` or `L` in the batch moves the target (`Moved`), to what the table then
decodes to, an unknown CV counting as 0 (`Displayed`).

The URL has an address and a track, which are independent. `Reach` is who hears a command:
on the programming track the locomotive that stands there (`prog`), whatever the address;
on the main every locomotive that has the address, and with address 0 nobody.
`ChangeTrack` leaves the table as it is. Nobody confirms a write on the main. `ops` is the
queue of requests with what is left to do, what was answered and what failed; `ReadNext`
and `WriteNext` are the daemon, one CV at a time, each of which may fail. `Apply`
snapshots the differences, `WriteDone` does what the code does behind the `await`:
confirm, retarget, send the side table's batches. `Locate` and `SetAddress` are the
read and the apply of the Address page, which go to the programming track in any case:
`address.set` writes its CVs, the bit last, verifies them (`SetDone`) and answers with what
it read; `AddressDone` remembers that and moves table and URL to it. (The daemon's part in
full is `AddressSet`.) A move replaces the query by that of the handler with another
address, and keeps the page that is open by then (`Moving`).

The model lets nobody give a locomotive the address of another one (`KeepsApart`): with
two on one address no program can tell them apart.

`doubt` is a history variable for what the tab cannot know: pairs of a locomotive and a CV
that the table filed under its address need not have right. They are

- a CV written but not, or not yet, reported: a cancelled Apply, a failed `address.set`, an
  answer that was lost, a backup restored;
- a result of another locomotive than the one of the scope it is stored in (`Astray`):
  because the programming track has no regard for the address, or because Back changed the
  scope while the request ran;
- the table a locomotive finds under an address it was just given (`Inherited`);
- a table that moved to an address decoded from CVs that were unknown, pending or in
  doubt themselves (`Misled`, `Foisted`).

A CV leaves `doubt` when it is read or confirmed where it belongs. With tables filed under
address 0 the locomotive is the one on the programming track.

### Catalogue and CvForms

`Catalogue` is the data of the five profiles: for each CV the range, the allowed values,
the documented bits, the default and the read-only flag, in the order of the code and
generated by the same loops. `CvForms` edits one CV of one profile through every editor
that can reach it, in any order. Which CVs, typed numbers, texts, radios, bytes and
percentages are tried is left to constants. Items that differ in their number only are
edited alike: for TLC `Representatives` of `MCCvForms` keeps one of each kind and those the
speed and volume pages know by number.

### EsuMapping, EsuCoupler and EsuPages

A cell is `<<page, cv>>`, the page being CV 32. `EsuMapping` has both profiles, where a
row's cells are, the codec of rows and the batches of Apply; `EsuCoupler` which row drives
an output, and the row and its new contents when a coupler is put on another key.

`EsuPages` runs the two pages. `due` holds the effects of the page that opened; a *job* is
what runs under the overlay, a list of batches written CV by CV (`WriteCv`) and perhaps
followed by a read (`ReadPage`) or an answer (`BatchDone`). The decoder takes a payload CV
to the page that is selected *then*. `wish` is the loop of `assignF()`, whose rounds of
reading are bounded by `MaxTurns` (8 in the code). `Stop` cancels a job at any CV, and
`Goto` leaves at any time. An index CV that fails is not taken by the decoder; the values
of the page selected before are then read for the page asked for, because `readPages()`
does not look at that error, and `slipped` and `doubt` remember it. The pages also note CVs
31 and 32 in the main table; nothing takes a page from there, and it is left out.

## Runs

| run | instance | checks |
|---|---|---|
| `z21_single` | one connection; a write of CV 1, then a batch CV 2, CV 1; loss, cancel, socket errors | `TypeOK`, `OwnVerdict`, `ConfirmedWritesProgrammed`, `BatchAccounted`, refinement `ServesBatches` |
| `z21_shared` | two tabs; a batch (acknowledged, or POM with an invalid CV) against a function or a listener; two endpoints, one reload, cancel, close, failing connects | `SlotExclusive`, `AtMostOneCvAfterReload`, `OnlyConfiguredEndpoints` |
| `z21_live` | two tabs, a batch of two and a read; loss, cancel; fairness | `AtMostOneSendAfterCancel`, `BrokenSessionRetired`, `EveryCallReturns` |
| `session_safe` | a read and a write, two tokens, one disturbance | `TypeOK`, `RunsUnderOwnToken`, refinement `KeepsPromises` |
| `session_live` | two reads, one of them for its values only, one disturbance; fairness | `OneReadAtATime`, `LateSamplesDropped`, `OkSamplesInTable`, `EverySettles`, `AbandonedStops`, `Reconnects` |
| `address` | two short and two long addresses, all faults, `cv.bitop` of CV 29 | `TypeOK`, `OldOrNew`, `AdoptedIsActual`, `LostOnlyIfStale` |
| `registry` | two locomotives that differ in every CV but the long address, either one on the programming track, one free address, three user actions in a tab opened at any URL | `TypeOK`, `BaselineIsDecoder`, `PersistedOrArmed`, `NothingLeftBehind`, `FailedStaysPending` |
| `forms` | every kind of CV of every catalogue, no bound on actions | `CatalogueSound`, `ListStagesAcceptable`, `ShownIsPending`, `OneRadioOneBit`, `VolumeNeverLouder` |
| `esu` | two rows, two outputs, two keys, three user actions; both real profiles for the codec | `BaselineIsDecoder`, `CodecRoundTrip`, `LayoutSound`, `OthersKept`, `AssignTakesHold`, `CouplerKeepsPending` |

and three runs that end in a counterexample, see [Findings](#findings).

**Bounds.** *Z21*: two calls are enough for every conflict over the session mutex,
the slot and the socket, because each involves one holder and one intruder. Two
CVs per batch reach the settle pause, a second send, two timeouts in a row and a
stale answer for a CV that was already decided; the same CV at the end of two
batches is what an orphaned answer needs. One reload makes two generations and two
endpoints. The theorems below cover the rest. *Session*: a read and a write cover
both kinds of request and their collision at the daemon (busy); two reads cover the
queue; one disturbance gives two connections. `Reports` stands for
the whole progress of a read, because samples of one read are not told apart.
*Address*: two short addresses and two long ones (which differ in their first byte) tell
old from new in all four combinations of short and long; two values of the other bits
of CV 29 are an update and its loss. *Registry*: two locomotives tell whose value is
whose, and the free address is one to move to, as a long one. A tab opens at any page,
address and track, so that three actions are an edit or a read, an Apply or `address.set`,
and a move of the page, Back, a cancel or a reload on top. Each action is
followed by as many steps of daemon, timers and answers as it causes, and these are not
bounded. *Forms*: nothing is bounded but the sampled values: the ends of a CV's range, their
neighbours, and bytes that differ in single bits. *ESU*: the small decoder has what the
decisions of `couplerFState` and `emptyRowCandidate` tell apart (a row for the coupler
alone, one shared with another output, one with a key only, an empty one); two rounds of
reading are as many as it can need; three actions are an edit or an assignment, an apply
or a change of page, and another. The layout and the codec, where sizes matter, are
checked on the two real profiles: every row and group, and the codec in the rows at the
ends of a page. The session, registry and
esu runs switch deadlock checking off: requests, disturbances and actions are used up.

**Fairness.** *Z21*: weak fairness of every call's own step (tokio polls what is
ready, its mutexes are FIFO, deadlines expire), of the station and of the second
half of a reload. Nobody has to cancel, close or reload. *Session*: the browser
delivers events, fires armed timers and runs continuations; a dialed connection
opens or is lost; daemon tasks are scheduled and notice a closed stream. A running
request is assumed to end **only** once it is cancelled (`Z21Bus` shows that it
does: `AtMostOneSendAfterCancel`, `ServesBatches` and `EveryCallReturns`); `EverySettles` therefore
rests on the idle timer and not on the daemon.

## Findings

Each is a run with `expect: violation` that checks one sentence of the repository.

1. `z21_reconnect` — "Apply promotes only confirmed CVs to the baseline"
   (`ARCHITECTURE.md:319`). A closed WebSocket drops the call without `drain()` and
   without dropping the session; the orphaned answer confirms a later write of the
   same CV whose own command was lost.
2. `esu_switch` — leaving the coupler page for the mapping page "does **not** discard; the
   cache stays" (`docs/coupler.md:29-31`). The mapping page reads a whole group on entry
   unless it knows every CV of it, and what it reads replaces the table and the
   baseline: a key assigned on the coupler page and not yet applied is gone.
   (`CouplerKeepsPending` shows that the coupler page, which reads unread CVs only, does
   not do this.)
3. `registry_mixed` — the table is "scoped by `decoder|address|station`. Changing that scope
   loads a different table so two locomotives are not mixed" (`ARCHITECTURE.md:275-277`).
   The track is independent of the address and stays `prog` by default, so a read under
   another locomotive's address fills that address's table and baseline from the
   locomotive on the programming track. `NotMixed` is checked while no CV has been written:
   one read is enough.

The modules state further sentences of the repository that the code does not keep. They
have no run of their own; adding the definition to the run named finds the counterexample:

| definition | run | sentence | what happens |
|---|---|---|---|
| `NackIsForThisCv` of `Z21Bus` | `z21_single` with `"late"` | "so a late NACK is not counted as the next CV" (`z21_udp.rs:266`) | a NACK that outlasts the deadline arrives behind `drain()` |
| `LoggedOutTableEmpty` of `ProgrammingSession` | `session_live` | logout "drops the in-memory CvRegistry" (`ARCHITECTURE.md:439-441`) | `disconnect()`, which comes last, flushes samples that waited for a frame into the empty table |
| `RevertedIsMismatch` of `AddressSet` | `address` | "Mismatch → `address_reverted`" (`ARCHITECTURE.md:356`) | a verification that is cancelled, fails or misses a CV is answered the same way |
| `TargetFollowsWrite` of `CvRegistry` | `registry` | the target follows what Apply wrote (`ARCHITECTURE.md:300-302`) | the address is decoded from the table, CVs that are unknown or whose write failed included |
| `UnknownBitsKept` of `CvRegistry`, `UnknownBitsOrZero` of `CvForms` | `registry`, `forms` | unknown bits stay as read, or 0 (`ARCHITECTURE.md:330-331`) | rows outlive a change of locomotive; with nothing read they come from the default |
| `OutOfRangeNotStaged` of `CvForms` | `forms` | "Out-of-range values are not staged" (`ARCHITECTURE.md:401`) | the sliders of the speed page start at 0 where the catalogue starts at 1 |

More observations, listed as hazards:

- A request sent right behind a cancellation may be refused as busy, and a read still
  queued at logout reopens the socket with a null token.
- "Only one CV read/write may be in flight at a time" (`z21_udp.rs:47`) holds per
  socket: after a reload a second call opens a new one while the first still awaits
  a CV on the old one, possibly at the same station.
- `address.set` sets one bit of CV 29 by writing back a byte that it read several bus
  calls earlier; what another connection changed in between is undone.
- `readPages()` of the ESU pages does not look at the errors of CVs 31 and 32, and a
  cancelled Apply or a restored backup leaves the baseline behind the locomotive.
- Two effects of the coupler page start jobs at the same time; the daemon refuses one.
- `railcomPlus` is sent "only when the user changed it from the read value"
  (`useAddressProgrammer.ts:23`), but when CV 28 could not be read its write is
  skipped, the answer is ok, and the page takes the requested value for the read one.

## Proofs

TLAPS proves, for all values of the constants that satisfy `ConstantsOK`
(`AddressSet`: `WantsAssumption`; `CvRegistry`: `RegistryAssumption`;
`ProgrammingSession`: `WireConstants` and `ClientConstants`; `EsuPages`: `PagesAssumption`
and `RowsAssumption`; `CvForms`: `FormsAssumption` and `EntriesAssumption`):

| theorem | module | property |
|---|---|---|
| `TypeCorrect` | `Z21BusProofs` | `TypeOK` |
| `NoSharedSlot` | `Z21BusProofs` | `SlotExclusive` |
| `CancelIsPrompt` | `Z21BusProofs` | `AtMostOneSendAfterCancel` |
| `ReloadIsPrompt` | `Z21BusProofs` | `AtMostOneCvAfterReload` |
| `EndpointIsCurrent` | `Z21BusProofs` | `OnlyConfiguredEndpoints` |
| `BrokenSessionIsDropped` | `Z21BusProofs` | `BrokenSessionRetired` |
| `BatchesAccounted` | `Z21BusBatches` | `BatchAccounted` |
| `VerdictsAreOwn` | `Z21BusBatches` | `OwnVerdict`, if `Patient` |
| `ReportedWritesProgrammed` | `Z21BusBatches` | `ConfirmedWritesProgrammed`, if `Patient` |
| `BatchesServed` | `Z21BusBatches` | `ServesBatches` (refinement of `BusCalls`), if `Patient` |
| `TypeCorrect` | `AddressSetProofs` | `TypeOK` |
| `StoppedAnywhere` | `AddressSetProofs` | `OldOrNew` |
| `LossNeedsStaleCopy` | `AddressSetProofs` | `LostOnlyIfStale` |
| `AdoptsTheActual` | `AddressSetProofs` | `AdoptedIsActual` |
| `TypeCorrect` | `CvRegistryProofs` | `TypeOK` |
| `FailureIsNotForgotten` | `CvRegistryProofs` | `FailedStaysPending` |
| `NothingUnsaved` | `CvRegistryProofs` | `PersistedOrArmed` |
| `NothingStaysBehind` | `CvRegistryProofs` | `NothingLeftBehind` |
| `BaselineKnown` | `CvRegistryBaseline` | `BaselineIsDecoder`, if `ToldApart` |
| `TypeCorrect` | `ProgrammingSessionProofs` | `TypeOK` |
| `NoLateSamples` | `ProgrammingSessionProofs` | `LateSamplesDropped` |
| `ReadsTakeTurns` | `ProgrammingSessionProofs` | `OneReadAtATime` |
| `OwnToken` | `ProgrammingSessionProofs` | `RunsUnderOwnToken` |
| `BusyIsUntouched` | `ProgrammingSessionProofs` | `BusyMeansUntouched`, which `KeepsPromises` covers in the runs |
| `Implements` | `ProgrammingSessionProofs` | `KeepsPromises` (refinement of `CvCalls`) |
| `SamplesArrive` | `ProgrammingSessionProofs` | `OkSamplesInTable` |
| `ListStagesGood` | `CvFormsProofs` | `ListStagesAcceptable` |
| `ListShowsPending` | `CvFormsProofs` | `ShownIsPending` |
| `OneRadio` | `CvFormsProofs` | `OneRadioOneBit` |
| `NeverLouder` | `CvFormsProofs` | `VolumeNeverLouder` |
| `SideTableKnown` | `EsuPagesProofs` | `BaselineIsDecoder` |
| `ReadsSparePending` | `EsuPagesProofs` | `CouplerKeepsPending` |
| `AssignmentHolds` | `EsuPagesProofs` | `AssignTakesHold` |
| `OthersUndisturbed` | `EsuPagesProofs` | `OthersKept` |
| `RowComesBack` | `EsuPagesProofs` | none: of every row and profile, what `CodecRoundTrip` checks on some |

For `Z21Bus` the argument is one inductive invariant in parts, each with a step lemma that goes
through the actions of `Next`:

- `Shape` is the type invariant, split by the variables actions change together,
  plus two facts types depend on: a call past `session()` has a session (`Holding`;
  without it `slot[ses[o]]` is not a mutex) and a batch that goes on has timed out
  at most once in a row (`Tired`; without it `timeouts` has no bound).
- `Held`: a call at a command holds the slot of its session. Two such calls with the
  same session would both be the value of one `slot`.
- `Late`: a call that has sent after its cancellation is at `drop` or has ended. So
  the count cannot grow, whatever the length of the batch.
- `Opened`: a session belongs to a call that is past `session()`, whose `look` no
  longer changes, and no session is from the future.
- `Stale`: after beginning a CV on a replaced session a call is at places from which
  the only way to another CV is `NextCv`, which refuses. Needs `Opened`: a replaced
  session stays replaced because generations only grow.
- `Endpoint`: what a call has read as endpoint, and what its session was opened
  with, was configured in the call's time. Needs `Opened`, and that the comparison
  in `session()` includes the endpoint: the generation alone is stale between
  `WriteConfig` and `DropZ21`.
- `BrokenSessionRetired` is inductive relative to `Shape` and `Opened`.
- `Batch` is what a batch has entered: an entry per CV it is past (`Entered`), an `ok`
  one for that CV (`Matched`: `await_result` compares the CV number of every result) and
  no two timeouts in a row (`Apart`, from the counter `timeouts`). No fault can break it.
- `Own` is whose answers are where. A command that is under way, or an answer that
  waits in a socket, is of the call that holds the slot and of its current CV, or it lies on
  a session that no call will use again: a call drains the socket before it sends
  (`Quiet`), and one that was cut short is at `drop` or has been replaced (`Uncancelled`).

`Own` does not hold in every environment, and `Patient` says in which. An answer that
outlasts its deadline (`"late"`) is in nobody's hands when the next command is sent, and
so is that of a call whose connection closed (`"close"`: finding `z21_reconnect` is
such a run). A call that was cancelled, or lost its socket, drops the session, but only after
it has released the slot: a call of a second connection that waits for that slot goes on
with the orphan's socket. So the theorem takes either one connection (a connection runs
one call at a time) with any cancellations and socket errors, or any number of
connections without these; losses, refusals, retries and reloads are free in both. The
run `z21_single` is an instance of the first.

`BatchesServed` maps each step to one of `BusCalls` or to none (`SessionSeen` to `ElseSeen`,
one lemma per group of actions). It needs `Own` and two invariants more. `Asking`: a
command on its way is the current command of its call, which waits for the answer or has
given up, so that there is never a second one of the same call and what arrives is carried
out for the CV its batch is at. It rests on `Quiet`: when an answer is in the socket nothing
is on its way any more. `Counting` ties `timeouts` to the entries from the other side than
`Apart` does: a count that is not 0 is that of the last entry, so that the batch ends at the
second timeout in a row and at no other. With `OkIsProgrammed` of the answer that is taken,
and `Quiet` of whose answer it is, an `ok` has been carried out for the very CV it is
reported of.

For `AddressSet` it is `Stages`, which holds as long as nobody else has changed CV 29
since the request came. `OldOrNew` says nothing of the CVs that do not count
at the moment, so it is not inductive: before the last write the decoder must still
hold its old address as far as the bit makes it count (`OldAddress`), the writes done
so far must have stored the new one (`Progress`), and the plan must end with the bit
(`Shape`, which `PlanShape` proves of `plan_set_writes` for every pair of addresses);
after the last write both the new CVs and those that a reverted bit makes count must
be right (`NewAddress`). `WriteStage` is the step from one write to the next,
`StageReached` the way back to `OldOrNew`. It needs no assumption on the bus: every
write may fail or be carried out unconfirmed. `LossNeedsStaleCopy` rests on `Copies`:
what a handler is about to write back agrees with the decoder in the other bits, from
the read (`got`, `old`) through the plan (`PlanRests`) to the write, unless the copy is
marked stale. `AdoptsTheActual` rests on `Seen`: what `verify()` has read is what the
decoder has, while it reads and for as long as its answer stands, because a write of
`cv.bitop` in between makes the request's copy stale, which `Undisturbed` excludes.

For `CvRegistry` there are four invariants, each with a lemma per operation of a store
and one per action:

- `Typed` says more than `TypeOK`: each CV has values of its own kind, and a CV of a
  request is still to do, answered or failed, in one of the three only. The second is
  what `FailedStaysPending` needs: a CV in `errs` is not in `got`, so neither the new
  baseline nor the read value that an answer stores touches it.
- `Kept`, of both stores: every operation that changes a table goes through `emit()`,
  which arms the timer; only storing disarms it.
- `Behind`: off the mapping page the side table is `Safe`, that is, nothing is pending
  in it *and nothing will be when what is stored is loaded*:
  a scope change or a reload may load what the timer has stored.
- `Certain` says of both stores, in memory and in `sessionStorage`, that the baseline is
  what the locomotive of their scope has, or in doubt (`MainTrue`, `SideTrue`; with
  `Effective`, what a store without a scope will hold when it is next given one). The
  locomotive of address 0 is the one on the programming track, of another address the one
  that has it (`Owning`, one at most by `Distinct`). While a request is under way its main
  table is also about the locomotive that was shown when it was sent, which may have been
  given another address since (`Sharing`). `Queue` says of each request that what it has got
  is so at the locomotive that hears it, or in doubt, because requests take turns, and
  that only who hears it can have been given an address (`Sound`); at most one read of
  the address effect waits behind it. `Placed` is the scopes the stores are in between a
  change of the URL and its rendering. Answers are the hard step: `HeardIsAbout` shows that a
  result that is not `Astray` is of the locomotives the table is about, `ToldTrue` that the
  table is then right, and `ShowsAddress` that a table that moves with an address nobody
  need doubt finds the locomotive it was about there.

`ToldApart` is its hypothesis: no two locomotives had the same address at first. With two on
one address a command on the main programs both, and a value read from one of them on the
programming track is not the other's; no program can tell. `KeepsApart`, in the guards of the
model, keeps it so. What the code itself mixes is not assumed away but counted as `doubt`,
cause by cause and CV by CV: `ARCHITECTURE.md:275-277` ("not mixed") promises more than the code
keeps (finding `registry_mixed`), and the theorem says that nothing else goes wrong.

For `ProgrammingSession` the parts build on each other, each with a lemma per action or
per group of actions that change the same variables:

- `Sound` is the types with what they rest on. `Budget`: the connections used so far are
  `1..n` with `n` at most one more than the disturbances, and no more than those while the
  tab has no live connection, so that `Fresh` is always a connection. `Dialed`: only the
  connection of the tab's socket is dialed or open. `Busy` says that a request runs
  exactly in the phase `busy`.
- `Called`: a read that waits for its connection or its answer is the head of the queue
  (`Lined`, hence `OneReadAtATime`), what has an outcome is over (`Settled`), the progress
  belongs to a pending read (`Owned`), and no samples are kept for a read that is over.
- `Authed`: the token comes first on a connection and everything sent on it was sent under
  that token. `TokenOf` covers the token that is still on its way.
- `Once`: a request is in one place only - not sent, on its way on one connection, running
  on one, or behind it - and while it is on its way it is not performed.
- `Told`: an ack on its way says what is true. `busy` is the hard one: it must stay true
  that the request is untouched, which needs `Once`: nothing that was refused is sent again.

`Implements` then maps each step to `Make`, `Settle` or `Perform` of `CvCalls` or to none
(`ClientSeen`, `SocketSeen`, `StepSeen`). `shown` of `CvCalls` is the table together with the
apply buffer: a call that ends without an ack may flush the buffer or leave it for the next
frame, and a page sees no difference. An ack that settles a call and a socket event that
closes several calls, with the samples they put into the table, are one `Settle` each.

`SamplesArrive` follows a sample through all the places where it may be. `Brought` says of a
read that waits for its answer that it is the one shown and known to the daemon on the
tab's own connection only (`Home`); that what it has streamed is with the tab, with the
forwarder or on its way, unless the connection is lost (`Coming`); and that an `ok` on its way
comes behind every sample, and no sample will follow it because the read has stopped running
(`Ordered`). `Finish` establishes the last from `Coming` and `fwd.await`.

For `EsuPages` the invariant is `PagesInv`. `Works` says that a job either reads or
applies, so that a read has changed no cell when an effect or a link cuts it short (such a job
is dropped without a word, unlike an Apply), and `Written(n)` what the first `n`
commands of a batch have left behind: unless CV 31 or 32 failed the decoder is on the page of
the batch, and what did not fail of the payload is where it was meant to be. That no later
command of the batch undoes it rests on `CvsInOrder`, no CV twice in a batch, hence on the sort
of `applyBatches`. It is written by rank (`Ascending`, the i-th number has i - 1 below it)
rather than with the sort of the community modules, which the provers cannot look into;
`Ranked` shows by a least counterexample that every rank below the size is taken. `Unasked`:
a read the coupler page starts asks for nothing that is pending, on none of the pages it
has still to read, and nothing becomes pending while it runs. `MappedCells` to `EntriesMapped`
keep everything the pages ask for or edit inside the decoder, also the row an assignment picks
(`PlannedRow`, `Greatest`). `PagesAssumption` asks of a profile that it has rows, outputs and a
CV for each group of rows, and of the decoder that it has these CVs, at 257 to 512 of a page.

The theorems about rows need the codec, for any profile that is `WellLaid`
(`RowsAssumption`): a row fits into a stride of 16 CVs, the v5 pages of conditions end before
those of outputs, no two conditions, outputs or functions share a bit, and the sound CVs are as
many as the slots need. TLC evaluates `WellLaid` for the small decoder, and within `LayoutSound`
for both real profiles. From it `CellsApart` follows by arithmetic on the stride: no cell
belongs to two rows, or to two places of one; `BitOfByte` and `PairOfByte` find every bit and
pair of bits again in the CV that is put together from them (`BitOf`, for outputs, functions and
sounds alike); so `RowComesBack`: a table that has what was written for a row has that row, its
conditions, outputs, functions and sounds.
`AssignmentHolds` rests on `Planned` (`PlanIs`): the row `planCouplerFAssign` picks drives the
output alone or nothing, no other row drives it, and all outputs of all rows are known. That
keeps the other rows' cells out of what is staged and makes the coupler `simple` afterwards.
`WishInv` says that an assignment goes on only as long as it is for an output and a key there are.

`OthersUndisturbed` is about the decoder, some steps later than the edit, with reads, page
changes, Discard and failures in between. A value is `Harmless` in a cell when writing it leaves
every output that is not touched in the rows it is in, and leaves alone the conditions of every
row that has such an output. `OthersInv` says that all values in the table, in the baseline
and in the batches still to be sent are harmless, as long as nothing slipped to another page.
Staging a row establishes it because the outputs it had and gets are all touched
(`HarmlessRow`); a write of a harmless value keeps every other value harmless, although it
changes what "as it was" means (`HarmlessWrite`); what is read or confirmed is what the
cell holds (`ToldHarmless`). The baseline is needed for Discard, and for cells it knows and the
table does not.

For `CvForms` the invariant `FormsInv` is `ListStagesAcceptable` with `Shapes`: what is
staged, read and known is a number, the bits of a row are 0 or 1, and the volume page has the
CV its profile names. Its steps rest on three facts of arithmetic: a byte has the bits it is
put together from (`BitOfByte`, for all 256), so that what `onBits` assembles differs from
what was there in the bit that was set (`AssembledBits`), and rounding a percentage to a
volume and back (`VolumeRounds`, for every percentage and the three maxima there are).
`EntriesAssumption` is what they ask of the catalogue: an entry with radios takes every
byte, and so does the CV of the volume up to the slider's maximum. TLC evaluates it on every
entry of the five catalogues. The CVs a user looks at, the numbers typed, the texts and the
percentages are arbitrary. `ListShowsPending` needs no invariant: the editor's functions
satisfy it for any draft and any value, which is what makes it safe against everything that
happens behind the editor's back.

**Only model-checked**: liveness, which is out of the prover's reach, and three invariants that
are about data, not about steps: `CatalogueSound` on the CVs the catalogues list, `LayoutSound`
on the two ESU profiles there are, and `CodecRoundTrip` on those profiles for a set of rows, each
with one thing set, or everything, and for the delays (`RowComesBack` says it for every row
of every such profile; the delays and the brightness stay with TLC).

## What is not modelled

- Frame and packet layout, address encoding, tracks beyond programming track and main.
- BigFred's bus: stateless HTTP calls to a system whose code is not here.
- Firmware and the wireless programmer: one job over a link to hardware whose firmware is
  not here.
- ZIMO mapping, coupler and speed pages and the ESU speed curve: forms over plain CVs of
  the main table, which `CvRegistry` has; pure conversions with unit tests.
- Change lists: rows of SQLite, one statement per request.
- File watching and debouncing of the configuration, HTTP, OAuth, the proxy,
  the database schema, rendering, wording and translations.
- Several tabs at once in `CvRegistry` and `EsuPages`: a second tab has its own
  `sessionStorage` and table, and what it writes is unknown to the first by design. Its
  effect on the bus is in `Z21Bus` and `AddressSet`.
- In `EsuPages`, another scope (`CvRegistry` has them) and a decoder that takes CV 31 or 32
  without confirming it.

`PROJECT.json` has the component list with a status and a reason for each.
