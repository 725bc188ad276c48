# A formal model of chrome-pilot-mcp

chrome-pilot-mcp is an MCP server that drives a Chrome browser over the DevTools
protocol.  This directory holds TLA+ modules of its concurrent core, of the process
around it and of what it does with files, pages and settings, the TLC configurations
that model-check them on small instances, and TLAPS proofs, for every value of the
constants, about all of its components.  `PROJECT.json` ties every definition to the lines of
`src/` it stands for, and every property of a run to a mutation of the code that breaks it.
Paths of Go files are written short: `ws.go` is `src/internal/ws/ws.go`, `toml.go` is
`src/internal/config/toml.go`, `pages.go` and its neighbours lie in `src/internal/tools/`.

To check a module: `tlc -workers 2 -config Pages.cfg Pages`.
To check the proofs of a module: `tlapm Pages_proofs.tla`, and so on for each `*_proofs`
module.

## 1. The system

    MCP client --stdio--> mcpserver.Serve --> tool handler (internal/tools)
                                                 |        ^ shared state
                                                 v        |
                                              cdp.Client --- read loop --> handlers of events
                                                 |              ^             |  timers, goroutines
                                                 v              |             v
                                              ws.Conn <----- Chrome (external) ...

### Who runs

| Actor | Code | What it does |
|---|---|---|
| the tool goroutine | `mcpserver.Server.Serve`, the handlers of `internal/tools` | reads a request, runs its tool to the end, answers, reads the next: tools never overlap |
| the read loop | `cdp.Client.readLoop` | reads the connection, hands replies to callers, runs the event handlers of `collectors.go` and `Manager.dispatchEvent` in order of arrival |
| goroutines the read loop starts | `screencast.go:79`, `fetchguard.go:54` | acknowledge a frame, judge a paused load: CDP calls the read loop itself must not wait for |
| timers | `screencast.go:156`, `context.WithTimeout` everywhere | end a recording, end a call |
| `cmd.Wait` | `browser.go` | waits for Chrome's process |
| Chrome | external | answers, sends events, opens and closes tabs, pauses loads, shows dialogs, exits, stops answering |
| other programs | external | end standard input, go away from standard output, move directories and put links in their place, kill this process |

They share `Manager.mu` (client, pages, selection, uids), `Manager.waiterMu` (one-shot
event waiters), `collectors.mu` (console, network, dialogs, recordings),
`cdp.Client.mu` (the table of pending calls) and `ws.Conn.writeMu` (the write side of
the socket).

### Components

| Component | State | Operations | What makes it correct |
|---|---|---|---|
| DevTools client, `cdp/client.go` | id counter, pending table, closed, done | `Call`, `Close`, read loop | every caller gets its own reply or an error, nobody is left waiting, the read loop never blocks on a caller |
| WebSocket connection, `ws/ws.go` | write lock, message under assembly | `ReadMessage`, `WriteMessage`, `Close` | frames on the socket are whole, messages are exactly their fragments, Close returns |
| Dialog guard, `dialogguard.go`, `manager.go`, `collectors.go`, `input.go` | waiters, open dialogs | `callGuarded`, `rendererCall`, `waitEvent`, `dispatchEvent`, `handle_dialog` | no tool waits silently on a page that shows a dialog; the record says what is showing; the result says what happened |
| Screencast recorder, `screencast.go` | recordings, timers, output roots | `screencast_start`, `screencast_stop`, frame handler, deadline | memory within budget, the report names the limit that was hit, nothing leaks, one recording never disturbs another |
| Page registry, `manager.go`, `pages.go` | page list, selection, ready sessions | `list_pages`, `select_page`, `close_page`, `new_page`, refresh, attach | one session per tab, only ready pages are used, an index means what it meant when listed |
| Snapshots and uids, `debug.go`, `extranodes.go` | uids in force | `take_snapshot`, resolution by `click` and others | a uid is of the last snapshot and acts on the page it names |
| Input tools, `input.go` | none of their own | `click`, `hover`, `fill`, `drag`, `press_key`, ... | see the dialog guard and uids |
| Navigation, `pages.go` | one waiter | `navigate_page`, `wait_for` | a load is not missed; a timeout after the navigation was answered is only reported of a page that has not loaded |
| Console collector, `collectors.go`, `console.go` | ring of messages | `addConsoleMsg`, `list_console_messages`, `get_console_message` | the newest are kept; an incremental poll repeats and skips nothing it could have shown |
| Network collector, `collectors.go`, `network.go` | ring of records, table by request id | four events, `list_network_requests`, `get_network_request` | the table is bounded, events update the record they are about, a report is a state the record had |
| Connection and lifecycle, `manager.go`, `browser.go` | client, browser, profile directory | `ensure`, `Launch`, `Shutdown`, `Browser.Close` | one Chrome, no temporary profile or process left, an attached Chrome untouched |
| Emulation, `emulation.go` | overrides in force | `emulate`, `resize_page` | what the tool says is applied is in force; what is omitted is reset |
| Request interception, `fetchguard.go` | whether a session is guarded | `handleRequestPaused`, `requestAllowed` | every paused load is judged, by the grants of that moment, whatever the tool holds |
| Local files and grants, `localfiles.go`, `workdir` | grants per session | `checkLocalURL`, `grantNavigation`, `refuseUngrantedLocal` | a page shows, and a tool works on, only files of the directories granted to it; what a tool accepted fails afterwards only if its place came to be refused |
| Host filter, `hostfilter.go` | none | `urlAllowed`, `hostAllowed`, `matchHostPattern` | block wins over allow, a pattern is met by the hosts it is documented for |
| Output confinement, `confine.go` | none in memory; the file system | `outputUnder`, `writeUnder`, `createExclusive`, `resolveExisting`, `inputUnder` | what is written lies below the directory that was opened, whole or not at all, where the answer says |
| MCP server and transport, `mcpserver`, `transport`, `jsonrpc` | the line being handled | read, handle, answer | one answer per request and none for a notification, in order; the process ends when its input does |
| Configuration, `cmd`, `config` | none after the start | `parse`, `apply`, `buildConfig`, `toToolConfig` | a server that starts runs with all of what was written, and nothing that contradicts itself |
| GIF assembly, `screencast.go` | none | frames to GIF | delays add up to the recording's time |
| Profiles, `profile.go` | none | paths, lock hint | — |

The hard behaviours are the races between a tool and the read loop, events that come
before or after the reply they belong to, calls that time out as they are answered,
pages that stop answering, tabs that come and go between two calls, limits met in any
order, files whose directory moves while they are written, and shutdown against
goroutines that are still under way.  Each one is listed with its line under `hazards` in
`PROJECT.json`.

## 2. The modules

A critical section without a blocking operation is one action.  Whatever the code does
outside a lock, or between two calls to Chrome, is an action of its own, so that the
other actors interleave there.  Chrome is external and does anything the protocol
allows.  An operator introduced by `Variant:` is never used by the specification: it is
the form a plausible mistake would give the definition that follows it, and is there
to show that a property notices the mistake.

**`CallSpec`** is what a caller of the DevTools client is promised: a call is made, ends
once, with its own reply, an error of its own, or because the client closed.  It promises
no more than the code: a call reported as closed or out of time may have been performed,
or be performed yet.

**`CdpClient`** is `cdp/client.go`: calls in any number between drawing an id,
registering, writing, and waiting; the read loop between taking an entry out, sending on
its channel, draining and ending; `Close`.  The read loop ends when the socket is down, and
just as well over a message it cannot read (too large, masked, with reserved bits, an
opcode or a fragment out of place), which leaves the socket up: what was registered may
still be written, and Chrome perform it.  `pending` is a set of pairs of an id and its
owner, `pc` the line each call is at, `outcome` what it returns.  It implements
`CallSpec` under the mapping stated at the end of the module.

**`WebSocket`** is `ws/ws.go`: writers, the reader's pongs and close echoes, and `Close`,
all writing a frame as two writes (header, payload) under `writeMu` into a socket that
may be full, broken or closed; and the assembly of messages out of any frames Chrome
sends, with their limits.  `sent` is the history of frames, `delivered` the messages as
the numbers of their frames.

**`DialogGuard`** is the race of a tool's calls with JavaScript dialogs.  A tool is a
script of calls of three kinds (guarded, through `rendererCall`, plain), which is
all that its reaction to dialogs depends on.  `waiters` are the one-shot waiters,
`dialogs` the records, `wire` the connection, which keeps order.  Chrome performs calls
one by one per page and stops while a dialog shows.

**`Screencast`** is recording: the tool goroutine, the frame handler, a timer callback per
recording, a goroutine per acknowledgement, and Chrome's casting window.  The root
directory is opened first; a start that is refused after that, because no page can be
selected or the one that is records already, closes it again.  Every frame weighs one unit.

**`Pages`** is the page registry with the tools that use it, one action per CDP call of
the running tool; `run` holds where the tool is.  It covers `refreshPagesLocked`,
`attachPageLocked` with each step of setting a session up, `selectedPageFor`, uids, the
polling of `wait_for` with its deadline, and calls that fail half-way.

**`Navigate`** is `navigateSession`: waiter, `Page.navigate`, the load event, the timer,
and the `readyState` question after it, on a page that may navigate by itself.  A call of
`Page.navigate` that runs into its deadline is reported as a timeout at once, also when
its reply or the load event is there already (`CallTimesOut`).

**`LocalFiles`** is built round `Navigate`: what a tool does before it navigates (`step`:
judge the argument, list, attach and guard, grant) or reads a record by its id, the load
Chrome makes of it (`main`: paused, let through, stopped, redirected, or begun before the
page was guarded), and the goroutine that judges it.  `granted` are the work directories of the session, `shown`
the document on the page, `early` the one way round the guard Chrome leaves: a load that
was under way in a tab a script had opened.  The host lists are part of it, on hosts as
sequences of labels.  What a path means is the judgement of `pathguard`, a module outside
the repository: which files are inside which directory is the constant `Inside`, and
those in a place that is always refused are `Refused`.  The code hands `pathguard` its
places anew at each judgement, and links are followed anew, so that more may be refused at
one moment than at another: a navigation is judged before the browser it needs is
launched, and with it the profile directory becomes a refused place.  `Changing` are the
files this may happen to, `refused` those refused at the moment, and `PlacesChange` moves
them at any time.

**`OutputFile`** is one file on its way to disk: the judgements of `outputUnder` and
`writeUnder` and each system call after them, with other programs moving the work
directory and replacing the output directory by links between any two.  A place is a
directory the file could land in; `partial` and `final` are what lies there under the
temporary and the final name.  A recording opens its root when it starts and writes when
it stops.

**`ConsoleLog`** and **`NetworkLog`** are the collectors and the tools that report from
them; the network module files records under request ids with redirects and eviction,
and reads a record field by field as `get_network_request` does.

**`Lifecycle`** is `ensure`, `productionConnect`, `Launch`, `awaitEndpoint`, `Shutdown` and
`Browser.Close`, with failures at every step, in three modes: a temporary profile, a
persistent one, and an attached Chrome, which may exit by itself like the others.

**`Server`** is the process around `Lifecycle`: it reads a line, handles it, answers, and
reads the next; a tool connects on first use by `Lifecycle`'s steps, and the end of
standard input is what makes `Lifecycle` shut down.  `due` and `out` are the answers owed
and written.  Chrome and the client may fall silent (`silent`): be there and neither say
nor read anything.  A process may be killed at any moment, and is by its own write when nobody
reads standard output.

**`Emulation`** compares what `emulate` and `resize_page` report with the overrides in
force in Chrome, failing at any dimension, on pages that were attached with or without a
configured viewport.

**`Settings`** is the way there: `config.toml` line by line with its quoting, the schema,
the defaults, the flags over them, and the judgement of the result; then the pages, by
`Emulation`'s actions.  A file is written by an author who knows TOML (`Render`) and read
by the code's own loops, each a set of positions here: outside of strings, after a
backslash, at a comma.

The `MC*` modules give the constants their small values; the `*_proofs` modules
hold the theorems.  The modules that compose are

    LocalFiles  = Navigate + judgement, grants, interception, host lists
    Server      = Lifecycle + lines, answers, the end of the process
    Settings    = Emulation + file, flags, defaults
    CdpClient  => CallSpec   (a refinement)

`EXTENDS` gives the outer module the inner one's actions; it says when they may happen
and what else they change, so that the inner `Next` is not used there.

## 3. What the runs check

Bounds are constants named in each module; every one is a guard on an action of Chrome
or of other programs, or on the number of operations begun, never on the program's reaction to something.

| Run | Properties | Bounds, and why they are enough |
|---|---|---|
| `cdp_calls` | `OwnReply`, `NoOrphan`, `NoLeak`, `CloseUnblocks`, `ImplementsCallSpec` | three calls: one with a deadline, one without, one that cannot be encoded; two kinds of reply; one message on its way at a time, any of which the read loop may be unable to read. A mix-up needs two calls, a leak one, and the third meets the drain |
| `ws_frames` | `MessagesAreWhole`, `FramesAreWhole`, `CloseReturns` | a writer beside the reader (pongs, close echoes) and `Close`: three processes that write. Every sequence of three frames of one or two units, with a limit of two units to a message: a message of two fragments that meets the limit exactly, alone or with a control frame between them, and fragments that fit one by one and not together. A socket that has room for one write is full between header and payload |
| `dialogs` | `NoPhantomDialog`, `GuardHearsItsDialog`, `CallsAreSeparate` | two symmetric pages, three calls, two dialogs: one before, during and after a call, on this page or the other; three calls let a late reply of one tool meet the next |
| `screencast` | `LimitsAreKept`, `RecordingsAreSeparate`, `NoRootLeak` | two recordings on one page, so that the second meets what the first left; two frames meet a count limit of one or a memory limit of one; a start is refused while the other recording is under way |
| `screencast_end` | `DeadlineEndsCollection`, `FramesAcknowledged` | one recording, two frames, a casting window of one |
| `pages` | `UsesReadyPage`, `OneSessionPerTab`, `UidsAreFresh`, `ReadyToolReturns` | two tabs, two snapshots, one stalled renderer, a configured viewport, eight tools: those that change the registry, and one of each way to use a page |
| `console` | `PollsAreExact` | a buffer of two, five messages of two pages and two types: the buffer turns over twice between polls |
| `network` | `TableWithinBuffer`, `RecordsAreTrue` | three symmetric requests of up to two hops in a buffer of two |
| `server` | `RemovedAfterExit`, `NothingLeft`, `EachAnsweredOnce`, `RequestsAnswered`, `StopEnds` | three lines of every kind, three launches (one that fails, its retry, one more) in three modes, two goroutines that outlive them: a tool that cannot connect, one whose connection is lost, and the one after it; Chrome or the client falls silent at any point of them |
| `settings` | `StartsAsConfigured`, `AppliedIsEffective` | two lines, so that one repeats or contradicts the other; no flag, any one, or two that contradict each other (attach with a profile, a profile with a user data directory); strings of up to three characters, lists of up to two, in which quotes, backslashes, commas and comment signs stand wherever they could be taken for syntax; then any sequence of emulations, since that state is finite without a bound |
| `localfiles` | `LoadIsNotMissed`, `BlockedOnlyByPlace`, `WorksOnOpened`, `TimeoutsAreReal`, `ShowsOnlyOpened`, `LoadsAreJudged` | three documents: the one left, ours, and one the page loads by itself; one work directory with a file that may be opened once it is granted, and whose place comes to be refused and stops being so at any moment, and one always refused; no lists, or an allow list, a block list and blocked files together |
| `output` | `StaysInRoot`, `TargetIsWhole`, `NothingLeftBehind`, `LandsWhereReported` | two changes by other programs, at any two points of one write: a directory moved away and a link put in its place; any step may fail, and a crash may come anywhere |

What a property says of the code stands in the comment before it.  Every property of a
passing run has a mutation of the code, listed in `PROJECT.json`, under which TLC
finds it violated at the same bounds.

Some properties are conjunctions whose parts are one question each: `NothingLeft` of
`OneChrome`, `FailuresCleanUp` and `ExitLeavesNothing`; `StartsAsConfigured` of
`ServedAsWritten`, `NothingIgnored` and `OneProfile`; likewise `PollsAreExact`,
`RecordsAreTrue`, `RecordingsAreSeparate` and `CallsAreSeparate`.

Some configurations lie beside the runs, because their question is a smaller one.
`MCDialogGuard_live.cfg` (`ToolEnds`: a tool ends although pages stop answering) passes.
The remaining ones end in a counterexample on purpose and belong to section 4.
`SelectionStays` and `OrderIsStable` of `Pages` (a selection stays, and tabs that stay keep
their order) have no configuration: they are proved.  `TypeOK` of a module (`STypeOK`,
`CTypeOK`, `LTypeOK` where the module extends another) says what its variables hold; it
is in no run either, and proved for the modules of section 5.

**Deadlock** is checked except where the modelled system may really stop: `CdpClient`,
`DialogGuard`, `Screencast`, `NetworkLog`, `Server`, `Settings` and `OutputFile` end when all
calls are made, Chrome or the process has ended, a configuration is refused, the file is
written, or the bounds are used up (`CHECK_DEADLOCK FALSE`).  `WebSocket` has a named
action, `Finished`, for having nothing left to do; the others never stop.

**Symmetry** is used in `dialogs` and the `network` configurations that check
invariants: pages and requests are interchangeable there.  It is used where no
liveness is checked.

**Fairness.**  `FairSpec` of each module names what is assumed:

* goroutines that can go on do so (weak fairness of the steps of the program);
* a write to Chrome need not end, since `WriteMessage` has no deadline and does not watch
  the context (`client.go:132`): in `CdpClient` a caller that writes owes nothing while the
  socket is up;
* timers and deadlines fire (weak fairness), which `context.WithTimeout` and
  `time.AfterFunc` give, where there is one;
* `sync.Mutex` starves nobody (strong fairness of `Acquire` in `WebSocket`): a Go mutex
  hands over to a waiter that has waited for a millisecond;
* Chrome owes nothing, except where a module names it: in `WebSocket`'s `FairSpec` it
  goes on reading what it is sent, which `GoFairSpec` drops; in `Screencast` a page that
  exists serves its requests; in `Pages` a page that is not stalled
  answers; in `Server` a Chrome that has not fallen silent answers a tool.
* `Server` says where no timer covers a wait.  A silent Chrome that stays keeps the main
  goroutine (`ChromeKeeps`) in the handshake and in the discovery of an attached Chrome, which
  run under `context.Background()` (`root.go:219`, `ws.go:78-106`, `browser.go:311-315`), in the
  calls made under `m.mu` (`manager.go:281`), and in the writes that ask it to close and hang
  up (`client.go:132`, `ws.go:289-290`).  A client that stays and does not read keeps it at
  standard output (`ClientKeeps`).  Weak fairness of the main goroutine is assumed only
  where neither is so, and `RequestsAnswered` and `StopEnds` end in `\/ Kept`: they say that
  nothing else keeps it, and that it goes on when the one that kept it is gone.
* `LocalFiles` assumes only that the tool and the goroutines that judge loads go on.  Chrome
  may put off its answers while a load is paused, for ever if it is never judged: the
  comment at `localfiles.go:31-32` says that it does.

## 4. Where the code differs from what it says

Each row is a configuration in which TLC finds a counterexample of one property; it is
noted in `PROJECT.json` under the hazard it belongs to.  No claim is made about how often the code meets them.

| Configuration | Property | What happens | What the repository says |
|---|---|---|---|
| `Pages_unbounded.cfg` | `ToolReturns` | setting up a page that does not answer has no deadline (`manager.go:348`): the tool, `m.mu` and the server wait for ever | `manager.go:49`, "defaultCallTimeout bounds a single CDP call issued by a tool." |
| `MCDialogGuard_lostwake.cfg` | `NoSilentWait` | a dialog that opens between `callGuarded`'s look and the registration of its waiter (`dialogguard.go:32-36`) is not heard; the call runs into its deadline | `dialogguard.go:15-17`, "races the reply against the dialog-opened event and returns as soon as either arrives" |
| `MCDialogGuard_drag.cfg` | `CallHearsItsDialog` | drag's mouse events go out with a plain `Call` (`input.go:238`), which no dialog interrupts | `dialogguard.go:15-17`, "every call that can open a dialog" |
| `MCDialogGuard_forgotten.cfg` | `DialogsTracked` | `handle_dialog` deletes the record of the dialog that followed the one it answered (`input.go:509`) | `collectors.go:27`, "dialogs tracks the open JavaScript dialog per session." |
| `Screencast_stranded.cfg` | `ActiveCanBeStopped` | a recording on a page that was closed stays active, and `screencast_stop` cannot reach it (`pages.go:178`) | `collectors.go:77`, "screencast_stop can end it" |
| `Screencast_thrown.cfg` | `NoFramesToThrowAway` | after the count or memory limit (`screencast.go:63`) Chrome goes on casting frames that are dropped | `screencast.go:163-164`, "so it is not producing frames we would only throw away" |
| `Screencast_disturbed.cfg` | `CollectingIsCast` | a timer's late `Page.stopScreencast` (`screencast.go:167`) ends the cast of the next recording | `collectors.go:79`, "collecting means frames are still being accepted." |
| `Pages_index.cfg` | `ClosesListedPage` | `close_page` refreshes before it applies its index (`pages.go:167`), and may close another page than the one listed | `register.go:61`, "Index of the page from list_pages." |
| `Pages_uid.cfg` | `ClicksOnUidPage` | a uid of one page is located there and clicked on the page selected now (`input.go:103`) | `input.go:91`, "resolves a uid on the selected page" |
| `MCNetworkLog_redirect.cfg` | `NewestRecordFollowed` | evicting an old hop of a redirect unfiles the newer record (`collectors.go:210`) | `collectors.go:35`, "CDP requestId → record" |
| `MCNetworkLog_torn.cfg` | `ReportIsARecordState` | `get_network_request` reads fields without the lock they are written under (`network.go:102`) | `collectors.go:15`, "All state lives behind collectMu" |
| `MCNetworkLog_late.cfg` | `FailuresAreTold` | a request that fails after the cursor passed it is never reported by `failedOnly` polls (`network.go:52`) | `CHANGELOG.md:389-391`, "only for what happened since the previous call" |
| `Server_panic.cfg` | `ChromeGoesWithUs` | goroutines of the read loop use the client `Shutdown` has set to nil (`manager.go:203`) | `manager.go:198-199`, "a launched Chrome is asked to close gracefully, then killed" |
| `MCSettings_touch.cfg` | `OmittedIsReset` | `emulate` without arguments leaves touch emulation on (`emulation.go:151`) | `README.md:66-67`, "`emulate` with no arguments clears everything" |
| `MCLocalFiles_stale.cfg` | `LoadedIsOurs` | the load event of the document being replaced is taken for that of the new one (`pages.go:249`) | `pages.go:225`, "navigates and waits for the load event" |
| `MCWebSocket_stuck.cfg` | `CloseReturns`, without Chrome reading | `Close` waits for the write lock behind a writer whose peer has stopped reading (`ws.go:290`) | `ws.go:288`, "(best effort) and closes the connection" |

Three more differences need no trace.  A launch that cannot make its pipe returns without
removing its temporary profile (`browser.go:100`); `Lifecycle` does the same, and
`NothingLeft` leaves those launches out.  A write to a standard output nobody reads ends
the process by SIGPIPE, where the comment at `server.go:85-89` expects an error to log;
`Server` ends it so, and its properties are about processes that end by themselves.  And a
`Page.navigate` whose call runs into its deadline (`client.go:138-140`) is reported as a
timeout by `mapErr` (`manager.go:523-524`) without anybody asking for the `readyState`, also
when the page has loaded by then, where `pages.go:230-231` says: "On timeout the document's
own readyState decides, and only a document that never got there is an error."
`CallTimesOut` does the same, and `TimeoutsAreReal` is about the other timeouts.

## 5. What is proved

Every theorem holds for every value of the constants its module's assumptions allow:
any number of calls, pages, tabs, frames, launches, files and changes.  A proof is laid
out in the same way throughout: an inductive invariant, in named parts, that holds
initially and that every step keeps (one lemma per action, or one case where the action
is small), the theorem that it always holds, and the theorems `PROJECT.json` lists, which
follow from it.  None of the properties is inductive as it stands; what had to be added,
and why, is said here.  The parts were model-checked as invariants before they were proved.

**`CdpClient_proofs`**, from `CallsAssumption` and `ResultsAssumption`.  That a reply
reaches its caller depends on ids being drawn once, on the table naming the caller that
drew the id, and on what is on the wire having been answered under that id.  The
invariant is the conjunction of

* `TypeOK`;
* `Started`, `IdsUnique`, `PendingOwned`: an id belongs to one call, and an entry of the
  table to the call that drew its id;
* `WireReplied`: what is on the wire or in the read loop's hand is what Chrome
  answered to that id;
* `LoopPhase`: what the phase of the read loop says of `closed`, `done` and what it holds;
* `OwnReply`, `NoOrphan`, `SendNeverBlocks` and `ClosedIsDrained` themselves (the last,
  that the table is empty once the connection is down, is only proved).

`ImplementsCalls` is the refinement: the initial states and the steps of the client map to
those of `CallSpec`, for any calls.  It needs one fact more, `Faithful`: what Chrome has received was written by the caller that
drew the id (`Sent`), an id is answered once (`AnsweredOnce`), and a call that gives up has a
reason to (`Reasons`): its deadline if it has one, or that it could not be written because it
has no encoding or the socket is down.  Calls that end as closed while the socket is up
need nothing of the kind, for `CallSpec` lets them be performed.  The
weak fairness in `CallSpec`'s specification is not part of the theorem; the run checks it
with `ImplementsCallSpec`.

**`WebSocket_proofs`**, from `WebSocketAssumption`.  `FramesAreWhole` says that a payload
is written by the process that wrote the header before it.  The invariant adds to
`TypeOK` (which ties being at a frame to holding `writeMu`) `StreamFollowsLock`, that the
last half on an open socket was a header only if its writer is at its payload, and
`HalfIsUnderWay`, its converse.  The theorem `WholeFrames` is about steps, and follows
from the invariant holding before them.

`MessagesAreWhole` needs the same of the message begun: `Chain`, that its frames are one
text frame and continuations that fit together, and `Covers`, that no data frame since it
began is left out, which is given up only when a refused frame has ended the reader.  Its
size is a fold over a sequence, so that it needs induction over data.  The induction
theorems of the library take an operator, which the provers cannot instantiate; but
`AllNaturals`, induction over a set of numbers, follows from the library's `WFMin` and
`NatLessThanWellFounded`, and with it what the fold computes: `SumsExist` builds the
function it chooses, `TotalOfAppend` says what one more frame adds, and `TotalsAgree` that
the size depends on nothing else.

**`DialogGuard_proofs`**, from `DialogGuardAssumption` (every tool has a script).

* `GuardHearsItsDialog` rests on `Waiting` and `Heard`.  The one waiter there ever is
  belongs to the guard under way; it is registered, or in the read loop's hand, or the
  guard has heard (`Waiting`).  If a dialog of its call is recorded while the waiter is
  still registered, the read loop stands between recording it and taking the waiters
  (`Heard`): that is the order of `collectors.go` before `dispatchEvent`.
* `NoPhantomDialog` rests on `Truth`: the last thing said of a page, on the wire, or in the
  record when nothing is on the wire, is so; a record may also have been dropped.
* `CallsAreSeparate` rests on `Own` (every dialog named is one of the page it is named for)
  and `Done` (a successful reply is one to a call that was performed).
* `Numbers` and `Budget` keep calls apart: what carries the number of a call carries that
  of one that was made, and a tool has room for the calls it has yet to make.

**`Screencast_proofs`**, from `ScreencastAssumption`.

* `LimitsAreKept` is inductive together with the types and `Filed`: what is filed for a page
  is active and about that page.
* `NoRootLeak` follows from `Roots`, that a directory is open exactly for the recordings
  that are filed, the one about to be filed or refused, and the one being stopped; and that
  a recording whose directory was never opened has not begun.
* `RecordingsAreSeparate` has two parts.  `OwnDeadline`, that a deadline ends only its own
  recording, is inductive with `Filed`.  `OwnFrames`, that a recording holds frames of its own
  cast unless a call on its page was given up, needs the order of messages.  A page none
  of whose calls was given up has at most one call or reply under way, the one the tool
  waits for (`OneCall`); its frames come before the reply that ends its recording, and
  none comes while it records nothing (`Silence`); so that it casts, and has cast, for the
  recording it is filed with (`Current`).

**`Pages_proofs`**, from `PagesAssumption`.  `OneSessionPerTab` is kept by `Remembered`: while a
tab lives, its session is the one listed, which is what keeps it from being attached
again.  `UsesReadyPage` needs `Enabled` (what counts as set up has every step installed) and
`Brought`, how far the running tool has brought its page: the steps it has done are
installed, and past them its page counts as set up.  `UidsAreFresh` follows from
`LastSnapshot`.  `SelectionStays` and `OrderIsStable` are about steps; the second needs that a
list names a tab once.

**`LocalFiles_proofs`**, from `NavigateAssumption`, `LocalFilesAssumption` and
`OutputFileAssumption`, is about `LocalFiles`, the `Navigate` inside it, and `OutputFile`.  `LoadIsNotMissed` is inductive with `TypeOK` once messages
are typed by the documents there have been: a document that has yet to come cannot have
been heard of (`Done`).  `BlockedOnlyByPlace` needs `Accepted`, that a navigation has been judged,
and granted before it is asked for, and `Allowed`, that what it was granted stays granted.
Both speak of `Covered`, what the lists and the grants open whatever is refused at the
moment, since a judgement passed at one moment says of the next one only this; and
`Inward`, that a local file among it is in a granted directory and in no place that is
always refused.  So the interception can fail it for its place alone.
`WorksOnOpened` needs `Judged`: what a tool is to work on was judged when the pages were
listed, and what its tab came to show since went through the interception or is noted in
`early`.  The attempt to prove it showed that the property was stated too weakly: what is
refused to everybody was not taken out of the set of files a session has opened.  It is now.

Of `OutputFile`: that a file lies in the directory the
root was opened on (`StaysInRoot`) needs `MadeInside`: everything made since was made by
way of that root, wherever it has been moved.  `TargetIsWhole` and `NothingLeftBehind` need
`OneTmp`: at most one temporary file, whole when it is renamed.  `LandsWhereReported` needs
`SettledFacts` and `RealIsJudged`: what the comparison of path and root found stays true until
something moves, and `settled` says whether it has.

**`Process_proofs`**, from the assumptions of `Settings`, `Emulation`, `Lifecycle` and
`Server`, is about `Settings`, the `Emulation` inside it, and `Server` with the `Lifecycle` inside that.

* `AppliedIsEffective` needs `Reported`: what a call of `emulate` has reported so far is in
  force, also after one of its steps failed.  `SettingsEmulate` is a refinement: every step
  of `Settings` is one of `Emulation` or leaves it alone, so that what holds of emulation
  holds under every configuration (`AppliedIsInForce`).
* `OneProfile` needs only `Accepted`: what has come through the judgement of the merged
  configuration does not contradict itself.
* `StartsAsConfigured` needs to know where each value comes from.  `BeingRead`
  says that what was read of the file, as a set, is what its author wrote, as a sequence, and
  that no key is twice in a section; `IsApplied` that past `apply` every line is a setting of its
  own (`AllKnown`) and the configuration has its value, a flag's, or the default.
* That a line is read for what its author meant (`FilesReadBack`) is proved of every string and
  array of strings, of any characters and any length, with a comment after it or without;
  line ends and tabs, which have escapes of their own, are not told apart from others.
  `FlattenLaid` and `QuoteIsQuoted` say where each character stands in what is written;
  `QuotedReading`, where the parser is inside of quotes and where after a backslash, so that
  the first quote that closes a string is its last (`QuotedCloses`) and what is kept of it is
  what was quoted (`QuoteParses`).  A piece of a text that starts outside of quotes reads as it
  does alone (`Shifted`): so a comment comes off and nothing else (`CommentComesOff`), and the
  commas of an array that are outside of quotes are those between its elements
  (`ListedCommas`, `ItemsSplit`).  The inductions run up to the length of a text, by the least
  place where they would fail (`AllUpTo`, from `WFMin`).
* `RemovedAfterExit` and `NothingLeft` need `OneByOne` and `Latest`: of every launch but the
  latest nothing is left, and what is left of the latest depends on where the main goroutine
  is; `Phases` says where it can be.  `EachAnsweredOnce` needs `AtMostOneDue`: while a line is
  handled, what is owed beyond what was written is at most its answer.

**`Collectors_proofs`**, from `NetworkAssumption` and `ConsoleAssumption`, is about `NetworkLog`
and `ConsoleLog`.

* Both buffers are windows: `Window` and `NewestMessages` say that what is buffered are the
  newest ids, without a gap, so that what was evicted is older than all of it.
* `TableWithinBuffer` and `RecordsAreTrue` need to know that there is a record for each
  announcement and no other.  `Counted` says so by cardinality, which also bounds the records;
  `OneRecord` that a request announced once has one record, and that the table leads to it as
  long as it is buffered; `Filed` that records up to the newest are somebody's.
* `PollsAreExact` needs `HandedIfPassed`: of each buffered message, what the client was handed
  is what is due once its cursor of the page has passed it.  `AtMostOnce` covers the others:
  what has been evicted is never buffered again, so that a cursor that fell back to 0, which it does only
  when no message of its page is left, finds nothing it has seen.  That `LastID` is the newest
  of a page needs that a set of numbers below a bound has a greatest (`GreatestOf`, by `WFMin`).

**Assumptions** are about constants only, and what the code has them be: bounds are natural
numbers (at least one where something exists from the start), names of one kind are not
those of another, texts are sequences of characters, there are finitely many request ids, `Bounded` calls are calls, a tool has a
script, hosts are sequences of labels and patterns are not empty.  A module about two
components extends both, which share no name: the specification of the console is
`ConsoleSpec`, of the file that is written `FileSpec`, of the server `SSpec` and of its Chrome
`LSpec`.

**Only model-checked** is all liveness, the weak fairness of `CallSpec` included: there is no
rule for fairness and `ENABLED` among the provers.

## 6. What is not modelled

* The byte layout of WebSocket headers and the handshake of `Dial`; JSON encoding; the
  content of results and the wording of errors; tool descriptors and schemas
  (`register.go`), which are data.  No property here tells these apart.
* Snapshot text, the search for unnamed elements, form filling scripts, key codes, image
  fitting: computations inside the page or over its tree.
* GIF encoding: a pure computation over pixels.
* Profiles (`profile.go`), `findExecutable` and Chrome's command line: paths and strings.
  That at most one kind of profile is asked for is `OneProfile`.
* The judgement of paths, an imported module (`pathguard`) outside the repository: which
  files are inside which directory is a constant of `LocalFiles`, and which places are refused
  changes at any moment within the bounds of two constants; in `OutputFile` the outcome is
  an operator (`Protected`).
* `inputUnder`, which hands a file to Chrome to upload: what Chrome then reads, and when,
  is not in this code.
* `data:` and other URLs without a host or a path, and records whose tab is gone.
* Response bodies and the paging of lists.

## 7. Plan

What remains, in this order:

1. Proofs.  All invariants and action properties the runs check are theorems.  What is left is
   `splitList` against a reference definition: what a flag's list means is `FlagValue` itself.
2. Compositions: `DialogGuard` over `CdpClient`'s abstract specification, so that a guarded
   call is shown to be a `CallSpec` call; `CdpClient` over `WebSocket`, whose `Close` is the
   one `CdpClient` waits on.
3. GIF delays as an operator against a reference definition;
   `inputUnder` beside `OutputFile`.
