# TLA+ model of binder-trace

binder-trace watches Android's Binder driver. A kernel module hooks three
functions of the driver and emits an event per transaction into a ring; programs
in user space (a JSONL agent, a TUI, a WebUI and an MCP server) open a trace
socket, switch capture on, read the events, keep them in a history file and show
them. This directory holds TLA+ modules of the parts of it that are hard to test,
TLC configurations that check them on small instances, and TLAPS proofs of what
matters most for every instance.

Run, in this directory:

    tlc -config MCEventRing.cfg MCEventRing        # any run: its cfg, its module
    tlapm EventRingProofs.tla                      # any proof module

`PROJECT.json` lists the components, the runs, the mutants (a faulty variant of
one definition per property, each of which the run must refute), the source lines
every definition stands for, the hazards and the theorems.

## Inventory

| component | source | state | operations | what is hard | what makes it correct |
|---|---|---|---|---|---|
| event ring and trace sockets | `kernel/src/ipc/bt_event.c`, `bt_sock.c` | ring, next sequence number, wait queue, one cursor per socket | emit, open, release, recvmsg, poll | emitters and readers on many CPUs; overrun; wake-ups outside the lock | what is read was emitted; losses are counted; nobody sleeps through an event |
| hook lifecycle | `core/bt_hooks.c`, `bt_main.c`, `hook/inline_hook.c` | patched entries, trampolines, backup pointers, `bt_active_hook_calls`, `bt_hooks_draining` | install, roll back, call through, disable, drain, free, unload | threads inside the hooks for as long as Binder calls sleep; every write may fail | nobody is cut off from the way out; nothing is traced once the drain is over |
| capture filter and statistics | `core/bt_capture.c`, `ipc/bt_control.c`, the requests of `main.rs` and `server.rs` | configuration under a spinlock, five atomic counters | set, get, stats, clear, should_trace | a change between hit and verdict; counters are not reset together | a verdict is one a request in force asked for |
| capture sessions | `bt-agent/agent.rs`, `bt-cli/main.rs`, `tui/mod.rs`, `bt-webui/rust/events.rs`, `bt-mcp/server.rs` | the kernel's configuration, shared; the guards, pause flags and source states of the programs | start, quit, fail, die, pause, refuse, clear, MCP tools | four programs share one configuration and none knows of the others | the configuration follows its last writer; a full history stops capture and shows |
| capture history file | `bt-agent/capture_history.rs` | a memory-mapped file with header and entries, the mode of its directory | create, receive, append, clear, grow, drop | growth at its limit; two sessions on one path | an append log with a limit; the mode is restored |
| WebUI event table | `bt-webui/src/hooks/useTraceStream.ts`, `rust/events.rs` | the browser's window, cursors, generation; the history behind it | poll, load older/newer, filter, clear; push, page | answers that arrive late or out of order | the window is a part of the history without gaps the cursors do not cover |
| call and reply correlation | `bt_hooks.c`, `events.rs`, `server.rs`, `tui/mod.rs` | debug ids in events; the summaries of the front-ends | emit after the original; summarise | a reply may be emitted before its call | a reply is put to its own call |
| MCP and WebUI queries | `bt-mcp/server.rs`, `bt-webui/rust/events.rs` | summaries, latencies, an index, counters beside the history | push, page, look up, count, clear | derived state that outlives a clear; ends and ordinals at the limits | pages join up, lookups and counts are of the history |
| TUI state and loop | `bt-cli/tui/mod.rs`, `input.rs` | the event list, selection, filters, scroll positions, bytes of the keyboard | key presses, the drain loop | an edge-triggered descriptor with bounded drains; keys in pieces | nothing waits that could be shown; panes show what is there |
| TUI rendering | `bt-cli/tui/render.rs`, `text.rs` | none | layout, columns, the part of a list that is shown | widths and heights near zero | panels tile the screen, the selection is on it |
| agent run and JSONL storage | `bt-agent/agent.rs`, `bt-storage/jsonl.rs` | sequence number, write buffer | collect a batch, write, flush | failures and kills between two writes | every line is whole, in order, and none is held back |
| published files | `bt-cli/startup_marker.rs`, `bt-decoder/android_platform_methods.rs` | two files other programs read | write beside, rename or link | programs that run at once, killed and restarted | nobody finds half a file |
| socket family registration | `ipc/bt_protocol.c`, `bt-agent/socket_ipc.rs` | the registered family | register, unregister; the client's scan | the family is found by trial | the client talks to the module only |
| inline hook engine | `hook/inline_hook.c`, `hijack_arm64.c` | kernel text, guarded pages | relocate, write, restore | writes of several instructions; two hooks on a page | guard bits and text are restored as found |
| decoder | `bt-decoder` | the loaded table | decode, parse the token, look up a method | lengths at their limits | the payload is whole unless marked, the method is the table's |
| not modelled | `bt-common`, `utils/*.c`, `bt_symbols.c`, `i18n.rs`, `theme.rs`, `bt-webui/rust/lib.rs`, React components, xtask, scripts | - | types, routing, wording, packaging | - | - |

How they interact: the hook threads of the lifecycle decide with the capture
configuration and emit into the ring; sockets read the ring and set the
configuration by ioctl; each program owns sockets and a history; the browser
polls the WebUI's server.

## Modules

`EventLog` is the abstract specification of the event stream: an append-only log,
a position per socket, and reads that hand out the event at the position or, if it
left the window of the last `Window` events, the oldest one in the window with the
number passed over.

`EventRing` is the stream as the code has it. `ring`, `next` are
`bt_event_ring` and `bt_event_next_sequence`; `cursor[s]` is
`next_event_sequence` of a socket. One action per critical section or unlocked
step: `EmitStore` (the lock), `EmitWake` (the wake-up after it), `Take` and
`TakeNothing` (the lock in `bt_event_recv`), `TryBeforeWait`, `Enqueue`,
`CheckReady`/`CheckSleep`, `Woken`, `Interrupt` (the steps of
`wait_event_interruptible` and of poll), `CopyOut`. `log`, `start` and `taken` are
history variables.

`HookLifecycle` has a thread that loads and unloads the module (`phase`, `step`)
and threads that call the hooked functions (`pc`). `active` is
`bt_active_hook_calls`, `gp` the threads the Tasks RCU grace period waits for. A
write to kernel text takes effect as a whole or fails as a whole. A nested hooked
call (binder_ioctl calls binder_transaction) is a thread of its own.

`CaptureSessions` composes the programs that share the configuration. `config` is
`Off` or the program whose filters the kernel has; an ioctl is one action and so is
a critical section of a Rust mutex. Sockets are reduced to a backlog (their
contents are `EventRing`'s subject).

`TraceStream` is the WebUI: `history` and `next` are the server's `EventState`,
`window`, `range`, `more`, `running`, `follow` the state and refs of
`useTraceStream`. `flight[m]` is the request of a mode that is under way: sent,
answered under the server's lock (`Answer`), delivered (`Deliver`), with everything
else possible in between; aborting one is dropping it, a changed generation makes it
stale. The three steps of clearing (`Clear`, `ServerClears`, `Cleared`) interleave
with them. A browser handler is one action with the re-render and effects it causes.
The ghost `crossed` marks windows put together from answers meant for another window
or taken from a history that has been cleared.

`HistoryLog` is the abstract specification of a history: a log with a limit,
appended to one by one and emptied as a whole. `CaptureHistory` is the file it is
kept in: `file` is its length, header and slots, `pc[s]` where a session is between
`create` and `drop`. One action per system call or write to the mapping that a kill,
a failure or another session can come after: `Stat`, `Raise`, `Open` (truncates),
`SetLen`, `MakeHeader`, `Lock`; `GrowFile`, `GrowMap`, `GrowFails`; `Accept`, `Skip`,
`Commit`, `Publish`; `Clear`, `End`, `Kill`. `mode` is who may write to the
directory. The ghost `mixed` says that the file was opened while another session had
it, `orphaned` that a killed session left the directory locked.

`Tui` is the loop of the terminal front-end. `pending` and `ready` are the socket
and the cached readiness of its descriptor, `phase` and `drained` the drain;
`window`, `selected`, `disabled` are the fields of `TuiState`. `Emit` is the kernel,
everything else one thread. The ghosts: `capped` says that the last drain stopped at
its limit, `jumped` that the window has followed an event which is not the next one.

`TuiPanes` extends every step of `Tui` that changes a pane: `focus`, the scroll
positions `hexdump` and `parsed`, and the frequency pane, whose counts lag the history
by a drain. `TuiKeys` is the keyboard: `keys` has the bytes each key sent, `wire` and `tty`
are places in them, for the bytes under way; `escape` is the parser's prefix; a read gives
its first command and drops the bytes behind it.
`TuiScreen` has the arithmetic of the layout as operators; it has no state.

`TraceRows` composes what is known of an event after it was emitted. A hook of the
kernel reads ids and stamps its event, and queues for a sequence number afterwards
(`BeginCall`, `EndCall`, `Reply`, `Emit`), so replies can overtake calls; `EventRows` has what
the MCP server and the WebUI do alike with an event, `McpStore` and `WebuiStore` are
the two stores as values with operators, since each is behind one mutex, and the TUI's
summary stands beside them.

`CaptureFilter` is `bt_capture_should_trace` in its steps: `NoteHit`, `CopyConfig`
(the lock), `Decide`, `Leave`, with clients that set the configuration (`Enable`,
`EnableAll`, `Disable`; what each program may ask for is `FrontEndRequest`,
`McpRequest`, `ToolRequest`) and clear the counters one by one (`ClearNext`). The
ghost `could` holds the verdicts of all configurations in force since a call's hit.

`Decoder` has pure functions: `CopyTransactionPayload` (the hook), `ToRawEvent`,
`DecodeTransaction`, `ParseInterfaceToken`, `ParseEntry`, `Lookup`. An option is a set
with at most one member; an interface is its rank among the names.

`AgentRun` is the agent without a front-end: `object` and `written` are the two writes
of a line, `buffer` and `output` the `BufWriter` and what reached the file.
`PublishedFiles` has, for every program, the step it is at and its temporary files.
`SocketFamily` has what answers on every protocol family and the place of the client's
scan. `GuardPages` has the guard bit of every page (`guarded`) and what every hook
notes of it (`tracked`, `hadGp`).

`SideBySide` instantiates eight parts that share no state (the list and the panes
share the list's variables) and lets a behaviour be one of a single part: their
interleavings commute, and a product would only multiply the states. `part` says which
one a behaviour is of.

The `MC*` modules give the constants their values. `MCTraceRows` also compares the
functions of `Decoder` with their references on small inputs, as assumptions that TLC
evaluates. Definitions introduced by "Faulty variant" are mutants: no specification
uses them.

## Runs

| run | what it checks | bounds |
|---|---|---|
| `ring` | reads return what was emitted, losses are counted, no lost wake-up, a wait with an event pending ends, the ring implements `EventLog` | 2 emitters, 2 reader threads on one socket, 2 slots, 4 events, `lost_before` of one bit |
| `hooks` | patched entries lead home, nobody is cut off, quiet after the drain; a removal whose entries were restored ends | 2 threads, the three hooks, every write may fail |
| `hooks_unload` | (violated) no thread returns into freed module code | the same |
| `sessions` | the configuration follows its last writer, refusals stay visible, a full history stops capture | two casts: an agent, a TUI and a WebUI; 2 MCP servers, one with `--allow-control`; backlog 2, history 1 |
| `sessions_readonly` | (violated) `--no-enable` leaves the configuration alone | a TUI and a WebUI with `--no-enable` |
| `stream` | the table shows events of its filters, in order and without a gap, says which, offers what lies before; a followed tail is caught up with | 4 events, each captured or lost; all or the odd ones, in a window of 2; pages of 1 |
| `history` | what a kill leaves is readable, no access beyond the file, refusals only at the limit, the directory is given back, the file implements `HistoryLog` | 2 sessions on one path, 2 events, growth from 1 over 2 to 3 slots |
| `history_shared` | (violated) the directory is locked while a history is alive | the same, 1 event |
| `rows` | replies name their call, latencies agree between rows and servers, pages join up, lookups and counts are of the history | 3 events, 2 interfaces, 2 hooks at once, ids one ahead of the sequence, pages of one event or without a limit, by one cursor; the two servers or the TUI |
| `sidebyside` | connect tells the truth; lines and published files are whole; keys are accounted for; panes stay inside; guard bits come back; verdicts were asked for and follow the hits; no event of the TUI waits without a wake-up but behind a capped drain, its list has no gaps and the selection in it | 4 families; 4 events in batches of 2; 2 programs; 4 keys, one of which has three sequences, in reads of 3 bytes; 2 kinds of events (3 for the list), 2 rows, drains of 2, 3 events (4 for the list); 3 hooks on 4 pages; 2 threads, 3 calls, 1 client |
| `filter_size` | (violated) a size limit limits the size of the data | 2 threads, options by process, thread, user and size |
| `tui_backscroll` | (violated) a list that is scrolled back stays as it is | 3 kinds of events, 2 rows, drains of 2, 5 events |

Why the bounds are enough to meet the interesting cases: four events overrun a ring
of two twice; with `LostModulus` 2 the loss of two events wraps to zero; two
threads on one socket race for one event. Two threads in the hooks let one be
inside while another comes, at every phase of the removal; a third adds nothing the
counter can tell. A history of one event is full at the second. Three slots reached from one are
a growth that doubles and one that the limit cuts short; two sessions are what it
takes to share a path. In `stream` a window
of two of four events can be at either end or in the middle, and loads of one event
make it slide; a list of two rows and four events do the same in `sidebyside`, and a
drain of two is capped by three. Three calls of two threads are one more than the
verdicts a clearing of the counters may orphan. In `rows` a call, its reply and
another event are the fewest that can be confused; a page of two of three has a next
page. Four pages let the hooks share none, two or all three of them.

The threads are symmetric in `hooks_unload`, sessions and events in `history`; no
run with a liveness property uses symmetry. `Clear` of the stream is not pressed
again while its request is under way; the number of events is bounded by `MaxEvents`
(`EventRing`, `Tui`, `AgentRun`, `TraceRows`), `MaxSeq` (`TraceStream`), the backlog
by `MaxBacklog`, keys by `MaxKeys`, calls by `MaxCalls`, Binder ids by `MaxId`.

`CHECK_DEADLOCK FALSE` stands where the system does stop: in the hook runs (an unloaded
module; an exit that waits for ever after a failed restoration, `blocked`), in
`sidebyside` (a program that has ended, hooks that are gone) and in `rows` and
`filter_size` (all events or calls of the bound are made).

### Fairness

* `ring`: `EmitWake` of every emitter and the steps of a call. A thread inside
  the kernel is scheduled; nobody has to emit, call or send a signal.
* `hooks`: the steps of a thread inside a hook, of the removal and the unload.
  That the original returns in the end is assumed: a Binder call that waits for
  work for ever does keep `rmmod` waiting, as `bt_wait_for_active_hooks` says.
* `sessions`: a collector thread that has taken an event handles it. Polling,
  requests, failures and kills are not obliged to happen.
* `stream`: the interval timer fires (weak fairness of `Poll`). Each tick aborts the
  refresh before it, so the answer and the delivery of a refresh need strong fairness:
  not every refresh takes longer than the interval. Should every one do, the table
  stands still. User actions and loads of older and newer events are not obliged.

## What the runs found

* `hooks_unload`: `bt_hook_leave` gives up the count while its thread still runs
  module text, so the removal can end and the module be freed before the thread has
  returned. `kernel/README.md:80-84` says the wait is there to rule this out.
* `sessions_readonly`: `webui --no-enable` writes the disabled configuration when
  its history is full (`events.rs:701`); `README.en.md:106` says it does not modify
  the configuration.
* `history_shared`: a second session on the default path makes the directory writable
  while the first has it locked (`capture_history.rs:430`), or gives it back when it
  ends first (`:454`). The test `locks_default_events_parent_until_history_is_dropped`
  has it locked until the history is dropped.
* `tui_backscroll`: `push_event` takes the last row of the window for the newest event
  (`tui/mod.rs:187`). With that row selected, a list that was scrolled back and
  reloaded around its selection follows the next event, and leaves out those between.
  The test `backscroll_keeps_window_until_tail_reload` says that it stays.
* `filter_size`: the hook of transactions hands `extra_buffers_size` to the filter
  (`bt_hooks.c:317`), 0 for most of them; the help of `--min-size` and `--max-size`
  (`main.rs:178`, `:185`) and the MCP tool (`server.rs:916`, `:918`) speak of the data
  size.

Some properties hold only under a condition that the runs brought to light, and
that each states as its premise:

* `WindowIsWhatItSays` and `NoDeadEnd` need `~crossed`. Loads of older and newer events
  are neither aborted nor outdated by a refresh or by clearing, so their answer can be
  merged into a window it was not asked for. The next refresh repairs it.
* `NothingIsStranded` excepts `capped`: the readiness is given up before the drain, and
  a drain that stops at 512 events leaves the rest until the next emission.
* `GuardsComeBack` needs `~failed`: after a restoration of an entry that failed, a page
  it leads through may be guarded again by a hook freed later.
* A table of methods of the user's own is searched by halves without a check that it is
  sorted; `LookupFindsTheLine` needs `Sorted`, which the built-in table is.
* `KeysAreAccountedFor` speaks of keys that do not spell a command between them: an
  escape, `[` and `A` typed one after the other are taken for `up` (`input.rs:115`), which
  `KeysAssumption` excludes.
* `CapturedAsAsked` allows one verdict more than hits for each thread: a call under
  way when the counters are cleared counts its verdict only.
* The properties of the file need `~mixed`: a second session on the path truncates the
  file the first has mapped.
* `DirectoryIsGivenBack` speaks of the owner's permission only: what group and others
  had is lost when a session begins while another has the directory locked.

## Proofs

`EventRingProofs` proves, for every capacity, every set of emitters, readers and
sockets and every width of `lost_before`, that the properties of `ring` are
invariants and that the ring implements `EventLog`. The argument is one inductive
invariant, `IndInv`: `TakenWasEmitted` alone is not inductive, since a read takes a
slot and must know what is in it. The missing fact is `RingHoldsTail`: the slots of
the last `Capacity` sequence numbers hold exactly these events, which survives an
emission because distinct numbers of a window of `Capacity` have distinct slots
(`%`). `SocksSound` keeps cursors between 1 and `next`. The proof has a lemma per
group of actions and, per action, a step per conjunct it can disturb. Refinement is
the invariant plus one step per action that maps to a step of the log.

`HookLifecycleProofs` proves the four invariants of `hooks` for any finite set of
threads. `IndInv` adds `HooksSound`, which relates entries, handles and memory
phase by phase, and `InsideSound`, which says who can still be inside a hook whose
entry was restored: after the restoration only threads the grace period waits for
are uncounted, and after the grace period only threads that came through an entry
that could not be restored. That is the step from `active = 0` to "freeing is
safe". Counting (`active = Cardinality(Counted)`) rests on the library's finite set
theorems.

`CaptureHistoryProofs` proves for any number of sessions, any limit and any initial
capacity the invariants of `history` and that the file implements `HistoryLog`.
`IndInv` has three parts. `CountersSound` is about a session's own counters and holds
whatever others do to the file; `DirectorySound` is about the mode to be restored and
holds with sessions coming and going in any order; `FileSound` relates file and
counters step by step, and only while `~mixed`. It also says that then only one
session has the file, which is what gives the refinement mapping (`Log`) its session.
The refinement has a step per action: committing an event is `Record`, opening,
clearing and ending are `Forget`, and everything else, growth and its failure
included, stutters.

`CaptureSessionsProofs` proves for any casts of programs, any backlog and any limit that
the configuration follows its last writer and that a refusal stays visible. `IInv` says of
every program (`Sound`) that what it claims while it runs rests on how it came to run: a
program without `--no-enable` has asked for its filters before it serves, so if it is the
last writer the kernel has its filters or, after a pause, none. Every step is one
program's (`OnlyOf`), and what the others know survives it since it leaves the
configuration alone or makes its program the writer. `ReadOnlyTuisNeverWrite` is what is
true of `--no-enable`, which `sessions_readonly` refutes for the WebUI.

`TraceStreamProofs` proves for any number of events, any views and any page size what the
table of the WebUI promises. The promises speak of the window and break, if at all, by an
answer; so `StreamInv` says of every request under way, by where it is, what its answer will
be or is (`FlightOk`): a refresh brings the end of what matches, a page of older or newer
events lies next to the window unless something came in between. One more fact is needed,
that a window with more around it is full (`WindowOk`): then trimming after a merge cuts
off what the flags say there is more of. What the recursive function `Keep` returns is
proved by `SetInduction`, from the library's theorem that the naturals are well-founded.
The proof corrected the model: the arms of a `CASE` in `MergeWindow` overlapped, while the
code tests for a refresh first.

`TraceRowsProofs` proves for any number of events, hooks and interfaces that replies name
their call, that rows and servers agree on latencies, that the front-ends agree with each
other, that pages join up and that lookups and counts are those of the history. `RowsInv`
has four parts:

* `IdsInv` follows a debug id from the driver's counter through the hooks under way and the
  events that wait for a number to the histories: it is on one call and on one reply at
  most, wherever they are;
* `Ordered`: the rows of a history stand in the order of their numbers;
* `StoreInv`, of each server, and `TuiInv`: the summaries and latencies kept beside a
  history are those its events give, whichever of call and reply came first;
* `McpInv`: the index, the oldest and newest number and the losses of the MCP server's
  store are those of its history.

A page is what a recursive function over the history has selected (`PageOf`). `Holds` says
what it has after n rows, in terms of the ordinals of the rows the filter let through: the
first ones beyond the cursor, or the last ones before it; `PageHolds` proves it by
`SetInduction`. From it follows that a page tells of its own rows, and that the next page
begins where it ended (`AnyPagesJoin`), for any filter, any limit and any cursor, the two
at once included, which the run's bounds leave out. The names of `trace_interfaces` are
counted by rank, and the ranks are a bijection (`RanksAreTaken`).

The module also has the functions of `Decoder`: the lookup in every sorted, unambiguous
table, the payload from hook to decoder for every size, the interface token in the three
known headers.

`TuiProofs` proves for every size of the terminal that the panels tile it, rows fill their
width and the selected line is on the screen; and the inductive invariants of the list
(`ListInv`) and of the panes (`PanesInv`). In `ListInv` the loop's part says that an event
without a wake-up to come is one the drain is about to read or was stopped before
(`LoopSound`), and the window's part that its events are neighbours among the visible ones
(`Gapless`), which a step in the history keeps because nothing visible lies between.

`SideBySideProofs` proves the properties of `sidebyside` for all values of the constants. A
step of `AllSpec` is a step of one part or leaves that part alone, so each part needs an
inductive invariant of its own:

* the scan (`FamilyInv`): as long as the module has not been away, it is at the family tried
  or one still ahead (`StillAhead`), and a socket that was opened on it pins it (`Pinned`);
* published files (`Files!IndInv`): at which step a program's own temporary file is whole;
* the agent (`AgentInv`): what is in the file or still buffered tells the lines of the
  events read, numbered without a gap; only the last line may lack its second write, and
  what reached the file is a beginning of it;
* guard pages (`Guard!IndInv`): what a hook has cleared (`hadGp`) is on no page of a hook
  installed before it (`BitsAccounted`), and hooks are freed in the opposite order
  (`PhaseSound`);
* the capture filter: the verdict of the configuration a thread will copy, and then of the
  one it has copied, stays among those in force since its hit (`VerdictInv`); verdicts
  counted and still to be counted exceed the hits by no more than the threads
  (`Balance`), a clearing of the counters half way included;
* the keyboard (`InputInv`): the bytes that were not read follow each other, key by key
  (`LineOk`), and the parser's bytes fit to the next of them (`Fits`): none between keys or
  in a key that is lost, a lone escape, or what the key has sent so far. `ReadOk` says how
  far a read has come after each byte, by `SetInduction` along the recursive function
  `Parsed`; `OneByte` is its step, from the shape of the escape sequences
  (`EscapesAreShaped`): none is the beginning of another;
* the list and the panes: `ListInv` and `PanesInv` of `TuiProofs`, by instance.

The assumptions are the named `ASSUME`s of the modules, which TLC evaluates:

| assumption | what it says |
|---|---|
| `RingAssumption` | positive capacity and width; a reader reads one socket |
| `ThreadsAssumption` | finitely many threads |
| `HistoryAssumption` | an initial capacity that is positive and within the limit |
| `SessionsAssumption` | a program is of one kind, `Off` is none; positive backlog and limit |
| `SocketFamilyAssumption` | the families are a range that is not empty |
| `PartsAssumption` | the parts' constants have their types; batches, reads, rows and drains are positive, threads finitely many; a key that is no command is not named by a plain command's byte and is neither `[` nor `O`, with which a lone escape would be taken for the beginning of a sequence |
| `RowsAssumption` | ids, interfaces and thresholds are numbers; the WebUI's threshold of slow calls is not above the MCP server's |
| `StreamAssumption` | filters are sets of events, limits and pages are positive |

Only model-checked is liveness (`PendingEndsWait`, `RemovalEnds`,
`FullHistoryStopsCapture`, `TailIsFollowed`), which is out of the prover's reach, as is
`ENABLED`; every safety property of a passing run is proved. A violated property needs
no proof: TLC shows the behaviour that violates it.

## Not modelled

* The copy of an event to user space that fails after the cursor has advanced
  (`bt_sock.c:181`): `taken` counts it as taken.
* Text writes instruction by instruction, relocation of instructions, a thread preempted
  inside the patched instructions.
* A file's contents after a crash of the system: `flush` and the page cache; the page
  granularity with which an access beyond a truncated file fails.
* The interface of a reply in the WebUI's filters, which depends on its call, in
  `TraceStream`; `TraceRows` has it.
* A program that is killed between switching capture on and building its guard
  (`main.rs:374`), from the side of the next reader; reading the counters while they
  change; the window of loading in which the protocol is registered and the hooks are
  not installed.
* The `OnceLock` that takes the path of the method table once; lookups in a table that
  is not sorted.
* Wording, colours, JSON formats, HTTP routing and embedded assets, React components,
  symbol lookup and page table walks of the kernel, build scripts: no state of their
  own, or generated.

## Plan

1. `InlineText`: entries of four instructions that are written one by one and may be
   left half written (`hijack_arm64.c:72`), what `wuwa_install_hook` undoes then, and
   addresses in the entry relocated to where their instruction went (`relo_in_tramp`
   against `relocate_inst`).
2. A kill between switching capture on and the guard, as an action of `CaptureSessions`.
