# uFork: models and proofs

TLA+ models of uFork, a pure-actor machine whose reference core is written in
Rust (`src/vm/rs`), compiled to WASM (`src/vm/wasm`) and hosted by JavaScript
(`src/vm/js`), with the devices, the transports and the tools around it. This
directory holds the models, the TLC configurations that check them on small
instances, and the proofs of what the memory manager, the scheduler, the devices of the host, the AWP
device, compiled Scheme actors, requestors and the file transfer promise.

`tlc -config X.cfg M` runs a configuration; `tlapm M.tla` checks the proofs of
a module whose name ends in `Proofs`. `PROJECT.json` relates every definition to
the lines it models, and lists the hazards, at their lines, with the properties
that cover them.

## 1. Inventory

### The core (Rust)

| Part | State | Operations | Hard behaviours | What makes it correct |
|---|---|---|---|---|
| **Quad memory and garbage collector** (`core.rs`: `reserve`, `release`, `ram_mut`, `gc_*`) | RAM quads, free-list and its length, top of RAM, list of stubs, colours, phase, scan pointer, generations | reserve, free, any write, `gc_increment`, `gc_collect_all`, `h_gc_run` | mutator and collector interleave; explicit free and sweep compete; roots have no barrier | nothing reachable is freed; no double free; garbage is collected |
| **Run-loop, dispatch, transactions** (`run_loop`, `dispatch_event`, `process_event`, `execute_instruction`, `end_continuation`, `actor_commit`, `actor_abort`) | event queue, continuation queue, actors (behaviour, busy flag, inbox), effect of each transaction | one instruction and one dispatch per iteration; host events | interleaved transactions, suspension in the middle, lists that share one link field | atomic transactions, one at a time per actor; order; every event delivered |
| **Sponsors** (`resume_sponsor`, `report_error`, `reclaim_sponsor`, `h_refill`) | quotas, signal, control event, waiting queue | new, grant, reclaim, start, stop, exhaust, refill | exhaustion at any point, retry, a sponsor acting on itself | quotas conserved; suspended events kept and retried; controller told once |
| **Instruction set** (`perform_op`) | stack, pairs, dictionaries, deques | about 25 instructions | 31-bit wrap, lists of the wrong shape | dictionary and deque laws |
| **Blob allocator** (`blob_dev.rs`) | a heap of octets with a free-list inside | reserve, release, read, write | splitting and coalescing | blobs disjoint, space conserved |
| **Clock, random, debug, null, fail** | none | answer at once | failing | |

### The host (JavaScript)

| Part | State | Operations | Hard behaviours | What makes it correct |
|---|---|---|---|---|
| **JavaScript core, host device, dynamic devices** (`core.js`, `host_dev.*`) | WASM memory, deferred queue, event stubs, proxies | wraps every export, `u_defer`, wake up, drop proxy, dispose | reentrancy; work that outlives its event | deferred work runs once and outside the core; stubs released once |
| **Timer** (`timer_dev.*`) | stub per timer, proxy per cancel, timeouts by stub address | start, cancel, fire | cancel races with firing, cells are used again | fired or cancelled, once, and the right one |
| **I/O** (`io_dev.*`) | stub of the pending read, input buffer | read, write, input | a second read, input before the read | characters given out once, in order |
| **Blobs of the host** (`blob_dev.js`) | byte arrays, readings under way | reserve, read, write, source, read chunks | blobs composed of actors, pieces in many replies | chunks exact |
| **TCP**, **files** (`tcp_dev.js`, `fs_dev.js`, `fs_deno.js`) | connections, listeners, files, locks | connect, listen, open, read, write, close, dispose | promises settle between check and reset; a file dropped while in use | one operation at a time; each request answered; forgotten things released |
| **Loader** (`loader.js`) | import promises, definitions, ROM | import, load | modules arrive in any order, references forward and in circles | references resolved; every import settles |
| **AWP device, transports** (`awp_dev.js`, `*_transport.js`) | connections, outbox, stubs, greeters, listeners | introduce, listen, message, connect, lose | both ends dial, connections fail, are replaced, reported twice or not reported | at most once; the dialer is told how it ended |
| **Signalling** (`webrtc_transport.js`, `websockets_signall*.js`) | sessions, sockets, undelivered signals | offer, answer, candidate | candidates before the socket, several listeners, cancel | every call ends |
| **Core driver** (`udbg/core_driver.js`) | steps, step queue, signal, timers | play, pause, refill, step | reentrancy with the run-loop, wake-ups | works while it plays, pauses when told |

### Libraries and tools

| Part | State | Hard behaviours | What makes it correct |
|---|---|---|---|
| **Requestors** (`lib/parseq.js`) | pending requestors, timers | answers twice, late, at once, after cancel; throws, also after it has answered; three time options | one outcome, the documented one |
| **XMODEM** (`lib/xmodem.js`) | packet, retries | late and repeated acknowledgements, stray octets | the file arrives in order, and whole but for what was taken for an answer and was none |
| **OED** (`lib/oed.js`, `oed_lite.js`) | octets | sizes and exponents at their boundaries, cut input | what is decoded is what was encoded |
| **Scheme** (`lib/scheme.js`, `scm.asm`) | environments; actors with a transaction | variables by position, calls within expressions, deferred messages | the code computes what the program means; messages are handled one at a time |
| **Humus** (`lib/humus.js`, `hum.asm`) | environments on the stack | depths of the stack, recursive definitions, patterns | as above |
| **Assembler, disassembler** (`assemble.js`, `disassemble.js`) | open statements, labels | fall-through, recovery from errors | what is printed assembles to the same module |
| **Collapser** (`lib/collapse.js`) | scopes, marked statements | names in nested scopes and patterns | what a kept statement needs is kept |
| **Director** (`dir_tokenize.js`, `dir_parse.js`) | tokens, tree | indentation, literals, precedence | the tree is that of the text |
| **Microcode** (`fpga/ucode/*.js`) | control contexts, tail context; stacks and memory | exits folded into words, placeholders | the machine computes what the words mean |
| **Editor** (`apps/playground/ed*.js`) | element, history | the browser edits first, composition | undo and redo lead through the same texts |
| **WebSocket server** (`apps/peer_chat/websocketify.js`) | buffer, fragment, socket | frames cut anywhere | messages whole and in order |

Parts that are not modelled are listed in section 7.

### How they interact

Programs are actors in quad memory. The host adds events with
`h_event_enqueue` and calls `h_run_loop`, which runs until both queues are
empty, the root sponsor is exhausted or a step limit is reached. Devices handle
events synchronously, within a dispatch; asynchronous answers are events that
the host adds later, kept alive meanwhile by *stubs*, the host's roots of the
collector. A dynamic device must not call into the core while WASM has control:
it defers a callback, which `core.js` runs after the call. The collector takes
`gc_stride` steps per iteration. Sponsors charge every event, instruction and cell;
exhausted, they suspend their events and send a pre-allocated event to their
controller or, for the root, return to the host. The AWP device sends OED frames
over a transport, of which one is connected through the signallers. Everything
asynchronous outside the core is composed of requestors.

## 2. Modules

| Module | What it models |
|---|---|
| `GarbageCollector`, `GarbageCollectorProofs` | quad memory and its collector; theorems |
| `ActorTransactions` | what the scheduler promises: atomic, isolated actor transactions |
| `Scheduler`, `MCScheduler` | run-loop, dispatch, transactions, sponsors; refinement of `ActorTransactions` |
| `SchedulerProofs`, `TransactionProofs` | theorems about `Scheduler`, the second module on top of the first |
| `HostCalls` | deferred calls, stubs, answers: what dynamic devices share |
| `TcpDevice`, `FsDevice`, `BlobDevice` | dynamic devices over `HostCalls` |
| `TimerDevice`, `IoDevice` | devices with a part in the core and a part in JavaScript |
| `MCHostDevices`, `DeviceProofs` | composes the devices, of which a behaviour has one; theorems about each |
| `AwpDevice`, `AwpProofs` | two parties with their devices and a transport; theorems |
| `Oed` | both codecs, and the marshalling of uFork values on top |
| `CoreDriver`, `Signalling`, `Xmodem` | as in the inventory |
| `Requestor`, `Parseq` | what a requestor promises; the factories, a refinement of it |
| `MCProtocols`, `ProtocolProofs` | composes the last five; theorems about `Xmodem` and `Parseq` |
| `Loader` | import promises and `load_module()` |
| `CoreData` | values, arithmetic and `nth` of the core, as compiled programs use them |
| `Scheme`, `MCScheme`; `Humus` | compilers, and the code they make on the machine; programs and what they mean |
| `SerialActor`, `MetaActor`, `MetaActorProofs` | what a compiled behaviour promises; `BEH`, `BECOME` and the actors of `scm.asm`, a refinement of it; its proof |
| `SequenceFacts` | lemmas about sequences, and induction for a set of numbers, on which the other proofs rest |
| `MCLanguages` | composes `Oed`, the compilers, `Loader` and `MetaActor` |
| `Sexpr`, `Assembler`, `Collapse`, `Director`, `MicroCode`, `Editor`, `Websockets` | the tools |
| `MCAssembler`, `MCDirector`, `MCMicroCode` | inputs for them, and what is to come out |
| `MCTools` | composes the tools, with inputs for `Sexpr` and `Editor` |

A module that composes has a variable that says which part a behaviour is about; the
variables of the others do not change. TLC then explores the sum of the state
spaces, and a property is a conjunction with one conjunct for each part. An operator
whose comment starts with "Mutant of" is a plausible mistake in the definition that
follows it. Substituted for that definition, it breaks one property; this is how we
know that each property says something of the code.

### GarbageCollector

A quad is the set of heap cells that its four fields point to. `ref` is RAM;
`free`, `ram_free` and `ram_top` are the free-list, its recorded length and the
top (fields of MEMORY); `stubs`, `queue` and `waiting` are the pointers in reserved
RAM (`MEMORY.z`, DDEQUE, `SPONSOR.z`); `gc_*` have the names of the code.

Everything that touches the heap is a *burst* of primitives: `Load`, `Store`
(every `ram_mut`), `Reserve`, `Free`, `SetQueue`, `SetStubs`. The locals of a
burst are `held`, and count as roots until the burst ends. `EndBurst` hands over to the
collector, which takes `GcStride` steps (`StartCycle`, `Prep`, `MarkCell`,
`EndMark`, `SweepCell`, `EndSweep`) and returns. `GoIdle` and `HostGcRun` run
it until its phase is `Idle`. A burst may be empty, so increments with nothing in
between, as `h_gc_run()` makes when the core is stepped, are covered.

The write barrier is `Shade`: `ram_mut()` marks the cell and scans its **old**
contents before the caller overwrites them. Writes to reserved cells (queue heads,
the stub list) have no barrier; that this is sound is one of the things shown.
`Release` is one action: the `ram_mut` barrier, the clearing of the quad, the colour
and the free-list.

Left out: the type of a quad (so `drop_proxy()` on the release of a proxy), ROM,
non-pointer fields, and programs that keep a pointer to a cell they have freed. The
code has one such place, the proxy of a timer; `Free` requires that nothing leads to
the cell, and `TimerDevice` has the reuse of the cell.

### Scheduler

| Code | Model |
|---|---|
| `e_first .. e_last`, `k_first .. k_last` | `eq`, `kq` |
| an actor's x and y; z | `beh`; `busy` and `inbox` (`#?` is not busy) |
| a sponsor's z; y | `waiting`; `signal` and `alarm`, the control event in y |
| `quota.x` | `events` |
| the effect attached to an event, and its continuation | a record of `kq`: `ev`, `beh`, `out`, `n` |

Reversed lists are modelled by the sequence of events they stand for, oldest
first. One iteration of `run_loop()` is an `Execute` action, then a `Dispatch`
action; between iterations `turn` is `"exec"`, or `"host"` when `run_loop()` has
returned. The step limit is a choice made after each dispatch (`Iterated`).
`"panic"` is a failed assertion.

`Execute` has one action per outcome of `execute_instruction()`: the sponsor was
suspended (`ExecuteSuspended`), a recoverable error (`Exhaust`), any other error or
`end abort` (`Abort`), `end commit` (`Commit`), or an instruction after which
the continuation is queued again (`Compute`, `Send`, `Become`, `Grant`, `Reclaim`,
`Start`, `Stop`). Programs are arbitrary: any instruction may come next. `Dispatch`
has one per path through `dispatch_event()` and `process_event()`.

Abstracted: messages; memory and cycle quotas, which may run out at any
instruction (`Exhaust`); the creation of actors and sponsors (one that has not been
used stands for one not created yet). `Event` is the finite set of events that can
exist at once; one that is nowhere can be created again.

`ActorTransactions` has three variables: the events pending, the behaviours, the open
transactions. The refinement maps queue, inboxes, waiting queues and events being
processed to `pend`, and the continuation queue to `txn`. Outboxes and control
events are not pending yet: they become so in the step that commits, or suspends the
sponsor.

### Devices of the host

`HostCalls` has the state of a core as its host sees it (requests asked, queued events,
`deferred_queue`, the nested arrays of callbacks being run, stubs, answers), and
operators on it: a handler runs while `wasm` is true, its callbacks when the call
returns, and a host whose `on_txn` runs the core at once (`eager`) calls the core from
within a callback. `TcpDevice` and `FsDevice` add what the device keeps, one action
per handler, callback and promise; transports and filesystems are external, and an
operation under way succeeds or fails at any time. The collector may sweep the pair of a
connection's or file's proxy before the proxy, and the device is then not told of the drop
(`pairFirst`; `drop_proxy()` in `host_dev.js` finds the device through that pair). `BlobDevice` reads blobs that are
actors (slices, pairs, leaves that do or do not answer source requests), replies in any
order. `TimerDevice` has the cells of stubs and their reuse, `IoDevice` the stub of
standard input. Contents of files and chunks of TCP are left out.

### AwpDevice, Signalling

`AwpDevice` is both ends of a conversation: `node[p]` has the `connections`, `opening`,
`outbox`, `lost`, `stubs`, `listeners` of `awp_dev.js` for the one key that each
party has; `conn` and the frames in flight are the transport, one of three: in memory
(unordered, latency), TLS (ordered, cut into chunks, joined by `make_consumer`), WebRTC
(unordered, lossy). Introductions are the frames; forwarded messages only take
the same path. Ways in which a transport reports a connection badly are actions of their own:
`Sever` is the path of `make_consumer` where a frame does not decode, which closes the socket and calls
`on_close`, and `CloseAgain` the second call when the socket's `close` event comes; `FailSilently` is a WebRTC
connection whose state becomes "failed" and which is destroyed without `on_close`. Sending on what is
closed is lost on a TLS socket and throws elsewhere (`SendThrows`), and what an exception leaves undone is left undone. `Signalling` has callers and listeners with their sockets, the server's
`sockets` and `undelivered`, and the RTC peer as far as offers, answers, candidates and
connection states go.

### Loader, CoreDriver, Xmodem, Parseq

`Loader` abstracts a module to nodes that refer to each other and executes
`load_module()` in the order of the code: dependency order of references, allocation,
population, checks; its import promises have the states the code tells apart. The
sequence of `CoreDriver` follows `pc` through `run()`, since callbacks reenter it; the core
returns idle, at its limit, after an instruction, or with a fault that no refill cures.
`Xmodem` numbers packets modulo `SeqModulus`; its line loses, garbles and repeats what is sent,
delays answers without bound and makes up octets, its receiver asks when it likes, output may fail, and each octet
carries, for the properties only, which sending it answers. `Parseq` lets each requestor answer at
once, later, twice, never, after it was cancelled, throw, or answer and then throw, and return a cancel function after
it has answered; what is timed happens at any time.

### Languages

`Scheme` and `Humus` translate abstract syntax with the functions of the compilers,
then run the instructions on a machine of their own with the routines of the runtime
libraries. `CompiledRight` and `HumusRight` compare what the debug device receives
with a definition of what the program means (`EvalBody`, `Meaning`). `MetaActor` is the actors that `CREATE` makes of compiled behaviours: bodies take
their time, messages meanwhile are deferred; `SerialActor` is what `docs/scheme.md` says
of them. In Scheme, macros, quasi-quotation and imports are left out; in Humus the parser,
strings, division and timers.

### Tools

- `Sexpr`: texts are runs of characters; strings with blanks, quotes or backslashes are
  not among the round trips, as the reader does not read them (finding).
- `Assembler`: a line is its runs of tokens between spaces and whether it is
  indented. The parser is a state machine over lines with the statements that are open.
  Characters, positions and debug information are left out.
- `Collapse`: a node is its type, its name and the nodes in it. The JavaScript parser
  and the rewriting of import paths are left out. As in the code `Pure` does not look into the operand
  of a unary operator: the modules of `Negated`, where this drops a call, are not among those of `ToolsRight` (finding).
- `Director`: characters, with lists of literals and keywords
  abridged. `DirectorRight` speaks of texts that are tokenized and parsed as they were
  written; of operators within operators it has those where the tighter one comes first,
  and what is in brackets or parentheses last, because of the first finding on Director.
- `MicroCode`: one token per step of the compiler, one instruction per step of the
  machine. `ucode_sim_cli.js` lets the host act every 1000 instructions; here it may act between any two.
- `Editor`: text nodes, selection, revisions. Scrolling, callbacks and the `<br>`
  at the end are left out. An alteration beyond the end of the text gives `OutOfRange`, where the code throws; `EditsUndone` says that the editor never makes one. Time (`now`) only decides whether revisions are merged.
- `Websockets`: the format is scaled (`Short`, `Base`, `WideBytes`, `MaskLength`) so
  that every form of length occurs in frames of a few bytes. A continuation that no fragment precedes throws and
  ends the connection, as the server dies of it. The handshake is left out.

## 3. What is checked

| Run | Instance | Shows |
|---|---|---|
| `gc_safe` | 3 heap cells, one pointer per cell, 2 locals, one collector step per increment; 1.0 million states | nothing reachable is freed (`NoDangling`), the free-list is sound (`FreeListSound`), no Scan cell is behind the pointer (`ScanAhead`), live cells are coloured or on their way (`LiveProtected`) |
| `gc_live` | 2 cells, one stub, stride 2; 31 thousand | `IInv` in every state; `GarbageCollected` |
| `gc_host` | the host collects while suspended | *violated*: `WaitingKept` |
| `sched_safe` | 2 actors, a device, root and one peripheral sponsor, 4 events, 2 behaviours, 2 instructions per transaction, quota 2, `E_NO_MEM` possible; 0.36 million | queues apart (`OneHome`), one transaction per actor, `SponsorReady`, `Transactions` (refinement), order (`NoOvertaking`), `QuotaConserved`, `SuspendedKept` |
| `sched_live` | 4 events of both sponsors for actors and the device; 39 thousand | `Delivered`, `ActivitySuspended` |
| `sched_no_mem` | one instruction per transaction | *violated*: `BusyHasContinuation` |
| `awp` | 2 introductions, 2 connections, each transport, one fault, one listener stopped; 0.56 million | `OneLiveConnection`, `AtMostOnce` (frames), `CallbackOnce`, `DialerInformed`, `DialerAnswered` |
| `devices` | 3 requests (4 reads, 3 timers on 2 cells, 2 readings of blobs); 70 thousand | `OneOperation`, `AnsweredReleased`, `ForgottenReleased`, `TimerOnce`, `InputInOrder`, `ChunksExact`, `RequestsAnswered` |
| `languages` | OED values, compiled programs, 3 modules, 4 messages to an actor; 0.28 million | `RoundTrip`, `ProgramsRight`, `RomRight` (what was loaded is what the text says), `SerialSpec` (refinement), `EverythingEnds` |
| `scheme_forms` | forms with constant operands and `not` | *violated*: `CompiledRight` |
| `protocols` | a driver with 3 commands, a caller and 2 listeners, 3 packets numbered modulo 3 over a line that fails once, 3 requestors; 0.3 million | `TransferComplete`, `Outcomes`, `NothingLeft`, `PromiseKept` (refinement), `WorkDone`, `EverythingSettles` |
| `tools` | the tools; 56 thousand | `ToolsRight`, `EditsUndone` |

**Bounds.** *Memory*: three cells are enough for the cases that break a snapshot
collector: a cell marked, a cell with the only pointer to a third one, and that
third cell moved behind the scan pointer; chains of Scan and unmarked cells in either
address order; a free cell reused in every phase. One step per increment gives the finest
interleaving; `gc_live` has two, for increments that end in the middle of a phase. For
larger heaps there is the proof. *Scheduler*: the events let two queue behind a
transaction of the same actor and sponsor, a third come from another sponsor, and other
events be sent, controlled or handled by the device. Two instructions per
transaction let a sponsor be stopped, started or drained between the instructions of
another, and a transaction start a sponsor that it has granted quota to. `Quota`
bounds grants and refills, never charges: quotas reach zero. For more there are the proofs.
*AWP*: two connections are what replacing and crossing take, a fault and
a stop let each be lost at every point, and two introductions share an outbox. *Devices*:
two requests race for one resource while the third closes it; two cells let a stub's
address be used again by a later timer. *Requestors*: three, so that a required
one, an optional one and one held back by the throttle are there together; two calls show
what a call leaves to the next. *Transfer*: three packets and a modulus of three give the third packet the number of what comes before the first, and one
fault, with one question and the answers that come late by themselves, is enough for a packet to be lost with the transfer a success. *Programs*: every construct inside every binder that the compilers
distinguish, to the depth where a variable is bound two closures away. *Tools*: each text or frame form
next to each other one; `MaxActs` 4 acts of the user after the first text, with three revisions.

`Quota`, `Steps`, `MaxFaults`, `MaxAsks`, `MaxStops`, `MaxOpens`, `MaxWrites`, `MaxCalls`,
`MaxCommands`, `MaxActs`, `MaxRevisions` and `MaxText` are bounds of the models; `GcStride`,
`MaxRetries`, `SeqModulus`, `Depth` and the format of `Websockets` are numbers of the code.

**Symmetry.** Behaviours are interchangeable in `sched_safe`: nothing compares them to
a constant, and its temporal properties are action properties. Liveness runs use none.

**Deadlock** is checked where the host can always call (the collector and the scheduler).
Elsewhere a run ends: when its requests, programs or texts are used up.

**Fairness.**

- `Scheduler`: weak fairness of the iteration, because `run_loop()` is a loop, and of
  `RunLoop`, because every host calls `h_run_loop()` again after it has returned
  (`core_driver.js` and the `on_txn` wake-ups). Nothing is assumed of refills or of new
  events. Transactions end because a program has at most `Steps` instructions: one that
  loops uses up the cycle quota of its sponsor. `E_NO_MEM` is excluded in `sched_live`:
  it is a fatal error in `errors.md`, and leaves an inbox forever (finding).
- `GarbageCollector`: bursts are finite code (`EndBurst`) and `gc_increment()` is a bounded
  loop (`GcStep`). `GarbageCollected` assumes that the run-loop keeps running, as an idle core
  does not collect: before it goes idle `gc_collect_all()` only finishes the cycle under way.
- Devices: calls into WASM return, callbacks run, the host runs the core again, and what a
  transport or filesystem has begun ends. The last is strong fairness, because other
  requests may disable an operation again and again; the
  JavaScript engine settles each promise separately.
- `AwpDevice`: the core runs its events, and a transport answers a connect request, delivers what is in
  flight on a connection that stays up, and reports one that is gone, except that WebRTC may fail without a
  report; a socket that is severed closes. A lossy transport may lose any frame instead.
- `Signalling`: sockets are accepted, carry what is sent and report their closing; the RTC
  peers connect, fail or time out. `EverythingSettles` takes it that sockets do not fail once they are open (`Lossy = FALSE`);
  where they do, a call may never be settled (`LossSettles`, section 5). `Loader`: fetches end. `CoreDriver`: a turn
  of JavaScript ends and timers fire; devices and clients need do nothing. `WorkDone` ends, with work left, at a fault
  that no refill cures, as `run()` returns then and the driver goes on playing. `Parseq`: a requestor's time limit fires; requestors
  need not answer. `MetaActor`: events are dispatched and bodies run to their end.

## 4. What is proved

### The memory

`GarbageCollectorProofs` proves, for every heap size, stride, number of fields and
of locals, that `Spec` implies `[]TypeOK`, `[]NoDangling`, `[]FreeListSound`,
`[]ScanAhead` and `[]LiveProtected`. Assumptions: `GcAssumption` (the constants are
naturals, the stride is positive), and `"suspended" \notin HostGc`, without which
`gc_host` shows the property to be false.

The safety property is not inductive. The argument is the inductive invariant `IInv`:

- `LiveProtected`: every reachable cell has the current colour or, while marking, is
  *to visit*: reached from a Scan cell through cells not yet marked. A store cannot
  break this because the barrier scans what the overwritten cell pointed to; a store
  into a marked cell is safe because what it stores was reachable, hence protected. This
  also is why root updates need no barrier.
- `ScanAhead`: Scan cells are ahead of the scan pointer, so that when marking ends there are
  none, nothing is left to visit, and every reachable cell is current.
- `Generations`: cells of the previous generation exist only while marking, and in the part of
  the heap not yet swept, so that a new cycle starts with one colour and the swap is sound.
- `FreeListSound`, `FreeIsEmpty`, `LiveNotFree`: the sweep meets no cell of the free-list,
  and a free cell leads nowhere and is reached from nowhere.
- `Quiescent`: the collector works while the locals are empty and no event waits with the
  root sponsor; this is where `h_gc_run()` on a suspended core breaks the argument.

The reachable cells, and those to visit, are defined as least fixed points (the intersection of all
closed sets), so the proofs work by exhibiting a closed set instead of by induction.

### The scheduler

For any sets of actors, devices, peripheral sponsors, behaviours and events, any quota and
transactions of any length (`SchedulerAssumption`: naturals, and the sets apart):

- `SchedulerProofs`: `SchedulerTypes` (`[]TypeOK`), `ActorsBusy` (`[]OneTransaction`), and
  `SponsorsReady` (`[]SponsorReady`), the last one if no device fails with an error that
  `report_error()` asserts against.
- `SchedulerProofs`: `EventsApart` (`[]OneHome`): no two queues share an event, and none has one twice.
  The lists of the core share the link field of events, so an event in two queues would tie them
  together. `OneHome` speaks of positions of the continuation queue, which change with each
  step. The proof replaces them by *places* that exist in every state (an actor's current
  event, its outbox, its inbox, a sponsor's waiting queue and control event, the event
  queue), which `OneTransaction` allows. `HomeInv` says that a *layout*, which gives each place a
  queue, with no event twice and none in two places, describes the state. Every action
  transforms the layout by a few operations (clear, drop, put, join, take), each of
  which keeps it one.
- `TransactionProofs`: `TransactionsAtomic` (`Transactions`: `Scheduler` implements
  `ActorTransactions`) and `NothingForgotten` (`SuspendedKept`). The pending events `Sent` are split into the queue,
  the current events, inboxes and waiting queues; the transactions are a function `Txn` of the set of
  continuations. `HomeInv` is what makes a step that takes an event out of its place take it out of `Sent`. Each
  action is then a step of `ActorTransactions` or a stutter (`Atomic`) and loses no event of an exhausted sponsor (`Kept`).
- `TransactionProofs`: `OrderKept` (`NoOvertaking`). The events that an actor will take, `Mailbox(a)`, are its inbox followed by
  its part of the event queue. A step that takes an event from the mailbox, moves it from the queue to the
  inbox, puts the inbox back in front of the queue or adds events behind is *orderly*: what is before what in the new mailbox was so
  in the old one, where both events were in it. This takes two invariants: an inbox holds events of its own actor only (`OwnInbox`), and what is added
  was in no mailbox (`EventsApart`), without which an event sent twice would overtake itself.
- `TransactionProofs`: `QuotaNotMade` (`QuotaConserved`), for a finite set of peripheral sponsors, as the total of an infinite one is not defined.
  The total is a fold; the lemmas on folds that the proof needs (what a change of one value, or of two, does to the total) are proved there by
  induction on the size of the set of sponsors.

### Devices of the host

`DeviceProofs`, for any number of requests, connections, files, timers, cells and reads
(`HostDevicesAssumption`: requests and reads are numbered from 1, and 0 names no timer and no cell, as it
stands for none in the code):

- `OneAtATime` (`[]OneOperation`), `AnswersReleased` (`[]AnsweredReleased`) and `ForgottenOnce`
  (`[]ForgottenReleased`) for `TcpDevice` and `FsDevice`, from one invariant, `TcpInv` and `FsInv`.
  Its first half, `Life`, is about `HostCalls` alone and is proved once for both: a request is not made, then in
  the queue of the core, then *awaited* in `deferred_queue` or in one of the arrays of callbacks being run, then
  pending, then answered; it is in one of these places, once (`Single`), and its stub is reserved from the
  handler until the answer. Callbacks that run the core, which returns and runs more callbacks, nest the arrays; the
  proof has them in any number. The second half (`ConnsFine`, `FilesFine`) ties the flags of a connection or file
  to the pending requests. It is not inductive without `Keeps`: a request that is queued or has a stub keeps its
  proxy, so that `on_drop_proxy` comes for nothing that is in use, and `CheckForgotten` or `Close`
  never meets an operation under way. One consequence is that the branch of `fs_dev.js` that marks a file in use
  as dropped is never taken (`~file.dropped`). `ForgottenOnce` says that an unread connection is disposed of once when the
  device is told that it was dropped, and a file closed once: when the device is told, or with the core if it was not, and in no
  case while a request can use it. That the device is told whenever a file is forgotten does not hold (`ForgottenClosed`, section 5).
- `TimersOnce` (`[]TimerOnce`): a cell is the stub of the timer that `timer_map` has there, and a timer
  that was started has exactly one of these three: a cell, a firing, a stop (`Ends`).
- `InputOrdered` (`[]InputInOrder`): what was read followed by what is buffered is what was typed, and no read
  waits while the buffer has anything.
- `BlobsRead` (`[]ChunksExact`), for blobs composed of any number of parts, any number of readings at the same time and any number of
  writes meanwhile, if `BlobsMade`: what is composed is of ranges within blobs of the device and of whole leaves, and no actor's blob has a tag that is the
  number of a blob of the device. Both are where the code is at odds with itself: `h_get_bytes` takes any capability with such a tag for the blob, and `h_read_bytes`
  reads a leaf from its first byte, whatever range of it was meant (TLC finds `ChunksExact` violated by `MCSliced`). The invariant of a reading, `JobInv`, says
  that there are places `S` where the chunks begin and `P` where the parts begin, such that each chunk begins where a part begins and shows that part whole (`Shows`); that a
  reading that waits for a source ends at the beginning of a part, or at the end (`AtPart`); and that one that reads byte by byte has a beginning of the leaf (`Copied`)
  whose part begins there (`AtSource`). A view shows the array as it is by now, so writes need only leave the lengths alone (`ArraysInv`). That the chunks
  joined are then the parts joined is a fact on folds, proved in `SequenceFacts` for any sequences (`SameRows`): equal rows in equal places make equal sequences.

### AWP

`AwpProofs`, for any introductions, connections, faults and listeners that stop, over every transport (`AwpAssumption`):
`TypeCorrect`, `Alone` (`[]OneLiveConnection`), `NoDuplicates` (`[]AtMostOnce`), `CalledOnce`
(`[]CallbackOnce`) and `LossReported` (`[]DialerInformed`). `Alone` holds a party to one live connection until a TLS
connection has told it twice that it is closed and unregistered another one (the history `twice`); `LossReported` says that an introduction of a party that
never listens is answered, waited for or reported lost, or `Unsent`: in the outbox of a dead WebRTC connection, where `connection.send()` throws before the
introduction is entered in `lost`. The two exceptions are what the code does (section 5); the theorems say that there is no other, and for the second there is an invariant of
its own, `Tied`: the registered connection of a dialer is open or one of these dead ones, and what is stuck behind it stays in the outbox. The invariant `AwpInv` says that open ends are registered
(`Live`); that every frame is in one place, an outbox or one direction of one connection (`Apart`); that an introduction goes
from its frame to the greeter's event to the reply and is in one stage (`Course`), which is why `AtMostOnce`, which
only counts arrivals, is not inductive; that a callback belongs to the party that asked, and is a sink once called
(`Callbacks`); and that a party that never listens accepts no connection (`Dialers`). The steps of the device that
close, replace or flush are compositions of a few operators on both nodes and the wires; each is proved to thin out or
to move frames (`Thins`, `Alters`), and the actions follow.

### Compiled actors

`MetaActorProofs`: `ActorsSerial` (`FairSpec => SerialSpec`) for a finite set of messages, any behaviours, and `None`
neither. The invariant is that each message is queued, deferred, being handled or handled (`Once`), and that a busy
actor waits for one body or for the event that ends it (`Phase`); or that it is `Stuck`: a mutable body that
ended without `BECOME` has left it busy for ever, and it handles nothing more. Safety holds then, too; `EveryHandled` of `MetaActor` does not, so
its run has `Endings = {"become"}`.

### The transfer and the requestors

`ProtocolProofs`, in the composition `MCProtocols` (`TransferAssumption`, `RequestsAssumption`: naturals, the numbers of packets modulo two or more):

- `FileSent` (`[]TransferComplete`), for files of any length, any number of faults, questions of the receiver and retries. The sender takes any `ACK`
  for the answer to what it sent last; `astray` counts the ones it took that were something else: the answer to an earlier sending that came late, a repeated or garbled octet, or noise.
  The receiver always has a beginning of the file, in order, and on success it lacks at most `astray` packets, as long as these are fewer than `SeqModulus - 1` (with
  255 of them the numbers of the packets begin again). So the file is whole if no answer was taken amiss, and the property says what the numbers of packets are good for if one was. The invariant
  `TransferInv` says that packets on their way are in the order of the file and carry the number of what they hold (`PacketsFine`), that an `ACK` on its way to what was sent last is there only when the
  receiver has that packet (`AnswersFine`), and that the sender is at most `astray` packets and one ahead of the receiver (`Level`).
- `RequestorsStopped` (`[]NothingLeft`), `OutcomesTold` (`[]Outcomes`) and `FactoriesPromise` (`PromiseKept`: each factory implements `Requestor`), for any number
  of requestors, any throttle, any required ones, all time options and any number of calls, if the callback of the caller does not throw. `RequestorsStopped` counts among those to be cancelled the requestors that answered before they returned a cancel
  function (`early`), as the code keeps it. The other exception, a requestor that throws after it has answered, spoils the counts of its call (`spoilt`): `OutcomesTold` says nothing of such a call, nor does the bound on the throttle, while
  what is stopped, and that the callback is called once, holds for it as well (`Held`). The invariant `RequestsInv` says
  that a call goes on exactly while it was made, is not cancelled and has told nothing, and that each call satisfies `CallInv`. Of a call that goes on, the counts of
  pending and required requestors are those of the ones that have not answered or not succeeded, `next` separates those that wait from those that were begun,
  and results and inputs agree with the answers (`Counted`); no answer so far decides the call (`Undecided`); and as many as the throttle lets run or are about to
  (`Throttled`). One that has ended (`Stopped`) has no tasks and no timer, and at most one outcome was told, which is right (`Told`).
  With a callback that throws, `parseq.js`
  counts an answer twice and the callback may be called again (`CalledOnce`, section 5); this is what the hypothesis leaves out.

### Only model-checked

- Liveness (`GarbageCollected`, `Delivered`, `ActivitySuspended`, `DialerAnswered`, `RequestsAnswered`, `EverythingEnds`, `WorkDone`,
  `EverythingSettles`): fairness and ENABLED are beyond the prover.
- `RoundTrip`, `ProgramsRight`, `RomRight`, `ToolsRight`, `EditsUndone`: they say what recursive definitions compute, and their
  modules (codecs, compilers, assembler, loader, the histories of the editor) declare RECURSIVE operators or reach some, which the provers do not take.
  Induction itself is within reach where a definition is a function or a fold (`Least` and `Climb` of `SequenceFacts`, the sums of quota, the chunks of blobs).
- The violations.

## 5. Disagreements between code and documents

Three are runs of their own, which TLC finds violated:

1. `gc_host`: the waiting queue of the root sponsor (`SPONSOR.z`) is no root of the
   collector; `h_gc_run()` while it is suspended frees the event to be retried. The debugger has
   a button for it.
2. `sched_no_mem`: `process_event()` marks the actor busy before it reserves memory; when
   that fails, the actor stays busy without a continuation.
3. `scheme_forms`: constant folding of `+`, `-` and `*` drops the continuation, and `not` has
   its branches exchanged.

The others are in `PROJECT.json` ("findings"), with the lines quoted. In short:

- *Core*: a stopped sponsor keeps its waiting events; an error of a device fails the assertion in `report_error()`.
- *AWP, TLS, WebRTC*: a TLS connection severed by a frame that does not decode reports twice that it is closed, and the second
  report drops the connection and the outbox that the device has by then (`ClosedOnce`); a WebRTC connection that fails after it has opened is
  never reported, and the next introduction throws and is neither answered nor told (`CloseReported`); a signalling socket that fails after it has opened leaves the
  call pending (`LossSettles`); an introduction received by a party that dialled throws; a listening party does not tell its
  customers of a lost connection; a TLS frame that arrives with another one waits for a third; a second
  answer in time fails the call.
- *Devices*: a TCP connection that was read is not disposed when forgotten; a proxy whose pair was swept first is not
  reported, so that a forgotten file stays open (`DropTold`, `ForgottenClosed`); a read of the I/O device loses a character if `reserve()` fails after it was taken from the buffer; a slice of a
  blob that the blob device did not issue is read from the first byte of that blob to its last.
- *Driver*: `play()` after a refill is ignored while the driver plays; `www.js` passes no `on_txn`.
- *Requestors*: a callback may be used again during its action; `parallel_timeout()` forgets the time option
  `false` after the first call; a requestor that answers at once and returns a cancel function is cancelled later all the same
  (`RunningCancelled`); one that throws after it has answered counts twice, so that `parallel` may succeed while required requestors run (`RequiredSucceeded`).
- *Tools*: XMODEM takes any `ACK` for the answer to the packet sent last, and reports a success where a packet was lost (`FailureReported`); it reports one packet less; Director's spaces (binary operators after an operand with a tighter one),
  errors that loop, and depths that are no multiple of 4; the collapser drops effects of conditions, of `else`
  branches and of operands of unary operators (`PureIsPure`); `close(reason)` of WebSockets, and a continuation without a fragment, which ends the server; `a: ref a` loops in the assembler; what the disassembler
  does not quote; `SKZ` before `;`; a character lost by the UART simulator; `abs_idents` shared by Humus
  environments; `checkout()` while composing; unsorted patches are not inverted; direction of selections;
  a text that ends after a dot, and strings with blanks, in the Scheme reader.

Some modules state what these say without a configuration of their own, so that the statement is
there when the code changes: `StopDiscards`, `ErrorsAbort` (`Scheduler`); `GreeterReached`, `InformedOfLoss`,
`ArrivedFrameHandled`, `ClosedOnce`, `CloseReported` (`AwpDevice`); `ForgottenDisposed` (`TcpDevice`); `DropTold`, `ForgottenClosed` (`MCHostDevices`); `CalledOnce`, `OptionKept`,
`RunningCancelled`, `RequiredSucceeded` (`Parseq`); `SecondAnswerHarmless`, `LossSettles` (`Signalling`); `CountReported`, `FailureReported` (`Xmodem`); `Continues` (`CoreDriver`);
`NothingLost` (`MCMicroCode`); `PureIsPure` (`MCTools`); `CyclesFail` (`Loader`; circular imports never settle, marked FIXME in the code);
`OnlyOwnCancel` (`TimerDevice`; a proxy names a cell, which another timer may have by then); `LiteRatios` and
`FramesWait` (`Oed`; OED-lite writes negative ratios that it cannot read, and takes parts of a value for a value); and the inputs `ScopePrograms` (`MCLanguages`), `Unreadable` (`MCAssembler`),
`Misfolded`, `Negated` (`MCTools`) and `MCSliced` (`MCHostDevices`). Put in place of the properties, or inputs, of the configuration
for their module, TLC finds each of them violated. `MCProtocols` and `MCHostDevices` have those of the modules they compose under the same names; `LossSettles` takes `Lossy = TRUE`, `PureIsPure` takes `JsModules <- Negated`,
and of the parts the transfer takes `Considered = {"transfer"}`, and so on.

Noted on the way, without a document that says otherwise: `stop` of a TCP listener never releases the stub
of its `on_open`, nor does a failed listen; a second read of the I/O device replaces the stub of the first;
a synchronous failure of a connect attempt leaves the AWP key `opening`; a mutable Scheme body without `BECOME` sends
a stray `#nil` and leaves its actor busy (hence `Endings = {"become"}`); the loop of `eval_export` in `scheme.js`
(1089-1101); OED-lite takes of an extension that is cut what octets there are;
chunks of device blobs are views of
the blob and change with it; `RoundTrip` has sizes and exponents at the boundary of an octet, but not the safe integers, which are beyond
the integers of TLC; Humus sorts independent statements in reverse.

## 6. Plan

Done: the core's memory and scheduler, devices of the host and AWP with its transports, with proofs;
signalling; loader, driver, requestors; OED, Scheme, Humus, assembler and the other tools.

What is left, in this order:

1. The allocator of `blob_dev.rs`, as functions over free-lists: blobs and free blocks tile the heap,
   released space coalesces. Theorem: tiling.
2. `link.asm` over a lossy, duplicating channel; abstract specification: two FIFO queues.
3. Dictionaries and deques against reference definitions; fixnum arithmetic modulo 2^31.
4. The requestors in assembly (`rq/*.asm`) as refinements of `Requestor`; macros of Scheme.
5. Theorems: `RequestorsStopped` for callbacks that throw, and `OutcomesTold` for requestors that throw after an answer, when `parseq.js` counts an answer once; `Alone` and `LossReported` without their exceptions, when the transports report a closed connection once; `BlobsRead` for slices of
   leaves, when `h_read_bytes` reads the range that was meant.

## 7. Not modelled

- Presentation: the debugger's user interface, the playground around the editor, SVG, web sites.
- Parsers that are libraries (JavaScript, the PEG of Humus), file formats of output, command lines.
- The FPGA implementation in Verilog and its memory images: another implementation of the machine.
- The garbage of stubs and proxies between AWP parties, which the code does not collect either.
- Grant matcher, peer chat's link, actor libraries and requestors in assembly: programs for the machine;
  see the plan for those worth a model.
- Real time: timeouts happen at any time. The content of messages, but where a property is about it.
- Snapshots, boot and printing in `core.js`; memory and cycle quotas, as numbers.
