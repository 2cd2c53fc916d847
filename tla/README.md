# A formal model of odb

odb is a debugger for virtual machines. A VM links the server library, implements
`VMApi`, and calls `ServerApp::loop()` before its first instruction and after every
instruction; a debugging session then runs on the VM's own terminal or over TCP. This
directory holds TLA+ modules translated from the code, the TLC configurations that check
them and the TLAPS proofs about them. `PROJECT.json` maps every definition to its lines
and lists runs, mutants, findings, hazards and theorems.

Paths below are relative to the repository (`src/server/...` is the directory
`src/server` of it).

## The system

| Component | State | Operations | Talks to |
|---|---|---|---|
| `Debugger` (`src/server/debugger.cc`) | run state, execution point, call stack, breakpoints, step-over depth; caches of registers and symbols | `on_init`, `on_update`, `resume`, `stop`, breakpoints; symbol and register queries | called by `ServerApp` and the client handlers, always on the VM's thread; calls `VMApi` |
| `RangeMap` (`include/odb/utils/range-map.hh`) | maximal ranges of equal values | `set`, `get`, `range_of` | used by the symbol cache |
| `ServerApp` (`src/server/server-app.cc`) | configuration, the debugger, the handler | `loop`, called by the VM | drives `Debugger`, polls or blocks in the handler |
| `ClientHandler`, `MultiClientHandler` | NOT_CONNECTED, CONNECTED or DISCONNECTED | `setup_connection`, `run_command`, `check_stopped` | called by `ServerApp` |
| `DataClientHandler` (`src/server/data-client-handler.cc`) | a network thread with an atomic state and two unlocked buffers | the same three; the thread's loop | VM's thread and network thread share `_state`, `_in`, `_out` |
| `CLIClientHandler` | `g_sig_stop`, `g_manual_stop`, a `DBClient` | the same three; a SIGINT handler | the user's terminal |
| `DBClient` (`src/mess/db-client.cc`) | NOT_CONNECTED, VM_STOPPED or VM_RUNNING; last update; register cache | `connect`, `resume`, `stop`, `check_stopped`, registers, memory, symbols | one of two implementations: in process, or messages |
| `DBClientImplData`, `RequestHandler`, serialization | two buffers | `send_req`: write, send, block for the next message, read | one TCP connection |
| TCP transport (`src/mess/tcp-transfer.cc`) | none of its own | `send_data_tcp`, `recv_data_tcp`: a length, then the bytes, in loops | the sockets of both sides |
| `SimpleCLIClient` (`src/mess/simple-cli-client.cc`) | the words of a command | `exec`: parse, resolve, call, print; exceptions become text | a `DBClient` |
| C API (`src/server_capi`) | none of its own | wraps a table of C callbacks as `VMApi` | called by `Debugger`, calls the VM |
| `odb-client-simple-cli` | none of its own | poll until stopped, one command, print | `SimpleCLIClient`, a `DBClient` over TCP |
| `odb-cli` (`src/apps/odb-cli`) | prompt or polling; `g_force_stop` | commands, polling while the program runs, Ctrl-C | a `DBClient` over TCP |

### What is hard

* Two threads of the server hand buffers back and forth with one atomic and no lock,
  and a third party, the client, blocks on the result.
* Responses carry no number. The client takes the next message for its answer, so that
  everything rests on strict alternation, also when a call fails half way.
* Clients come, go or are interrupted by signals at any time: while the program runs,
  while it is stopped, between two looks of the server, between poll and stop.
* Several copies of one truth must agree: the VM's frames and the debugger's call stack,
  the debugger's state and what the prompt shows, the VM's registers and the client's
  cache, the VM's symbols and the loaded windows.
* Modes of execution (step, step over, step out, continue, to finish) interact with
  breakpoints and the call stack over long sequences of instructions.

* A command travels from a word through a number or a symbol, a type, bytes, a cache and
  a VM that may refuse at any call, and back; each conversion can lose something.

What makes each part correct is listed with its runs below. The hazards, each at its
line, are in `PROJECT.json`.

## Modules

    Debugger --> ServerApp --+--> RemoteSession      RangeMap --> SymbolCache --> CodeListing
                             |        ^
                             |        |              DBClient, CommandValues --> Commands
                             |        |
                             |    DataRunner --> RequestCycle --(implements)--> Rpc
                             |                        |
                             +--> CLIHandler          +--> RemoteCall <-- Wire <-- WireFormat

                                                     Transport --(implements)--> Channel

An arrow is EXTENDS. `MC*.tla` name the instances TLC checks, `*Proofs.tla` hold proofs.

* **Debugger**: class `Debugger` less its caches. `on_update(upd, addr)` is parameterised
  by what the VM reports. A call that throws changes nothing.
  `resumeDepth` is a history variable: the call depth at the last `resume`.
* **ServerApp**: the VM's thread. `pc` follows `ServerApp::loop`; every test between two
  calls is a step. The VM keeps frames of its own (`vmFrames`), so that the
  debugger's call stack is compared with something it did not compute. The client handler
  is nondeterministic here: anything its contract allows.
* **DataRunner**: the network thread, `_state`, `_in`, `_out`, and one connection
  with a queue in each direction. Every blocking call has a failing twin.
* **RequestCycle** puts a client and an executing thread around `DataRunner`, with
  numbered requests; **Rpc** is the abstract specification: ask, execute, answer, or the
  connection is lost.
* **RemoteSession** composes `ServerApp`, with `DataClientHandler` in place of the
  abstract handler, `DataRunner` and the `odb-cli` process. It is shown to implement
  `ServerApp` (`ImplementsServerApp`), so what holds there for any handler holds for
  this one.
* **CLIHandler** does the same for the handler on the VM's terminal.
* **DBClient**: the client's state machine and register cache against the VM's registers.
  The history variable `lapses` notes, since the last discard of the cache, a `stop()`,
  which discards nothing, and a `set_regs` that the VM refused half way.
* **CommandValues** and **Commands**: what a user types. `CommandValues` has the words, types,
  numbers, the doubles that integers pass through and bytes; `Commands` the commands on registers, memory and breakpoints, on top of
  `DBClient`'s cache. A command is one step whose disjuncts are the places where it may end;
  `out` is what it printed or stored, `aborted` an assert that ended the client.
* **SymbolCache** and **RangeMap**: which windows of memory had their symbols loaded. The
  VM's symbol table is any, several symbols at one address included, the VM may throw at
  any symbol, and lists them through the C API's loop, at most `ListCap` at a time. `marked`
  and `lost` are history variables: the addresses of all windows so far, which the RangeMap
  must represent, and the symbols a failure left out.
* **CodeListing**: `code`, `state`, `bt` and `psym` on top of it: which lines and labels a
  listing has.
* **Transport**: one direction of a connection, byte by byte. **Channel** is the abstract
  specification: whole messages, in order, until a transfer is torn apart.
* **WireFormat** and **Wire**: the schema of each request (`prepare_request`), and the
  four handlers that interpret it to write and read messages. A message is a sequence of
  tokens (width and value), which keeps what can go wrong, a field missing, out of order
  or of another width on one side, and leaves out the bytes of a token.
* **RemoteCall** composes `RequestCycle` and `Wire`: a call from end to end. The client writes a
  request where the cycle's client asks, the executing thread reads it, runs it and writes
  the response where the cycle's answers, and the client reads that where it takes the answer.

### Abstractions

* All debugger calls come from the VM's thread, so each is one step, except where a
  thread, the user or a signal may act in between (`run_command` of both handlers).
* `RemoteSession` treats all requests that neither read nor change execution state as one
  kind, `QUERY`, which may fail. Their contents are in `Wire`.
* In `DataRunner` TCP delivers whole messages in order until the connection breaks; that
  `tcp-transfer.cc` makes this out of bytes is `ImplementsChannel`. A closed connection may
  still deliver what was sent, or lose it. In `RemoteSession` an interrupted read has read
  nothing yet; an interruption inside a message is in `Transport`.
* The write and read ends of a hand-over (`_state`) are sequentially consistent, as
  `std::atomic` with default ordering is, and order the accesses to the buffers.
* `_stop` and `_state` are set in one step: only the network thread reads `_stop`.
* A `CallInfos::call_addr` that was never written has the value `NotSet`; a VM that makes a
  call with no frame left (possible only after `TopReturns`) is not followed further, as
  `back()` of an empty vector has no defined outcome.
* `Commands` has bytes of `ByteMod` values and integer types of 1, 2, 4 and 8 bytes. Of floating
  point it has what integers meet: `parse_int` refuses what is beyond a long long (`LongMax`, the
  exception of `std::stoll`) or not of its base, as in `08`, and `r_value` falls back to
  `parse_double`; the `?:` of `load_val` makes every integer a double, exact up to
  `DoubleExact` and rounded to the nearest (ties to even) beyond it. A double that is
  no value of the target type has no defined conversion: `load_val` is the set of buffers that
  may come out, then all of them. A buffer that is read past its end yields any bytes (`junk`).
  Fractions, floating point types, and words with blanks or two signs are left out.
* VM contract (external, from `tests/mockvms/mvm0/src/main.cc`): `loop()` is called once
  before the program starts, after every instruction, and once after the last one.

## Runs

With two workers `remote_session`, `server_app` and `commands` take about two minutes, the others
one or less. Deadlock is checked except where the system may stop: in `remote_call` and `transport`
the parties may leave, and in `commands` an assert may end the client.

| Run | Constants | States | Shows |
|---|---|---|---|
| `server_app` | 2 addresses, depth 3, main may return | 1,177,714 | `RunsOnlyWhenResumed`, `HandlerCalledInState`, `ShownStateIsVMState`; `StepOverExact`, `BreakpointStops`, `FinishedIsFinal`; liveness `LostClientReleases`, `StopReachesClient` |
| `remote_call` | 6 requests, arrays of up to 2, names of 1 and 2 characters, counts at their limit | 262,114 | `RunnerAsserts`, `BuffersExclusive`, `AnswersInOrder`; `RequestArrives`, `ResponseArrives` for every call and answer, errors included; liveness `AskedIsAnswered`, `ThreadEnds`; refinement `ImplementsRpc` |
| `remote_session` | 2 addresses, depth 1, Ctrl-C also interrupts reads | 996,696 | `PromptShowsTruth`, `ClientSurvives`, `NoThreadLeft`; refinement `ImplementsServerApp`; liveness `RequestAnswered`, `LeavingReleases` |
| `cli_handler` | 2 addresses, depth 2 | 879,932 | `CLIAsserts`, `StopsAreShown`, refinement `CLIImplementsServerApp`, liveness `CtrlCStops`, with SIGINT at any time |
| `commands` | 2 registers of 2 bytes, bytes of 1 bit, 4 bytes of memory, types u8, i16, u32, doubles exact up to 8, long long up to 12 | 514,752 | `StoppedIsStopped`, `CacheCoherent`, `PrintsTruth`, `StoresWhatWasTyped`, `ErrorChangesNothing` |
| `symbols` | 5 addresses, windows of 2, lists of 2, 3 symbols, 2 layouts of code | 87,012 | `GetSymbolsOnePerAddress`, `LoadedWindowsComplete`, `RangesExact`, `OnlyCrowdedAddressHangs`, `LabelsComplete` |
| `transport` | 3 messages of up to 3 bytes, lengths of 2 bytes, 4 bytes under way, 2 signals | 197,368 | `BytesConserved`, refinement `ImplementsChannel`, liveness `MessageArrives` |

Runs that expect a violation each show one place where the code does something other
than a line of the repository says (`findings` in `PROJECT.json` quotes them):

| Run | Property | What happens |
|---|---|---|
| `step_out` | `StepOutLeavesFrame` | a step out stops at the return of a callee |
| `stop_keeps_values` | `StopDiscardsValues` | `DBClient::stop` keeps register values of before the run |
| `early_leave` | `AnyLeavingReleases` | a client that comes and goes at once leaves a stopped program stopped |
| `negative_values` | `NegativesStored` | `sreg` and `smem` store -1 as 1 |
| `shared_address` | `AllSymbolsListed` | of two symbols at one address `get_symbols` lists one |

### Other observations

Behaviours of the code that the modules contain and the properties are stated around:

* A `RET_SUB` of the main function empties the call stack (`debugger.cc:184`), of which
  `debugger.hh:186` says the last element is the running function. `TopReturns` chooses
  whether the VM reports it: `server_app` takes TRUE, the composed runs and `CallChainHolds`
  FALSE.
* `DataClientHandler::check_stopped` returns unless a request is there, and only then tests
  for ERROR (`data-client-handler.cc:372`), so that a client that leaves while the program
  runs is noticed when the program stops, not earlier as the comment in line 370 suggests.
  `LeavingReleases` is stated for what happens then.
* `read_mult` takes a signal's EINTR for a failure (`tcp-transfer.cc:21`). After Ctrl-C in a
  read, `_wait_stop` goes on to STOP (`cli.cc:84-99`), reads the response of the poll for it
  and fails the assert of `db-client-impl-data.cc:42`. `remote_session` has this (`MaxBehind`):
  the client is out of step, the server is not disturbed. Inside a message the stream itself is
  lost (`torn` in `Transport`).
* The program may stop by itself between the poll and the STOP of Ctrl-C; the server refuses
  the STOP (`data-client-handler.cc:172`), and nobody catches the exception
  (`cli.cc:99`). `ClientSurvives` states that this is the only way a request ends the client.
* `_syms_pos` holds one symbol per address (`debugger.cc:441`), so that of two symbols at one
  address one is never listed, against `debugger.hh:122` (`shared_address`).
  `GetSymbolsOnePerAddress` says what is listed: one symbol for every address that has any.
* `_preload_symbols` marks its window before it loads the symbols (`debugger.cc:422`): if
  the VM throws at one, the rest is not asked for again (`lost`).
* Counts of elements are 16 bit fields filled from `std::size_t`
  (`db-client-impl-data.cc:85`). `Wire` cuts them at `CountMod`; the run's largest count is the
  last that fits, and with `CountMod` one less `RequestArrives` fails.
* A `sreg` whose type has another size than the register writes the VM first and fails an
  assert then (`db-client.cc:80`); `preg` of such a type reads past the value
  (`db-client.cc:60`). `PrintsTruth` is stated for types that fit.
* A second name of a register is never found in the cache (`db-client.cc:105`).
* `code n` goes back n addresses (`simple-cli-client.cc:574`), where `simple-cli-client.hh:50-51`
  speaks of lines: with longer instructions the current position is not in the middle, or
  not listed at all. No property is stated on where in a listing it is.
* A value that is out of range of the type of a `sreg` or `smem`, 256 for u8 or 0xffffffff for
  i32, has no defined outcome (`simple-cli-client.cc:165-208`): it is not cut to the type's width,
  as it would be without the detour through a double. An integer beyond the largest long long
  is read again by `std::stod` (`simple-cli-client.cc:98`, 111), to which a leading 0 is no
  prefix. In range, an integer that is no double stores its neighbour: 2^53 + 1 becomes 2^53.
  `StoresWhatWasTyped` is stated for values of the type up to `DoubleExact`.
* A symbol inside an instruction hides all later labels of a listing
  (`simple-cli-client.cc:632`): `LabelsComplete` names that case.
* If one address has more symbols than `ODB_VM_API_SYMS_LIST_CAP`, the C API asks for it for
  ever (`server_capi/vm-api.cc:120`): `OnlyCrowdedAddressHangs`.
* An address with a minus sign is taken for the one without it, as `parse_int` drops the sign
  before the test for a negative address (`simple-cli-client.cc:504`).

### Bounds

* `MemSize`: two addresses tell a breakpoint from the instruction next to it, and the
  call instruction from its target; a third only adds symmetric states.
* `MaxDepth` 3 in `server_app`: the frame of a step, its callee and the callee's callee,
  so that a step over passes calls and returns below its own depth, and depth 0 below main. The
  composed runs use 1 or 2, as their properties are about who is told, not how deep.
* `MaxAsked`: the proofs cover any number; six is many rounds of the one-place buffers.
* `MaxBehind`: messages in flight when a read is interrupted. One is enough for a client
  to be out of step; 0 switches such interruptions off, not Ctrl-C. The remote run
  has no counter of calls and is otherwise unbounded in length.
* `SymMemSize` 5 with windows of 2: a window between two loaded ones, at either end of
  memory, and a query across several windows. The three symbols are interchangeable
  (`SymmetricSyms`); the run has no temporal property. `ListCap` 2 is reached exactly, and
  exceeded by three symbols at one address. One layout has instructions of one address, the
  other mixes sizes, so that symbols lie inside instructions.
* `CountMod` stands for 2^16 and `MaxN` for the longest array; `CountMod` 7 is one more than the
  largest count of the run, so that the limit itself is met.
* `commands`: the words cover bases 2, 8, 10 and 16, values inside and outside of each type,
  exact and rounded, beyond a long long and beyond a double, a fallback to floating point, known
  and unknown symbols, ids, names, aliases and unknown registers, one register twice and two
  in one command; the types are smaller than, as large as and larger than a register.
* `transport`: messages of 0 to 3 bytes use every value of a two byte length; 4 bytes under way
  are fewer than the longest message with its length, so that writers wait for room; two
  signals hit both sides, or one side twice.

### Fairness

* `AppSpec`: the VM's thread takes a step whenever it can; a turn of `_connect` is not
  included, as nothing makes a client come.
* `Fairness` of `RequestCycle`, which `CallSpec` of `RemoteCall` takes over, and `RemoteSpec`: both server threads run, each scheduled by the
  operating system and never waiting on a lock; a client that waits for a response reads
  it and polls on, as its loops have no other exit. Weak fairness suffices: a request stays
  where it is until its next handler takes it.
* `Spec` of `Transport`: the loops of `write_mult` and `read_mult` go on while bytes or room are
  there, and see a closed connection. None on signals, leaving or new messages.
* `CLISpec`: the VM's thread runs. No fairness on anything a user does: commands, Ctrl-C,
  leaving, connecting.

## Proofs

`tlapm` checks each proof module in a minute or two, `RemoteSessionProofs` in some minutes;
every theorem holds for all values of the constants that satisfy the modules' assumptions
(sizes and bounds are positive, options Boolean, symbols finitely many, instructions not empty,
a message no longer than `msg_size_t` can say, the digits of a word numbers, integers exact as
doubles up to some bound within a long long).

* **ServerAppProofs**, the debugger. `DebuggerTypeOK` is inductive given what `StackAfter` does to the call
  stack, which three lemmas state (it keeps the type, a call pushes one frame and notes the
  call in the one below, a return pops one). `CallChain` is inductive on top of it for a VM
  that does not report the return of `main` (`~TopReturns`). `StepOverDepthFresh` is inductive and makes the action property
  `StepOverExact` a matter of one step; `BreakpointStops` and `FinishedIsFinal` follow from
  the type invariant step by step.
* **ServerAppProofs**, the loop. `RunsOnlyWhenResumed` and `HandlerCalledInState` are not inductive:
  they speak of the ends of `loop()`. `LoopInv` adds what holds at each control point in
  between: inside the loop there is a debugger; `_connect` is entered with a stopped
  program; the loop is left with a running program or a lost client; a finished program means a
  finished VM, so that the VM calls `loop()` no more. Four lemmas say what the debugger's calls
  do to its state, and `LoopStep` has one case per action. `ShownStateIsVMState` compares the
  stacks only where a client looks; `MirrorInv` compares them everywhere: at the call of
  `loop()` the debugger's stack is one report behind the VM's frames (`OneBehind`: the same, one
  frame more or one less, by what is reported), everywhere else it is the same.
  `AppInv` is `LoopInv`, the types and `MirrorInv`. `ServerImplementsDebugger` shows that
  `ServerApp` makes no call that `DebuggerSpec` has not, so that the results
  on the debugger hold of the server under any handler.
* **RequestCycleProofs**. `CycleInv` says that there is one message in the whole cycle and
  where: `AtRest` (none), `OnTheWay` (socket), `Received` (`_in`), `Answered` (`_out`) or
  `OnTheWayBack`, with the thread states that belong to each place. Buffer ownership,
  order of answers, single execution and the refinement of `Rpc` are all read off it.
* **CLIHandlerProofs**. The refinement of `ServerApp` needs only that `check_stopped` and
  `run_command` call the debugger in the states `LoopInv` has for them. `CLIInv` ties the
  `DBClient` to the debugger: in VM_STOPPED the program is held, its copy of the state is
  the debugger's, and it was shown unless `g_manual_stop` says that it is still to be. From it
  `CLIAsserts` and `StopsAreShown`, and with `MirrorInv` that the prompt shows the VM's own
  state (`CLIPromptShowsVM`).
* **RemoteSessionProofs**. `SessionInv` has a part for each party. `ThreadInv` and `BufferInv`:
  the network thread's place determines `_state` and which buffer is full. `LinkInv`: the
  connection lives from the client's `connect` to its end, and a handler is CONNECTED only
  with a thread that serves it. `EndInv`: the VM ends only with the client gone. `FlightInv`:
  a client that waits has at least one message to wait for. `StepInv`, for a client that is in
  step, is the protocol itself: for every kind of call what is true while its request is under
  way (`AskOK`) and while its answer is (`ReplyOK`), e.g. that during a command the server
  holds the program and the client's copy is right, and that a CONNECT always finds the
  program stopped. `SessionInvStep` has a case for each step of the VM's thread, the network
  thread and the client. The refinement of `ServerApp`, `NoThreadLeft`, `PromptShowsTruth`
  and `ClientSurvives` follow, the latter as an action property of the answer that
  is read. `RemoteBuffersExclusive` repeats what `RequestCycleProofs` shows, for a client that
  may be interrupted, which breaks the alternation there.
* **DBClientProofs**. `ClientInv` is the state machine: types, `StoppedIsStopped` and
  `ValuesHaveInfos`. `CacheInv` adds that nothing is cached before `connect`, which coherence
  needs when the program ran before it, and that a cache in VM_STOPPED agrees with the VM
  unless `lapses` names a reason; `CacheCoherent` follows with no assumption on
  the client. The second half is about `Commands`: `CommandSteps` sorts the ways every command
  may end by what they do to the cache and the VM (nothing, fetch, store, resume), `CommandInv`
  adds that a command is only shown while the program is stopped, and `CommandStep` shows
  that each kind keeps the cache coherent. `CommandErrorsChangeNothing` goes through the
  same list.

  `PrintsTruth` and `StoresWhatWasTyped` have two halves. In time: `ShownSteps`, from
  `CommandInv`, says that what is shown and what it is about stay as they are until the user
  has read it, and `HoldBytes` that registers and memory hold bytes, whatever `sreg` and `smem`
  put there; `PregPrints` has the bytes `preg` prints, `AssignedLast` the word a register named
  twice ends with, `SmemItems` the items of memory, found by `\div` and `%` of an address. In
  numbers, for every base: `ReadingAddsPlaces` (what `std::stoll` and a machine word
  make of digits, highest first, is the sum of their places), `PlacesBound` (it is less than the
  next power, so that `print_val` stays in the range of its type) and `LowDigitsPlaces` (the
  bytes `load_val` cuts a number into come to it, but for a multiple of the span of the type).
  `ResolvedMeans` ties a word to the number it means: one without a minus sign up to `DoubleExact`
  is no larger than a long long, and the double it becomes is itself (`SmallIsDouble`). With
  that, `LoadDenotes` says that the bytes of every buffer of `load_val` denote the value, if it
  is one of the type.
* **RangeMapProofs**. What `set` and `range_of` do for any keys and values. A map is a sequence
  of nodes with rising keys from 0 on (`IsMap`); each key is covered by one node, the one
  `find_node` finds. `Cut` and `Overwritten` follow the two halves of `set`; `Fixed` shows that
  the normalisation changes no value and leaves no two neighbours equal. `SetIsExact` and
  `RangeOfIsExact` put them together. Here and in the next module induction is the least
  number principle for sets (`LeastNumber`): the set of indices at which a claim fails has no
  least element. `RecursionExists` and `RecursionTyped` show in the same way that the recursive
  functions of the modules are defined and have their types; `DBClientProofs` and
  `TransportProofs` use them, and the lemmas on division, too.
* **TransportProofs**. `TransportInv` is inductive. `Unfinished`: a loop of `write_mult` or
  `read_mult` has something left to do. `AllBytes`: what arrived, what is held, what is on the
  wire and what `write_mult` still has are together the stream of all messages; a sender that
  left owes the end of it. `InOrder`: the messages received are the first of those sent. A signal
  in the middle of a message (`torn`) ends the last two. The step that needs most is the end of
  a `read_mult` (`ReadTakes`, `ReadKeeps`): the bytes held are then a length or a message only
  because the stream begins with those of one (`NextMessage`, `CutStream`), and because a length
  comes back out of its bytes as it went in (`SizeRoundTrip`, `BytesRoundTrip`, for any byte and
  any `sizeof(msg_size_t)`). `BytesConserved` and, step by step, `ImplementsChannel` follow.
* **SymbolCacheProofs**. `CacheInv` is inductive: the RangeMap says which addresses were marked
  (`RangesInv`), a marked address has its symbols loaded or lost (`MarkedInv`), a loaded symbol
  has an entry at its address (`PosInv`). The window `_preload_symbols` computes leaves out only
  marked addresses (`WindowIsWindow`), and the C API's loop gathers all of it
  (`GetSymbolsGathers`, by induction from the window's end). Hence `RangesExact`,
  `LoadedWindowsComplete`, `GetSymbolsOnePerAddress` and `OnlyCrowdedAddressHangs`, also when the VM
  throws at any symbol. For `CodeListing`, `ListingInv` says that a listing and the last question
  belong together; the lines are a walk over the instructions (`Walks`), which rises.
  For `LabelsComplete`, `LabelsReach` shows that the loop passes
  every symbol together with its line until it meets one without.

Checked by TLC only:

* All liveness properties: fairness is outside this prover's reach.
* `Wire` (`RequestArrives`, `ResponseArrives`): `Put` and `read` recurse over types that nest,
  as RECURSIVE operators, which the prover cannot use; and what they compute is an induction over
  the types.

## Not modelled

* The memo of register descriptions in `Debugger` (`debugger.cc:387-398`): idempotent, and its
  outcomes are those of `resolve_regs` in `Commands`.
* Of `SimpleCLIClient` floating point types, the `vm` command and layout; the view command
  and the readline loop of `odb-cli`, which format what `DBClient` returns.
* The C API except `get_symbols`: each wrapper calls one function, throws if it left an error and
  copies a struct. The VM of the modules may throw at any call.
* `message.hh`, which nothing includes; the mock VM, a fixture.
* Batches of several breakpoints or memory blocks, which no caller makes; a VM that throws
  in `get_update_infos`, which leaves `ServerApp::loop` for the VM's own code.
* Endianness across machines: lengths and values are written as the host has them.

## Plan

Done: the modules, runs and proofs above, in the order Debugger, ServerApp, DataRunner,
RequestCycle with Rpc, RemoteSession, RangeMap, SymbolCache, DBClient, CLIHandler, WireFormat
and Wire; then CommandValues and Commands, CodeListing with the C API's loop, Transport with
Channel, and RemoteCall.

Every safety property that a run checks is proved for all values of the constants, except the two
of `Wire`. What is left: a `Wire` whose types are flattened to the tokens of a schema, so that
writing and reading are functions over a sequence that can be reasoned about.
