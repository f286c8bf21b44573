# Formal verification of Ble_tracking

The repository holds the firmware of a BLE tag (`src/embedded/shield`, an nRF51
with the S110 SoftDevice), the program of its gateway (`src/embedded/onyx`, Linux
with an ESP8266 on a serial line), a small EEPROM store (`src/embedded/eeprom.cpp`,
`pstorage.cpp`), and vendored trees (the nRF51 SDK, CUnit). This directory holds TLA+
models of the program's own logic, the TLC configurations that check them, and
proofs for TLAPS.

`PROJECT.json` lists the components, runs, mutants, findings, hazards and theorems,
and maps every definition to the lines it models.

Contents: 1 inventory, 2 modules, 3 runs and bounds, 4 fairness, 5 proofs,
6 findings, 7 what is not modelled, 8 plan, 9 how to run.

## 1. Inventory

Paths are relative to `src/embedded/`.

### 1.1 Shield (firmware)

Two contexts share the firmware's memory: `main()` (thread mode), and interrupt
handlers. SD_EVT (all events of the SoftDevice) and UART0 run at the same priority,
so neither preempts the other and both preempt `main()`.

| part | state | operations | interacts with |
|---|---|---|---|
| peer manager (`shield/src/main/peer_manager.c`) | `m_peer_table` (7 peers: address, EDIV, keys, flags), `m_conn_table` (1 connection instance), `m_sec_param` | `conn_manager_init`, one case of `handler()` per GAP event, `peer_inst_*`, `conn_inst_*` | called by the dispatch; lends the memory of a peer entry to the stack for a pairing; answers the stack |
| start-up and dispatch (`main.cpp`) | program counter of `main()` | start advertising, initialise the peer manager, read characters; `ble_evt_dispatch` calls `handler` and `gatts_handler`, and advertises again after DISCONNECTED | everything |
| transmission service (`gatts_handler.c`, `rx_handler` in `main.cpp`) | `trs.isHVXEnabled`, `rx_value_buf`, `m_conn_handle`, the motor's pin | the cases of `gatts_handler`, `ble_trs_transmit`, `rx_handler` | the central's requests through the stack; indications back |
| UART, receiving (`hal/uart.cpp`, `ds/circularBuffer.h`) | ring `rx_buf`, RXD, RXDRDY | `UART0_IRQHandler`, `enque`, `deque`, `_read` | interrupt handler and `main()` share the ring |
| UART, sending (`hal/uart.cpp`) | TXDRDY, the transmitter, the place in the text of each context | `_write`, `uart_putchar_unlocked`, from `main()` and from SD_EVT | both contexts share the transmitter without a lock |
| time base (`hal/time.cpp`) | overflow counters | timer and RTC handlers, `micros()`, `millis()` | used by `_main()` only, which nothing calls |
| event printing (`main/conn_manager.c`) | none | formats events | UART |
| drivers (`arch/nrf51/*`, `driver/*`) | hardware registers | loads and stores | hardware |

Hard behaviours, and what makes the parts correct:

* Events are *queued* in the stack: when one is dispatched, the link may be gone. The
  connection instance must follow the link all the same, and be free when the next
  CONNECTED is dispatched.
* Advertising starts *before* `conn_manager_init`, so a CONNECTED can be dispatched
  before, between or after the stores of the initialisation, and the stores after it hit an instance in use.
* The stack *keeps* a pointer into `m_peer_table` while a pairing runs. It must be the
  entry of the connection that pairs, until the pairing ends.
* Every request of the central that blocks it (pairing, encryption, system attributes,
  authorised writes) must be answered, and the device must be connectable again after a
  lost link.
* `isHVXEnabled` is a copy of the stack's CCCD. It is updated by a queued event and is
  never reset.
* A command queued by a central that is gone must not move the motor.
* The receive interrupt must not lose the announcement of a byte, and must lose a byte
  only when the ring is full. Interrupt handler and reader run without a lock.
* Printing from SD_EVT while `main()` prints clears TXDRDY and stops the transmitter under `main()`. Whoever waits for
  TXDRDY must get it, and a text into which nobody prints must be sent.

### 1.2 EEPROM page store (`eeprom.cpp`, `pstorage.cpp`)

State: a file of 8-byte pages standing for an EEPROM, a RAM cache of the meta page and of
the modules' pages. Operations: register a module, open, create, read, write, update,
`pstorage_burn`, `sync_cache_to_storage`. Hard: a power cut between two page
writes, a write that fails, where modules start (`next_free_mod` is used as an address).
It is correct when a module that was created stays, when its id never goes to another
module, when cache and EEPROM say the same between calls, and when blocks lie over neither the
table nor each other (they do: finding 4).

### 1.3 Onyx (gateway)

| part | state | operations | hard |
|---|---|---|---|
| AT engine, ESP8266 driver (`ATEngine.cpp`, `drivers/esp12.cpp`) | command queue, state, timeout, receive buffer, boot state | enqueue, process, receive, timeout, unsolicited messages | late answers, timeouts, order of answers, boot must end |
| scheduler and locks (`core/scheduler.cpp`, `mutex.cpp`, `semaphore.cpp`) | task table with a POSIX thread for each entry, set of identifiers; none (wrappers) | create, run, delete, stop, exit, register a callback | table limits, threads that end by themselves, handles that are used again, callbacks read without a lock |
| HTTP parser and former (`net/http-*.cpp`) | parser state and index | incremental parse, chunked bodies | unsigned differences, bodies in several pieces |
| JSON, MQTT, DNS, configuration, serial line, timing | – | formatting, blocking I/O | – |

## 2. Modules

| module | models | kind |
|---|---|---|
| `SoftDevice` | the S110 stack, its queue of events, and the centrals, as `peer_manager.c` uses them (external) | environment |
| `PeerManager` | `peer_manager.c`: tables, `conn_inst_*`, `peer_inst_*`, the cases of `handler()` | component |
| `Shield` | `main()`, `ble_evt_dispatch`; composes the two above; properties | composition |
| `BondStore` | a table of entries that is lent to the stack one entry at a time | abstract specification |
| `ShieldProofs`, `ShieldSafety` | type correctness; the inductive invariant, four safety properties, an action property; it implements `BondStore` | proofs |
| `TrsService` | `gatts_handler.c`, `rx_handler`, the GATT side of the stack, a central | component |
| `TrsProofs` | its inductive invariant and four properties | proofs |
| `ByteReceiver` | a bounded queue of bytes with a lossy input | abstract specification |
| `UartRx` | UART hardware, `UART0_IRQHandler`, ring, `_read` | component |
| `UartRxProofs` | its invariants; it implements `ByteReceiver` | proofs |
| `ATEngine` | `ATEngine.cpp`: the engine that sends AT commands one at a time | component |
| `Esp12` | `drivers/esp12.cpp`: boot, callbacks, serving clients; `loop_fast`; the ESP8266 (external) | composition |
| `CommandQueue` | commands sent one at a time and in order, dropped only with an error | abstract specification |
| `Esp12Proofs` | its inductive invariants, `PhaseDone`; it implements `CommandQueue` | proofs |
| `ModuleTable` | a table that hands out ids in order over any number of power failures | abstract specification |
| `PStorage` | `pstorage.cpp` and the writing of `eeprom.cpp`, page by page | component |
| `PStorageProofs` | its invariants, that it implements `ModuleTable` | proofs |
| `UartTx` | `uart_putchar_unlocked` in two contexts, the transmitter | component |
| `UartTxProofs` | its inductive invariant and three properties | proofs |
| `Scheduler` | `core/scheduler.cpp`: `main()`, the tasks, their threads | component |
| `SchedulerProofs` | its inductive invariant and three properties | proofs |
| `MCShield`, `MCUartRx`, `MCEsp12` | finite constants for TLC | model checking |

### 2.1 Shield

State. `peers` is `m_peer_table`, `conn` is the one entry of `m_conn_table`
(MAX_CONNECTIONS is 1), `mSecBond` is `m_sec_param.bond`. `adv`, `link`, `evtq` and `smp`
are the stack: is it advertising, who is connected, which events the application has not
pulled, where the security procedure is. `boot` is where `main()` is. `wiped` is a history
variable: it says that `conn_manager_init` wrote to the instance of the present link. `ndx` is the
counter of the loop over `m_peer_table`.

Actions. The start-up of `main()` is preempted between any two stores, so each store to a table is a step,
in the order of the source: `BootConnFlags`, `BootConnHandle`, `BootConnBondedDev`, `BootConnAddr` for the
connection instance (lines 133 to 136), `BootPeerAddr`, `BootPeerAddrType`, `BootPeerFlags`, `BootPeerEdiv` for each
entry of `m_peer_table` (lines 190 to 195). A `memset` is any number of stores: `BootConnAddr` and `BootPeerAddr` take a step for each.
`Cleared` are the addresses that they leave, the one of zeroes and those of which an interrupt wrote, or saw, a part
(`torn`): no central has one. `BootSecParams` is one step: of `m_sec_param` only `bond` is kept. The same `conn_inst_init` and `peer_inst_init`, called by the interrupt, are part of its one step
(`ConnInstInit`, `PeerInstInit`). `OnConnected` ... `OnTimeout` are a dispatch of an event, one for each case of
`handler()` that changes state, with the restart of the advertising in `OnDisconnected`.
`Radio` and `PairingEnds` are what centrals and stack do by themselves.

A dispatch is one step. It runs in an interrupt that `main()` cannot delay, and every case
calls the stack at most once to change its state, so that the stack's own steps
can be ordered before or after it. The calls of the application can be refused by the
stack; a refused `sd_ble_gap_sec_params_reply` leaves the phase `refused`.

Handles. S110 has one peripheral link with handle 0, so `conn.handle` is a Boolean: does the
instance have that handle?  Addresses are model values. `Rpa` are resolvable private
addresses; a pairing that distributes an identity key replaces such an address by the
identity (`StoredEntry`).

Refinement. `BondStore` is what `m_peer_table` promises the stack, which keeps addresses of an entry from
`sd_ble_gap_sec_params_reply` until the pairing ends. `up <- boot = "ready"`, `entry` and `key` are the application's
and the stack's part of `peers`, `lent <- Lent` is the index behind the keyset while a pairing runs. `HandleSecParamsRequest` is
`Lend` when the stack accepts and `Write` when it refuses, `PairingEnds` is `Store` or `Return`, a failing pairing is `Return`, the other handlers are `Write` or
stutter, `InitEntries` are `Clear`, of which the last ends with `up`. That no handler writes while an entry is lent is not visible in any of them: it follows from what
can be queued then (`LeaseQueue`). `BondStore` leaves open when an entry is released: the code releases one whose pairing failed, also if it held a bond.

### 2.2 TrsService

State. `cccd`, `req` and `ind` are what the stack has of the link: the descriptor of TX, the
request the central waits for, the indication it has not confirmed. `isHVXEnabled`, `rxBuf`
and `motor` are the application's. Of `rx_value_buf` only "starts with O" and "second is N"
are kept: that is all that `rx_handler` looks at. A short write leaves the rest of the
fixed-length attribute alone (`Written`).

Actions. `Connect`, `LinkLost`, `Subscribe`, `WriteCommand`, `WriteLong`, `Confirm` and
`ConfirmTimesOut` are the central and the radio, `SubscriptionResumed` is the stack going on with
a write that waited for the system attributes. `OnCommand`, `OnWrite`, `OnSysAttrMissing`,
`OnDisconnected` and `OnOther` dispatch an event. `m_conn_handle` is not a variable: it is
overwritten by each event before any use, so it is always the handle of the event at hand.

### 2.3 UartRx

State. `rxd` is what the hardware holds (RXD first), `rxdrdy` the event register, `irq` and
`reader` the program counters of handler and reader with the byte each has in hand, `data`,
`front` and `rear` the ring, `got` what `_read` returned last.

Actions. Handler: clear RXDRDY, read RXD, `enque`. Reader: test, copy, move `rear`. `Thread`
says that the reader does not run while the handler does; between two of its accesses it
can be preempted by any number of handler runs. `ReadDeque` on an empty ring returns any byte:
`uart_getchar_unlocked` ignores the result of `deque` and returns an uninitialised variable
(which never happens, `NothingReadFromEmpty`).

`front` is not volatile, so a compiler may keep it in a register in the loop that waits for a
character. The model reads memory each time, as the code intends.

Refinement. `line <- InHand \o rxd` (the byte the handler has read is still on the line),
`queue <- Unread` (the entries from `rear` to `front`), `got <- got`. `IrqEnque` is
`Accept`, `ReadAdvance` is `Deliver`, `Receive` is `Arrive`, all else stutters.

### 2.4 ATEngine, Esp12

State. `state` ... `resp`, `accept` are the members of `ATEngine_c`; a buffer is the set of words that
`strstr` would find in it, `inBuf` a sequence of whole commands. `late` and `quiet` stand for the two
comparisons of times. `boot`, `nextState`, `prevState`, `tries`, `isServerUp` are those of `esp12.cpp`,
`turn` says which of its two calls `loop_fast` makes next. `rx` is what the port has, `pending` what the
module received and has not answered, `listening` whether it serves. `done` is a history variable: for which
commands of the phase the engine found an answer.

Actions. `StartPhase` ... `HardReset` are the cases of `esp_boot_settings` (the four that queue commands are
one, with the table `Phase`). `Rest` ... `Recover` are the cases of `updateEngine`; `Esp12` adds to them what the
callbacks do. AT_SEND is left in the call that enters it, so it is not a state. Bytes arrive and time passes
between any two calls. The module answers in the order of the commands, when it likes, refuses, reboots, and passes
clients on with their request.

Refinement. `queue <- inBuf`, `current <- Current` (the command sent, as long as its answer is looked for), `err <- hasErr`. `Send` is `Send`, a `Look` that finds
an answer is `Finish`, `TimeOut` is `Fail`, `Recover` empties the queue with the error set (`Drop`), `reset_engine` of the boot is `Reset`; what is overheard
changes neither. The boot resets an engine without an error once, before the hard reset: `ResetReady` says that nothing is queued or waited for then.

### 2.5 PStorage

State. `page` is the EEPROM, `next` and `info` the cache in RAM. `pc`, `step`, `mod` and `blk` are the call that
is under way and the number of pages it has written. `good` is the state of the file stream: once a write failed every
later one of the same run fails. `given` and `session` are the ids that callers were ever told, and in this run. A page
holds the meta data, an entry of the table, or the text of a block (`Data`), of which only that it reads as an allocated entry is kept.

Actions. Each successful `eeprom_write` is a step (`PstorageBurn`, `SyncCacheToStorage`, `WriteBlkPage`), each has a
failing twin which may or may not have written the page, and `Crash` ends the program between any two. `PstorageInit`
reads the pages that a dead program left. `CachePstorageInRam` is part of the step that ends the burn: it only reads.

Blocks. As modules start at their number, blocks lie over table entries (finding 4). The properties speak of `ClearMods`, the
modules whose entry no block can lie over: what goes wrong with the others is the finding, and not a crash.
`BlocksAssumption` says that nobody writes block 0, which lies over the meta page and removes its signature.
Programs use the ids they were given, in this run or, for `ClearMods`, in an earlier one (`Usable`).

Refinement. `next <- StoredNext`, `modules <- StoredModules`, both read from the EEPROM alone. The write of the meta page is
`Reserve`, that of the new entry `Commit`, every other write a stutter: the order of the writes of `sync_cache_to_storage` is what makes it hold.

### 2.6 UartTx

State. `tx`, `busy`, `txdrdy` are the transmitter: started, has a byte, has announced one. `pc` and `left` say for each
context where in `uart_putchar_unlocked` it is, and how many bytes of its text are left. `window` and `clean` are history variables: did the
interrupt come between the lines 93 and 94 of `main()` for the byte at hand, and has nobody printed into a text since the transmitter was last empty.

Actions. Each access to the UART is one (`TxEnable` ... `TxDisable`); `Runs` says that `main()` stands still while the interrupt runs.
What a stopped transmitter does with a byte that is written to it, and with one it is stopped over, is left open (`Put`, `TxDisable`).

### 2.7 Scheduler

State. `taskIDs` is the bitset; `callback` and `thread` are those members of `sysTask`. `main` and `i` say where `main()` is, `pc` and
`self` where each task is and what `get_self_tid` told it. `cancelled` are the tasks whose thread has a cancellation pending.
`registered` and `called` are history variables.

Actions. `task_delete` is three steps, as its cancellation, the reading of the callback and the clearing of the bit are not atomic
(`DeleteCancel`, `DeleteCallback`, `DeleteBit`); `scheduler_stop` is the same steps for each task in turn. `dispatch_task` succeeds with any handle
no living thread has, also one that an ended thread had, or fails. A task may at any time look itself up, register its callback, exit,
return, or act on a cancellation. A handle whose thread has ended is not valid any more: `pthread_cancel` returns an error (`DeleteFails`), the program dies
(`DeleteDies`), or the handle is that of a later thread (`Reached`). The handle of a new thread is in the table before the thread runs, as the C
library stores it; POSIX does not promise that.

## 3. Runs and bounds

| run | specification | states | shows |
|---|---|---|---|
| `shield_safety` | `Spec` | 10.4 million | `IInv`; a CONNECTED finds a free instance; the instance follows the link; AUTH_STATUS has a peer index; keys are stored in the entry of the tracked connection (the last three with the start-up as the stated exception); `Shield` implements `BondStore`; a pairing request that is dispatched is replied to |
| `shield_liveness` | `FairSpec` | 897 thousand | a pairing is answered; the device is connectable again after a lost link |
| `shield_bond_reuse` | `Spec` | violation | finding 1 |
| `shield_unknown_key` | `Spec` | violation | finding 2 |
| `uart_rx` | `FairSpec` | 369 thousand | `IInv`; no lost announcement; no read from an empty register or ring; `UartRx` implements `ByteReceiver`, with its fairness |
| `trs_service` | `FairSpec` | 11 thousand | `IInv`; `isHVXEnabled` is set when it should be; a central that is gone moves nothing; an answer gets through; requests are answered |
| `esp_boot` | `FairSpec` | 65 thousand | `IInv`; a phase of the boot is left only when each of its commands got an answer; boot and engine come out of their waiting states; `Esp12` implements `CommandQueue` |
| `esp_server_on` | `Spec` | violation | finding 3 |
| `pstorage` | `Spec` | 121 thousand | `IInv`, which has the table below the next id; a module that was created stays, whatever fails afterwards; ids are never given twice; cache and EEPROM agree; `PStorage` implements `ModuleTable` |
| `pstorage_tables` | `Spec` | violation | finding 4 |
| `uart_tx` | `FairSpec` | 1439 | `IInv`; the interrupt never waits in vain; `main()` does so in one case only, and an interrupt that prints frees it; a text that nobody prints into is sent |
| `scheduler` | `FairSpec` | 2.72 million | `IInv`; `scheduler_stop` leaves nobody running, and all tasks end; `task_delete` hits its task; a cleanup callback is called |

Bounds.

* Addresses: a public one and a resolvable private address whose identity it is. A link can be that of the central before
  it, that of a central with another address, or that of a known central under another address. The violations have a second public address:
  finding 1 takes two centrals. `Cleared` has the address of zeroes and one that is torn, which counts as public. The theorems hold for all sets.
* `MAX_BONDS = 2` (7 in the code), 1 in the liveness run. Only the first entry is ever handed out (finding 1), the second
  is the one that stays blank, which an address of zeroes can find.
* `Ediv = {7, 65535}` in the two violations: an ordinary value and `EDIV_INIT_VAL`, which marks a blank entry. The passing runs have 7 alone,
  as a second value with one step for each store of the start-up makes the states too many. The theorems (but `OneBondOnly`) hold for all values.
* `EvtQueueLen`: events that wait for the application. In `Shield` 3 in the safety run: the whole of a
  short link (CONNECTED, one request, DISCONNECTED) can wait. In `TrsService` 4. The theorems hold for any length.
* `SEC_PARAM_BOND` is 1 in the passing runs and 0, as in the code at this commit, in the two
  violations: the passing runs thereby include the configuration in which keys are exchanged. The theorems hold for both.
* Ring of 4 entries (128), so that indices wrap and the ring gets full; hardware depth 2 (6); 3 byte values.
* `Esp12`: `MAX_TRIES = 1` (5): a retry, a last try and the hard reset happen. The module keeps 3 commands (a phase queues 3)
  and speaks twice of its own accord: two clients, or a client and a reboot. A module that talked without a pause for ever
  would keep the engine from sending; `WaitEnds` is about one that does not. In `esp_server_on` it does not talk.

* `pstorage`: 4 modules (6 in the code), so that ids run out and entries before, under and behind blocks exist: block 1 of 32 bytes lies over the
  pages 4 to 7, of which page 4 is the entry of the last module. Block sizes 30 (rounded up) and 136 (refused). `pstorage_tables` has the
  numbers of the code and of `main()`: 6 modules, blocks of 20 bytes, block 2.
* `uart_tx`: texts of up to 3 bytes; a first, an inner and a last byte differ.
* `scheduler`: `MAX_NUM_TASKS = 20` as in the code: 3 identifiers in a table of 20, so that a fourth task is refused and the loops run past the bitset.
  2 handles: two tasks run at a time, and a handle is used again when one has ended. A third handle, with which three
  tasks run at once, makes the states too many. The theorems hold for all numbers.

Deadlock is not checked in the runs of `Shield` and `TrsService`: the device may stop for good when its
advertising times out, which nothing repairs. It is checked in all others; `main()` of the scheduler ends
in a loop (`Idle`).

Each property of a passing run has a mutant in its module (a definition with the comment
"Mutant:", used by nothing): the code with a plausible bug, for which TLC finds the property violated.

## 4. Fairness

* `Shield`: `WF(Main)`, as `main()` is never blocked before its loop and interrupts return;
  `WF(Dispatch)`, as a pending interrupt is served. Nothing is assumed of centrals or radio.
* `TrsService`: `WF(Dispatch)` as above, and `WF(SubscriptionResumed)`: the stack resumes a write once it
  has the attributes, as its headers say.
* `UartRx`: `WF(Irq)`; `SF(Read)`, because `main()` runs between any two interrupts (a byte takes
  longer on the line than in the handler) but the model lets them alternate, which disables the reader
  again and again.
* `Esp12`: `WF(Loop)`, as `sys_loop` calls `loop_fast` for ever and the port is opened without blocking; weak fairness of
  each of the two clocks. Nothing is assumed of the module: it may never answer.

* `UartTx`: `WF(Sent)`, the transmitter sends; `WF` of the interrupt; `SF` of `main()`, which runs between any two interrupts. That events go on
  being printed is not assumed but the premise of `InterruptFreesMain`: without them `main()` may spin for ever.
* `Scheduler`: `WF(Stopping)`, `main()` goes on; `WF(CancellationPoint)`, a cancelled thread comes to a cancellation point: the tasks of the repository print in their loops.
* `PStorage` has no liveness property: each call is a bounded loop.

## 5. Proofs

Everything in the eight proof modules is checked to the last leaf. They rest on the named assumptions
about constants: `AddrAssumption`, `ClearedAssumption` (`PeerManager`), `EdivAssumption`, `EvtQueueAssumption` (`SoftDevice`, and one of the same name in
`TrsService`), `BondsAssumption` (1 .. 254 bonds: 255 is the invalid index), `SecParamAssumption`, `ByteAssumption`,
`QLenAssumption`, `HwDepthAssumption`, `CmdAssumption`, `EspCmdAssumption`, `TriesAssumption`, `BoundAssumption`,
`PStorageAssumption`, `BlocksAssumption`, `TextAssumption`, `TasksAssumption`, `HandleAssumption`. TLC evaluates each of them.

| theorem | says |
|---|---|
| `ShieldTypeCorrect`, `ShieldInvariant` | `Spec => []TypeOK`, `Spec => []IInv` |
| `FreeInstance`, `TrackedLink`, `PeerIndexed`, `KeysetOwned` | the four safety properties of `shield_safety` |
| `PeerTableIsStore` | `Spec => ImplementsStore`: for any number of bonds, addresses and events, `m_peer_table` is a `BondStore` |
| `PairingRequestReplied` | `Spec => RequestReplied`: the branch of `handler()` that answers nothing is never taken |
| `OneBondOnly` | if 0 and 65535 are no EDIVs and `conn_inst_init` meets no link, only the first entry ever gets a bond |
| `TrsInvariant` | `Spec => []IInv` |
| `TrsSubscription`, `TrsGoneCentral`, `TrsAnswer` | the safety and action properties of `trs_service` |
| `TrsRequest` | `Spec => []RequestQueued`: the safety part of `RequestAnswered` |
| `EspInvariant`, `EspTypeCorrect`, `EspPhaseDone` | `Spec => []IInv`, `Spec => []TypeOK`, `Spec => PhaseDone` |
| `EspImplementsQueue` | `Spec => ImplementsQueue`: the engine is a `CommandQueue` |
| `PStorageInvariant`, `TypeCorrect`, `TableOrder` | `Spec => []IInv`, and two parts of it |
| `Durability`, `CacheCurrency`, `UniqueIds` | the safety and action properties of `pstorage` |
| `Refinement` | `Spec => TableSpec`: for any number of modules, the store is a `ModuleTable` |
| `UartTxInvariant`, `UartTxTypeCorrect` | `Spec => []IInv`, `Spec => []TypeOK` |
| `InterruptAnnounced`, `MainWindow`, `CleanText` | the safety properties of `uart_tx` |
| `SchedulerInvariant`, `SchedulerTypeCorrect` | `Spec => []IInv`, `Spec => []TypeOK` |
| `NobodySurvives`, `CleanupCalled`, `DeleteHits` | the safety and action properties of `scheduler` |
| `UartRxInvariant`, `UartRxTypeCorrect` | `Spec => []IInv`, `Spec => []TypeOK` |
| `ByteAnnounced`, `NothingFromEmpty` | the safety properties of `uart_rx` |
| `UartRxRefines` | `Spec => ImplementsReceiver`: for any ring size, the code is a bounded queue |

`OneBondOnly` has two hypotheses, and says what is left of finding 1. No central uses EDIV 0 or 65535, the values of a blank entry: with one of them
`peer_inst_find` finds a blank entry (hazard `peer_manager.c:229`), which then can get a bond. And no link is established while `main()` is in
`conn_inst_init` (`[]~wiped`): an instance with a cleared address can find a blank entry by it.
`OneBond` itself is in no run. The induction needs `FirstEntryOnly`: peer indices come from the first entry only.

The exceptions `wiped` and `Orphaned` of the safety properties are the start-up hazard, and no wider: `AddrIsLink` and `IndexIsKeyset` say
that what the store left is the cleared value and not another link's, and `wiped` ends with the link (section 6, "Also met").

Why the inductive invariants are needed:

* `Shield`. None of the four properties is inductive: what a dispatch does depends on what is queued
  behind and before the event. `LinkQueue` says where events of a link can stand: CONNECTED first,
  DISCONNECTED last and only without a link, and nothing queued while the device advertises, because only the dispatch of
  DISCONNECTED starts it again. From that, events of two links never meet in the queue.
  `InstanceShape` relates flags, handle, address and peer index of the instance, with the two exceptions of the start-up
  (`wiped`, `Orphaned`), and says where in the start-up each can begin. `SecurityQueue` says that a request is the last event as long as its
  procedure waits, and that a pairing whose request was dispatched has a peer index, equal to the keyset the stack was given, unless a store of the start-up took it away. These are `QueueInv`, which is inductive
  by itself. `LeaseQueue` comes on top: while the stack holds a keyset no AUTH_STATUS is queued, as the request that led to the pairing was the last event in
  the queue. So no handler that writes an entry can run then, which is what `BondStore` asks.
* `TrsService`. `SubscriptionKnown` speaks of a queue without WRITE. `LastWriteCounts` says what the
  last queued WRITE carries, `QueueShape` that no WRITE is queued behind a command: a central has one
  request at a time. With `SubscriptionKnown` for the queue in front of the command, `AnswerGetsThrough` follows.
  `RequestQueued` says that a request the central waits for has its event in the queue; the fairness of `Dispatch` does the rest of `RequestAnswered`.
* `UartRx`. Two more facts make it inductive: what the reader copied is still in its entry (`CopyIsFirst`), and
  RXDRDY is set only for a byte that the handler is not about to take. The refinement needs lemmas on the ring: `enque` appends
  to `Unread` or finds `QLen - 1` entries in it, moving `rear` takes the first.

* `Esp12`. `PhaseDone` needs to know where the commands of a phase are: `WaitShape` says that, without an
  error, each one has an answer, is queued or is waited for. A timeout keeps it because the state AT_ERROR, in which the engine
  empties the queue, is entered with the error code set (`ErrorKnown`). These are `WaitInv`; `ResetReady` adds what the hard reset finds, which the refinement needs.

* `PStorage`. What is durable depends on how far a call has come, and on what a call that died left behind. `Creating` says which
  entries the pages written so far hold, `Burning` and `Unformatted` that an EEPROM whose format was not finished has no module,
  `Current` that cache and EEPROM agree in an idle run without failures. `Opening` keeps entries that a block overwrote out of the modules that are used:
  otherwise text would be read as a start address.
* `UartTx`. `InterruptOwns` says that a running interrupt has the transmitter started and leaves TXDRDY set, `MainBeforeWait` in which ways `main()`
  can get to its wait: with the transmitter started, with a TXDRDY that an interrupt left, or through the window. `CleanTransmitter` says that, without mixed
  texts, only a context at its wait has a byte in the transmitter.
* `Scheduler`. `HandlesAreDistinct` (living threads have handles of their own) makes a cancellation reach one thread only. `CancelledBeforeFreed` and
  `Stopped` say that a living thread has its bit or is cancelled, and that what the loop has passed is cancelled. For the callbacks, `CallbackIsKept` says where a callback is and
  `CallbackIsOwed` who is still going to call it: `task_delete`, which is about to, or the task, which lives and is not cancelled.

Only model-checked: liveness (`PairingAnswered`, `ConnectableAgain`, `ReceiverIsFair`, `RequestAnswered`, `WaitEnds`,
`EngineReturns`, `InterruptReturns`, `InterruptFreesMain`, `StopEndsTasks`), which is out of the prover's reach, and the four violations.

## 6. Findings

1. `shield_bond_reuse`. `peer_manager.c:350` says "Assign a peer index as a new bond or update existing
   bonds". `peer_inst_allocate` (line 203) takes the first entry whose flag `assigned` is clear, and nothing
   sets that flag: every new bond gets entry 0 and overwrites the bond of another central. The table
   of 7 holds one.
2. `shield_unknown_key`. `ble_gap.h:1223` says that the key may be NULL "to signal none is available". For an EDIV that
   the table does not have, `peer_manager.c:399` passes `&m_peer_table[255]...`, an address past the table. Any
   restart of the device brings this about for a bonded central, as the table is in RAM.
3. `esp_server_on`. `esp12.cpp:414` prints "Server On" when an OK was found after START_TCP_SERVER was sent. An answer that comes
   after its timeout is taken for that of the next command, and so is every answer after it; the module may then still refuse to serve.

4. `pstorage_tables`. `pstorage.cpp:132` sets `next_free_addr` to the first byte behind the table. `pstorage_module_create` does not use it: a
   module starts at the *number* of the next module (line 340; the assignment of line 350 that would have advanced an address is overwritten by line
   351). Block 2 of `main()`'s own module is written to pages 6 to 8, and page 6 is the table's entry of module 5.

Behaviour met while modelling, for which the repository has no text to compare it with, is in the list of hazards
with a note: a failed pairing erases an existing bond; the flag `encrypted` is set on unbonded links; nothing restarts an
advertising that timed out; a short command is judged by bytes of an older one; long writes are never answered; data queued for a client is dropped when the
engine cleans up after what it overheard; a module that reboots while serving is not set up again.

Also met:

* A link that is established while `main()` of the shield is in `conn_inst_init` can be spoilt in four ways. CONNECTED dispatched before line 133: the instance
  is freed and not found (as before line 134, where it stays allocated besides, `Orphaned`, and every later connection is refused at line 283).
  Before line 135: it is tracked, and the store may take its peer index away; if the pairing request was dispatched as well, the pairing goes on without one, and
  a failed AUTH_STATUS writes at `m_peer_table[255]` (line 445). Before or in line 136: it is tracked with an address of zeroes, or one of which a part is zero.
  TLC refutes `InstanceFollowsLink`, `AuthStatusFindsPeer` and `KeysetIsOfConnection` without their exceptions for `wiped`. No text of the repository says
  that a connection may come that early, so there is no violation run.
* `main()` of the shield hangs in `uart.cpp:96` when an event is printed between its lines 93 and 94 and none is printed afterwards
  (`MainStuckInWindowOnly` is exact: TLC refutes that `main()` always leaves the loop). The window is one instruction, and each byte that `main()` echoes opens it.
* Bytes are lost when the texts of the two contexts mix: the transmitter is stopped over a byte, or a byte is put into a stopped one.
* The scheduler refuses a fourth task although its table has 20 entries: `taskIDs` has `sizeInBytes(20)` = 3 bits (`scheduler.cpp:35`).
* A handle of an ended thread that a new one gets: `get_self_tid` returns the first entry with it (line 61), so that a task may register its callback in another task's entry,
  and `task_delete` cancels the new thread. `Shared`, `returned` and `Ended` in the properties are these cases, without which TLC refutes them.
* A cleanup callback may be called twice, by `task_exit` and by `task_delete` (lines 117, 131).
* `pstorage_module_create` writes the whole table from the cache (line 249): the flag `open` of other modules becomes durable. An id whose creation
  was interrupted is lost. A module that starts within a page is written from the start of the page but read from its start (lines 167, 188, 384).

## 7. Not modelled

* Vendored code (`nrf51/`, `CUnit-2.1-3/`, `shield/src/ble`, `shield/src/softdevice`): only what the
  firmware relies on, as an environment.
* Register drivers, printing, advertising data, GAP parameters: no control.
* Cases of `handler()` that only print, and cases of `gatts_handler` that the attributes' permissions rule out
  (reads, writes without response, writes of the TX value, a descriptor that is not two bytes long).
* Cryptography, key contents and what an identity key resolves to: an entry has an address and an EDIV.
* `hal/time.cpp`: its only user is `_main()` in `_main.cpp`, which is compiled but called by nobody.
* `pstorage_read_blk` changes nothing; `page_alligned_blk_write` is a stub; `eeprom_clear` has no caller. An EEPROM file that held something else before is not an initial state.
* `mutex.cpp`, `semaphore.cpp` hand each call to the C library. Tasks that create or delete tasks, and a second `scheduler_run`: the repository has no such program.
* The HTTP parser and former: sequential parsing of text, planned as a pure algorithm (section 8).
* Of the gateway: JSON, MQTT, DNS, configuration (sequential formatting), host I/O, and the experiments
  (audio, video, TLS), which are no part of the program.

The share of the repository's lines that is mapped is small and stays so: more than 95 % of its C lines are
vendored (the SDK twice, register definitions, CMSIS headers, CUnit). The program's own stateful code is in the components of section 1.

## 8. Plan

Done: (1) `SoftDevice`, `PeerManager`, `Shield`; (2) `ByteReceiver`, `UartRx`; (3) `TrsService`; (4) `ATEngine`, `Esp12`;
(5) `ModuleTable`, `PStorage`; (6) `UartTx`; (7) `Scheduler`; with the theorems of section 5.

(8) `BondStore` and (9) `CommandQueue`, with their refinements proved.

Left, in this order:

10. Proofs: an abstract specification of the task table (an identifier is given back when its thread was cancelled or has ended) that `Scheduler` implements;
    one of the two printing contexts, texts that are sent or lost, for `UartTx`.
11. The byte-wise queue of commands of `ATEngine`, with a ring that may be full.
12. `Scheduler` with a third handle: a reduction of its states (symmetry of handles holds for the safety properties).
13. The HTTP parser as a pure algorithm against a reference definition, over bounded inputs in pieces.

## 9. How to run

    tlc -config shield_safety.cfg MCShield
    tlc -config shield_liveness.cfg MCShield
    tlc -config uart_rx.cfg MCUartRx
    tlc -config trs_service.cfg TrsService
    tlc -config esp_boot.cfg MCEsp12
    tlc -config pstorage.cfg PStorage
    tlc -config uart_tx.cfg UartTx
    tlc -config scheduler.cfg Scheduler
    tlc -config shield_bond_reuse.cfg MCShield      (finding 1)
    tlc -config shield_unknown_key.cfg MCShield     (finding 2)
    tlc -config esp_server_on.cfg MCEsp12           (finding 3)
    tlc -config pstorage_tables.cfg PStorage        (finding 4)
    tlapm ShieldProofs.tla ; tlapm ShieldSafety.tla
    tlapm UartRxProofs.tla ; tlapm TrsProofs.tla ; tlapm Esp12Proofs.tla
    tlapm PStorageProofs.tla ; tlapm UartTxProofs.tla ; tlapm SchedulerProofs.tla
