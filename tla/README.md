# TLA+ models of async-on-embedded

This project holds TLA+ models of the cooperative async runtime in `src/`:
- the executor of `async-cortex-m` and its platform hooks in `async-embedded`;
- the waker registry `WakerSet`;
- `unsync::Mutex` and `unsync::Channel`.

TLC checks them.

## The system

The runtime has one foreground thread and the interrupt handlers of drivers.

- **Executor** (`async-cortex-m/src/executor.rs`).
  - The task table is a `heapless::Vec<&'static Task, NTASKS>`, with NTASKS = 8.
  - Each task has an `AtomicBool` ready flag. A waker is a pointer to such a flag, and `wake` stores `true` into it.
  - `block_on(f)` loops:
    1. If main's flag is set, it clears the flag and polls main.
    2. It snapshots the table length (A).
    3. For every task whose flag is set, it clears the flag and polls the task.
    4. It loops again if anything was polled. Otherwise it calls `wait_for_event`.
  - `spawn` pushes onto the table, and aborts when it is full.
  - A spawned future that returns aborts.
  - A nested `block_on` aborts.
- **Platform hooks** (`async-embedded/src/lib.rs`).
  - On ARM:
    - `signal_event_ready` is SEV.
    - `wait_for_event` is WFE. WFE returns at once, consuming the event register, if an SEV or an exception entry/return set it.
  - On RISC-V with `riscv-wait-wfi-single-hart`:
    - `signal_event_ready` sets a static `TASK_READY`.
    - `wait_for_event` runs WFI only if `TASK_READY` is false, and clears it after the WFI.
- **r#yield** (`async-embedded/src/task.rs`): it wakes its own task, signals the latch, and returns Pending once.
- **WakerSet** (`async-embedded/src/unsync/waker_set.rs`).
  - It is a slab of NTASKS `Option<Waker>` entries plus a `notifiable` count.
  - `insert` panics with "OOM" when the slab is full.
  - `remove` drops an entry.
  - `notify_one` wakes the first entry that still holds a waker.
  - `notify_any` looks only at the first occupied entry.
  - `cancel` removes an entry, and passes its notification on if it had already been taken.
- **Mutex** (`async-cortex-m/src/unsync/mutex.rs`).
  - `Lock::poll` removes its own entry, calls `try_lock`, and on failure inserts its waker.
  - `Lock::drop` cancels its entry.
  - `MutexGuard::drop` clears `locked` and calls `notify_any`.
- **Channel** (`async-cortex-m/src/unsync/channel.rs`).
  - It is a ring buffer of NTASKS slots with `usize` cursors `read` and `write`, plus one registry per direction.
  - `try_send` and `try_recv` test `write < read + cap` and `write > read`. They move a message, advance a cursor with `wrapping_add`, call `notify_one` on the other side, and signal.
  - `Send::poll` and `Recv::poll` remove their entry, try the operation, and on failure insert.
  - Neither future (`Send`, line 46; `Recv`, line 91) has a `Drop` impl. The FIXME at line 20 is about a destructor for `Channel` itself, not these futures.
- **Drivers** (`nrf52/src`).
  - The RTC timer, UARTE serial and TWIM drivers store a waker in a static.
  - Each unmasks a one-shot interrupt that wakes the stored waker and masks itself.
- **abort/panic**: `cortex-m-udf` and `panic-udf` execute UDF.

The parts interact through the ready flags:
- a future's poll (its own yield, a notify in the Mutex or Channel, a spawn) sets flags;
- an interrupt handler sets the flag of the task whose waker it holds;
- `block_on` polls the tasks whose flags are set.

## Modules

| Module | Models | State | Actions |
|---|---|---|---|
| `Scheduler` | the contract of the executor (spec 4.3, 5) | phase, ntasks, ready, armed, pollbit | Spawn, BlockOn, Poll(t), Interrupt(t) |
| `Executor` | `block_on`, `spawn`, the waker, `r#yield`, the ARM and RISC-V wfi hooks, driver interrupts | `inBlockOn`, `ntasks`, `ready`, loop position `pc`, `i`, `len` (snapshot A), `woken` (task_woken), `event` (event register / TASK_READY), `armed` | Spawn, BlockOn, PollMain, SkipMain, PollTask, SkipTask, EndRound, WaitForEvent, Interrupt(t) |
| `WakerSet` | `Inner` of waker_set.rs as operators on a registry value | entries (task / None / Vacant), notifiable | Insert, Remove, Take, NotifyOne, NotifyAny, Cancel |
| `Mutex` | Mutex, Lock, MutexGuard used by main + NSPAWN tasks | ready, tpc, key (opt_key), locked, wakers, oom (insert's panic) | StartLock, RetryLock, CancelLock (Lock::drop), Release (guard drop, then yield or relock), SpuriousWake |
| `Timer` | timer.rs: Timer::wait, Wait::poll, has_expired, the RTC0 handler, used by block_on's main future | RTC `counter`, `cc`, `evt` (EVENTS_COMPARE[0]), NVIC `masked`, static `waker`, main's `ready`, `wpc`, `now`, `ticks`, ghosts `elapsed`, `dangling` | StartWait (mask, read counter, reset event), ArmCompare (write CC, first poll), RetryWait, DropWait, Finish (block_on returns), Tick, RTC0, SpuriousWake |
| `Channel` | Channel, Send, Recv used by senders and receivers | ready, tpc, key, buf, read, write, sendW, recvW, aborted, ghost q, nsent | StartSend, RetrySend, StartRecv, RetryRecv, DropFuture, SpuriousWake, Halted |
| `Serial` | serial.rs: Read::poll, Write::poll, write()'s chunk loop, the UARTE0_UART0 handler; a reader task R and a writer task W | `rstate`, `wstate` (future state), `rxBusy`, `txBusy` (DMA running), `endrx`, `endtx` (END events), NVIC `pend` and `masked`, `rxWaker`, `txWaker` (RX_WAKER/TX_WAKER is Some), `chunks`, `ready` | StartRead, PollRead, StartWrite, PollWrite (the done branch goes on to the next chunk), RxEnd, TxEnd (DMA), UARTE0_UART0, SpuriousWake |
| `Clock` | 9-clock.rs: the console (block_on's main future) running `date`, `set date` and `set time` through ds3231.rs, and the sensor task polling scd30.rs, sharing the TWIM behind an unsync Mutex | `at` (block_on's loop position), `ready`, `pc` per task, `cmd`, `key`, `locked`, `wakers`, the running exchange `xfer`/`xdone`/`xok`, the SCD30's data-ready `fresh`, the DS3231 registers `chip`, `halted`, ghost `expect` | ConsoleSerial, ConsoleLock, ConsoleDone, SensorLock, SensorDataReady, SensorMeasured, SensorError, TwimEnd, NewData, SerialEvent |
| `MCDrivers` | 8-sensor.rs's drivers: the Serial reader and writer beside the Twim task, one core, one program (a TWIM panic stops both) | the variables of Serial and Twim | the actions of both, Serial's only while the program runs |
| `Twim` | twim.rs: Read, Write and WriteThenRead futures, the TWIM handler; one task looping on transactions, which may mem::forget a pending future | `tpc`, `kind`, `busy` (transfer running), `stopping` (STOP issued, STOPPED to come), events `error`, `stopped`, `rxstarted`, `txstarted`, NVIC `pend` and `masked`, `waker` (WAKER is Some), `ready`, `halted`, ghost `raised` | Start (first poll, with the cleanup of a forgotten transfer), Poll (ErrorPath, StoppedPath, spurious re-arm), Forget, TransferEnd (STOPPED or ERROR), StopEnd, TWIM0, SpuriousWake, Halted |

`MCExecutor`, `MCMutex`, `MCChannel` and `MCTimer` instantiate the models for TLC. `MCDrivers` composes `Serial` and `Twim` (each through `INSTANCE`, with its NVIC variables renamed apart) and is checked with `MCDrivers.cfg`. `Twim` alone is checked with `MCTwimStaleError.cfg`, and `Clock`, whose only constant is `Hour12`, with `MCClock.cfg` and `MCClockHour12.cfg`.

### How the models correspond to the code

**Executor.**
- A poll is one step: `PollWakes` clears the polled flag first, then sets the flags its wakes reach.
- What the user future does in a poll is chosen from what the runtime allows (`Pending`):
  - stay pending;
  - yield, which sets its own flag and the latch;
  - arm a driver interrupt;
  - wake another task;
  - spawn.
- `PollAborts` covers the abort paths. `MainReady` covers main's completion.
- Interrupts interleave with every foreground step.
- The platform is a constant. `IsrLatch` and `LatchAfterSkip` say what an interrupt and a non-sleeping `wait_for_event` leave in the latch on each platform.

**Mutex and Channel.**
- In the Mutex, `insert` into a full slab is the `expect("OOM")` panic: `oom` is set and nothing runs after it.
- The tasks are polled as `Scheduler` allows: a poll needs the task's flag, and clears it before running.
- The payload of a message is the sender's id, which is enough to check order.
- `usize` is `Width` bits wide, and additions wrap as in a release build.
- The ghost queue `q` holds the messages sent and not yet received.

**Timer.**
- The RTC is hardware that runs on its own clock, so `Tick` interleaves with every foreground step.
- `wait()` is split at the event reset. Its register accesses before that point (mask, read the counter, reset the event) are one step. Writing CC and the first poll of the new Wait are the next step.
- RTC0 can run whenever the event is set and the interrupt is unmasked. Such a pending interrupt preempts thread mode at once (the NVIC latches it), so no foreground step is taken while it is pending (`RTC0Pending`).
- `Wait::installed_waker` is initialised to false and never assigned. Every poll therefore takes the `!installed_waker` branches: a Pending poll stores the waker in WAKER and unmasks RTC0, and an expired poll only returns Ready. The uninstall (mask, `WAKER.take()`) and the re-arm branch are dead code, and the model has no installed flag. WAKER is never cleared; it keeps the waker of the last Wait.

**Serial.**
- A poll of a Read or Write is one step. Inside a poll the interrupt is masked around every access to a waker, so the handler cannot run in the middle; where it could (before the mask), running it just before the step has the same effect.
- The interrupt line is the OR of ENDRX and ENDTX, both enabled in INTEN by `init`. The NVIC pending bit latches while the line is high, even when the interrupt is masked. Taking the interrupt clears the bit, and the line sets it again on exit if an event is still high.
- RX_WAKER always holds the reader's waker and TX_WAKER the writer's, so each is a boolean.
- After a completed read or write, the task's loop goes on to its next call with its flag still set.

**Twim.**
- A poll is one step; it runs with the interrupt masked where it touches WAKER.
- The transfer is abstracted to whether all bytes moved. `busy` is the current transfer still running: a poll that completes on a STOPPED while `busy` reads a short AMOUNT (ShortRead/ShortWrite).
- A transfer ends with STOPPED (the LASTRX_STOP / LASTTX_STOP short) or with ERROR (a NACK). Nothing in the code triggers STOP after an ERROR, so none follows it.
- The STOP a first poll triggers on a forgotten transfer takes effect on the bus later (`StopEnd`). The code writes the new start a few instructions after the STOP, well before a STOP condition (about 10 us at 100 kHz) completes.
- WriteThenRead sets both STARTED events, because the code tests and resets them only together or per kind.
- The ghost `raised` holds the events the current transfer raised. It changes no behaviour.

**Clock.**
- block_on's loop alternates: `Loop` looks at the main future (the console), then at the one spawned task (the sensor), and polls whichever has its flag set, clearing it first. The heartbeat task only touches the Timer and the LED and is left out.
- A poll runs up to the task's next await. The console's DS3231 call locks the mutex (`Acquire`, which is `Lock::poll` with `remove` and `try_lock`, or `insert` of the waker) and starts its one TWIM exchange in the same poll; `ConsoleDone` is the poll after the TWIM handler woke it: the guard (a temporary of the statement) is dropped on Ok and on `?` alike, and `date` decodes the registers with `time_from_regs`, whose `from_hms` panics on an invalid time.
- The sensor's `data_ready` drops its guard and calls `lock()` again in the same poll; `try_lock` succeeds because nothing ran in between. Only after a measurement does the task `r#yield`, which is what lets the console's pending Lock take the mutex.
- A TWIM exchange (`TwimEnd`) ends with or without an error; an acknowledged `set_date`/`set_time` write lands in the DS3231's registers, and reading a measurement clears the SCD30's data-ready status. `NewData` is the SCD30 producing a measurement; `SerialEvent` is the UARTE waking the console.
- `from_bcd`, `to_bcd`, `time_from_regs`, `date_from_regs`, `set_date_regs` and `set_time_regs` translate ds3231.rs. The chip's initial registers (`ChipRegs`) are written from the DS3231 datasheet (BCD, HOUR12/PM with hours 1..12, CENTURY), independently of the driver, so a decoding error shows.
- Not modelled in Clock: the chip counting time (the property compares with what was last written, so the clock must not advance), the `sensors` and `help` answers (serial output only), and the write and read of each SCD30 query as two TWIM calls (one exchange here, with the guard held over both as in the code).

## Runs

| Run | Config | Expect | What it shows |
|---|---|---|---|
| executor_arm | MCExecutor.cfg | pass | ARM: TypeOK; no sleep with a flag set; every woken task is polled again; an idle executor sleeps; Executor refines Scheduler |
| executor_riscv_lost_wake | MCExecutorRiscvLostWake.cfg | violation | RISC-V wfi: an interrupt between the scan and WFI is lost (SleepOnlyWhenIdle) |
| mutex | MCMutex.cfg | pass | no lost wakeup through lock, cancel and release; `notifiable` stays exact; insert never finds the three-slot registry full (NoRegistryOOM) |
| channel | MCChannel.cfg | pass | with futures dropped: the cursor tests and slot contents match the messages in flight (FIFO); no wakeup is lost in either direction while every registry entry belongs to a pending future; leaked entries reach insert's OOM panic (the Halted step fires) |
| channel_drop_lost_wakeup | MCChannelDropLostWakeup.cfg | violation | a dropped Recv keeps the notification a waiting receiver needed |
| timer | MCTimer.cfg | pass | every pending Wait ends, through spurious wakes and with dropped Waits (WaitEventuallyReturns) |
| timer_early | MCTimerEarly.cfg | violation | the old CC matches between the event reset and the CC write: wait() returns early |
| timer_dangling | MCTimerDangling.cfg | violation | a dropped Wait leaves block_on's waker armed; RTC0 writes the dead flag after block_on returns |
| drivers | MCDrivers.cfg | pass | the UARTE reader and writer beside a TWIM task that forgets futures: a UARTE task waiting on a transfer always has its waker stored and the shared interrupt unmasked (WaiterArmed); TWIM's interrupt is never unmasked without a waker; every transaction returns or the program panics (WriteThenRead's short return reaches Drop's `todo!()`); every write() and every filled read() returns unless the program panicked |
| clock | MCClock.cfg | pass | 24-hour RTC: `date` shows exactly the last date and time set (DateShowsLastSet); every RTC command returns although the sensor task polls the shared TWIM without pause (RtcCommandReturns); the console's commands never keep the sensor from reading a new measurement (MeasurementEventuallyRead) |
| clock_hour12 | MCClockHour12.cfg | violation | 12-hour RTC: `date` decodes an hour of 40 or more and `from_hms` panics |
| twim_stale_error | MCTwimStaleError.cfg | violation | after one NACK, the next transaction returns the old Err while its own transfer runs |

Every property of a passing run has a mutant in `PROJECT.json`. A mutant is a plausible bug in the mapped code, and TLC finds the property violated under it:

| Mutant | Property it breaks |
|---|---|
| the spawn capacity test off by one | TypeOK |
| WFE that ignores the latch | SleepOnlyWhenIdle |
| WFE that does not consume the event | SleepsWhenIdle |
| the flag cleared after the poll | WakeEventuallyPolled |
| the scan polling without testing the flag | SchedulerRefinement |
| `remove` decrementing for a taken waker | TypeOK |
| `cancel` not passing the notification on | NoLostWakeup (Mutex) |
| Lock::poll removing its stale entry only on the way to Pending | NoRegistryOOM |
| `notify_any` without the count | NotifiableCount |
| the full test `<=` | RingBufferExact |
| `notify_one` stopping at the first occupied entry | NoLostWakeupUnlessLeaked |
| the first poll not unmasking RTC0 | WaitEventuallyReturns |
| a completed read leaving the shared interrupt masked | WaiterArmed |
| the handler waking TX only when there is no RX waker (`else if`) | WriteCompletes |
| a completed write not unmasking for a pending read | ReadCompletes |
| TWIM: WAKER taken without masking first | UnmaskedOnlyWithWaker |
| TWIM: a spurious poll not re-arming the interrupt | TransactionReturns |
| `to_bcd` shifting the tens digit by 3 bits | DateShowsLastSet |
| the sensor task going on after a measurement without `r#yield` | RtcCommandReturns |
| the console's guard dropped without `notify_any` | MeasurementEventuallyRead |

## Bounds and why they suffice

- **Executor:** NTASKS = 3 (58240 states, 11 s; NTASKS = 4 takes over two minutes per check).
  - That is up to three spawned tasks, the later ones spawned during a poll while the scan runs, so a task spawned beyond the snapshot sits behind another task still to be polled in the same round.
  - It covers spawn beyond the snapshot, spawn on a full table, and an interrupt at every loop position.
- **Mutex:** NTASKS = 3, NSPAWN = 3 (four tasks, three registry keys).
  - That is enough for one holder and three waiters.
  - It is enough for key reuse below a notified entry, which is the notify_any case.
  - It is enough for cancel of a notified waiter with another waiter behind it.
- **Channel:** NTASKS = 3, two senders and two receivers.
  - Both sides can have two waiters, so `notify_one` must choose.
  - `Width` = 4 and `MaxSends` = 5 keep the cursors below 2^Width, so RingBufferExact is checked away from the wrap. At the wrap it fails: with two slots and Width = 2, read = write = 2 makes `read + cap` wrap to 0 and an empty channel reads full. This is the numeric_edge hazard at `channel.rs:158`.

- **Timer:** an 8-value counter and waits of 0, 1 and 2 ticks.
  - The old CC can lie one tick ahead of a new wait, which is the early-return case.
  - A 0-tick wait must go through a full wrap.
  - Initially counter = CC = 0, as after init.

- **Serial:** up to 3 chunks per write() (a slice outside RAM of up to 384 bytes).
  - A chunk can complete while a read is in any state, including while its END event is pending and the interrupt is masked.
  - Every interleaving of the two tasks, both DMA engines and the handler is explored. The state space is small (106 states) because each direction has few states, not because cases are cut.

- **Twim:** one task, three transaction kinds, no numeric bound.
  - All three kinds can follow one another. A forgotten Write can be followed by a Read, which leaves TXSTARTED set and makes the next first poll clean up again.
- **Drivers:** Serial and Twim composed give 45792 states; every interleaving of the two drivers' tasks, DMA ends and handlers is explored.
- **Clock:** dates 2000-01-01, 2099-12-31 and 2100-02-28 and times 00:00:00, 12:34:56 and 23:59:59.
  - These are the digit boundaries of BCD (9/10, 59, 99 → 00), both sides of the CENTURY bit, and the hours 0, 12 and 23 that the 12-hour form encodes differently (12 AM, 12 PM, 11 PM).
  - Two Lock keys suffice: at most the two tasks wait. 10962 states.

## Fairness

- **Executor:** `WF_vars(Foreground)`. The foreground loop runs whenever the core is not asleep. Nothing is assumed of interrupts or of user code outside `block_on`.
- **Timer:**
  - `WF` on Tick, because `init` starts the RTC and it never stops.
  - `WF` on RTC0, because an unmasked pending interrupt is taken.
  - `WF` on the foreground, because block_on polls main while its flag is set.
- **Serial:**
  - `WF` on each task's poll (the executor).
  - `WF` on UARTE0_UART0 (an unmasked pending interrupt is taken).
  - `WF` on TxEnd (TX at a fixed baud rate always ends).
  - RxEnd has no fairness: it needs the peer to send, so ReadCompletes only claims that a read returns once its buffer has filled.
- **Twim:**
  - `WF` on the task (the executor polls it while its flag is set).
  - `WF` on the handler.
  - `WF` on TransferEnd and StopEnd: an I2C transfer ends, with STOPPED or with a NACK, in bounded time. A device that stretches the clock forever is outside the model.
- **Clock:** `WF` on the loop (block_on runs), on TwimEnd (an I2C exchange ends) and on NewData (the SCD30 measures every two seconds). SerialEvent gets none: the user may never type, and MeasurementEventuallyRead must hold whether the user types forever or never. The sensor task needs no fairness of its own: the loop's round-robin between main and the task is in the action.
- **Drivers:** the Serial and Twim fairness above, conjoined.
- **Mutex and Channel:** `WF_vars(Poll(t))` for every task. This is what `Scheduler` promises, and what executor_arm checks the executor delivers.

## Findings

- **RISC-V wfi lost wakeup** (`async-embedded/src/lib.rs:94-98`).
- **The DS3231 12-hour form panics `date`** (`ds3231.rs:129-140`). `time_from_regs` keeps the HOUR12 bit in the byte it decodes (and for PM adds 12 to the raw BCD byte), so any 12-hour value gives an hour of 40 or more and `NaiveTime::from_hms` panics; 9-clock stops. clock_hour12 reaches it from an RTC holding 00:00:00 as 12 AM (0x52, read as 52).
- **Send/Recv without Drop: lost wakeups and registry OOM** (`channel.rs:46,91`, `waker_set.rs:138`).
- **Timer::wait can return early** (`timer.rs:126-128`): the event is reset before the new CC is written.
- **A dropped Wait leaves block_on's waker in WAKER** (`timer.rs:81`): after block_on returns, RTC0 stores into a dead stack slot.
- **One NACK breaks every later TWIM transaction** (`twim.rs:183-195`, likewise 375-389 and 552-564). The ERROR path resets STOPPED and the STARTED events but not ERROR. The next first poll therefore skips its cleanup, starts the new transfer with ERROR still set, and returns the old Err while the DMA still owns the new buffer.

Also seen while modelling, and listed as hazards in `PROJECT.json` rather than as runs:
- With riscv-wait-wfi-single-hart TASK_READY is never cleared once set, so the core never sleeps again: SleepsWhenIdle fails with `Platform = "riscv"` (`lib.rs:95-97`).
- 9-clock's `sensors` command never reads `state`: after an I2C error it prints the last measurement as current (`9-clock.rs:175-186`).
- `write()` of a RAM slice of 1024 bytes or more panics on `write_from_ram`'s assert, while a slice outside RAM is sent in 128-byte chunks (`serial.rs:230-241,349`).
- scd30's `crc_check` is a TODO that returns true (`scd30.rs:96-99`): a corrupted frame is stored as a measurement, and the Checksum error is unreachable.
- `notify_any` can issue a second notification while one is in flight (`waker_set.rs:128`). This contradicts spec 4.4, but it costs only a spurious poll.
- The cursor tests break at the usize wrap (`channel.rs:133,158`); see Bounds.
- After a forgotten TWIM future, the late STOPPED of the aborted transfer can complete the next transaction. If that transaction is a WriteThenRead, its short return skips `state = Finished` and Drop's `todo!()` panics. The drivers run reaches this panic (its Halted step fires); TransactionReturns admits it, and no run states that the program never panics.

## Not modelled (yet)

- TWIM: buffer lengths and AMOUNT beyond complete/short, ERRORSRC, the copy of a non-RAM slice (no control), the length asserts, and `take()`'s singleton check.
- Serial: the empty-buffer branches (no state change), dropping a transfer in progress (`todo!()`), and `take()`'s singleton check.
- The bump allocator: `alloc.rs` is not in the sources.
- ds3231's `get_date` and `get_time` (unused by the examples; the same shape as `get_datetime`), scd30's payload decoding and CRC stub, and led.rs (GPIO writes).
- 9-clock's heartbeat task and 8-sensor's console output: they share no state with the modelled parts but the executor.
- DMA memory safety of forgotten futures, which is outside TLC's reach.
- `riscv-wait-nop` and `riscv-wait-extern`.
- The small example programs 1-yield, 2-share, 3-mutex and 4-channel (spec section 8, scenarios 1-3). Each is a single deterministic path: main and one task, with no interrupts and no input. Their "Expected output" follows from the round order that executor_arm checks (main first, then the tasks in order, a yield re-polled in the next round), together with the Mutex and Channel hand-offs that the mutex and channel runs check.
- nrf52's `pre_init` (clock start and driver `init`s, which run before main) and `Executor::current`'s lazy initialisation and thread-mode check. The models' Init is the state these leave.

## Plan

1. Done: **Timer**.
2. Done: **Serial**. Read and Write share one interrupt and two wakers. Properties: WriteCompletes and ReadCompletes.
3. Done: **TWIM**. Properties: UnmaskedOnlyWithWaker, TransactionReturns and ResultIsOwn (violated).
4. Done: **Clock** (9-clock with the DS3231 and SCD30 drivers) and **Drivers** (Serial beside Twim).
5. Done: the sensor's progress against the console (MeasurementEventuallyRead), and the executor checked with three task slots.
6. Open: a composition of Channel with the Executor loop, in place of the Scheduler abstraction, for example 4-channel; the heartbeat Timer task composed into Clock, which needs a smaller Clock instance to stay within TLC's reach.
