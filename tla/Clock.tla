------------------------------- MODULE Clock -------------------------------
(***************************************************************************)
(* The interactive clock (nrf52 examples/9-clock.rs): two tasks share the  *)
(* TWIM behind an unsync::Mutex.  The sensor task (spawned) loops on       *)
(* Scd30::get_measurement, which polls data_ready (lock, a write and a     *)
(* read, unlock) until the SCD30 has a new measurement, reads it the same  *)
(* way and then yields.  The console (the block_on future) reads commands  *)
(* from the serial port; `date`, `set date` and `set time` call the        *)
(* DS3231 driver (ds3231.rs), which locks the mutex and runs one TWIM      *)
(* exchange whose bytes it decodes or encodes in BCD.                      *)
(*                                                                         *)
(* A TWIM exchange is one step here: started by the poll that takes the   *)
(* lock, ended by the bus, which wakes the lock holder through the TWIM    *)
(* handler (the Twim module checks that part).  The executor polls the     *)
(* main future first and then the spawned tasks in order, as block_on      *)
(* does (the Executor module checks that loop); the heartbeat task, which *)
(* shares nothing with the others, is left out.  The DS3231's registers    *)
(* are state; the chip's own counting is not (time does not pass).         *)
(***************************************************************************)
EXTENDS Integers, Bitwise

CONSTANT Hour12   \* the DS3231 may hold its time in 12-hour form at start

ASSUME Hour12 \in BOOLEAN

Tasks == {"console", "sensor"}
Keys  == 0..1          \* at most two Lock futures wait; NTASKS = 8 slots
NoKey == -1

WS == INSTANCE WakerSet WITH None <- "none", Vacant <- "vacant"

(* Inputs Command::from_str accepts: dates of 2000..2199 and times, with  *)
(* the century and digit boundaries.                                       *)
Dates == {[y |-> 2000, mo |-> 1, d |-> 1], [y |-> 2099, mo |-> 12, d |-> 31],
          [y |-> 2100, mo |-> 2, d |-> 28]}
Times == {[h |-> 0, m |-> 0, s |-> 0], [h |-> 12, m |-> 34, s |-> 56],
          [h |-> 23, m |-> 59, s |-> 59]}
Commands == [op : {"date"}] \cup [op : {"set_date"}, arg : Dates]
              \cup [op : {"set_time"}, arg : Times]
-----------------------------------------------------------------------------
(* The DS3231 register layout (datasheet): BCD digits, HOUR12 and PM in   *)
(* the hours register (hours 1..12 in 12-hour form), CENTURY in the month  *)
(* register.  Written from the datasheet, independently of the driver.     *)
HOUR12  == 64
PM      == 32
CENTURY == 128

Bcd(x) == 16 * (x \div 10) + (x % 10)

(* The registers of a chip holding date d and time t, in 24- or 12-hour   *)
(* form.                                                                   *)
ChipRegs(d, t, f) ==
  [sec |-> Bcd(t.s), min |-> Bcd(t.m),
   hour |-> IF f = 24 THEN Bcd(t.h)
            ELSE HOUR12 + (IF t.h >= 12 THEN PM ELSE 0)
                 + Bcd(IF (t.h % 12) = 0 THEN 12 ELSE t.h % 12),
   date |-> Bcd(d.d), month |-> Bcd(d.mo) + (IF d.y >= 2100 THEN CENTURY ELSE 0),
   year |-> Bcd(d.y % 100)]
-----------------------------------------------------------------------------
(* The driver's conversions (ds3231.rs).                                   *)
from_bcd(bcd) == 10 * (bcd \div 16) + (bcd & 15)

(* Mutant: the tens digit shifted by three bits instead of four.           *)
to_bcd_shift3(x) == ((x \div 10) * 8) | (x % 10)

to_bcd(x) == ((x \div 10) * 16) | (x % 10)

(* The hours register in 12-hour PM form is read as from_bcd(12 + (r & !PM)). *)
time_from_regs(r) ==
  [h |-> IF r.hour & HOUR12 # 0 /\ r.hour & PM # 0
           THEN from_bcd(12 + (r.hour & (255 - PM)))
           ELSE from_bcd(r.hour),
   m |-> from_bcd(r.min), s |-> from_bcd(r.sec)]

date_from_regs(r) ==
  [y  |-> from_bcd(r.year) + IF r.month & CENTURY # 0 THEN 2100 ELSE 2000,
   mo |-> from_bcd(r.month & (255 - CENTURY)), d |-> from_bcd(r.date)]

(* NaiveTime::from_hms panics on an invalid time.                          *)
ValidTime(t) == t.h < 24 /\ t.m < 60 /\ t.s < 60

(* set_date: day, month | CENTURY, year, from DATE on.                     *)
set_date_regs(c, d) ==
  LET y == d.y - 2000
  IN  [c EXCEPT !.date = to_bcd(d.d),
                !.month = to_bcd(d.mo) | (IF y >= 100 THEN CENTURY ELSE 0),
                !.year = to_bcd(IF y >= 100 THEN y - 100 ELSE y)]

(* set_time: seconds, minutes, hours (24-hour form), from SECONDS on.      *)
set_time_regs(c, t) ==
  [c EXCEPT !.sec = to_bcd(t.s), !.min = to_bcd(t.m), !.hour = to_bcd(t.h)]
-----------------------------------------------------------------------------
VARIABLES
  at,      \* block_on's loop: about to look at the main future or at the task
  ready,   \* the ready flags
  pc,      \* pc.console: "serial" (at a serial await), "lock" (Lock pending),
           \* "xfer" (holding the guard, exchange running); pc.sensor: "top"
           \* (loop top, after the yield), "lock", "ready_xfer", "meas_xfer", "error"
  cmd,     \* the console's RTC command
  key,     \* Lock::opt_key of each task
  locked,  \* Mutex::locked
  wakers,  \* Mutex::wakers
  xfer,    \* the task whose TWIM exchange runs or has ended, or "none"
  xdone,   \* that exchange has ended and woken its task
  xok,     \* it ended without an error
  fresh,   \* the SCD30 holds a measurement not yet read (data-ready status)
  chip,    \* the DS3231 registers
  expect,  \* ghost: the date and time last set, or held at start
  halted   \* a panic stopped the program (panic-udf)

vars == <<at, ready, pc, cmd, key, locked, wakers, xfer, xdone, xok, fresh,
          chip, expect, halted>>

Init ==
  /\ at = "main"
  /\ ready = [t \in Tasks |-> TRUE]
  /\ pc = [console |-> "serial", sensor |-> "top"]
  /\ cmd = [op |-> "date"]
  /\ key = [t \in Tasks |-> NoKey]
  /\ locked = FALSE /\ wakers = WS!Empty
  /\ xfer = "none" /\ xdone = FALSE /\ xok = TRUE
  /\ fresh = FALSE
  /\ \E d \in Dates, t \in Times, f \in IF Hour12 THEN {24, 12} ELSE {24} :
       chip = ChipRegs(d, t, f) /\ expect = [date |-> d, time |-> t]
  /\ halted = FALSE

(* Flags after a poll of t that woke the tasks in W.                       *)
AfterPoll(t, W) == [x \in Tasks |-> x \in W \/ (ready[x] /\ x # t)]

(* Lock::poll by t: remove t's entry and try_lock.  On success the first   *)
(* poll of the driver's exchange starts the TWIM transfer and t goes to s; *)
(* otherwise t's waker is inserted.  Pending either way.                   *)
Acquire(t, s) ==
  LET ws == IF key[t] \in Keys THEN WS!Remove(wakers, key[t]) ELSE wakers
  IN  \/ /\ ~locked
         /\ locked' = TRUE /\ wakers' = ws
         /\ key' = [key EXCEPT ![t] = NoKey]
         /\ pc' = [pc EXCEPT ![t] = s]
         /\ xfer' = t
      \/ /\ locked
         /\ \E k \in WS!FreeKeys(ws) :
              wakers' = WS!Insert(ws, k, t) /\ key' = [key EXCEPT ![t] = k]
         /\ pc' = [pc EXCEPT ![t] = "lock"]
         /\ UNCHANGED <<locked, xfer>>

(* The console at a serial await: a complete `date`, `set date` or `set   *)
(* time` line calls the DS3231 driver, which calls lock(); other input     *)
(* (help, sensors, an invalid or partial line) only awaits serial I/O.     *)
ConsoleSerial ==
  /\ pc.console = "serial"
  /\ \/ \E c \in Commands : cmd' = c /\ Acquire("console", "xfer")
     \/ UNCHANGED <<cmd, pc, key, locked, wakers, xfer>>
  /\ ready' = AfterPoll("console", {})
  /\ UNCHANGED <<xdone, xok, fresh, chip, expect, halted>>

ConsoleLock ==
  /\ pc.console = "lock"
  /\ Acquire("console", "xfer")
  /\ ready' = AfterPoll("console", {})
  /\ UNCHANGED <<cmd, xdone, xok, fresh, chip, expect, halted>>

(* Mutant: the guard is dropped without notify_any.                       *)
ConsoleDoneNoNotify ==
  /\ pc.console = "xfer" /\ xdone
  /\ UNCHANGED wakers /\ ready' = AfterPoll("console", {})
  /\ IF xok /\ cmd.op = "date" /\ ~ValidTime(time_from_regs(chip))
       THEN halted' = TRUE /\ UNCHANGED pc
       ELSE pc' = [pc EXCEPT !.console = "serial"] /\ UNCHANGED halted
  /\ expect' = CASE xok /\ cmd.op = "set_date" -> [expect EXCEPT !.date = cmd.arg]
                 [] xok /\ cmd.op = "set_time" -> [expect EXCEPT !.time = cmd.arg]
                 [] OTHER -> expect
  /\ locked' = FALSE /\ xfer' = "none" /\ xdone' = FALSE /\ xok' = TRUE
  /\ UNCHANGED <<cmd, key, fresh, chip>>

(* The exchange has ended.  The guard, a temporary of the statement, is    *)
(* dropped (locked := false, notify_any), on `?` too.  get_datetime       *)
(* decodes the registers: the time first (from_hms panics on an invalid   *)
(* one), then the date.  The console writes its answer and is back at a   *)
(* serial await.                                                           *)
ConsoleDone ==
  /\ pc.console = "xfer" /\ xdone
  /\ LET r == WS!NotifyAny(wakers)
     IN  /\ wakers' = r.reg
         /\ ready' = AfterPoll("console", r.woken)
  /\ IF xok /\ cmd.op = "date" /\ ~ValidTime(time_from_regs(chip))
       THEN halted' = TRUE /\ UNCHANGED pc
       ELSE pc' = [pc EXCEPT !.console = "serial"] /\ UNCHANGED halted
  /\ expect' = CASE xok /\ cmd.op = "set_date" -> [expect EXCEPT !.date = cmd.arg]
                 [] xok /\ cmd.op = "set_time" -> [expect EXCEPT !.time = cmd.arg]
                 [] OTHER -> expect
  /\ locked' = FALSE /\ xfer' = "none" /\ xdone' = FALSE /\ xok' = TRUE
  /\ UNCHANGED <<cmd, key, fresh, chip>>

(* The sensor at the top of its loop (first poll, or after its yield)      *)
(* calls get_measurement, whose data_ready calls lock(); or its Lock       *)
(* future is polled again.                                                 *)
SensorLock ==
  /\ pc.sensor \in {"top", "lock"}
  /\ Acquire("sensor", "ready_xfer")
  /\ ready' = AfterPoll("sensor", {})
  /\ UNCHANGED <<cmd, xdone, xok, fresh, chip, expect, halted>>

(* data_ready's exchange has ended and its guard is dropped (notify_any).  *)
(* An error ends get_measurement with Err: the task sets the Error state   *)
(* and yields forever.  Otherwise, data ready or not, the task calls      *)
(* lock() again in the same poll, for the measurement or for data_ready,  *)
(* and try_lock succeeds: nothing ran since the unlock.                    *)
SensorDataReady ==
  /\ pc.sensor = "ready_xfer" /\ xdone
  /\ LET r == WS!NotifyAny(wakers)
     IN  /\ wakers' = r.reg
         /\ IF xok
              THEN /\ pc' = [pc EXCEPT !.sensor = IF fresh THEN "meas_xfer" ELSE "ready_xfer"]
                   /\ xfer' = "sensor" /\ UNCHANGED locked
                   /\ ready' = AfterPoll("sensor", r.woken)
              ELSE /\ pc' = [pc EXCEPT !.sensor = "error"]
                   /\ locked' = FALSE /\ xfer' = "none"
                   /\ ready' = AfterPoll("sensor", r.woken \cup {"sensor"})
  /\ xdone' = FALSE /\ xok' = TRUE
  /\ UNCHANGED <<cmd, key, fresh, chip, expect, halted>>

(* Mutant: after a measurement the loop goes on without the yield.         *)
SensorMeasuredNoYield ==
  /\ pc.sensor = "meas_xfer" /\ xdone
  /\ LET r == WS!NotifyAny(wakers)
     IN  /\ wakers' = r.reg
         /\ IF xok
              THEN /\ pc' = [pc EXCEPT !.sensor = "ready_xfer"]
                   /\ xfer' = "sensor" /\ UNCHANGED locked
                   /\ ready' = AfterPoll("sensor", r.woken)
              ELSE /\ pc' = [pc EXCEPT !.sensor = "error"]
                   /\ locked' = FALSE /\ xfer' = "none"
                   /\ ready' = AfterPoll("sensor", r.woken \cup {"sensor"})
  /\ xdone' = FALSE /\ xok' = TRUE
  /\ UNCHANGED <<cmd, key, fresh, chip, expect, halted>>

(* The measurement's exchange has ended and its guard is dropped.  On Ok   *)
(* the task stores the values and yields (r#yield wakes the task itself); *)
(* on Err it sets the Error state and yields forever.                      *)
SensorMeasured ==
  /\ pc.sensor = "meas_xfer" /\ xdone
  /\ LET r == WS!NotifyAny(wakers)
     IN  /\ wakers' = r.reg
         /\ ready' = AfterPoll("sensor", r.woken \cup {"sensor"})
  /\ pc' = [pc EXCEPT !.sensor = IF xok THEN "top" ELSE "error"]
  /\ locked' = FALSE /\ xfer' = "none" /\ xdone' = FALSE /\ xok' = TRUE
  /\ UNCHANGED <<cmd, key, fresh, chip, expect, halted>>

(* `loop { task::r#yield().await }`: every poll wakes the task again.      *)
SensorError ==
  /\ pc.sensor = "error"
  /\ ready' = AfterPoll("sensor", {"sensor"})
  /\ UNCHANGED <<pc, cmd, key, locked, wakers, xfer, xdone, xok, fresh, chip,
                 expect, halted>>

(* The exchange ends on the bus (all bytes moved, or a NACK) and the TWIM  *)
(* handler wakes the lock holder.  A write the DS3231 acknowledged is in   *)
(* its registers; reading the measurement clears the SCD30's data-ready   *)
(* status.                                                                  *)
TwimEnd ==
  /\ ~halted /\ xfer # "none" /\ ~xdone
  /\ xdone' = TRUE
  /\ \E ok \in BOOLEAN :
       /\ xok' = ok
       /\ chip' = CASE ok /\ xfer = "console" /\ cmd.op = "set_date"
                         -> set_date_regs(chip, cmd.arg)
                    [] ok /\ xfer = "console" /\ cmd.op = "set_time"
                         -> set_time_regs(chip, cmd.arg)
                    [] OTHER -> chip
       /\ fresh' = (fresh /\ ~(ok /\ xfer = "sensor" /\ pc.sensor = "meas_xfer"))
  /\ ready' = [ready EXCEPT ![xfer] = TRUE]
  /\ UNCHANGED <<at, pc, cmd, key, locked, wakers, xfer, expect, halted>>

(* The SCD30 has a new measurement (every two seconds).                    *)
NewData ==
  /\ ~halted /\ ~fresh
  /\ fresh' = TRUE
  /\ UNCHANGED <<at, ready, pc, cmd, key, locked, wakers, xfer, xdone, xok,
                 chip, expect, halted>>

(* The UARTE handler wakes the console: a byte arrived or was sent.  The   *)
(* user may never type, so this gets no fairness.                          *)
SerialEvent ==
  /\ ~halted /\ pc.console = "serial" /\ ~ready.console
  /\ ready' = [ready EXCEPT !.console = TRUE]
  /\ UNCHANGED <<at, pc, cmd, key, locked, wakers, xfer, xdone, xok, fresh,
                 chip, expect, halted>>

PollConsole == ConsoleSerial \/ ConsoleLock \/ ConsoleDone
PollSensor  == SensorLock \/ SensorDataReady \/ SensorMeasured \/ SensorError

(* One step of block_on's loop: poll the main future if its flag is set    *)
(* (clearing it first), then the spawned task likewise.  With neither set  *)
(* the core waits for an event (the Executor module shows it wakes).       *)
Loop ==
  /\ ~halted
  /\ \/ /\ at = "main" /\ at' = "sensor"
        /\ IF ready.console THEN PollConsole
           ELSE UNCHANGED <<ready, pc, cmd, key, locked, wakers, xfer, xdone,
                            xok, fresh, chip, expect, halted>>
     \/ /\ at = "sensor" /\ at' = "main"
        /\ IF ready.sensor THEN PollSensor
           ELSE UNCHANGED <<ready, pc, cmd, key, locked, wakers, xfer, xdone,
                            xok, fresh, chip, expect, halted>>

(* After a panic nothing runs: panic-udf executes UDF (the program stops). *)
Next == Loop \/ TwimEnd \/ NewData \/ SerialEvent

(* The core runs the loop; a TWIM exchange ends in bounded time; the SCD30 *)
(* produces a measurement every two seconds.                                *)
Spec == Init /\ [][Next]_vars /\ WF_vars(Loop) /\ WF_vars(TwimEnd) /\ WF_vars(NewData)
-----------------------------------------------------------------------------
(* `date` shows what was set: a get_datetime whose exchange succeeded      *)
(* returns, without a panic, the date and time last stored by set_date     *)
(* and set_time (or held since start), through the driver's BCD encoding,  *)
(* the chip's registers and the driver's decoding.                         *)
DateShowsLastSet ==
  [][ConsoleDone /\ xok /\ cmd.op = "date"
       => /\ ~halted'
          /\ [date |-> date_from_regs(chip), time |-> time_from_regs(chip)] = expect]_vars

(* A `date`, `set date` or `set time` command gets the TWIM and returns,   *)
(* although the sensor task re-locks the mutex in the same poll that      *)
(* unlocks it while it waits for data; the yield after each measurement   *)
(* (9-clock.rs:103, "avoids starving the task below") lets the console in. *)
RtcCommandReturns == pc.console \in {"lock", "xfer"} ~> pc.console = "serial"

(* The console never starves the sensor: a measurement the SCD30 has made  *)
(* is eventually read by the sensor task, unless that task stopped on an   *)
(* I2C error or the program panicked.  It needs the guard drop of every    *)
(* RTC command to notify the sensor's pending Lock, and block_on to poll   *)
(* the sensor before the console can lock again.                           *)
MeasurementEventuallyRead ==
  fresh ~> (~fresh \/ pc.sensor = "error" \/ halted)
=============================================================================
