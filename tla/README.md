# A verification project for the QNX ADAS sensor aggregator

The repository holds four generations of a sensor aggregation demo for QNX
Neutrino (v1 to v4, and an earlier stand-alone `sensor_system.c`), and a small
web dashboard. All of them have the same shape: threads that play sensors send
samples, one or more servers collect them, and somebody watches that the data
is fresh and that the sources are alive. This project models their control:
threads, messages, locks, timers and signals. Paths below are relative to
`src/QNX/src/` unless they start with `src/`.

## 1. Inventory

| Component | Source | State | Operations | Talks to |
|---|---|---|---|---|
| v4 session, orchestrator | `v4_scaling/src/system/orchestrator_8core.c` | `g_keep_running`, thread handles | create six threads in order, catch SIGINT/SIGTERM, join the central thread, end the process | every thread, through the flag |
| v4 session, zonal aggregators | `v4_scaling/src/core/zonal_aggregator.c` | `raw_msg_count`, `dropped_frames` per thread; static `state_mutex`, `sensor_drift_active` shared by all | attach a name, receive, lock, throttle or cluster, unlock, reply, detach | the generator (synchronous messages), each other (the mutex) |
| v4 session, fleet generator | `v4_scaling/src/sensors/fleet_generator.c` | connections, `cycle_count`, loop index | connect to every zone, sweep over 100 sensors, inject a power failure and a clock lag, send | the aggregators |
| v4 session, fusion engine | `v4_scaling/src/core/fusion_engine.c` | `last_zone_seen`, `zone_failed_state`, timer | attach, watchdog pulse, zone summary, reply, detach | the kernel timer; the zones (in the design: no zone sends to it) |
| v4 built variant | `v4_scaling/{core,sensors,system}`, which `v4_scaling/Makefile` builds | as above without the shutdown flag and the failed latch, plus a UDP socket | the same, and datagrams to the dashboard | the dashboard |
| v3 process | `v3_adas/` | channel ids, sensor weights, heartbeat times | two servers create channels, three sensors connect to channel 1 and send | each other, by messages |
| v2 process | `v2_adas_multicore/adas_qnx_system.c` | global channel id and run flag | one server, four clients | each other, by messages |
| v1 channel | `v1_sensor_heavy/sensor_heavy.c`, the same code in `rtos_benchmark/` | ring buffer, mutex, two condition variables | blocking send and receive; the benchmark also computes a latency | four senders, one receiver |
| sensor system | `src/QNX/sensor_system.c` | a buffer of five values used as a stack, a lazily opened socket | push, pop, log | the dashboard |
| dashboard server | `src/Dashboard/server.js` | a UDP socket, the connected pages | emit each datagram to the pages, close the socket on an error | the C programs, the page |
| dashboard page | `src/Dashboard/public/app.js` | shown version, the v3 interval, fault flags, message counter, timers that undo a highlight | report, click, timer | the server, the user |
| decision logic | `*/decision/decision_logic.c` | none | pure functions nobody calls (v3), an empty placeholder (v4) | none |
| vendored, recorded | `src/Dashboard/node_modules`, `src/OUTPUTS` | none | not part of the program's own logic | none |

What is hard here, and what makes each part correct:

* **Synchronous messages** (v2, v3, v4). A sender is SEND-blocked, then
  REPLY-blocked, and leaves those states only through a reply, a signal, or
  the end of the channel. Correct means that a blocked sender always has
  somebody who will wake it, also when a server leaves its loop or a signal
  arrives between a receive and its reply; and that a receive that fails and
  takes the channel with it (v2, v3) leaves nobody waiting.
* **One flag, six threads** (v4). The flag is read between two messages, the
  signal interrupts one arbitrary thread, main waits for one thread only.
  Correct means that a shutdown ends the process and nothing else does.
* **Shared state under one mutex** (v4, v1, sensor system), and condition
  variables with one signal per message (v1).
* **A watchdog over flags** (v4): pulses clear what summaries set, and both
  arrive on the same channel in any order.
* **Time** in whole seconds of a wall clock that can be set, compared with
  100 ms (v3, v4), unsigned (v3).
* **Reports nobody acknowledges** (built v4, dashboard). Datagrams are lost,
  reordered, or emitted while no page is connected. Correct means that a zone
  that stays lost is shown in the end, and that no other zone is.
* **Timers of one page** (dashboard) that overlap, survive a change of tab, and
  are cleared through a variable that may by then name another one.
* **Arithmetic at its limits**: nanoseconds in a `long` that may have 32 bits
  (benchmark), thresholds of the decision logic (v3).
* **Start-up**: channel numbers (v3), a channel id in a global (v2), a lazily
  opened socket (sensor system), names that are opened while the thread behind
  them serves something else (v4).

`PROJECT.json` lists each hazard at its line, with the properties that would
notice it going wrong.

## 2. The modules

| Module | Models |
|---|---|
| `ZonalConfig` | zones, sensors and the zone of each sensor (`zonal_config.h`) |
| `SessionState` | the shutdown flag and the name service |
| `ZoneIpc` | the synchronous channel of a zone, and the clock |
| `ZonalAggregator` | `zonal_aggregator_start`, one action per step of its loop |
| `FleetGenerator` | `fleet_generator_start` |
| `FusionEngine` | `central_fusion_start`, and `FusionSpec`: the thread with an environment that sends any summary at any time |
| `HeartbeatMonitor` | what the watchdog promises: the abstract specification `FusionEngine` implements |
| `AdasSession` | main, the signal, and the composition of all of the above |
| `SampleCall` | what the session promises to a sample: the abstract specification of a call, without channels, threads or a mutex, which `AdasSession` implements |
| `SessionClaims` | what comments and documents say of the session and the code does not do |
| `BoundedFifo` | what a message channel promises |
| `MsgChannel` | the channel of v1, which implements `BoundedFifo` |
| `AdasV3` | the v3 process |
| `AdasV2` | the v2 process |
| `BoundedStack` | what the buffer of `sensor_system.c` promises |
| `SensorSystem` | `sensor_system.c`, whose buffer implements `BoundedStack` |
| `Telemetry` | the way of a report: UDP, `server.js`, the connected page |
| `BuiltEngine` | the fusion engine of the built variant: that of `FusionEngine`, with reports |
| `BuiltSession` | the built variant: the threads of `AdasSession`, `BuiltEngine` and `Telemetry` composed |
| `DashboardPage` | `public/app.js` |
| `BenchmarkLatency` | the latency computed by `rtos_benchmark`, as an operator |
| `DecisionLogic` | the decision logic of v3, as an operator |
| `SessionProofs`, `BuiltProofs`, `FusionProofs`, `MsgChannelProofs`, `SensorProofs`, `V2Proofs`, `V3Proofs`, `PageProofs` | the proofs |
| `MC*` | instances for TLC |

`AdasSession` extends the three thread modules, which meet in `ZoneIpc` and
`SessionState`. Each thread has a program counter (`aggPc`, `genPc`, `cenPc`)
with one value per point where another thread can get in between: a blocking
call, a lock, a read of the flag or of the clock. Everything between two such
points is one action. The names of the source are kept.

How the kernel is modelled (from the way the source uses it):

* `MsgSend` puts the sample into `sendq[z]`; `MsgReceive` moves it to the
  aggregator and sets `rcvid[z]`; `MsgReply` clears `rcvid[z]`; the sender goes
  on when both are clear. There is one sender in the session, so one place per
  zone is enough, and `QueueInv` and `ReplyInv` prove it.
* `name_open` fails until the name stands. Then it returns the connection, or,
  for the zones in `ConnectMayAsk`, it may send a message of its own to the
  channel behind the name and wait for the answer, as it does on QNX
  (`_IO_CONNECT`). The aggregator receives such a message like any other and
  answers none that is not a sample (`ZoneReceiveOther`). The repository does not
  settle which of the two happens: `src/OUTPUTS/version3/output_text.txt` records
  a start that went through, of a revision that is not the one in `src/`. So the
  constant is a parameter, the theorems hold for every value of it, and a run
  of its own shows what an unanswered question does.
* A signal runs the handler and may take any one thread out of `MsgReceive`,
  `MsgSend` or `name_open` with -1. It may arrive more than once.
* A timer adds a pulse to the channel of the fusion engine, at most `MaxPulses`
  at a time.
* The clocks of v3 and v4 are the wall clock (`time(NULL)`): they move on, and may
  be set back (`SetBack`; in v4 `MaxSetBacks` times, and a sample remembers how often
  that had happened when it was stamped, its `epoch`, which no code reads). A stamp is
  in milliseconds and moves by whole seconds, as `time(NULL) * 1000000000` does.
* `pthread_create` succeeds. Priorities and run masks only restrict which
  interleavings happen; every interleaving is explored.

In v2 and v3 main sleeps between the servers and their clients (100 ms, 1 s). A
sleep makes nobody wait for anybody, so in the models it orders nothing. In v3
the two servers get their channels in either order and possibly after the sensors
ask for them; channels are numbered from 1, the lowest free number first. A sensor
whose number names no channel gives up: the radar at `ConnectAttach`, the other
two at their first `MsgSend`, which the model takes for the same step. In v2 a client
may read the channel id while it is still 0, and `ConnectAttach` then fails.
`ChannelCreate` may fail, and `MsgReceive` of either server may return -1, upon which the
server destroys its channel, whoever is blocked on it gets -1 from
`MsgSend`, and so does whoever sends to it later. The health monitor of v3 looks
at neither result and goes on.

In `sensor_system.c` the socket and its address are written by
`init_dashboard_udp` without a lock: the model has a step between the test and
`socket()`, and one before and after the `memset`. `socket()` may fail at most
`MaxFailures` times. A datagram sent with an address that is not filled in counts
as lost.

The built variant has the threads of the session in an older version: no
thread tests a flag, no signal is handled, the failure and the lag follow other
cycles, and the engine has no latch. `BuiltSession` therefore takes the actions
of `AdasSession` with `g_keep_running` always TRUE and `Signal` left out, and
adds to each step of the engine the reports it sends.
`zone_failed_state` and `sensor_drift_active`, which this variant does not have,
become history variables: they record what the other variant would hold, so
that the alarms of one can be compared with the latch of the other. A report is
its zone and its `faults` field; equal reports under way at a time count as one,
as if the others had been lost. Since nothing of the
engine tells summaries apart but their zone, `BuiltSession` lets the zones in
`Summarizers` send the summaries the engine expects (none does in the source).

`DashboardPage` is one thread that runs a handler to its end. Timers are counted,
not timed: any that runs may fire, and those of one delay fire in the order
they were started. Its environment is wider than the repository's programs: the
page reads a `version` that no C program sends (they are all taken for v1), and
the model lets reports of every version arrive, which is what the page is
written for.

`calc_time_diff_ns` computes in `long`; `BenchmarkLatency` reduces every
intermediate result to what the compiled code keeps of it. In C the overflow of
the product is undefined, and the property holds for a build that wraps. The
decision logic is compared at integer thresholds, with reliability in percent.

## 3. The runs

| Run | Instance | Shows |
|---|---|---|
| `fusion` | three zones, one unmonitored, two pulses in flight, name and timer may fail | the engine is a heartbeat monitor (refinement), no zone is heard and failed at once, silence is noticed, every sender is answered, the engine stops |
| `session` | two zones, three sensors, batch of 2, signals; names 0 and 2 (the engine) may fail, the timer may fail, `name_open` may ask zone 1 | the safety properties of the session and the invariant behind them; that it implements `SampleCall` (refinement): one call at a time, each sample judged at most once and within its call, and abandoned only by a signal; sends return, a stream that has begun goes on, shutdown completes, nothing but a signal or a missing engine ends the process |
| `channel` | three senders, two slots, spurious wakeups; a `long` that holds 1 and seconds of 2 ns, a message stamped at any of four times | FIFO (refinement), no lost wakeup, the inductive invariant behind them (with mutual exclusion), progress of both sides; the latency is exact whenever it fits, even if the product has overflowed |
| `sensor_system` | two sensors, two places, one failure of `socket()` | stack (refinement), at most one socket per sensor, reports lost only in a race, the socket settles, readings are popped, and the inductive invariant |
| `v2` | all four clients, a channel that may fail to be created, a receive that may fail | a client that connects after the channel exists is served as long as the channel lives, blocked clients are held by a live server, the end of the process |
| `v3` | both `ChannelCreate` and the engine's `MsgReceive` may fail, clock within 0..2 s, moving both ways, weight reductions counted to 1; an object on either side of each threshold of distance and reliability | a sensor connected to the engine is served as long as the engine has its channel, weights fall only for own samples the clock moved away from; braking and warning exclude each other and are monotone |
| `built` | two zones, one unmonitored, summaries of the other one, the engine's name and `socket()` may fail, a clock that is set back once and moves on | a lagged sample is marked unless the clock was set back on its way; alarms name exactly the zones the other variant latches (repeating them adds nothing false), and a zone that stays silent is shown, however many datagrams are lost, because they are repeated |
| `dashboard` | two highlights under way, two messages between points, reports of every version, some whose sensor cannot be read | the v3 interval is never leaked or missing, no message is lost between tabs, the pulse follows the faults, highlights end |

Four runs end in a counterexample. Each states what a comment, a message or a
document says and the code does not do:

| Run | Said | Done |
|---|---|---|
| `claim_summary` | "Every 10 raw messages, send a summary to Central" (`zonal_aggregator.c:89`) | the batch is reset and nothing is sent; so in the session every monitored zone is declared lost at the first pulse |
| `claim_chid` | "Assuming CHID 1 for the Fusion Engine Server" (`v3_adas/sensors/radar_proc.c:13`) | the health monitor is created first, creates a channel too, and never replies |
| `claim_throttle` | "Adaptive Throttling" (`zonal_aggregator.c:62`), "If we receive too many messages in a short burst, drop some" (`v4_scaling/core/zonal_aggregator.c:64`), and a step of the recorded mission (`src/OUTPUTS/version3/output_text.txt:35`) | the batch of 10 starts the counter again before it can pass the limit of 15; a zone that is served for ever drops nothing (`ThrottleUnreachable` proves it for every fleet) |
| `claim_connect` | "Fleet generator begins full-speed 100-sensor stream" (`src/README.md:198`, `fleet_generator.c:32`) | if `name_open` asks the aggregator, the question is taken and never answered: the generator stays blocked before its first sample (`ConnectStarves`) |

Three more statements of this kind are met in the code and have no run of their own.
"Pin LiDAR to CPU Core 1" (`v2_adas_multicore/adas_qnx_system.c:254`, and the table in
`src/OUTPUTS/version2/report_version2.md`): `ThreadCtl` sets the run mask of the thread that
calls it, and main calls it, so main moves from core to core and no sensor thread
is pinned; nothing else in v2 depends on a core, so the models leave them out.
"Shutting down and detaching QNX names..." (`orchestrator_8core.c:15`): the process
ends when the central thread does, and zones that are blocked or at work at that
moment detach nothing (`EndsOnlyOnRequest` says when that is).
"> 100ms drift" (`zonal_aggregator.c:77`): both clocks count whole seconds, so a
fresh sample that crosses a second counts as 1000 ms late, and only the other
direction holds (`LaggedSampleFlagged`), as long as nobody sets the clock back.

Bounds, and why they are enough. Zones and sensors: two zones are a zone that
the signal left at work and the one the generator goes on to, which is all that
mutual exclusion and the order of calls can be threatened by (without the mutex
the run fails); three sensors make the generator come back to the first zone while the other is at
work; one of the two is silenced and one unmonitored. The proofs have any number of
both. `SUMMARY_BATCH = 2` and
`THROTTLE_LIMIT = 1` keep the relation of the source (10 and 15) at its tightest: one
sample more before the reset would be refused. `claim_throttle` has 10 and 15. `CYCLE_WRAP` folds
`cycle_count` after the first failure into one period of the injections, where
the code behaves the same. The clock stands still in `session`, whose properties
but `IInv` do not read it; in `built` it is set back by a second at any moment and makes
it up again, so a stamp and its check may lie on either side of either change.
`MaxPulses` is two where the run needs a late engine to find two checks
waiting. In v1 more senders than slots let two sleep while a third takes
the slot meant for one of them. In `sensor_system.c` two sensors are enough
for two racing initialisations while the third party, the aggregator, reads; two
places tell the top of the stack from its bottom. v2 has no bound at all, v3 none but its clock and its count of reductions. In `built` one
monitored zone that beats or not, with one unmonitored, meets every order of
pulse, summary and report; batch, mutex and contention are the concern of `session`. On the page
two highlights overlap, and two messages tell a counter that is
lost from one that is plotted twice. The `long` of two bits comes round after
two seconds of the model (as 32 bits do after 4.3 s), and stamps before and
after a second make both the product overflow and the nanoseconds run
backwards. The pure functions take their argument from a variable that keeps its
first value, whatever it is (`send_time`, `obj`). The theorems of section 4 have
none of these bounds but `MaxTicks`, `MaxSetBacks`, `MaxPulses`, `CYCLE_WRAP` and those of the page
(`MaxTimers`, `MaxCount`) and of the clocks of v3, which they leave arbitrary.

Fairness. Each thread of the session is weakly fair: QNX runs the highest ready
thread on each core and each pool of cores has room for the threads pinned to
it. The armed timer fires. In `FusionSpec`, whose environment may send for ever,
each summary and the pulse are strongly fair, because `MsgReceive` takes
messages by priority and arrival and passes none over. In v1 a thread that
keeps asking for the mutex gets it, and spurious wakeups are never required; the same of
`sensor_system.c`, where everybody sleeps a second or more between two uses of the mutex.
In v2 and v3 every client sleeps after its reply, so none is passed over; nothing obliges a
receive to fail.
In `built` the engine, its pulse and its timer are fair as above, and the emission
of an alarm is strongly fair: the network may lose any datagram and any number
of them, but not all datagrams that are repeated for ever. That is an
assumption on the network, and the reason why the repetition matters: with one
alarm per silence (mutant `AlarmOnce`) the property fails. The timers of the page
are weakly fair: a browser runs them some time; clicks and reports have no
fairness. The signal, the clock, failures and spurious wakeups
have no fairness. Some escapes are part of the properties because the code has
them: without its timer the engine may wait for ever (`EngineStops`,
`ShutdownCompletes`); without one zone's name, or with a `name_open` that an
aggregator does not answer, the stream never starts (`StreamRuns`, which allows nothing
else, and nothing once the first sample is sent); and the clients of v2 and v3 are served
as long as the channel lives (`ServedIfChannelFirst`, `ServedIfFusionFirst`).

## 4. The proofs

For every number of zones, sensors and pulses, every fleet, batch, limit, lag
and failure pattern, and for every number of senders and slots of the v1
channel, under the named assumptions:

| Theorem | Establishes |
|---|---|
| *The session* | |
| `Inductive` | `SafetySpec => []IInv`, the inductive invariant |
| `TypeCorrect`, `OneAtATime`, `ThrottleUnreachable`, `SenderCorrect`, `RoutingCorrect`, `EndsCorrect` | its state properties |
| `LagCorrect` | the action property `LaggedSampleFlagged`: a lagged sample is marked unless the clock was set back since its stamp |
| `CallsImplemented` | `AdasSession` implements `SampleCall` |
| `SessionMonitors` | composed with everything else, the engine still implements `HeartbeatMonitor` |
| `EngineWakes` | wherever the signal strikes, an engine that waits is attached and has its watchdog armed (or its timer could not be created), and after the signal it waits at most once more |
| `ConnectStarves` | the consequence of the finding `claim_connect`, for every fleet: a generator whose question an aggregator has taken stays in `name_open` until the signal |
| `FalseAlarms` | the consequence of the finding `claim_summary`, for every fleet: nothing is ever heard, each pulse declares every monitored zone lost, and none recovers |
| *The engine alone* | |
| `FusionInductive`, `HeardIsNotFailed` | type and flag invariants in any environment |
| `MonitorImplemented` | `FusionSpec` implements `HeartbeatMonitor` |
| `EngineHolds` | the engine in its loop has its channel and its watchdog or no timer, and whoever sent it a summary waits on a channel it has |
| *The built variant* | |
| `BuiltInductive`, `BuiltSafe`, `BuiltLag` | the invariant and the safety properties of the session, with zones that never contend at all |
| `BuiltCalls`, `BuiltMonitors`, `BuiltHolds` | it implements `SampleCall` and `HeartbeatMonitor` and keeps channel and watchdog, whoever sends summaries |
| `BuiltNeverEnds` | it runs for ever unless its engine never starts |
| `AlarmsCorrect` | its alarms are the zones the other variant latches |
| *v1 and the benchmark* | |
| `Invariance`, `ChannelExclusion`, `NoWakeupLost` | the inductive invariant and the state properties of the channel |
| `NeverAllAsleep` | while senders sleep, the receiver or a woken sender is on its way |
| `ChannelIsFifo` | `MsgChannel` implements `BoundedFifo` |
| `LatencyCorrect` | the benchmark's latency, for every width of `long` and every time of stamping |
| *v2* | |
| `V2Inductive`, `HeldCorrect`, `EndNeedsError` | the invariant, `BlockedIsHeld`, and that the process ends only when the server has tried and has no channel |
| `InTimeForGood`, `RepliesCorrect` | as long as there is a channel no client turns back; a reply reaches the client being served and no other |
| *v3* | |
| `V3Inductive`, `CutsCorrect`, `DecisionCorrect` | the invariant, `OnlyOwnStaleCuts`, and the decision logic for objects of any distance, speed and reliability |
| `HealthFirstStarves` | the consequence of the finding `claim_chid`: once the health monitor has channel 1, a sensor that sends is never answered and no weight is ever cut, whatever calls fail and whenever the sensors start |
| `FusionFirstServes` | a sensor blocked on the engine is always queued for it, and a sensor gives up only because its number named no channel or because the engine destroyed it |
| *`sensor_system.c`* | |
| `Invariance` of `SensorProofs`, `OneSocketEach`, `LossIsRace` | the invariant and the two state properties of the unprotected socket |
| `BufferIsStack` | `SensorSystem` implements `BoundedStack` |
| `SettledForEver`, `HolderAwake` | a socket nobody is at any more is good for ever, and those at an open one run out; nobody sleeps with the mutex |
| *The page* | |
| `PageInductive`, `IntervalCorrect`, `CountCorrect`, `HighlightsTimed` | the invariant, `OneInterval`, `NothingUncounted`, and that each highlight has a timer that ends it |

The argument. None of the session's properties is inductive. `IInv` adds what
they silently rely on: a thread not yet created has done nothing (`SpawnInv`);
the mutex variable names the aggregator in the critical section (`MutexInv`);
between two samples a counter is below a batch (`BatchInv`); the generator's index and
connections are those of the sensor it is at (`GenInv`); a queued sample and an
owed reply both belong to the one call the generator is blocked in, at the zone
of its sensor (`QueueInv`, `ReplyInv`), so at most one is under way; a name
stands exactly while its thread is between attach and detach (`AttachInv`); an aggregator holds a sample
exactly while it serves (`ServeInv`), and until the signal it owes a reply for it
(`OwedInv`); and as long as the clock is not set back, the time of a sample, with its
lag added if it has one, is not ahead of the clock, nor of the reading taken for it (`StampInv`). With these,
`NoOrphanedSender` follows because every action that could strand a sender
(detach, interrupt, end of loop) happens at a point where `ReplyInv` excludes
an owed reply, or empties the queue itself. `LaggedSampleFlagged` follows from `StampInv`:
what was read for the check is ahead of the stamp by the lag at least, however often the clock was
set back before the stamp.

`CallsImplemented` reads the stage of a call off the state: the generator is
blocked and its sample is queued; or its reply is owed and the aggregator that
owes it has (`"reply"`) or has not judged the sample; or neither, and the call
has returned. `QueueInv` and `ReplyInv` make these cases exclude each other and
put them at one zone, so a step of a zone moves the call only if the zone is the
one of the sensor in turn. A signal that takes the generator out of `MsgSend`
leaves the sample with an aggregator that owes nothing (`Orphans`); `OwedInv`
says that this happens only after the flag is cleared, and `ServeInv` that the
sample is in one zone only, the one that must judge it before it can receive
the next sample of that sensor. That a queued sample is withdrawn only by a
shutdown needs one fact more: an aggregator is past its loop only when the
flag is cleared (`StopInv`).

The engine's marks are touched by its own steps only, in every composition
(`SessionMarks`, `BuiltMarks`), so that its refinement of the monitor is shown once for a step
(`MonitorStep`) and holds alone, in the session and in the built variant. The
same goes for `EngineHeld`. `FalseAlarms` and `HealthFirstStarves` turn two
counterexamples into theorems: the run shows one behaviour, and the theorem that it
cannot be otherwise, and so do `ConnectStarves` and `ThrottleUnreachable`. `HealthFirstStarves`
rests on `ConnectInv`: a sensor that is blocked and not queued is in the hands of the health
monitor, since the engine replies in the step that receives; only the channel numbered
1 is ever connected to, and a number is held by one server at a time.

In the v1 channel `NoLostWakeup` speaks only of moments when the mutex is free.
`WakeInv` extends it to the others by counting the sender that holds the mutex
and has not counted its message (`Entering`): taking the mutex turns a woken
sender into an entering one, and counting the message turns it into a message,
so the sum never falls. `UpdateInv` keeps the count in range between the index
and the count of an update, and `RingInv` says that `tail` is `Size` slots after
`head` and that the slots between them are filled. `ChannelIsFifo` then needs
that storing a message touches no slot between them (`ModApart`) and that taking
one shifts them by one (`ModNext`); every other step leaves `Contents` alone.

In `sensor_system.c` the bound on sockets rests on an argument across the mutex.
While the socket is closed none has been opened; once it is open no thread
newly decides to open one, so those that have decided (`Openers`) are an upper bound
on what is still to come. They are all sensors: the aggregator reports only
what it popped, that was pushed by a sensor that reported under the same mutex
before (`FirstReport`), so the aggregator finds the socket open (`AggregatorLate`). All this
supposes that `socket()` does not fail; `SettledForEver` does not: whatever
failed before, once the socket is open and nobody is between the test and the filled
address, nobody goes there again, and the address was filled by the last who
did (`AddressEver`).

`EndsCorrect` needs that the engine is past its loop only after a signal or
because its name could not be attached (`EndInv`), and uses `IInv` for the rest.
`BuiltProofs` shows each step of the built variant to be a step of the session,
or one that queues a summary and disturbs nothing, so the invariant of `SessionProofs` carries over (`InvStep`); what is
new is that no zone is heard and latched at once, from which the alarms of a
pulse are the zones whose latch it leaves set. In v2 `V2Inv` ties the clients'
states to the queue and the client being served, and the server's state to its
channel, which may be gone while the global still names it. In v3 a sample in the queue bears a time that was the clock's, and a
delay computed in unsigned arithmetic exceeds 100 ms only if that time is not
the present one. The page's interval has at most one name, because a
new one is only started after the old one has been cleared, and the v3 tab is only
entered by starting one (`PageInv`). The proof of `LatencyCorrect` is modular arithmetic:
reductions modulo 2^w may be left to the end, and the end is in range.
`BufferIsStack` maps the first `Size` places of the array to the abstract
sequence; the mutex keeps the place and the count from being seen apart.

`EngineWakes` adds the timer to the facts about the engine (`TimerInv`); `ConnectStarves` adds that
no zone leaves before the signal (`StopInv`), so that the channel under the question stays.

Two assumptions carry weight: `SUMMARY_BATCH <= THROTTLE_LIMIT + 1` (10 and 15 in
the source), without which samples are refused, and `LAG_MS > DRIFT_MS` (150
and 100), without which a lag is not seen.

Model-checked only: everything under fairness (`SilenceIsNoticed`,
`SummaryAnswered`, `EngineStops`, `SendReturns`, `StreamRuns`,
`ShutdownCompletes`, `MessagesReceived`, `SleepersWoken`,
`ServedIfFusionFirst`, `ServedIfChannelFirst`, `EndsWithoutChannel`,
`DashboardSettles`, `ReadingsPopped`, `AlarmShown`, `PulseFollowsFaults`, `HighlightsEnd`), which is out
of the prover's reach. Every invariant, action property and refinement of a passing run
is proved, and of many a liveness property the half that safety can say:

| Liveness, by TLC | Safety half, by proof |
|---|---|
| `SendReturns` | `SenderCorrect`, `CallsImplemented`: the reply is owed by somebody who is there |
| `SummaryAnswered`, `EngineStops`, `ShutdownCompletes` | `EngineHolds`, `EngineWakes`: the channel and the watchdog are there, and after the signal there is one wait at most |
| `SleepersWoken`, `MessagesReceived` | `NeverAllAsleep`, `NoWakeupLost`: whoever must act is awake |
| `ServedIfChannelFirst`, `EndsWithoutChannel` | `InTimeForGood`, `EndNeedsError` |
| `ServedIfFusionFirst` | `FusionFirstServes` |
| `DashboardSettles`, `ReadingsPopped` | `SettledForEver`, `HolderAwake` |
| `AlarmShown` | `AlarmsCorrect`: each pulse repeats the alarm |
| `HighlightsEnd` | `HighlightsTimed` |

## 5. Not modelled, and why

* Printing, colours, simulated readings: no behaviour depends on them.
* The blinking boxes and wires of the page, which are timers of the same shape
  as the lock's, its latency and pulse charts and its terminal, which only grow
  and show; the connection of socket.io, which the library keeps.
* `decision_logic.c` of v4, an empty placeholder.
* Replies' status: no sender of the session reads it, and a v2 client only prints it.
* Messages of a type nobody sends to the engine, which receives such a message and
  never answers it. (To the aggregators `name_open` may send one, which is modelled.)
* The run masks set with `ThreadCtl`: they only restrict which interleavings
  happen.
* `shm_open` of the vision and lidar threads of v3, which return if it fails before they
  send anything.
* The pulse timer of v2, which nobody arms, and its branches for pulses and for
  messages of another type, which nobody sends.
* Heartbeat pulses and shared memory of v3: nobody sends the former, nobody
  reads the latter.
* `timer_delete` on a timer that was never created (`fusion_engine.c:116`):
  there is no other timer it could hit.
* Recorded outputs and vendored packages.

## 6. Plan

Done, in this order: the v4 session with its proofs; the v1 channel; v3, v2 and
`sensor_system.c`; the telemetry path and the built variant; the page; the
pure functions; the proofs of v2, v3, the page, the stack and the end of the
session; the abstract call of the session, its refinement, and the safety halves
of the liveness properties.

Left, where the code grows into it: the summaries of the zones, once a zone sends
them to the engine (`SummarySend` becomes an action of the aggregator, and two
synchronous channels can then wait for each other); the heartbeat pulses and
the shared memory of v3, once somebody sends and reads them; the `version` field,
once the programs send it and `Telemetry` and `DashboardPage` can be composed.
