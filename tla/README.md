# devicescript-esp32 in TLA+

TLA+ modules that model the firmware in `main/`, TLC configurations that check
them on small instances, and TLAPS proofs for every value of the constants. The
repository is the glue between the DeviceScript and Jacdac client code (the
submodules, called *the client* below) and ESP-IDF on four chips. Its own logic is
small and almost entirely about concurrency: interrupts, the high-priority timer
task, the main task and a worker task share flags, static buffers and one-shot
timers, mostly without locks.

## 1. The system

| Component | Source | State | Operations | Talks to |
|---|---|---|---|---|
| Jacdac bus driver | `hw-esp32.c` | `context`: `seen_low`, `rx_ended`, `in_tx`, lengths, `fifo_buf`, three callback flags; the UART's interrupt bits and FIFOs | `uart_start_tx`, `uart_start_rx`, `uart_disable`, `uart_isr`, `jd_timer0` | the wire; the client, through `jd_rx_completed`, `jd_tx_completed`, `jd_line_falling` |
| Timer worker | `hw-esp32.c`, `worker.c` | a queue of 20 calls, a one-shot timer | `tim_worker_run`, `jd_tim_worker` | called by SPI, LED strip and USB, from tasks and interrupts |
| Client timer | `hw-esp32.c` | `timer_cb`, a one-shot timer | `tim_set_timer`, `jd_timer` | the client, from its callback or any other context |
| Main loop | `main.c` | `loop_pending`, the event queue, the 10 ms timer, the watchdog's list | `app_main`, `post_loop`, `loop_handler` | everything in the main task |
| SPI master | `spi.c` | the static `trans`, `spi_in_use`, the device handle | `jd_spi_init`, `jd_spi_xfer`, completion | SPI driver's interrupt, timer worker, done functions |
| LED strip and encoder | `ledstrip.c`, `led_strip_encoder.c` | the RMT channel, `led_in_use`, `led_done_fn`; the encoder's state | `devs_led_strip_send`, completion, `rmt_encode_led_strip` | RMT driver's interrupt, timer worker |
| Status LED | `ledstrip.c` | a second RMT channel, `rgbext_buf` | `jd_rgbext_init`, `jd_rgbext_set` | RMT driver |
| Socket | `sock.c` | `sock_fd`, `is_connected`, `is_tls`, two queues | `jd_tcpsock_new/write/close/process`, `worker_main` | main task and worker task, lwIP, mbedTLS |
| Console | `usb.c` | `fq_scheduled`; interrupt bits of the JTAG unit or the UART | `jd_usb_pull_ready`, `fill_queue`, `jd_usb_process`, `on_cdc_rx`, interrupts | client's queue, timer worker, TinyUSB's task |
| PWM | `led.c` | `timers[]`, the LEDC's registers | `jd_pwm_init`, `jd_pwm_set_duty`, `jd_pwm_enable` | the client, main task only |

| WiFi | `wifi_impl.c` | none of its own: the driver's, and the event queue | `jd_wifi_start_scan/connect/disconnect`, three event handlers | the client, esp_wifi, esp_netif |
| Properties | `utils.c` | none | `extract_property` | the client |

The rest (pins, I2C, ADC, SD card, flash, logging and panic output, platform, boards,
build, host scripts) is sequential input and output or data;
`PROJECT.json` lists each part with the reason it is left out.

How they meet: the interrupts never call the client. They set flags or queue a
call and arm a one-shot `esp_timer`; the timer task (priority 22) then runs the
client's callbacks and done functions, preempting the main task anywhere. Received
frames and console input wake the main loop by an event. The socket is the only
component with a task of its own.

What makes each part correct: the bus driver brings every operation to its end, calls a
completion only for the operation under way (section 4 has the exceptions), never
writes through a buffer the client has not lent, and never receives into a
transmission; a call put into the timer worker is run, in order, and the client's
timer runs the callback last set; a transfer on SPI or the LED strip calls its done
function once and leaves its memory alone until then; the console hands over all
packets in both directions; the loop always has an event on the way when it is
needed; a socket answers every request and never writes to another connection; a
pin's signal and the LED's colour are those last asked for; a scan is answered.

What is hard: (1) test-then-set flags without a lock (`loop_pending`,
`fq_scheduled`, `spi_in_use`, the three callback flags, `rx_ended`); (2) stopping
and restarting a one-shot timer that others share; (3) results that are ignored
(`tim_worker_run`, `esp_event_post`, `xQueueSend`); (4) static buffers that an
interrupt still uses; (5) a wire with remote ends that pause, collide or die;
(6) two tasks that close one connection. The list with lines is under "hazards" in
`PROJECT.json`.

## 2. Modules

One module models each component, with one action per critical section, unlocked
access, or interrupt. Abstract modules say what a component promises, and the
detailed ones are shown to implement them. Compositions put components together
that share something.

| | Modules |
|---|---|
| Abstract | `BusService` (half-duplex bus), `Deferred` (`tim_worker_run`), `OneShot` (`tim_set_timer`), `AsyncXfer` (a transfer with a done function) |
| Components | `JdUart` (core), `TimWorker`, `ClientTimer`, `Spi`, `LedStrip`, `Usb`, `MainLoop`, `Sock`, `Pwm`, `RgbExt`, `Wifi`, `PropertyBag` |
| Shared | `TimQueue`: the timer task as the users of the worker see it |
| Compositions | `Timers` (`TimWorker`, `ClientTimer`), `TimUsers` (`Spi`, `LedStrip`, `Usb`), `Services` (`Pwm`, `RgbExt`, `Wifi`, `PropertyBag`) |
| For TLC, proofs | `MC...`, `...Proofs` |

Definitions named `X_Something` and commented as faulty variants are plausible bugs
of definition `X`; no specification uses them. They show that a property can fail.

**JdUart, BusService.** The variables are the fields of `context`, the UART's
`int_raw`, `int_ena` and FIFO counts, the wire (`bus`, `sent`, `pin`), where the timer task
is (`tpc`), the operations the client has under way, and the assertion that stopped
the firmware (`panic`). `uart_isr` is one step, with one action per branch. Calls of
the client and `jd_timer0` are steps of the timer task, since the Jacdac client makes
its calls from timer callbacks; the interrupt comes between any two steps except
inside critical sections. `Faults` says what the wire and the scheduler may do: `late`
(the interrupt and `jd_timer0` lag), `gap`, `noise`, `die`, `stuck`, `edge`, `collide`. Bytes
are counted, and one transmission and one reception buffer exist. The board has a
Jacdac pin: without one, `uart_start_tx` completes or refuses at once, which is not
modelled.

`HalfDuplex` is the refinement. A callback is several steps of the timer task: test of
the flag, its reset, the call, the client's part; the interrupt comes in between.
`Op` reads the abstract operation off the client's calls and `in_tx`, `Call` is the
completion being called, `Stray` a flagged `jd_rx_completed` that no reception of the
client waits for. In `BusService` the begin and the return of a call are visible
steps, so that a completion that belongs to no operation, or to the wrong one, is not
a stutter: it is forbidden, except as the one stray call that the driver leaves behind
in three cases (`GiveUp`, `EarlyReturns`, `Break`), and that is over before the next
reception is announced (`Announce` requires it). TLC finds `HalfDuplex` violated when
any of the three is taken away.

**TimWorker, Deferred.** `tim_worker_run` is three steps (queue, stop, start) of any
number of posters; the timer's alarm is taken off the list before its callback.
`KeepsPromise` is the refinement: pending calls are the queue.

**ClientTimer, OneShot, Timers.** `tim_set_timer` is one critical section, which may come
from any context, also between the alarm and the lock of `jd_timer` and while the
callback runs, outside the lock. `alarm` and `fired` remember what the alarm was
started for. `Timers` puts it beside the worker in the one `esp_timer` task
(`OneCallback`).

**TimQueue, TimUsers.** `Spi`, `LedStrip` and `Usb` post to one queue, whose refusals they
ignore; the timer task takes the calls in order, preempting the main task, which is
inside one component at a time (`OneMain`). `TimWorker` justifies the queue.

**Spi.** `xfer[t]` is where the main task (`"main"`) or a done function (`"tim"`) is in
`jd_spi_xfer` or `jd_spi_init`. The driver may fail at every call. `owed` is the history
the abstract `AsyncXfer` is written over. `MCSpi` instantiates it alone, with both
callers.

**LedStrip.** The channel's state is what the RMT driver checks (`"none"`, `"off"`,
`"on"`); `target` stands for the pin and `ctx_seq_no`. A driver that has no channel or
encoder left stops the firmware (`ESP_ERROR_CHECK`), which is left out. The encoder is called with
whatever room the channel's memory has.

**Usb.** Init chooses the chip. For S2/S3 the unlocked `fq_scheduled`, for the C3 and
the ESP32 the transmit interrupt's bits decide who fetches the next packet. A packet
counts as 64 bytes. Input packets are numbered; one turn of `read_fifo` takes at most
`ReadMax` of them, what its buffer holds; on the ESP32 both the interrupt and
the main task (`CountFifo`, `ReadFifo`, `PushInput`) read the FIFO, and a read beyond what
is there gives `Garbage`.

**MainLoop.** `post_loop` is three steps in each of four contexts. Registration,
the reset of `loop_pending`, the first post and the watchdog's hand-over are separate
steps of `app_main`. The event queue may be full of other events, then a post is
lost; `Watchdog` restarts the firmware only when the tasks it watches cannot reset it.
The event loop's task runs at a higher priority than `app_main`.

**Sock.** Every access to `sock_fd`, `is_connected` and `is_tls` is a step, but the reads
that follow a queue's answer at once (`Receive`, `EventsDone`). Between the test and the
close of `jd_tcpsock_close` the other task may close too and open the next connection:
`CloseFd` closes the number that was tested or the one read again, as the compiler
likes, and a number closed before may stand for a newer descriptor (`Named`). A
descriptor is the number of the request that opened it. The client asks for a
connection when it has none, writes and closes when it believes it has one; a
*patient* client also lets an error settle first.

**Services.** What the client uses from the main task only; the parts share nothing
but that task, so that Init chooses one. `Pwm`: a call is one step, arithmetic in words
of `WordBits` bits. `RgbExt`: the three stores into `rgbext_buf` are steps, the RMT
driver encodes the buffer when a transmission starts, and waits when its queue is
full. `Wifi`: the client's calls, the answers of esp_wifi and the DHCP client as
external actions that post events, and the handlers; `ConnectedHandler` is ESP-IDF's
own. `PropertyBag`: `extract_property` as a recursive function over every short list and
key (`MaxLen`, `MaxKey`), against a definition by whole pairs.

## 3. Runs

| Run | Shows | Bounds |
|---|---|---|
| `uart_prompt` | without faults and lag: no assertion fires, a completed reception has the whole frame, every operation ends, every low pulse is announced, no deadlock | FIFO 4, thresholds 3 and 2, buffer 3, frames of up to 4 received and 5 sent |
| `uart_faults` | with all faults but lag: the interrupt uses only buffers that are lent; the driver implements `BusService`: completions are called for the operation under way, once, but for one stray call | same |
| `uart_late` | with all faults and any lag: no flag forgotten, no NULL copy, transmissions exclusive | FIFO 2, buffer 2, frames of 3 |
| `uart_noise` | *violation*: a framing error leads to `start_bg_rx` during a transmission | as above |
| `timers` | no wake-up lost, the worker implements `Deferred`, the client's timer `OneShot`, on the alarm it was set for | 3 posters, queue of 3, 2 callbacks |
| `timusers` | assertions and driver states, transfers untouched while in use, frames whole, done exactly once, console drains, although refusals are ignored | queue of 4, 2 SPI and 2 LED transfers, 4 symbols in a memory of 2, 1 packet |
| `spi_reentrant` | *violation*: transfers from done functions too break the assertion on `spi_in_use` | 3 done functions |
| `mainloop` | pending implies an event, frames do not wait for the timer, watchdog handed over, the loop runs for ever | queue of 2, 2 frames |
| `sock` | descriptor open, none leaked, no stale write, every request answered, no polling of a dead connection for ever | queues of 2, 3 requests |
| `usb` | on three chips: no packet left with nobody on the way, input whole and in order, everything sent and read | 4 packets out, 3 in |
| `services` | the signal of each connected pin and the colour of the LED are those last asked for, the first property is found, scans are answered and losses told | 3 pins, 2 timers, 6 requests, 3 duties; 2 colours, queue of 4; lists of up to 5 and keys of up to 2 characters; 3 events |

Why they are enough: a FIFO of 4 with these thresholds has frames below, at and above
the threshold, the buffer and the FIFO; frames sent are longer than the FIFO, so the
refill interrupt happens. Queues are shorter than what their users can post, so that
refusals happen, except in `timusers`, where the question is how many entries its
users need: one for each SPI transfer whose done function is due (two here: a
synchronous transfer leaves the next one free to start at once), one for the strip
and one for the console. With four all properties hold, with three the temporal
ones fail; the code has 20, so that its client may have 18 done functions due.
Three posters are two that race and a third that can interfere; three
requests on a socket are one dying, one in use and one waiting. Three input packets
are one counted, one read by the interrupt and one that arrives in between; a turn of
`read_fifo` takes one, so that a remainder is left for the next. The counts
do not enter any guard except against these limits. `services` has periods at the
fastest and slowest setting and one beyond each, more colours set than the RMT queue
holds, keys of up to two characters, the empty one too, inside values and at the end of other keys, and
room for a loss and a new connection among the events. `CHECK_DEADLOCK FALSE` is used
where the firmware may stop, after a panic or a refused driver call (the fault runs of
`JdUart`, `Services`), and where the client has nothing left to do (`Usb`, `Services`).

The bounds are `MaxFrame`, `MaxBytes`, `NumBytes` (JdUart), `MaxFrames` (MainLoop),
`MaxOpens` (Sock), `MaxWrites` and `MaxReads` (Usb), `MaxEvents` and `MaxAps` (Wifi),
`MaxLen` and `MaxKey` (PropertyBag); the other constants are sizes of the code.

**Fairness.** Interrupts and the timer task run whenever they can: priority 22 is
the highest the application uses, and hardware and a live remote carry on. `timer0`
needs strong fairness, since `schedule_timer0` stops and restarts it; `esp_timer`
serves alarms in the order they are due, and each restart is due at once. A task
inside an operation finishes it. The main loop calls `jd_tcpsock_process` for ever and
calls into the network stack return. The two alarms of `Timers` are served in the
order they are due, so that each is weakly fair, but a client that sets its timer for
ever keeps it from firing. A scan ends although other events fill the queue at
times, since the driver waits for room (`ScanEnds`, strong). Nothing obliges the client to start anything,
a remote end to send, or WiFi to post an event. In `MainLoop` the watchdog's expiry is
fair.

## 4. Findings

* `uart_noise`, `hw-esp32.c:473`. `uart_disable` at the end of a reception does not look
  at `in_tx`, and the abort in `uart_start_rx` leaves the reception interrupts enabled.
  After a framing error inside a low pulse, a transmission can start with them
  enabled; the receive timeout then tears it down with `in_tx` still set, and the
  next break runs into `JD_ASSERT(!context.in_tx)` in the interrupt handler.
* `spi_reentrant`, `spi.c:133`. `jd_spi_xfer` may be called from done functions, says
  its comment; the test of `spi_in_use` and its assignment are apart, so a done
  function can start a transfer in between and the main task's failure path clears
  the flag of that transfer. Its completion interrupt then fails its assertion.

Other behaviour found on the way that no line of the repository rules out is noted
under the hazards: OPEN can be overtaken by CLOSE (`sock.c:225`), a client that
reconnects without delay can leak a descriptor or have its next connection closed by
the main task's late `close` (`sock.c:281`), a failed `socket()` is not
reported (`sock.c:138`), a TLS write that asks for a retry loses data (`sock.c:257`). In
`Sock`, `FdOpen`, `NoLeak` and `PollEnds` are stated for the patient client and `Answered` names
the unreported failure, for these reasons.

On the bus, `jd_rx_completed` may be called without a reception it belongs to, in three
cases, all of which the runs reach. (a) The client's timeout calls `uart_disable` (471-485),
which leaves `cb_rx` set: the reception that was given up is completed afterwards.
(b) `uart_start_rx` finds `rx_ended` (459) and completes the reception itself (467), but
between the test and the reset of `fifo_buf` (464) the interrupt has ended it again and
set `cb_rx`: one reception is completed twice. (c) A receive error during a transmission
runs `uart_disable` and sets `cb_rx` (345-355): the transmitting client is told of a
reception, and never of the end of its transmission. `HalfDuplex` states what is left:
one such call at most, before the next reception is announced.

A `tim_set_timer` that comes between an alarm and the lock of `jd_timer` is run by that
alarm, before its time (`hw-esp32.c:80`; `NotEarly` names the moment, `raced`). On the ESP32
the interrupt may take input bytes between the main task's count and its push; what
the client then gets is late or garbage (`usb.c:271`; `InputExact` names it, `raced`).
An address that arrives when the link is already lost leaves the client believing in
a connection (`wifi_impl.c:96`; `BeliefRight` names it, `crossed`), and a scan whose records
cannot be read is answered by a number of results without a list (`wifi_impl.c:93`).
`jd_wifi_connect` while the station joins stops the firmware (`wifi_impl.c:31`).

## 5. Proofs

Each proof module follows one argument: an inductive invariant made of named parts, a
lemma for each action or group of actions, and theorems that read the properties off
the invariant. TLC checked each invariant on the run's instance before it was proved.
The theorems hold for every value of the constants that the modules' `ASSUME`s admit;
further hypotheses are named in the theorem's `ASSUME`.

**JdUartProofs** has three layers, each under a stronger hypothesis about `Faults`.

1. *Any faults*: `TypeOK`, `CallbacksArmed`, `FifoHasBuffer`, `TxExclusive`. The invariant
   `IInv` is these four and `TxPhases`: that no earlier transmission is left when
   `uart_start_tx` begins follows only from where its interrupts may be enabled (`in_tx`)
   and when its completion may be pending; nor may a receive buffer replace a transmit
   buffer with bytes left.
2. *`Prompt`*, the interrupt and the timer task do not lag (`"late"` is not among the
   faults): `BufferOwnership`; the refinement `HalfDuplex`, with every call of a completion
   a step of `BusService`; that the only assertion left to
   fail is the one of finding `uart_noise` (`OnlyRxInTx`); and that no operation is
   forgotten (`OperationsDue`, the safety core of `OperationsEnd`). `PInv` adds `PromptInv`:
   an operation of the client holds the buffer or the hardware, or has its flag set
   (`RxUnderWay`, `DonePending`); a buffer is lent only for it (`BufferLent`); a low pulse
   waits only while there is none (`FallOwned`, `LowOwned`); there are never two
   (`OneOperation`); and the transmit interrupts are enabled only while the transmission has
   its buffer (`TxFed`). With lag a new operation can begin while a flag of the last one waits.
   `PulseNotForgotten` is the safety core of `LowPulseAnnounced`: a low pulse the interrupt has
   seen keeps its flag until it is announced, also behind a reception not yet completed.
3. *`Calm`*, no faults: `AssertsHold` and `FrameComplete`. `CInv` adds that the pin is routed
   to the transmitter exactly while there is a transmission (`PinFollows`), that nobody
   else sends then (`SilentInTx`), and that the bytes in the FIFO, in the buffer and still to
   come make up the frame (`BytesKept`). Each kind of fault alone breaks both
   properties in TLC, so that no weaker hypothesis about `Faults` would do.

**TimWorkerProofs** proves `TypeOK` and `NoLostWakeup` for any set of posters, any calls and
any queue length, and that every step of the timer worker is a step or a stutter of
`Deferred` (`Refinement`). `NoLostWakeup` is inductive with the types: whoever stops the
timer is still going to start it.

**TimersProofs** builds on it: beside the client's timer the same holds of the worker
(`TypesCorrect`, `WakeupKeptBeside`), `jd_timer` runs what its alarm was started for
(`NeverEarly`), and the client's timer implements the safety part of `OneShot`
(`ClientRefines`), for any callbacks, none of which is forgotten (`CallbackNotForgotten`, the
safety core of `KeepsTimer`). The invariant needs `AlarmMatches`: the alarm
pending, or the one `jd_timer` is called for, belongs to the callback that is set, or
that callback has run already.

**TimUsersProofs** is about the users of the timer worker on one queue of any length:
`TypeOK`, `AssertsHold`, `FrameWhole`, `InUseUntouched`, and that SPI and LED strip implement
the safety of `AsyncXfer` (`NeverCalledTwice`). `QueueOK` says that a completion is queued
at most once; `SpiInv` and `LedInv` say where a transfer can be (with the main task, the
driver, the queue or the timer task), that it is in one place at a time, and that its
done function is owed once until then; `EncoderInv` relates what the channel's
memory has taken to where the encoder stands. The part of the console is the proof of
`UsbProofs`, instantiated. As in `timusers`, done functions start no transfers; when
they do, `spi_reentrant` shows the assertion violated.

`QueueServed` closes the composition: the users do nothing to the queue but what `Deferred`
promises, and `TimWorkerProofs` shows that the worker keeps that. `DoneIsComing` and
`ConsoleNotForgotten` are the safety cores of `DoneExactlyOnce` and `ConsoleDrains` (`Coming`: a
done function that is due is itself queued, or its transfer is with the driver or its end
in the queue; and `NothingStuck` on the shared queue), although no user looks at what
`tim_worker_run` returns. Both count the queue: it holds one call for each position of
`fill_queue` and one for each other call in it (`QueueCount`), and the others are at most
one for each SPI transfer and one for the strip, less the one about to be posted
(`CallBound`).

* `DoneIsComing` assumes `RoomForAll`, room for all of these beside the calls of
  `fill_queue`. It is a hypothesis about the behaviour and not about the constants: both
  callers of `fill_queue` can pass the unlocked test of `fq_scheduled` each time, so that
  no number bounds its calls, and with the queue full of them a completion is refused.
* `ConsoleNotForgotten` assumes `ConsoleRoom`, that SPI and LED strip alone do not fill the
  queue. Then a full queue holds a call of `fill_queue` (`FullHasFill`), and the one that is
  refused is not missed.

**UsbProofs** proves `NothingStuck` and `InputExact` for the three kinds of chip and any
number of packets. `fq_scheduled` announces a call that has not started (`FlagHasCall`), the
interrupt is enabled while there is a packet to fetch, and raised when the hardware has
nothing left (`IrqArmed`), and what the main task has counted but not read is still there unless
the interrupt came in between (`MainHolds`).

**MainLoopProofs** proves `TypeOK`, `PendingHasEvent`, `FrameHasEvent` and `LoopWatched` for any
queue length and number of frames. The last needs that a run under way is watched
(`RunsWatched`) and what is true until the first one (`BeforeFirstRun`): the belief on
which `app_main` leaves the watchdog. `LoopNeverDead` is the safety core of `LoopRuns`: when
nothing is coming, the timer runs (`TimerOn`), and if `loop_pending` keeps it from posting,
the watchdog waits for the loop's task. `RestartHasCause`: the watchdog restarts the
firmware only after the queue has refused an event, or while `app_main` is kept from
resetting `loop_pending`.

**SockProofs** proves `TypeOK`, `FdOpen`, `NoLeak` and `NoStaleWrite` for any number of
requests. `FdFresh` says that the worker sets `sock_fd` to the connection it was asked for,
after closing the one before; `Numbered`, that the requests in the command queue follow
one another; and `FdCurrent`, that `sock_fd` is that of the request in progress, so that a
write cannot meet another one. `PatientInv` is what a client that lets an error settle
can rely on: nothing of the last connection is left while the next is opened, and a
task about to close has read the number that `sock_fd` still holds, or it is 0.
`AnswerOnItsWay` is the safety core of the liveness property `Answered`: a client that waits
has its request in the queue, in the worker's hands, or an event coming. It needs that
the main task closes without a report only when the client asked it to (`QuietClose`), so
that a `raise_error` of the worker that finds no descriptor is not silent. `GoneIsForgotten` is
that of `PollEnds`: while a request is opened the main task does nothing (`OpeningQuiet`), so
that the worker cannot set `is_connected` for a descriptor closed in the meantime.

**ServicesProofs** proves

* `ColourShown` of the status LED for any colours and queue depth: the components stored so
  far are those asked for, and the driver, which reads the buffer only as a transmission
  starts, reads it for the last frame in flight after all of them have been stored;
* `SignalRight` of PWM for any pins, timers and requests with `InRange`: resolutions of 1 to
  21 bits, and products that stay in the word. `PwmInv` says that a channel uses its
  pin's timer (`OwnTimer`), which the search for a free timer must not give away, that
  its duty is below the resolution (`DutyBelow`), and that timer and channel give what was
  asked for that pin (`ChannelRight`), also while it is disconnected;
* of WiFi, that each scan is answered once (`ScansAnsweredOnce`, the safety half of
  `TellsClient`), that none is forgotten before (`ScansDue`), and that the client's belief is
  right or about to be corrected (`BeliefKept`): the scans owed are counted by the events
  and the scan under way, and a link lost under a believing client has its event queued;
* `FindsFirst` of `extract_property`, for all lists and keys up to any bounds on their lengths
  (`MaxLen`, `MaxKey`); the lemma `LookupFirst` has no such bounds. The loop is a recursive
  function over offsets, whose value for every input would need induction. `LookupFirst`
  does without: the value after the first matching pair, written in closed form,
  satisfies the loop's equation, and no other function does, since two that differ
  would differ at a last offset (`LeastNumber` of the distances from the end), where the
  equation refers to a later one. It needs `BagConstantsOK`: no key contains `Sep` or "=";
* `TypeOK` of all four parts (`ServiceTypes`), for requests with `InRange`.

So every invariant of a passing run is the subject of a theorem. **Only model-checked** is
liveness under fairness, since the prover has neither ENABLED nor fairness. Of each such
property the safety core is proved, that what has to happen is never forgotten:

| Property | Safety core |
|---|---|
| `OperationsEnd`, `LowPulseAnnounced` | `OperationsDue`, `PulseNotForgotten` |
| `KeepsPromise` | `WakeupKept`, `Refinement` |
| `KeepsTimer` | `CallbackNotForgotten`, `ClientRefines` |
| `DoneExactlyOnce` | `NeverCalledTwice`, `DoneIsComing` |
| `ConsoleDrains` | `ConsoleNotForgotten` |
| `Drains` | `NothingForgotten` |
| `LoopRuns` | `LoopNeverDead` |
| `Answered`, `PollEnds` | `AnswerOnItsWay`, `GoneIsForgotten` |
| `TellsClient` | `ScansAnsweredOnce`, `ScansDue`, `BeliefKept` |

## 6. Plan

Done: every component of section 2 modelled and checked; every safety property of the
passing runs proved; the refinements of `BusService`, `Deferred`, `OneShot` and `AsyncXfer`
proved in their safety parts; the safety core of every liveness property proved.

Left: a bound on the calls of `fill_queue` in the queue, from how far the timer task may lag
behind both its callers, which would turn `RoomForAll` into a condition on `QueueLen`.

### Not modelled

* *Pins, I2C, ADC, flash, SD card and bit-banged SPI*: each operation is one call of a
  driver or a fixed run of register writes, made from one task, with a flag at most that
  says the part is set up. A model would repeat the code, and no property about it
  would relate more than one step to the next.
* *Logging and panic output*: the log's ring buffer is the client's (a submodule); the
  copy to the UART is made by the main task alone; after a panic nothing else runs.
* *Encoder creation, record translation, `jd_hmac_b64`, `hw_device_id`*: allocation and
  data, without control.
* *A board without a Jacdac pin* (`hw-esp32.c:318, 384-387, 394`), *a driver that has no RMT
  channel or encoder left* (`ledstrip.c:19, 25`): the first has no bus, the second stops.
* *The two register writes* that hand a packet to the serial-JTAG unit and clear its
  interrupt (`usb.c:133`) are one step.
* *Platform*: critical sections are the grain of the models; reboot and deep sleep end
  the program.
* Timing other than order, the content of data, memory allocation.
* The client (submodules, not in the repository) and ESP-IDF, except as external actions.
