# ESP32 IR remote: a TLA+ model of the way from a power event to the TV

The repository holds a USB stick (ESP32 firmware) that sends infrared codes to a
TV, and a daemon for Linux and Windows that tells it `ON` or `OFF` when the PC's
display or power state changes. The promise behind it all is that the TV mirrors
the PC, and that the log never claims otherwise. This directory models the parts
on which that promise rests, checks them on small instances with TLC, and proves
the central ones for every instance with TLAPS.

Run anything here with `tlc -config <X>.cfg <Module>.tla` or `tlapm <Module>.tla`.

## 1. Inventory

Paths are under `src/`.

| Component | State | Operations | Hard behaviour |
|---|---|---|---|
| HID transport, `daemon/src/HIDTransport.cpp` | handle `dev_`, sequence byte `seq_`, one deadline per send, locals of the write loop | `send` (open, drain, write loop with reopening, `awaitAck`), `invalidate`, constructor | stale replies, retries that duplicate, one deadline checked in five places, a handle that is dead or belongs to another device |
| USB link and host HID queue (external) | enumeration, OUT and IN endpoint, input queue behind the handle | enumerate, vanish, poll | replies outlive the send they answer |
| Firmware command path, `firmware/src/main.cpp` | `received_`, `rxBuf_`, USB flags, `loop()`'s locals | `_onOutput`, `onUsbEvent`, `serviceUsbRecovery`, command half of `loop()`, reset | two tasks on two cores share a buffer with no lock; a one-deep mailbox that overwrites |
| Daemon `main`, `daemon/src/main.cpp` | `bootOnPending` | command and device callbacks, start-up ON, `systemJustBooted` | a flag that outlives the situation it was set in |
| Linux power monitor, `daemon/src/LinuxPowerMonitor.cpp` | inhibitor lock, udev watch | `run`, `drainDeviceEvents`, `onPrepareForSleep`, `onPrepareForShutdown`, taking and releasing the lock | one thread, slow sends in front of a deadline that logind sets |
| Windows power monitor, `daemon/src/WindowsPowerMonitor.cpp` | `desiredOn_`, `lastDisplayState_`, one pending slot and three flags under a mutex, service status | `serviceMain`, control handler, `workerLoop` | three threads, coalescing, lost wakeups, shutdown overtaking requests |
| Profile storage, `firmware/src/Profiles.cpp` | profiles, active index and settings in flash and RAM | `begin`, `writeJsonAtomic`, `replaceAll`, saves, `factoryReset` | power loss between the steps of a write or between two writes |
| Button, `firmware/src/Button.cpp` | level, edge and press times | `update` | classification depends on when it is sampled |
| Display and UI, `firmware/src/Display.cpp`, `main.cpp` | screen on or off, timers, `pressCount` | show, expire, cycle | a count that stands for "the screen is lit" |
| WiFi config mode and web API, `firmware/src/main.cpp` | `wifiActive`, access point, server | start, POST handlers, exit | handlers and button change the same state from two sides of `loop()` |

Interactions: the power monitors call `ITransport::send` through callbacks that
`main` installs; `send` and the stick exchange 64-byte reports over USB; the
stick's USB task hands a report to `loop()` through `rxBuf_` and `received_`;
`loop()` reads the active profile, which the button and the web API change
between two rounds; logind, udev and the Windows service manager call the
monitors.

What makes each part correct:

- transport and stick together: `send() == true` means the TV was last sent that
  command; stale replies never match; commands do not overtake each other; every
  send returns, and in its time budget;
- Linux: the OFF is tried before the machine goes down, as far as logind's window
  allows, and little is sent in front of it; a confirmed OFF stays;
  no ON without a wake-up or a fresh boot; the lock is let go, and comes back;
- Windows: the latest request wins; a dark display means a dark TV; no service
  that was told of a shutdown stops before its OFF; no request or stop is slept
  through;
- firmware storage: whatever the power does, `begin` finds old or new data, and
  an index in range; a list is lost only to a flash that failed;
- firmware UI: the first press lights the screen, later ones cycle; holds do
  what the bar on the screen says; the screen names what the next command does,
  and is dark and lit as it was set.

`PROJECT.json` lists the places where each of these can go wrong (`hazards`).

## 2. Modules

| Module | What it models |
|---|---|
| `UsbBus` | the wire format, the endpoints, the host's queue. Shared state of the next two |
| `HIDTransport` | `send()` step by step, `invalidate()`, a restart of the process |
| `StickCommand` | the USB task and `loop()` of the firmware, resets |
| `HidConversation` | the two together; its properties and the inductive invariant |
| `TvLink` | what `ITransport::send` promises its caller, with no USB in it (abstract specification) |
| `LinuxPower` | `main` and `LinuxPowerMonitor` over `TvLink`, with logind and udev |
| `WindowsPower` | the three threads of `WindowsPowerMonitor` over `TvLink` |
| `ProfileStore` | `Profiles.cpp`: RAM, the two files, writes and loads step by step |
| `Button` | `Button::update()`: what one sample of the pin leads to |
| `Display` | `Display.cpp`: which screen is up, and the timer that changes it |
| `FirmwareUi` | `main.cpp` of the firmware over these three: callbacks, web handlers, `loop()`, power |
| `ListMemory` | what `Profiles.cpp` promises for the list of TVs, with no files in it (abstract specification) |
| `*_proofs` | the theorems about the module of that name; `FirmwareMemory_proofs` continues `FirmwareUi_proofs` with the refinement of `ListMemory` |
| `MC*` | instances for TLC; the constants are in the `.cfg` files |

The layers meet in `TvLink`: `HidConversation` is shown to implement it, and the
two power monitors `INSTANCE` it, so that a monitor's model has a transport with
exactly the freedom the real one has: a send that failed may have switched the TV
all the same, or do so later, or never. `FirmwareUi` is the other half of the
stick: `StickCommand` leaves the active profile open, `FirmwareUi` says which one
it is, and leaves open when a command comes. Its storage is shown to implement
`ListMemory`.

### How the conversation's state corresponds to the code

`pc` is where `send()` stands: `"write"` before a `hid_write`, `"reopen"` in
`reopenBefore`, `"await"` in `awaitAck`. `spent` is `Clock::now()` minus the
start of the send; only sleeps, blocked writes and `hid_read_timeout` take time.
`txBuf`, `seq`, `attempt`, `dev` are the variables of the same name; `inq` is the
kernel's queue of input reports behind the handle. A handle is `"none"`, the
stick, `"foreign"` (another device with the same test VID/PID, which
`openMatching` takes when it is the only match) or `"dead"` (the device it was
opened on has left the bus). `loop` is where the firmware's `loop()` stands
between its accesses to `received_` and `rxBuf_`; `usb = "copying"` is the USB
task in the middle of `_onOutput` on the other core.

Reports carry ghost numbers: `sid`, the send whose sequence byte it has, and
`cid`, the send whose command word it has. The code has neither; they say what a
byte on the wire cannot, and the properties are about them. They differ exactly
when `loop()` puts a reply together from two reports.

The active profile is not a variable: each transmission chooses which of the two
directions have a code, because the button and the web API change the profile
between two rounds of `loop()` and nothing else in this part depends on it.

### Linux and Windows

In `LinuxPower`, `at` is where the daemon's one thread is (constructing, in
`main` before `run()`, polling, draining udev, dispatching D-Bus, sending), and
`Tried` is what each handler does with the result of its send. `phase`,
`waiting` and `window` are logind: it collects who holds a lock, broadcasts, and
waits for the lock to close or for `InhibitDelayMaxSec`. Time passes only during
sends. Stopping the service is SIGTERM with its default effect, since the daemon
installs no handler; a new start begins in the constructor, and what the old
process was about to send is lost. `ahead` is a ghost: the sends logind has had to
wait for in this window other than the OFF it waits for, one that was running when
it announced included.

In `WindowsPower` every block under `queueMutex_` is one step together with the
`notify_all` behind it, a wait on the condition variable is `worker = "asleep"`,
and a notification moves it to `"check"`, where it evaluates the predicate again.
Spurious wakeups are not modelled: they re-evaluate the same predicate.

### Firmware UI

`at` is where `loop()` is: `top`, `button`, `display`, `wifi`, `serve`, `hid`, and
round again. A handler that writes flash leaves this path (`cycling`, `resetting`,
`posting`, `wiping`) until `job`, the list of store operations it asked for, is
done; `booting` is `setup()`, `off` a stick without power. The store works on the
first operation of `job`; `step` is where `writeJsonAtomic` is in it. Power can go
between any two steps. The watchdog's reset is a power loss.

- A point in time is an age (`held`, `sinceEdge`, `elapsed`) that grows by 0 or 1
  per turn and by up to `Stall` while `handleClient` blocks, and stops at the
  largest threshold it is compared with.
- A profile is a TV and whether the button stops at it. `file[f]` is the set of
  the document in file `f`, empty when there is none; `torn` are the files whose
  content does not parse. A `.tmp` file that a power loss leaves is read by nothing
  and truncated by the next write, so it is not state.
- LittleFS is taken to rename atomically, as it documents. Everything else it does
  may fail: mounting, opening, writing, closing, renaming, reading. Writing and
  closing differ: a write that the `File` refuses shows in the length
  `serializeJson` returns (`ShortWrite`), one that fails when the buffered rest is
  brought to the flash in `f.close()` shows nowhere (`CloseFails`), and the short
  `.tmp`, which does not parse, is renamed over the list.
- Requests come in any order, as from several pages. `Uploads` are the lists a
  page may post; the refusals of the two POST handlers are `Unserved`.
- `Memory` is the mapping to `ListMemory`: its list in use is `profiles_`, its kept
  list the document in `/profiles.json`, and `Mode` reads off `at` and `job` whether
  the stick is loading, saving, resetting, loading again after a reset, or at work.
  The steps of `writeJsonAtomic` up to the rename are stutters of it, the rename is
  its `Save`, `Restore` or `Install`, or `KeepsNothing` where the close had failed,
  and the removal in front of a second try is
  its `Lose`.
- `trusted` (no read, format, removal or close that failed has lost the profile
  list since it was last written whole) and `seenDown` (the hold that was actually
  sampled) are ghosts.

## 3. What the runs check

| Run | Question | Result |
|---|---|---|
| `conversation` | one life of the daemon, untorn copies: do stale replies ever match, is a confirmed command what the TV shows, is `TvLink` implemented? `IInv` is the invariant the proofs use | holds |
| `hostile` | torn copies, a restart, a foreign device, writes that block: what is left? The types, the time budget, commands transmitted in order and as sent | holds |
| `live` | does every send return, is no arrived report dropped by the flag protocol? | holds |
| `torn` | `loop()` reads while `_onOutput` copies: does `true` still mean "transmitted"? | violated |
| `restart` | the same question across a restart of the daemon | violated |
| `linux` | the real 5 s and 2 s: is the OFF tried before the machine goes down whenever what was sent in front of it leaves it the time, how much can that be, is every ON explained, is the lock let go and taken again, and nothing of logind's left waiting when the daemon polls? | holds |
| `linux_window` | is the OFF always tried before the machine goes down? | violated |
| `linux_boot_on` | does a confirmed OFF stay? | violated |
| `windows` | five control codes in every order against the three threads: is a request, a stop or a shutdown lost or overtaken, does the worker sleep on one? | holds |
| `firmware` | button, screen timers, requests, commands, a blocking client, one flash fault and one power loss at any step: does the screen tell the truth, does the flash keep what was saved, do a press and a reset do what they say, is `ListMemory` implemented? | holds |
| `firmware_ok_saved` | is what was answered with `{"ok":true}` in the flash? | violated |
| `firmware_tap` | is a tap a press? | violated |

### What the violations show

- **torn.** `_onOutput` (USB task) and `loop()` share `rxBuf_` with no lock. If
  the copy of a later report begins between `loop()`'s read of byte 0 and of the
  word, the stick answers the new number for the old command, and `send()`
  returns true for a command that was not transmitted. The window is small;
  nothing closes it.
- **restart.** `seq_` starts at 0 in every process, so the first send of a new
  daemon has the number of the first send of the old one. A reply that was still
  in the stick is taken for its own.
- **linux_window.** Everything queued before `PrepareForSleep` is sent first, on
  the only thread. A start-up ON and a udev ON that run into their timeout take
  4 s of logind's 5 s, and the OFF's own 2 s do not fit.
- **linux_boot_on.** `bootOnPending` is not cleared by an OFF. A udev event that
  is handled after the OFF of a sleep or shutdown was confirmed sends the ON
  that the boot still owed, and the machine goes down with the TV on.
- **firmware_ok_saved.** `saveProfiles` and `saveSettings` drop what
  `writeJsonAtomic` returns. With a full flash the page is told `ok`, and "Save &
  Exit" then shuts the access point down, which the page's own comment says must
  not happen.
- **firmware_tap.** `held` is measured between two runs of `update()`. A tap that
  begins before `handleClient()` blocks and ends while it does is as long as the
  block, up to 12 s: long enough to leave config mode under the page. With
  `Stall = 0` the same configuration finds no violation.

Seen while modelling, and not made into a run:

- `packaging/prerm` says stopping the service sends OFF. The daemon installs no
  signal handler, and nothing else does it. The models stop the service at any
  point.
- An ON for a wake-up that finds no stick is dropped; only the boot ON waits for
  udev. `brief.md` speaks of "a command owed to a device that has not arrived yet"
  in general, and of the boot ON where it describes the mechanism.
- The length check of `writeJsonAtomic` does not see a write that fails in
  `f.close()`. `written` counts what the `File` took into its buffer; the buffer
  reaches the flash at the close, which returns nothing. A flash that is full at
  that moment leaves a short `.tmp` with `written == expected`; it is renamed over
  the list, and the next boot, which cannot parse it, writes the defaults. That is
  the case `brief.md` gives for the check, "a *truncated* write, from the flash
  filling up". The model has the fault (`CloseFails`), `BootKeepsTheList` and
  `ListKept` except it, and `ListMemory` has the save that `KeepsNothing`.
- `setup()` shows the status screen and leaves `pressCount` at 0. Only a button
  callback, the end of config mode or a screen that goes dark sets it, so with the
  display always on the first press after a boot is spent on lighting a lit screen;
  `brief.md` says that then every press cycles. `NoBlindSwitch` is about the other
  half, the press in the dark.
- A web exit clears `wifiActive` one round before the access point is torn down. A
  4-7 s hold that ends in between starts config mode again instead of leaving it.
- When the rename fails, `writeJsonAtomic` removes the target and tries again: a
  power loss there loses the file. `brief.md` calls the writes atomic, and they
  are until the first rename has failed. `BootKeepsTheList` makes this exception,
  and those of a read, a format and a close that failed.
- A `profiles.json` that could not be read once at boot is overwritten with the
  defaults, and a file system that does not mount is formatted. `brief.md`
  describes the first as recovery.
- A page saves in two requests, and between them the old index selects from the
  new list.

### Bounds, and why they are enough

- `SeqMod = 3` (the sequence 1, 2, 1, 2, ...; 0 is skipped as in the code) with
  three sends is the smallest instance that wraps and reuses a number. The
  theorems cover 256. The byte can only do its work if the stick does not hold a
  report while the daemon goes once round: `StickKeepsUp` says so, and is the one
  assumption on the environment. In the code a round is 254 sends, against a
  stick whose watchdog fires after 20 s without `loop()`.
- Two attempts and `SendTimeout = 2` reach every exit of the write loop
  (exhausted attempts, exhausted time, no device) and of `awaitAck`.
  `MaxDrain = 1` leaves replies in the queue for `awaitAck` to discard.
- `WriteStall` is how long one `hid_write` may block; 0 where time is not the
  question.
- `MaxFaults` counts bus suspends, resets and unpluggings, `MaxRestarts` daemon
  restarts. One of each, at any point, meets every state of a send.
- `linux`: two announcements, one udev event and one stop, at any point, with
  `InhibitDelay = 5` and `SendTimeout = 2`, logind's default and the daemon's own
  number in seconds. At most three sends can then be in front of the OFF
  (`FewAhead`), which is more than the window takes; one send and the OFF fit. The
  theorems `OffTried` and `FewGetAhead` are for any numbers.
- `windows`: `MaxEvents = 5` lets a display change, a suspend, a resume, an
  arrival and a shutdown meet in one behaviour.

- `firmware`: thresholds one tick apart and above `Debounce`, in the order of
  `HoldTimings.h`. `Stall = 2` jumps over a whole class of holds; `ScreenTime = 2`
  lets a second press meet a lit screen. Of the two uploads one is shorter than the
  active index may be and hides its first profile, so that the button passes it
  over; the other is longer than `MaxProfiles` and refused. One fault and one power
  loss, each at any step: what fails again within one `writeJsonAtomic` after the
  first failure counts as the same fault. The cap on a loaded list never cuts
  anything, since nothing writes a longer one.
- The violating firmware runs have only the faults their question needs, so that
  their counterexamples contain nothing else.

The largest run is `firmware`, with 3.07 million distinct states, in about a minute
and a half; `linux` has 776 thousand and `windows` 89 thousand.

The bounded counters stop environment and caller, not the system; a stopped
environment is a state in which the daemon waits. No run switches the deadlock
check off.

### Fairness

`HidConversation`: weak fairness of a running `send()` (the daemon's only thread
does nothing else), of the USB task, of `loop()` (both FreeRTOS tasks, under a
watchdog) and of the host's polling. No fairness of unplugging, resumes, power
coming back or the caller. `LinuxPower`: the daemon's thread, whose sends return
because `live` shows it; nothing is assumed of logind. `WindowsPower`:
`serviceMain` and the worker. The handler is called by Windows, which owes nobody
an event. `FirmwareUi` has no fairness and no liveness property: it is one thread
that waits for nothing, and what it owes a user it owes within one turn.

## 4. What is proved

All theorems are for every value of the constants: any sequence width of at
least 3, any timeouts, attempts, drains, numbers of sends, announcements, stops,
control codes and faults, any lists of profiles and any thresholds in order.

| Module | Theorem | Says | Rests on |
|---|---|---|---|
| `HidConversation_proofs` | `TypeCorrect` | `TypeOK` | nothing |
| | `CommandOrder` | the stick never transmits an older command after a newer one, or one nobody sent (`CommandsAsSent`) | nothing: torn copies, restarts and foreign devices included |
| | `BudgetKept` | a send overruns its timeout by less than one blocked write | nothing |
| | `NoStaleMatch` | no reply to an earlier send carries the number waited for | no restart |
| | `ConfirmedIsTransmitted` | `true` means the TV was last sent that command | no restart, no torn copy |
| | `ConversationImplementsTvLink` | every step is a step of `TvLink` or a stutter | the same two |
| | `Invariance` | `IInv`, the whole inductive invariant of the conversation | the same two |
| `TvLink_proofs` | `LinkKeepsPromise` | in `TvLink`, `true` means nothing else can still reach the TV | nothing |
| `LinuxPower_proofs` | `TypeCorrect` | `TypeOK` | nothing |
| | `OnExplained` | every ON is for a wake-up or a fresh boot | nothing |
| | `OffTried` | the machine goes down without its OFF tried only if the sends in front of it last, with its own, as long as the window (`OffTriedInTime`) | nothing |
| | `FewGetAhead` | at most `MaxAdds + 2` sends are in front of the OFF (`FewAhead`) | nothing |
| | `LockIsAtRest` | when the daemon polls with every signal dispatched, logind is not waiting for it, and after a sleep it has its lock | nothing |
| `WindowsPower_proofs` | `TypeCorrect` | `TypeOK` | nothing |
| | `LatestWins` | a sleeping worker whose send was confirmed left what was asked for last | nothing |
| | `DarkStaysDark` | the TV is not left confirmed on behind a dark display | nothing |
| | `OffPrecedesStop` | a service told of a shutdown stops with the TV confirmed off, if confirmed at all | nothing |
| | `NothingIsSleptThrough` | a worker that is asleep has nothing to do | nothing |
| `FirmwareUi_proofs` | `TypeCorrect` | `TypeOK` | nothing |
| | `NoSwitchInTheDark` | a press in the dark never switches TVs | nothing |
| | `HoldShown` | during a hold the screen says what letting go does | nothing |
| | `ActiveStaysInRange` | the active index is inside the list at every turn | nothing |
| | `ListKept` | a boot restores the defaults only over a list that a read, a format, a removal or a close that failed had lost | renames are atomic |
| | `RamIsKept` | RAM is what the next boot loads | renames are atomic, no flash fault |
| | `StatusIsTrue` | the status screen tells the active profile and config mode | nothing |
| | `ScreenIsAsSet` | the screen is dark or lit as the settings say | nothing |
| | `PressGoesToNextVisible` | a press goes to the next visible profile and passes over none that could be seen | nothing |
| `FirmwareMemory_proofs` | `StickImplementsMemory` | every step of the stick is a step of `ListMemory` or a stutter | renames are atomic |
| | `ResetGivesDefaults` | a factory reset ends with the defaults in use | renames are atomic, no flash fault |
| `ListMemory_proofs` | `InUseStaysKept` | in `ListMemory`, the list in use is the one the next boot loads | no flash fault |

### The conversation

The two conditions (no restart, no torn copy) are exactly the two that `torn` and `restart` violate: drop
either and TLC has a counterexample.

None of the properties is inductive, because each is about the
end of a path that a command travels: `txBuf`, the OUT endpoint, `rxBuf_`,
`loop()`'s local, the IR LED, and back with the reply. The invariant `IInv`
follows the whole path, in parts that rest on different assumptions:

- `CommandsInOrder`: along the path commands only get newer. This needs no
  assumption and gives `CommandOrder`.
- `AcksFollow`: an ACK under way answers a command that has been transmitted.
- `SequenceTells`, `RepliesTell`: the number of anything under way tells how many
  sends ago it was made, modulo `SeqMod - 1` and leaving out 0. It is preserved
  when a number is drawn because `StickKeepsUp` bounds the age, and it is what
  makes equal numbers mean equal sends (`NoStaleMatch`). A restart breaks it.
- `HeadersNotAhead`, `RepliesMatch`: a reply never has the number of a later
  report than the one whose command it answers. A torn copy breaks it.
- `Confirmed`: the conclusion. When `awaitAck` matches an ACK, `RepliesTell`
  gives that it answers the current send, `RepliesMatch` that its command is not
  older, `AcksFollow` that it was transmitted, `CommandsInOrder` that nothing
  newer exists.

`Invariance` states `IInv` as a whole; `conversation` checks the same formula
with TLC.

### Linux

`OnExplained` needs no more than the types. `OffTried` is about time, and assumes
nothing of the two times. `Accounted` is its invariant: the ticks of the window that
are gone were spent in the sends that `ahead` counts, at most `SendTimeout` in each,
and in the OFF once it is under way. So a window that has run out with the OFF still
under way had, with the OFF, at least `InhibitDelay` ticks of sends in it.
`LockFollowed` says that a process that is waited for runs and has the signals, and
`WaitsForOff` that nothing but a tried OFF or the end of the process ends the wait.
With 5 s and 2 s the OFF is therefore tried with up to one send in front of it;
with two it may not be, and `linux_window` is what happens.

`FewGetAhead` says how many those are. `FewTurns` counts, beside `ahead`, the sends
that can still come (`Turns`): the start-up ON, one for each udev event drained or
still to come, and those of the signals in front of the OFF's (`Backlog`). That
there is at most one ON of a wake-up among them is `Alternating`: the signals in the
queue alternate between beginnings and ends. `WaitsForNews`, below, says that there
is an OFF's signal for the count to end at.

`LockIsAtRest` is the safety half of `LockIsLetGo` and `LockComesBack`: what those
two add is that the daemon does come back to `poll`. It is about what is not
visible from one handler, namely that the signal which will take the lock again,
or let it go, is still in the queue whenever it has not been done. `WaitsForNews`
says this of the announcement: while logind waits, there are signals to dispatch
or the OFF is being sent. `Regained` says it of the wake-up: a machine that is up
again, with no signal left, has its lock or is sending the ON of the wake-up,
behind which the handler takes it. `LastEnds` keeps sleep and shutdown apart: what
is last in the queue of a machine that is up is of the kind that was announced
last, and only the end of a sleep takes the lock again. A refused lock
(`Refusals`) is excepted because the code does not ask twice.

### Windows

`SlotIsLatest`: what is pending is what was requested last. `LatestFollowed`: when
nothing is pending, the last request is in the worker's batch, or is the command
being sent, or is what the last confirmed send asked for, except where a shutdown
replaced it. With `Link!Promise` (the theorem about `TvLink`) a confirmed command
is what the TV shows, which gives `LatestWins`. `DisplayDecides` adds that a dark
display's last request is OFF (`DarkStaysDark`). `ToldOnce` and `OffIsLast` follow
the end of the service: the worker ends for a stop or a shutdown only, and after a
shutdown its last send is the OFF (`OffPrecedesStop`).

`NothingIsSleptThrough` is the safety half of `StopsWhenTold` and `RequestsServed`:
every step that makes `Something` true is under the mutex and notifies, and the
worker goes to sleep only from a test of the same predicate. With it, only the
scheduling of a worker that is awake is left to liveness.

### Firmware

- `ScreenInv` (`NoSwitchInTheDark`, `HoldShown`): a `pressCount` other than 0 means
  a lit screen, and the bar that is remembered as drawn is the one on the screen.
- `RangeInv` (`ActiveStaysInRange`): between RAM and list the index may be out of
  range only while a load of the settings, which clamps it, is the last thing
  still to do; and where `loop()` is in its turn nothing is left to do.
- `Jobs` says which operations can be left where, and in which order: a list of
  profiles is written first or not at all, and `restoreDefaults` follows directly
  on the load it looks at. On it rest `Whole` and `BootReads` (`ListKept`): a
  file is torn, or about to be, only where something has failed, a trusted list is
  there, no file and no save holds an empty list, and a boot that finds a trusted
  list has it in RAM when it decides.
- `Fitting` and `Fresh` (`RamIsKept`): each file holds what is in RAM unless a save
  or a load of it is still in `job`, and no list is longer than a load keeps.
- `RadioInv` and `StatusInv` (`StatusIsTrue`): requests are served in config mode
  only, the display is told of every change of the access point, and where no
  flash work is under way the last profile drawn is the active one, except between
  a page's exit and the teardown.
- `SetInv` (`ScreenIsAsSet`): a dark screen, or a timer that will darken it, goes
  with settings that allow it; a timer that returns to the status screen with ones
  that keep it lit; and a lit screen without a timer with the same or with a hold
  that has not been spent on a reset, which is why a reset that fired must have
  seen the longest hold.
- `PressGoesToNextVisible` needs `RangeInv`, since the search starts from the index
  it finds, and lemmas about `(start + i) % n`: the indices it passes are, in this
  order, those `Between` the two.

### The list of TVs as a memory

`ListMemory` says what the files are for: a memory of one list that is replaced as a
whole, outlives the power, is lost or replaced with nothing only when the flash
fails, and is in use while nothing is being saved or loaded. `StickImplementsMemory` shows that the stick is
one, through a fault or a power loss between any two steps of `writeJsonAtomic`,
between the two files, during a boot or a reset.

The step lemmas need `StoreInv`, the conjunction of what the section above says of
the store, and one part of its own: `Left` lists which rests of a reset, a cycle or
a post can be what `job` holds. It is what makes `Mode` a program counter: a load
outside a boot is the one behind a reset's write, and a list that is written
outside a boot is either the one in use (`saveProfiles`) or the defaults. Each operation of
the store is then one lemma (`ListWritten`, `NothingWritten`, `ListNotWritten`,
`ListRemoved`, `ListLoaded`), and each action of `FirmwareUi` one case of `MemoryStep`. `Whole`
excludes a torn file except where the flash has failed, `BootReads` and `Fitting`
give the list that a load finds, and `Fresh` that `setup()` ends with the list the
file holds.

`InUseStaysKept` is then about `ListMemory` alone, and by the refinement about the
stick.

`ResetSoFar` (`ResetGivesDefaults`) follows a reset through its four operations:
which file already holds the defaults, and which half of RAM was already loaded
from it. Without a fault no operation fails, and a power loss ends the reset.

### Only model-checked

Liveness (`EverySendReturns`, `NoReportForgotten`, `LockComesBack`, `LockIsLetGo`,
`StopsWhenTold`, `RequestsServed`), which is out of TLAPS's reach because it rests
on fairness, and the properties that are violated. Of the last four the safety
halves are proved (`LockIsAtRest`, `NothingIsSleptThrough`).

## 5. Limits

- A write to another device with the same VID/PID is modelled as accepted; its
  input as unrelated to the protocol. A foreign device that answers a well-formed
  ACK, or a second process on the same stick, is not modelled: the documentation
  says the number cannot catch it.
- `hid_write` blocks at most `WriteStall`; the code does not bound it.
- A 63-byte copy is over before the IR LED is: `TransmitIR` waits for the USB
  task. A torn copy therefore shows only between two reads of `rxBuf_`.
- `LinuxPower` counts only sends as time. `LockComesBack` is checked for a logind
  that grants what it is asked for (`Refusals = FALSE`): the code logs a refusal
  and does not try again. After a cancelled shutdown the lock stays released until
  the next sleep cycle, as the documentation's known gaps say.
- A suspended Windows machine is one in which no step happens for a while.
- `OffBeforeStopped` speaks of an OFF that was confirmed: a send that fails lets
  the service stop all the same, which the documentation demands ("a `false` from
  `send()` must never stop the machine").

- A fault leaves a file whole, short or gone. What a `.tmp` file left by an earlier
  write would show through a failed close, and whether a failed close leaves the
  directory entry of the new file at all, is LittleFS's business: `CloseFails` takes
  the outcome that the length check is there to prevent.
- The button is sampled once per turn and a turn takes 0 or 1 tick; a bounce is a
  sample that differs from the one before.
- A request that is being served when power goes is lost with its answer; a page
  that sends it again is another request.
- Between settings and list, `ActiveInRange` knows the index, not which TV the user
  meant by it.

Not modelled: console mode, the single-instance mutex and log files (they end
before the event loop or only write); the Windows checkpoint and wait-hint
numbers; JSON conversion and default profiles (data); the page's own script; the
drawing; the IR library; `tools/hid-test`; packaging, hardware, CI.

## 6. Plan

Done, in this order: the conversation (the core: everything else rests on it), its
proofs, `TvLink`, Linux, Windows; then the firmware's storage, button, display and
`loop()`, and the proofs about Linux, Windows and the firmware; then `ListMemory` and
its refinement, and the safety halves of the liveness properties.

Left, should the code change or more be wanted:

1. the script of the configuration page as a client of the two POST handlers,
   which would say which TV an index was meant for;
2. the retry of an inhibitor lock that logind refused, and an obligation for the
   ON of a wake-up that finds no stick, once the code has either;
3. Linux display state, a known gap of the daemon.
