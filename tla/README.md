# ULTiM8x8 verification project

TLA+ models of the programs in this repository, the TLC runs that check them
and TLAPS proofs about them. ULTiM8x8 is a family of LED panels; `arduino/`
holds the sketches that run on them. The largest of its own making is the
Dulles clock (`arduino/DullesNavKey`), a word clock with a five-way button and
ring (NavKey), several displays, settings in EEPROM, an NTP client, a time zone
looked up at a web service, and messages from a websocket and the serial line.
The project starts there and goes on to three independent programs: the sunrise
alarm clock, the Snake game and the receiver of the BiblioPixel protocol.

Contents: [inventory](#inventory), [plan](#plan),
[NavKeyDisplay](#navkeydisplay-the-front-panel),
[ClockSource](#clocksource-time-and-time-zone),
[SerialFraming](#serialframing-messages-from-bytes),
[SunRiseClock](#sunriseclock-settings-and-alarm),
[NtpRequest](#ntprequest-asking-for-the-time), [Snake](#snake-the-game),
[PixelReceiver](#pixelreceiver-frames-without-a-beginning), [runs](#runs),
[disagreements](#where-code-and-documentation-disagree), [proofs](#proofs),
[what is not shown](#what-is-not-shown).

## Inventory

| Part | State it keeps | Operations | What is hard about it | What makes it correct |
|---|---|---|---|---|
| Front panel of the Dulles clock: NavKey, displays, brightness, power (`DullesNavKey.ino`, `I2CNavKey.cpp`) | `CurrentDisplay_p`, `on_off`, `config`, the driver's `_stat`, the call stack | six callbacks, `set_display`, `set_brightness`, `toggle_power`, `Encoder_Rotate`, panel messages, `setup`, `factory_reset` | selecting a display polls for the next button inside the handler of the last one; power may fail anywhere | each event handled once, the display shown is the one saved, settings persist, indices stay in tables, nesting unwinds |
| Time source and zone (`DullesNavKey.ino`, `get_time.cpp`) | `ntp_clock`'s client and its offset, zone settings, `force_timezone_from_ip` | `set_timezone_from_ip`, `Now`, `add_to_timezone`, `set_timezone_offset`, time messages, `setup` | a wrapper that faults before it is set up; handlers that save twice; lookups against manual choices | the clock runs in the saved zone, a manual choice is kept, a requested lookup is made |
| Message dispatch (`handle_msg`) | none | one branch per topic | called from inside blends and from the splash in `setup` | split between the two parts above |
| Message framing (`serial_loop`, `webSocketEvent`) | `ser_msg` | cut a byte stream into topic and payload | the pieces depend on when the loop polls; 100-byte buffers | each line handled once, in order |
| Transitions (`word_drop`, `TheMatrix`, `wipe_around`) | masks, drops | draw from one text to the next | `TheMatrix` runs until random drops have hit every pixel | it ends |
| Faceplates and masks (`logic.cpp`, tables) | none | pure | index arithmetic | the words of a time |
| `DoomsdayClock`, `DS3231Clock` (`get_time.cpp`) | master, backup | choose, set the backup | NTP lost and regained | backup follows master |
| WyoBean, the MQTT predecessor | as the Dulles clock | MQTT callbacks instead of the NavKey | reconnects | as above |
| Snake | segments, snacks, direction, `GameOver` | move, eat, collide, `gameover` | a move that waits for a button inside itself; arrays at their limit; an index that is a place | a snake without gaps, one snack, a game that begins again |
| SunRiseClock | pattern, brightness, alarm, other settings, EEPROM bytes | setters with a byte each, alarm, `loadSettings` | two pairs of settings share an address; the alarm compares for one exact second; it may start, end or be cleared between any two turns of `loop()` | settings survive, the alarm rings, ends and is undone |
| its NTP requests | `ntp_pending`, the time of the last request and update, the socket | `requestNTP` | lost, late and reordered answers | the clock is set again and again, from the answer to the last request |
| Siblings of SunRiseClock (TakeANumber, STFU, esp8266-fastled-webserver...) | as SunRiseClock without an alarm | setters | the same | the same |
| simpleNumber, IncrementButton | a number | set, increment, broadcast | several clients | clients see the last number |
| BiblioPixel receivers | a frame being read | commands with a size and data | stalled, short and lost bytes, nothing that marks the start of a frame | a frame sent into silence gets its own answer; the receiver comes back |
| BLEhat | a packet buffer | parse packets | timeouts, restarts of a packet | only whole packets are used |
| Drawing demos, host GUIs, generators, vendored libraries, hardware | | | | not candidates: straight-line drawing, one message per button, third-party code, no program |

How the parts of the Dulles clock interact: there is one thread. `loop()` calls
`Now()`, `interact_loop()`, draws, and `my_show()` (which calls
`interact_loop()` again). `interact_loop()` reads the NavKey if its interrupt
line is low and calls the callbacks, makes a forced zone lookup, lets the
websocket deliver one event and reads the serial line; the last two call
`handle_msg`. The callbacks and messages change `config` and save it. Selecting
a display runs `blend_to_rainbow` for two of the four displays, and it calls
`my_show` after each of its steps: the whole of `interact_loop` is nested in the
callback, to any depth. `led_setup` also calls it once from inside `setup()`,
before the NTP client exists.

The list of hazards, each at its line and with the properties that watch it, is
in `PROJECT.json`.

## Plan

Done:

1. `NavKeyDisplay`: the front panel. Runs for settings with liveness, and for
   nesting. Theorems: all its state invariants, and for both disagreements what
   they come from.
2. `ClockSource`: time and zone. Theorems: its invariants, that it
   stays up, and what its lookups and messages never do.
3. `SerialFraming`: the bytes of `serial_loop`, `webSocketEvent` beside it, and
   the abstract `MessageChannel` they implement. Theorems: types, digits of
   their own, whole messages, topics cut short, and the refinement.
4. `SunRiseClock` and the abstract `SettingsStore` its settings implement;
   theorems: its safety properties and the refinement. `NtpRequest`: its
   requests over a network; theorems: its safety properties.
5. `Snake`, `PixelReceiver` with an abstract host. Theorems: their invariants,
   and the measures that a turn or a read counts down.

Left:

6. `DullesClock`: composes 1 to 3 in one polling loop, with `NavKeyDisplay` and
   `ClockSource` as properties under a refinement mapping (their shared part is
   `config`: `use_ntp_time`, `factory_reset`; their `phase`s are views of one).
   Checked alone, `NavKeyDisplay` has half a million states and `ClockSource`
   another dimension: the product needs smaller instances of both.
7. `TheMatrix` (its end is a matter of probability), `logical_or`,
   `logical_equal` and the matrix index as pure operators with lemmas;
   `WyoBean`'s reconnect; the number server; `DoomsdayClock`, which no sketch
   uses.

## NavKeyDisplay: the front panel

| State | In the code |
|---|---|
| `config`, `eeprom` | the fields of `config_t` that concern the panel, in RAM and in flash; the three color fields are one value `color`, always written together except by `set_rgb`, which writes the first |
| `current` | `CurrentDisplay_p->id` |
| `on_off`, `level` | `on_off`; the argument of the last `FastLED.setBrightness` |
| `ntp_ready` | `ntp_clock.timeClient != null` |
| `pressed`, `stat` | the status register of the NavKey chip; the driver's member `_stat` |
| `stack` | the C call stack, reduced to the two functions that matter: `updateStatus` with the bit it tests next, `set_display(idx)` inside its blend |
| `phase` | where `setup()` and `loop()` are |
| `presses`, `owed`, `overtaken`, `reset_by` | history, read by no guard but the bound of `Press` |

`Polling` says where the program calls `interact_loop`: with an empty stack in
the splash and in `loop()`, and whenever the innermost call is a blending
`set_display`. There `ReadStatus` (`navkey_loop`, `updateStatus` up to the first
test) pushes a frame, or a message is handled. While `updateStatus` is
innermost, the next set bit of the *current* `_stat` calls its callback, or none
is left and it returns. `SetDisplayReturns` is the end of a blend: the save that
follows it belongs to it. Every callback is one action with the save it ends
with; `UpPressed` and `DownPressed` of a blending display are split where the
blend polls, which is where the code can be interrupted. A selection that asks
the unset NTP client for the time is `SelectionFaults`, a restart; the same in
`print_time` is `PrintTimeFaults`. `PowerLoss` is possible in every state.
`EEPROM.commit` is taken to be atomic.

`Init` is a board fresh from the factory: all flash bytes 255. Every other
content of the flash is reached by running.

## ClockSource: time and time zone

`config` holds the other half of `config_t`: the zone, `use_ip_timezone`,
`use_ntp_time`, `last_tz_lookup`, `wifi_reset`. `ntp_ready` and `offset` are the
NTP client. `Lookup` is the request of `set_timezone_from_ip`: it fails, or
returns any of `Offsets` (the code reads `use_ip_timezone` after the answer).
It is made from `setup` (`SetupLookup`), from `interact_loop` (`ForcedLookup`),
or from `Now()` (`ReadTime`).

Three handlers save, call `ntp_clock.setOffset`, and go on:
`set_timezone_from_ip`, `timezone_offset` with a number, `add_to_timezone`.
`call` and `at` say which one is between its saves and where (a manual zone
handled during the splash faults there, saved but still subject to the lookup):
`SetOffset` or `SetOffsetFaults`, then `LookupReturns` or `ManualZoneReturns`.
Nothing polls in between, so only the power and the fault can come there, and
time can pass.

Time counts in hours (`Hour` is a tick); a lookup less than 3601 seconds ago is
a lookup in the same tick. `chosen` remembers the zone the user last chose.

## SerialFraming: messages from bytes

`sent` is what a host program wrote, `wire` the part that has not arrived, `rx`
the receive buffer of the serial driver, `topic` what is left in the
uninitialised `topic_c_str` behind its first nine bytes. Bytes are grouped into
units (the word `clockiot`, a slash, a name, a byte of a payload), because only
the places between them matter to the parser: a word cut in two is recognised
no more than a missing one, at either side of the cut. `Line` is what the loop
of `serial_loop` reads; `PollNothing`, `PollTopic`, `PollUnknown` and
`PollStale` are the outcomes of the search in it. `PollStale` is the line that
ends right behind `clockiot`: `handle_msg` skips nine bytes of a topic of
eight, and what it then compares is nothing known, or the name of the last
topic. `WebSocketText` is a text frame: the same parsing of a text that is
always whole. `Restart` loses the receive buffer and a part of the stream.

`MessageChannel` is what a user may rely on: a sequence of messages of which the
next one taken is any of those behind the last, with any beginning of its
digits. It has no bytes, no buffer and no polls. `SerialFraming` implements it
(`MessagesAreDelivered`) for everything that is handled at all: overruns, cut
lines, stale topics and restarts skip messages or shorten a number, and never
repeat, reorder or invent one.

## SunRiseClock: settings and alarm

`setting` is the program's variables, `eeprom` its bytes; `Addr` is the address
each setter writes. The three bytes of the color are one. `Put` is a setter:
what it makes of its argument (`Stored`), the variable and the byte;
`setPattern` writes no byte while patterns play by themselves (`autoplay`).
`loadSettings` is what `setup()` makes of the bytes, and it is applied to bytes
only a restart reads, so values the setters accept may come back changed.

`loop()` is three actions, between which the supply may fail (`Restart`):
`HandleRequest` or `NoRequest` (`webServer.handleClient`), `CheckAlarm`, and
`DrawFrame`, which a power setting of 0 skips. `CheckAlarm(d)` lets `d` seconds
pass and does all of the alarm: `activate_alarm`, `deactivate_alarm` with every
setter they call. Neither of them polls, and a power failure in their midst is
not modelled apart (each setter commits its byte, so a failure there leaves some
of the alarm's bytes written: the settings of a prefix of the handler). An
answer of the time server sets `current` to any time: which one is the business
of `NtpRequest`. An unset clock starts at any time: `millis` counts from zero,
and a negative zone wraps it around in 32 bits. `saved` is where
`activate_alarm` keeps the display it takes over; `before` is a history of what
was shown when no alarm was active.

`SettingsStore` is what a board promises: a setting that changes is what the
next restart brings back, and nothing else is. `SunRiseClock` implements it for
the settings with a byte of their own, under the mapping `mem` = the setting as
a restart would have it, `kept` = the byte as `loadSettings` reads it; the
pattern is volatile. Four settings are outside: `alarm` and `alarm_hour` share
byte 11, `alarm_minute` and `display_clock` byte 12, and each setter of one
overwrites the other. The mapping names two more values that do not
survive: a zone of twelve hours, and a color whose bytes are all zero.

## NtpRequest: asking for the time

`requestNTP` is called once in a turn of `loop()` that draws. `SendRequest`,
`UseAnswer` and `CheckInVain` are its three outcomes that change anything; a
check in vain before `GiveUp` leaves `ntp_pending` as it was. `network` and
`inbox` are the answers on their way and in the socket (the ESP8266's `WiFiUDP`,
which queues datagrams, is external). An answer carries the age of the request
it answers, and whether that request is over. Time is in ticks; every duration
stops counting at `Horizon`, which is beyond every comparison.

## Snake: the game

A turn of `loop()` is one action: the buttons pressed since the last turn (any
subset; the callbacks run in the order `updateStatus` tests them), the
`fill_solid` that blackens the matrix, `move` with `eat` and `New`. When the
snake hits a wall or itself the turn stays in `gameover`, whose polls are
`PollOver`; the last of them is followed by `reset`. Segments and snacks are
sequences of cells, tail and oldest first; `New` finds every pixel black, since
`snake_loop` clears the matrix before the move and draws after it.

## PixelReceiver: frames without a beginning

`line` is what the host has sent and `getData` has not read, `out` the answers
the host has not read. `pc` is the read `getData` stands in, with `cmd`, `size`
and the bytes it has; `data`, `fresh`, `emptyCount` are the local state of its
loops. Every byte read is an action, and every read may time out instead, as
slow as the line may be. The static variables are written before they are read
and count as cleared between commands. `effect` is what a command did since the
host's request, `disturbed` is the history that a byte was lost, a read timed
out, a host gave up, or a frame was sent that was malformed or did not start in
silence. The 16 bits of `packSize` are taken to be wide enough (they are up to
21845 LEDs).

## Runs

| Run | Result | What it asks |
|---|---|---|
| `NavKeyDisplay_settings` | holds | type correctness; EEPROM equals RAM between two polls; table indices; the panel's level; `ntp_clock` is set up after `setup()`; nested calls return; events are read |
| `NavKeyDisplay_nesting` | holds | what survives nested selections: the shape of the stack and its depth, UP is handled once, shown = saved unless overtaken |
| `NavKeyDisplay_lost`, `_setup` | violated | see below |
| `ClockSource_zone` | holds | the client runs in the saved zone; a manual choice is kept; a forced lookup is made; a board that is to use NTP comes into `loop()` and stays there |
| `ClockSource_sunday` | violated | see below |
| `SerialFraming_safety` | holds | messages are delivered in order and at most once (refinement of `MessageChannel`), with digits of their own only, and whole if polled whole; a topic cut short repeats the last name at most, without a number |
| `SunRiseClock_alarm` | holds | an active alarm is switched on; it puts back what it found; settings are kept (refinement of `SettingsStore`); alarms end and ring |
| `NtpRequest_sync` | holds | unread answers are bounded by the requests given up; in step, the clock is set from the right answer, and only giving up one that is still to come ends the step; it is set again and again |
| `NtpRequest_late` | violated | see below |
| `Snake_game` | holds | the snake is a path; there is one snack; an unsteered snake ends every game, also one of full length |
| `PixelReceiver_frames` | holds | an undisturbed frame gets its own answer and effect; `getData` comes back; what was sent is read |

Bounds. The four displays and the two that blend are those of the sketch.
`MaxPress` = 3 events per power cycle lets one selection nest in another (the
blending displays are not neighbours: it takes two events to come from one to
the next) or one read carry two events and another interrupt them. The stack is
then four calls deep at most, so that `MaxStack` = 5 cuts nothing off; blending
displays that are neighbours would let it grow to the 2 * `MaxPress` + 1 of
`NestingIsBounded`, and for any table and any number of presses there are the
theorems. The settings, which do not depend on the depth, are checked with two.
Power cycles and messages are not bounded. Two brightness levels are both ends
of the table; two colors tell a saved from an unsaved one. `MaxTime` bounds the
hours; 20 ticks of five a day bring the first Sunday (the epoch is a Thursday),
two ticks are enough for properties without a calendar. `MaxZone` bounds what
`add_to_timezone` accumulates; the code has no bound.

In `SerialFraming` three messages of at most seven units meet a line of
13 units and a buffer of 14: two messages in a line, a second one cut by
`SERMAXLEN`, and a third that overruns the buffer all occur. The four kinds of
messages are those the parser and `handle_msg` treat differently: a number, a
word, an empty payload, no slashes at all. (A frame that a driver drops from the
middle can join a name with the number of another message: `ValueIsOwn` is
claimed without overruns, the order with them.) A line that ends with `clockiot`
makes `handle_msg` act on the topic before it; neither property speaks of such a
call, `StaleRepeatsName` does.

In `SunRiseClock` a day has six seconds in two hours of three minutes, and an
alarm takes two: an alarm that ends today, one that would end at midnight and
one that never comes (the hour 24) all exist. Two requests or power failures
suffice to switch the alarm on and off, to move it while it is active, or to
change a setting and restart. A turn of `loop()` may take zero, one or two
seconds: the alarm's second may be met several times or missed. `NtpRequest` has
four answers at a time and gives up after one tick of at most five. In `Snake` a
matrix of four by four with six segments lets a snake fill its limit, bite
itself and find snacks under itself. `PixelReceiver` has one LED of two bytes, a
frame of every command but GETID (answered like GETVER) and malformed ones,
whose data are commands, known and unknown, when misread; one lost byte, and
stalls of up to `EMPTYMAX` = 2 timeouts. The theorem `InStepCorrect` covers every
set of frames.

Fairness. `FairSpec` of `NavKeyDisplay`: power returns, a poll reads a waiting
event, and a running call goes on (`Progress`): `loop()` never stops and a
blend has a fixed number of steps, however often it is interrupted. Nothing is
assumed of the user, of messages or of the supply staying on. `FairSpec` of
`ClockSource`: handlers and `setup()` go on (requests have a timeout; the
network is assumed to come back, as `wifi_setup` waits for it for ever), and
strong fairness for the lookup and the time read at each poll, because a
message can use the same poll but not every poll: `interact_loop` tests the flag
before it looks for messages. `ComesUp` is claimed for runs in which the supply
holds and no message arrives in the splash from some point on, and in which the
settings say to use NTP: a zone sent into every splash, or `set_time`, keeps the
board from coming up. `SunRiseClock`: `loop()` goes round and time
passes while it does; `AlarmRings` and `AlarmEnds` are claimed for runs that are
`Steady` from some point on, where `loop()` comes round in every second and
nothing sets the clock, which is what the comparison for equality needs.
`NtpRequest`: `loop()` and time go on, and of infinitely many answers one
arrives; `Synchronises` is claimed while the power setting and the supply stay
on. `Snake`: `loop()` goes on, and somebody presses CENTRAL when the game is
over. A turn in which a snake of full length eats and finds the next snack in the
same cell changes nothing, so that fairness of the turns also asks for `random()`
to name another cell in the end. `PixelReceiver`: `loop()` calls `getData` for ever and its reads return,
with a byte or with the timeout; nothing is assumed of the host.

Deadlock is checked in every run and does not occur.

## Where code and documentation disagree

Each of the first four is a run that TLC must find violated; `PROJECT.json`
quotes the lines.

- `NavKeyDisplay_lost`: `_stat` is a member. A callback that polls makes the
  outer `updateStatus` test the bits of a later read: events are handled twice
  or not at all. Only UP is safe, and the model shows it (`UpHandledOnce`).
- `NavKeyDisplay_setup`: after `set_time` and a restart the board restarts in
  `setup()` for ever (unless a `use_ntp` message hits the one poll of its
  splash).
- `ClockSource_sunday`: `weekday(out) == 0` is never true, Sunday is 1; the
  weekly lookup does not exist.
- `NtpRequest_late`: `requestNTP` gives a request up after a second, but the
  answer to it, when it comes after all, is taken for that of the next request,
  and the one of the next for that of the one after. The clock is behind by the
  difference until an answer is lost or the socket runs dry.

The proofs say of each of them where it comes from and where it ends, for every
value of the constants: `OnlyNestedReadsLose`, `SetTimeTraps`, `NoWeeklyLookup`,
and `OwnAnswerIsUsedCorrect` with `InStepAgain` (see below).

The models also have these behaviours of the code, which no run singles out:
the messages that log "Display incremented to" change the saved index and leave
the display alone; a display selected during the splash restarts the board,
because it asks the NTP client before it exists; a poll between two digits of a
serial message handles a prefix of the number; an alarm later than 23:55 does
not end before it is switched off (`AlarmEnds` excludes it); the alarm's hour
and the clock's display come back changed from a restart (`SettingsKept`
excludes the bytes they share, and takes a zone of twelve hours or more for kept
when it comes back as zero); a snake of `MAX_SEGMENTS` eats without moving; SETID
takes 255 for an ID whose byte is late (`DataTimesOut`).

## Proofs

All theorems are of the form `Spec => []Inv` or `Spec => [][Step]_vars`, and two
are refinements (`SettingsKeptCorrect`, `MessagesAreDeliveredCorrect`). Those
about the Dulles clock hold for every number of displays, brightness levels,
colors and zones and every value of the bounds, under the assumptions in the
modules: at least one display and fewer than 255 (255 means "never set"), a
first display among them, the same for brightness levels, levels between 1 and
255, a day of at least one tick, integer zones.

`NavKeyDisplay_proofs`:
- `TypeCorrect`. `TypeOK` alone is not inductive: that the level is a byte and
  that a callback indexes the table inside its bounds need the brightness to be
  an index once the board runs, and that the call stack is empty when it is off.
  `TypeInv` adds both. Lemmas say what the operators on the stack return
  (`RestFacts`, `PushFacts`), that `Previous`, `Following` and a reduced index
  are displays, and what each handler writes.
- `PersistedCorrect`, `ClockIsSetUpCorrect`: inductive as they stand, given the
  types.
- `IndicesInTableCorrect`: the saved display index may be 255 until `setup()`
  has replaced it, and a suspended `set_display` saves its argument later;
  `IndexInv` says where each index may be out of the table.
- `PanelFollowsSettingCorrect`.
- `SetTimeTraps`: from `set_time` on, the next restart is the first of those
  `NavKeyDisplay_setup` finds. `Trapped` (the board is off or in `setup()`, is
  not to use NTP and has not set `ntp_clock` up) is left only by a `use_ntp`
  message in the splash or a factory reset that was still to come, and every
  restart of a board told not to use NTP enters it; that needs `Persisted`, since
  a restart reads the EEPROM.

`NavKeyNesting_proofs`, for any depth of nesting and any number of events:
- `StackAlternatesCorrect`: calls alternate and only UP and DOWN suspend an
  `updateStatus`; the bottom of the stack has to be part of the invariant.
- `UpHandledOnceCorrect`: from the alternation, since every suspended call is
  past its UP test; it is what makes the other buttons the only victims.
- `ShownIsSavedCorrect`, `BlendSavesShownCorrect`: together, from
  `DisplayInvariant`; while nothing overtakes, at most one `set_display` is
  suspended and its argument is the display shown.
- `NestingIsBoundedCorrect`: the depth of the stack. A press pays for the
  `updateStatus` that reads it and for a blend inside that. `Paid`: the calls
  suspended, and two more while something is left to read, are at most twice the
  presses, or one more than that while a blend is innermost (the one `setup()`
  ends with is free). No bound of the model is used.
- `OnlyNestedReadsLose`: `HandledInStep` says that one `updateStatus` at most is
  suspended and that exactly the events it has still to test are owed their
  callback. Every step keeps that but a `ReadStatus` below which another
  `updateStatus` is suspended, and in step nothing is lost. So the read inside a
  handler is the only cause of what `NavKeyDisplay_lost` finds; a table of
  displays none of which blends loses no event
  (`NoEventLostWithoutBlends`).

`ClockSource_proofs`: `TypeCorrect`, `StaysUpCorrect` (in `loop()` the client is
set up, so that no handler faults and only the supply ends it: the step behind
`ComesUp`),
`OffsetIsAppliedCorrect` (`OffsetInv`: a handler at "finish" has already given
the client the zone, one at "offset" will) and `ManualZoneIsKeptCorrect`
(`ChoiceInv`: between the saves of a manual choice none is in force, and RAM
agrees with EEPROM). `NoWeeklyLookup`: a weekday lies between 1 and 7 in every
calendar, so in `loop()` only a forced lookup asks the web service.
`OnlyAddingLeavesTheDay`: as long as the factory's zone lies within a day, as
the code's does, `add_to_timezone` alone takes the zone out of it.

`SerialFraming_proofs`, for every set of messages, every size of the line and
of the buffer, and any number of restarts:
- `TypeCorrect`.
- `HandledInOrderCorrect`: what is still to be read is one stream, `rx \o wire`.
  `Placed` says that each of its units is the unit of the sent message it
  claims to be, `Ordered` that they come in the order they were sent, `Late`
  that none with a name is as old as the last message handled. Every action
  takes a subsequence of the stream or appends to its end.
- `ValueIsOwnCorrect`: `Unbroken` adds that, without overruns, the stream has
  no gaps: behind a unit comes the next of its message, or the first of another;
  polls and restarts cut only its beginning. A number therefore ends at the next
  word `clockiot` at the latest, and its digits are a prefix of those sent.
- `WholeMessageIsHandledCorrect`: a message whose units all lie at the front of
  what a poll reads, with its end in the line, is the one that is handled, with
  all its digits: the word `clockiot`, the name and the slashes the parser finds
  first are its own, and its number ends with it.
- `StaleRepeatsNameCorrect`: `TopicInv`, what `topic_c_str` holds is the name of
  the last message handled; and without gaps the word `clockiot` is followed by
  its name or the end of the line, so that nothing is left for a number.
- `MessagesAreDeliveredCorrect`: initial states and steps of `SerialFraming` are
  initial states and steps (or stutters) of `MessageChannel`, with
  `HandledInOrderCorrect` and the digits of the message that is handled.

`SunRiseClock_proofs`, for every length of day, hour and alarm, every set of
patterns and of inputs:
- `TypeCorrect`, `ActiveIsOnCorrect`, and `RestoredAtEndCorrect`, from the
  invariant that while the alarm is active `saved` is `before`.
- `SettingsKeptCorrect`: the initial states and every step of `SunRiseClock`,
  restarts included, are initial states and steps of `SettingsStore` under the
  mapping. `Moved` says what a step may do to a setting and its byte: leave both
  alone, leave them agreeing, or move the pattern without its byte. Lemmas say
  so of one `Put` and of the handlers, which are sequences of `Put`.
- `EndsOnlyToday`: what `AlarmEnds` excludes. An alarm whose end lies at midnight
  or later is ended by a restart or by `setAlarm(0)` and never by `loop()`.

`NtpRequest_proofs`, for every duration and number of answers:
- `TypeCorrect`; `NoMoreThanGivenUpCorrect`, by the length of both sequences,
  whatever is reordered.
- `OwnAnswerIsUsedCorrect`: `InStep` (nothing is unread but the answer to the
  pending request, which is no older than the board has waited) is not an
  invariant; the theorem shows that from any state in which it holds one step
  alone leaves it, giving up a request whose answer is still on its way, and that
  in it the clock is set from its own answer.
- `InStepAgain`: it holds until a request is given up, and again as soon as
  nothing is unread.

`Snake_proofs`, for every matrix of at least two by two and every `MAX_SEGMENTS`
of at least two: `TypeCorrect`, `OneSnackCorrect`, `SnakeIsPathCorrect`, and
`UnsteeredNearsWall`: the room in front of the head is a natural number that
every turn without a direction button takes one from, unless the game is over or
a snake of `MAX_SEGMENTS` eats. It is the measure behind `Unsteered`.

`PixelReceiver_proofs`, for every set of frames, number of LEDs and `EMPTYMAX`:
- `TypeCorrect`, `InStepCorrect`. The invariant behind `InStep` says, for an
  undisturbed frame, that what was read of it and what is left on the line make
  up the frame, and where in `getData` that is.
- `ReturnsInSteps`: what a call of `getData` has left to do, as four natural
  numbers in order (phases of the frame, bytes of the phase, whether the current
  `readBytes` gave something, reads that may still give nothing); every read of a
  call that has begun lowers them or ends it, and nobody else changes them. It is
  the measure behind `Returns`.

## What is not shown

- Only model-checked: liveness (`Unwinds`, `EventsAreRead`,
  `ForcedLookupIsMade`, `ComesUp`, `AlarmEnds`, `AlarmRings`, `Synchronises`,
  `Unsteered`, `Returns`, `IsRead`), which the prover cannot handle: of `Unsteered`
  and `Returns` it shows the step that counts down, of `ComesUp` the one that
  stays; TLC shows that the steps are taken. Every disagreement is a counterexample of TLC.
- Not modelled in the Dulles clock: the buffers of `webSocketEvent` and its
  replies; what is drawn; the wording of messages and
  the parsing of payloads (values are chosen from small sets); `toggle_sleep`,
  whose flag nothing reads; the GPIO half of `updateStatus`, to which no callback
  is attached; `use_wifi = false`, which no board reaches; wear and partial
  writes of the flash; a call stack that overflows (the model bounds it); the
  end of `TheMatrix`, which depends on random drops.
- Not modelled in SunRiseClock: the patterns, the file system and the pages it
  serves; settings that are not kept (cooling, sparking, twinkle); the infrared
  code, which is disabled; the arithmetic of timestamps.
- Not modelled elsewhere: the build of the BiblioPixel receiver with
  `USE_EEPROM`; the drawing of Snake.
- Components left out, with the reason for each in `PROJECT.json`: mostly
  vendored libraries (FastLED, RF24, WiFiManager, ...), which are most of the
  lines of this repository and third-party code, variants of a third-party web
  server, and sketches that draw without state worth a property.
