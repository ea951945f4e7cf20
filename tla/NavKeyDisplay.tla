---------------------------- MODULE NavKeyDisplay ----------------------------
(***************************************************************************)
(* The front panel of the Dulles clock                                     *)
(* (src/arduino/DullesNavKey/DullesNavKey.ino): the NavKey (four arrows, a *)
(* push button, a rotary ring), the displays it selects, the brightness    *)
(* and power of the panel, the messages that change the same settings, and *)
(* the copy of the settings in EEPROM.                                     *)
(*                                                                         *)
(* Everything runs on one thread, but not one after the other.  Selecting  *)
(* a display runs its init function, and blend_to_rainbow, the init of two *)
(* of the displays, polls the NavKey and the message sources between its   *)
(* 128 steps (my_show calls interact_loop).  A button pressed during the   *)
(* blend is handled inside the handler of the button that started it.  The *)
(* variable stack holds the suspended calls; a state whose top frame is a  *)
(* set_display, or whose stack is empty in loop(), is a place where the    *)
(* program polls.                                                          *)
(*                                                                         *)
(* blend_to_rainbow and print_time ask ntp_clock for the time.  Before     *)
(* ntp_clock.setup its timeClient is null: the access faults and the board *)
(* restarts.  use_wifi is true on every board (it is in an erased flash,   *)
(* factory_reset and use_ntp set it, nothing clears it) and is left out.   *)
(***************************************************************************)
EXTENDS Integers, Sequences

CONSTANTS
  NDisplay,      \* N_DISPLAY
  Blending,      \* displays whose init is blend_to_rainbow
  FirstDisplay,  \* the display CurrentDisplay_p points to at power on
  NBrightness,   \* N_BRIGHTNESS
  Level,         \* BRIGHTNESSES: the LED level of each brightness index
  DefaultBrightness,
  Colors,        \* the values solid_color_rgb and its two companions take
  FactoryColor,
  MaxStack,      \* bound: suspended calls
  MaxPress       \* bound: NavKey events between two power cycles

\* 255, what an erased or factory-reset byte of the settings reads as.
Unset == 255

ASSUME DisplayAssumption ==
  /\ NDisplay \in Nat \ {0}
  /\ NDisplay < Unset
  /\ Blending \subseteq 0 .. NDisplay - 1
  /\ FirstDisplay \in 0 .. NDisplay - 1

ASSUME BrightnessAssumption ==
  /\ NBrightness \in Nat \ {0}
  /\ NBrightness < Unset
  /\ DefaultBrightness \in 0 .. NBrightness - 1
  /\ Level \in [0 .. NBrightness - 1 -> 1 .. 255]

ASSUME ColorAssumption == FactoryColor \in Colors

ASSUME BoundAssumption == MaxStack \in Nat /\ MaxPress \in Nat

-----------------------------------------------------------------------------

(***************************************************************************)
(* The NavKey events that have a callback, and the order in which          *)
(* updateStatus tests their bits.  ROTATE stands for RINC and RDEC, whose  *)
(* callback Encoder_Rotate only depends on the ring's counter.             *)
(***************************************************************************)
Position == [UP |-> 1, DOWN |-> 2, RIGHT |-> 3, LEFT |-> 4, CENTRAL |-> 5,
             ROTATE |-> 6]

Events == {"UP", "DOWN", "RIGHT", "LEFT", "CENTRAL", "ROTATE"}

Settings == [ display_idx   : 0 .. Unset,
              brightness    : 0 .. Unset,
              color         : Colors,
              use_ntp_time  : BOOLEAN,
              factory_reset : BOOLEAN ]

\* A suspended call: updateStatus with the position of the bit it tests
\* next, or set_display(arg) whose init is still blending.
Frames == [fn : {"updateStatus"}, arg : 1 .. 7]
             \cup [fn : {"set_display"}, arg : 0 .. NDisplay - 1]

VARIABLES
  phase,      \* "off", "splash" and "init" (in led_setup), "starting", "loop"
  config,     \* the settings in RAM
  eeprom,     \* the settings in EEPROM
  current,    \* CurrentDisplay_p->id
  on_off,     \* on_off
  level,      \* the brightness FastLED scales the panel by
  ntp_ready,  \* ntp_clock.timeClient is set
  pressed,    \* the NavKey's status register: events not read yet
  stat,       \* the member _stat of the driver object
  stack,      \* the suspended calls
  presses,    \* history: events since power on
  owed,       \* history: per event, times read less times handled
  reset_by,   \* history: what made the board start again
  overtaken   \* history: the last selection was not the last change of display

settings == <<config, eeprom>>
panel    == <<on_off, level>>
navkey   == <<pressed, stat>>
history  == <<presses, owed, overtaken, reset_by>>

vars == <<phase, config, eeprom, current, on_off, level, ntp_ready, pressed,
          stat, stack, presses, owed, overtaken, reset_by>>

-----------------------------------------------------------------------------

\* Put the settings s in RAM and, by saveSettings, in EEPROM.
SaveSettings(s) ==
  /\ config' = s
  /\ eeprom' = s

Push(s, fn, arg) == Append(s, [fn |-> fn, arg |-> arg])

Top == stack[Len(stack)]

Rest == SubSeq(stack, 1, Len(stack) - 1)

\* Some suspended call of s is a set_display.
Blends(s) == \E i \in DOMAIN s : s[i].fn = "set_display"

\* Mutant of Polling: interact_loop is skipped while the panel is off.
PollingWhenOn ==
  /\ on_off
  /\ \/ stack = <<>> /\ phase \in {"splash", "init", "loop"}
     \/ stack # <<>> /\ Top.fn = "set_display"

\* Mutant of Polling: the NavKey is read from an interrupt.
PollingAnywhere == phase \in {"splash", "init", "loop"} \/ stack # <<>>

\* The program is in an interact_loop, which runs navkey_loop and then the
\* message sources.  led_setup's splash calls it once ("splash", and "init"
\* when navkey_loop is over), loop() and every blend call it again and again.
Polling ==
  \/ stack = <<>> /\ phase \in {"splash", "init", "loop"}
  \/ stack # <<>> /\ Top.fn = "set_display"

NavKeyIsOver == IF phase = "splash" THEN "init" ELSE phase

-----------------------------------------------------------------------------
(***************************************************************************)
(* Power and setup().                                                      *)
(***************************************************************************)

\* Mutant of CheckedSettings: the saved brightness is trusted.
UncheckedSettings == eeprom

\* The settings setup() continues with: a brightness that is no index of
\* BRIGHTNESSES is replaced and saved.
CheckedSettings ==
  IF eeprom.brightness >= NBrightness
  THEN [eeprom EXCEPT !.brightness = DefaultBrightness]
  ELSE eeprom

\* setup() up to the call of interact_loop in led_setup's splash.  led_setup
\* hands FastLED the index, not the level BRIGHTNESSES has for it.
PowerOn ==
  /\ phase = "off"
  /\ phase' = "splash"
  /\ SaveSettings(CheckedSettings)
  /\ level' = CheckedSettings.brightness
  /\ UNCHANGED <<current, on_off, ntp_ready, navkey, stack, history>>

FactorySettings ==
  [ display_idx   |-> Unset,
    brightness    |-> DefaultBrightness,
    color         |-> FactoryColor,
    use_ntp_time  |-> TRUE,
    factory_reset |-> FALSE ]

\* The RAM of the next boot: the initial values of the statics, the NavKey
\* reset, no call active.
Reset(saved, cause) ==
  /\ phase' = "off"
  /\ config' = saved
  /\ eeprom' = saved
  /\ current' = FirstDisplay
  /\ on_off' = TRUE
  /\ level' = 0
  /\ ntp_ready' = FALSE
  /\ pressed' = {}
  /\ stat' = {}
  /\ stack' = <<>>
  /\ presses' = 0
  /\ owed' = [e \in Events |-> 0]
  /\ overtaken' = FALSE
  /\ reset_by' = cause

\* setup() after led_setup: factory_reset saves its settings and restarts.
FactoryReset ==
  /\ phase \in {"splash", "init"}
  /\ stack = <<>>
  /\ config.factory_reset
  /\ Reset(FactorySettings, "factory_reset")

\* The supply fails in any state, or the board is reset.
PowerLoss ==
  /\ phase # "off"
  /\ Reset(eeprom, "power")

-----------------------------------------------------------------------------
(***************************************************************************)
(* Displays.                                                               *)
(***************************************************************************)

Previous == (current + NDisplay - 1) % NDisplay

\* Mutant of Following: the index runs past the table.
FollowingUnwrapped == current + 1

Following == (current + 1) % NDisplay

\* Selecting display d runs blend_to_rainbow, which asks ntp_clock for the
\* time before ntp_clock.setup.
Faults(d) ==
  /\ d \in Blending
  /\ config.use_ntp_time
  /\ ~ntp_ready

\* Mutant of SetDisplay: a blend saves the display it came from.
SetDisplaySavesOld(idx, saved, base) ==
  /\ current' = idx % NDisplay
  /\ overtaken' = Blends(base)
  /\ IF idx % NDisplay \in Blending
     THEN /\ stack' = Push(base, "set_display", current)
          /\ SaveSettings(saved)
     ELSE /\ stack' = base
          /\ SaveSettings([saved EXCEPT !.display_idx = idx])

\* set_display(idx) called with the calls in base suspended.  The new display
\* is current at once; idx is saved when its init returns, which for a display
\* that blends is later, after any number of polls.
SetDisplay(idx, saved, base) ==
  /\ current' = idx % NDisplay
  /\ overtaken' = Blends(base)
  /\ IF idx % NDisplay \in Blending
     THEN /\ stack' = Push(base, "set_display", idx)
          /\ SaveSettings(saved)
     ELSE /\ stack' = base
          /\ SaveSettings([saved EXCEPT !.display_idx = idx])

\* The settings after led_setup: an erased display_idx becomes 0.
StartSettings ==
  IF config.display_idx = Unset
  THEN [config EXCEPT !.display_idx = 0]
  ELSE config

\* setup() after led_setup without a factory reset.
Starting ==
  /\ phase \in {"splash", "init"}
  /\ stack = <<>>
  /\ ~config.factory_reset

\* Mutant of StartDisplay: setup() does not ask ntp_clock for the time.
StartDisplaySilently ==
  /\ Starting
  /\ ntp_ready' = (ntp_ready \/ config.use_ntp_time)
  /\ LET idx == StartSettings.display_idx % NDisplay
     IN  /\ SetDisplay(idx, StartSettings, <<>>)
         /\ phase' = IF idx \in Blending THEN "starting" ELSE "loop"
  /\ UNCHANGED <<panel, navkey, presses, owed, reset_by>>

\* The end of setup(): ntp_clock is set up if it is to be used, the time is
\* printed, and the saved display is selected.
StartDisplay ==
  /\ Starting
  /\ ntp_ready' = TRUE
  /\ ntp_ready \/ config.use_ntp_time
  /\ LET idx == StartSettings.display_idx % NDisplay
     IN  /\ SetDisplay(idx, StartSettings, <<>>)
         /\ phase' = IF idx \in Blending THEN "starting" ELSE "loop"
  /\ UNCHANGED <<panel, navkey, presses, owed, reset_by>>

\* The same when ntp_clock was not set up: print_time faults.
PrintTimeFaults ==
  /\ Starting
  /\ ~(ntp_ready \/ config.use_ntp_time)
  /\ Reset(StartSettings, "print_time")

\* Mutant of SetDisplayReturns: the display is not saved after its blend.
SetDisplayReturnsUnsaved ==
  /\ stack # <<>>
  /\ Top.fn = "set_display"
  /\ stack' = Rest
  /\ phase' = IF phase = "starting" /\ Rest = <<>> THEN "loop" ELSE phase
  /\ UNCHANGED <<settings, current, panel, ntp_ready, navkey, history>>

\* Mutant of SetDisplayReturns: a blend does not go on while the panel is off.
SetDisplayReturnsWhenOn ==
  /\ on_off
  /\ stack # <<>>
  /\ Top.fn = "set_display"
  /\ SaveSettings([config EXCEPT !.display_idx = Top.arg])
  /\ stack' = Rest
  /\ phase' = IF phase = "starting" /\ Rest = <<>> THEN "loop" ELSE phase
  /\ UNCHANGED <<current, panel, ntp_ready, navkey, history>>

\* The blend of the innermost set_display is over: set_display saves its idx
\* and returns to its caller.
SetDisplayReturns ==
  /\ stack # <<>>
  /\ Top.fn = "set_display"
  /\ SaveSettings([config EXCEPT !.display_idx = Top.arg])
  /\ stack' = Rest
  /\ phase' = IF phase = "starting" /\ Rest = <<>> THEN "loop" ELSE phase
  /\ UNCHANGED <<current, panel, ntp_ready, navkey, history>>

-----------------------------------------------------------------------------
(***************************************************************************)
(* Brightness and power.                                                   *)
(***************************************************************************)

\* Mutant of SetBrightness: the panel is set before the setting.
SetBrightnessLate(b) ==
  /\ SaveSettings([config EXCEPT !.brightness = b])
  /\ level' = Level[config.brightness]
  /\ UNCHANGED on_off

\* set_brightness(b) for an index b; it lights the panel whatever on_off says.
SetBrightness(b) ==
  /\ SaveSettings([config EXCEPT !.brightness = b])
  /\ level' = Level[b]
  /\ UNCHANGED on_off

Dimmer ==
  SetBrightness(IF config.brightness >= 1
                THEN config.brightness - 1
                ELSE config.brightness)

Brighter ==
  SetBrightness(IF config.brightness < NBrightness - 1
                THEN config.brightness + 1
                ELSE config.brightness)

TogglePower ==
  /\ on_off' = ~on_off
  /\ level' = IF on_off THEN 0 ELSE Level[config.brightness]
  /\ UNCHANGED settings

\* Mutant of SetColor: the color is not saved.
SetColorUnsaved(c) ==
  /\ config' = [config EXCEPT !.color = c]
  /\ UNCHANGED <<eeprom, panel>>

SetColor(c) ==
  /\ SaveSettings([config EXCEPT !.color = c])
  /\ UNCHANGED panel

-----------------------------------------------------------------------------
(***************************************************************************)
(* The NavKey.                                                             *)
(***************************************************************************)

\* The user presses a button or turns the ring; the status register keeps the
\* event until it is read.
Press(e) ==
  /\ phase # "off"
  /\ e \notin pressed
  /\ presses < MaxPress
  /\ pressed' = pressed \cup {e}
  /\ presses' = presses + 1
  /\ UNCHANGED <<phase, settings, current, panel, ntp_ready, stat, stack, owed,
                 overtaken, reset_by>>

\* Mutant of ReadStatus: the register is not cleared by reading it.
ReadStatusOnly ==
  /\ Polling
  /\ ~(stack = <<>> /\ phase = "init")
  /\ pressed # {}
  /\ Len(stack) < MaxStack
  /\ stat' = pressed
  /\ UNCHANGED pressed
  /\ owed' = [e \in Events |-> IF e \in pressed THEN owed[e] + 1 ELSE owed[e]]
  /\ stack' = Push(stack, "updateStatus", 1)
  /\ phase' = NavKeyIsOver
  /\ UNCHANGED <<settings, current, panel, ntp_ready, presses, overtaken,
                 reset_by>>

\* navkey_loop: the interrupt pin is low while the register holds an event;
\* updateStatus reads and so clears the register into _stat, the one member
\* that every active updateStatus tests.
ReadStatus ==
  /\ Polling
  /\ ~(stack = <<>> /\ phase = "init")
  /\ pressed # {}
  /\ Len(stack) < MaxStack
  /\ stat' = pressed
  /\ pressed' = {}
  /\ owed' = [e \in Events |-> IF e \in pressed THEN owed[e] + 1 ELSE owed[e]]
  /\ stack' = Push(stack, "updateStatus", 1)
  /\ phase' = NavKeyIsOver
  /\ UNCHANGED <<settings, current, panel, ntp_ready, presses, overtaken,
                 reset_by>>

\* updateStatus is the running call.
Testing == stack # <<>> /\ Top.fn = "updateStatus"

\* The bits that are set and still to be tested.
Remaining == {e \in stat : Position[e] >= Top.arg}

\* The next bit found set is that of e: its callback is called.
Tests(e) ==
  /\ Testing
  /\ e \in Remaining
  /\ \A f \in Remaining : Position[e] <= Position[f]

\* Mutant of Resumed: updateStatus tests the bit of e again.
ResumedAgain(e) == Push(Rest, "updateStatus", Position[e])

\* The calls suspended while the callback of e runs: updateStatus resumes with
\* the bit after that of e, of whatever _stat then is.
Resumed(e) == Push(Rest, "updateStatus", Position[e] + 1)

Calls(e) ==
  /\ Tests(e)
  /\ owed' = [owed EXCEPT ![e] = @ - 1]
  /\ UNCHANGED <<phase, ntp_ready, navkey, presses, reset_by>>

\* UP_Button_Pressed and prev_display.
UpPressed ==
  /\ Calls("UP")
  /\ ~Faults(Previous)
  /\ SetDisplay(Previous, config, Resumed("UP"))
  /\ UNCHANGED panel

\* DOWN_Button_Pressed and next_display.
DownPressed ==
  /\ Calls("DOWN")
  /\ ~Faults(Following)
  /\ SetDisplay(Following, config, Resumed("DOWN"))
  /\ UNCHANGED panel

\* The selection faults before set_display has saved anything.
SelectionFaults ==
  /\ \/ Tests("UP") /\ Faults(Previous)
     \/ Tests("DOWN") /\ Faults(Following)
  /\ Reset(eeprom, "selection")

RightPressed ==
  /\ Calls("RIGHT")
  /\ Brighter
  /\ stack' = Resumed("RIGHT")
  /\ UNCHANGED <<current, overtaken>>

LeftPressed ==
  /\ Calls("LEFT")
  /\ Dimmer
  /\ stack' = Resumed("LEFT")
  /\ UNCHANGED <<current, overtaken>>

CentralPressed ==
  /\ Calls("CENTRAL")
  /\ TogglePower
  /\ stack' = Resumed("CENTRAL")
  /\ UNCHANGED <<current, overtaken>>

\* Encoder_Rotate: the colors become those of the ring's counter.
EncoderRotate ==
  /\ Calls("ROTATE")
  /\ \E c \in Colors : SetColor(c)
  /\ stack' = Resumed("ROTATE")
  /\ UNCHANGED <<current, overtaken>>

\* All bits are tested: updateStatus returns to the poll that called it.
StatusReturns ==
  /\ Testing
  /\ Remaining = {}
  /\ stack' = Rest
  /\ UNCHANGED <<phase, settings, current, panel, ntp_ready, navkey, history>>

-----------------------------------------------------------------------------
(***************************************************************************)
(* Messages: the branches of handle_msg that concern the panel.  serial_loop *)
(* and webSocket.loop call it from interact_loop; no branch polls.         *)
(***************************************************************************)

\* One of the message sources delivers a message.
Receiving ==
  /\ Polling
  /\ phase' = NavKeyIsOver
  /\ UNCHANGED <<current, navkey, stack, presses, owed, reset_by>>

\* prev_display and next_display move the saved index; CurrentDisplay_p stays.
MessageMovesDisplay(step) ==
  /\ Receiving
  /\ SaveSettings([config EXCEPT !.display_idx = (@ + step) % NDisplay])
  /\ overtaken' = (overtaken \/ ~Blends(stack))
  /\ UNCHANGED <<panel, ntp_ready>>

MessagePrevDisplay == MessageMovesDisplay(NDisplay - 1)

MessageNextDisplay == MessageMovesDisplay(1)

MessageBrighter ==
  /\ Receiving
  /\ Brighter
  /\ UNCHANGED <<ntp_ready, overtaken>>

MessageDimmer ==
  /\ Receiving
  /\ Dimmer
  /\ UNCHANGED <<ntp_ready, overtaken>>

\* set_rgb and set_colorwheel.
MessageSetColor ==
  /\ Receiving
  /\ \E c \in Colors : SetColor(c)
  /\ UNCHANGED <<ntp_ready, overtaken>>

MessageSetTime ==
  /\ Receiving
  /\ SaveSettings([config EXCEPT !.use_ntp_time = FALSE])
  /\ UNCHANGED <<panel, ntp_ready, overtaken>>

MessageUseNtp ==
  /\ ~config.use_ntp_time
  /\ Receiving
  /\ SaveSettings([config EXCEPT !.use_ntp_time = TRUE])
  /\ ntp_ready' = TRUE
  /\ UNCHANGED <<panel, overtaken>>

-----------------------------------------------------------------------------

\* A board whose flash was never written: every byte of the settings is 255.
Init ==
  /\ phase = "off"
  /\ eeprom \in [ display_idx   : {Unset},
                  brightness    : {Unset},
                  color         : Colors,
                  use_ntp_time  : {TRUE},
                  factory_reset : {TRUE} ]
  /\ config = eeprom
  /\ current = FirstDisplay
  /\ on_off = TRUE
  /\ level = 0
  /\ ntp_ready = FALSE
  /\ pressed = {}
  /\ stat = {}
  /\ stack = <<>>
  /\ presses = 0
  /\ owed = [e \in Events |-> 0]
  /\ overtaken = FALSE
  /\ reset_by = "power"

\* A callback of the NavKey runs.
Callback ==
  \/ UpPressed
  \/ DownPressed
  \/ RightPressed
  \/ LeftPressed
  \/ CentralPressed
  \/ EncoderRotate

\* What the program does by itself, without a poll that finds something.
Progress ==
  \/ FactoryReset
  \/ StartDisplay
  \/ PrintTimeFaults
  \/ SetDisplayReturns
  \/ Callback
  \/ SelectionFaults
  \/ StatusReturns

Message ==
  \/ MessagePrevDisplay
  \/ MessageNextDisplay
  \/ MessageBrighter
  \/ MessageDimmer
  \/ MessageSetColor
  \/ MessageSetTime
  \/ MessageUseNtp

Next ==
  \/ PowerOn
  \/ PowerLoss
  \/ \E e \in Events : Press(e)
  \/ ReadStatus
  \/ Progress
  \/ Message

Spec == Init /\ [][Next]_vars

(***************************************************************************)
(* loop() and every blend run on without the user: a poll reads a waiting  *)
(* event, a running call goes on, a blend ends after its 128 steps however *)
(* often it was interrupted.  Nobody has to press, send or cut the power.  *)
(***************************************************************************)
FairSpec ==
  /\ Spec
  /\ WF_vars(PowerOn)
  /\ WF_vars(ReadStatus)
  /\ WF_vars(Progress)

-----------------------------------------------------------------------------
(***************************************************************************)
(* What the code guarantees.                                               *)
(***************************************************************************)

\* Every variable keeps its type: the fields of config_t, the index of
\* CurrentDisplay_p, the suspended calls.
TypeOK ==
  /\ phase \in {"off", "splash", "init", "starting", "loop"}
  /\ config \in Settings
  /\ eeprom \in Settings
  /\ current \in 0 .. NDisplay - 1
  /\ on_off \in BOOLEAN
  /\ level \in 0 .. 255
  /\ ntp_ready \in BOOLEAN
  /\ pressed \subseteq Events
  /\ stat \subseteq Events
  /\ stack \in Seq(Frames)
  /\ presses \in Nat
  /\ owed \in [Events -> Int]
  /\ overtaken \in BOOLEAN
  /\ reset_by \in {"power", "factory_reset", "print_time", "selection"}

\* Between two polls every change of a setting has reached EEPROM, whichever
\* handlers are suspended: a power failure loses no setting.
Persisted == eeprom = config

\* BRIGHTNESSES is only indexed inside its bounds from the first poll on,
\* although the flash may hold any byte, and once setup() is over the display
\* index is one of the displays and no factory reset is pending.
IndicesInTable ==
  /\ phase # "off" => config.brightness < NBrightness
  /\ phase = "loop" => /\ config.display_idx < NDisplay
                       /\ ~config.factory_reset

\* A program that has left setup() has set up ntp_clock: nothing it does from
\* then on, in a blend or after a set_time or use_ntp message, can fault on it.
ClockIsSetUp ==
  phase \in {"starting", "loop"} => ntp_ready

\* The level of the panel follows the brightness setting.  A panel that is on
\* shows the level of the table, or the raw index from led_setup until the
\* brightness or power is first used; one that is off is dark, unless the
\* brightness was changed meanwhile.
PanelFollowsSetting ==
  phase # "off" => level \in {IF on_off THEN config.brightness ELSE 0,
                              Level[config.brightness]}

\* Suspended calls of updateStatus are past the UP and DOWN tests that
\* suspended them, and calls of updateStatus and set_display alternate: the
\* program only polls from a blend.
StackAlternates ==
  \A i \in 1 .. Len(stack) - 1 :
    /\ stack[i].fn # stack[i + 1].fn
    /\ stack[i].fn = "updateStatus" => stack[i].arg \in {2, 3}

\* The nesting is as deep as the user makes it and no deeper: a press is good
\* for two suspended calls, its updateStatus and its blend, and setup() for the
\* blend that it ends with.
NestingIsBounded == Len(stack) <= 2 * presses + 1

\* A press of UP that was read is handled exactly once, even when its handler
\* is interrupted by other presses: no suspended call tests UP again.
UpHandledOnce ==
  owed["UP"] =
    IF /\ stack # <<>>
       /\ Top.fn = "updateStatus"
       /\ Top.arg = 1
       /\ "UP" \in stat
    THEN 1
    ELSE 0

\* The display that is shown is the display that is saved whenever loop() is
\* not inside a selection, except after a selection inside another one (the
\* outer one saves last) or a prev_display or next_display message.
ShownIsSavedUnlessOvertaken ==
  (phase = "loop" /\ ~Blends(stack) /\ ~overtaken)
     => config.display_idx = current

\* While no selection has begun inside it, the display a blending selection
\* will save is the one it shows.
BlendSavesShown ==
  \A i \in DOMAIN stack :
    (stack[i].fn = "set_display" /\ ~overtaken) => stack[i].arg = current

\* Nested selections return in the end: a stack that grows is unwound when the
\* user stops pressing (or the power fails).
Unwinds == stack # <<>> ~> stack = <<>>

\* An event in the NavKey's register is read in the end, also when it arrives
\* during a blend or during setup().
EventsAreRead == pressed # {} ~> pressed = {}

-----------------------------------------------------------------------------
(***************************************************************************)
(* What the repository says and the code does not do.                      *)
(***************************************************************************)

\* "In case of events the attached callback is called": when updateStatus has
\* returned, every event it read has been handed to its callback.
NoEventLost == stack = <<>> => \A e \in Events : owed[e] <= 0

\* The Set Time button of the control program sends set_time, setup() ends by
\* logging "setup() complete": unless the power keeps failing, the program
\* comes back to loop().
SetupCompletes ==
  []<>(phase = "off" /\ reset_by = "power") \/ []<>(phase = "loop")

=============================================================================
