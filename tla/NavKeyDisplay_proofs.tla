------------------------ MODULE NavKeyDisplay_proofs ------------------------
(***************************************************************************)
(* Proofs that the safety invariants of NavKeyDisplay hold for every value *)
(* of its constants.                                                       *)
(***************************************************************************)
EXTENDS NavKeyDisplay, SequenceTheorems, TLAPS

(***************************************************************************)
(* Suspended calls.                                                        *)
(***************************************************************************)

\* What is left when the running call returns, and the running call itself.
LEMMA RestFacts ==
  ASSUME stack \in Seq(Frames), stack # <<>>
  PROVE  /\ Rest \in Seq(Frames)
         /\ Len(Rest) = Len(stack) - 1
         /\ \A i \in 1 .. Len(stack) - 1 : Rest[i] = stack[i]
         /\ Len(stack) \in Nat \ {0}
         /\ Top \in Frames
<1>1. Len(stack) \in Nat \ {0}
  BY EmptySeq, LenProperties
<1>2. Top \in Frames
  BY <1>1, ElementOfSeq DEF Top
<1>3. /\ Rest \in Seq(Frames)
      /\ Len(Rest) = Len(stack) - 1
      /\ \A i \in 1 .. Len(stack) - 1 : Rest[i] = stack[i]
  <2> DEFINE n == Len(stack) - 1
  <2>1. n \in 0 .. Len(stack)
    BY <1>1
  <2>2. \A i \in 1 .. n : stack[i] \in Frames
    BY <1>1, ElementOfSeq
  <2>3. Rest = [i \in 1 .. n |-> stack[i]]
    BY <2>1, SubSeqRestrict DEF Rest, Restrict
  <2>4. QED
    BY <2>1, <2>2, <2>3
<1>4. QED
  BY <1>1, <1>2, <1>3

\* A call is suspended below a new one.
LEMMA PushFacts ==
  ASSUME NEW s \in Seq(Frames), NEW fn, NEW arg, [fn |-> fn, arg |-> arg] \in Frames
  PROVE  /\ Push(s, fn, arg) \in Seq(Frames)
         /\ Len(Push(s, fn, arg)) = Len(s) + 1
         /\ \A i \in 1 .. Len(s) : Push(s, fn, arg)[i] = s[i]
         /\ Push(s, fn, arg)[Len(s) + 1] = [fn |-> fn, arg |-> arg]
         /\ Push(s, fn, arg) # <<>>
<1>1. /\ Push(s, fn, arg) \in Seq(Frames)
      /\ Len(Push(s, fn, arg)) = Len(s) + 1
      /\ \A i \in 1 .. Len(s) : Push(s, fn, arg)[i] = s[i]
      /\ Push(s, fn, arg)[Len(s) + 1] = [fn |-> fn, arg |-> arg]
  BY AppendProperties DEF Push
<1>2. Push(s, fn, arg) # <<>>
  BY <1>1, EmptySeq, LenProperties
<1>3. QED
  BY <1>1, <1>2

-----------------------------------------------------------------------------
(***************************************************************************)
(* Types.                                                                  *)
(***************************************************************************)

\* TypeOK is not inductive by itself: the level is looked up in a table, by
\* callbacks that only run on a board that is on.
BrightnessInTable == phase # "off" => config.brightness < NBrightness

OffIsReset == phase = "off" => stack = <<>> /\ on_off

TypeInv == TypeOK /\ BrightnessInTable /\ OffIsReset

Causes == {"power", "factory_reset", "print_time", "selection"}

\* A remainder is an index of the table and a byte.
LEMMA IndexRange ==
  ASSUME NEW a \in Nat
  PROVE  a % NDisplay \in 0 .. NDisplay - 1 /\ a % NDisplay \in 0 .. Unset
<1>1. NDisplay \in Nat \ {0} /\ NDisplay < 255
  BY DisplayAssumption DEF Unset
<1>2. a % NDisplay \in 0 .. NDisplay - 1
  BY <1>1
<1>3. QED
  BY <1>1, <1>2 DEF Unset

\* Selecting a display of the table, with any calls suspended.
LEMMA SetDisplayType ==
  ASSUME NEW idx \in 0 .. NDisplay - 1, NEW saved \in Settings,
         NEW base \in Seq(Frames), SetDisplay(idx, saved, base)
  PROVE  /\ config' \in Settings
         /\ eeprom' \in Settings
         /\ config'.brightness = saved.brightness
         /\ config'.factory_reset = saved.factory_reset
         /\ current' = idx
         /\ current' \in 0 .. NDisplay - 1
         /\ overtaken' \in BOOLEAN
         /\ stack' \in Seq(Frames)
<1>1. idx \in 0 .. Unset /\ idx % NDisplay = idx
  BY DisplayAssumption DEF Unset
<1>2. current' = idx /\ overtaken' \in BOOLEAN
  BY <1>1 DEF SetDisplay, Blends
<1>3. CASE idx \in Blending
  <2>1. Push(base, "set_display", idx) \in Seq(Frames)
    <3>1. [fn |-> "set_display", arg |-> idx] \in Frames
      BY DEF Frames
    <3>2. QED
      BY <3>1, PushFacts
  <2>2. QED
    BY <1>1, <1>2, <1>3, <2>1 DEF SetDisplay, SaveSettings
<1>4. CASE idx \notin Blending
  BY <1>1, <1>2, <1>4 DEF SetDisplay, SaveSettings, Settings
<1>5. QED
  BY <1>3, <1>4

\* Which index a selection saves at once.
LEMMA SavedIndex ==
  ASSUME NEW idx \in 0 .. NDisplay - 1, NEW saved \in Settings,
         NEW base \in Seq(Frames), SetDisplay(idx, saved, base)
  PROVE  config'.display_idx = IF idx \in Blending THEN saved.display_idx ELSE idx
<1>1. idx % NDisplay = idx
  BY DisplayAssumption
<1>2. QED
  BY <1>1 DEF SetDisplay, SaveSettings, Settings

\* The arrows select displays of the table.
LEMMA SelectionRange ==
  ASSUME TypeInv
  PROVE  Previous \in 0 .. NDisplay - 1 /\ Following \in 0 .. NDisplay - 1
<1>1. current \in 0 .. NDisplay - 1
  BY DEF TypeInv, TypeOK
<1>2. QED
  BY <1>1, DisplayAssumption DEF Previous, Following

\* Setting the brightness to an index of the table.
LEMMA SetBrightnessType ==
  ASSUME NEW b \in 0 .. NBrightness - 1, config \in Settings, SetBrightness(b)
  PROVE  /\ config' \in Settings
         /\ eeprom' \in Settings
         /\ config'.brightness = b
         /\ level' = Level[b]
         /\ level' \in 0 .. 255
<1>1. b \in 0 .. Unset
  BY BrightnessAssumption DEF Unset
<1>2. Level[b] \in 0 .. 255
  BY BrightnessAssumption
<1>3. QED
  BY <1>1, <1>2 DEF SetBrightness, SaveSettings, Settings

\* Dimmer and Brighter set an index of the table.
LEMMA StepBrightness ==
  ASSUME TypeInv, phase # "off", Dimmer \/ Brighter
  PROVE  \E b \in 0 .. NBrightness - 1 : SetBrightness(b)
<1>1. config \in Settings /\ config.brightness < NBrightness
  BY DEF TypeInv, TypeOK, BrightnessInTable
<1>2. config.brightness \in 0 .. 255
  BY <1>1 DEF Settings, Unset
<1>3. NBrightness \in Nat
  BY BrightnessAssumption
<1>4. QED
  BY <1>1, <1>2, <1>3 DEF Dimmer, Brighter

\* What they keep.
LEMMA StepBrightnessType ==
  ASSUME TypeInv, phase # "off", Dimmer \/ Brighter
  PROVE  /\ config' \in Settings
         /\ eeprom' \in Settings
         /\ config'.brightness < NBrightness
         /\ level' \in 0 .. 255
         /\ on_off' = on_off
<1>1. PICK b \in 0 .. NBrightness - 1 : SetBrightness(b)
  BY StepBrightness
<1>2. config \in Settings
  BY DEF TypeInv, TypeOK
<1>3. NBrightness \in Nat
  BY BrightnessAssumption
<1>4. QED
  BY <1>1, <1>2, <1>3, SetBrightnessType DEF SetBrightness

\* A restart establishes the types of the next boot.
LEMMA ResetType ==
  ASSUME NEW saved \in Settings, NEW cause \in Causes, Reset(saved, cause)
  PROVE  TypeInv'
<1>1. stack' \in Seq(Frames)
  BY EmptySeq DEF Reset
<1>2. current' \in 0 .. NDisplay - 1
  BY DisplayAssumption DEF Reset
<1>3. owed' \in [Events -> Int]
  BY DEF Reset
<1>4. /\ on_off' \in BOOLEAN
      /\ ntp_ready' \in BOOLEAN
      /\ overtaken' \in BOOLEAN
  BY Zenon DEF Reset
<1>5. /\ phase' = "off"
      /\ config' \in Settings
      /\ eeprom' \in Settings
      /\ level' \in 0 .. 255
      /\ pressed' \subseteq Events
      /\ stat' \subseteq Events
      /\ presses' \in Nat
      /\ reset_by' \in Causes
  BY DEF Reset
<1>6. TypeOK'
  BY <1>1, <1>2, <1>3, <1>4, <1>5 DEF TypeOK, Causes
<1>7. BrightnessInTable'
  BY DEF Reset, BrightnessInTable
<1>8. OffIsReset'
  BY Zenon DEF Reset, OffIsReset
<1>9. QED
  BY <1>6, <1>7, <1>8 DEF TypeInv

\* The calls suspended by a callback.
LEMMA ResumedFacts ==
  ASSUME TypeOK, NEW e \in Events, Tests(e)
  PROVE  /\ Resumed(e) \in Seq(Frames)
         /\ Len(Resumed(e)) = Len(stack)
         /\ \A i \in 1 .. Len(stack) - 1 : Resumed(e)[i] = stack[i]
         /\ Resumed(e)[Len(stack)] = [fn |-> "updateStatus", arg |-> Position[e] + 1]
         /\ Len(stack) \in Nat \ {0}
         /\ Resumed(e) # <<>>
<1>1. stack \in Seq(Frames) /\ stack # <<>>
  BY DEF TypeOK, Tests, Testing
<1>2. [fn |-> "updateStatus", arg |-> Position[e] + 1] \in Frames
  BY DEF Frames, Position, Events
<1>3. QED
  BY <1>1, <1>2, RestFacts, PushFacts DEF Resumed

\* The level of an index that was checked.
LEMMA LevelType ==
  ASSUME config \in Settings, config.brightness < NBrightness
  PROVE  Level[config.brightness] \in 0 .. 255
<1>1. config.brightness \in 0 .. 255
  BY DEF Settings, Unset
<1>2. NBrightness \in Nat
  BY BrightnessAssumption
<1>3. config.brightness \in 0 .. NBrightness - 1
  BY <1>1, <1>2
<1>4. Level \in [0 .. NBrightness - 1 -> 1 .. 255]
  BY BrightnessAssumption
<1>5. Level[config.brightness] \in 1 .. 255
  BY <1>3, <1>4
<1>6. QED
  BY <1>5

\* Setting the color.
LEMMA SetColorType ==
  ASSUME NEW c \in Colors, config \in Settings, SetColor(c)
  PROVE  /\ config' \in Settings
         /\ eeprom' \in Settings
         /\ config'.brightness = config.brightness
         /\ on_off' = on_off
         /\ level' = level
BY DEF SetColor, SaveSettings, Settings, panel

\* The settings setup() starts from.
LEMMA CheckedType ==
  ASSUME eeprom \in Settings
  PROVE  /\ CheckedSettings \in Settings
         /\ CheckedSettings.brightness < NBrightness
         /\ CheckedSettings.brightness \in 0 .. 255
<1>1. /\ eeprom.brightness \in 0 .. 255
      /\ DefaultBrightness \in 0 .. 255
      /\ DefaultBrightness < NBrightness
      /\ NBrightness \in Nat
  BY BrightnessAssumption DEF Settings, Unset
<1>2. CASE eeprom.brightness >= NBrightness
  <2>1. CheckedSettings = [eeprom EXCEPT !.brightness = DefaultBrightness]
    BY <1>2 DEF CheckedSettings
  <2>2. QED
    BY <1>1, <2>1 DEF Settings, Unset
<1>3. CASE ~(eeprom.brightness >= NBrightness)
  BY <1>1, <1>3 DEF CheckedSettings
<1>4. QED
  BY <1>2, <1>3

\* The settings setup() selects the display from.
LEMMA StartType ==
  ASSUME config \in Settings
  PROVE  /\ StartSettings \in Settings
         /\ StartSettings.brightness = config.brightness
         /\ StartSettings.factory_reset = config.factory_reset
<1>1. CASE config.display_idx = Unset
  <2>1. StartSettings = [config EXCEPT !.display_idx = 0]
    BY <1>1 DEF StartSettings
  <2>2. QED
    BY <2>1 DEF Settings, Unset
<1>2. CASE config.display_idx # Unset
  BY <1>2 DEF StartSettings
<1>3. QED
  BY <1>1, <1>2

\* The display it selects.
LEMMA StartIndex ==
  ASSUME config \in Settings
  PROVE  StartSettings.display_idx % NDisplay \in 0 .. NDisplay - 1
<1>1. StartSettings.display_idx \in 0 .. 255
  BY StartType DEF Settings, Unset
<1>2. StartSettings.display_idx \in Nat
  BY <1>1
<1>3. QED
  BY <1>2, IndexRange

\* A suspended selection remembers a display of the table.
LEMMA BlendFrame ==
  ASSUME NEW f \in Frames, f.fn = "set_display"
  PROVE  f.arg \in 0 .. NDisplay - 1 /\ f.arg \in 0 .. Unset
<1>1. f.arg \in 0 .. NDisplay - 1
  BY DEF Frames
<1>2. QED
  BY <1>1, DisplayAssumption DEF Unset

\* A handler runs on a board that is on.
LEMMA RunningIsOn ==
  ASSUME TypeInv, Polling \/ Testing
  PROVE  phase # "off"
BY DEF TypeInv, OffIsReset, Polling, Testing

\* A callback: the calls below it and the history are as for every callback,
\* the rest depends on which.
LEMMA CallsType ==
  ASSUME TypeInv, NEW e \in Events, Calls(e)
  PROVE  /\ ntp_ready' = ntp_ready
         /\ pressed' = pressed
         /\ stat' = stat
         /\ presses' = presses
         /\ reset_by' = reset_by
         /\ phase' = phase
         /\ phase # "off"
         /\ owed' \in [Events -> Int]
         /\ Resumed(e) \in Seq(Frames)
<1>1. /\ TypeOK
      /\ Tests(e)
  BY DEF TypeInv, Calls
<1>2. Resumed(e) \in Seq(Frames)
  BY <1>1, ResumedFacts
<1>3. owed' \in [Events -> Int]
  BY <1>1 DEF Calls, TypeOK
<1>4. phase # "off"
  BY <1>1, RunningIsOn DEF Tests
<1>5. QED
  BY <1>2, <1>3, <1>4 DEF Calls, navkey

\* Every step preserves the types.
LEMMA TypeStep == TypeInv /\ [Next]_vars => TypeInv'
<1> SUFFICES ASSUME TypeInv, [Next]_vars PROVE TypeInv'
  OBVIOUS
<1> USE DEF settings, panel, navkey, history
<1>1. CASE PowerOn
  <2>1. /\ CheckedSettings \in Settings
        /\ CheckedSettings.brightness < NBrightness
        /\ CheckedSettings.brightness \in 0 .. 255
    BY CheckedType DEF TypeInv, TypeOK
  <2>2. QED
    BY <1>1, <2>1 DEF PowerOn, SaveSettings, TypeInv, TypeOK, BrightnessInTable, OffIsReset
<1>2. CASE PowerLoss
  BY <1>2, ResetType DEF PowerLoss, TypeInv, TypeOK, BrightnessInTable, OffIsReset, Causes
<1>3. ASSUME NEW e \in Events, Press(e) PROVE TypeInv'
  BY <1>3 DEF Press, TypeInv, TypeOK, BrightnessInTable, OffIsReset
<1>4. CASE ReadStatus
  <2>1. [fn |-> "updateStatus", arg |-> 1] \in Frames
    BY DEF Frames
  <2>2. stack' \in Seq(Frames)
    BY <1>4, <2>1, PushFacts DEF ReadStatus, TypeInv, TypeOK
  <2>3. owed' \in [Events -> Int]
    BY <1>4 DEF ReadStatus, TypeInv, TypeOK
  <2>4. phase # "off"
    BY <1>4, RunningIsOn DEF ReadStatus
  <2>5. QED
    BY <1>4, <2>2, <2>3, <2>4 DEF ReadStatus, NavKeyIsOver, TypeInv, TypeOK, BrightnessInTable, OffIsReset
<1>5. CASE FactoryReset
  <2>1. FactorySettings \in Settings
    BY BrightnessAssumption, ColorAssumption DEF FactorySettings, Settings, Unset
  <2>2. QED
    BY <1>5, <2>1, ResetType DEF FactoryReset, Causes
<1>6. CASE StartDisplay
  <2> DEFINE idx == StartSettings.display_idx % NDisplay
  <2>1. /\ StartSettings \in Settings
        /\ StartSettings.brightness = config.brightness
    BY StartType DEF TypeInv, TypeOK
  <2>2. idx \in 0 .. NDisplay - 1
    BY StartIndex DEF TypeInv, TypeOK
  <2>3. <<>> \in Seq(Frames)
    BY EmptySeq
  <2>4. SetDisplay(idx, StartSettings, <<>>)
    BY <1>6 DEF StartDisplay
  <2> HIDE DEF idx
  <2>5. /\ config' \in Settings
        /\ eeprom' \in Settings
        /\ config'.brightness = config.brightness
        /\ current' \in 0 .. NDisplay - 1
        /\ overtaken' \in BOOLEAN
        /\ stack' \in Seq(Frames)
    BY <2>1, <2>2, <2>3, <2>4, SetDisplayType
  <2>6. ntp_ready' \in BOOLEAN
    BY <1>6, Zenon DEF StartDisplay
  <2>7. QED
    BY <1>6, <2>5, <2>6 DEF StartDisplay, Starting, TypeInv, TypeOK, BrightnessInTable, OffIsReset
<1>7. CASE PrintTimeFaults
  <2>1. StartSettings \in Settings
    BY StartType DEF TypeInv, TypeOK
  <2>2. QED
    BY <1>7, <2>1, ResetType DEF PrintTimeFaults, Causes
<1>8. CASE SetDisplayReturns
  <2>1. Rest \in Seq(Frames) /\ Top \in Frames
    BY <1>8, RestFacts DEF SetDisplayReturns, TypeInv, TypeOK
  <2>2. Top.arg \in 0 .. Unset
    BY <1>8, <2>1, BlendFrame DEF SetDisplayReturns
  <2>3. /\ config' \in Settings
        /\ eeprom' \in Settings
        /\ config'.brightness = config.brightness
    BY <1>8, <2>2 DEF SetDisplayReturns, SaveSettings, Settings, TypeInv, TypeOK
  <2>4. QED
    BY <1>8, <2>1, <2>3 DEF SetDisplayReturns, TypeInv, TypeOK, BrightnessInTable, OffIsReset
<1>9. CASE UpPressed
  <2>1. Calls("UP") /\ SetDisplay(Previous, config, Resumed("UP")) /\ UNCHANGED panel
    BY <1>9 DEF UpPressed
  <2>2. "UP" \in Events /\ Previous \in 0 .. NDisplay - 1
    BY SelectionRange DEF Events
  <2>3. QED
    BY <2>1, <2>2, CallsType, SetDisplayType DEF TypeInv, TypeOK, BrightnessInTable, OffIsReset
<1>10. CASE DownPressed
  <2>1. Calls("DOWN") /\ SetDisplay(Following, config, Resumed("DOWN")) /\ UNCHANGED panel
    BY <1>10 DEF DownPressed
  <2>2. "DOWN" \in Events /\ Following \in 0 .. NDisplay - 1
    BY SelectionRange DEF Events
  <2>3. QED
    BY <2>1, <2>2, CallsType, SetDisplayType DEF TypeInv, TypeOK, BrightnessInTable, OffIsReset
<1>11. CASE SelectionFaults
  BY <1>11, ResetType DEF SelectionFaults, TypeInv, TypeOK, BrightnessInTable, OffIsReset, Causes
<1>12. CASE RightPressed
  <2>1. Calls("RIGHT") /\ "RIGHT" \in Events /\ Brighter
    BY <1>12 DEF RightPressed, Events
  <2>2. QED
    BY <1>12, <2>1, CallsType, StepBrightnessType DEF RightPressed, TypeInv, TypeOK, BrightnessInTable, OffIsReset
<1>13. CASE LeftPressed
  <2>1. Calls("LEFT") /\ "LEFT" \in Events /\ Dimmer
    BY <1>13 DEF LeftPressed, Events
  <2>2. QED
    BY <1>13, <2>1, CallsType, StepBrightnessType DEF LeftPressed, TypeInv, TypeOK, BrightnessInTable, OffIsReset
<1>14. CASE CentralPressed
  <2>1. Calls("CENTRAL") /\ "CENTRAL" \in Events /\ TogglePower
    BY <1>14 DEF CentralPressed, Events
  <2>2. on_off' \in BOOLEAN
    BY <2>1, Zenon DEF TogglePower
  <2>3. level' \in 0 .. 255
    <3>1. phase # "off" /\ config \in Settings /\ config.brightness < NBrightness
      BY <2>1, CallsType DEF TypeInv, TypeOK, BrightnessInTable
    <3>2. Level[config.brightness] \in 0 .. 255
      BY <3>1, LevelType
    <3>3. QED
      BY <2>1, <3>2 DEF TogglePower
  <2>4. QED
    BY <1>14, <2>1, <2>2, <2>3, CallsType DEF CentralPressed, TogglePower, TypeInv, TypeOK, BrightnessInTable, OffIsReset
<1>15. CASE EncoderRotate
  <2>1. Calls("ROTATE") /\ "ROTATE" \in Events
    BY <1>15 DEF EncoderRotate, Events
  <2>2. PICK c \in Colors : SetColor(c)
    BY <1>15 DEF EncoderRotate
  <2>3. /\ config' \in Settings
        /\ eeprom' \in Settings
        /\ config'.brightness = config.brightness
        /\ on_off' = on_off
        /\ level' = level
    BY <2>2, SetColorType DEF TypeInv, TypeOK
  <2>4. QED
    BY <1>15, <2>1, <2>3, CallsType DEF EncoderRotate, TypeInv, TypeOK, BrightnessInTable, OffIsReset
<1>16. CASE StatusReturns
  <2>1. Rest \in Seq(Frames)
    BY <1>16, RestFacts DEF StatusReturns, Testing, TypeInv, TypeOK
  <2>2. QED
    BY <1>16, <2>1 DEF StatusReturns, Testing, TypeInv, TypeOK, BrightnessInTable, OffIsReset
<1>17. ASSUME Message PROVE TypeInv'
  <2>1. Receiving /\ phase # "off"
    BY <1>17, RunningIsOn DEF Message, MessagePrevDisplay, MessageNextDisplay,
       MessageMovesDisplay, MessageBrighter, MessageDimmer, MessageSetColor,
       MessageSetTime, MessageUseNtp, Receiving
  <2>2. /\ current' \in 0 .. NDisplay - 1
        /\ pressed' \subseteq Events
        /\ stat' \subseteq Events
        /\ stack' \in Seq(Frames)
        /\ presses' \in Nat
        /\ owed' \in [Events -> Int]
        /\ reset_by' \in Causes
        /\ phase' \in {"splash", "init", "starting", "loop"}
    BY <2>1 DEF Receiving, NavKeyIsOver, TypeInv, TypeOK, Causes
  <2>3. CASE MessagePrevDisplay \/ MessageNextDisplay
    <3>1. PICK step \in {1, NDisplay - 1} : MessageMovesDisplay(step)
      BY <2>3 DEF MessagePrevDisplay, MessageNextDisplay
    <3>2. (config.display_idx + step) % NDisplay \in 0 .. Unset
      <4>1. config.display_idx \in 0 .. 255
        BY DEF TypeInv, TypeOK, Settings, Unset
      <4>2. step \in Nat
        BY DisplayAssumption
      <4>3. config.display_idx + step \in Nat
        BY <4>1, <4>2
      <4>4. QED
        BY <4>3, IndexRange
    <3>3. /\ config' \in Settings
          /\ eeprom' \in Settings
          /\ config'.brightness = config.brightness
      BY <3>1, <3>2 DEF MessageMovesDisplay, SaveSettings, Settings, TypeInv, TypeOK
    <3>4. overtaken' \in BOOLEAN
      BY <3>1, Zenon DEF MessageMovesDisplay
    <3>5. QED
      BY <2>1, <2>2, <3>1, <3>3, <3>4 DEF MessageMovesDisplay, TypeInv, TypeOK, BrightnessInTable, OffIsReset, Causes
  <2>4. CASE MessageBrighter \/ MessageDimmer
    BY <2>1, <2>2, <2>4, StepBrightnessType DEF MessageBrighter, MessageDimmer, TypeInv, TypeOK, BrightnessInTable, OffIsReset, Causes
  <2>5. CASE MessageSetColor
    <3>1. PICK c \in Colors : SetColor(c)
      BY <2>5 DEF MessageSetColor
    <3>2. /\ config' \in Settings
          /\ eeprom' \in Settings
          /\ config'.brightness = config.brightness
          /\ on_off' = on_off
          /\ level' = level
      BY <3>1, SetColorType DEF TypeInv, TypeOK
    <3>3. QED
      BY <2>1, <2>2, <2>5, <3>2 DEF MessageSetColor, TypeInv, TypeOK, BrightnessInTable, OffIsReset, Causes
  <2>6. CASE MessageSetTime \/ MessageUseNtp
    <3>1. /\ config' \in Settings
          /\ eeprom' \in Settings
          /\ config'.brightness = config.brightness
          /\ on_off' = on_off
          /\ level' = level
          /\ overtaken' = overtaken
      BY <2>6 DEF MessageSetTime, MessageUseNtp, SaveSettings, Settings, TypeInv, TypeOK
    <3>2. ntp_ready' \in BOOLEAN
      BY <2>6, Zenon DEF MessageSetTime, MessageUseNtp, TypeInv, TypeOK
    <3>3. QED
      BY <2>1, <2>2, <3>1, <3>2 DEF TypeInv, TypeOK, BrightnessInTable, OffIsReset, Causes
  <2>7. QED
    BY <1>17, <2>3, <2>4, <2>5, <2>6 DEF Message
<1>18. CASE UNCHANGED vars
  BY <1>18 DEF vars, TypeInv, TypeOK, BrightnessInTable, OffIsReset
<1>19. QED
  BY <1>1, <1>2, <1>3, <1>4, <1>5, <1>6, <1>7, <1>8, <1>9, <1>10, <1>11, <1>12,
     <1>13, <1>14, <1>15, <1>16, <1>17, <1>18 DEF Next, Progress, Callback

\* The strengthening of TypeOK holds in every reachable state.
THEOREM TypeInvariant == Spec => []TypeInv
<1>1. Init => TypeInv
  <2> SUFFICES ASSUME Init PROVE TypeInv
    OBVIOUS
  <2>1. eeprom \in Settings
    <3>1. /\ Unset \in 0 .. Unset
          /\ TRUE \in BOOLEAN
      BY DEF Unset
    <3>2. QED
      BY <3>1 DEF Init, Settings
  <2>2. stack \in Seq(Frames)
    BY EmptySeq DEF Init
  <2>3. /\ current \in 0 .. NDisplay - 1
        /\ owed \in [Events -> Int]
    BY DisplayAssumption DEF Init
  <2>4. on_off \in BOOLEAN /\ ntp_ready \in BOOLEAN /\ overtaken \in BOOLEAN
    BY Zenon DEF Init
  <2>5. OffIsReset
    BY Zenon DEF Init, OffIsReset
  <2>6. QED
    BY <2>1, <2>2, <2>3, <2>4, <2>5 DEF Init, TypeInv, TypeOK, BrightnessInTable
<1>2. QED
  BY <1>1, TypeStep, PTL DEF Spec

\* TypeOK holds in every reachable state, whatever the sizes of the tables.
THEOREM TypeCorrect == Spec => []TypeOK
<1>1. TypeInv => TypeOK
  BY DEF TypeInv
<1>2. QED
  BY <1>1, TypeInvariant, PTL

-----------------------------------------------------------------------------
(***************************************************************************)
(* Settings.                                                               *)
(***************************************************************************)

\* Every handler saves what it sets, or sets nothing.
LEMMA SavesOrKeeps ==
  ASSUME [Next]_vars
  PROVE  config' = eeprom' \/ UNCHANGED settings
<1>1. ASSUME NEW saved, NEW cause, Reset(saved, cause) PROVE config' = eeprom'
  BY <1>1 DEF Reset
<1>2. ASSUME NEW idx, NEW saved, NEW base, SetDisplay(idx, saved, base)
      PROVE  config' = eeprom'
  BY <1>2 DEF SetDisplay, SaveSettings
<1>3. CASE PowerOn \/ SetDisplayReturns
  BY <1>3 DEF PowerOn, SetDisplayReturns, SaveSettings
<1>4. CASE PowerLoss \/ FactoryReset \/ PrintTimeFaults \/ SelectionFaults
  BY <1>1, <1>4 DEF PowerLoss, FactoryReset, PrintTimeFaults, SelectionFaults
<1>5. CASE StartDisplay \/ UpPressed \/ DownPressed
  BY <1>2, <1>5 DEF StartDisplay, UpPressed, DownPressed
<1>6. CASE RightPressed \/ LeftPressed \/ MessageBrighter \/ MessageDimmer
  BY <1>6 DEF RightPressed, LeftPressed, MessageBrighter, MessageDimmer, Brighter,
     Dimmer, SetBrightness, SaveSettings
<1>7. CASE CentralPressed \/ StatusReturns \/ ReadStatus
  BY <1>7 DEF CentralPressed, TogglePower, StatusReturns, ReadStatus
<1>8. CASE EncoderRotate \/ MessageSetColor
  BY <1>8 DEF EncoderRotate, MessageSetColor, SetColor, SaveSettings
<1>9. CASE \/ MessagePrevDisplay \/ MessageNextDisplay
           \/ MessageSetTime \/ MessageUseNtp
  <2>1. ASSUME NEW saved, SaveSettings(saved) PROVE config' = eeprom'
    BY <2>1 DEF SaveSettings
  <2>2. QED
    BY <1>9, <2>1, Zenon DEF MessagePrevDisplay, MessageNextDisplay,
       MessageMovesDisplay, MessageSetTime, MessageUseNtp
<1>10. ASSUME NEW e \in Events, Press(e) PROVE UNCHANGED settings
  BY <1>10 DEF Press
<1>11. CASE UNCHANGED vars
  BY <1>11 DEF vars, settings
<1>12. QED
  BY <1>3, <1>4, <1>5, <1>6, <1>7, <1>8, <1>9, <1>10, <1>11
     DEF Next, Progress, Callback, Message

\* Between two polls no change of a setting is missing in EEPROM.
THEOREM PersistedCorrect == Spec => []Persisted
<1>1. Init => Persisted
  BY DEF Init, Persisted
<1>2. Persisted /\ [Next]_vars => Persisted'
  BY SavesOrKeeps DEF Persisted, settings
<1>3. QED
  BY <1>1, <1>2, PTL DEF Spec

\* ntp_clock is set up before setup() is left and stays so until a restart.
THEOREM ClockIsSetUpCorrect == Spec => []ClockIsSetUp
<1>1. Init => ClockIsSetUp
  BY DEF Init, ClockIsSetUp
<1>2. ClockIsSetUp /\ [Next]_vars => ClockIsSetUp'
  <2> SUFFICES ASSUME ClockIsSetUp, [Next]_vars PROVE ClockIsSetUp'
    OBVIOUS
  <2> USE DEF ClockIsSetUp
  <2>1. CASE PowerOn
    BY <2>1 DEF PowerOn
  <2>2. CASE PowerLoss \/ FactoryReset \/ PrintTimeFaults \/ SelectionFaults
    BY <2>2 DEF PowerLoss, FactoryReset, PrintTimeFaults, SelectionFaults, Reset
  <2>3. CASE StartDisplay
    BY <2>3 DEF StartDisplay
  <2>4. CASE SetDisplayReturns
    BY <2>4 DEF SetDisplayReturns
  <2>5. CASE Callback \/ StatusReturns
    BY <2>5 DEF Callback, UpPressed, DownPressed, RightPressed, LeftPressed,
       CentralPressed, EncoderRotate, Calls, StatusReturns
  <2>6. ASSUME NEW e \in Events, Press(e) PROVE ClockIsSetUp'
    BY <2>6 DEF Press
  <2>7. CASE ReadStatus
    BY <2>7 DEF ReadStatus, NavKeyIsOver
  <2>8. CASE Message
    BY <2>8 DEF Message, MessagePrevDisplay, MessageNextDisplay, MessageMovesDisplay,
       MessageBrighter, MessageDimmer, MessageSetColor, MessageSetTime,
       MessageUseNtp, Receiving, NavKeyIsOver
  <2>9. CASE UNCHANGED vars
    BY <2>9 DEF vars
  <2>10. QED
    BY <2>1, <2>2, <2>3, <2>4, <2>5, <2>6, <2>7, <2>8, <2>9 DEF Next, Progress
<1>3. QED
  BY <1>1, <1>2, PTL DEF Spec

\* A board that does not use NTP and has not set ntp_clock up is in setup().
Trapped ==
  /\ phase \in {"off", "splash", "init"}
  /\ ~ntp_ready
  /\ ~config.use_ntp_time

\* A step that keeps or saves settings without use_ntp_time does not leave setup()
\* on a trapped board.
LEMMA TrapStep ==
  ASSUME TypeInv, Persisted, Trapped, Next, ~MessageUseNtp, ~FactoryReset
  PROVE  Trapped'
<1> config \in Settings /\ eeprom = config
  BY DEF TypeInv, TypeOK, Persisted
<1>1. phase' \in {"off", "splash", "init"} /\ ~ntp_ready'
  <2> USE DEF Trapped
  <2>1. CASE PowerOn \/ (\E e \in Events : Press(e)) \/ ReadStatus
    BY <2>1 DEF PowerOn, Press, ReadStatus, NavKeyIsOver
  <2>2. CASE PowerLoss \/ PrintTimeFaults \/ SelectionFaults
    BY <2>2 DEF PowerLoss, PrintTimeFaults, SelectionFaults, Reset
  <2>3. CASE StartDisplay \/ SetDisplayReturns
    BY <2>3 DEF StartDisplay, SetDisplayReturns
  <2>4. CASE Callback \/ StatusReturns
    BY <2>4 DEF Callback, UpPressed, DownPressed, RightPressed, LeftPressed,
       CentralPressed, EncoderRotate, Calls, StatusReturns
  <2>5. CASE Message
    BY <2>5 DEF Message, MessagePrevDisplay, MessageNextDisplay, MessageMovesDisplay,
       MessageBrighter, MessageDimmer, MessageSetColor, MessageSetTime,
       Receiving, NavKeyIsOver
  <2>6. QED
    BY <2>1, <2>2, <2>3, <2>4, <2>5 DEF Next, Progress
<1>2. ~config'.use_ntp_time
  <2> USE DEF Trapped, SaveSettings
  <2>1. CASE PowerOn
    <3>1. CheckedSettings.use_ntp_time = config.use_ntp_time
      BY DEF CheckedSettings, Settings
    <3>2. QED
      BY <2>1, <3>1 DEF PowerOn
  <2>2. CASE PowerLoss \/ SelectionFaults
    BY <2>2 DEF PowerLoss, SelectionFaults, Reset
  <2>3. CASE PrintTimeFaults
    <3>1. StartSettings.use_ntp_time = config.use_ntp_time
      BY DEF StartSettings, Settings
    <3>2. QED
      BY <2>3, <3>1 DEF PrintTimeFaults, Reset
  <2>4. CASE StartDisplay
    BY <2>4 DEF StartDisplay
  <2>5. CASE SetDisplayReturns
    BY <2>5 DEF SetDisplayReturns, Settings
  <2>6. CASE UpPressed \/ DownPressed
    <3>1. \E idx, base : SetDisplay(idx, config, base)
      BY <2>6 DEF UpPressed, DownPressed
    <3>2. QED
      BY <3>1 DEF SetDisplay, Settings
  <2>7. CASE RightPressed \/ LeftPressed \/ MessageBrighter \/ MessageDimmer
    <3>1. \E b : SetBrightness(b)
      BY <2>7 DEF RightPressed, LeftPressed, MessageBrighter, MessageDimmer, Brighter, Dimmer
    <3>2. QED
      BY <3>1 DEF SetBrightness, Settings
  <2>8. CASE EncoderRotate \/ MessageSetColor
    <3>1. \E c : SetColor(c)
      BY <2>8 DEF EncoderRotate, MessageSetColor
    <3>2. QED
      BY <3>1 DEF SetColor, Settings
  <2>9. CASE CentralPressed \/ StatusReturns \/ ReadStatus \/ \E e \in Events : Press(e)
    BY <2>9 DEF CentralPressed, TogglePower, StatusReturns, ReadStatus, Press, settings
  <2>10. CASE MessagePrevDisplay \/ MessageNextDisplay \/ MessageSetTime
    BY <2>10 DEF MessagePrevDisplay, MessageNextDisplay, MessageMovesDisplay,
       MessageSetTime, Settings
  <2>11. QED
    BY <2>1, <2>2, <2>3, <2>4, <2>5, <2>6, <2>7, <2>8, <2>9, <2>10
       DEF Next, Progress, Callback, Message
<1>3. QED
  BY <1>1, <1>2 DEF Trapped

\* What set_time leads to, for any settings: any restart of a board that was told
\* not to use NTP is the first of setup() without end.  Only a use_ntp message or
\* a factory reset that was still to come, both in the splash, lead out of it.
THEOREM SetTimeTraps ==
  Spec => [][/\ Trapped => Trapped' \/ MessageUseNtp \/ FactoryReset
             /\ (phase' = "off" /\ phase # "off" /\ ~config.use_ntp_time)
                  => Trapped' \/ FactoryReset]_vars
<1>1. ASSUME TypeInv, Persisted, Next, Trapped
      PROVE  Trapped' \/ MessageUseNtp \/ FactoryReset
  BY <1>1, TrapStep
<1>2. ASSUME TypeInv, Persisted, Next, phase' = "off", phase # "off", ~config.use_ntp_time
      PROVE  Trapped' \/ FactoryReset
  <2>1. config \in Settings /\ eeprom = config
    BY <1>2 DEF TypeInv, TypeOK, Persisted
  <2>2. CASE PowerLoss \/ SelectionFaults
    BY <1>2, <2>1, <2>2 DEF PowerLoss, SelectionFaults, Reset, Trapped
  <2>3. CASE PrintTimeFaults
    <3>1. StartSettings.use_ntp_time = config.use_ntp_time
      BY <2>1 DEF StartSettings, Settings
    <3>2. QED
      BY <1>2, <2>3, <3>1 DEF PrintTimeFaults, Reset, Trapped
  <2>4. CASE PowerOn \/ (\E e \in Events : Press(e)) \/ ReadStatus
    BY <1>2, <2>4 DEF PowerOn, Press, ReadStatus, NavKeyIsOver
  <2>5. CASE StartDisplay \/ SetDisplayReturns
    BY <1>2, <2>5 DEF StartDisplay, SetDisplayReturns
  <2>6. CASE Callback \/ StatusReturns
    BY <1>2, <2>6 DEF Callback, UpPressed, DownPressed, RightPressed, LeftPressed,
       CentralPressed, EncoderRotate, Calls, StatusReturns
  <2>7. CASE Message
    BY <1>2, <2>7 DEF Message, MessagePrevDisplay, MessageNextDisplay, MessageMovesDisplay,
       MessageBrighter, MessageDimmer, MessageSetColor, MessageSetTime, MessageUseNtp,
       Receiving, NavKeyIsOver
  <2>8. QED
    BY <1>2, <2>2, <2>3, <2>4, <2>5, <2>6, <2>7 DEF Next, Progress
<1>3. TypeInv /\ Persisted /\ [Next]_vars
        => [/\ Trapped => Trapped' \/ MessageUseNtp \/ FactoryReset
            /\ (phase' = "off" /\ phase # "off" /\ ~config.use_ntp_time)
                 => Trapped' \/ FactoryReset]_vars
  BY <1>1, <1>2
<1>4. QED
  BY <1>3, TypeInvariant, PersistedCorrect, PTL DEF Spec

\* IndicesInTable is not inductive by itself: setup() goes on while a display
\* blends, with settings that are not checked before the blend is over.
StartedIsChecked ==
  phase \in {"starting", "loop"} => ~config.factory_reset

IndexInv ==
  /\ StartedIsChecked
  /\ phase = "loop" => config.display_idx < NDisplay

\* A step that keeps the phase, or only leaves the splash, and keeps the two
\* settings keeps IndexInv.
LEMMA IndexKept ==
  ASSUME IndexInv, phase' \in {phase, NavKeyIsOver},
         config'.factory_reset = config.factory_reset,
         config'.display_idx = config.display_idx
  PROVE  IndexInv'
BY DEF IndexInv, StartedIsChecked, NavKeyIsOver

\* A step to a phase before "starting" has nothing to keep.
LEMMA IndexVacuous ==
  ASSUME phase' \in {"off", "splash", "init"}
  PROVE  IndexInv'
BY DEF IndexInv, StartedIsChecked

\* Every step keeps the index of the saved display in the table.
LEMMA IndexStep == TypeInv /\ IndexInv /\ [Next]_vars => IndexInv'
<1> SUFFICES ASSUME TypeInv, IndexInv, [Next]_vars PROVE IndexInv'
  OBVIOUS
<1> config \in Settings
  BY DEF TypeInv, TypeOK
<1>1. CASE PowerOn
  BY <1>1, IndexVacuous DEF PowerOn
<1>2. CASE PowerLoss \/ FactoryReset \/ PrintTimeFaults \/ SelectionFaults
  BY <1>2, IndexVacuous DEF PowerLoss, FactoryReset, PrintTimeFaults,
     SelectionFaults, Reset
<1>3. CASE StartDisplay
  <2> DEFINE idx == StartSettings.display_idx % NDisplay
  <2>1. /\ StartSettings \in Settings
        /\ StartSettings.factory_reset = config.factory_reset
    BY StartType
  <2>2. idx \in 0 .. NDisplay - 1
    BY StartIndex
  <2>3. SetDisplay(idx, StartSettings, <<>>) /\ <<>> \in Seq(Frames)
    BY <1>3, EmptySeq DEF StartDisplay
  <2>4. phase' = IF idx \in Blending THEN "starting" ELSE "loop"
    BY <1>3 DEF StartDisplay
  <2> HIDE DEF idx
  <2>5. ~config'.factory_reset
    BY <1>3, <2>1, <2>2, <2>3, SetDisplayType DEF StartDisplay, Starting
  <2>6. idx \notin Blending => config'.display_idx = idx
    BY <2>1, <2>2, <2>3, SavedIndex
  <2>7. NDisplay \in Nat
    BY DisplayAssumption
  <2>8. phase' = "loop" => config'.display_idx < NDisplay
    BY <2>2, <2>4, <2>6, <2>7
  <2>9. QED
    BY <2>5, <2>8 DEF IndexInv, StartedIsChecked
<1>4. CASE SetDisplayReturns
  <2>1. Top.arg \in 0 .. NDisplay - 1
    BY <1>4, RestFacts, BlendFrame DEF SetDisplayReturns, TypeInv, TypeOK
  <2>2. /\ config'.display_idx = Top.arg
        /\ config'.factory_reset = config.factory_reset
    BY <1>4 DEF SetDisplayReturns, SaveSettings, Settings
  <2>3. NDisplay \in Nat
    BY DisplayAssumption
  <2>4. config'.display_idx < NDisplay
    BY <2>1, <2>2, <2>3
  <2>5. QED
    BY <1>4, <2>2, <2>4 DEF SetDisplayReturns, IndexInv, StartedIsChecked
<1>5. CASE UpPressed \/ DownPressed
  <2>1. PICK idx \in 0 .. NDisplay - 1, e \in Events :
          Calls(e) /\ SetDisplay(idx, config, Resumed(e))
    BY <1>5, SelectionRange DEF UpPressed, DownPressed, Events
  <2>2. Resumed(e) \in Seq(Frames) /\ phase' = phase
    BY <2>1, CallsType
  <2>3. /\ config'.factory_reset = config.factory_reset
        /\ config'.display_idx \in {idx, config.display_idx}
    BY <2>1, <2>2, SetDisplayType, SavedIndex
  <2>4. NDisplay \in Nat
    BY DisplayAssumption
  <2>5. idx < NDisplay
    BY <2>4
  <2>6. QED
    BY <2>2, <2>3, <2>5 DEF IndexInv, StartedIsChecked
<1>6. CASE RightPressed \/ LeftPressed \/ MessageBrighter \/ MessageDimmer
  <2>1. \E b : SetBrightness(b)
    BY <1>6 DEF RightPressed, LeftPressed, MessageBrighter, MessageDimmer, Brighter, Dimmer
  <2>2. /\ config'.display_idx = config.display_idx
        /\ config'.factory_reset = config.factory_reset
    BY <2>1 DEF SetBrightness, SaveSettings, Settings
  <2>3. phase' \in {phase, NavKeyIsOver}
    BY <1>6 DEF RightPressed, LeftPressed, MessageBrighter, MessageDimmer, Calls, Receiving
  <2>4. QED
    BY <2>2, <2>3, IndexKept
<1>7. CASE CentralPressed \/ StatusReturns \/ ReadStatus
  <2>1. config' = config /\ phase' \in {phase, NavKeyIsOver}
    BY <1>7 DEF CentralPressed, TogglePower, Calls, StatusReturns, ReadStatus, settings
  <2>2. QED
    BY <2>1, IndexKept
<1>8. CASE EncoderRotate \/ MessageSetColor
  <2>1. \E c : SetColor(c)
    BY <1>8 DEF EncoderRotate, MessageSetColor
  <2>2. /\ config'.display_idx = config.display_idx
        /\ config'.factory_reset = config.factory_reset
    BY <2>1 DEF SetColor, SaveSettings, Settings
  <2>3. phase' \in {phase, NavKeyIsOver}
    BY <1>8 DEF EncoderRotate, MessageSetColor, Calls, Receiving
  <2>4. QED
    BY <2>2, <2>3, IndexKept
<1>9. CASE MessagePrevDisplay \/ MessageNextDisplay
  <2>1. PICK step \in {1, NDisplay - 1} : MessageMovesDisplay(step)
    BY <1>9 DEF MessagePrevDisplay, MessageNextDisplay
  <2>2. config.display_idx \in 0 .. 255
    BY DEF Settings, Unset
  <2>3. step \in Nat
    BY DisplayAssumption
  <2>4. config.display_idx + step \in Nat
    BY <2>2, <2>3
  <2>5. (config.display_idx + step) % NDisplay \in 0 .. NDisplay - 1
    BY <2>4, IndexRange
  <2>6. NDisplay \in Nat
    BY DisplayAssumption
  <2>7. (config.display_idx + step) % NDisplay < NDisplay
    BY <2>5, <2>6
  <2>8. /\ config'.factory_reset = config.factory_reset
        /\ config'.display_idx = (config.display_idx + step) % NDisplay
    BY <2>1 DEF MessageMovesDisplay, SaveSettings, Settings
  <2>9. phase' = NavKeyIsOver
    BY <2>1 DEF MessageMovesDisplay, Receiving
  <2>10. QED
    BY <2>7, <2>8, <2>9 DEF IndexInv, StartedIsChecked, NavKeyIsOver
<1>10. CASE MessageSetTime \/ MessageUseNtp
  <2>1. /\ config'.display_idx = config.display_idx
        /\ config'.factory_reset = config.factory_reset
    BY <1>10 DEF MessageSetTime, MessageUseNtp, SaveSettings, Settings
  <2>2. phase' \in {phase, NavKeyIsOver}
    BY <1>10 DEF MessageSetTime, MessageUseNtp, Receiving
  <2>3. QED
    BY <2>1, <2>2, IndexKept
<1>11. ASSUME NEW e \in Events, Press(e) PROVE IndexInv'
  BY <1>11, IndexKept DEF Press, settings
<1>12. CASE UNCHANGED vars
  BY <1>12, IndexKept DEF vars
<1>13. QED
  BY <1>1, <1>2, <1>3, <1>4, <1>5, <1>6, <1>7, <1>8, <1>9, <1>10, <1>11, <1>12
     DEF Next, Progress, Callback, Message

\* The tables of brightnesses and displays are indexed inside their bounds.
THEOREM IndicesInTableCorrect == Spec => []IndicesInTable
<1>1. Init => IndexInv
  BY DEF Init, IndexInv, StartedIsChecked
<1>2. TypeInv /\ IndexInv => IndicesInTable
  BY DEF TypeInv, IndexInv, StartedIsChecked, BrightnessInTable, IndicesInTable
<1>3. QED
  BY <1>1, <1>2, IndexStep, TypeInvariant, PTL DEF Spec

-----------------------------------------------------------------------------
(***************************************************************************)
(* The panel.                                                              *)
(***************************************************************************)

\* A step that keeps the brightness, the power and the level keeps their
\* relation, and so does one that ends in a restart.
LEMMA PanelKept ==
  ASSUME PanelFollowsSetting, phase # "off", UNCHANGED panel,
         config'.brightness = config.brightness
  PROVE  PanelFollowsSetting'
BY DEF PanelFollowsSetting, panel

\* Every step keeps the level of the panel in step with the brightness.
LEMMA PanelStep == TypeInv /\ PanelFollowsSetting /\ [Next]_vars => PanelFollowsSetting'
<1> SUFFICES ASSUME TypeInv, PanelFollowsSetting, [Next]_vars
             PROVE  PanelFollowsSetting'
  OBVIOUS
<1> config \in Settings
  BY DEF TypeInv, TypeOK
<1>1. CASE PowerOn
  <2>1. on_off /\ on_off' = on_off
    BY <1>1 DEF PowerOn, TypeInv, OffIsReset
  <2>2. level' = config'.brightness
    BY <1>1 DEF PowerOn, SaveSettings
  <2>3. QED
    BY <2>1, <2>2 DEF PanelFollowsSetting
<1>2. CASE PowerLoss \/ FactoryReset \/ PrintTimeFaults \/ SelectionFaults
  BY <1>2 DEF PowerLoss, FactoryReset, PrintTimeFaults, SelectionFaults, Reset,
     PanelFollowsSetting
<1>3. CASE StartDisplay
  <2> DEFINE idx == StartSettings.display_idx % NDisplay
  <2>1. /\ StartSettings \in Settings
        /\ StartSettings.brightness = config.brightness
    BY StartType
  <2>2. idx \in 0 .. NDisplay - 1
    BY StartIndex
  <2>3. SetDisplay(idx, StartSettings, <<>>) /\ <<>> \in Seq(Frames)
    BY <1>3, EmptySeq DEF StartDisplay
  <2> HIDE DEF idx
  <2>4. config'.brightness = config.brightness
    BY <2>1, <2>2, <2>3, SetDisplayType
  <2>5. QED
    BY <1>3, <2>4, PanelKept DEF StartDisplay, Starting
<1>4. CASE SetDisplayReturns
  <2>1. config'.brightness = config.brightness
    BY <1>4 DEF SetDisplayReturns, SaveSettings, Settings
  <2>2. phase # "off"
    BY <1>4 DEF SetDisplayReturns, TypeInv, OffIsReset
  <2>3. QED
    BY <1>4, <2>1, <2>2, PanelKept DEF SetDisplayReturns
<1>5. CASE UpPressed \/ DownPressed
  <2>1. PICK idx \in 0 .. NDisplay - 1, e \in Events :
          Calls(e) /\ SetDisplay(idx, config, Resumed(e))
    BY <1>5, SelectionRange DEF UpPressed, DownPressed, Events
  <2>2. Resumed(e) \in Seq(Frames) /\ phase # "off"
    BY <2>1, CallsType
  <2>3. config'.brightness = config.brightness
    BY <2>1, <2>2, SetDisplayType
  <2>4. QED
    BY <1>5, <2>2, <2>3, PanelKept DEF UpPressed, DownPressed
<1>6. CASE RightPressed \/ LeftPressed \/ MessageBrighter \/ MessageDimmer
  <2>1. phase # "off" /\ (Brighter \/ Dimmer)
    BY <1>6, RunningIsOn DEF RightPressed, LeftPressed, MessageBrighter,
       MessageDimmer, Calls, Tests, Receiving
  <2>2. PICK b \in 0 .. NBrightness - 1 : SetBrightness(b)
    BY <2>1, StepBrightness
  <2>3. level' = Level[b] /\ config'.brightness = b
    BY <2>2, SetBrightnessType
  <2>4. QED
    BY <2>3 DEF PanelFollowsSetting
<1>7. CASE CentralPressed
  <2>1. /\ config' = config
        /\ level' = IF on_off THEN 0 ELSE Level[config.brightness]
        /\ on_off' = ~on_off
    BY <1>7 DEF CentralPressed, TogglePower, settings
  <2>2. CASE on_off
    <3>1. ~on_off' /\ level' = 0
      BY <2>1, <2>2
    <3>2. QED
      BY <3>1 DEF PanelFollowsSetting
  <2>3. CASE ~on_off
    <3>1. level' = Level[config'.brightness]
      BY <2>1, <2>3
    <3>2. QED
      BY <3>1 DEF PanelFollowsSetting
  <2>4. QED
    BY <2>2, <2>3
<1>8. CASE EncoderRotate \/ MessageSetColor
  <2>1. PICK c \in Colors : SetColor(c)
    BY <1>8 DEF EncoderRotate, MessageSetColor
  <2>2. config'.brightness = config.brightness /\ UNCHANGED panel
    BY <2>1 DEF SetColor, SaveSettings, Settings
  <2>3. phase # "off"
    BY <1>8, RunningIsOn DEF EncoderRotate, MessageSetColor, Calls, Tests, Receiving
  <2>4. QED
    BY <2>2, <2>3, PanelKept
<1>9. CASE \/ MessagePrevDisplay \/ MessageNextDisplay
           \/ MessageSetTime \/ MessageUseNtp
  <2>1. config'.brightness = config.brightness
    BY <1>9 DEF MessagePrevDisplay, MessageNextDisplay, MessageMovesDisplay,
       MessageSetTime, MessageUseNtp, SaveSettings, Settings
  <2>2. UNCHANGED panel
    BY <1>9 DEF MessagePrevDisplay, MessageNextDisplay, MessageMovesDisplay,
       MessageSetTime, MessageUseNtp
  <2>3. phase # "off"
    BY <1>9, RunningIsOn DEF MessagePrevDisplay, MessageNextDisplay,
       MessageMovesDisplay, MessageSetTime, MessageUseNtp, Receiving
  <2>4. QED
    BY <2>1, <2>2, <2>3, PanelKept
<1>10. CASE StatusReturns \/ ReadStatus
  <2>1. config' = config /\ UNCHANGED panel
    BY <1>10 DEF StatusReturns, ReadStatus, settings
  <2>2. phase # "off"
    BY <1>10, RunningIsOn DEF StatusReturns, ReadStatus
  <2>3. QED
    BY <2>1, <2>2, PanelKept
<1>11. ASSUME NEW e \in Events, Press(e) PROVE PanelFollowsSetting'
  BY <1>11, PanelKept DEF Press, settings
<1>12. CASE UNCHANGED vars
  BY <1>12 DEF vars, PanelFollowsSetting
<1>13. QED
  BY <1>1, <1>2, <1>3, <1>4, <1>5, <1>6, <1>7, <1>8, <1>9, <1>10, <1>11, <1>12
     DEF Next, Progress, Callback, Message

\* The level of the panel follows the brightness setting for every table.
THEOREM PanelFollowsSettingCorrect == Spec => []PanelFollowsSetting
<1>1. Init => PanelFollowsSetting
  BY DEF Init, PanelFollowsSetting
<1>2. QED
  BY <1>1, PanelStep, TypeInvariant, PTL DEF Spec

=============================================================================
