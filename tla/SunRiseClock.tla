---------------------------- MODULE SunRiseClock ----------------------------
(***************************************************************************)
(* The sunrise alarm clock, src/arduino/SunRiseClock/SunRiseClock.ino: the *)
(* settings a web page makes, the EEPROM bytes they are kept in, and the   *)
(* alarm that takes the display over for five minutes.                     *)
(*                                                                         *)
(* loop() serves at most one web request, computes the time and compares   *)
(* it with the alarm, and, if the power is on, draws a frame and asks for  *)
(* the time.  Between these three turns the supply may fail.               *)
(***************************************************************************)
EXTENDS Integers, FiniteSets

CONSTANTS
  Day, Hour, Minute,  \* seconds in each: 86400, 3600, 60
  AlarmLength,        \* seconds the alarm lasts: 5 * 60
  ZoneLimit,          \* loadSettings resets time zones from here on: 12
  NPattern, NPalette, \* patternCount, paletteCount
  Sunrise,            \* index of the pattern named "Sunrise": 0
  AlarmBrightness,    \* 100
  DefaultColor,       \* solidColor as it is initialised
  Input,              \* [Key -> SUBSET Int]: the values requests carry
  MaxLoopSeconds,     \* bound: seconds one turn of loop() may take
  MaxRequests         \* bound: web requests and power failures

Key == {"brightness", "pattern", "color", "power", "autoplay", "duration",
        "palette", "speed", "timezone", "alarm", "alarm_hour",
        "alarm_minute", "display_clock"}

\* The byte each setting is written to.  The color takes 2, 3 and 4.
Addr ==
  [brightness |-> 0, pattern |-> 1, color |-> 2, power |-> 5, autoplay |-> 6,
   duration |-> 7, palette |-> 8, speed |-> 9, timezone |-> 10, alarm |-> 11,
   alarm_hour |-> 11, alarm_minute |-> 12, display_clock |-> 12]

Address == {Addr[k] : k \in Key}
Byte == 0..255

ASSUME ClockAssumption ==
  /\ Day \in Nat /\ Hour \in 1..Day /\ Minute \in 1..Hour
  /\ AlarmLength \in 1..(Day - 1)
  /\ ZoneLimit \in 1..127
  /\ NPattern \in 1..256 /\ NPalette \in 1..256 /\ Sunrise \in 0..(NPattern - 1)
  /\ AlarmBrightness \in Byte /\ DefaultColor \in Byte \ {0}
  /\ MaxLoopSeconds \in Nat /\ MaxRequests \in Nat

\* A request carries a byte; a time zone may be negative.
ASSUME InputAssumption ==
  \A k \in Key : Input[k] \subseteq IF k = "timezone" THEN -128..127 ELSE Byte

VARIABLES
  setting,       \* [Key -> Int]: the program's variables
  eeprom,        \* [Address -> Byte]
  alarm_active,  \* the alarm has taken the display over
  saved,         \* saved_pattern_index and saved_brightness
  current,       \* current_time, as seconds of the day
  turn,          \* what loop() does next: "client", "alarm" or "frame"
  requests,      \* counts requests and power failures
  before         \* history: pattern and brightness when last not in an alarm

vars == <<setting, eeprom, alarm_active, saved, current, turn, requests, before>>

-----------------------------------------------------------------------------
(* Settings and their bytes. *)

Lesser(a, b) == IF a < b THEN a ELSE b

\* What a setter makes of the value it is given.
Stored(k, v) ==
  CASE k \in {"power", "display_clock", "alarm", "autoplay"} -> IF v = 0 THEN 0 ELSE 1
    [] k = "pattern" -> Lesser(v, NPattern - 1)
    [] k = "palette" -> Lesser(v, NPalette - 1)
    [] OTHER -> v

\* Mutant of Loaded: the indices are taken as they are.
LoadedUnclamped(k, b) == IF b = 255 THEN b ELSE Lesser(b, NPattern)

\* What loadSettings makes of the byte it reads.
Loaded(k, b) ==
  LET zone == IF b > 127 THEN b - 256 ELSE b IN
  CASE k = "pattern" -> Lesser(b, NPattern - 1)
    [] k = "palette" -> Lesser(b, NPalette - 1)
    [] k = "color" -> IF b = 0 THEN DefaultColor ELSE b
    [] k = "timezone" -> IF zone \in (1 - ZoneLimit)..(ZoneLimit - 1) THEN zone ELSE 0
    [] k = "alarm_hour" -> IF b > Day \div Hour THEN 0 ELSE b
    [] k = "alarm_minute" -> IF b > Hour \div Minute - 1 THEN 0 ELSE b
    [] OTHER -> b

loadSettings(e) == [k \in Key |-> Loaded(k, e[Addr[k]])]

\* The program's variables and the bytes, as the setters change them together.
Board == [setting |-> setting, eeprom |-> eeprom]
Becomes(b) == setting' = b.setting /\ eeprom' = b.eeprom

Put(b, k, v) ==
  [setting |-> [b.setting EXCEPT ![k] = Stored(k, v)],
   eeprom  |-> [b.eeprom EXCEPT ![Addr[k]] = Stored(k, v) % 256]]

\* While patterns play by themselves the choice of one is not written.
setPattern(b, v) ==
  IF b.setting["autoplay"] = 0
  THEN Put(b, "pattern", v)
  ELSE [b EXCEPT !.setting = [@ EXCEPT !["pattern"] = Stored("pattern", v)]]

adjustPattern(b) == setPattern(b, (b.setting["pattern"] + 1) % NPattern)

setSolidColor(b, v) == setPattern(Put(b, "color", v), NPattern - 1)

-----------------------------------------------------------------------------
(* The alarm. *)

activate_alarm(b) ==
  Put(setPattern(Put(Put(b, "power", 1), "display_clock", 0), Sunrise),
      "brightness", AlarmBrightness)

\* Mutant of deactivate_alarm: the brightness is restored without being written.
deactivate_alarm_unsaved(b) ==
  LET c == Put(setPattern(b, saved.pattern), "display_clock", 1)
  IN [c EXCEPT !.setting = [@ EXCEPT !["brightness"] = saved.brightness]]

deactivate_alarm(b) ==
  Put(Put(setPattern(b, saved.pattern), "display_clock", 1),
      "brightness", saved.brightness)

AlarmTime(s) == s["alarm_hour"] * Hour + s["alarm_minute"] * Minute
time_of_day(now) == (now + setting["timezone"] * Hour) % Day

\* Mutant of AlarmStarts: loop() returns before it when the power is off.
AlarmStartsLit(now) ==
  setting["power"] # 0 /\ setting["alarm"] # 0 /\ AlarmTime(setting) = time_of_day(now)

\* Mutant of AlarmEnded: tm is compared where time_of_day is meant.
AlarmEndedAbroad(now) ==
  /\ setting["alarm"] # 0 /\ alarm_active
  /\ AlarmTime(setting) + AlarmLength = now + setting["timezone"] * Hour

\* loop() compares for equality: it has to come round in that very second.
AlarmStarts(now) == setting["alarm"] # 0 /\ AlarmTime(setting) = time_of_day(now)

AlarmEnded(now) ==
  /\ setting["alarm"] # 0 /\ alarm_active
  /\ AlarmTime(setting) + AlarmLength = time_of_day(now)

Shown(s) == [pattern |-> s["pattern"], brightness |-> s["brightness"]]

\* Mutant of Saved: every activation saves.
SavedAgain(starts) == IF starts THEN Shown(setting) ELSE saved

\* What activate_alarm saves, if it runs.
Saved(starts) == IF starts /\ ~alarm_active THEN Shown(setting) ELSE saved

\* Mutant of StopsAlarm: orig is read after alarm is assigned.
StopsAlarmLate(k, v) == k = "alarm" /\ v = 0 /\ Stored(k, v) # 0 /\ alarm_active

\* setAlarm(0) ends an alarm.
StopsAlarm(k, v) == k = "alarm" /\ v = 0 /\ setting["alarm"] # 0 /\ alarm_active

\* The history: every step outside an alarm records what is shown.
Remember == before' = IF alarm_active' THEN before ELSE Shown(setting')

-----------------------------------------------------------------------------
(* The three turns of loop(). *)

\* webServer.handleClient with a request that sets k to v.
HandleRequest(k, v) ==
  /\ turn = "client" /\ requests < MaxRequests
  /\ Becomes(CASE k = "pattern" -> setPattern(Board, v)
               [] k = "color" -> setSolidColor(Board, v)
               [] StopsAlarm(k, v) -> Put(deactivate_alarm(Board), k, v)
               [] OTHER -> Put(Board, k, v))
  /\ alarm_active' = (alarm_active /\ ~StopsAlarm(k, v))
  /\ turn' = "alarm" /\ requests' = requests + 1
  /\ Remember
  /\ UNCHANGED <<saved, current>>

NoRequest ==
  /\ turn = "client" /\ turn' = "alarm"
  /\ UNCHANGED <<setting, eeprom, alarm_active, saved, current, requests, before>>

\* d seconds have passed since the last turn.
CheckAlarm(d) ==
  LET now    == (current + d) % Day
      starts == AlarmStarts(now)
      ends   == AlarmEnded(now)
  IN /\ turn = "alarm"
     /\ current' = now
     /\ Becomes(IF starts THEN activate_alarm(Board)
                ELSE IF ends THEN deactivate_alarm(Board) ELSE Board)
     /\ saved' = Saved(starts)
     /\ alarm_active' = (starts \/ (alarm_active /\ ~ends))
     /\ turn' = IF setting'["power"] = 0 THEN "client" ELSE "frame"
     /\ Remember
     /\ UNCHANGED requests

\* A frame: the next pattern if its time has come, and the answer of the time
\* server if there is one, which sets the clock to what it says.
DrawFrame ==
  /\ turn = "frame" /\ turn' = "client"
  /\ \/ setting["autoplay"] # 0 /\ Becomes(adjustPattern(Board))
     \/ UNCHANGED <<setting, eeprom>>
  /\ current' \in 0..(Day - 1)
  /\ UNCHANGED <<alarm_active, saved, requests>>
  /\ Remember

\* The supply fails and comes back: setup() loads the settings.  An unset clock
\* shows some time: it counts from 0, and a negative time zone wraps around in
\* 32 bits.
Restart ==
  /\ requests < MaxRequests /\ requests' = requests + 1
  /\ setting' = loadSettings(eeprom) /\ UNCHANGED eeprom
  /\ alarm_active' = FALSE
  /\ saved' = [pattern |-> 0, brightness |-> 0]
  /\ current' \in 0..(Day - 1) /\ turn' = "client"
  /\ Remember

-----------------------------------------------------------------------------

\* The first power-on finds an erased flash.
Init ==
  /\ eeprom = [a \in Address |-> 255]
  /\ setting = loadSettings(eeprom)
  /\ alarm_active = FALSE
  /\ saved = [pattern |-> 0, brightness |-> 0]
  /\ current \in 0..(Day - 1) /\ turn = "client" /\ requests = 0
  /\ before = Shown(setting)

Request == \E k \in Key : \E v \in Input[k] : HandleRequest(k, v)
Check == \E d \in 0..MaxLoopSeconds : CheckAlarm(d)

Next == Request \/ NoRequest \/ Check \/ DrawFrame \/ Restart

Spec == Init /\ [][Next]_vars

\* loop() runs forever and time passes while it does; requests, power failures
\* and answers of the time server need not come.
FairSpec ==
  /\ Spec
  /\ WF_vars(NoRequest \/ Check \/ DrawFrame)
  /\ SF_vars(\E d \in 1..MaxLoopSeconds : CheckAlarm(d))

-----------------------------------------------------------------------------
(* What the clock promises. *)

TypeOK ==
  /\ setting \in [Key -> -128..255]
  /\ eeprom \in [Address -> Byte]
  /\ alarm_active \in BOOLEAN
  /\ saved \in [pattern : 0..(NPattern - 1), brightness : Byte]
  /\ current \in 0..(Day - 1)
  /\ turn \in {"client", "alarm", "frame"}
  /\ requests \in 0..MaxRequests
  /\ before \in [pattern : 0..(NPattern - 1), brightness : Byte]

\* The display is never left in the hands of an alarm that is switched off:
\* loop() looks for the end of an alarm only while alarm is set, so whoever
\* clears it has to end it (setAlarm).
ActiveIsOn == alarm_active => setting["alarm"] # 0

\* activate_alarm runs at every turn of the alarm's second, and again if the
\* clock is set back or the alarm moved: what it saved the first time, and not
\* the alarm's own pattern and brightness, is what it puts back at the end.
RestoredAtEnd ==
  [][alarm_active /\ ~alarm_active' => Restart \/ Shown(setting') = before]_vars

\* The settings with a byte of their own.  alarm and alarm_hour share byte 11,
\* alarm_minute and display_clock byte 12: each of those overwrites another.
OwnByte == {k \in Key : \A l \in Key \ {k} : Addr[l] # Addr[k]}

\* A setting as a restart would have it.  A time zone of twelve hours either
\* way and a black color are not taken from the EEPROM.
AsLoaded(k, v) ==
  CASE k = "timezone" -> IF v \in (1 - ZoneLimit)..(ZoneLimit - 1) THEN v ELSE 0
    [] k = "color" -> IF v = 0 THEN DefaultColor ELSE v
    [] OTHER -> v

Store == INSTANCE SettingsStore WITH
  Key      <- OwnByte,
  Volatile <- {"pattern"},
  mem      <- [k \in OwnByte |-> AsLoaded(k, setting[k])],
  kept     <- [k \in OwnByte |-> loadSettings(eeprom)[k]]

\* Whatever requests, alarms and power failures do, a setting with a byte of its
\* own is what the next restart brings back; the pattern may move without.
SettingsKept == Store!Spec

\* While loop() comes round in every second and the clock is not set, ...
Steady == current' \in {current, IF turn = "alarm" THEN (current + 1) % Day ELSE current}

\* ... every alarm ends, unless it is to end after midnight (later than 23:55):
\* the time of day is then never five minutes past the alarm time.
EndsToday == \E s \in {setting} : AlarmTime(s) + AlarmLength < Day

AlarmEnds == <>[][Steady]_vars /\ <>[]EndsToday => []<>~alarm_active

\* ... and an alarm that stays on at a time of the day is reached every day,
\* whether or not the power is on.
IsSet == \E s \in {setting} : s["alarm"] # 0 /\ AlarmTime(s) < Day

AlarmRings == <>[][Steady]_vars /\ <>[]IsSet => []<>alarm_active
=============================================================================
