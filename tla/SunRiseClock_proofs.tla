------------------------ MODULE SunRiseClock_proofs ------------------------
(***************************************************************************)
(* Theorems about SunRiseClock: types, the two safety properties of the    *)
(* alarm, and that the board implements SettingsStore.  The argument goes  *)
(* through the setters: each lemma below says what one of them leaves of a *)
(* well-formed board, and how the settings and their bytes have moved.     *)
(***************************************************************************)
EXTENDS SunRiseClock, TLAPS

USE ClockAssumption

\* What a variable can hold, and what a setter may be given.
ValueOf(k) ==
  IF k = "timezone" THEN -128..127
  ELSE IF k = "pattern" THEN 0..(NPattern - 1) ELSE Byte

Given(k) == IF k = "timezone" THEN -128..127 ELSE Byte

BoardOK(b) ==
  /\ b = [setting |-> b.setting, eeprom |-> b.eeprom]
  /\ b.setting = [k \in Key |-> b.setting[k]]
  /\ b.eeprom \in [Address -> Byte]
  /\ \A k \in Key : b.setting[k] \in ValueOf(k)

\* Between b and c setting l is left alone, or c has it as it is kept.
Same(l, b, c) ==
  c.setting[l] = b.setting[l] /\ c.eeprom[Addr[l]] = b.eeprom[Addr[l]]

Synced(l, c) == AsLoaded(l, c.setting[l]) = Loaded(l, c.eeprom[Addr[l]])

Kept(b, c) == \A l \in OwnByte : Same(l, b, c) \/ Synced(l, c)

\* A move that may leave the pattern in memory only.
Moved(b, c) ==
  \A l \in OwnByte :
    \/ Same(l, b, c)
    \/ Synced(l, c)
    \/ l = "pattern" /\ c.eeprom[Addr[l]] = b.eeprom[Addr[l]]

-----------------------------------------------------------------------------
(* Values. *)

LEMMA OwnByteIs ==
  /\ OwnByte \subseteq Key \ {"alarm", "alarm_hour", "alarm_minute", "display_clock"}
  /\ \A k \in Key : Addr[k] \in Address
  /\ \A l \in OwnByte : \A k \in Key \ {l} : Addr[k] # Addr[l]
<1>1. Addr["alarm"] = Addr["alarm_hour"] /\ Addr["alarm_minute"] = Addr["display_clock"]
  BY DEF Addr
<1>2. {"alarm", "alarm_hour", "alarm_minute", "display_clock"} \subseteq Key
  BY DEF Key
<1> QED
  BY <1>1, <1>2 DEF OwnByte, Address

\* What a setter stores fits its variable, and reads back as it was stored.
LEMMA StoredOK ==
  ASSUME NEW k \in Key, NEW v \in Given(k)
  PROVE  /\ Stored(k, v) \in ValueOf(k)
         /\ Stored(k, v) % 256 \in Byte
         /\ k \in OwnByte => AsLoaded(k, Stored(k, v)) = Loaded(k, Stored(k, v) % 256)
<1>1. v \in Int /\ Stored(k, v) \in Int
  BY DEF Stored, Lesser, Given, Byte
<1>2. Stored(k, v) % 256 \in Byte
  BY <1>1 DEF Byte
<1>3. CASE k = "timezone"
  <2>1. v \in -128..127 /\ Stored(k, v) = v
    BY <1>3 DEF Stored, Given
  <2>2. v % 256 = IF v < 0 THEN v + 256 ELSE v
    BY <2>1
  <2>3. Loaded(k, v % 256) = IF v \in (1 - ZoneLimit)..(ZoneLimit - 1) THEN v ELSE 0
    BY <1>3, <2>1, <2>2 DEF Loaded
  <2> QED
    BY <1>2, <1>3, <2>1, <2>3 DEF AsLoaded, ValueOf
<1>4. CASE k # "timezone"
  <2>1. v \in Byte
    BY <1>4 DEF Given
  <2>2. Stored(k, v) \in Byte /\ (k = "pattern" => Stored(k, v) \in 0..(NPattern - 1))
        /\ (k = "palette" => Stored(k, v) \in 0..(NPalette - 1))
    <3>1. CASE k \in {"power", "display_clock", "alarm", "autoplay"}
      BY <2>1, <3>1 DEF Stored, Byte
    <3>2. CASE k = "pattern"
      <4>1. Stored(k, v) = Lesser(v, NPattern - 1)
        BY <3>2 DEF Stored
      <4>2. Lesser(v, NPattern - 1) \in Byte \cap (0..(NPattern - 1))
        BY <2>1 DEF Lesser, Byte
      <4>3. QED
        BY <3>2, <4>1, <4>2
    <3>3. CASE k = "palette"
      <4>1. Stored(k, v) = Lesser(v, NPalette - 1)
        BY <3>3 DEF Stored
      <4>2. Lesser(v, NPalette - 1) \in Byte \cap (0..(NPalette - 1))
        BY <2>1 DEF Lesser, Byte
      <4>3. QED
        BY <3>3, <4>1, <4>2
    <3>4. CASE k \notin {"power", "display_clock", "alarm", "autoplay", "pattern", "palette"}
      BY <2>1, <3>4 DEF Stored
    <3> QED
      BY <3>1, <3>2, <3>3, <3>4
  <2>3. Stored(k, v) % 256 = Stored(k, v)
    BY <2>2 DEF Byte
  <2>4. ASSUME k \notin {"alarm_hour", "alarm_minute"}
        PROVE  AsLoaded(k, Stored(k, v)) = Loaded(k, Stored(k, v))
    BY <1>4, <2>2, <2>4 DEF AsLoaded, Loaded, Lesser, Byte
  <2> QED
    BY <1>2, <1>4, <2>2, <2>3, <2>4, OwnByteIs DEF ValueOf
<1> QED
  BY <1>3, <1>4

\* What a restart loads fits its variable, and would be loaded again.
LEMMA LoadedOK ==
  ASSUME NEW k \in Key, NEW b \in Byte
  PROVE  /\ Loaded(k, b) \in ValueOf(k)
         /\ AsLoaded(k, Loaded(k, b)) = Loaded(k, b)
<1>1. CASE k = "timezone"
  BY <1>1 DEF Loaded, AsLoaded, ValueOf, Byte
<1>2. CASE k = "pattern"
  <2>1. Loaded(k, b) = Lesser(b, NPattern - 1) /\ ValueOf(k) = 0..(NPattern - 1)
    BY <1>2 DEF Loaded, ValueOf
  <2>2. Lesser(b, NPattern - 1) \in 0..(NPattern - 1)
    BY DEF Lesser, Byte
  <2>3. \A v : AsLoaded(k, v) = v
    BY <1>2 DEF AsLoaded
  <2> QED
    BY <2>1, <2>2, <2>3
<1>3. CASE k = "palette"
  BY <1>3 DEF Loaded, AsLoaded, ValueOf, Byte, Lesser
<1>4. CASE k \in {"alarm_hour", "alarm_minute"}
  <2>1. Loaded(k, b) \in {0, b} /\ ValueOf(k) = Byte
    BY <1>4 DEF Loaded, ValueOf
  <2>2. \A v : AsLoaded(k, v) = v
    BY <1>4 DEF AsLoaded
  <2> QED
    BY <2>1, <2>2 DEF Byte
<1>5. CASE k \notin {"timezone", "pattern", "palette", "alarm_hour", "alarm_minute"}
  BY <1>5 DEF Loaded, AsLoaded, ValueOf, Byte
<1> QED
  BY <1>1, <1>2, <1>3, <1>4, <1>5

-----------------------------------------------------------------------------
(* Setters. *)

LEMMA PutOK ==
  ASSUME NEW b, BoardOK(b), NEW k \in Key, NEW v \in Given(k)
  PROVE  /\ BoardOK(Put(b, k, v))
         /\ Kept(b, Put(b, k, v))
         /\ Put(b, k, v).setting[k] = Stored(k, v)
         /\ \A l \in Key \ {k} : Put(b, k, v).setting[l] = b.setting[l]
         /\ k # "pattern" => Same("pattern", b, Put(b, k, v))
<1> DEFINE c == Put(b, k, v)
<1>0. /\ Stored(k, v) \in ValueOf(k) /\ Stored(k, v) % 256 \in Byte
      /\ k \in OwnByte => AsLoaded(k, Stored(k, v)) = Loaded(k, Stored(k, v) % 256)
  BY StoredOK
<1>1. /\ c.setting = [b.setting EXCEPT ![k] = Stored(k, v)]
      /\ c.eeprom = [b.eeprom EXCEPT ![Addr[k]] = Stored(k, v) % 256]
      /\ c = [setting |-> c.setting, eeprom |-> c.eeprom]
  BY DEF Put
<1>2. c.setting[k] = Stored(k, v) /\ \A l \in Key \ {k} : c.setting[l] = b.setting[l]
  BY <1>1 DEF BoardOK
<1>3. c.setting = [l \in Key |-> c.setting[l]]
  BY <1>1 DEF BoardOK
<1>4. /\ c.eeprom \in [Address -> Byte]
      /\ c.eeprom[Addr[k]] = Stored(k, v) % 256
      /\ \A a \in Address \ {Addr[k]} : c.eeprom[a] = b.eeprom[a]
  BY <1>0, <1>1, OwnByteIs DEF BoardOK
<1>5. \A l \in Key : c.setting[l] \in ValueOf(l)
  BY <1>0, <1>2 DEF BoardOK
<1>6. \A l \in OwnByte \ {k} : Same(l, b, c)
  BY <1>2, <1>4, OwnByteIs DEF Same
<1>7. k \in OwnByte => Synced(k, c)
  BY <1>0, <1>2, <1>4 DEF Synced
<1>8. "pattern" \in OwnByte
  BY DEF OwnByte, Key, Addr
<1> HIDE DEF c
<1> QED
  BY <1>1, <1>2, <1>3, <1>4, <1>5, <1>6, <1>7, <1>8 DEF BoardOK, Kept, c

LEMMA PatternOK ==
  ASSUME NEW b, BoardOK(b), NEW v \in Byte
  PROVE  /\ BoardOK(setPattern(b, v))
         /\ Moved(b, setPattern(b, v))
         /\ setPattern(b, v).setting["pattern"] = Lesser(v, NPattern - 1)
         /\ \A l \in Key \ {"pattern"} : setPattern(b, v).setting[l] = b.setting[l]
<1>0. "pattern" \in Key /\ v \in Given("pattern") /\ Stored("pattern", v) = Lesser(v, NPattern - 1)
  BY DEF Key, Given, Stored
<1>1. CASE b.setting["autoplay"] = 0
  BY <1>0, <1>1, PutOK DEF setPattern, Kept, Moved
<1>2. CASE b.setting["autoplay"] # 0
  <2> DEFINE c == setPattern(b, v)
  <2>1. /\ c.setting = [b.setting EXCEPT !["pattern"] = Stored("pattern", v)]
        /\ c.eeprom = b.eeprom
        /\ c = [setting |-> c.setting, eeprom |-> c.eeprom]
    BY <1>2 DEF setPattern, BoardOK
  <2>2. /\ c.setting["pattern"] = Stored("pattern", v)
        /\ \A l \in Key \ {"pattern"} : c.setting[l] = b.setting[l]
        /\ c.setting = [l \in Key |-> c.setting[l]]
    BY <1>0, <2>1 DEF BoardOK
  <2>3. Stored("pattern", v) \in ValueOf("pattern")
    BY <1>0, StoredOK
  <2>4. OwnByte \subseteq Key
    BY DEF OwnByte
  <2> HIDE DEF c
  <2> QED
    BY <1>0, <2>1, <2>2, <2>3, <2>4 DEF BoardOK, Moved, Same, c
<1> QED
  BY <1>1, <1>2

\* Writes of other settings may come before and after the choice of a pattern.
LEMMA KeptThenMoved ==
  ASSUME NEW b, NEW c, NEW d, Kept(b, c), Same("pattern", b, c), Moved(c, d)
  PROVE  Moved(b, d)
BY DEF Kept, Moved, Same, Synced

LEMMA MovedThenKept ==
  ASSUME NEW b, NEW c, NEW d, Moved(b, c), Kept(c, d)
  PROVE  Moved(b, d)
BY DEF Kept, Moved, Same, Synced

LEMMA ActivateOK ==
  ASSUME NEW b, BoardOK(b)
  PROVE  /\ BoardOK(activate_alarm(b)) /\ Moved(b, activate_alarm(b))
         /\ activate_alarm(b).setting["alarm"] = b.setting["alarm"]
<1> DEFINE c == Put(b, "power", 1)
           d == Put(c, "display_clock", 0)
           e == setPattern(d, Sunrise)
           f == Put(e, "brightness", AlarmBrightness)
<1>0. /\ {"power", "display_clock", "brightness", "alarm"} \subseteq Key
      /\ 1 \in Given("power") /\ 0 \in Given("display_clock")
      /\ AlarmBrightness \in Given("brightness") /\ Sunrise \in Byte
  BY DEF Key, Given, Byte
<1>1. BoardOK(c) /\ Kept(b, c) /\ Same("pattern", b, c) /\ c.setting["alarm"] = b.setting["alarm"]
  BY <1>0, PutOK
<1>2. BoardOK(d) /\ Kept(c, d) /\ Same("pattern", c, d) /\ d.setting["alarm"] = c.setting["alarm"]
  BY <1>0, <1>1, PutOK
<1>3. BoardOK(e) /\ Moved(d, e) /\ e.setting["alarm"] = d.setting["alarm"]
  BY <1>0, <1>2, PatternOK
<1>4. BoardOK(f) /\ Kept(e, f) /\ f.setting["alarm"] = e.setting["alarm"]
  BY <1>0, <1>3, PutOK
<1>5. f = activate_alarm(b)
  BY DEF activate_alarm
<1> HIDE DEF c, d, e, f
<1>6. Moved(b, f)
  BY <1>1, <1>2, <1>3, <1>4, KeptThenMoved, MovedThenKept
<1> QED
  BY <1>1, <1>2, <1>3, <1>4, <1>5, <1>6

LEMMA DeactivateOK ==
  ASSUME NEW b, BoardOK(b), saved \in [pattern : 0..(NPattern - 1), brightness : Byte]
  PROVE  /\ BoardOK(deactivate_alarm(b)) /\ Moved(b, deactivate_alarm(b))
         /\ Shown(deactivate_alarm(b).setting) = saved
         /\ deactivate_alarm(b).setting["alarm"] = b.setting["alarm"]
<1> DEFINE c == setPattern(b, saved.pattern)
           d == Put(c, "display_clock", 1)
           e == Put(d, "brightness", saved.brightness)
<1>0. /\ {"pattern", "display_clock", "brightness", "alarm"} \subseteq Key
      /\ 1 \in Given("display_clock") /\ saved.brightness \in Given("brightness")
      /\ saved.pattern \in Byte /\ Lesser(saved.pattern, NPattern - 1) = saved.pattern
      /\ Stored("brightness", saved.brightness) = saved.brightness
  BY DEF Key, Given, Byte, Stored, Lesser
<1>1. /\ BoardOK(c) /\ Moved(b, c) /\ c.setting["alarm"] = b.setting["alarm"]
      /\ c.setting["pattern"] = saved.pattern
  <2>1. /\ BoardOK(c) /\ Moved(b, c)
        /\ c.setting["pattern"] = Lesser(saved.pattern, NPattern - 1)
        /\ \A l \in Key \ {"pattern"} : c.setting[l] = b.setting[l]
    BY ONLY BoardOK(b), <1>0, PatternOK
  <2> HIDE DEF c
  <2>2. QED
    BY <1>0, <2>1
<1>2. /\ BoardOK(d) /\ Kept(c, d) /\ d.setting["alarm"] = c.setting["alarm"]
      /\ d.setting["pattern"] = c.setting["pattern"]
  BY <1>0, <1>1, PutOK
<1>3. /\ BoardOK(e) /\ Kept(d, e) /\ e.setting["alarm"] = d.setting["alarm"]
      /\ e.setting["pattern"] = d.setting["pattern"]
      /\ e.setting["brightness"] = saved.brightness
  BY <1>0, <1>2, PutOK
<1>4. e = deactivate_alarm(b)
  BY DEF deactivate_alarm
<1> HIDE DEF c, d, e
<1>5. Moved(b, e)
  BY <1>1, <1>2, <1>3, MovedThenKept
<1>6. Shown(e.setting) = saved
  BY <1>1, <1>2, <1>3 DEF Shown
<1> QED
  BY <1>1, <1>2, <1>3, <1>4, <1>5, <1>6

LEMMA SolidColorOK ==
  ASSUME NEW b, BoardOK(b), NEW v \in Byte
  PROVE  /\ BoardOK(setSolidColor(b, v)) /\ Moved(b, setSolidColor(b, v))
         /\ setSolidColor(b, v).setting["alarm"] = b.setting["alarm"]
<1> DEFINE c == Put(b, "color", v)
<1>0. {"color", "alarm"} \subseteq Key /\ v \in Given("color") /\ NPattern - 1 \in Byte
  BY DEF Key, Given, Byte
<1>1. BoardOK(c) /\ Kept(b, c) /\ Same("pattern", b, c) /\ c.setting["alarm"] = b.setting["alarm"]
  BY <1>0, PutOK
<1> HIDE DEF c
<1>2. /\ BoardOK(setPattern(c, NPattern - 1)) /\ Moved(c, setPattern(c, NPattern - 1))
      /\ setPattern(c, NPattern - 1).setting["alarm"] = c.setting["alarm"]
  BY <1>0, <1>1, PatternOK
<1> QED
  BY <1>1, <1>2, KeptThenMoved DEF setSolidColor, c

LEMMA AdjustOK ==
  ASSUME NEW b, BoardOK(b)
  PROVE  /\ BoardOK(adjustPattern(b)) /\ Moved(b, adjustPattern(b))
         /\ adjustPattern(b).setting["alarm"] = b.setting["alarm"]
<1>1. "pattern" \in Key /\ "alarm" \in Key
  BY DEF Key
<1>2. b.setting["pattern"] \in 0..(NPattern - 1)
  BY <1>1 DEF BoardOK, ValueOf
<1>3. (b.setting["pattern"] + 1) % NPattern \in 0..(NPattern - 1)
  BY <1>2
<1>4. (b.setting["pattern"] + 1) % NPattern \in Byte
  BY <1>3 DEF Byte
<1> QED
  BY <1>1, <1>4, PatternOK DEF adjustPattern

-----------------------------------------------------------------------------
(* The invariant: what is saved is what was last shown outside the alarm.   *)

Scene == [pattern : 0..(NPattern - 1), brightness : Byte]

RestTypeOK ==
  /\ alarm_active \in BOOLEAN
  /\ saved \in Scene /\ before \in Scene
  /\ current \in 0..(Day - 1)
  /\ turn \in {"client", "alarm", "frame"}
  /\ requests \in 0..MaxRequests

SavedIsBefore == before = IF alarm_active THEN saved ELSE Shown(setting)

IInv == BoardOK(Board) /\ RestTypeOK /\ ActiveIsOn /\ SavedIsBefore

\* A step that leaves the settings to a restart, or moves them as the setters do.
BoardStep == Moved(Board, Board') \/ (setting' = loadSettings(eeprom) /\ eeprom' = eeprom)

LEMMA BoardShows ==
  ASSUME NEW b, BoardOK(b)
  PROVE  Shown(b.setting) \in Scene
<1>1. "pattern" \in Key /\ "brightness" \in Key
  BY DEF Key
<1>2. b.setting["pattern"] \in 0..(NPattern - 1) /\ b.setting["brightness"] \in Byte
  BY <1>1 DEF BoardOK, ValueOf
<1> QED
  BY <1>2 DEF Shown, Scene

LEMMA BecomesOK ==
  ASSUME NEW b, BoardOK(b), Becomes(b)
  PROVE  Board' = b /\ setting' = b.setting /\ BoardOK(Board)' /\ Shown(setting') \in Scene
<1>1. Board' = b /\ setting' = b.setting
  BY DEF BoardOK, Becomes, Board
<1>2. BoardOK(Board)'
  BY <1>1 DEF BoardOK, ValueOf
<1> QED
  BY <1>1, <1>2, BoardShows

LEMMA LoadedBoardOK ==
  ASSUME NEW e \in [Address -> Byte]
  PROVE  BoardOK([setting |-> loadSettings(e), eeprom |-> e])
BY LoadedOK, OwnByteIs DEF BoardOK, loadSettings

LEMMA InitOK == Init => IInv
<1> SUFFICES ASSUME Init PROVE IInv
  OBVIOUS
<1>1. eeprom \in [Address -> Byte]
  BY DEF Init, Byte
<1>2. BoardOK(Board)
  BY <1>1, LoadedBoardOK DEF Init, Board
<1>3. Shown(setting) \in Scene
  BY <1>2, BoardShows DEF Board
<1>4. saved \in Scene
  BY DEF Init, Scene, Byte
<1>5. RestTypeOK
  <2>1. alarm_active \in BOOLEAN /\ before \in Scene
    BY <1>3 DEF Init
  <2>2. requests \in 0..MaxRequests /\ turn \in {"client", "alarm", "frame"}
    BY DEF Init
  <2> QED
    BY <1>4, <2>1, <2>2 DEF Init, RestTypeOK
<1>6. ActiveIsOn /\ SavedIsBefore
  BY DEF Init, ActiveIsOn, SavedIsBefore
<1> QED
  BY <1>2, <1>5, <1>6 DEF IInv

\* What a request that sets k to v makes of the board.
Served(k, v) ==
  CASE k = "pattern" -> setPattern(Board, v)
    [] k = "color" -> setSolidColor(Board, v)
    [] StopsAlarm(k, v) -> Put(deactivate_alarm(Board), k, v)
    [] OTHER -> Put(Board, k, v)

LEMMA ServedOK ==
  ASSUME IInv, NEW k \in Key, NEW v \in Given(k)
  PROVE  /\ BoardOK(Served(k, v)) /\ Moved(Board, Served(k, v))
         /\ alarm_active => StopsAlarm(k, v) \/ Served(k, v).setting["alarm"] # 0
         /\ StopsAlarm(k, v) => Shown(Served(k, v).setting) = saved
<1>0. /\ BoardOK(Board) /\ Board.setting = setting
      /\ {"alarm", "pattern", "brightness"} \subseteq Key
      /\ saved \in [pattern : 0..(NPattern - 1), brightness : Byte]
      /\ alarm_active => setting["alarm"] # 0
  BY DEF IInv, Board, Key, RestTypeOK, Scene, ActiveIsOn
<1>1. CASE k = "pattern"
  <2>1. v \in Byte /\ ~StopsAlarm(k, v) /\ Served(k, v) = setPattern(Board, v)
    BY <1>1 DEF Given, StopsAlarm, Served
  <2>2. /\ BoardOK(setPattern(Board, v)) /\ Moved(Board, setPattern(Board, v))
        /\ setPattern(Board, v).setting["alarm"] = setting["alarm"]
    BY <1>0, <2>1, PatternOK
  <2> QED
    BY <1>0, <2>1, <2>2
<1>2. CASE k = "color"
  <2>1. v \in Byte /\ ~StopsAlarm(k, v) /\ Served(k, v) = setSolidColor(Board, v)
    BY <1>2 DEF Given, StopsAlarm, Served
  <2> QED
    BY <1>0, <2>1, SolidColorOK
<1>3. CASE k \notin {"pattern", "color"} /\ StopsAlarm(k, v)
  <2> DEFINE d == deactivate_alarm(Board)
  <2>1. Served(k, v) = Put(d, k, v) /\ k = "alarm"
    BY <1>3 DEF Served, StopsAlarm
  <2>2. BoardOK(d) /\ Moved(Board, d) /\ Shown(d.setting) = saved
    BY <1>0, DeactivateOK
  <2> HIDE DEF d
  <2>3. BoardOK(Put(d, k, v)) /\ Kept(d, Put(d, k, v))
        /\ \A l \in {"pattern", "brightness"} : Put(d, k, v).setting[l] = d.setting[l]
    BY <1>0, <2>1, <2>2, PutOK
  <2> QED
    BY <1>3, <2>1, <2>2, <2>3, MovedThenKept DEF Shown
<1>4. CASE k \notin {"pattern", "color"} /\ ~StopsAlarm(k, v)
  <2>1. Served(k, v) = Put(Board, k, v)
    BY <1>4 DEF Served
  <2>2. /\ BoardOK(Put(Board, k, v)) /\ Kept(Board, Put(Board, k, v))
        /\ Put(Board, k, v).setting[k] = Stored(k, v)
        /\ k # "alarm" => Put(Board, k, v).setting["alarm"] = setting["alarm"]
    BY <1>0, PutOK
  <2>3. Moved(Board, Put(Board, k, v))
    BY <2>2 DEF Kept, Moved
  <2>4. k = "alarm" /\ alarm_active => Stored(k, v) = 1
    BY <1>0, <1>4 DEF StopsAlarm, Stored
  <2> QED
    BY <1>0, <1>4, <2>1, <2>2, <2>3, <2>4
<1> QED
  BY <1>1, <1>2, <1>3, <1>4

\* What loop() makes of the board at a time of day.
Checked(starts, ends) ==
  IF starts THEN activate_alarm(Board)
  ELSE IF ends THEN deactivate_alarm(Board) ELSE Board

LEMMA CheckedOK ==
  ASSUME IInv, NEW now
  PROVE  LET c == Checked(AlarmStarts(now), AlarmEnded(now))
         IN  /\ BoardOK(c) /\ Moved(Board, c)
             /\ alarm_active \/ AlarmStarts(now) => c.setting["alarm"] # 0
             /\ AlarmEnded(now) /\ ~AlarmStarts(now) => Shown(c.setting) = saved
<1>0. /\ BoardOK(Board) /\ Board.setting = setting
      /\ saved \in [pattern : 0..(NPattern - 1), brightness : Byte]
      /\ alarm_active \/ AlarmStarts(now) => setting["alarm"] # 0
  BY DEF IInv, Board, RestTypeOK, Scene, ActiveIsOn, AlarmStarts
<1>1. CASE AlarmStarts(now)
  <2>1. Checked(AlarmStarts(now), AlarmEnded(now)) = activate_alarm(Board)
    BY <1>1 DEF Checked
  <2> QED
    BY <1>0, <1>1, <2>1, ActivateOK
<1>2. CASE ~AlarmStarts(now) /\ AlarmEnded(now)
  BY <1>0, <1>2, DeactivateOK DEF Checked
<1>3. CASE ~AlarmStarts(now) /\ ~AlarmEnded(now)
  BY <1>0, <1>3 DEF Checked, Moved, Same
<1> QED
  BY <1>1, <1>2, <1>3

-----------------------------------------------------------------------------
(* The steps. *)

\* Everything a step has to show at once.
StepOK ==
  /\ IInv' /\ BoardStep
  /\ alarm_active /\ ~alarm_active' => Restart \/ Shown(setting') = before

LEMMA RequestStep ==
  ASSUME IInv, NEW k \in Key, NEW v \in Input[k], HandleRequest(k, v)
  PROVE  StepOK
<1> DEFINE c == Served(k, v)
<1>0. v \in Given(k)
  BY InputAssumption DEF Given
<1>1. /\ BoardOK(c) /\ Moved(Board, c)
      /\ alarm_active => StopsAlarm(k, v) \/ c.setting["alarm"] # 0
      /\ StopsAlarm(k, v) => Shown(c.setting) = saved
  BY <1>0, ServedOK
<1>2. Becomes(c) /\ alarm_active' = (alarm_active /\ ~StopsAlarm(k, v))
  BY DEF HandleRequest, Served
<1> HIDE DEF c
<1>3. Board' = c /\ setting' = c.setting /\ BoardOK(Board)' /\ Shown(setting') \in Scene
  BY <1>1, <1>2, BecomesOK
<1>4. /\ alarm_active' => setting'["alarm"] # 0
      /\ alarm_active /\ ~alarm_active' => Shown(setting') = saved
      /\ alarm_active' => alarm_active
  BY <1>1, <1>2, <1>3
<1>5. /\ before' = IF alarm_active' THEN before ELSE Shown(setting')
      /\ saved' = saved /\ current' = current /\ turn' = "alarm"
      /\ requests' = requests + 1 /\ requests < MaxRequests
  BY DEF HandleRequest, Remember
<1>6. before' \in Scene
  BY <1>3, <1>5 DEF IInv, RestTypeOK
<1>7. requests' \in 0..MaxRequests
  BY <1>5 DEF IInv, RestTypeOK
<1>8. alarm_active' \in BOOLEAN
  BY <1>2
<1>9. RestTypeOK'
  BY <1>5, <1>6, <1>7, <1>8 DEF IInv, RestTypeOK
<1>10. SavedIsBefore'
  BY <1>4, <1>5 DEF IInv, SavedIsBefore
<1>11. alarm_active /\ ~alarm_active' => Shown(setting') = before
  BY <1>4 DEF IInv, SavedIsBefore
<1> QED
  BY <1>1, <1>3, <1>4, <1>9, <1>10, <1>11 DEF StepOK, IInv, BoardStep, ActiveIsOn

LEMMA CheckStep ==
  ASSUME IInv, NEW d \in 0..MaxLoopSeconds, CheckAlarm(d)
  PROVE  StepOK
<1> DEFINE now    == (current + d) % Day
           starts == AlarmStarts(now)
           ends   == AlarmEnded(now)
           c      == Checked(starts, ends)
<1>1. /\ BoardOK(c) /\ Moved(Board, c)
      /\ alarm_active \/ starts => c.setting["alarm"] # 0
      /\ ends /\ ~starts => Shown(c.setting) = saved
  BY CheckedOK
<1>2. now \in 0..(Day - 1)
  BY DEF IInv, RestTypeOK
<1>3. /\ Becomes(c) /\ alarm_active' = (starts \/ (alarm_active /\ ~ends))
      /\ saved' = Saved(starts)
      /\ current' = now /\ turn' \in {"client", "frame"} /\ requests' = requests
      /\ before' = IF alarm_active' THEN before ELSE Shown(setting')
  BY DEF CheckAlarm, Checked, Remember
<1> HIDE DEF c, starts, ends, now
<1>4. Board' = c /\ setting' = c.setting /\ BoardOK(Board)' /\ Shown(setting') \in Scene
  BY <1>1, <1>3, BecomesOK
<1>5. /\ alarm_active' => setting'["alarm"] # 0
      /\ alarm_active /\ ~alarm_active' => Shown(setting') = saved
  BY <1>1, <1>3, <1>4
<1>6. Shown(setting) \in Scene
  BY BoardShows DEF IInv, Board
<1>7. before' \in Scene /\ saved' \in Scene
  BY <1>3, <1>4, <1>6 DEF IInv, RestTypeOK, Saved
<1>8. alarm_active' \in BOOLEAN
  BY <1>3
<1>9. RestTypeOK'
  BY <1>2, <1>3, <1>7, <1>8 DEF IInv, RestTypeOK
<1>10. SavedIsBefore'
  BY <1>3 DEF IInv, SavedIsBefore, Saved
<1>11. alarm_active /\ ~alarm_active' => Shown(setting') = before
  BY <1>5 DEF IInv, SavedIsBefore
<1> QED
  BY <1>1, <1>4, <1>5, <1>9, <1>10, <1>11 DEF StepOK, IInv, BoardStep, ActiveIsOn

LEMMA FrameStep ==
  ASSUME IInv, DrawFrame
  PROVE  StepOK
<1>1. PICK c : /\ Becomes(c) /\ BoardOK(c) /\ Moved(Board, c)
               /\ c.setting["alarm"] = setting["alarm"]
  <2>0. BoardOK(Board) /\ Board.setting = setting
    BY DEF IInv, Board
  <2>1. CASE Becomes(adjustPattern(Board))
    BY <2>0, <2>1, AdjustOK
  <2>2. CASE UNCHANGED <<setting, eeprom>>
    <3>1. Becomes(Board) /\ Moved(Board, Board)
      BY <2>2 DEF Becomes, Board, Moved, Same
    <3> QED
      BY <2>0, <3>1
  <2> QED
    BY <2>1, <2>2 DEF DrawFrame
<1>2. Board' = c /\ setting' = c.setting /\ BoardOK(Board)' /\ Shown(setting') \in Scene
  BY <1>1, BecomesOK
<1>3. /\ current' \in 0..(Day - 1) /\ turn' = "client"
      /\ alarm_active' = alarm_active /\ saved' = saved /\ requests' = requests
      /\ before' = IF alarm_active' THEN before ELSE Shown(setting')
  BY DEF DrawFrame, Remember
<1>4. before' \in Scene
  BY <1>2, <1>3 DEF IInv, RestTypeOK
<1>5. RestTypeOK'
  BY <1>3, <1>4 DEF IInv, RestTypeOK
<1>6. ActiveIsOn' /\ SavedIsBefore'
  BY <1>1, <1>2, <1>3 DEF IInv, ActiveIsOn, SavedIsBefore
<1> QED
  BY <1>1, <1>2, <1>3, <1>5, <1>6 DEF StepOK, IInv, BoardStep

LEMMA RestartStep ==
  ASSUME IInv, Restart
  PROVE  StepOK
<1>1. /\ setting' = loadSettings(eeprom) /\ eeprom' = eeprom /\ alarm_active' = FALSE
      /\ saved' = [pattern |-> 0, brightness |-> 0]
      /\ current' \in 0..(Day - 1) /\ turn' = "client"
      /\ requests < MaxRequests /\ requests' = requests + 1
      /\ before' = Shown(setting')
  BY DEF Restart, Remember
<1>2. eeprom \in [Address -> Byte] /\ Board' = [setting |-> setting', eeprom |-> eeprom']
  BY DEF IInv, BoardOK, Board
<1>3. BoardOK([setting |-> setting', eeprom |-> eeprom'])
  BY <1>1, <1>2, LoadedBoardOK
<1>4. BoardOK(Board)'
  BY <1>2, <1>3 DEF BoardOK, ValueOf
<1>5. Shown(setting') \in Scene /\ saved' \in Scene
  <2>1. Shown(setting') \in Scene
    BY <1>3, BoardShows
  <2> QED
    BY <1>1, <2>1 DEF Scene, Byte
<1>6. requests' \in 0..MaxRequests
  BY <1>1 DEF IInv, RestTypeOK
<1>7. RestTypeOK'
  BY <1>1, <1>5, <1>6 DEF RestTypeOK
<1>8. ActiveIsOn' /\ SavedIsBefore'
  BY <1>1 DEF ActiveIsOn, SavedIsBefore
<1> QED
  BY <1>1, <1>4, <1>7, <1>8 DEF StepOK, IInv, BoardStep

LEMMA StillStep ==
  ASSUME IInv, NoRequest \/ UNCHANGED vars
  PROVE  StepOK
<1>1. /\ setting' = setting /\ eeprom' = eeprom /\ alarm_active' = alarm_active
      /\ saved' = saved /\ before' = before /\ current' = current
      /\ requests' = requests /\ turn' \in {turn, "alarm"}
  BY DEF NoRequest, vars
<1>2. Board' = Board
  BY <1>1 DEF Board
<1>3. BoardOK(Board)'
  BY <1>2 DEF IInv, BoardOK, ValueOf
<1>4. RestTypeOK' /\ ActiveIsOn' /\ SavedIsBefore'
  BY <1>1 DEF IInv, RestTypeOK, ActiveIsOn, SavedIsBefore, Shown
<1>5. Moved(Board, Board')
  BY <1>2 DEF Moved, Same
<1> QED
  BY <1>1, <1>3, <1>4, <1>5 DEF StepOK, IInv, BoardStep

LEMMA NextStep == IInv /\ [Next]_vars => StepOK
BY RequestStep, CheckStep, FrameStep, RestartStep, StillStep DEF Next, Request, Check

LEMMA Invariant == Spec => []IInv
<1>1. IInv /\ [Next]_vars => IInv'
  BY NextStep DEF StepOK
<1> QED
  BY InitOK, <1>1, PTL DEF Spec

-----------------------------------------------------------------------------
(* The theorems. *)

\* Every variable of the sketch keeps its type, from an erased flash on.
THEOREM TypeCorrect == Spec => []TypeOK
<1>1. IInv => TypeOK
  <2> SUFFICES ASSUME IInv PROVE TypeOK
    OBVIOUS
  <2>1. \A k \in Key : setting[k] \in -128..255
    BY DEF IInv, BoardOK, Board, ValueOf, Byte
  <2>2. setting \in [Key -> -128..255] /\ eeprom \in [Address -> Byte]
    BY <2>1 DEF IInv, BoardOK, Board
  <2> QED
    BY <2>2 DEF IInv, RestTypeOK, TypeOK, Scene
<1> QED
  BY <1>1, Invariant, PTL

\* setAlarm and loop() together leave no alarm running that is switched off.
THEOREM ActiveIsOnCorrect == Spec => []ActiveIsOn
<1>1. IInv => ActiveIsOn
  BY DEF IInv
<1> QED
  BY <1>1, Invariant, PTL

\* activate_alarm saves once: what deactivate_alarm puts back is what was shown
\* before the alarm, however often it was activated.
THEOREM RestoredAtEndCorrect == Spec => RestoredAtEnd
<1>1. IInv /\ [Next]_vars
        => [alarm_active /\ ~alarm_active' => Restart \/ Shown(setting') = before]_vars
  BY NextStep DEF StepOK
<1> QED
  BY <1>1, Invariant, PTL DEF Spec, RestoredAtEnd

\* The setters, the alarm and setup() implement the abstract store: what a
\* user set is what a restart brings back.
THEOREM SettingsKeptCorrect == Spec => SettingsKept
<1>1. Init => Store!Init
  <2> SUFFICES ASSUME Init, NEW k \in OwnByte
               PROVE  AsLoaded(k, setting[k]) = loadSettings(eeprom)[k]
    BY DEF Store!Init
  <2>1. k \in Key /\ setting[k] = Loaded(k, eeprom[Addr[k]]) /\ eeprom[Addr[k]] \in Byte
    BY OwnByteIs DEF Init, loadSettings, Byte
  <2> QED
    BY <2>1, LoadedOK DEF loadSettings
<1>2. IInv /\ [Next]_vars => [Store!Next]_Store!vars
  <2> SUFFICES ASSUME IInv, [Next]_vars PROVE Store!Next
    OBVIOUS
  <2>0. /\ BoardStep /\ eeprom \in [Address -> Byte]
        /\ Board.setting = setting /\ Board.eeprom = eeprom
        /\ Board'.setting = setting' /\ Board'.eeprom = eeprom'
    BY NextStep DEF StepOK, IInv, BoardOK, Board
  <2>1. OwnByte \subseteq Key
    BY OwnByteIs
  <2>2. CASE Moved(Board, Board')
    <3> SUFFICES ASSUME NEW k \in OwnByte
                 PROVE  LET m  == AsLoaded(k, setting[k])
                            n  == AsLoaded(k, setting'[k])
                            p  == Loaded(k, eeprom[Addr[k]])
                            q  == Loaded(k, eeprom'[Addr[k]])
                        IN  /\ n # m => q = n \/ k \in {"pattern"}
                            /\ q # p => q = n
      BY <2>1 DEF Store!Next, Store!Set, loadSettings
    <3> QED
      BY <2>0, <2>2 DEF Moved, Same, Synced
  <2>3. CASE setting' = loadSettings(eeprom) /\ eeprom' = eeprom
    <3>1. ASSUME NEW k \in OwnByte
          PROVE  AsLoaded(k, setting'[k]) = loadSettings(eeprom)[k]
      <4>1. k \in Key /\ setting'[k] = Loaded(k, eeprom[Addr[k]]) /\ eeprom[Addr[k]] \in Byte
        BY <2>0, <2>3, OwnByteIs DEF loadSettings
      <4> QED
        BY <4>1, LoadedOK DEF loadSettings
    <3> QED
      BY <2>3, <3>1 DEF Store!Next, Store!Restart
  <2> QED
    BY <2>0, <2>2, <2>3 DEF BoardStep
<1> QED
  BY <1>1, <1>2, Invariant, PTL DEF Spec, SettingsKept, Store!Spec

\* An alarm ends in the second AlarmLength after the alarm time, by being switched
\* off, or with the supply.  The end is compared with the time of day without a
\* modulus: an alarm that is to end at midnight or later never ends by itself.
THEOREM EndsOnlyToday ==
  Spec => [][alarm_active /\ ~alarm_active'
               => Restart \/ HandleRequest("alarm", 0) \/ (Check /\ EndsToday)]_vars
<1>1. ASSUME TypeOK, alarm_active, ~alarm_active', Next
      PROVE  Restart \/ HandleRequest("alarm", 0) \/ (Check /\ EndsToday)
  <2>1. ASSUME NEW k \in Key, NEW v \in Input[k], HandleRequest(k, v)
        PROVE  HandleRequest("alarm", 0)
    <3>1. StopsAlarm(k, v)
      BY <1>1, <2>1 DEF HandleRequest
    <3>2. k = "alarm" /\ v = 0
      BY <3>1 DEF StopsAlarm
    <3>3. QED
      BY <2>1, <3>2
  <2>2. ASSUME NEW d \in 0..MaxLoopSeconds, CheckAlarm(d)
        PROVE  EndsToday
    <3> DEFINE now == (current + d) % Day
    <3>1. AlarmEnded(now)
      BY <1>1, <2>2 DEF CheckAlarm
    <3>2. now + setting["timezone"] * Hour \in Int
      <4>1. "timezone" \in Key /\ setting["timezone"] \in Int /\ current \in Int
        BY <1>1 DEF TypeOK, Key
      <4>2. now \in Int
        BY <4>1
      <4>3. setting["timezone"] * Hour \in Int
        BY <4>1
      <4>4. QED
        BY <4>2, <4>3
    <3> HIDE DEF now
    <3>3. (now + setting["timezone"] * Hour) % Day < Day
      BY <3>2
    <3>4. QED
      BY <3>1, <3>3 DEF AlarmEnded, time_of_day, EndsToday
  <2>3. ASSUME NoRequest \/ DrawFrame
        PROVE  FALSE
    BY <1>1, <2>3 DEF NoRequest, DrawFrame
  <2>4. QED
    BY <1>1, <2>1, <2>2, <2>3 DEF Next, Request, Check
<1>2. TypeOK /\ [Next]_vars
        => [alarm_active /\ ~alarm_active'
              => Restart \/ HandleRequest("alarm", 0) \/ (Check /\ EndsToday)]_vars
  BY <1>1
<1>3. QED
  BY <1>2, TypeCorrect, PTL DEF Spec
=============================================================================
