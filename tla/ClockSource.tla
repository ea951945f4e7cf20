----------------------------- MODULE ClockSource -----------------------------
(***************************************************************************)
(* Where the Dulles clock gets its time and its time zone from             *)
(* (src/arduino/DullesNavKey/DullesNavKey.ino, get_time.cpp): the settings *)
(* that choose the source, the lookup of the zone at a web service, the    *)
(* messages that change them, ntp_clock, and the copy in EEPROM.           *)
(*                                                                         *)
(* ntp_clock is a wrapper around a client it has no pointer to before      *)
(* ntp_clock.setup: setOffset and now fault until then and the board       *)
(* restarts with the settings that were saved.  Handlers that save twice   *)
(* are split at the saves, so that the power can fail and the board can    *)
(* fault in between; everything else a handler does is one action.         *)
(*                                                                         *)
(* Time is counted in ticks: Day ticks make a day (86400 seconds), an hour *)
(* is one tick.  use_wifi is true on every board (an erased flash,         *)
(* factory_reset and use_ntp make it so, nothing clears it) and left out.  *)
(***************************************************************************)
EXTENDS Integers

CONSTANTS
  Day,         \* ticks in a day
  RefreshHour, \* the hour of the weekly lookup, 3
  Offsets,     \* zones, in ticks, that messages and the web service name
  Steps,       \* amounts, in ticks, that add_to_timezone is sent
  FactoryZone, \* config.timezone after a factory reset
  MaxZone,     \* bound: largest zone, either side of UTC
  MaxTime,     \* bound: ticks that pass
  None         \* no choice of a zone by the user is in force

ASSUME TimeAssumption ==
  /\ Day \in Nat \ {0}
  /\ RefreshHour \in 0 .. Day - 1
  /\ MaxTime \in Nat

ASSUME ZoneAssumption ==
  /\ MaxZone \in Nat
  /\ Offsets \subseteq Int
  /\ Steps \subseteq Int
  /\ FactoryZone \in Int
  /\ None \notin Int

Settings == [ timezone        : Int,
              use_ip_timezone : BOOLEAN,
              use_ntp_time    : BOOLEAN,
              last_tz_lookup  : Int,
              wifi_reset      : BOOLEAN,
              factory_reset   : BOOLEAN ]

VARIABLES
  phase,     \* "off", "splash" (led_setup), "ntp", "lookup", "print" (in setup), "loop"
  call,      \* the handler between two saves: "lookup", "manual", "add", or "idle"
  at,        \* where it is: "offset" (calls setOffset next), "finish", or "idle"
  config,    \* the settings in RAM
  eeprom,    \* the settings in EEPROM
  ntp_ready, \* ntp_clock.timeClient is set
  offset,    \* the offset of the NTP client
  force,     \* force_timezone_from_ip
  utc,       \* ticks since the epoch
  asked,     \* history: Now() has run in this tick
  tried,     \* history: the tick of the last request to the web service
  chosen,    \* history: the zone the user last chose, until the choice is undone
  reset_by   \* history: what made the board start again

settings == <<config, eeprom>>
handler  == <<call, at>>
clock    == <<ntp_ready, offset>>
time     == <<utc, asked>>

vars == <<phase, call, at, config, eeprom, ntp_ready, offset, force, utc, asked,
          tried, chosen, reset_by>>

-----------------------------------------------------------------------------

SaveSettings(s) ==
  /\ config' = s
  /\ eeprom' = s

\* C's remainder: the sign is that of the dividend.
Rem(a, b) == IF a >= 0 THEN a % b ELSE -((-a) % b)

\* The day of the week TimeLib's weekday returns: Sunday is 1.
Weekday(t) == ((t \div Day + 4) % 7) + 1

Hour(t) == t % Day

\* ntp_clock.now().
LocalTime == utc + offset

Idle == call = "idle"

\* The program is in an interact_loop and no handler is running.
Polling == Idle /\ phase \in {"splash", "loop"}

-----------------------------------------------------------------------------
(***************************************************************************)
(* Power and setup().                                                      *)
(***************************************************************************)

Reset(saved, cause) ==
  /\ phase' = "off"
  /\ call' = "idle"
  /\ at' = "idle"
  /\ config' = saved
  /\ eeprom' = saved
  /\ ntp_ready' = FALSE
  /\ offset' = 0
  /\ force' = FALSE
  /\ reset_by' = cause

PowerLoss ==
  /\ phase # "off"
  /\ Reset(eeprom, "power")
  /\ UNCHANGED <<time, tried, chosen>>

PowerOn ==
  /\ phase = "off"
  /\ phase' = "splash"
  /\ UNCHANGED <<handler, settings, clock, force, time, tried, chosen, reset_by>>

FactorySettings ==
  [ timezone        |-> FactoryZone,
    use_ip_timezone |-> TRUE,
    use_ntp_time    |-> TRUE,
    last_tz_lookup  |-> 0,
    wifi_reset      |-> TRUE,
    factory_reset   |-> FALSE ]

FactoryReset ==
  /\ phase = "splash"
  /\ Idle
  /\ config.factory_reset
  /\ Reset(FactorySettings, "factory_reset")
  /\ chosen' = None
  /\ UNCHANGED <<time, tried>>

\* wifi_setup, which waits until the network is there; a pending wifi_reset is
\* cleared and saved before the portal is opened.
WifiSetup ==
  /\ phase = "splash"
  /\ Idle
  /\ ~config.factory_reset
  /\ SaveSettings([config EXCEPT !.wifi_reset = FALSE])
  /\ phase' = "ntp"
  /\ UNCHANGED <<handler, clock, force, time, tried, chosen, reset_by>>

\* Mutant of NtpSetup: the client runs in UTC.
NtpSetupWithoutOffset ==
  /\ phase = "ntp"
  /\ phase' = "lookup"
  /\ ntp_ready' = config.use_ntp_time
  /\ UNCHANGED <<handler, settings, offset, force, time, tried, chosen, reset_by>>

\* Mutant of NtpSetup: a clock whose zone was set by hand gets no client.
NtpSetupWithIP ==
  /\ phase = "ntp"
  /\ phase' = "lookup"
  /\ IF config.use_ntp_time /\ config.use_ip_timezone
     THEN ntp_ready' = TRUE /\ offset' = config.timezone
     ELSE UNCHANGED clock
  /\ UNCHANGED <<handler, settings, force, time, tried, chosen, reset_by>>

\* setup() readies ntp_clock only if it is to be used.
NtpSetup ==
  /\ phase = "ntp"
  /\ phase' = "lookup"
  /\ IF config.use_ntp_time
     THEN ntp_ready' = TRUE /\ offset' = config.timezone
     ELSE UNCHANGED clock
  /\ UNCHANGED <<handler, settings, force, time, tried, chosen, reset_by>>

\* print_time asks ntp_clock for the time; then set_display and loop().
EnterLoop ==
  /\ phase = "print"
  /\ ntp_ready
  /\ phase' = "loop"
  /\ UNCHANGED <<handler, settings, clock, force, time, tried, chosen, reset_by>>

PrintTimeFaults ==
  /\ phase = "print"
  /\ ~ntp_ready
  /\ Reset(eeprom, "print_time")
  /\ UNCHANGED <<time, tried, chosen>>

-----------------------------------------------------------------------------
(***************************************************************************)
(* The lookup of the zone: set_timezone_from_ip.                           *)
(***************************************************************************)

\* The guard of the weekly lookup in Now() at local time t.  A lookup in the
\* same hour was less than 3601 seconds ago.
RefreshDue(t) ==
  /\ Weekday(t) = 0
  /\ Hour(t) = RefreshHour
  /\ t # config.last_tz_lookup

\* Where a lookup that has ended returns to.
AfterLookup == IF phase = "lookup" THEN "print" ELSE phase

\* Mutant of Lookup: the zone of the web service is always taken over.
LookupAlways ==
  /\ tried' = utc
  /\ \/ UNCHANGED <<handler, settings>> /\ phase' = AfterLookup
     \/ /\ \E o \in Offsets :
             SaveSettings([config EXCEPT !.timezone = Rem(o, Day)])
        /\ call' = "lookup"
        /\ at' = "offset"
        /\ UNCHANGED phase
  /\ UNCHANGED <<clock, utc, chosen, reset_by>>

\* The request to the web service.  It fails, or names zone o, which is taken
\* over unless the zone is not to come from there.
Lookup ==
  /\ tried' = utc
  /\ \/ UNCHANGED <<handler, settings>> /\ phase' = AfterLookup
     \/ /\ config.use_ip_timezone
        /\ \E o \in Offsets :
             SaveSettings([config EXCEPT !.timezone = Rem(o, Day)])
        /\ call' = "lookup"
        /\ at' = "offset"
        /\ UNCHANGED phase
  /\ UNCHANGED <<clock, utc, chosen, reset_by>>

SetupLookup ==
  /\ phase = "lookup"
  /\ Idle
  /\ Lookup
  /\ UNCHANGED <<force, asked>>

\* Mutant of ForcedLookup: the flag is not cleared.
ForcedLookupAgain ==
  /\ Polling
  /\ force
  /\ Lookup
  /\ UNCHANGED <<force, asked>>

\* interact_loop finds force_timezone_from_ip set.
ForcedLookup ==
  /\ Polling
  /\ force
  /\ force' = FALSE
  /\ Lookup
  /\ UNCHANGED asked

\* loop() asks for the time, once in a tick at least.
ReadTime ==
  /\ Polling
  /\ phase = "loop"
  /\ ~asked
  /\ asked' = TRUE
  /\ IF config.use_ntp_time /\ RefreshDue(LocalTime)
     THEN Lookup
     ELSE UNCHANGED <<phase, handler, settings, clock, utc, tried, chosen, reset_by>>
  /\ UNCHANGED force

\* Mutant of SetOffset: add_to_timezone does not return.
SetOffsetGoesOn ==
  /\ at = "offset"
  /\ ntp_ready
  /\ offset' = config.timezone
  /\ at' = "finish"
  /\ UNCHANGED <<call, phase, settings, ntp_ready, force, time, tried, chosen, reset_by>>

\* The call of ntp_clock.setOffset in set_timezone_offset and add_to_timezone.
SetOffset ==
  /\ at = "offset"
  /\ ntp_ready
  /\ offset' = config.timezone
  /\ IF call = "add"
     THEN call' = "idle" /\ at' = "idle"
     ELSE at' = "finish" /\ UNCHANGED call
  /\ UNCHANGED <<phase, settings, ntp_ready, force, time, tried, chosen, reset_by>>

SetOffsetFaults ==
  /\ at = "offset"
  /\ ~ntp_ready
  /\ Reset(eeprom, "set_offset")
  /\ UNCHANGED <<time, tried, chosen>>

\* The lookup notes when it was made, as Now() has it.
LookupReturns ==
  /\ call = "lookup"
  /\ at = "finish"
  /\ SaveSettings([config EXCEPT
                     !.last_tz_lookup = IF config.use_ntp_time THEN LocalTime ELSE 42])
  /\ call' = "idle"
  /\ at' = "idle"
  /\ phase' = AfterLookup
  /\ UNCHANGED <<clock, force, time, tried, chosen, reset_by>>

-----------------------------------------------------------------------------
(***************************************************************************)
(* Messages: the branches of handle_msg that concern the time.             *)
(***************************************************************************)

\* timezone_offset with a number: the zone is saved and, when set_timezone_offset
\* has returned, the choice of the user's zone over the web service's.
MessageZone(v) ==
  /\ Polling
  /\ SaveSettings([config EXCEPT !.timezone = Rem(v, Day)])
  /\ call' = "manual"
  /\ at' = "offset"
  /\ chosen' = None
  /\ UNCHANGED <<phase, clock, force, time, tried, reset_by>>

ManualZoneReturns ==
  /\ call = "manual"
  /\ at = "finish"
  /\ SaveSettings([config EXCEPT !.use_ip_timezone = FALSE])
  /\ call' = "idle"
  /\ at' = "idle"
  /\ chosen' = config.timezone
  /\ UNCHANGED <<phase, clock, force, time, tried, reset_by>>

\* timezone_offset with "IP".
MessageZoneFromIP ==
  /\ Polling
  /\ SaveSettings([config EXCEPT !.use_ip_timezone = TRUE])
  /\ force' = TRUE
  /\ chosen' = None
  /\ UNCHANGED <<phase, handler, clock, time, tried, reset_by>>

\* add_to_timezone, which does not bring the zone back into one day.
MessageAddToZone(d) ==
  /\ Polling
  /\ config.timezone + d \in -MaxZone .. MaxZone
  /\ SaveSettings([config EXCEPT !.timezone = @ + d, !.use_ip_timezone = FALSE])
  /\ call' = "add"
  /\ at' = "offset"
  /\ chosen' = config.timezone + d
  /\ UNCHANGED <<phase, clock, force, time, tried, reset_by>>

MessageSetTime ==
  /\ Polling
  /\ SaveSettings([config EXCEPT !.use_ip_timezone = FALSE, !.use_ntp_time = FALSE])
  /\ UNCHANGED <<phase, handler, clock, force, time, tried, chosen, reset_by>>

MessageUseNtp ==
  /\ Polling
  /\ ~config.use_ntp_time
  /\ SaveSettings([config EXCEPT !.use_ip_timezone = TRUE, !.use_ntp_time = TRUE])
  /\ ntp_ready' = TRUE
  /\ offset' = config.timezone
  /\ chosen' = None
  /\ UNCHANGED <<phase, handler, force, time, tried, reset_by>>

Tick ==
  /\ utc < MaxTime
  /\ utc' = utc + 1
  /\ asked' = FALSE
  /\ UNCHANGED <<phase, handler, settings, clock, force, tried, chosen, reset_by>>

-----------------------------------------------------------------------------

\* A board whose flash was never written; -1 is the zone four bytes of 255 make.
Init ==
  /\ phase = "off"
  /\ call = "idle"
  /\ at = "idle"
  /\ eeprom = [ timezone        |-> -1,
                use_ip_timezone |-> TRUE,
                use_ntp_time    |-> TRUE,
                last_tz_lookup  |-> -1,
                wifi_reset      |-> TRUE,
                factory_reset   |-> TRUE ]
  /\ config = eeprom
  /\ ntp_ready = FALSE
  /\ offset = 0
  /\ force = FALSE
  /\ utc = 0
  /\ asked = FALSE
  /\ tried = -1
  /\ chosen = None
  /\ reset_by = "power"

\* What the program does by itself.
Progress ==
  \/ PowerOn
  \/ FactoryReset
  \/ WifiSetup
  \/ NtpSetup
  \/ SetupLookup
  \/ EnterLoop
  \/ PrintTimeFaults
  \/ SetOffset
  \/ SetOffsetFaults
  \/ LookupReturns
  \/ ManualZoneReturns

Message ==
  \/ \E v \in Offsets : MessageZone(v)
  \/ MessageZoneFromIP
  \/ \E d \in Steps : MessageAddToZone(d)
  \/ MessageSetTime
  \/ MessageUseNtp

Next ==
  \/ PowerLoss
  \/ Progress
  \/ ForcedLookup
  \/ ReadTime
  \/ Message
  \/ Tick

Spec == Init /\ [][Next]_vars

(***************************************************************************)
(* The program runs on: setup() and a handler that has begun end (the      *)
(* network is there, requests are answered or time out), and loop() polls, *)
(* however many messages arrive.                                           *)
(***************************************************************************)
FairSpec ==
  /\ Spec
  /\ WF_vars(Progress)
  /\ SF_vars(ForcedLookup)
  /\ SF_vars(ReadTime)

-----------------------------------------------------------------------------
(***************************************************************************)
(* What the code guarantees.                                               *)
(***************************************************************************)

\* Every variable keeps its type, and only a handler that saves twice is ever
\* between its saves.
TypeOK ==
  /\ phase \in {"off", "splash", "ntp", "lookup", "print", "loop"}
  /\ <<call, at>> \in {<<"idle", "idle">>, <<"add", "offset">>}
                        \cup {"lookup", "manual"} \X {"offset", "finish"}
  /\ config \in Settings
  /\ eeprom \in Settings
  /\ ntp_ready \in BOOLEAN
  /\ offset \in Int
  /\ force \in BOOLEAN
  /\ utc \in Nat
  /\ asked \in BOOLEAN
  /\ tried \in Int
  /\ chosen \in Int \cup {None}
  /\ reset_by \in {"power", "factory_reset", "print_time", "set_offset"}

\* Between two handlers the clock runs in the zone of the settings, however
\* lookups, messages and power cycles followed each other.
OffsetIsApplied ==
  (phase \in {"print", "loop"} /\ Idle /\ ntp_ready) => offset = config.timezone

\* "time zone manually changed... ignore internate timezone": once the handler
\* of a manual choice has returned, neither a lookup nor a power cycle nor a
\* fault changes the saved zone, until the user asks for the zone by IP or NTP.
ManualZoneIsKept ==
  chosen # None => /\ eeprom.timezone = chosen
                   /\ ~eeprom.use_ip_timezone

\* A lookup the user asked for is made (or the board is reset first).
ForcedLookupIsMade == force ~> ~force

\* Whatever faults, resets, lookups and choices of zones came before: once the
\* supply holds and no message arrives in the splash, where a zone still reaches
\* a client that is not there, a board that is to use NTP comes into loop() and
\* stays there, with the messages that arrive in loop().
ComesUp ==
  /\ <>[][~PowerLoss /\ ~(Message /\ phase = "splash")]_vars
  /\ <>[]config.use_ntp_time
  => <>[](phase = "loop")

-----------------------------------------------------------------------------
(***************************************************************************)
(* What the repository says and the code does not do.                      *)
(***************************************************************************)

\* "look up tz info every Sunday at 3:00 AM": when the hour after three o'clock
\* on a Sunday is over and loop() has asked for the time in it, the zone has
\* been looked up in it.
SundayLookup ==
  [][(/\ utc' # utc
      /\ phase = "loop"
      /\ Idle
      /\ asked
      /\ config.use_ntp_time
      /\ Weekday(LocalTime) = 1
      /\ Hour(LocalTime) = RefreshHour)
       => tried = utc]_vars

=============================================================================
