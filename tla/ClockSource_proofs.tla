------------------------- MODULE ClockSource_proofs -------------------------
(***************************************************************************)
(* Proofs that the safety invariants of ClockSource hold for every value   *)
(* of its constants.                                                       *)
(***************************************************************************)
EXTENDS ClockSource, TLAPS

-----------------------------------------------------------------------------
(***************************************************************************)
(* Types.                                                                  *)
(***************************************************************************)

Causes == {"power", "factory_reset", "print_time", "set_offset"}

Handlers == {<<"idle", "idle">>, <<"add", "offset">>}
              \cup {"lookup", "manual"} \X {"offset", "finish"}

\* C's remainder of a zone is a zone.
LEMMA RemType ==
  ASSUME NEW a \in Int
  PROVE  Rem(a, Day) \in Int
<1>1. Day \in Nat \ {0}
  BY TimeAssumption
<1>2. a >= 0 => a % Day \in Int
  BY <1>1
<1>3. ~(a >= 0) => -((-a) % Day) \in Int
  BY <1>1
<1>4. QED
  BY <1>2, <1>3 DEF Rem

\* A restart establishes the types of the next boot.
LEMMA ResetType ==
  ASSUME TypeOK, NEW saved \in Settings, NEW cause \in Causes, Reset(saved, cause),
         utc' \in Nat, asked' \in BOOLEAN, tried' \in Int, chosen' \in Int \cup {None}
  PROVE  TypeOK'
<1>1. ntp_ready' \in BOOLEAN /\ force' \in BOOLEAN
  BY Zenon DEF Reset
<1>2. <<call', at'>> \in Handlers
  BY DEF Reset, Handlers
<1>3. /\ phase' = "off"
      /\ config' \in Settings
      /\ eeprom' \in Settings
      /\ offset' \in Int
      /\ reset_by' \in Causes
  BY DEF Reset
<1>4. QED
  BY <1>1, <1>2, <1>3 DEF TypeOK, Causes, Handlers

\* A lookup that fails returns, one that succeeds is between its saves.
LEMMA LookupType ==
  ASSUME TypeOK, Idle, Lookup
  PROVE  /\ config' \in Settings
         /\ eeprom' \in Settings
         /\ <<call', at'>> \in Handlers
         /\ tried' \in Int
         /\ phase' \in {phase, AfterLookup}
         /\ UNCHANGED <<clock, utc, chosen, reset_by>>
<1>1. /\ config \in Settings
      /\ eeprom \in Settings
      /\ <<call, at>> \in Handlers
      /\ utc \in Nat
  BY DEF TypeOK, Handlers
<1>2. tried' \in Int
  BY <1>1 DEF Lookup
<1>3. phase' \in {phase, AfterLookup} /\ UNCHANGED <<clock, utc, chosen, reset_by>>
  BY DEF Lookup
<1>4. CASE UNCHANGED <<handler, settings>>
  BY <1>1, <1>2, <1>3, <1>4 DEF handler, settings
<1>5. ASSUME NEW o \in Offsets, SaveSettings([config EXCEPT !.timezone = Rem(o, Day)]),
             call' = "lookup", at' = "offset"
      PROVE  config' \in Settings /\ eeprom' \in Settings /\ <<call', at'>> \in Handlers
  <2>1. Rem(o, Day) \in Int
    BY RemType, ZoneAssumption
  <2>2. config' \in Settings /\ eeprom' \in Settings
    BY <1>1, <1>5, <2>1 DEF SaveSettings, Settings
  <2>3. QED
    BY <1>5, <2>2 DEF Handlers
<1>6. QED
  BY <1>2, <1>3, <1>4, <1>5 DEF Lookup

\* Every step preserves the types.
LEMMA TypeStep == TypeOK /\ [Next]_vars => TypeOK'
<1> SUFFICES ASSUME TypeOK, [Next]_vars PROVE TypeOK'
  OBVIOUS
<1> USE DEF settings, handler, clock, time
<1>1. CASE PowerLoss
  BY <1>1, ResetType DEF PowerLoss, TypeOK, Causes
<1>2. CASE FactoryReset
  <2>1. FactorySettings \in Settings
    BY ZoneAssumption DEF FactorySettings, Settings
  <2>2. QED
    BY <1>2, <2>1, ResetType DEF FactoryReset, TypeOK, Causes
<1>3. CASE PrintTimeFaults
  BY <1>3, ResetType DEF PrintTimeFaults, TypeOK, Causes
<1>4. CASE SetOffsetFaults
  BY <1>4, ResetType DEF SetOffsetFaults, TypeOK, Causes
<1>5. CASE PowerOn
  BY <1>5 DEF PowerOn, TypeOK
<1>6. CASE WifiSetup
  BY <1>6 DEF WifiSetup, SaveSettings, Settings, TypeOK
<1>7. CASE NtpSetup
  <2>1. ntp_ready' \in BOOLEAN /\ offset' \in Int
    BY <1>7 DEF NtpSetup, Settings, TypeOK
  <2>2. QED
    BY <1>7, <2>1 DEF NtpSetup, TypeOK
<1>8. CASE EnterLoop
  BY <1>8 DEF EnterLoop, TypeOK
<1>9. CASE SetupLookup
  BY <1>9, LookupType DEF SetupLookup, AfterLookup, TypeOK, Handlers
<1>10. CASE ForcedLookup
  <2>1. force' \in BOOLEAN
    BY <1>10, Zenon DEF ForcedLookup
  <2>2. QED
    BY <1>10, <2>1, LookupType DEF ForcedLookup, Polling, AfterLookup, TypeOK, Handlers
<1>11. CASE ReadTime
  <2>1. asked' \in BOOLEAN /\ force' = force
    BY <1>11, Zenon DEF ReadTime
  <2>2. CASE Lookup
    BY <1>11, <2>1, <2>2, LookupType DEF ReadTime, Polling, AfterLookup, TypeOK, Handlers
  <2>3. CASE UNCHANGED <<phase, handler, settings, clock, utc, tried, chosen, reset_by>>
    BY <2>1, <2>3 DEF TypeOK
  <2>4. QED
    BY <1>11, <2>2, <2>3 DEF ReadTime
<1>12. CASE SetOffset
  <2>1. offset' \in Int
    BY <1>12 DEF SetOffset, Settings, TypeOK
  <2>2. <<call', at'>> \in Handlers
    BY <1>12 DEF SetOffset, Handlers, TypeOK
  <2>3. QED
    BY <1>12, <2>1, <2>2 DEF SetOffset, Handlers, TypeOK
<1>13. CASE LookupReturns
  <2>1. (IF config.use_ntp_time THEN LocalTime ELSE 42) \in Int
    BY DEF LocalTime, TypeOK
  <2>2. config' \in Settings /\ eeprom' \in Settings
    BY <1>13, <2>1 DEF LookupReturns, SaveSettings, Settings, TypeOK
  <2>3. <<call', at'>> \in Handlers
    BY <1>13 DEF LookupReturns, Handlers
  <2>4. QED
    BY <1>13, <2>2, <2>3 DEF LookupReturns, AfterLookup, Handlers, TypeOK
<1>14. ASSUME NEW v \in Offsets, MessageZone(v) PROVE TypeOK'
  <2>1. Rem(v, Day) \in Int
    BY RemType, ZoneAssumption
  <2>2. config' \in Settings /\ eeprom' \in Settings
    BY <1>14, <2>1 DEF MessageZone, SaveSettings, Settings, TypeOK
  <2>3. <<call', at'>> \in Handlers
    BY <1>14 DEF MessageZone, Handlers
  <2>4. QED
    BY <1>14, <2>2, <2>3 DEF MessageZone, Handlers, TypeOK
<1>15. CASE ManualZoneReturns
  <2>1. /\ config' \in Settings
        /\ eeprom' \in Settings
        /\ chosen' \in Int
    BY <1>15 DEF ManualZoneReturns, SaveSettings, Settings, TypeOK
  <2>2. <<call', at'>> \in Handlers
    BY <1>15 DEF ManualZoneReturns, Handlers
  <2>3. QED
    BY <1>15, <2>1, <2>2 DEF ManualZoneReturns, Handlers, TypeOK
<1>16. CASE MessageZoneFromIP
  <2>1. force' \in BOOLEAN
    BY <1>16, Zenon DEF MessageZoneFromIP
  <2>2. config' \in Settings /\ eeprom' \in Settings
    BY <1>16 DEF MessageZoneFromIP, SaveSettings, Settings, TypeOK
  <2>3. QED
    BY <1>16, <2>1, <2>2 DEF MessageZoneFromIP, TypeOK
<1>17. ASSUME NEW d \in Steps, MessageAddToZone(d) PROVE TypeOK'
  <2>1. config.timezone + d \in Int
    BY ZoneAssumption DEF Settings, TypeOK
  <2>2. config' \in Settings /\ eeprom' \in Settings
    BY <1>17, <2>1 DEF MessageAddToZone, SaveSettings, Settings, TypeOK
  <2>3. <<call', at'>> \in Handlers
    BY <1>17 DEF MessageAddToZone, Handlers
  <2>4. QED
    BY <1>17, <2>1, <2>2, <2>3 DEF MessageAddToZone, Handlers, TypeOK
<1>18. CASE MessageSetTime
  <2>1. config' \in Settings /\ eeprom' \in Settings
    BY <1>18 DEF MessageSetTime, SaveSettings, Settings, TypeOK
  <2>2. QED
    BY <1>18, <2>1 DEF MessageSetTime, TypeOK
<1>19. CASE MessageUseNtp
  <2>1. ntp_ready' \in BOOLEAN
    BY <1>19, Zenon DEF MessageUseNtp
  <2>2. /\ config' \in Settings
        /\ eeprom' \in Settings
        /\ offset' \in Int
    BY <1>19 DEF MessageUseNtp, SaveSettings, Settings, TypeOK
  <2>3. QED
    BY <1>19, <2>1, <2>2 DEF MessageUseNtp, TypeOK
<1>20. CASE Tick
  <2>1. asked' \in BOOLEAN
    BY <1>20, Zenon DEF Tick
  <2>2. QED
    BY <1>20, <2>1 DEF Tick, TypeOK
<1>21. CASE UNCHANGED vars
  BY <1>21 DEF vars, TypeOK
<1>22. QED
  BY <1>1, <1>2, <1>3, <1>4, <1>5, <1>6, <1>7, <1>8, <1>9, <1>10, <1>11, <1>12, <1>13,
     <1>14, <1>15, <1>16, <1>17, <1>18, <1>19, <1>20, <1>21 DEF Next, Progress, Message

\* TypeOK holds in every reachable state, whatever zones are named.
THEOREM TypeCorrect == Spec => []TypeOK
<1>1. Init => TypeOK
  <2> SUFFICES ASSUME Init PROVE TypeOK
    OBVIOUS
  <2>1. eeprom \in Settings /\ config \in Settings
    BY DEF Init, Settings
  <2>2. ntp_ready \in BOOLEAN /\ force \in BOOLEAN /\ asked \in BOOLEAN
    BY Zenon DEF Init
  <2>3. QED
    BY <2>1, <2>2 DEF Init, TypeOK
<1>2. QED
  BY <1>1, TypeStep, PTL DEF Spec

-----------------------------------------------------------------------------
(***************************************************************************)
(* The clock.                                                              *)
(***************************************************************************)

\* loop() is only entered with the clock set up, and only a restart undoes it.
LoopInv == phase = "loop" => ntp_ready

\* Every step keeps it.
LEMMA LoopStep == LoopInv /\ [Next]_vars => LoopInv'
<1> SUFFICES ASSUME LoopInv, [Next]_vars PROVE LoopInv'
  OBVIOUS
<1> USE DEF LoopInv, clock
<1>1. CASE PowerLoss \/ FactoryReset \/ PrintTimeFaults \/ SetOffsetFaults
  BY <1>1 DEF PowerLoss, FactoryReset, PrintTimeFaults, SetOffsetFaults, Reset
<1>2. CASE PowerOn \/ WifiSetup \/ NtpSetup \/ EnterLoop
  BY <1>2 DEF PowerOn, WifiSetup, NtpSetup, EnterLoop
<1>3. CASE SetupLookup \/ ForcedLookup \/ ReadTime
  BY <1>3 DEF SetupLookup, ForcedLookup, ReadTime, Lookup, AfterLookup
<1>4. CASE SetOffset \/ LookupReturns \/ ManualZoneReturns \/ Tick
  BY <1>4 DEF SetOffset, LookupReturns, AfterLookup, ManualZoneReturns, Tick
<1>5. CASE Message
  BY <1>5 DEF Message, MessageZone, MessageZoneFromIP, MessageAddToZone,
     MessageSetTime, MessageUseNtp
<1>6. CASE UNCHANGED vars
  BY <1>6 DEF vars
<1>7. QED
  BY <1>1, <1>2, <1>3, <1>4, <1>5, <1>6 DEF Next, Progress

\* The step behind ComesUp: whatever arrives in loop(), only a failing supply
\* ends it; no handler faults there.
StaysUp == phase = "loop" => phase' = "loop" \/ PowerLoss

\* In loop() the board stays there until the supply fails.
THEOREM StaysUpCorrect == Spec => [][StaysUp]_vars
<1>1. Init => LoopInv
  BY DEF Init, LoopInv
<1>2. LoopInv /\ [Next]_vars => [StaysUp]_vars
  <2> SUFFICES ASSUME LoopInv, Next, phase = "loop", ~PowerLoss
               PROVE  phase' = "loop"
    BY DEF StaysUp
  <2> USE DEF LoopInv
  <2>1. ~FactoryReset /\ ~PrintTimeFaults /\ ~SetOffsetFaults
    BY DEF FactoryReset, PrintTimeFaults, SetOffsetFaults
  <2>2. ~PowerOn /\ ~WifiSetup /\ ~NtpSetup /\ ~SetupLookup
    BY DEF PowerOn, WifiSetup, NtpSetup, SetupLookup
  <2>3. CASE EnterLoop
    BY <2>3 DEF EnterLoop
  <2>4. CASE ForcedLookup \/ ReadTime
    BY <2>4 DEF ForcedLookup, ReadTime, Lookup, AfterLookup
  <2>5. CASE SetOffset \/ LookupReturns \/ ManualZoneReturns \/ Tick
    BY <2>5 DEF SetOffset, LookupReturns, AfterLookup, ManualZoneReturns, Tick
  <2>6. CASE Message
    BY <2>6 DEF Message, MessageZone, MessageZoneFromIP, MessageAddToZone,
       MessageSetTime, MessageUseNtp
  <2>7. QED
    BY <2>1, <2>2, <2>3, <2>4, <2>5, <2>6 DEF Next, Progress
<1>3. QED
  BY <1>1, <1>2, LoopStep, PTL DEF Spec

\* OffsetIsApplied speaks of the moments between two handlers; what the handlers
\* keep is that only one about to call setOffset has a zone not yet applied.
OffsetInv == (ntp_ready /\ at # "offset") => offset = config.timezone

\* Every step keeps the client in the zone of the settings.
LEMMA OffsetStep == TypeOK /\ OffsetInv /\ [Next]_vars => OffsetInv'
<1> SUFFICES ASSUME TypeOK, OffsetInv, [Next]_vars PROVE OffsetInv'
  OBVIOUS
<1> config \in Settings
  BY DEF TypeOK
<1> USE DEF OffsetInv, settings, handler, clock
<1>1. CASE PowerLoss \/ FactoryReset \/ PrintTimeFaults \/ SetOffsetFaults
  BY <1>1 DEF PowerLoss, FactoryReset, PrintTimeFaults, SetOffsetFaults, Reset
<1>2. CASE PowerOn \/ NtpSetup \/ EnterLoop \/ Tick
  BY <1>2 DEF PowerOn, NtpSetup, EnterLoop, Tick
<1>3. CASE WifiSetup \/ LookupReturns \/ ManualZoneReturns \/ MessageZoneFromIP
  <2>1. config'.timezone = config.timezone
    BY <1>3 DEF WifiSetup, LookupReturns, ManualZoneReturns, MessageZoneFromIP,
       SaveSettings, Settings
  <2>2. UNCHANGED clock /\ (at # "offset" \/ UNCHANGED at)
    BY <1>3 DEF WifiSetup, LookupReturns, ManualZoneReturns, MessageZoneFromIP
  <2>3. QED
    BY <2>1, <2>2
<1>4. CASE SetupLookup \/ ForcedLookup \/ ReadTime
  <2>1. at' = "offset" \/ UNCHANGED <<handler, settings>>
    BY <1>4 DEF SetupLookup, ForcedLookup, ReadTime, Lookup
  <2>2. UNCHANGED clock
    BY <1>4 DEF SetupLookup, ForcedLookup, ReadTime, Lookup
  <2>3. QED
    BY <2>1, <2>2
<1>5. CASE SetOffset
  BY <1>5 DEF SetOffset
<1>6. CASE \/ \E v \in Offsets : MessageZone(v)
           \/ \E d \in Steps : MessageAddToZone(d)
  BY <1>6 DEF MessageZone, MessageAddToZone
<1>7. CASE MessageSetTime
  <2>1. config'.timezone = config.timezone
    BY <1>7 DEF MessageSetTime, SaveSettings, Settings
  <2>2. QED
    BY <1>7, <2>1 DEF MessageSetTime
<1>8. CASE MessageUseNtp
  <2>1. config'.timezone = config.timezone
    BY <1>8 DEF MessageUseNtp, SaveSettings, Settings
  <2>2. QED
    BY <1>8, <2>1 DEF MessageUseNtp
<1>9. CASE UNCHANGED vars
  BY <1>9 DEF vars
<1>10. QED
  BY <1>1, <1>2, <1>3, <1>4, <1>5, <1>6, <1>7, <1>8, <1>9 DEF Next, Progress, Message

\* Between two handlers the clock runs in the zone of the settings.
THEOREM OffsetIsAppliedCorrect == Spec => []OffsetIsApplied
<1>1. Init => OffsetInv
  BY DEF Init, OffsetInv
<1>2. TypeOK /\ OffsetInv => OffsetIsApplied
  BY DEF TypeOK, OffsetInv, OffsetIsApplied, Idle
<1>3. QED
  BY <1>1, <1>2, OffsetStep, TypeCorrect, PTL DEF Spec

-----------------------------------------------------------------------------
(***************************************************************************)
(* The user's choice of a zone.                                            *)
(***************************************************************************)

\* ManualZoneIsKept needs that the settings in RAM, which the lookup reads, are
\* those in EEPROM.
ChoiceInv == config = eeprom /\ ManualZoneIsKept

\* Every step keeps a choice that is in force.
LEMMA ChoiceStep == TypeOK /\ ChoiceInv /\ [Next]_vars => ChoiceInv'
<1> SUFFICES ASSUME TypeOK, ChoiceInv, [Next]_vars PROVE ChoiceInv'
  OBVIOUS
<1> config \in Settings
  BY DEF TypeOK
<1> USE DEF ChoiceInv, ManualZoneIsKept, settings
<1>1. CASE PowerLoss \/ PrintTimeFaults \/ SetOffsetFaults
  BY <1>1 DEF PowerLoss, PrintTimeFaults, SetOffsetFaults, Reset
<1>2. CASE FactoryReset
  BY <1>2 DEF FactoryReset, Reset
<1>3. CASE PowerOn \/ NtpSetup \/ EnterLoop \/ SetOffset \/ Tick
  BY <1>3 DEF PowerOn, NtpSetup, EnterLoop, SetOffset, Tick
<1>4. CASE WifiSetup \/ LookupReturns
  <2>1. /\ config' = eeprom'
        /\ config'.timezone = config.timezone
        /\ config'.use_ip_timezone = config.use_ip_timezone
        /\ chosen' = chosen
    BY <1>4 DEF WifiSetup, LookupReturns, SaveSettings, Settings
  <2>2. QED
    BY <2>1
<1>5. CASE SetupLookup \/ ForcedLookup \/ ReadTime
  <2>1. UNCHANGED settings \/ config.use_ip_timezone
    BY <1>5 DEF SetupLookup, ForcedLookup, ReadTime, Lookup
  <2>2. UNCHANGED settings \/ config' = eeprom'
    BY <1>5 DEF SetupLookup, ForcedLookup, ReadTime, Lookup, SaveSettings
  <2>3. UNCHANGED chosen
    BY <1>5 DEF SetupLookup, ForcedLookup, ReadTime, Lookup
  <2>4. QED
    BY <2>1, <2>2, <2>3
<1>6. CASE ManualZoneReturns
  <2>1. /\ config' = eeprom'
        /\ config'.timezone = config.timezone
        /\ ~config'.use_ip_timezone
        /\ chosen' = config.timezone
    BY <1>6 DEF ManualZoneReturns, SaveSettings, Settings
  <2>2. QED
    BY <2>1
<1>7. ASSUME NEW d \in Steps, MessageAddToZone(d) PROVE ChoiceInv'
  <2>1. /\ config' = eeprom'
        /\ config'.timezone = config.timezone + d
        /\ ~config'.use_ip_timezone
        /\ chosen' = config.timezone + d
    BY <1>7 DEF MessageAddToZone, SaveSettings, Settings
  <2>2. QED
    BY <2>1
<1>8. CASE (\E v \in Offsets : MessageZone(v)) \/ MessageZoneFromIP \/ MessageUseNtp
  <2>1. config' = eeprom' /\ chosen' = None
    BY <1>8 DEF MessageZone, MessageZoneFromIP, MessageUseNtp, SaveSettings
  <2>2. QED
    BY <2>1
<1>9. CASE MessageSetTime
  <2>1. /\ config' = eeprom'
        /\ config'.timezone = config.timezone
        /\ ~config'.use_ip_timezone
        /\ chosen' = chosen
    BY <1>9 DEF MessageSetTime, SaveSettings, Settings
  <2>2. QED
    BY <2>1
<1>10. CASE UNCHANGED vars
  BY <1>10 DEF vars
<1>11. QED
  BY <1>1, <1>2, <1>3, <1>4, <1>5, <1>6, <1>7, <1>8, <1>9, <1>10
     DEF Next, Progress, Message

\* A zone the user has chosen stays until the user undoes the choice.
THEOREM ManualZoneIsKeptCorrect == Spec => []ManualZoneIsKept
<1>1. Init => ChoiceInv
  BY DEF Init, ChoiceInv, ManualZoneIsKept
<1>2. ChoiceInv => ManualZoneIsKept
  BY DEF ChoiceInv
<1>3. QED
  BY <1>1, <1>2, ChoiceStep, TypeCorrect, PTL DEF Spec

-----------------------------------------------------------------------------
(***************************************************************************)
(* The weekly lookup.                                                      *)
(***************************************************************************)

\* No day of the week has the number RefreshDue compares with.
LEMMA DaysOfTheWeek ==
  ASSUME NEW t \in Int
  PROVE  Weekday(t) \in 1 .. 7 /\ ~RefreshDue(t)
<1>1. Day \in Nat \ {0}
  BY TimeAssumption
<1>2. t \div Day \in Int
  BY <1>1
<1>3. Weekday(t) \in 1 .. 7
  BY <1>2 DEF Weekday
<1>4. QED
  BY <1>3 DEF RefreshDue

\* Now() never looks the zone up, at no time and in no zone: after setup() the web
\* service is asked only when the user asked for it.
THEOREM NoWeeklyLookup ==
  Spec => [][(phase = "loop" /\ ~ForcedLookup) => tried' = tried]_vars
<1>1. ASSUME TypeOK, Next, phase = "loop", ~ForcedLookup
      PROVE  tried' = tried
  <2>1. CASE ReadTime
    <3>1. LocalTime \in Int
      BY <1>1 DEF TypeOK, LocalTime
    <3>2. ~RefreshDue(LocalTime)
      BY <3>1, DaysOfTheWeek
    <3>3. QED
      BY <2>1, <3>2 DEF ReadTime
  <2>2. CASE PowerLoss \/ FactoryReset \/ PrintTimeFaults \/ SetOffsetFaults
    BY <2>2 DEF PowerLoss, FactoryReset, PrintTimeFaults, SetOffsetFaults
  <2>3. CASE PowerOn \/ WifiSetup \/ NtpSetup \/ EnterLoop \/ SetupLookup
    BY <1>1, <2>3 DEF PowerOn, WifiSetup, NtpSetup, EnterLoop, SetupLookup
  <2>4. CASE SetOffset \/ LookupReturns \/ ManualZoneReturns \/ Tick
    BY <2>4 DEF SetOffset, LookupReturns, ManualZoneReturns, Tick
  <2>5. CASE Message
    BY <2>5 DEF Message, MessageZone, MessageZoneFromIP, MessageAddToZone,
       MessageSetTime, MessageUseNtp
  <2>6. QED
    BY <1>1, <2>1, <2>2, <2>3, <2>4, <2>5 DEF Next, Progress
<1>2. TypeOK /\ [Next]_vars
        => [(phase = "loop" /\ ~ForcedLookup) => tried' = tried]_vars
  BY <1>1
<1>3. QED
  BY <1>2, TypeCorrect, PTL DEF Spec

-----------------------------------------------------------------------------
(***************************************************************************)
(* The range of a zone.                                                    *)
(***************************************************************************)

\* Less than a day either side of UTC.
InDay(z) == z > -Day /\ z < Day

\* C's remainder of a zone is less than a day.
LEMMA RemInDay ==
  ASSUME NEW a \in Int
  PROVE  Rem(a, Day) \in Int /\ InDay(Rem(a, Day))
<1>1. Day \in Nat /\ Day > 0
  BY TimeAssumption
<1>2. \A b \in Int : b % Day \in 0 .. Day - 1
  BY <1>1
<1>3. a % Day \in 0 .. Day - 1 /\ (-a) % Day \in 0 .. Day - 1
  BY <1>2
<1>4. QED
  BY <1>1, <1>3 DEF Rem, InDay

\* Only add_to_timezone takes the zone out of a day: lookups, other messages,
\* faults and restarts bring no zone that is not in one already.
THEOREM OnlyAddingLeavesTheDay ==
  ASSUME InDay(FactoryZone)
  PROVE  Spec => [][InDay(config.timezone)
                      => \/ InDay(config'.timezone)
                         \/ \E d \in Steps : MessageAddToZone(d)]_vars
<1>1. ASSUME TypeOK, ChoiceInv, Next, InDay(config.timezone)
      PROVE  InDay(config'.timezone) \/ \E d \in Steps : MessageAddToZone(d)
  <2> config = eeprom /\ config \in Settings
    BY <1>1 DEF TypeOK, ChoiceInv
  <2>1. CASE PowerLoss \/ PrintTimeFaults \/ SetOffsetFaults
    BY <1>1, <2>1 DEF PowerLoss, PrintTimeFaults, SetOffsetFaults, Reset
  <2>2. CASE FactoryReset
    BY <2>2 DEF FactoryReset, Reset, FactorySettings
  <2>3. CASE PowerOn \/ NtpSetup \/ EnterLoop \/ SetOffset \/ Tick
    BY <1>1, <2>3 DEF PowerOn, NtpSetup, EnterLoop, SetOffset, Tick, settings
  <2>4. CASE WifiSetup \/ LookupReturns \/ ManualZoneReturns
    <3>1. config'.timezone = config.timezone
      BY <2>4 DEF WifiSetup, LookupReturns, ManualZoneReturns, SaveSettings, Settings
    <3>2. QED
      BY <1>1, <3>1
  <2>5. CASE SetupLookup \/ ForcedLookup \/ ReadTime
    <3>1. \/ UNCHANGED settings
          \/ \E o \in Offsets : config' = [config EXCEPT !.timezone = Rem(o, Day)]
      BY <2>5 DEF SetupLookup, ForcedLookup, ReadTime, Lookup, SaveSettings
    <3>2. ASSUME NEW o \in Offsets, config' = [config EXCEPT !.timezone = Rem(o, Day)]
          PROVE  InDay(config'.timezone)
      <4>1. Rem(o, Day) \in Int /\ InDay(Rem(o, Day))
        BY RemInDay, ZoneAssumption
      <4>2. config'.timezone = Rem(o, Day)
        BY <3>2 DEF Settings
      <4>3. QED
        BY <4>1, <4>2
    <3>3. QED
      BY <1>1, <3>1, <3>2 DEF settings
  <2>6. ASSUME NEW v \in Offsets, MessageZone(v)
        PROVE  InDay(config'.timezone)
    <3>1. Rem(v, Day) \in Int /\ InDay(Rem(v, Day))
      BY RemInDay, ZoneAssumption
    <3>2. config'.timezone = Rem(v, Day)
      BY <2>6 DEF MessageZone, SaveSettings, Settings
    <3>3. QED
      BY <3>1, <3>2
  <2>7. CASE MessageZoneFromIP \/ MessageSetTime \/ MessageUseNtp
    <3>1. config'.timezone = config.timezone
      BY <2>7 DEF MessageZoneFromIP, MessageSetTime, MessageUseNtp, SaveSettings, Settings
    <3>2. QED
      BY <1>1, <3>1
  <2>8. QED
    BY <1>1, <2>1, <2>2, <2>3, <2>4, <2>5, <2>6, <2>7 DEF Next, Progress, Message
<1>2. TypeOK /\ ChoiceInv /\ [Next]_vars
        => [InDay(config.timezone)
              => \/ InDay(config'.timezone)
                 \/ \E d \in Steps : MessageAddToZone(d)]_vars
  BY <1>1
<1>3. Init => ChoiceInv
  BY DEF Init, ChoiceInv, ManualZoneIsKept
<1>4. QED
  BY <1>2, <1>3, ChoiceStep, TypeCorrect, PTL DEF Spec

=============================================================================
