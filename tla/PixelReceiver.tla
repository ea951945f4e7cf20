--------------------------- MODULE PixelReceiver ---------------------------
(***************************************************************************)
(* The firmware a BiblioPixel host drives over a serial line,              *)
(* src/arduino/BiblioPixelSerialReceiver: getData() reads a command, the   *)
(* size of its data and the data, and answers.  Nothing marks the start of *)
(* a frame: the receiver and the host agree on it as long as no byte is    *)
(* lost and no read runs into the timeout of the serial port.              *)
(*                                                                         *)
(* line holds what the host has sent and getData() has not read.  How long *)
(* a byte takes is left open: a read may time out at any moment.           *)
(***************************************************************************)
EXTENDS Integers, Sequences, SequencesExt

CONSTANTS
  NUM_LEDS, bytesPerPixel,
  EMPTYMAX,
  deviceID, FIRMWARE_VER,
  Frame,     \* the frames the host sends: sequences of bytes
  MaxLine,   \* bound: bytes on the line
  MaxLost  \* bound: bytes lost on the line

Byte == 0..255

ASSUME ReceiverAssumption ==
  /\ NUM_LEDS \in Nat \ {0} /\ bytesPerPixel \in Nat \ {0} /\ EMPTYMAX \in Nat
  /\ MaxLost \in Nat
  /\ deviceID \in Byte /\ FIRMWARE_VER \in Byte
  /\ \A f \in Frame : f \in Seq(Byte) /\ Len(f) >= 3

SETUP_DATA == 1
PIXEL_DATA == 2
BRIGHTNESS == 3
GETID      == 4
SETID      == 5
GETVER     == 6

SUCCESS           == 255
ERROR_SIZE        == 1
ERROR_PIXEL_COUNT == 3
ERROR_BAD_CMD     == 4

packSize == NUM_LEDS * bytesPerPixel
ConfigSize == 4   \* sizeof(config_t)

VARIABLES
  line,        \* Seq(byte)
  out,         \* answers the host has not read
  pc,          \* where getData() is: "idle", "size", "pixels", "data"
  cmd, size,
  data,        \* the bytes of this command that were read
  fresh,       \* pixels: how many of them in the current call of readBytes
  emptyCount,
  effect,      \* the last picture shown, brightness or ID set since the request
  request,     \* the frame the host waits for an answer to, or <<>>
  disturbed,   \* history: the frame was not sent or read as frames should be
  lost       \* bytes lost so far

vars == <<line, out, pc, cmd, size, data, fresh, emptyCount, effect,
          request, disturbed, lost>>

command == <<cmd, size, data, fresh, emptyCount>>

-----------------------------------------------------------------------------
(* Commands. *)

\* The size a command must have to be given data; the others are answered as
\* soon as their size is read.
DataSize(c) ==
  CASE c = PIXEL_DATA -> packSize
    [] c = SETUP_DATA -> ConfigSize
    [] c = BRIGHTNESS -> 1
    [] c = SETID -> 1
    [] OTHER -> 0

TakesData(c) == c \in {PIXEL_DATA, SETUP_DATA, BRIGHTNESS, SETID}

\* pixelCount is the second and third byte of config_t.
WrongCount(config) == (config[2] + 256 * config[3]) \div bytesPerPixel # NUM_LEDS

\* The answer to a command whose data d was read.
AnswerTo(c, d) ==
  CASE c = SETUP_DATA -> IF WrongCount(d) THEN <<ERROR_PIXEL_COUNT>> ELSE <<SUCCESS>>
    [] c = GETID -> <<deviceID>>
    [] c = GETVER -> <<SUCCESS, FIRMWARE_VER>>
    [] c \in {PIXEL_DATA, BRIGHTNESS, SETID} -> <<SUCCESS>>
    [] OTHER -> <<ERROR_BAD_CMD>>

\* The static variables are written before they are read again: they count as
\* cleared.
Answer(codes) ==
  /\ out' = out \o codes /\ pc' = "idle"
  /\ cmd' = 0 /\ size' = 0 /\ data' = <<>> /\ fresh' = 0 /\ emptyCount' = 0

\* Mutant of Apply: the picture is shown before its last byte is there.
ApplyEarly(c, d) == effect' = IF c = SETUP_DATA THEN effect ELSE Front(d)

\* What a command does with its data d: all but SETUP_DATA use it.
Apply(c, d) == effect' = IF c = SETUP_DATA THEN effect ELSE d

\* What getData() does once it has a size, or has waited for it in vain.
Dispatch(n) ==
  /\ IF TakesData(cmd) /\ n = DataSize(cmd)
     THEN /\ pc' = IF cmd = PIXEL_DATA THEN "pixels" ELSE "data"
          /\ size' = n /\ data' = <<>>
          /\ UNCHANGED <<out, cmd, fresh, emptyCount>>
     ELSE Answer(IF TakesData(cmd) THEN <<ERROR_SIZE>> ELSE AnswerTo(cmd, <<>>))
  /\ UNCHANGED effect

-----------------------------------------------------------------------------
(* getData: one action for each byte read, and for each read that times out. *)

Take == line # <<>> /\ line' = Tail(line)

\* Mutant of Available: a whole header is waited for.
AvailableHeader == Len(line) >= 3

Available == line # <<>>

ReadCommand ==
  /\ pc = "idle" /\ Available /\ Take
  /\ cmd' = Head(line) /\ pc' = "size"
  /\ UNCHANGED <<size, data, fresh, emptyCount, out, effect, request, disturbed, lost>>

\* The two bytes of size are read into data, the lower one first.
ReadSize ==
  /\ pc = "size" /\ Take
  /\ IF data = <<>>
     THEN data' = <<Head(line)>> /\ UNCHANGED <<pc, out, cmd, size, fresh, emptyCount, effect>>
     ELSE Dispatch(data[1] + 256 * Head(line))
  /\ UNCHANGED <<request, disturbed, lost>>

SizeTimesOut ==
  /\ pc = "size"
  /\ Dispatch(IF data = <<>> THEN 0 ELSE data[1])
  /\ disturbed' = TRUE
  /\ UNCHANGED <<line, request, lost>>

\* A byte of the data; with the last one the command is carried out.
ReadData ==
  /\ pc \in {"pixels", "data"} /\ Take
  /\ LET d == Append(data, Head(line)) IN
     IF Len(d) < size
     THEN data' = d /\ fresh' = (IF pc = "pixels" THEN fresh + 1 ELSE 0)
          /\ UNCHANGED <<pc, out, cmd, size, emptyCount, effect>>
     ELSE Answer(AnswerTo(cmd, d)) /\ Apply(cmd, d)
  /\ UNCHANGED <<request, disturbed, lost>>

\* Mutant of NoByte: it is not cut to the width of the ID.
NoByteWide == -1

\* What Serial.read() makes of an empty port: -1 in eight bits.
NoByte == 255

\* readBytes returns what it has; SETID reads without waiting.
DataTimesOut ==
  /\ pc = "data"
  /\ Answer(IF cmd = SETID THEN <<SUCCESS>> ELSE <<ERROR_SIZE>>)
  /\ effect' = IF cmd = SETID THEN <<NoByte>> ELSE effect
  /\ disturbed' = TRUE
  /\ UNCHANGED <<line, request, lost>>

\* Mutant of Stalled: a read that gave nothing is not counted.
StalledNever == FALSE

\* More than EMPTYMAX reads in a row have given nothing.
Stalled == emptyCount + 1 > EMPTYMAX

\* The pixels are read by as many calls as it takes.
PixelsTimeOut ==
  /\ pc = "pixels"
  /\ \/ /\ fresh > 0
        /\ emptyCount' = 0 /\ fresh' = 0
        /\ UNCHANGED <<pc, out, cmd, size, data, disturbed>>
     \/ /\ fresh = 0 /\ ~Stalled
        /\ emptyCount' = IF emptyCount < EMPTYMAX THEN emptyCount + 1 ELSE emptyCount
        /\ UNCHANGED <<pc, out, cmd, size, data, fresh, disturbed>>
     \/ /\ fresh = 0 /\ Stalled
        /\ Answer(<<ERROR_SIZE>>)
        /\ disturbed' = TRUE
  /\ UNCHANGED <<line, effect, request, lost>>

getData ==
  \/ ReadCommand \/ ReadSize \/ ReadData
  \/ SizeTimesOut \/ DataTimesOut \/ PixelsTimeOut

-----------------------------------------------------------------------------
(* The host and the line. *)

\* A frame whose data is as long as it says and as the command takes.
WellFormed(f) ==
  /\ f[2] + 256 * f[3] = Len(f) - 3
  /\ Len(f) - 3 = DataSize(f[1])

Quiet == pc = "idle" /\ line = <<>> /\ out = <<>>

\* The host sends a frame when it waits for nothing; the frame starts in step if
\* nothing of an earlier one is left anywhere.
HostSends ==
  /\ request = <<>>
  /\ \E f \in Frame :
       /\ Len(line) + Len(f) <= MaxLine
       /\ line' = line \o f /\ request' = f /\ effect' = <<>>
       /\ disturbed' = ~(Quiet /\ WellFormed(f))
  /\ UNCHANGED <<out, pc, command, lost>>

HostReads ==
  /\ request # <<>> /\ out # <<>>
  /\ out' = <<>> /\ request' = <<>>
  /\ UNCHANGED <<line, pc, command, effect, disturbed, lost>>

HostGivesUp ==
  /\ request # <<>> /\ request' = <<>> /\ out' = <<>> /\ disturbed' = TRUE
  /\ UNCHANGED <<line, pc, command, effect, lost>>

LoseByte ==
  /\ lost < MaxLost /\ lost' = lost + 1
  /\ \E i \in DOMAIN line : line' = RemoveAt(line, i)
  /\ disturbed' = TRUE
  /\ UNCHANGED <<out, pc, command, effect, request>>

-----------------------------------------------------------------------------

Init ==
  /\ line = <<>> /\ out = <<>> /\ pc = "idle"
  /\ cmd = 0 /\ size = 0 /\ data = <<>> /\ fresh = 0 /\ emptyCount = 0
  /\ effect = <<>>
  /\ request = <<>> /\ disturbed = FALSE /\ lost = 0

Next == getData \/ HostSends \/ HostReads \/ HostGivesUp \/ LoseByte

Spec == Init /\ [][Next]_vars

\* loop() calls getData() forever, and the serial port's timeouts run.
FairSpec == Spec /\ WF_vars(getData)

-----------------------------------------------------------------------------
(* What the host can rely on. *)

TypeOK ==
  /\ line \in Seq(Byte) /\ out \in Seq(Byte) /\ data \in Seq(Byte)
  /\ pc \in {"idle", "size", "pixels", "data"}
  /\ cmd \in Byte /\ size \in Nat
  /\ fresh \in 0..packSize /\ emptyCount \in 0..EMPTYMAX
  /\ effect \in Seq(Byte)
  /\ request \in Frame \cup {<<>>} /\ disturbed \in BOOLEAN /\ lost \in 0..MaxLost

\* What the host sees of a frame that was carried out.
Done(f) ==
  LET d == SubSeq(f, 4, Len(f)) IN
  /\ out = AnswerTo(f[1], d)
  /\ TakesData(f[1]) /\ f[1] # SETUP_DATA => effect = d

\* Whatever went before, a frame that is sent into silence and not disturbed is
\* answered once, with its own answer and its own effect, and leaves silence.
InStep ==
  ~disturbed => \/ request = <<>> /\ Quiet
                \/ request # <<>> /\ out = <<>> /\ ~Quiet
                \/ request # <<>> /\ pc = "idle" /\ line = <<>> /\ Done(request)

\* However frames are cut short, getData() returns, and what was sent is read.
Returns == []<>(pc = "idle")
IsRead == <>[](request = <<>>) => <>[](line = <<>>)
=============================================================================
