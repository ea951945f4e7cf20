------------------------ MODULE PixelReceiver_proofs ------------------------
(***************************************************************************)
(* The receiver stays in step with an undisturbed host, for every number   *)
(* of LEDs, every EMPTYMAX and every set of frames.                        *)
(*                                                                         *)
(* InStep says what the host sees.  Its invariant also says where in the   *)
(* frame getData() is: Read(k) means that the line still holds all of the  *)
(* request but its first k bytes.                                          *)
(***************************************************************************)
EXTENDS PixelReceiver, SequenceTheorems, TLAPS

\* What the phases of getData() know of the command.
Phase ==
  /\ pc # "pixels" => fresh = 0
  /\ pc = "idle" => data = <<>>
  /\ pc = "size" => Len(data) <= 1
  /\ pc = "pixels" => cmd = PIXEL_DATA /\ fresh <= Len(data)
  /\ pc = "data" => cmd \in {SETUP_DATA, BRIGHTNESS, SETID}
  /\ pc \in {"pixels", "data"} => size = DataSize(cmd) /\ Len(data) < size

Read(k) ==
  /\ Len(line) = Len(request) - k
  /\ \A i \in 1..Len(line) : line[i] = request[k + i]

\* Where getData() is in the frame of an undisturbed host.
Progress ==
  /\ WellFormed(request) /\ request \in Frame
  /\ \/ pc = "idle" /\ out = <<>> /\ Read(0)
     \/ pc = "size" /\ out = <<>> /\ cmd = request[1] /\ data = <<>> /\ Read(1)
     \/ /\ pc = "size" /\ out = <<>> /\ cmd = request[1]
        /\ Len(data) = 1 /\ data[1] = request[2] /\ Read(2)
     \/ /\ pc \in {"pixels", "data"} /\ out = <<>> /\ cmd = request[1]
        /\ \A i \in 1..Len(data) : data[i] = request[3 + i]
        /\ Read(3 + Len(data))
     \/ pc = "idle" /\ line = <<>> /\ Done(request)

Synchronous == ~disturbed => IF request = <<>> THEN Quiet ELSE Progress

IInv == TypeOK /\ Phase /\ Synchronous

-----------------------------------------------------------------------------
(* Commands. *)

\* Pixels need some bytes, and every command with data at least one.
LEMMA DataSizes ==
  /\ packSize \in Nat /\ packSize > 0 /\ DataSize(PIXEL_DATA) = packSize
  /\ \A c \in Byte : DataSize(c) \in Nat /\ (TakesData(c) => DataSize(c) > 0)
  /\ \A c \in Byte : ~TakesData(c) => DataSize(c) = 0
<1>1. packSize \in Nat /\ packSize > 0
  BY ReceiverAssumption DEF packSize
<1>2. QED
  BY <1>1 DEF DataSize, TakesData, ConfigSize, SETUP_DATA, PIXEL_DATA, BRIGHTNESS, SETID, Byte

\* Two bytes make a size, and so does one.
LEMMA Sizes ==
  ASSUME NEW lo \in Byte, NEW hi \in Byte
  PROVE  lo + 256 * hi \in Nat /\ lo \in Nat
BY DEF Byte

\* Answers are bytes; only that to SETUP_DATA depends on the data.
LEMMA Answers ==
  ASSUME NEW c \in Byte, NEW d
  PROVE  /\ AnswerTo(c, d) \in Seq(Byte) /\ AnswerTo(c, d) # <<>>
         /\ c # SETUP_DATA => \A e : AnswerTo(c, e) = AnswerTo(c, d)
<1>1. /\ <<ERROR_PIXEL_COUNT>> \in Seq(Byte) /\ <<SUCCESS>> \in Seq(Byte)
      /\ <<deviceID>> \in Seq(Byte) /\ <<SUCCESS, FIRMWARE_VER>> \in Seq(Byte)
      /\ <<ERROR_BAD_CMD>> \in Seq(Byte)
  BY ReceiverAssumption DEF Byte, SUCCESS, ERROR_PIXEL_COUNT, ERROR_BAD_CMD
<1>2. CASE c = SETUP_DATA
  BY <1>1, <1>2 DEF AnswerTo
<1>3. CASE c = GETID
  BY <1>1, <1>3 DEF AnswerTo, GETID, SETUP_DATA
<1>4. CASE c = GETVER
  BY <1>1, <1>4 DEF AnswerTo, GETID, GETVER, SETUP_DATA
<1>5. CASE c \in {PIXEL_DATA, BRIGHTNESS, SETID}
  BY <1>1, <1>5 DEF AnswerTo, GETID, GETVER, SETUP_DATA, PIXEL_DATA, BRIGHTNESS, SETID
<1>6. CASE c \notin {SETUP_DATA, GETID, GETVER, PIXEL_DATA, BRIGHTNESS, SETID}
  BY <1>1, <1>6 DEF AnswerTo
<1>7. QED
  BY <1>2, <1>3, <1>4, <1>5, <1>6

\* A frame has a header, of bytes.
LEMMA Header ==
  ASSUME NEW f \in Frame
  PROVE  /\ f \in Seq(Byte) /\ Len(f) \in Nat /\ Len(f) >= 3 /\ f # <<>>
         /\ \A i \in 1..Len(f) : f[i] \in Byte
BY ReceiverAssumption, EmptySeq

\* Answering leaves getData() with nothing to remember.
LEMMA Answered ==
  ASSUME NEW codes \in Seq(Byte), TypeOK, Answer(codes)
  PROVE  /\ out' \in Seq(Byte) /\ data' \in Seq(Byte) /\ pc' = "idle"
         /\ cmd' \in Byte /\ size' \in Nat
         /\ fresh' \in 0..packSize /\ emptyCount' \in 0..EMPTYMAX
         /\ Phase'
<1>1. out \in Seq(Byte)
  BY DEF TypeOK
<1>2. out' \in Seq(Byte)
  BY <1>1, ConcatProperties DEF Answer
<1>3. data' \in Seq(Byte) /\ pc' = "idle"
  BY EmptySeq DEF Answer
<1>4. /\ cmd' \in Byte /\ size' \in Nat
      /\ fresh' \in 0..packSize /\ emptyCount' \in 0..EMPTYMAX
  BY DataSizes, ReceiverAssumption DEF Answer, Byte
<1>5. Phase'
  BY DEF Answer, Phase
<1>6. QED
  BY <1>2, <1>3, <1>4, <1>5

\* What is left of the line when its first byte was taken.
LEMMA TakeOne ==
  ASSUME TypeOK, Take
  PROVE  /\ Head(line) \in Byte /\ line' \in Seq(Byte)
         /\ Len(line) \in Nat /\ Len(line) > 0 /\ Len(line') = Len(line) - 1
         /\ Head(line) = line[1]
         /\ \A i \in 1..Len(line') : line'[i] = line[i + 1]
<1>1. line \in Seq(Byte) /\ line # <<>> /\ line' = Tail(line)
  BY DEF TypeOK, Take
<1>2. Len(line) \in Nat /\ Len(line) > 0
  BY <1>1, EmptySeq
<1>3. QED
  BY <1>1, <1>2, HeadTailProperties

\* One more byte of the request was read.
LEMMA ReadOne ==
  ASSUME TypeOK, Take, UNCHANGED request, request \in Frame, NEW k \in Nat, Read(k)
  PROVE  Read(k + 1)' /\ Head(line) = request[k + 1] /\ Len(request) > k
<1>1. Len(request) \in Nat /\ request' = request
  BY Header
<1>2. Len(line) = Len(request) - k /\ \A i \in 1..Len(line) : line[i] = request[k + i]
  BY DEF Read
<1>3. Len(line') = Len(request) - (k + 1)
  <2>1. Len(line) \in Nat /\ Len(line') = Len(line) - 1
    BY TakeOne
  <2>2. QED
    BY <1>1, <1>2, <2>1
<1>4. ASSUME NEW i \in 1..Len(line')
      PROVE  line'[i] = request[(k + 1) + i]
  <2>1. i + 1 \in 1..Len(line) /\ line'[i] = line[i + 1]
    BY <1>4, TakeOne
  <2>2. line[i + 1] = request[k + (i + 1)] /\ k + (i + 1) = (k + 1) + i
    BY <1>2, <2>1
  <2>3. QED
    BY <2>1, <2>2
<1>5. Head(line) = request[k + 1]
  BY <1>2, TakeOne
<1>6. QED
  BY <1>1, <1>2, <1>3, <1>4, <1>5, TakeOne DEF Read

-----------------------------------------------------------------------------
(* getData. *)

\* A command that waits for its data.
LEMMA DispatchToData ==
  ASSUME TypeOK, Phase, pc = "size", NEW n \in Nat, Dispatch(n),
         TakesData(cmd), n = DataSize(cmd)
  PROVE  /\ out' = out /\ cmd' = cmd /\ size' = n /\ data' = <<>> /\ fresh' = 0
         /\ emptyCount' = emptyCount
         /\ pc' = IF cmd = PIXEL_DATA THEN "pixels" ELSE "data"
         /\ Phase'
<1>1. /\ out' = out /\ cmd' = cmd /\ size' = n /\ data' = <<>> /\ fresh' = fresh
      /\ emptyCount' = emptyCount
      /\ pc' = IF cmd = PIXEL_DATA THEN "pixels" ELSE "data"
  BY DEF Dispatch
<1>2. fresh = 0
  BY DEF Phase
<1>3. n > 0
  BY DataSizes DEF TypeOK
<1>4. Len(data') = 0
  BY <1>1, EmptySeq
<1>5. cmd \in {SETUP_DATA, PIXEL_DATA, BRIGHTNESS, SETID}
  BY DEF TakesData
<1>6. CASE cmd = PIXEL_DATA
  <2>1. pc' = "pixels"
    BY <1>1, <1>6
  <2>2. QED
    BY <1>1, <1>2, <1>3, <1>4, <1>6, <2>1 DEF Phase
<1>7. CASE cmd # PIXEL_DATA
  <2>1. pc' = "data"
    BY <1>1, <1>7
  <2>2. QED
    BY <1>1, <1>2, <1>3, <1>4, <1>5, <1>7, <2>1 DEF Phase
<1>8. QED
  BY <1>1, <1>2, <1>6, <1>7

\* A command that is answered at once.
LEMMA DispatchToAnswer ==
  ASSUME TypeOK, NEW n \in Nat, Dispatch(n),
         ~(TakesData(cmd) /\ n = DataSize(cmd))
  PROVE  \E codes \in Seq(Byte) :
           /\ Answer(codes)
           /\ codes = IF TakesData(cmd) THEN <<ERROR_SIZE>> ELSE AnswerTo(cmd, <<>>)
<1>1. Answer(IF TakesData(cmd) THEN <<ERROR_SIZE>> ELSE AnswerTo(cmd, <<>>))
  BY DEF Dispatch
<1>2. AnswerTo(cmd, <<>>) \in Seq(Byte)
  BY Answers DEF TypeOK
<1>3. <<ERROR_SIZE>> \in Seq(Byte)
  BY DEF ERROR_SIZE, Byte
<1>4. (IF TakesData(cmd) THEN <<ERROR_SIZE>> ELSE AnswerTo(cmd, <<>>)) \in Seq(Byte)
  BY <1>2, <1>3
<1>5. QED
  BY <1>1, <1>4

\* The part of the state that getData() changes, well typed.
Getting ==
  /\ out \in Seq(Byte) /\ data \in Seq(Byte)
  /\ pc \in {"idle", "size", "pixels", "data"}
  /\ cmd \in Byte /\ size \in Nat
  /\ fresh \in 0..packSize /\ emptyCount \in 0..EMPTYMAX
  /\ effect \in Seq(Byte)

\* The size of the data, from its two bytes or from what came of them.
LEMMA DispatchStep ==
  ASSUME TypeOK, Phase, pc = "size", NEW n \in Nat, Dispatch(n)
  PROVE  Getting' /\ Phase'
<1>1. effect' = effect
  BY DEF Dispatch
<1>2. CASE TakesData(cmd) /\ n = DataSize(cmd)
  <2>1. /\ out' = out /\ cmd' = cmd /\ size' = n /\ data' = <<>> /\ fresh' = 0
        /\ emptyCount' = emptyCount
        /\ pc' \in {"pixels", "data"}
        /\ Phase'
    BY <1>2, DispatchToData
  <2>2. 0 \in 0..packSize /\ <<>> \in Seq(Byte)
    BY DataSizes, EmptySeq
  <2>3. QED
    BY <1>1, <2>1, <2>2 DEF TypeOK, Getting
<1>3. CASE ~(TakesData(cmd) /\ n = DataSize(cmd))
  <2>1. PICK codes \in Seq(Byte) : Answer(codes)
    BY <1>3, DispatchToAnswer
  <2>2. effect \in Seq(Byte)
    BY DEF TypeOK
  <2>3. QED
    BY <1>1, <2>1, <2>2, Answered DEF Getting
<1>4. QED
  BY <1>2, <1>3

\* getData() keeps types and phases.
LEMMA GetDataTypes ==
  ASSUME TypeOK, Phase, getData
  PROVE  TypeOK' /\ Phase'
<1>1. ASSUME ReadCommand
      PROVE  Getting' /\ Phase' /\ line' \in Seq(Byte) /\ UNCHANGED <<request, disturbed, lost>>
  <2>1. /\ pc = "idle" /\ Take /\ cmd' = Head(line) /\ pc' = "size"
        /\ UNCHANGED <<size, data, fresh, emptyCount, out, effect, request, disturbed, lost>>
    BY <1>1 DEF ReadCommand
  <2>2. data' = <<>> /\ fresh' = 0 /\ Len(data') = 0
    BY <2>1, EmptySeq DEF Phase
  <2>3. Phase'
    BY <2>1, <2>2 DEF Phase
  <2>4. cmd' \in Byte /\ line' \in Seq(Byte)
    BY <2>1, TakeOne
  <2>5. QED
    BY <2>1, <2>3, <2>4 DEF TypeOK, Getting
<1>2. ASSUME ReadSize
      PROVE  Getting' /\ Phase' /\ line' \in Seq(Byte) /\ UNCHANGED <<request, disturbed, lost>>
  <2>1. pc = "size" /\ Take /\ UNCHANGED <<request, disturbed, lost>>
    BY <1>2 DEF ReadSize
  <2>2. Head(line) \in Byte /\ line' \in Seq(Byte)
    BY <2>1, TakeOne
  <2>3. CASE data = <<>>
    <3>1. data' = <<Head(line)>> /\ UNCHANGED <<pc, out, cmd, size, fresh, emptyCount, effect>>
      BY <1>2, <2>3 DEF ReadSize
    <3>2. data' \in Seq(Byte) /\ Len(data') = 1
      BY <2>2, <3>1
    <3>3. Phase'
      BY <2>1, <3>1, <3>2 DEF Phase
    <3>4. QED
      BY <2>1, <2>2, <3>1, <3>2, <3>3 DEF TypeOK, Getting
  <2>4. CASE data # <<>>
    <3>1. Dispatch(data[1] + 256 * Head(line))
      BY <1>2, <2>4 DEF ReadSize
    <3>2. data[1] \in Byte
      BY <2>4, EmptySeq, LenProperties DEF TypeOK
    <3>3. data[1] + 256 * Head(line) \in Nat
      BY <2>2, <3>2, Sizes
    <3>4. QED
      BY <2>1, <2>2, <3>1, <3>3, DispatchStep
  <2>5. QED
    BY <2>3, <2>4
<1>3. ASSUME SizeTimesOut
      PROVE  Getting' /\ Phase' /\ UNCHANGED <<line, request, lost>> /\ disturbed' = TRUE
  <2>1. /\ pc = "size" /\ Dispatch(IF data = <<>> THEN 0 ELSE data[1])
        /\ UNCHANGED <<line, request, lost>> /\ disturbed' = TRUE
    BY <1>3 DEF SizeTimesOut
  <2>2. CASE data = <<>>
    <3>1. Dispatch(0) /\ 0 \in Nat
      BY <2>1, <2>2
    <3>2. QED
      BY <2>1, <3>1, DispatchStep
  <2>3. CASE data # <<>>
    <3>1. data[1] \in Byte
      BY <2>3, EmptySeq, LenProperties DEF TypeOK
    <3>2. Dispatch(data[1]) /\ data[1] \in Nat
      BY <2>1, <2>3, <3>1, Sizes
    <3>3. QED
      BY <2>1, <3>2, DispatchStep
  <2>4. QED
    BY <2>2, <2>3
<1>4. ASSUME ReadData
      PROVE  Getting' /\ Phase' /\ line' \in Seq(Byte) /\ UNCHANGED <<request, disturbed, lost>>
  <2> DEFINE d == Append(data, Head(line))
  <2>1. pc \in {"pixels", "data"} /\ Take /\ UNCHANGED <<request, disturbed, lost>>
    BY <1>4 DEF ReadData
  <2>2. Head(line) \in Byte /\ line' \in Seq(Byte) /\ data \in Seq(Byte)
    BY <2>1, TakeOne DEF TypeOK
  <2>3. d \in Seq(Byte) /\ Len(d) = Len(data) + 1 /\ Len(data) \in Nat
    BY <2>2, AppendProperties, LenProperties
  <2>4. CASE Len(d) < size
    <3>1. /\ data' = d /\ fresh' = (IF pc = "pixels" THEN fresh + 1 ELSE 0)
          /\ UNCHANGED <<pc, out, cmd, size, emptyCount, effect>>
      BY <1>4, <2>4 DEF ReadData
    <3> HIDE DEF d
    <3>2. CASE pc = "pixels"
      <4>1. size = packSize /\ cmd = PIXEL_DATA /\ fresh <= Len(data) /\ fresh \in Nat
        <5>1. fresh \in Nat
          BY DataSizes DEF TypeOK
        <5>2. cmd = PIXEL_DATA /\ fresh <= Len(data) /\ size = DataSize(cmd)
          BY <3>2 DEF Phase
        <5>3. QED
          BY <5>1, <5>2, DataSizes
      <4>2. fresh' \in 0..packSize /\ fresh' <= Len(data')
        BY <2>3, <2>4, <3>1, <3>2, <4>1, DataSizes
      <4>3. Phase'
        BY <2>4, <3>1, <3>2, <4>2 DEF Phase
      <4>4. QED
        BY <2>1, <2>2, <2>3, <3>1, <4>2, <4>3 DEF TypeOK, Getting
    <3>3. CASE pc = "data"
      <4>1. fresh' = 0 /\ fresh' \in 0..packSize
        BY <3>1, <3>3, DataSizes
      <4>2. Phase'
        BY <2>4, <3>1, <3>3, <4>1 DEF Phase
      <4>3. QED
        BY <2>1, <2>2, <2>3, <3>1, <4>1, <4>2 DEF TypeOK, Getting
    <3>4. QED
      BY <2>1, <3>2, <3>3
  <2>5. CASE ~(Len(d) < size)
    <3>1. Answer(AnswerTo(cmd, d)) /\ Apply(cmd, d)
      BY <1>4, <2>5 DEF ReadData
    <3> HIDE DEF d
    <3>2. AnswerTo(cmd, d) \in Seq(Byte)
      BY Answers DEF TypeOK
    <3>3. effect' \in Seq(Byte)
      BY <2>3, <3>1 DEF Apply, TypeOK
    <3>4. QED
      BY <2>1, <2>2, <3>1, <3>2, <3>3, Answered DEF Getting
  <2>6. QED
    BY <2>4, <2>5
<1>5. ASSUME DataTimesOut
      PROVE  Getting' /\ Phase' /\ UNCHANGED <<line, request, lost>> /\ disturbed' = TRUE
  <2>1. /\ Answer(IF cmd = SETID THEN <<SUCCESS>> ELSE <<ERROR_SIZE>>)
        /\ effect' = IF cmd = SETID THEN <<NoByte>> ELSE effect
        /\ UNCHANGED <<line, request, lost>> /\ disturbed' = TRUE
    BY <1>5 DEF DataTimesOut
  <2>2. <<SUCCESS>> \in Seq(Byte) /\ <<ERROR_SIZE>> \in Seq(Byte) /\ <<NoByte>> \in Seq(Byte)
    BY DEF SUCCESS, ERROR_SIZE, NoByte, Byte
  <2>3. effect' \in Seq(Byte)
    BY <2>1, <2>2 DEF TypeOK
  <2>4. (IF cmd = SETID THEN <<SUCCESS>> ELSE <<ERROR_SIZE>>) \in Seq(Byte)
    BY <2>2
  <2>5. QED
    BY <2>1, <2>3, <2>4, Answered DEF Getting
<1>6. ASSUME PixelsTimeOut
      PROVE  Getting' /\ Phase' /\ UNCHANGED <<line, request, lost>> /\ disturbed' \in {disturbed, TRUE}
  <2>1. pc = "pixels" /\ UNCHANGED <<line, effect, request, lost>>
    BY <1>6 DEF PixelsTimeOut
  <2>2. CASE /\ fresh > 0 /\ emptyCount' = 0 /\ fresh' = 0
             /\ UNCHANGED <<pc, out, cmd, size, data, disturbed>>
    <3>1. Phase'
      <4>1. Len(data) \in Nat
        BY LenProperties DEF TypeOK
      <4>2. QED
        BY <2>1, <2>2, <4>1 DEF Phase
    <3>2. 0 \in 0..packSize /\ 0 \in 0..EMPTYMAX
      BY DataSizes, ReceiverAssumption
    <3>3. QED
      BY <2>1, <2>2, <3>1, <3>2 DEF TypeOK, Getting
  <2>3. CASE /\ emptyCount' = IF emptyCount < EMPTYMAX THEN emptyCount + 1 ELSE emptyCount
             /\ UNCHANGED <<pc, out, cmd, size, data, fresh, disturbed>>
    <3>1. Phase'
      BY <2>1, <2>3 DEF Phase
    <3>2. emptyCount' \in 0..EMPTYMAX
      BY <2>3, ReceiverAssumption DEF TypeOK
    <3>3. QED
      BY <2>1, <2>3, <3>1, <3>2 DEF TypeOK, Getting
  <2>4. CASE Answer(<<ERROR_SIZE>>) /\ disturbed' = TRUE
    <3>1. <<ERROR_SIZE>> \in Seq(Byte)
      BY DEF ERROR_SIZE, Byte
    <3>2. effect' \in Seq(Byte)
      BY <2>1 DEF TypeOK
    <3>3. QED
      BY <2>1, <2>4, <3>1, <3>2, Answered DEF Getting
  <2>5. QED
    BY <1>6, <2>2, <2>3, <2>4 DEF PixelsTimeOut
<1>7. ASSUME Getting', line' \in Seq(Byte), UNCHANGED <<request, lost>>,
             disturbed' \in {disturbed, TRUE}
      PROVE  TypeOK'
  BY <1>7 DEF Getting, TypeOK
<1>8. line \in Seq(Byte)
  BY DEF TypeOK
<1>9. QED
  BY <1>1, <1>2, <1>3, <1>4, <1>5, <1>6, <1>7, <1>8 DEF getData

-----------------------------------------------------------------------------
(* In step. *)

\* The command is the first byte of the frame.
LEMMA ReadCommandInStep ==
  ASSUME TypeOK, Phase, request # <<>>, Progress, ReadCommand
  PROVE  Progress'
<1>1. /\ pc = "idle" /\ Take /\ cmd' = Head(line) /\ pc' = "size"
      /\ data' = data /\ out' = out /\ request' = request
  BY DEF ReadCommand
<1>2. line # <<>>
  BY <1>1 DEF Take
<1>3. WellFormed(request) /\ request \in Frame /\ out = <<>> /\ Read(0)
  BY <1>1, <1>2 DEF Progress
<1>4. Read(0 + 1)' /\ Head(line) = request[0 + 1]
  BY <1>1, <1>3, ReadOne
<1>5. data' = <<>>
  BY <1>1 DEF Phase
<1>6. 0 + 1 = 1
  OBVIOUS
<1>7. Read(1)' /\ cmd' = request'[1]
  BY <1>1, <1>4, <1>6 DEF Read
<1>8. QED
  BY <1>1, <1>3, <1>5, <1>7 DEF Progress, WellFormed

\* The size is that of the frame, so that a command with data gets it and the
\* frame of another one is at its end.
LEMMA ReadSizeInStep ==
  ASSUME TypeOK, Phase, request # <<>>, Progress, ReadSize
  PROVE  Progress'
<1>1. pc = "size" /\ Take /\ request' = request
  BY DEF ReadSize
<1>2. WellFormed(request) /\ request \in Frame /\ out = <<>> /\ cmd = request[1]
  BY <1>1 DEF Progress
<1>3. CASE data = <<>>
  <2>1. data' = <<Head(line)>> /\ UNCHANGED <<pc, out, cmd>>
    BY <1>3 DEF ReadSize
  <2>2. Len(data) = 0
    BY <1>3, EmptySeq
  <2>3. Read(1)
    BY <1>1, <2>2 DEF Progress
  <2>4. Read(1 + 1)' /\ Head(line) = request[1 + 1]
    BY <1>1, <1>2, <2>3, ReadOne
  <2>5. Read(2)' /\ data'[1] = request[2] /\ Len(data') = 1
    BY <2>1, <2>4
  <2>6. QED
    BY <1>1, <1>2, <2>1, <2>5 DEF Progress, WellFormed
<1>4. CASE data # <<>>
  <2> DEFINE n == data[1] + 256 * Head(line)
  <2>1. Dispatch(n)
    BY <1>4 DEF ReadSize
  <2>2. data[1] = request[2] /\ Read(2)
    BY <1>1, <1>4 DEF Progress
  <2>3. Read(2 + 1)' /\ Head(line) = request[2 + 1]
    BY <1>1, <1>2, <2>2, ReadOne
  <2>4. Read(3)' /\ Head(line) = request[3]
    BY <2>3
  <2>5. n = request[2] + 256 * request[3]
    BY <2>2, <2>4
  <2>6. n = Len(request) - 3 /\ n = DataSize(cmd)
    BY <1>2, <2>5 DEF WellFormed
  <2>7. n \in Nat
    <3>1. data[1] \in Byte /\ Head(line) \in Byte
      BY <1>1, <1>4, EmptySeq, LenProperties, TakeOne DEF TypeOK
    <3>2. QED
      BY <3>1, Sizes
  <2> HIDE DEF n
  <2>8. CASE TakesData(cmd)
    <3>1. /\ out' = out /\ cmd' = cmd /\ data' = <<>>
          /\ pc' = IF cmd = PIXEL_DATA THEN "pixels" ELSE "data"
      BY <1>1, <2>1, <2>6, <2>7, <2>8, DispatchToData
    <3>2. Len(data') = 0 /\ pc' \in {"pixels", "data"}
      BY <3>1, EmptySeq
    <3>3. 3 + Len(data') = 3
      BY <3>2
    <3>4. Read(3 + Len(data))'
      BY <2>4, <3>3 DEF Read
    <3>5. \A i \in 1..Len(data') : data'[i] = request'[3 + i]
      BY <3>2
    <3>6. QED
      BY <1>1, <1>2, <3>1, <3>2, <3>4, <3>5 DEF Progress, WellFormed
  <2>9. CASE ~TakesData(cmd)
    <3>1. PICK codes \in Seq(Byte) : Answer(codes) /\ codes = AnswerTo(cmd, <<>>)
      BY <2>1, <2>7, <2>9, DispatchToAnswer
    <3>2. out' = codes /\ pc' = "idle"
      BY <1>2, <3>1, ConcatEmptySeq DEF Answer
    <3>3. cmd \in Byte /\ cmd # SETUP_DATA
      BY <2>9 DEF TypeOK, TakesData
    <3>4. out' = AnswerTo(request[1], SubSeq(request, 4, Len(request)))
      BY <1>2, <3>1, <3>2, <3>3, Answers
    <3>5. line' = <<>>
      <4>1. DataSize(cmd) = 0
        BY <2>9, <3>3, DataSizes
      <4>2. Len(line') = 0
        BY <1>1, <1>2, <2>4, <2>6, <4>1, Header DEF Read
      <4>3. line' \in Seq(Byte)
        BY <1>1, TakeOne
      <4>4. QED
        BY <4>2, <4>3, EmptySeq
    <3>6. Done(request)'
      BY <1>1, <1>2, <2>9, <3>4 DEF Done
    <3>7. QED
      BY <1>1, <1>2, <3>2, <3>5, <3>6 DEF Progress, WellFormed
  <2>10. QED
    BY <2>8, <2>9
<1>5. QED
  BY <1>3, <1>4

\* The data is what is left of the frame, and the last byte of it the last byte
\* of the frame.
LEMMA ReadDataInStep ==
  ASSUME TypeOK, Phase, request # <<>>, Progress, ReadData
  PROVE  Progress'
<1> DEFINE d == Append(data, Head(line))
<1>1. pc \in {"pixels", "data"} /\ Take /\ request' = request
  BY DEF ReadData
<1>2. /\ WellFormed(request) /\ request \in Frame /\ out = <<>> /\ cmd = request[1]
      /\ \A i \in 1..Len(data) : data[i] = request[3 + i]
      /\ Read(3 + Len(data))
  BY <1>1 DEF Progress
<1>3. data \in Seq(Byte) /\ Len(data) \in Nat /\ Head(line) \in Byte /\ line' \in Seq(Byte)
  BY <1>1, TakeOne, LenProperties DEF TypeOK
<1>4. /\ d \in Seq(Byte) /\ Len(d) = Len(data) + 1
      /\ \A i \in 1..Len(data) : d[i] = data[i]
      /\ d[Len(data) + 1] = Head(line)
  BY <1>3, AppendProperties
<1>k. PICK k \in Nat : k = 3 + Len(data)
  BY <1>3
<1>5. Read(k + 1)' /\ Head(line) = request[k + 1]
  BY <1>k, <1>1, <1>2, ReadOne
<1>6. k + 1 = 3 + Len(d)
  BY <1>k, <1>3, <1>4
<1> HIDE DEF d
<1>7. \A i \in 1..Len(d) : d[i] = request[3 + i]
  <2>1. ASSUME NEW i \in 1..Len(d), i # Len(data) + 1
        PROVE  d[i] = request[3 + i]
    BY <1>2, <1>3, <1>4, <2>1
  <2>2. d[Len(data) + 1] = request[3 + (Len(data) + 1)]
    BY <1>k, <1>3, <1>4, <1>5
  <2>3. QED
    BY <2>1, <2>2
<1>8. CASE Len(d) < size
  <2>1. data' = d /\ UNCHANGED <<pc, out, cmd>>
    BY <1>8 DEF ReadData, d
  <2>2. Read(3 + Len(data))'
    BY <1>5, <1>6, <2>1 DEF Read
  <2>3. \A i \in 1..Len(data') : data'[i] = request'[3 + i]
    BY <1>1, <1>7, <2>1
  <2>4. QED
    BY <1>1, <1>2, <2>1, <2>2, <2>3 DEF Progress, WellFormed
<1>9. CASE ~(Len(d) < size)
  <2>1. Answer(AnswerTo(cmd, d)) /\ Apply(cmd, d)
    BY <1>9 DEF ReadData, d
  <2>2. size = DataSize(cmd) /\ Len(data) < size
    BY <1>1 DEF Phase
  <2>3. Len(request) \in Nat /\ Len(d) = Len(request) - 3
    <3>1. size = Len(request) - 3 /\ Len(request) \in Nat
      BY <1>2, <2>2, Header DEF WellFormed
    <3>2. QED
      BY <1>3, <1>4, <1>9, <2>2, <3>1
  <2>4. d = SubSeq(request, 4, Len(request))
    <3> DEFINE e == SubSeq(request, 4, Len(request))
    <3>1. \A i \in 4..Len(request) : request[i] \in Byte
      BY <1>2, <2>3, Header
    <3>2. /\ e \in Seq(Byte)
          /\ Len(e) = IF 4 <= Len(request) THEN Len(request) - 4 + 1 ELSE 0
          /\ \A i \in 1..(Len(request) - 4 + 1) : e[i] = request[4 + i - 1]
      BY <2>3, <3>1, SubSeqProperties
    <3> HIDE DEF e
    <3>3. Len(d) = Len(e)
      BY <1>3, <1>4, <2>3, <3>2
    <3>4. ASSUME NEW i \in 1..Len(d)
          PROVE  d[i] = e[i]
      <4>1. e[i] = request[4 + i - 1] /\ 4 + i - 1 = 3 + i
        BY <2>3, <3>2, <3>4
      <4>2. QED
        BY <1>7, <3>4, <4>1
    <3>5. d = e
      BY <1>4, <3>2, <3>3, <3>4, SeqEqual
    <3>6. QED
      BY <3>5 DEF e
  <2>5. out' = AnswerTo(cmd, d) /\ pc' = "idle"
    <3>1. AnswerTo(cmd, d) \in Seq(Byte)
      BY Answers DEF TypeOK
    <3>2. QED
      BY <1>2, <2>1, <3>1, ConcatEmptySeq DEF Answer
  <2>6. line' = <<>>
    <3>1. Len(line') = 0
      BY <1>1, <1>4, <1>5, <1>6, <2>3 DEF Read
    <3>2. QED
      BY <1>3, <3>1, EmptySeq
  <2>7. Done(request)'
    <3>1. cmd # SETUP_DATA => effect' = d
      BY <2>1 DEF Apply
    <3>2. QED
      BY <1>1, <1>2, <2>4, <2>5, <3>1 DEF Done
  <2>8. QED
    BY <1>1, <1>2, <2>5, <2>6, <2>7 DEF Progress, WellFormed
<1>10. QED
  BY <1>8, <1>9

\* A read of pixels that times out before it is given up changes only counters.
LEMMA PixelsTimeOutInStep ==
  ASSUME TypeOK, Phase, request # <<>>, Progress, PixelsTimeOut, disturbed' # TRUE
  PROVE  Progress'
<1>1. UNCHANGED <<pc, out, cmd, size, data, line, effect, request>>
  BY DEF PixelsTimeOut
<1>2. \A k : Read(k)' <=> Read(k)
  BY <1>1 DEF Read
<1>3. Read(3 + Len(data))' <=> Read(3 + Len(data))
  BY <1>1 DEF Read
<1>4. Done(request)' <=> Done(request)
  BY <1>1 DEF Done
<1>5. QED
  BY <1>1, <1>2, <1>3, <1>4 DEF Progress, WellFormed

\* In the silence between two frames getData() only waits.
LEMMA GetDataWaits ==
  ASSUME Quiet, getData
  PROVE  FALSE
BY DEF Quiet, getData, ReadCommand, ReadSize, ReadData, SizeTimesOut, DataTimesOut,
       PixelsTimeOut, Available

\* getData() keeps in step.
LEMMA GetDataStep ==
  ASSUME IInv, getData
  PROVE  IInv'
<1>1. TypeOK' /\ Phase'
  BY GetDataTypes DEF IInv
<1>2. Synchronous'
  <2> SUFFICES ASSUME ~disturbed'
               PROVE  IF request' = <<>> THEN Quiet' ELSE Progress'
    BY DEF Synchronous
  <2>1. request' = request
    BY DEF getData, ReadCommand, ReadSize, ReadData, SizeTimesOut, DataTimesOut, PixelsTimeOut
  <2>2. ~SizeTimesOut /\ ~DataTimesOut
    BY DEF SizeTimesOut, DataTimesOut
  <2>3. ReadCommand \/ ReadSize \/ ReadData \/ PixelsTimeOut
    BY <2>2 DEF getData
  <2>4. ~disturbed
    BY <2>3 DEF ReadCommand, ReadSize, ReadData, PixelsTimeOut
  <2>5. request # <<>> /\ Progress
    BY <2>4, GetDataWaits DEF IInv, Synchronous
  <2>6. disturbed' # TRUE
    OBVIOUS
  <2>7. Progress'
    BY <2>3, <2>5, <2>6, ReadCommandInStep, ReadSizeInStep, ReadDataInStep,
       PixelsTimeOutInStep DEF IInv
  <2>8. QED
    BY <2>1, <2>5, <2>7
<1>3. QED
  BY <1>1, <1>2 DEF IInv

\* A frame that is sent into silence is the whole of the line.
LEMMA HostSendsStep ==
  ASSUME IInv, HostSends
  PROVE  IInv'
<1>1. PICK f \in Frame :
        /\ line' = line \o f /\ request' = f /\ effect' = <<>>
        /\ disturbed' = ~(Quiet /\ WellFormed(f))
  BY DEF HostSends
<1>2. UNCHANGED <<out, pc, cmd, size, data, fresh, emptyCount, lost>>
  BY DEF HostSends, command
<1>3. f \in Seq(Byte) /\ f # <<>> /\ Len(f) \in Nat
  BY Header
<1>4. line' \in Seq(Byte) /\ effect' \in Seq(Byte)
  BY <1>1, <1>3, ConcatProperties, EmptySeq DEF IInv, TypeOK
<1>5. TypeOK'
  BY <1>1, <1>2, <1>4 DEF IInv, TypeOK
<1>6. Phase'
  BY <1>2 DEF IInv, Phase
<1>7. Synchronous'
  <2> SUFFICES ASSUME ~disturbed'
               PROVE  Progress'
    BY <1>1, <1>3 DEF Synchronous
  <2>1. Quiet /\ WellFormed(f)
    BY <1>1
  <2>2. line' = f /\ pc' = "idle" /\ out' = <<>>
    BY <1>1, <1>2, <1>3, <2>1, ConcatEmptySeq DEF Quiet
  <2>3. Read(0)'
    BY <1>1, <1>3, <2>2 DEF Read
  <2>4. QED
    BY <1>1, <2>1, <2>2, <2>3 DEF Progress, WellFormed
<1>8. QED
  BY <1>5, <1>6, <1>7 DEF IInv

\* The host reads an answer only when its frame was carried out.
LEMMA HostReadsStep ==
  ASSUME IInv, HostReads
  PROVE  IInv'
<1>1. /\ request # <<>> /\ out # <<>> /\ out' = <<>> /\ request' = <<>>
      /\ UNCHANGED <<line, pc, cmd, size, data, fresh, emptyCount, effect, disturbed, lost>>
  BY DEF HostReads, command
<1>2. TypeOK'
  BY <1>1, EmptySeq DEF IInv, TypeOK
<1>3. Phase'
  BY <1>1 DEF IInv, Phase
<1>4. Synchronous'
  <2> SUFFICES ASSUME ~disturbed
               PROVE  Quiet'
    BY <1>1 DEF Synchronous
  <2>1. pc = "idle" /\ line = <<>>
    BY <1>1 DEF IInv, Synchronous, Progress
  <2>2. QED
    BY <1>1, <2>1 DEF Quiet
<1>5. QED
  BY <1>2, <1>3, <1>4 DEF IInv

\* Removing a byte leaves bytes.
LEMMA RemoveAtType ==
  ASSUME NEW s \in Seq(Byte), NEW i \in DOMAIN s
  PROVE  RemoveAt(s, i) \in Seq(Byte)
<1>1. Len(s) \in Nat /\ i \in 1..Len(s) /\ \A k \in 1..Len(s) : s[k] \in Byte
  BY LenProperties
<1>2. \A k \in 1..(i - 1) : s[k] \in Byte
  BY <1>1
<1>3. \A k \in (i + 1)..Len(s) : s[k] \in Byte
  BY <1>1
<1>4. SubSeq(s, 1, i - 1) \in Seq(Byte) /\ SubSeq(s, i + 1, Len(s)) \in Seq(Byte)
  BY <1>1, <1>2, <1>3, SubSeqProperties
<1>5. QED
  BY <1>4, ConcatProperties DEF RemoveAt

\* A host that gives up, or a lost byte, disturbs.
LEMMA DisturbanceStep ==
  ASSUME IInv, HostGivesUp \/ LoseByte
  PROVE  IInv'
<1>1. /\ disturbed' = TRUE
      /\ UNCHANGED <<pc, cmd, size, data, fresh, emptyCount, effect>>
  BY DEF HostGivesUp, LoseByte, command
<1>2. Phase' /\ Synchronous'
  BY <1>1 DEF IInv, Phase, Synchronous
<1>3. CASE HostGivesUp
  <2>1. TypeOK'
    BY <1>1, <1>3, EmptySeq DEF HostGivesUp, IInv, TypeOK
  <2>2. QED
    BY <1>2, <2>1 DEF IInv
<1>4. CASE LoseByte
  <2>1. line' \in Seq(Byte)
    BY <1>4, RemoveAtType DEF LoseByte, IInv, TypeOK
  <2>2. lost' \in 0..MaxLost
    BY <1>4, ReceiverAssumption DEF LoseByte, IInv, TypeOK
  <2>3. TypeOK'
    BY <1>1, <1>4, <2>1, <2>2 DEF LoseByte, IInv, TypeOK
  <2>4. QED
    BY <1>2, <2>3 DEF IInv
<1>5. QED
  BY <1>3, <1>4

-----------------------------------------------------------------------------
(* The theorems. *)

\* The receiver starts in silence.
LEMMA Initial == Init => IInv
<1> SUFFICES ASSUME Init
             PROVE  IInv
  OBVIOUS
<1>1. TypeOK
  <2>1. <<>> \in Seq(Byte)
    BY EmptySeq
  <2>2. 0 \in Byte /\ 0 \in Nat /\ 0 \in 0..packSize /\ 0 \in 0..EMPTYMAX /\ 0 \in 0..MaxLost
    BY ReceiverAssumption, DataSizes DEF Byte
  <2>3. disturbed \in BOOLEAN
    BY DEF Init
  <2>4. QED
    BY <2>1, <2>2, <2>3 DEF Init, TypeOK
<1>2. Phase /\ Synchronous
  BY DEF Init, Phase, Synchronous, Quiet
<1>3. QED
  BY <1>1, <1>2 DEF IInv

\* The invariant holds in every state.
LEMMA Invariance == Spec => []IInv
<1>1. ASSUME IInv, [Next]_vars
      PROVE  IInv'
  <2>1. CASE getData
    BY <1>1, <2>1, GetDataStep
  <2>2. CASE HostSends
    BY <1>1, <2>2, HostSendsStep
  <2>3. CASE HostReads
    BY <1>1, <2>3, HostReadsStep
  <2>4. CASE HostGivesUp \/ LoseByte
    BY <1>1, <2>4, DisturbanceStep
  <2>5. CASE UNCHANGED vars
    <3>1. TypeOK' /\ Phase'
      BY <1>1, <2>5 DEF vars, IInv, TypeOK, Phase
    <3>2. Synchronous'
      BY <1>1, <2>5 DEF vars, IInv, Synchronous, Quiet, Progress, WellFormed, Read, Done
    <3>3. QED
      BY <3>1, <3>2 DEF IInv
  <2>6. QED
    BY <1>1, <2>1, <2>2, <2>3, <2>4, <2>5 DEF Next
<1>2. QED
  BY <1>1, Initial, PTL DEF Spec

\* Type correctness of the receiver and of what it answers.
THEOREM TypeCorrect == Spec => []TypeOK
<1>1. IInv => TypeOK
  BY DEF IInv
<1>2. QED
  BY <1>1, Invariance, PTL

\* A frame that is sent into silence and not disturbed is answered once, with its
\* own answer and its own effect, after whatever lost bytes, cut frames, wrong
\* sizes and timeouts went before it.
THEOREM InStepCorrect == Spec => []InStep
<1>1. IInv => InStep
  <2> SUFFICES ASSUME IInv, ~disturbed
               PROVE  \/ request = <<>> /\ Quiet
                      \/ request # <<>> /\ out = <<>> /\ ~Quiet
                      \/ request # <<>> /\ pc = "idle" /\ line = <<>> /\ Done(request)
    BY DEF InStep
  <2>1. CASE request = <<>>
    BY <2>1 DEF IInv, Synchronous
  <2>2. CASE request # <<>>
    <3>1. Progress
      BY <2>2 DEF IInv, Synchronous
    <3>2. CASE pc = "idle" /\ out = <<>> /\ Read(0)
      <4>1. Len(line) = Len(request) - 0 /\ Len(request) \in Nat /\ Len(request) >= 3
        BY <3>1, <3>2, Header DEF Progress, Read
      <4>2. Len(line) # 0
        BY <4>1
      <4>3. line # <<>>
        BY <4>2, EmptySeq
      <4>4. QED
        BY <2>2, <3>2, <4>3 DEF Quiet
    <3>3. CASE pc # "idle" /\ out = <<>>
      BY <2>2, <3>3 DEF Quiet
    <3>4. CASE pc = "idle" /\ line = <<>> /\ Done(request)
      BY <2>2, <3>4
    <3>5. QED
      BY <3>1, <3>2, <3>3, <3>4 DEF Progress
  <2>3. QED
    BY <2>1, <2>2
<1>2. QED
  BY <1>1, Invariance, PTL

-----------------------------------------------------------------------------
(* A call of getData() that has begun. *)

\* What it has left to do: the phases of the frame, the bytes of the phase, the
\* rest of a readBytes that gave something, and the reads that may give nothing.
Left ==
  [phases |-> CASE pc = "idle" -> 0 [] pc = "size" -> 2 [] OTHER -> 1,
   bytes  |-> CASE pc = "idle" -> 0 [] pc = "size" -> 2 - Len(data)
                [] OTHER -> size - Len(data),
   rest   |-> IF fresh > 0 THEN 1 ELSE 0,
   pauses |-> EMPTYMAX - emptyCount]

\* m is less than n, its fields read from the first to the last.
Less(m, n) ==
  \/ m.phases < n.phases
  \/ m.phases = n.phases /\ m.bytes < n.bytes
  \/ m.phases = n.phases /\ m.bytes = n.bytes /\ m.rest < n.rest
  \/ m.phases = n.phases /\ m.bytes = n.bytes /\ m.rest = n.rest /\ m.pauses < n.pauses

\* Left counts down.
LEMMA LeftType ==
  ASSUME TypeOK, Phase
  PROVE  Left \in [phases : Nat, bytes : Nat, rest : Nat, pauses : Nat]
<1>1. Len(data) \in Nat /\ size \in Nat /\ emptyCount \in 0..EMPTYMAX
  BY LenProperties DEF TypeOK
<1>2. CASE pc = "idle"
  BY <1>1, <1>2, ReceiverAssumption DEF Left
<1>3. CASE pc = "size"
  BY <1>1, <1>3, ReceiverAssumption DEF Left, Phase
<1>4. CASE pc \in {"pixels", "data"}
  BY <1>1, <1>4, ReceiverAssumption DEF Left, Phase
<1>5. QED
  BY <1>2, <1>3, <1>4 DEF TypeOK

\* Once there is a size the call ends or goes on to the data.
LEMMA DispatchLeaves ==
  ASSUME pc = "size", NEW n, Dispatch(n)
  PROVE  pc' = "idle" \/ Less(Left', Left)
<1>1. pc' \in {"idle", "pixels", "data"}
  BY DEF Dispatch, Answer
<1>2. CASE pc' \in {"pixels", "data"}
  <2>1. Left'.phases = 1 /\ Left.phases = 2
    BY <1>2 DEF Left
  <2>2. QED
    BY <2>1 DEF Less
<1>3. QED
  BY <1>1, <1>2

\* Every read of a call that has begun ends it or leaves less to do.
LEMMA LeftStep ==
  ASSUME TypeOK, Phase, getData, pc # "idle"
  PROVE  pc' = "idle" \/ Less(Left', Left)
<1>1. Len(data) \in Nat /\ size \in Nat /\ emptyCount \in 0..EMPTYMAX /\ data \in Seq(Byte)
  BY LenProperties DEF TypeOK
<1>2. CASE ReadSize
  <2>1. pc = "size" /\ Take
    BY <1>2 DEF ReadSize
  <2>2. CASE data = <<>>
    <3>1. data' = <<Head(line)>> /\ pc' = pc
      BY <1>2, <2>2 DEF ReadSize
    <3>2. Len(data') = 1 /\ Len(data) = 0
      BY <2>2, <3>1, EmptySeq
    <3>3. /\ Left'.phases = Left.phases
          /\ Left'.bytes = 1 /\ Left.bytes = 2
      BY <2>1, <3>1, <3>2 DEF Left
    <3>4. QED
      BY <3>3 DEF Less
  <2>3. CASE data # <<>>
    BY <1>2, <2>1, <2>3, DispatchLeaves DEF ReadSize
  <2>4. QED
    BY <2>2, <2>3
<1>3. CASE SizeTimesOut
  BY <1>3, DispatchLeaves DEF SizeTimesOut
<1>4. CASE ReadData
  <2> DEFINE d == Append(data, Head(line))
  <2>1. pc \in {"pixels", "data"} /\ Take
    BY <1>4 DEF ReadData
  <2>2. CASE Len(d) < size
    <3>1. data' = d /\ pc' = pc /\ size' = size
      BY <1>4, <2>2 DEF ReadData
    <3>2. Len(d) = Len(data) + 1
      BY <1>1, <2>1, TakeOne
    <3>3. /\ Left'.phases = Left.phases
          /\ Left'.bytes = size - (Len(data) + 1) /\ Left.bytes = size - Len(data)
      BY <2>1, <3>1, <3>2 DEF Left
    <3>4. QED
      BY <1>1, <3>3 DEF Less
  <2>3. CASE ~(Len(d) < size)
    BY <1>4, <2>3 DEF ReadData, Answer
  <2>4. QED
    BY <2>2, <2>3
<1>5. CASE DataTimesOut
  BY <1>5 DEF DataTimesOut, Answer
<1>6. CASE PixelsTimeOut
  <2>1. pc = "pixels"
    BY <1>6 DEF PixelsTimeOut
  <2>2. CASE pc' = "idle"
    BY <2>2
  <2>3. CASE UNCHANGED <<pc, size, data>>
    <3>1. Left'.phases = Left.phases /\ Left'.bytes = Left.bytes
      BY <2>3 DEF Left
    <3>2. \/ fresh > 0 /\ fresh' = 0
          \/ fresh = 0 /\ fresh' = 0 /\ emptyCount < EMPTYMAX /\ emptyCount' = emptyCount + 1
          \/ pc' = "idle"
      BY <1>1, <1>6, ReceiverAssumption DEF PixelsTimeOut, Stalled, Answer
    <3>3. CASE fresh > 0 /\ fresh' = 0
      <4>1. Left'.rest = 0 /\ Left.rest = 1
        BY <3>3 DEF Left
      <4>2. QED
        BY <3>1, <4>1 DEF Less
    <3>4. CASE fresh = 0 /\ fresh' = 0 /\ emptyCount < EMPTYMAX /\ emptyCount' = emptyCount + 1
      <4>1. Left'.rest = Left.rest
        BY <3>4 DEF Left
      <4>2. Left'.pauses = EMPTYMAX - (emptyCount + 1) /\ Left.pauses = EMPTYMAX - emptyCount
        BY <3>4 DEF Left
      <4>3. Left'.pauses < Left.pauses
        BY <1>1, <4>2, ReceiverAssumption
      <4>4. QED
        BY <3>1, <4>1, <4>3 DEF Less
    <3>5. QED
      BY <3>2, <3>3, <3>4
  <2>4. QED
    BY <1>6, <2>2, <2>3 DEF PixelsTimeOut, Answer
<1>7. QED
  BY <1>2, <1>3, <1>4, <1>5, <1>6 DEF getData, ReadCommand

\* The steps behind Returns: whatever arrives or does not, every read of a call
\* of getData() that has begun ends it or leaves it less to do, and what the
\* host and the line do does not give it more.
THEOREM ReturnsInSteps ==
  Spec => [](Left \in [phases : Nat, bytes : Nat, rest : Nat, pauses : Nat])
          /\ [][pc # "idle" => IF getData THEN pc' = "idle" \/ Less(Left', Left)
                               ELSE UNCHANGED <<pc, Left>>]_vars
<1>1. IInv => Left \in [phases : Nat, bytes : Nat, rest : Nat, pauses : Nat]
  BY LeftType DEF IInv
<1>2. ASSUME IInv, Next, pc # "idle", ~getData
      PROVE  UNCHANGED <<pc, Left>>
  <2>1. UNCHANGED <<pc, size, data, fresh, emptyCount>>
    BY <1>2 DEF Next, HostSends, HostReads, HostGivesUp, LoseByte, command
  <2>2. QED
    BY <2>1 DEF Left
<1>3. IInv /\ [Next]_vars
        => [pc # "idle" => IF getData THEN pc' = "idle" \/ Less(Left', Left)
                           ELSE UNCHANGED <<pc, Left>>]_vars
  BY <1>2, LeftStep DEF IInv
<1>4. QED
  BY <1>1, <1>3, Invariance, PTL DEF Spec
=============================================================================
