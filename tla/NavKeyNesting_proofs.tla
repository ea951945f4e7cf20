------------------------ MODULE NavKeyNesting_proofs ------------------------
(***************************************************************************)
(* Proofs about the handlers that run inside one another: how the          *)
(* suspended calls are nested, and what that means for the presses that    *)
(* are handled and the display that is saved.                              *)
(***************************************************************************)
EXTENDS NavKeyDisplay_proofs

-----------------------------------------------------------------------------
(***************************************************************************)
(* The shape of the suspended calls.                                       *)
(***************************************************************************)

\* StackAlternates for any sequence of calls.
Alternates(s) ==
  \A i \in 1 .. Len(s) - 1 :
    /\ s[i].fn # s[i + 1].fn
    /\ s[i].fn = "updateStatus" => s[i].arg \in {2, 3}

\* One call alternates with nothing.
LEMMA AlternatesShort ==
  ASSUME NEW s, Len(s) \in {0, 1}
  PROVE  Alternates(s)
<1>1. \A n \in {0, 1} : 1 .. n - 1 = {}
  OBVIOUS
<1>2. QED
  BY <1>1 DEF Alternates

\* A call pushed on a different one that can be suspended by it.
LEMMA AlternatesPush ==
  ASSUME NEW s \in Seq(Frames), NEW fn, NEW arg, [fn |-> fn, arg |-> arg] \in Frames,
         Alternates(s),
         s # <<>> => /\ s[Len(s)].fn # fn
                     /\ s[Len(s)].fn = "updateStatus" => s[Len(s)].arg \in {2, 3}
  PROVE  Alternates(Push(s, fn, arg))
<1> DEFINE t == Push(s, fn, arg)
<1>1. /\ Len(t) = Len(s) + 1
      /\ \A i \in 1 .. Len(s) : t[i] = s[i]
      /\ t[Len(s) + 1].fn = fn
  BY PushFacts
<1>2. Len(s) \in Nat
  BY LenProperties
<1> HIDE DEF t
<1>3. SUFFICES ASSUME NEW i \in 1 .. Len(s)
               PROVE  /\ t[i].fn # t[i + 1].fn
                      /\ t[i].fn = "updateStatus" => t[i].arg \in {2, 3}
  BY <1>1, <1>2 DEF Alternates, t
<1>4. CASE i < Len(s)
  <2>1. i + 1 \in 1 .. Len(s) /\ i \in 1 .. Len(s) - 1
    BY <1>2, <1>4
  <2>2. QED
    BY <1>1, <2>1 DEF Alternates
<1>5. CASE i = Len(s)
  <2>1. s # <<>>
    BY <1>2, <1>5, EmptySeq
  <2>2. QED
    BY <1>1, <1>2, <1>5, <2>1
<1>6. QED
  BY <1>2, <1>4, <1>5

\* Returning from a call, and what the caller then is.
LEMMA AlternatesRest ==
  ASSUME stack \in Seq(Frames), stack # <<>>, Alternates(stack)
  PROVE  /\ Alternates(Rest)
         /\ Rest # <<>> => /\ Rest[Len(Rest)].fn # Top.fn
                           /\ Rest[Len(Rest)].fn = "updateStatus"
                                => Rest[Len(Rest)].arg \in {2, 3}
<1>1. /\ Rest \in Seq(Frames)
      /\ Len(Rest) = Len(stack) - 1
      /\ \A i \in 1 .. Len(stack) - 1 : Rest[i] = stack[i]
      /\ Len(stack) \in Nat \ {0}
  BY RestFacts
<1>2. Alternates(Rest)
  <2>1. SUFFICES ASSUME NEW i \in 1 .. Len(Rest) - 1
                 PROVE  /\ Rest[i].fn # Rest[i + 1].fn
                        /\ Rest[i].fn = "updateStatus" => Rest[i].arg \in {2, 3}
    BY DEF Alternates
  <2>2. i \in 1 .. Len(stack) - 1 /\ i + 1 \in 1 .. Len(stack) - 1
    BY <1>1
  <2>3. QED
    BY <1>1, <2>2 DEF Alternates
<1>3. ASSUME Rest # <<>>
      PROVE  /\ Rest[Len(Rest)].fn # Top.fn
             /\ Rest[Len(Rest)].fn = "updateStatus" => Rest[Len(Rest)].arg \in {2, 3}
  <2>1. Len(Rest) \in 1 .. Len(stack) - 1 /\ Len(Rest) + 1 = Len(stack)
    BY <1>1, <1>3, EmptySeq
  <2>2. QED
    BY <1>1, <2>1 DEF Alternates, Top
<1>4. QED
  BY <1>2, <1>3

\* A callback leaves its updateStatus where it was, one bit further.
LEMMA AlternatesResumed ==
  ASSUME TypeOK, NEW e \in Events, Tests(e), Alternates(stack)
  PROVE  Alternates(Resumed(e))
<1>1. /\ stack \in Seq(Frames)
      /\ stack # <<>>
      /\ Top.fn = "updateStatus"
  BY DEF TypeOK, Tests, Testing
<1>2. [fn |-> "updateStatus", arg |-> Position[e] + 1] \in Frames
  BY DEF Frames, Position, Events
<1>3. Rest \in Seq(Frames)
  BY <1>1, RestFacts
<1>4. QED
  BY <1>1, <1>2, <1>3, AlternatesRest, AlternatesPush DEF Resumed

\* The calls after a selection by the callback of e.
LEMMA AlternatesSelected ==
  ASSUME TypeOK, NEW e \in {"UP", "DOWN"}, Tests(e), Alternates(stack),
         NEW idx \in 0 .. NDisplay - 1, SetDisplay(idx, config, Resumed(e))
  PROVE  Alternates(stack')
<1>1. e \in Events
  BY DEF Events
<1>2. Alternates(Resumed(e))
  BY <1>1, AlternatesResumed
<1>3. CASE idx % NDisplay \in Blending
  <2>1. stack' = Push(Resumed(e), "set_display", idx)
    BY <1>3 DEF SetDisplay
  <2>2. [fn |-> "set_display", arg |-> idx] \in Frames
    BY DEF Frames
  <2>3. /\ Resumed(e) \in Seq(Frames)
        /\ Len(Resumed(e)) = Len(stack)
        /\ Resumed(e)[Len(stack)] = [fn |-> "updateStatus", arg |-> Position[e] + 1]
    BY <1>1, ResumedFacts
  <2>4. Position[e] + 1 \in {2, 3}
    BY DEF Position
  <2>5. QED
    BY <1>2, <2>1, <2>2, <2>3, <2>4, AlternatesPush
<1>4. CASE idx % NDisplay \notin Blending
  BY <1>2, <1>4 DEF SetDisplay
<1>5. QED
  BY <1>3, <1>4

\* Every step keeps the calls alternating.
LEMMA AlternatesStep == TypeInv /\ Alternates(stack) /\ [Next]_vars => Alternates(stack')
<1> SUFFICES ASSUME TypeInv, Alternates(stack), [Next]_vars PROVE Alternates(stack')
  OBVIOUS
<1> TypeOK /\ stack \in Seq(Frames)
  BY DEF TypeInv, TypeOK
<1>1. ASSUME stack' = <<>> PROVE Alternates(stack')
  BY <1>1, EmptySeq DEF Alternates
<1>2. ASSUME stack' = stack PROVE Alternates(stack')
  BY <1>2
<1>3. CASE PowerLoss \/ FactoryReset \/ PrintTimeFaults \/ SelectionFaults
  BY <1>1, <1>3 DEF PowerLoss, FactoryReset, PrintTimeFaults, SelectionFaults, Reset
<1>4. CASE StartDisplay
  <2> DEFINE idx == StartSettings.display_idx % NDisplay
  <2>1. SetDisplay(idx, StartSettings, <<>>)
    BY <1>4 DEF StartDisplay
  <2>2. stack' = <<>> \/ stack' = Push(<<>>, "set_display", idx)
    BY <2>1 DEF SetDisplay
  <2> HIDE DEF idx
  <2>3. Len(stack') \in {0, 1}
    BY <2>2 DEF Push
  <2>4. QED
    BY <2>3, AlternatesShort
<1>5. CASE SetDisplayReturns \/ StatusReturns
  BY <1>5, AlternatesRest DEF SetDisplayReturns, StatusReturns, Testing
<1>6. CASE UpPressed
  BY <1>6, AlternatesSelected, SelectionRange DEF UpPressed, Calls
<1>7. CASE DownPressed
  BY <1>7, AlternatesSelected, SelectionRange DEF DownPressed, Calls
<1>8. CASE RightPressed \/ LeftPressed \/ CentralPressed \/ EncoderRotate
  <2>1. PICK e \in Events : Calls(e) /\ stack' = Resumed(e)
    BY <1>8 DEF RightPressed, LeftPressed, CentralPressed, EncoderRotate, Events
  <2>2. QED
    BY <2>1, AlternatesResumed DEF Calls
<1>9. CASE ReadStatus
  <2>1. /\ Polling
        /\ stack' = Push(stack, "updateStatus", 1)
    BY <1>9 DEF ReadStatus
  <2>2. [fn |-> "updateStatus", arg |-> 1] \in Frames
    BY DEF Frames
  <2>3. stack # <<>> => stack[Len(stack)].fn = "set_display"
    BY <2>1 DEF Polling, Top
  <2>4. QED
    BY <2>1, <2>2, <2>3, AlternatesPush
<1>10. CASE PowerOn \/ (\E e \in Events : Press(e)) \/ UNCHANGED vars
  BY <1>2, <1>10 DEF PowerOn, Press, vars
<1>11. CASE Message
  BY <1>2, <1>11 DEF Message, MessagePrevDisplay, MessageNextDisplay,
     MessageMovesDisplay, MessageBrighter, MessageDimmer, MessageSetColor,
     MessageSetTime, MessageUseNtp, Receiving
<1>12. QED
  BY <1>3, <1>4, <1>5, <1>6, <1>7, <1>8, <1>9, <1>10, <1>11
     DEF Next, Progress, Callback

\* Handlers are nested as deeply as the user presses, but only in this way.
THEOREM StackAlternatesCorrect == Spec => []StackAlternates
<1>1. Init => StackAlternates
  BY EmptySeq DEF Init, StackAlternates
<1>2. TypeInv /\ StackAlternates /\ [Next]_vars => StackAlternates'
  BY AlternatesStep DEF StackAlternates, Alternates
<1>3. QED
  BY <1>1, <1>2, TypeInvariant, PTL DEF Spec

-----------------------------------------------------------------------------
(***************************************************************************)
(* The depth of the suspended calls.                                       *)
(***************************************************************************)

\* The innermost call is a blend, which setup() may have begun.
Begun(s) == IF s # <<>> /\ s[Len(s)].fn = "set_display" THEN 1 ELSE 0

\* A press that was not read yet.
Unread(events) == IF events # {} THEN 1 ELSE 0

\* The presses pay for the calls s: one that is not read will need two.
Paid(s, events, n) == Len(s) + 2 * Unread(events) <= 2 * n + Begun(s)

\* What setup() leaves, no call or one blend, is paid for.
LEMMA PaidShort ==
  ASSUME NEW n \in Nat
  PROVE  Paid(<<>>, {}, n)
BY EmptySeq DEF Paid, Unread, Begun

\* One call less is paid for if the others were, a blend by setup() at the most.
LEMMA PaidRest ==
  ASSUME TypeOK, stack # <<>>, Paid(stack, pressed, presses)
  PROVE  Paid(Rest, pressed, presses)
<1>1. Len(Rest) = Len(stack) - 1 /\ Len(stack) \in Nat /\ presses \in Nat
  BY RestFacts DEF TypeOK
<1>2. Begun(stack) \in {0, 1} /\ Begun(Rest) \in {0, 1} /\ Unread(pressed) \in {0, 1}
  BY DEF Begun, Unread
<1>3. Len(stack) + 2 * Unread(pressed) <= 2 * presses + Begun(stack)
  BY DEF Paid
<1>4. Len(Rest) + 2 * Unread(pressed) <= 2 * presses + Begun(Rest)
  BY <1>1, <1>2, <1>3
<1>5. QED
  BY <1>4 DEF Paid

\* A blend is paid for if the calls below it are, which are no blend themselves.
LEMMA PaidBlend ==
  ASSUME NEW s \in Seq(Frames), NEW events, NEW n \in Nat, NEW idx \in 0 .. NDisplay - 1,
         Begun(s) = 0, Paid(s, events, n)
  PROVE  Paid(Push(s, "set_display", idx), events, n)
<1> DEFINE t == Push(s, "set_display", idx)
<1>1. [fn |-> "set_display", arg |-> idx] \in Frames
  BY DEF Frames
<1>2. /\ Len(t) = Len(s) + 1 /\ t # <<>>
      /\ t[Len(s) + 1] = [fn |-> "set_display", arg |-> idx]
  BY <1>1, PushFacts
<1> HIDE DEF t
<1>3. Begun(t) = 1
  BY <1>2 DEF Begun
<1>4. Len(s) \in Nat /\ Unread(events) \in {0, 1}
  BY LenProperties DEF Unread
<1>5. Len(s) + 2 * Unread(events) <= 2 * n
  BY <1>4 DEF Paid
<1>6. Len(t) + 2 * Unread(events) <= 2 * n + Begun(t)
  BY <1>2, <1>3, <1>4, <1>5
<1>7. QED
  BY <1>6 DEF Paid, t

\* An updateStatus that goes on has paid for itself and is no blend.
LEMMA PaidResumed ==
  ASSUME TypeOK, NEW e \in Events, Tests(e), Paid(stack, pressed, presses)
  PROVE  /\ Begun(Resumed(e)) = 0
         /\ Paid(Resumed(e), pressed, presses)
<1>1. /\ Len(Resumed(e)) = Len(stack) /\ Len(stack) \in Nat \ {0}
      /\ Resumed(e)[Len(stack)] = [fn |-> "updateStatus", arg |-> Position[e] + 1]
  BY ResumedFacts
<1>2. Begun(Resumed(e)) = 0
  BY <1>1 DEF Begun
<1>3. Begun(stack) = 0
  BY DEF Begun, Tests, Testing, Top
<1>4. Len(Resumed(e)) + 2 * Unread(pressed) <= 2 * presses + Begun(Resumed(e))
  BY <1>1, <1>2, <1>3 DEF Paid
<1>5. QED
  BY <1>2, <1>4 DEF Paid

\* Every step keeps the calls paid for.
LEMMA PaidStep ==
  ASSUME TypeInv, Paid(stack, pressed, presses), [Next]_vars
  PROVE  Paid(stack', pressed', presses')
<1> TypeOK /\ stack \in Seq(Frames) /\ Len(stack) \in Nat /\ presses \in Nat
  BY LenProperties DEF TypeInv, TypeOK
<1> config \in Settings
  BY DEF TypeOK
<1>1. ASSUME stack' = stack, pressed' = pressed, presses' = presses
      PROVE  Paid(stack', pressed', presses')
  BY <1>1
<1>2. CASE PowerLoss \/ FactoryReset \/ PrintTimeFaults \/ SelectionFaults
  <2>1. stack' = <<>> /\ pressed' = {} /\ presses' = 0
    BY <1>2 DEF PowerLoss, FactoryReset, PrintTimeFaults, SelectionFaults, Reset
  <2>2. QED
    BY <2>1, PaidShort
<1>3. CASE StartDisplay
  <2> DEFINE idx == StartSettings.display_idx % NDisplay
  <2>1. /\ SetDisplay(idx, StartSettings, <<>>) /\ stack = <<>>
        /\ pressed' = pressed /\ presses' = presses
    BY <1>3 DEF StartDisplay, Starting, navkey
  <2>2. idx \in 0 .. NDisplay - 1
    BY StartIndex
  <2>3. stack' = stack \/ stack' = Push(stack, "set_display", idx)
    BY <2>1 DEF SetDisplay
  <2> HIDE DEF idx
  <2>4. Begun(stack) = 0
    BY <2>1 DEF Begun
  <2>5. QED
    BY <2>1, <2>2, <2>3, <2>4, PaidBlend
<1>4. CASE SetDisplayReturns \/ StatusReturns
  <2>1. stack # <<>> /\ stack' = Rest /\ pressed' = pressed /\ presses' = presses
    BY <1>4 DEF SetDisplayReturns, StatusReturns, Testing, navkey, history
  <2>2. QED
    BY <2>1, PaidRest
<1>5. CASE UpPressed \/ DownPressed
  <2>1. PICK idx \in 0 .. NDisplay - 1, e \in Events :
          Calls(e) /\ SetDisplay(idx, config, Resumed(e))
    BY <1>5, SelectionRange DEF UpPressed, DownPressed, Events
  <2>2. Tests(e) /\ pressed' = pressed /\ presses' = presses
    BY <2>1 DEF Calls, navkey
  <2>3. /\ Resumed(e) \in Seq(Frames) /\ Begun(Resumed(e)) = 0
        /\ Paid(Resumed(e), pressed, presses)
    BY <2>2, ResumedFacts, PaidResumed
  <2>4. stack' = Resumed(e) \/ stack' = Push(Resumed(e), "set_display", idx)
    BY <2>1 DEF SetDisplay
  <2>5. QED
    BY <2>2, <2>3, <2>4, PaidBlend
<1>6. CASE RightPressed \/ LeftPressed \/ CentralPressed \/ EncoderRotate
  <2>1. PICK e \in Events : Calls(e) /\ stack' = Resumed(e)
    BY <1>6 DEF RightPressed, LeftPressed, CentralPressed, EncoderRotate, Events
  <2>2. Tests(e) /\ pressed' = pressed /\ presses' = presses
    BY <2>1 DEF Calls, navkey
  <2>3. QED
    BY <2>1, <2>2, PaidResumed
<1>7. CASE ReadStatus
  <2>1. /\ stack' = Push(stack, "updateStatus", 1) /\ presses' = presses
        /\ pressed # {} /\ pressed' = {}
    BY <1>7 DEF ReadStatus
  <2>2. [fn |-> "updateStatus", arg |-> 1] \in Frames
    BY DEF Frames
  <2>3. /\ Len(stack') = Len(stack) + 1
        /\ stack'[Len(stack) + 1] = [fn |-> "updateStatus", arg |-> 1]
    BY <2>1, <2>2, PushFacts
  <2>4. Unread(pressed) = 1 /\ Unread(pressed') = 0 /\ Begun(stack') = 0
    BY <2>1, <2>3 DEF Unread, Begun
  <2>5. Begun(stack) \in {0, 1}
    BY DEF Begun
  <2>6. Len(stack) + 2 * Unread(pressed) <= 2 * presses + Begun(stack)
    BY DEF Paid
  <2>7. Len(stack') + 2 * Unread(pressed') <= 2 * presses' + Begun(stack')
    BY <2>1, <2>3, <2>4, <2>5, <2>6
  <2>8. QED
    BY <2>7 DEF Paid
<1>8. CASE \E e \in Events : Press(e)
  <2>1. stack' = stack /\ presses' = presses + 1 /\ pressed' # {}
    BY <1>8 DEF Press
  <2>2. /\ Unread(pressed') = 1 /\ Unread(pressed) \in {0, 1}
        /\ Begun(stack') = Begun(stack) /\ Begun(stack) \in {0, 1}
    BY <2>1 DEF Unread, Begun
  <2>3. Len(stack) + 2 * Unread(pressed) <= 2 * presses + Begun(stack)
    BY DEF Paid
  <2>4. Len(stack') + 2 * Unread(pressed') <= 2 * presses' + Begun(stack')
    BY <2>1, <2>2, <2>3
  <2>5. QED
    BY <2>4 DEF Paid
<1>9. CASE PowerOn \/ UNCHANGED vars
  BY <1>1, <1>9 DEF PowerOn, vars, navkey, history
<1>10. CASE Message
  BY <1>1, <1>10 DEF Message, MessagePrevDisplay, MessageNextDisplay,
     MessageMovesDisplay, MessageBrighter, MessageDimmer, MessageSetColor,
     MessageSetTime, MessageUseNtp, Receiving, navkey
<1>11. QED
  BY <1>2, <1>3, <1>4, <1>5, <1>6, <1>7, <1>8, <1>9, <1>10
     DEF Next, Progress, Callback

\* The call stack is no deeper than the presses since power on account for,
\* whatever MaxStack is: a bound of 2 * MaxPress + 1 cuts no behaviour off.
THEOREM NestingIsBoundedCorrect == Spec => []NestingIsBounded
<1>1. Init => Paid(stack, pressed, presses)
  BY PaidShort DEF Init
<1>2. TypeInv /\ Paid(stack, pressed, presses) /\ [Next]_vars
        => Paid(stack, pressed, presses)'
  BY PaidStep
<1>3. TypeInv /\ Paid(stack, pressed, presses) => NestingIsBounded
  <2> SUFFICES ASSUME TypeInv, Paid(stack, pressed, presses)
               PROVE  Len(stack) <= 2 * presses + 1
    BY DEF NestingIsBounded
  <2>1. Len(stack) \in Nat /\ presses \in Nat
    BY LenProperties DEF TypeInv, TypeOK
  <2>2. Begun(stack) \in {0, 1} /\ Unread(pressed) \in {0, 1}
    BY DEF Begun, Unread
  <2>3. Len(stack) + 2 * Unread(pressed) <= 2 * presses + Begun(stack)
    BY DEF Paid
  <2>4. QED
    BY <2>1, <2>2, <2>3
<1>4. QED
  BY <1>1, <1>2, <1>3, TypeInvariant, PTL DEF Spec

-----------------------------------------------------------------------------
(***************************************************************************)
(* Presses of UP.                                                          *)
(***************************************************************************)

\* A press of UP has been read and its bit is not tested yet.
UpIsPending ==
  /\ stack # <<>>
  /\ Top.fn = "updateStatus"
  /\ Top.arg = 1
  /\ "UP" \in stat

\* The running call after it was pushed.
LEMMA TopPushed ==
  ASSUME NEW s \in Seq(Frames), NEW fn, NEW arg, [fn |-> fn, arg |-> arg] \in Frames,
         stack' = Push(s, fn, arg)
  PROVE  stack' # <<>> /\ Top' = [fn |-> fn, arg |-> arg]
BY PushFacts DEF Top

\* When the running call is not an updateStatus, or is past the bit of UP, none
\* is pending.
LEMMA NotPending ==
  ASSUME stack' = <<>> \/ Top'.fn = "set_display" \/ Top'.arg \in {2, 3, 4, 5, 6, 7}
  PROVE  ~UpIsPending'
BY DEF UpIsPending

\* Every step keeps what is owed to UP.
LEMMA UpStep ==
  /\ TypeInv
  /\ Alternates(stack)
  /\ UpHandledOnce
  /\ [Next]_vars
  => UpHandledOnce'
<1> SUFFICES ASSUME TypeInv, Alternates(stack), UpHandledOnce, [Next]_vars
             PROVE  UpHandledOnce'
  OBVIOUS
<1>1. /\ TypeOK
      /\ stack \in Seq(Frames)
      /\ owed \in [Events -> Int]
      /\ "UP" \in Events
      /\ owed["UP"] = IF UpIsPending THEN 1 ELSE 0
  BY DEF TypeInv, TypeOK, Events, UpHandledOnce, UpIsPending
<1>2. SUFFICES owed'["UP"] = IF UpIsPending' THEN 1 ELSE 0
  BY DEF UpHandledOnce, UpIsPending
<1>3. CASE PowerLoss \/ FactoryReset \/ PrintTimeFaults \/ SelectionFaults
  <2>1. owed'["UP"] = 0 /\ stack' = <<>>
    BY <1>1, <1>3 DEF PowerLoss, FactoryReset, PrintTimeFaults, SelectionFaults, Reset
  <2>2. QED
    BY <2>1, NotPending
<1>4. CASE StartDisplay
  <2> DEFINE idx == StartSettings.display_idx % NDisplay
  <2>1. owed' = owed /\ SetDisplay(idx, StartSettings, <<>>) /\ stack = <<>>
    BY <1>4 DEF StartDisplay, Starting
  <2>2. stack' = <<>> \/ stack' = Push(<<>>, "set_display", idx)
    BY <2>1 DEF SetDisplay
  <2>3. stack' = <<>> \/ Top'.fn = "set_display"
    BY <2>2 DEF Push, Top
  <2>4. QED
    BY <1>1, <2>1, <2>3, NotPending DEF UpIsPending
<1>5. CASE SetDisplayReturns
  <2>1. /\ owed' = owed
        /\ stack # <<>>
        /\ Top.fn = "set_display"
        /\ stack' = Rest
    BY <1>5 DEF SetDisplayReturns, history
  <2>2. Rest # <<>> => Rest[Len(Rest)].fn # "set_display" /\ Rest[Len(Rest)] \in Frames
    BY <1>1, <2>1, AlternatesRest, RestFacts, EmptySeq, ElementOfSeq
  <2>3. Rest # <<>> => Rest[Len(Rest)].arg \in {2, 3}
    BY <1>1, <2>1, <2>2, AlternatesRest DEF Frames
  <2>4. stack' = <<>> \/ Top'.arg \in {2, 3}
    BY <2>1, <2>3 DEF Top
  <2>5. QED
    BY <1>1, <2>1, <2>4, NotPending DEF UpIsPending
<1>6. CASE StatusReturns
  <2>1. /\ owed' = owed
        /\ stack # <<>>
        /\ Top.fn = "updateStatus"
        /\ Remaining = {}
        /\ stack' = Rest
    BY <1>6 DEF StatusReturns, Testing, history
  <2>2. ~UpIsPending
    BY <2>1 DEF UpIsPending, Remaining, Position
  <2>3. Rest # <<>> => Rest[Len(Rest)].fn # "updateStatus"
    BY <1>1, <2>1, AlternatesRest
  <2>4. ~UpIsPending'
    BY <2>1, <2>3 DEF UpIsPending, Top
  <2>5. QED
    BY <1>1, <2>1, <2>2, <2>4
<1>7. ASSUME NEW e \in Events, Calls(e),
             \/ stack' = Resumed(e)
             \/ \E idx \in 0 .. NDisplay - 1 :
                  stack' = Push(Resumed(e), "set_display", idx)
      PROVE  owed'["UP"] = IF UpIsPending' THEN 1 ELSE 0
  <2>1. Tests(e) /\ owed' = [owed EXCEPT ![e] = @ - 1] /\ Resumed(e) \in Seq(Frames)
    BY <1>1, <1>7, ResumedFacts DEF Calls
  <2>2. UpIsPending <=> e = "UP"
    <3>1. /\ stack # <<>>
          /\ Top.fn = "updateStatus"
          /\ Top \in Frames
          /\ e \in Remaining
          /\ \A f \in Remaining : Position[e] <= Position[f]
      BY <1>1, <2>1, RestFacts DEF Tests, Testing
    <3>2. Top.arg \in 1 .. 7
      BY <3>1 DEF Frames
    <3>3. ASSUME UpIsPending PROVE e = "UP"
      <4>1. "UP" \in Remaining
        BY <3>3 DEF UpIsPending, Remaining, Position
      <4>2. Position[e] <= 1
        BY <3>1, <4>1 DEF Position
      <4>3. QED
        BY <4>2 DEF Position, Events
    <3>4. ASSUME e = "UP" PROVE UpIsPending
      <4>1. "UP" \in stat /\ 1 >= Top.arg
        BY <3>1, <3>4 DEF Remaining, Position
      <4>2. Top.arg = 1
        BY <3>2, <4>1
      <4>3. QED
        BY <3>1, <4>1, <4>2 DEF UpIsPending
    <3>5. QED
      BY <3>3, <3>4
  <2>3. owed'["UP"] = 0
    BY <1>1, <2>1, <2>2
  <2>4. stack' = Resumed(e) => Top'.arg \in {2, 3, 4, 5, 6, 7}
    <3>1. [fn |-> "updateStatus", arg |-> Position[e] + 1] \in Frames
      BY DEF Frames, Position, Events
    <3>2. Rest \in Seq(Frames)
      BY <1>1, <2>1, RestFacts DEF Tests, Testing
    <3>3. Position[e] + 1 \in {2, 3, 4, 5, 6, 7}
      BY DEF Position, Events
    <3>4. QED
      BY <3>1, <3>2, <3>3, TopPushed DEF Resumed
  <2>5. ASSUME NEW idx \in 0 .. NDisplay - 1,
               stack' = Push(Resumed(e), "set_display", idx)
        PROVE  Top'.fn = "set_display"
    <3>1. [fn |-> "set_display", arg |-> idx] \in Frames
      BY DEF Frames
    <3>2. QED
      BY <2>1, <2>5, <3>1, TopPushed
  <2>6. ~UpIsPending'
    BY <1>7, <2>4, <2>5, NotPending
  <2>7. QED
    BY <2>3, <2>6
<1>8. CASE Callback
  <2>1. CASE UpPressed
    <3>1. "UP" \in Events /\ Previous \in 0 .. NDisplay - 1
      BY SelectionRange DEF Events
    <3>2. QED
      BY <1>7, <2>1, <3>1 DEF UpPressed, SetDisplay
  <2>2. CASE DownPressed
    <3>1. "DOWN" \in Events /\ Following \in 0 .. NDisplay - 1
      BY SelectionRange DEF Events
    <3>2. QED
      BY <1>7, <2>2, <3>1 DEF DownPressed, SetDisplay
  <2>3. CASE RightPressed \/ LeftPressed \/ CentralPressed \/ EncoderRotate
    <3>1. PICK e \in Events : Calls(e) /\ stack' = Resumed(e)
      BY <2>3 DEF RightPressed, LeftPressed, CentralPressed, EncoderRotate, Events
    <3>2. QED
      BY <1>7, <3>1
  <2>4. QED
    BY <1>8, <2>1, <2>2, <2>3 DEF Callback
<1>9. CASE ReadStatus
  <2>1. /\ Polling
        /\ stat' = pressed
        /\ owed' = [e \in Events |-> IF e \in pressed THEN owed[e] + 1 ELSE owed[e]]
        /\ stack' = Push(stack, "updateStatus", 1)
    BY <1>9 DEF ReadStatus
  <2>2. ~UpIsPending
    BY <2>1 DEF Polling, UpIsPending
  <2>3. [fn |-> "updateStatus", arg |-> 1] \in Frames
    BY DEF Frames
  <2>4. stack' # <<>> /\ Top' = [fn |-> "updateStatus", arg |-> 1]
    BY <1>1, <2>1, <2>3, TopPushed
  <2>5. UpIsPending' <=> "UP" \in pressed
    BY <2>1, <2>4 DEF UpIsPending
  <2>6. QED
    BY <1>1, <2>1, <2>2, <2>5
<1>10. ASSUME UNCHANGED <<stack, stat, owed>>
       PROVE  owed'["UP"] = IF UpIsPending' THEN 1 ELSE 0
  BY <1>1, <1>10 DEF UpIsPending, Top
<1>11. CASE PowerOn \/ (\E e \in Events : Press(e)) \/ UNCHANGED vars
  BY <1>10, <1>11 DEF PowerOn, Press, vars, navkey, history
<1>12. CASE Message
  BY <1>10, <1>12 DEF Message, MessagePrevDisplay, MessageNextDisplay,
     MessageMovesDisplay, MessageBrighter, MessageDimmer, MessageSetColor,
     MessageSetTime, MessageUseNtp, Receiving, navkey
<1>13. QED
  BY <1>3, <1>4, <1>5, <1>6, <1>8, <1>9, <1>11, <1>12 DEF Next, Progress

\* A press of UP that was read is handled once, however deeply its handler is
\* interrupted.
THEOREM UpHandledOnceCorrect == Spec => []UpHandledOnce
<1>1. Init => UpHandledOnce
  BY DEF Init, UpHandledOnce, Events
<1>2. StackAlternates => Alternates(stack)
  BY DEF StackAlternates, Alternates
<1>3. TypeInv /\ StackAlternates /\ UpHandledOnce /\ [Next]_vars => UpHandledOnce'
  BY <1>2, UpStep
<1>4. QED
  BY <1>1, <1>3, TypeInvariant, StackAlternatesCorrect, PTL DEF Spec

-----------------------------------------------------------------------------
(***************************************************************************)
(* The display that is shown and the display that is saved.                *)
(***************************************************************************)

\* A push keeps the blends below it, and adds one if it is a selection.
LEMMA BlendsPush ==
  ASSUME NEW s \in Seq(Frames), NEW fn, NEW arg, [fn |-> fn, arg |-> arg] \in Frames
  PROVE  Blends(Push(s, fn, arg)) <=> (Blends(s) \/ fn = "set_display")
<1> DEFINE t == Push(s, fn, arg)
<1>1. /\ Len(t) = Len(s) + 1
      /\ \A i \in 1 .. Len(s) : t[i] = s[i]
      /\ t[Len(s) + 1].fn = fn
      /\ Len(s) \in Nat
      /\ DOMAIN s = 1 .. Len(s)
      /\ DOMAIN t = 1 .. Len(s) + 1
  BY PushFacts, LenProperties
<1> HIDE DEF t
<1>2. ASSUME Blends(t) PROVE Blends(s) \/ fn = "set_display"
  <2>1. PICK i \in 1 .. Len(s) + 1 : t[i].fn = "set_display"
    BY <1>1, <1>2 DEF Blends
  <2>2. i \in 1 .. Len(s) \/ i = Len(s) + 1
    BY <1>1
  <2>3. QED
    BY <1>1, <2>1, <2>2 DEF Blends
<1>3. ASSUME Blends(s) PROVE Blends(t)
  <2>1. PICK i \in 1 .. Len(s) : s[i].fn = "set_display"
    BY <1>1, <1>3 DEF Blends
  <2>2. i \in 1 .. Len(s) + 1
    BY <1>1
  <2>3. QED
    BY <1>1, <2>1, <2>2 DEF Blends
<1>4. ASSUME fn = "set_display" PROVE Blends(t)
  <2>1. Len(s) + 1 \in 1 .. Len(s) + 1
    BY <1>1
  <2>2. QED
    BY <1>1, <1>4, <2>1 DEF Blends
<1>5. QED
  BY <1>2, <1>3, <1>4 DEF t

\* Taking the running call away takes away its blend only.
LEMMA BlendsRest ==
  ASSUME stack \in Seq(Frames), stack # <<>>
  PROVE  /\ DOMAIN Rest \subseteq DOMAIN stack
         /\ \A i \in DOMAIN Rest : Rest[i] = stack[i]
         /\ Blends(stack) <=> (Blends(Rest) \/ Top.fn = "set_display")
<1>1. /\ Len(stack) \in Nat \ {0}
      /\ Len(Rest) = Len(stack) - 1
      /\ DOMAIN stack = 1 .. Len(stack)
      /\ DOMAIN Rest = 1 .. Len(stack) - 1
      /\ \A i \in 1 .. Len(stack) - 1 : Rest[i] = stack[i]
  BY RestFacts, LenProperties
<1>2. \A i \in DOMAIN stack : i \in DOMAIN Rest \/ i = Len(stack)
  BY <1>1
<1>3. DOMAIN Rest \subseteq DOMAIN stack /\ Len(stack) \in DOMAIN stack
  BY <1>1
<1>4. QED
  BY <1>1, <1>2, <1>3 DEF Blends, Top

\* The calls a callback suspends blend as those before it.
LEMMA BlendsResumed ==
  ASSUME TypeOK, NEW e \in Events, Tests(e)
  PROVE  Blends(Resumed(e)) <=> Blends(stack)
<1>1. stack \in Seq(Frames) /\ stack # <<>> /\ Top.fn = "updateStatus"
  BY DEF TypeOK, Tests, Testing
<1>2. [fn |-> "updateStatus", arg |-> Position[e] + 1] \in Frames
  BY DEF Frames, Position, Events
<1>3. QED
  BY <1>1, <1>2, RestFacts, BlendsRest, BlendsPush DEF Resumed

DisplayInv == BlendSavesShown /\ ShownIsSavedUnlessOvertaken

\* A step that selects nothing and returns from no selection.
LEMMA DisplayKept ==
  ASSUME DisplayInv,
         current' = current, overtaken' = overtaken,
         config'.display_idx = config.display_idx,
         phase' = "loop" => phase = "loop",
         Blends(stack') <=> Blends(stack),
         \A i \in DOMAIN stack' : stack'[i].fn = "set_display"
                                    => i \in DOMAIN stack /\ stack[i] = stack'[i]
  PROVE  DisplayInv'
<1>1. BlendSavesShown'
  BY DEF DisplayInv, BlendSavesShown
<1>2. ShownIsSavedUnlessOvertaken'
  BY DEF DisplayInv, ShownIsSavedUnlessOvertaken
<1>3. QED
  BY <1>1, <1>2 DEF DisplayInv

\* A selection: nothing is promised if a blend is suspended below it.
LEMMA DisplaySelected ==
  ASSUME NEW idx \in 0 .. NDisplay - 1, NEW saved \in Settings,
         NEW base \in Seq(Frames), SetDisplay(idx, saved, base)
  PROVE  DisplayInv'
<1>1. /\ current' = idx
      /\ config'.display_idx = IF idx \in Blending THEN saved.display_idx ELSE idx
  BY SetDisplayType, SavedIndex
<1>2. overtaken' = Blends(base)
  BY DEF SetDisplay
<1>3. idx % NDisplay = idx
  BY DisplayAssumption
<1>4. [fn |-> "set_display", arg |-> idx] \in Frames
  BY DEF Frames
<1>5. CASE idx \in Blending
  <2>1. stack' = Push(base, "set_display", idx)
    BY <1>3, <1>5 DEF SetDisplay
  <2>2. /\ stack' \in Seq(Frames)
        /\ Len(stack') = Len(base) + 1
        /\ \A i \in 1 .. Len(base) : stack'[i] = base[i]
        /\ stack'[Len(base) + 1].arg = idx
    BY <1>4, <2>1, PushFacts
  <2>3. /\ Len(base) \in Nat
        /\ DOMAIN base = 1 .. Len(base)
        /\ DOMAIN stack' = 1 .. Len(base) + 1
    BY <2>2, LenProperties
  <2>4. \A i \in DOMAIN stack' : i \in DOMAIN base \/ i = Len(base) + 1
    BY <2>3
  <2>5. BlendSavesShown'
    BY <1>1, <1>2, <2>2, <2>3, <2>4 DEF BlendSavesShown, Blends
  <2>6. Blends(stack')
    BY <1>4, <2>1, BlendsPush
  <2>7. ShownIsSavedUnlessOvertaken'
    BY <2>6 DEF ShownIsSavedUnlessOvertaken
  <2>8. QED
    BY <2>5, <2>7 DEF DisplayInv
<1>6. CASE idx \notin Blending
  <2>1. stack' = base
    BY <1>3, <1>6 DEF SetDisplay
  <2>2. BlendSavesShown'
    BY <1>2, <2>1 DEF BlendSavesShown, Blends
  <2>3. ShownIsSavedUnlessOvertaken'
    BY <1>1, <1>6 DEF ShownIsSavedUnlessOvertaken
  <2>4. QED
    BY <2>2, <2>3 DEF DisplayInv
<1>7. QED
  BY <1>5, <1>6

\* Every step keeps the two relations between display, settings and calls.
LEMMA DisplayStep == TypeInv /\ DisplayInv /\ [Next]_vars => DisplayInv'
<1> SUFFICES ASSUME TypeInv, DisplayInv, [Next]_vars PROVE DisplayInv'
  OBVIOUS
<1> TypeOK /\ config \in Settings /\ stack \in Seq(Frames)
  BY DEF TypeInv, TypeOK
<1>1. ASSUME stack' = <<>>, phase' # "loop" PROVE DisplayInv'
  <2>1. DOMAIN stack' = {}
    BY <1>1
  <2>2. QED
    BY <1>1, <2>1 DEF DisplayInv, BlendSavesShown, ShownIsSavedUnlessOvertaken
<1>2. ASSUME UNCHANGED <<current, overtaken, stack>>, phase' = "loop" => phase = "loop",
             config'.display_idx = config.display_idx
      PROVE  DisplayInv'
  BY <1>2, DisplayKept
<1>3. CASE PowerLoss \/ FactoryReset \/ PrintTimeFaults \/ SelectionFaults
  <2>1. stack' = <<>> /\ phase' = "off"
    BY <1>3 DEF PowerLoss, FactoryReset, PrintTimeFaults, SelectionFaults, Reset
  <2>2. QED
    BY <1>1, <2>1
<1>4. CASE PowerOn
  <2>1. stack = <<>>
    BY <1>4 DEF PowerOn, TypeInv, OffIsReset
  <2>2. QED
    BY <1>1, <1>4, <2>1 DEF PowerOn
<1>5. CASE StartDisplay
  <2> DEFINE idx == StartSettings.display_idx % NDisplay
  <2>1. StartSettings \in Settings
    BY StartType
  <2>2. idx \in 0 .. NDisplay - 1
    BY StartIndex
  <2>3. SetDisplay(idx, StartSettings, <<>>) /\ <<>> \in Seq(Frames)
    BY <1>5, EmptySeq DEF StartDisplay
  <2> HIDE DEF idx
  <2>4. QED
    BY <2>1, <2>2, <2>3, DisplaySelected
<1>6. CASE UpPressed \/ DownPressed
  <2>1. PICK idx \in 0 .. NDisplay - 1, e \in Events :
          Calls(e) /\ SetDisplay(idx, config, Resumed(e))
    BY <1>6, SelectionRange DEF UpPressed, DownPressed, Events
  <2>2. Resumed(e) \in Seq(Frames)
    BY <2>1, CallsType
  <2>3. QED
    BY <2>1, <2>2, DisplaySelected
<1>7. CASE RightPressed \/ LeftPressed \/ CentralPressed \/ EncoderRotate
  <2>1. PICK e \in Events : Calls(e) /\ stack' = Resumed(e)
    BY <1>7 DEF RightPressed, LeftPressed, CentralPressed, EncoderRotate, Events
  <2>2. Tests(e) /\ phase' = phase
    BY <2>1 DEF Calls
  <2>3. UNCHANGED <<current, overtaken>>
    BY <1>7 DEF RightPressed, LeftPressed, CentralPressed, EncoderRotate
  <2>4. config'.display_idx = config.display_idx
    BY <1>7 DEF RightPressed, LeftPressed, CentralPressed, EncoderRotate, Brighter,
       Dimmer, SetBrightness, TogglePower, SetColor, SaveSettings, Settings, settings
  <2>5. Blends(stack') <=> Blends(stack)
    BY <2>1, <2>2, BlendsResumed
  <2>6. /\ Resumed(e) \in Seq(Frames)
        /\ Len(Resumed(e)) = Len(stack)
        /\ \A i \in 1 .. Len(stack) - 1 : Resumed(e)[i] = stack[i]
        /\ Resumed(e)[Len(stack)] = [fn |-> "updateStatus", arg |-> Position[e] + 1]
        /\ Len(stack) \in Nat \ {0}
    BY <2>2, ResumedFacts
  <2>7. DOMAIN stack' = 1 .. Len(stack) /\ DOMAIN stack = 1 .. Len(stack)
    BY <2>1, <2>6, LenProperties
  <2>8. \A i \in DOMAIN stack' : i \in 1 .. Len(stack) - 1 \/ i = Len(stack)
    BY <2>6, <2>7
  <2>9. \A i \in DOMAIN stack' : stack'[i].fn = "set_display"
                                   => i \in DOMAIN stack /\ stack[i] = stack'[i]
    BY <2>1, <2>6, <2>7, <2>8
  <2>10. QED
    BY <2>2, <2>3, <2>4, <2>5, <2>9, DisplayKept
<1>8. CASE SetDisplayReturns
  <2>1. /\ stack # <<>>
        /\ Top.fn = "set_display"
        /\ stack' = Rest
        /\ UNCHANGED <<current, overtaken>>
        /\ config'.display_idx = Top.arg
    BY <1>8 DEF SetDisplayReturns, SaveSettings, Settings, history
  <2>2. /\ DOMAIN Rest \subseteq DOMAIN stack
        /\ \A i \in DOMAIN Rest : Rest[i] = stack[i]
    BY <2>1, BlendsRest
  <2>3. BlendSavesShown'
    BY <2>1, <2>2 DEF DisplayInv, BlendSavesShown
  <2>4. Len(stack) \in DOMAIN stack
    BY <2>1, RestFacts, LenProperties
  <2>5. ~overtaken => Top.arg = current
    BY <2>1, <2>4 DEF DisplayInv, BlendSavesShown, Top
  <2>6. ShownIsSavedUnlessOvertaken'
    BY <2>1, <2>5 DEF ShownIsSavedUnlessOvertaken
  <2>7. QED
    BY <2>3, <2>6 DEF DisplayInv
<1>9. CASE StatusReturns
  <2>1. /\ stack # <<>>
        /\ Top.fn = "updateStatus"
        /\ stack' = Rest
        /\ UNCHANGED <<current, overtaken, phase, config>>
    BY <1>9 DEF StatusReturns, Testing, settings, history
  <2>2. /\ DOMAIN Rest \subseteq DOMAIN stack
        /\ \A i \in DOMAIN Rest : Rest[i] = stack[i]
        /\ Blends(stack) <=> Blends(Rest)
    BY <2>1, BlendsRest
  <2>3. QED
    BY <2>1, <2>2, DisplayKept
<1>10. CASE ReadStatus
  <2>1. /\ stack' = Push(stack, "updateStatus", 1)
        /\ UNCHANGED <<current, overtaken, config>>
        /\ phase' = NavKeyIsOver
    BY <1>10 DEF ReadStatus, settings
  <2>2. [fn |-> "updateStatus", arg |-> 1] \in Frames
    BY DEF Frames
  <2>3. Blends(stack') <=> Blends(stack)
    BY <2>1, <2>2, BlendsPush
  <2>4. /\ stack' \in Seq(Frames)
        /\ Len(stack') = Len(stack) + 1
        /\ \A i \in 1 .. Len(stack) : stack'[i] = stack[i]
        /\ stack'[Len(stack) + 1].fn = "updateStatus"
    BY <2>1, <2>2, PushFacts
  <2>5. /\ Len(stack) \in Nat
        /\ DOMAIN stack = 1 .. Len(stack)
        /\ DOMAIN stack' = 1 .. Len(stack) + 1
    BY <2>4, LenProperties
  <2>6. \A i \in DOMAIN stack' : i \in DOMAIN stack \/ i = Len(stack) + 1
    BY <2>5
  <2>7. \A i \in DOMAIN stack' : stack'[i].fn = "set_display"
                                   => i \in DOMAIN stack /\ stack[i] = stack'[i]
    BY <2>4, <2>5, <2>6
  <2>8. QED
    BY <2>1, <2>3, <2>7, DisplayKept DEF NavKeyIsOver
<1>11. CASE MessagePrevDisplay \/ MessageNextDisplay
  <2>1. /\ UNCHANGED <<current, stack>>
        /\ overtaken' = (overtaken \/ ~Blends(stack))
    BY <1>11 DEF MessagePrevDisplay, MessageNextDisplay, MessageMovesDisplay, Receiving
  <2>2. BlendSavesShown'
    BY <2>1 DEF DisplayInv, BlendSavesShown
  <2>3. ShownIsSavedUnlessOvertaken'
    BY <2>1 DEF ShownIsSavedUnlessOvertaken
  <2>4. QED
    BY <2>2, <2>3 DEF DisplayInv
<1>12. CASE \/ MessageBrighter \/ MessageDimmer \/ MessageSetColor
            \/ MessageSetTime \/ MessageUseNtp
  <2>1. UNCHANGED <<current, overtaken, stack>>
    BY <1>12 DEF MessageBrighter, MessageDimmer, MessageSetColor, MessageSetTime,
       MessageUseNtp, Receiving
  <2>2. phase' = "loop" => phase = "loop"
    BY <1>12 DEF MessageBrighter, MessageDimmer, MessageSetColor, MessageSetTime,
       MessageUseNtp, Receiving, NavKeyIsOver
  <2>3. config'.display_idx = config.display_idx
    BY <1>12 DEF MessageBrighter, MessageDimmer, MessageSetColor, MessageSetTime,
       MessageUseNtp, Brighter, Dimmer, SetBrightness, SetColor, SaveSettings, Settings
  <2>4. QED
    BY <1>2, <2>1, <2>2, <2>3
<1>13. CASE (\E e \in Events : Press(e)) \/ UNCHANGED vars
  BY <1>2, <1>13 DEF Press, vars, settings
<1>14. QED
  BY <1>3, <1>4, <1>5, <1>6, <1>7, <1>8, <1>9, <1>10, <1>11, <1>12, <1>13
     DEF Next, Progress, Callback, Message

\* The two relations hold together, for any number of displays of which any may
\* blend.
THEOREM DisplayInvariant == Spec => []DisplayInv
<1>1. Init => DisplayInv
  BY DEF Init, DisplayInv, BlendSavesShown, ShownIsSavedUnlessOvertaken
<1>2. QED
  BY <1>1, DisplayStep, TypeInvariant, PTL DEF Spec

\* What is shown is what is saved, but after a selection inside a selection or a
\* message that moves the index.
THEOREM ShownIsSavedCorrect == Spec => []ShownIsSavedUnlessOvertaken
<1>1. DisplayInv => ShownIsSavedUnlessOvertaken
  BY DEF DisplayInv
<1>2. QED
  BY <1>1, DisplayInvariant, PTL

\* A blend saves the display it shows, unless another selection began inside it.
THEOREM BlendSavesShownCorrect == Spec => []BlendSavesShown
<1>1. DisplayInv => BlendSavesShown
  BY DEF DisplayInv
<1>2. QED
  BY <1>1, DisplayInvariant, PTL

-----------------------------------------------------------------------------
(***************************************************************************)
(* Events that are lost.                                                   *)
(***************************************************************************)

\* No updateStatus is running or suspended.
NoStatus(s) == \A i \in 1 .. Len(s) : s[i].fn # "updateStatus"

\* At most one updateStatus is running or suspended.
OneStatus(s) ==
  \A i, j \in 1 .. Len(s) :
    s[i].fn = "updateStatus" /\ s[j].fn = "updateStatus" => i = j

\* Some updateStatus of s has still to test the bit of e, which is set.
Awaits(s, bits, e) ==
  \E i \in 1 .. Len(s) :
    s[i].fn = "updateStatus" /\ e \in bits /\ Position[e] >= s[i].arg

\* Every event that was read is handled once or about to be.
HandledInStep ==
  /\ OneStatus(stack)
  /\ \A e \in Events : owed[e] = IF Awaits(stack, stat, e) THEN 1 ELSE 0

\* Without an updateStatus nothing is tested.
LEMMA NothingAwaited ==
  ASSUME NEW s, NoStatus(s)
  PROVE  OneStatus(s) /\ \A bits, e : ~Awaits(s, bits, e)
BY DEF NoStatus, OneStatus, Awaits

\* No call is suspended: nothing is tested.
LEMMA EmptyStack == NoStatus(<<>>)
<1>1. 1 .. Len(<<>>) = {}
  BY EmptySeq
<1>2. QED
  BY <1>1 DEF NoStatus

\* A blend tests nothing.
LEMMA BlendAwaits ==
  ASSUME NEW s \in Seq(Frames), NEW idx \in 0 .. NDisplay - 1
  PROVE  LET t == Push(s, "set_display", idx)
         IN  /\ NoStatus(s) => NoStatus(t)
             /\ OneStatus(s) => OneStatus(t)
             /\ \A bits, e : Awaits(t, bits, e) <=> Awaits(s, bits, e)
<1> DEFINE t == Push(s, "set_display", idx)
<1>1. [fn |-> "set_display", arg |-> idx] \in Frames
  BY DEF Frames
<1>2. /\ Len(t) = Len(s) + 1 /\ Len(s) \in Nat
      /\ \A i \in 1 .. Len(s) : t[i] = s[i]
      /\ t[Len(s) + 1].fn = "set_display"
  BY <1>1, PushFacts, LenProperties
<1> HIDE DEF t
<1>3. \A i \in 1 .. Len(t) : t[i].fn = "updateStatus" => i \in 1 .. Len(s) /\ t[i] = s[i]
  BY <1>2
<1>4. \A i \in 1 .. Len(s) : i \in 1 .. Len(t) /\ t[i] = s[i]
  BY <1>2
<1>5. NoStatus(s) => NoStatus(t)
  BY <1>3 DEF NoStatus
<1>6. OneStatus(s) => OneStatus(t)
  BY <1>3 DEF OneStatus
<1>7. \A bits, e : Awaits(t, bits, e) <=> Awaits(s, bits, e)
  BY <1>3, <1>4 DEF Awaits
<1>8. QED
  BY <1>5, <1>6, <1>7 DEF t

\* An updateStatus where there was none is the only one.
LEMMA StatusAwaits ==
  ASSUME NEW s \in Seq(Frames), NoStatus(s), NEW n \in 1 .. 7
  PROVE  LET t == Push(s, "updateStatus", n)
         IN  /\ OneStatus(t)
             /\ \A bits, e : Awaits(t, bits, e) <=> e \in bits /\ Position[e] >= n
<1> DEFINE t == Push(s, "updateStatus", n)
<1>1. [fn |-> "updateStatus", arg |-> n] \in Frames
  BY DEF Frames
<1>2. /\ Len(t) = Len(s) + 1 /\ Len(s) \in Nat
      /\ \A i \in 1 .. Len(s) : t[i] = s[i]
      /\ t[Len(s) + 1].fn = "updateStatus" /\ t[Len(s) + 1].arg = n
  BY <1>1, PushFacts, LenProperties
<1> HIDE DEF t
<1>3. \A i \in 1 .. Len(t) : t[i].fn = "updateStatus" => i = Len(s) + 1
  BY <1>2 DEF NoStatus
<1>4. Len(s) + 1 \in 1 .. Len(t)
  BY <1>2
<1>5. OneStatus(t)
  BY <1>3 DEF OneStatus
<1>6. \A bits, e : Awaits(t, bits, e) <=> e \in bits /\ Position[e] >= n
  BY <1>2, <1>3, <1>4 DEF Awaits
<1>7. QED
  BY <1>5, <1>6 DEF t

\* A blend that returns leaves the same tests to be made.
LEMMA RestAwaits ==
  ASSUME TypeOK, stack # <<>>, OneStatus(stack)
  PROVE  /\ Top.fn = "set_display" =>
              /\ OneStatus(Rest)
              /\ \A bits, e : Awaits(Rest, bits, e) <=> Awaits(stack, bits, e)
         /\ Top.fn = "updateStatus" =>
              /\ NoStatus(Rest)
              /\ \A bits, e : Awaits(stack, bits, e) <=> e \in bits /\ Position[e] >= Top.arg
<1>1. /\ Len(stack) \in Nat \ {0} /\ Len(Rest) = Len(stack) - 1
      /\ \A i \in 1 .. Len(Rest) : i \in 1 .. Len(stack) /\ Rest[i] = stack[i]
  <2>1. stack \in Seq(Frames)
    BY DEF TypeOK
  <2>2. /\ Len(stack) \in Nat \ {0} /\ Len(Rest) = Len(stack) - 1
        /\ \A i \in 1 .. Len(stack) - 1 : Rest[i] = stack[i]
    BY <2>1, RestFacts
  <2>3. QED
    BY <2>2
<1>2. \A i \in 1 .. Len(stack) : i \in 1 .. Len(Rest) \/ i = Len(stack)
  BY <1>1
<1>3. Len(stack) \in 1 .. Len(stack) /\ Len(stack) \notin 1 .. Len(Rest)
  BY <1>1
<1>4. ASSUME Top.fn = "set_display"
      PROVE  /\ OneStatus(Rest)
             /\ \A bits, e : Awaits(Rest, bits, e) <=> Awaits(stack, bits, e)
  <2>1. OneStatus(Rest)
    BY <1>1 DEF OneStatus
  <2>2. \A i \in 1 .. Len(stack) : stack[i].fn = "updateStatus" => i \in 1 .. Len(Rest)
    BY <1>2, <1>4 DEF Top
  <2>3. QED
    BY <1>1, <2>1, <2>2 DEF Awaits
<1>5. ASSUME Top.fn = "updateStatus"
      PROVE  /\ NoStatus(Rest)
             /\ \A bits, e : Awaits(stack, bits, e) <=> e \in bits /\ Position[e] >= Top.arg
  <2>1. \A i \in 1 .. Len(stack) : stack[i].fn = "updateStatus" => i = Len(stack)
    BY <1>3, <1>5 DEF OneStatus, Top
  <2>2. NoStatus(Rest)
    BY <1>1, <1>3, <2>1 DEF NoStatus
  <2>3. QED
    BY <1>3, <1>5, <2>1, <2>2 DEF Awaits, Top
<1>6. QED
  BY <1>4, <1>5

\* A callback takes its own event from those that are awaited, and no other.
LEMMA CallbackAwaits ==
  ASSUME TypeOK, HandledInStep, NEW e \in Events, Calls(e),
         \/ stack' = Resumed(e)
         \/ \E idx \in 0 .. NDisplay - 1 : stack' = Push(Resumed(e), "set_display", idx)
  PROVE  HandledInStep'
<1>1. /\ Tests(e) /\ stat' = stat /\ owed' = [owed EXCEPT ![e] = @ - 1]
      /\ owed \in [Events -> Int]
  BY DEF Calls, navkey, TypeOK
<1>2. stack # <<>> /\ Top.fn = "updateStatus" /\ stack \in Seq(Frames)
  BY <1>1 DEF Tests, Testing, TypeOK
<1>3. /\ NoStatus(Rest) /\ Rest \in Seq(Frames) /\ Top.arg \in 1 .. 7
      /\ \A f : Awaits(stack, stat, f) <=> f \in stat /\ Position[f] >= Top.arg
  <2>1. Top \in Frames /\ Rest \in Seq(Frames)
    BY <1>2, RestFacts
  <2>2. Top.arg \in 1 .. 7
    BY <1>2, <2>1 DEF Frames
  <2>3. QED
    BY <1>2, <2>1, <2>2, RestAwaits DEF HandledInStep
<1>4. Position[e] + 1 \in 1 .. 7
  BY DEF Position, Events
<1>5. /\ OneStatus(Resumed(e)) /\ Resumed(e) \in Seq(Frames)
      /\ \A f : Awaits(Resumed(e), stat, f) <=> f \in stat /\ Position[f] >= Position[e] + 1
  BY <1>1, <1>3, <1>4, StatusAwaits, ResumedFacts DEF Resumed
<1>6. /\ OneStatus(stack')
      /\ \A f : Awaits(stack', stat, f) <=> f \in stat /\ Position[f] >= Position[e] + 1
  <2>1. CASE stack' = Resumed(e)
    BY <1>5, <2>1
  <2>2. ASSUME NEW idx \in 0 .. NDisplay - 1, stack' = Push(Resumed(e), "set_display", idx)
        PROVE  /\ OneStatus(stack')
               /\ \A f : Awaits(stack', stat, f) <=> Awaits(Resumed(e), stat, f)
    BY <1>5, <2>2, BlendAwaits
  <2>3. QED
    BY <1>5, <2>1, <2>2
<1>7. ASSUME NEW f \in Events
      PROVE  owed'[f] = IF Awaits(stack', stat, f) THEN 1 ELSE 0
  <2>1. owed[f] = IF f \in stat /\ Position[f] >= Top.arg THEN 1 ELSE 0
    BY <1>3 DEF HandledInStep
  <2>2. CASE f = e
    <3>1. e \in stat /\ Position[e] >= Top.arg /\ ~(Position[e] >= Position[e] + 1)
      BY <1>1 DEF Tests, Remaining, Position, Events
    <3>2. owed'[e] = owed[e] - 1
      BY <1>1
    <3>3. QED
      BY <1>6, <2>1, <2>2, <3>1, <3>2
  <2>3. CASE f # e
    <3>1. owed'[f] = owed[f]
      BY <1>1, <2>3
    <3>2. f \in stat => (Position[f] >= Top.arg <=> Position[f] >= Position[e] + 1)
      <4>1. /\ e \in stat /\ Position[e] >= Top.arg
            /\ (f \in stat /\ Position[f] >= Top.arg) => Position[e] <= Position[f]
        BY <1>1 DEF Tests, Remaining
      <4>2. Position[f] # Position[e] /\ Position[f] \in 1 .. 6 /\ Position[e] \in 1 .. 6
        BY <2>3 DEF Position, Events
      <4>3. QED
        BY <1>3, <4>1, <4>2
    <3>3. QED
      BY <1>6, <2>1, <3>1, <3>2
  <2>4. QED
    BY <2>2, <2>3
<1>8. QED
  BY <1>1, <1>6, <1>7 DEF HandledInStep

\* A step that keeps the calls, the bits and the debts keeps what is awaited.
LEMMA AwaitsKept ==
  ASSUME HandledInStep, stack' = stack, stat' = stat, owed' = owed
  PROVE  HandledInStep'
BY DEF HandledInStep

\* Every step but a read inside a handler keeps events and handlers in step.
LEMMA HandledStep ==
  ASSUME TypeInv, HandledInStep, Next
  PROVE  HandledInStep' \/ (ReadStatus /\ ~NoStatus(stack))
<1> TypeOK /\ config \in Settings /\ stack \in Seq(Frames) /\ owed \in [Events -> Int]
  BY DEF TypeInv, TypeOK
<1>1. CASE PowerLoss \/ FactoryReset \/ PrintTimeFaults \/ SelectionFaults
  <2>1. stack' = <<>> /\ owed' = [e \in Events |-> 0]
    BY <1>1 DEF PowerLoss, FactoryReset, PrintTimeFaults, SelectionFaults, Reset
  <2>2. QED
    BY <2>1, EmptyStack, NothingAwaited DEF HandledInStep
<1>2. CASE StartDisplay
  <2> DEFINE idx == StartSettings.display_idx % NDisplay
  <2>1. /\ SetDisplay(idx, StartSettings, <<>>) /\ stack = <<>>
        /\ stat' = stat /\ owed' = owed
    BY <1>2 DEF StartDisplay, Starting, navkey
  <2>2. idx \in 0 .. NDisplay - 1
    BY StartIndex
  <2>3. stack' = stack \/ stack' = Push(stack, "set_display", idx)
    BY <2>1 DEF SetDisplay
  <2> HIDE DEF idx
  <2>4. NoStatus(stack')
    BY <2>1, <2>2, <2>3, EmptyStack, BlendAwaits
  <2>5. NoStatus(stack)
    BY <2>1, EmptyStack
  <2>6. QED
    BY <2>1, <2>4, <2>5, NothingAwaited DEF HandledInStep
<1>3. CASE SetDisplayReturns
  <2>1. /\ stack # <<>> /\ Top.fn = "set_display" /\ stack' = Rest
        /\ stat' = stat /\ owed' = owed
    BY <1>3 DEF SetDisplayReturns, navkey, history
  <2>2. /\ OneStatus(Rest)
        /\ \A bits, e : Awaits(Rest, bits, e) <=> Awaits(stack, bits, e)
    BY <2>1, RestAwaits DEF HandledInStep
  <2>3. QED
    BY <2>1, <2>2 DEF HandledInStep
<1>4. CASE StatusReturns
  <2>1. /\ stack # <<>> /\ Top.fn = "updateStatus" /\ Remaining = {} /\ stack' = Rest
        /\ stat' = stat /\ owed' = owed
    BY <1>4 DEF StatusReturns, Testing, navkey, history
  <2>2. /\ NoStatus(Rest)
        /\ \A bits, e : Awaits(stack, bits, e) <=> e \in bits /\ Position[e] >= Top.arg
    BY <2>1, RestAwaits DEF HandledInStep
  <2>3. \A e : ~Awaits(stack, stat, e)
    BY <2>1, <2>2 DEF Remaining
  <2>4. QED
    BY <2>1, <2>2, <2>3, NothingAwaited DEF HandledInStep
<1>5. CASE UpPressed \/ DownPressed
  <2>1. PICK idx \in 0 .. NDisplay - 1, e \in Events :
          Calls(e) /\ SetDisplay(idx, config, Resumed(e))
    BY <1>5, SelectionRange DEF UpPressed, DownPressed, Events
  <2>2. stack' = Resumed(e) \/ stack' = Push(Resumed(e), "set_display", idx)
    BY <2>1 DEF SetDisplay
  <2>3. QED
    BY <2>1, <2>2, CallbackAwaits
<1>6. CASE RightPressed \/ LeftPressed \/ CentralPressed \/ EncoderRotate
  <2>1. PICK e \in Events : Calls(e) /\ stack' = Resumed(e)
    BY <1>6 DEF RightPressed, LeftPressed, CentralPressed, EncoderRotate, Events
  <2>2. QED
    BY <2>1, CallbackAwaits
<1>7. ASSUME ReadStatus, NoStatus(stack)
      PROVE  HandledInStep'
  <2>1. /\ stack' = Push(stack, "updateStatus", 1) /\ stat' = pressed
        /\ owed' = [e \in Events |-> IF e \in pressed THEN owed[e] + 1 ELSE owed[e]]
    BY <1>7 DEF ReadStatus
  <2>2. /\ OneStatus(stack')
        /\ \A bits, e : Awaits(stack', bits, e) <=> e \in bits /\ Position[e] >= 1
    BY <1>7, <2>1, StatusAwaits
  <2>3. ASSUME NEW e \in Events
        PROVE  owed'[e] = IF Awaits(stack', stat', e) THEN 1 ELSE 0
    <3>1. owed[e] = 0
      BY <1>7, NothingAwaited DEF HandledInStep
    <3>2. Position[e] >= 1
      BY DEF Position, Events
    <3>3. QED
      BY <2>1, <2>2, <3>1, <3>2
  <2>4. QED
    BY <2>2, <2>3 DEF HandledInStep
<1>8. CASE PowerOn \/ \E e \in Events : Press(e)
  BY <1>8, AwaitsKept DEF PowerOn, Press, navkey, history
<1>9. CASE Message
  BY <1>9, AwaitsKept DEF Message, MessagePrevDisplay, MessageNextDisplay,
     MessageMovesDisplay, MessageBrighter, MessageDimmer, MessageSetColor,
     MessageSetTime, MessageUseNtp, Receiving, navkey
<1>10. QED
  BY <1>1, <1>2, <1>3, <1>4, <1>5, <1>6, <1>7, <1>8, <1>9 DEF Next, Progress, Callback

\* In step, no event is lost.
LEMMA InStepLosesNone ==
  ASSUME HandledInStep
  PROVE  NoEventLost
<1> SUFFICES ASSUME stack = <<>>, NEW e \in Events PROVE owed[e] <= 0
  BY DEF NoEventLost
<1>1. ~Awaits(stack, stat, e)
  BY EmptyStack, NothingAwaited
<1>2. QED
  BY <1>1 DEF HandledInStep

\* Events and handlers are in step in the factory, and while they are each event
\* that was read is handled exactly once.  Nothing ends it but a read inside a
\* handler that some other read has called: only such a read loses or repeats an
\* event.
THEOREM OnlyNestedReadsLose ==
  Spec => /\ HandledInStep
          /\ [](HandledInStep => NoEventLost)
          /\ [][HandledInStep => HandledInStep' \/ (ReadStatus /\ ~NoStatus(stack))]_vars
<1>1. Init => HandledInStep
  <2> SUFFICES ASSUME Init PROVE HandledInStep
    OBVIOUS
  <2>1. stack = <<>> /\ owed = [e \in Events |-> 0]
    BY DEF Init
  <2>2. QED
    BY <2>1, EmptyStack, NothingAwaited DEF HandledInStep
<1>2. HandledInStep => NoEventLost
  BY InStepLosesNone
<1>3. TypeInv /\ [Next]_vars
        => [HandledInStep => HandledInStep' \/ (ReadStatus /\ ~NoStatus(stack))]_vars
  BY HandledStep
<1>4. QED
  BY <1>1, <1>2, <1>3, TypeInvariant, PTL DEF Spec

\* If no display blended, nothing would poll inside a handler and what the driver
\* promises would hold: every event it read is handed to its callback.
COROLLARY NoEventLostWithoutBlends ==
  ASSUME Blending = {}
  PROVE  Spec => []NoEventLost
<1> DEFINE NoBlend == \A i \in 1 .. Len(stack) : stack[i].fn # "set_display"
<1>1. Init => NoBlend /\ HandledInStep
  <2> SUFFICES ASSUME Init PROVE NoBlend /\ HandledInStep
    OBVIOUS
  <2>1. stack = <<>> /\ owed = [e \in Events |-> 0] /\ Len(<<>>) = 0
    BY EmptySeq DEF Init
  <2>2. QED
    BY <2>1, EmptyStack, NothingAwaited DEF HandledInStep
<1>2. ASSUME TypeInv, NoBlend, Next
      PROVE  NoBlend' /\ ~(ReadStatus /\ ~NoStatus(stack))
  <2> TypeOK /\ stack \in Seq(Frames)
    BY <1>2 DEF TypeInv, TypeOK
  <2>1. ASSUME NEW s \in Seq(Frames), NEW n \in 1 .. 7,
               \A i \in 1 .. Len(s) : s[i].fn # "set_display",
               stack' = Push(s, "updateStatus", n)
        PROVE  NoBlend'
    <3>1. [fn |-> "updateStatus", arg |-> n] \in Frames
      BY DEF Frames
    <3>2. /\ Len(stack') = Len(s) + 1 /\ Len(s) \in Nat
          /\ \A i \in 1 .. Len(s) : stack'[i] = s[i]
          /\ stack'[Len(s) + 1].fn = "updateStatus"
      BY <2>1, <3>1, PushFacts, LenProperties
    <3>3. \A i \in 1 .. Len(stack') : i \in 1 .. Len(s) \/ i = Len(s) + 1
      BY <3>2
    <3>4. QED
      BY <2>1, <3>2, <3>3
  <2>2. ASSUME stack # <<>>
        PROVE  /\ Rest \in Seq(Frames) /\ Top.fn = "updateStatus"
               /\ \A i \in 1 .. Len(Rest) : Rest[i].fn # "set_display"
    <3>1. /\ Rest \in Seq(Frames) /\ Len(Rest) = Len(stack) - 1 /\ Top \in Frames
          /\ \A i \in 1 .. Len(stack) - 1 : Rest[i] = stack[i] /\ Len(stack) \in Nat \ {0}
      BY <2>2, RestFacts
    <3>2. Len(stack) \in Nat \ {0}
      BY <2>2, RestFacts
    <3>3. Top.fn # "set_display"
      BY <1>2, <3>2 DEF Top
    <3>4. Top.fn = "updateStatus"
      BY <3>1, <3>3 DEF Frames
    <3>5. QED
      BY <1>2, <3>1, <3>2, <3>4
  <2>3. ASSUME stack' = stack
        PROVE  NoBlend'
    BY <1>2, <2>3
  <2>4. ASSUME stack' = <<>>
        PROVE  NoBlend'
    <3>1. 1 .. Len(stack') = {}
      BY <2>4, EmptySeq
    <3>2. QED
      BY <3>1
  <2>5. ASSUME stack # <<>>, stack' = Rest
        PROVE  NoBlend'
    BY <2>2, <2>5
  <2>6. ASSUME NEW e \in Events, Tests(e), stack' = Resumed(e)
        PROVE  NoBlend'
    <3>1. Position[e] + 1 \in 1 .. 7 /\ stack # <<>>
      BY <2>6 DEF Position, Events, Tests, Testing
    <3>2. QED
      BY <2>1, <2>2, <2>6, <3>1 DEF Resumed
  <2>7. ReadStatus => NoBlend' /\ NoStatus(stack)
    <3> SUFFICES ASSUME ReadStatus PROVE NoBlend' /\ NoStatus(stack)
      OBVIOUS
    <3>1. stack = <<>>
      BY <2>2 DEF ReadStatus, Polling
    <3>2. stack' = Push(stack, "updateStatus", 1)
      BY DEF ReadStatus
    <3>3. NoStatus(stack)
      BY <3>1, EmptyStack
    <3>4. NoBlend'
      BY <1>2, <2>1, <3>2
    <3>5. QED
      BY <3>3, <3>4
  <2>8. NoBlend'
    <3>1. CASE PowerLoss \/ FactoryReset \/ PrintTimeFaults \/ SelectionFaults
      BY <2>4, <3>1 DEF PowerLoss, FactoryReset, PrintTimeFaults, SelectionFaults, Reset
    <3>2. CASE StartDisplay
      BY <2>4, <3>2 DEF StartDisplay, SetDisplay
    <3>3. CASE SetDisplayReturns \/ StatusReturns
      BY <2>5, <3>3 DEF SetDisplayReturns, StatusReturns, Testing
    <3>4. CASE Callback
      <4>1. PICK e \in Events : Tests(e) /\ stack' = Resumed(e)
        BY <3>4 DEF Callback, UpPressed, DownPressed, SetDisplay, RightPressed,
           LeftPressed, CentralPressed, EncoderRotate, Calls, Events
      <4>2. QED
        BY <2>6, <4>1
    <3>5. CASE ReadStatus
      BY <2>7, <3>5
    <3>6. CASE PowerOn \/ \E e \in Events : Press(e)
      BY <2>3, <3>6 DEF PowerOn, Press
    <3>7. CASE Message
      BY <2>3, <3>7 DEF Message, MessagePrevDisplay, MessageNextDisplay,
         MessageMovesDisplay, MessageBrighter, MessageDimmer, MessageSetColor,
         MessageSetTime, MessageUseNtp, Receiving
    <3>8. QED
      BY <1>2, <3>1, <3>2, <3>3, <3>4, <3>5, <3>6, <3>7 DEF Next, Progress
  <2>9. QED
    BY <2>7, <2>8
<1>3. TypeInv /\ NoBlend /\ HandledInStep /\ [Next]_vars => (NoBlend /\ HandledInStep)'
  <2>1. ASSUME UNCHANGED vars, NoBlend, HandledInStep PROVE (NoBlend /\ HandledInStep)'
    BY <2>1, AwaitsKept DEF vars
  <2>2. QED
    BY <1>2, <2>1, HandledStep
<1>4. NoBlend /\ HandledInStep => NoEventLost
  BY InStepLosesNone
<1> HIDE DEF NoBlend
<1>5. QED
  BY <1>1, <1>3, <1>4, TypeInvariant, PTL DEF Spec

=============================================================================
