------------------------- MODULE NtpRequest_proofs -------------------------
(***************************************************************************)
(* What the requests for the time do, for every duration, every interval   *)
(* and every number of answers on their way.                               *)
(*                                                                         *)
(* The inductive invariant: types, and no more unread answers than         *)
(* requests that were given up (and the pending one).  That the board is   *)
(* in step with its answers is no invariant: what is proved is which step  *)
(* ends it, from any state in which it holds.                              *)
(***************************************************************************)
EXTENDS NtpRequest, SequenceTheorems, TLAPS

USE DEF AgeWhenSet

IInv == TypeOK /\ Unread <= MaxAnswers /\ NoMoreThanGivenUp

-----------------------------------------------------------------------------
(* Sequences of answers. *)

\* Removing one element keeps the rest.
LEMMA RemoveAtType ==
  ASSUME NEW S, NEW s \in Seq(S), NEW i \in DOMAIN s
  PROVE  RemoveAt(s, i) \in Seq(S) /\ Len(RemoveAt(s, i)) = Len(s) - 1
<1>1. Len(s) \in Nat /\ i \in 1..Len(s) /\ \A k \in 1..Len(s) : s[k] \in S
  BY LenProperties
<1>2. SubSeq(s, 1, i - 1) \in Seq(S) /\ Len(SubSeq(s, 1, i - 1)) = i - 1
  <2>1. \A k \in 1..(i - 1) : s[k] \in S
    BY <1>1
  <2>2. QED
    BY <1>1, <2>1, SubSeqProperties
<1>3. SubSeq(s, i + 1, Len(s)) \in Seq(S) /\ Len(SubSeq(s, i + 1, Len(s))) = Len(s) - i
  <2>1. \A k \in (i + 1)..Len(s) : s[k] \in S
    BY <1>1
  <2>2. QED
    BY <1>1, <2>1, SubSeqProperties
<1> DEFINE before == SubSeq(s, 1, i - 1)
           after == SubSeq(s, i + 1, Len(s))
<1>4. RemoveAt(s, i) = before \o after
  BY DEF RemoveAt
<1> HIDE DEF before, after
<1>5. /\ before \in Seq(S) /\ Len(before) = i - 1
      /\ after \in Seq(S) /\ Len(after) = Len(s) - i
  BY <1>2, <1>3 DEF before, after
<1>6. before \o after \in Seq(S) /\ Len(before \o after) = Len(before) + Len(after)
  BY <1>5, ConcatProperties
<1>7. QED
  BY <1>1, <1>4, <1>5, <1>6

\* Durations only grow, up to the horizon.
LEMMA LongerType ==
  ASSUME NEW d \in Duration
  PROVE  Longer(d) \in Duration /\ \A e \in Duration : e <= d => Longer(e) <= Longer(d)
BY TimeAssumption DEF Longer, Duration

\* A tick makes every answer older and changes nothing else.
LEMMA OlderType ==
  ASSUME NEW s \in Seq(Answer)
  PROVE  /\ Older(s) \in Seq(Answer) /\ Len(Older(s)) = Len(s)
         /\ \A w \in Duration : s \in Seq(Own(w)) => Older(s) \in Seq(Own(Longer(w)))
<1>1. Len(s) \in Nat /\ DOMAIN s = 1..Len(s) /\ \A i \in 1..Len(s) : s[i] \in Answer
  BY LenProperties
<1>2. ASSUME NEW i \in 1..Len(s)
      PROVE  /\ [s[i] EXCEPT !.lag = Longer(@)] \in Answer
             /\ \A w \in Duration :
                  s[i] \in Own(w) => [s[i] EXCEPT !.lag = Longer(@)] \in Own(Longer(w))
  <2> DEFINE b == [s[i] EXCEPT !.lag = Longer(@)]
  <2>1. s[i] \in Answer /\ s[i].lag \in Duration
    BY <1>1, <1>2 DEF Answer
  <2>2. Longer(s[i].lag) \in Duration
    BY <2>1, LongerType
  <2>3. b \in Answer /\ b.lag = Longer(s[i].lag) /\ b.abandoned = s[i].abandoned
    BY <2>1, <2>2 DEF Answer
  <2>4. ASSUME NEW w \in Duration, s[i] \in Own(w)
        PROVE  b \in Own(Longer(w))
    <3>1. ~s[i].abandoned /\ s[i].lag <= w
      BY <2>4 DEF Own
    <3>2. Longer(s[i].lag) <= Longer(w)
      BY <2>1, <2>4, <3>1, LongerType
    <3> HIDE DEF b
    <3>3. QED
      BY <2>3, <3>1, <3>2 DEF Own
  <2>5. QED
    BY <2>3, <2>4
<1>3. Older(s) = [i \in 1..Len(s) |-> [s[i] EXCEPT !.lag = Longer(@)]]
  BY <1>1 DEF Older
<1>4. Older(s) \in [1..Len(s) -> Answer]
  BY <1>2, <1>3
<1>5. ASSUME NEW w \in Duration, s \in Seq(Own(w))
      PROVE  Older(s) \in [1..Len(s) -> Own(Longer(w))]
  <2>1. \A i \in 1..Len(s) : s[i] \in Own(w)
    BY <1>5, LenProperties
  <2>2. QED
    BY <1>2, <1>3, <1>5, <2>1
<1>6. QED
  BY <1>1, <1>4, <1>5

\* Abandoning changes neither the number nor the type of answers.
LEMMA AbandonType ==
  ASSUME NEW s \in Seq(Answer)
  PROVE  Abandon(s) \in Seq(Answer) /\ Len(Abandon(s)) = Len(s)
<1>1. Len(s) \in Nat /\ DOMAIN s = 1..Len(s) /\ \A i \in 1..Len(s) : s[i] \in Answer
  BY LenProperties
<1>2. \A i \in 1..Len(s) : [s[i] EXCEPT !.abandoned = TRUE] \in Answer
  BY <1>1 DEF Answer
<1>3. Abandon(s) \in [1..Len(s) -> Answer]
  BY <1>1, <1>2 DEF Abandon
<1>4. QED
  BY <1>1, <1>3

\* A sequence without elements is a sequence of anything.
LEMMA NoAnswers ==
  ASSUME NEW s \in Seq(Answer), Len(s) = 0, NEW S
  PROVE  s \in Seq(S)
BY EmptySeq, LenProperties

\* The lengths are numbers.
LEMMA Lengths ==
  ASSUME IInv
  PROVE  /\ Len(network) \in Nat /\ Len(inbox) \in Nat /\ Unread = Len(network) + Len(inbox)
         /\ given_up \in Nat /\ given_up <= MaxAnswers /\ MaxAnswers \in Nat
         /\ waited \in Duration
BY LenProperties, TimeAssumption DEF IInv, TypeOK, Unread

-----------------------------------------------------------------------------
(* The steps. *)

\* A request is sent when none is pending.
LEMMA SendRequestStep ==
  ASSUME IInv, SendRequest
  PROVE  IInv'
<1> DEFINE new == [lag |-> 0, abandoned |-> FALSE]
<1>1. new \in Answer /\ new \in Own(0) /\ 0 \in Duration
  BY TimeAssumption DEF Answer, Own, Duration
<1>2. /\ network \in Seq(Answer) /\ inbox \in Seq(Answer)
      /\ inbox' = inbox /\ given_up' = given_up /\ waited' = 0
      /\ ntp_pending' = TRUE /\ ntp_pending = FALSE
  BY DEF IInv, TypeOK, SendRequest, MaySend
<1>3. Unread <= given_up
  <2>1. (IF ntp_pending THEN 1 ELSE 0) = 0
    BY <1>2
  <2>2. Unread <= given_up + (IF ntp_pending THEN 1 ELSE 0)
    BY DEF IInv, NoMoreThanGivenUp
  <2>3. given_up + 0 = given_up
    BY Lengths
  <2>4. QED
    BY <2>1, <2>2, <2>3, Zenon
<1>4. \/ network' = network
      \/ network' = Append(network, new) /\ Unread < MaxAnswers
  BY DEF SendRequest
<1> HIDE DEF new
<1>5. /\ network' \in Seq(Answer) /\ Len(network') \in Nat
      /\ Len(network') <= Len(network) + 1
      /\ Len(network') + Len(inbox) <= MaxAnswers
  <2>1. CASE network' = network
    BY <1>2, <2>1, Lengths DEF IInv
  <2>2. CASE network' = Append(network, new) /\ Unread < MaxAnswers
    BY <1>1, <1>2, <2>2, Lengths, AppendProperties
  <2>3. QED
    BY <1>4, <2>1, <2>2
<1>6. TypeOK'
  BY <1>1, <1>2, <1>5 DEF IInv, TypeOK, SendRequest
<1>7. (Unread <= MaxAnswers)' /\ NoMoreThanGivenUp'
  BY <1>2, <1>3, <1>5, Lengths DEF Unread, NoMoreThanGivenUp
<1>8. QED
  BY <1>6, <1>7 DEF IInv

\* The answer taken is gone from the socket.
LEMMA UseAnswerStep ==
  ASSUME IInv, UseAnswer
  PROVE  IInv'
<1>1. /\ network \in Seq(Answer) /\ inbox \in Seq(Answer) /\ inbox # <<>>
      /\ given_up' = given_up /\ waited' = waited
      /\ network' = Abandon(network) /\ inbox' = Abandon(Tail(inbox))
      /\ error' = Head(inbox).lag
  BY DEF IInv, TypeOK, UseAnswer, Taken
<1>2. ntp_pending' = FALSE /\ ntp_pending = TRUE
  BY DEF IInv, TypeOK, UseAnswer
<1>3. Head(inbox) \in Answer /\ Tail(inbox) \in Seq(Answer) /\ Len(Tail(inbox)) = Len(inbox) - 1
  BY <1>1, HeadTailProperties
<1>4. /\ network' \in Seq(Answer) /\ Len(network') = Len(network)
      /\ inbox' \in Seq(Answer) /\ Len(inbox') = Len(inbox) - 1
  BY <1>1, <1>3, AbandonType
<1>5. Unread <= given_up + 1
  BY <1>2 DEF IInv, NoMoreThanGivenUp
<1>6. TypeOK'
  <2>1. error' \in Duration
    BY <1>1, <1>3 DEF Answer
  <2>2. age' \in Duration /\ clock_initialized' \in BOOLEAN
    BY TimeAssumption DEF UseAnswer, Duration
  <2>3. QED
    BY <1>1, <1>2, <1>4, <2>1, <2>2 DEF IInv, TypeOK, UseAnswer
<1>7. (Unread <= MaxAnswers)' /\ NoMoreThanGivenUp'
  <2>1. Len(network') + Len(inbox') = Unread - 1
    BY <1>4, Lengths
  <2>2. Unread <= MaxAnswers
    BY DEF IInv
  <2>3. QED
    BY <1>1, <1>2, <1>5, <2>1, <2>2, Lengths DEF Unread, NoMoreThanGivenUp
<1>8. QED
  BY <1>6, <1>7 DEF IInv

\* A request given up counts for the answer that may still come.
LEMMA CheckInVainStep ==
  ASSUME IInv, CheckInVain
  PROVE  IInv'
<1>1. /\ network \in Seq(Answer) /\ inbox' = inbox /\ waited' = waited
      /\ network' = Abandon(network)
      /\ given_up' = IF given_up < MaxAnswers THEN given_up + 1 ELSE given_up
  BY DEF IInv, TypeOK, CheckInVain
<1>2. ntp_pending' = FALSE /\ ntp_pending = TRUE
  BY DEF IInv, TypeOK, CheckInVain
<1>3. network' \in Seq(Answer) /\ Len(network') = Len(network)
  BY <1>1, AbandonType
<1>4. Unread <= given_up + 1 /\ Unread <= MaxAnswers
  BY <1>2 DEF IInv, NoMoreThanGivenUp
<1>5. given_up' \in 0..MaxAnswers
  BY <1>1, Lengths
<1>6. TypeOK'
  BY <1>2, <1>3, <1>5 DEF IInv, TypeOK, CheckInVain
<1>7. (Unread <= MaxAnswers)' /\ NoMoreThanGivenUp'
  BY <1>1, <1>2, <1>3, <1>4, Lengths DEF Unread, NoMoreThanGivenUp
<1>8. QED
  BY <1>6, <1>7 DEF IInv

\* The network moves and drops answers; it makes none.
LEMMA NetworkStep ==
  ASSUME IInv, Deliver \/ Lose
  PROVE  IInv'
<1>1. /\ network \in Seq(Answer) /\ inbox \in Seq(Answer)
      /\ given_up' = given_up /\ waited' = waited
  BY DEF IInv, TypeOK, Deliver, Lose
<1>2. ntp_pending' = ntp_pending
  BY DEF Deliver, Lose
<1>3. PICK i \in DOMAIN network :
        /\ network' = RemoveAt(network, i)
        /\ inbox' \in {inbox, Append(inbox, network[i])}
  BY DEF Deliver, Lose
<1>4. ASSUME NEW S, network \in Seq(S), inbox \in Seq(S)
      PROVE  /\ network' \in Seq(S) /\ Len(network') = Len(network) - 1
             /\ inbox' \in Seq(S) /\ Len(inbox') <= Len(inbox) + 1 /\ Len(inbox') \in Nat
  <2>1. network[i] \in S
    BY <1>3, <1>4, LenProperties
  <2>2. Append(inbox, network[i]) \in Seq(S) /\ Len(Append(inbox, network[i])) = Len(inbox) + 1
    BY <1>4, <2>1, AppendProperties
  <2>3. RemoveAt(network, i) \in Seq(S) /\ Len(RemoveAt(network, i)) = Len(network) - 1
    BY <1>3, <1>4, RemoveAtType
  <2>4. Len(inbox) \in Nat
    BY <1>4, LenProperties
  <2>5. QED
    BY <1>3, <1>4, <2>2, <2>3, <2>4
<1>5. /\ network' \in Seq(Answer) /\ inbox' \in Seq(Answer)
      /\ Len(network') = Len(network) - 1 /\ Len(inbox') <= Len(inbox) + 1 /\ Len(inbox') \in Nat
  BY <1>1, <1>4
<1>6. TypeOK'
  BY <1>1, <1>2, <1>5 DEF IInv, TypeOK, Deliver, Lose
<1>7. (Unread <= MaxAnswers)' /\ NoMoreThanGivenUp'
  <2>1. Len(network') + Len(inbox') <= Unread
    BY <1>5, Lengths
  <2>2. Unread' <= Unread /\ Unread' \in Int /\ Unread \in Int
    BY <1>5, <2>1, Lengths DEF Unread
  <2>3. Unread <= MaxAnswers
    BY DEF IInv
  <2>4. CASE ntp_pending
    BY <1>1, <1>2, <2>2, <2>3, <2>4, Lengths DEF IInv, NoMoreThanGivenUp
  <2>5. CASE ~ntp_pending
    BY <1>1, <1>2, <2>2, <2>3, <2>5, Lengths DEF IInv, NoMoreThanGivenUp
  <2>6. QED
    BY <2>4, <2>5
<1>8. QED
  BY <1>6, <1>7 DEF IInv

\* A tick makes the answers older and leaves their number.
LEMMA TickStep ==
  ASSUME IInv, Tick
  PROVE  IInv'
<1>1. /\ network \in Seq(Answer) /\ inbox \in Seq(Answer)
      /\ network' = Older(network) /\ inbox' = Older(inbox)
      /\ given_up' = given_up /\ waited' = Longer(waited) /\ waited \in Duration
  BY DEF IInv, TypeOK, Tick
<1>2. ntp_pending' = ntp_pending
  BY DEF Tick
<1>3. /\ network' \in Seq(Answer) /\ Len(network') = Len(network)
      /\ inbox' \in Seq(Answer) /\ Len(inbox') = Len(inbox)
  BY <1>1, OlderType
<1>4. TypeOK'
  <2>1. waited' \in Duration /\ age' \in Duration
    BY LongerType DEF IInv, TypeOK, Tick
  <2>2. QED
    BY <1>2, <1>3, <2>1 DEF IInv, TypeOK, Tick
<1>5. Unread' = Unread
  BY <1>3 DEF Unread
<1>6. (Unread <= MaxAnswers)' /\ NoMoreThanGivenUp'
  BY <1>1, <1>2, <1>5 DEF IInv, NoMoreThanGivenUp
<1>7. QED
  BY <1>4, <1>6 DEF IInv

\* The user changes nothing of this.
LEMMA SetPowerStep ==
  ASSUME IInv, SetPower \/ UNCHANGED vars
  PROVE  IInv'
<1>1. UNCHANGED <<clock_initialized, ntp_pending, waited, age, error, network, inbox, given_up>>
  BY DEF SetPower, vars
<1>2. power' \in BOOLEAN
  BY DEF IInv, TypeOK, SetPower, vars
<1>3. TypeOK'
  BY <1>1, <1>2 DEF IInv, TypeOK
<1>4. Unread' = Unread
  BY <1>1 DEF Unread
<1>5. (Unread <= MaxAnswers)' /\ NoMoreThanGivenUp'
  BY <1>1, <1>4 DEF IInv, NoMoreThanGivenUp
<1>6. QED
  BY <1>3, <1>5 DEF IInv

\* A restart begins with nothing unread, and so does the first start.
LEMMA FreshStart ==
  /\ Init => IInv
  /\ Restart => IInv'
<1>1. /\ 0 \in Duration /\ 0 \in 0..MaxAnswers /\ 0 <= MaxAnswers
      /\ \A S : <<>> \in Seq(S)
      /\ Len(<<>>) = 0
  BY TimeAssumption, EmptySeq DEF Duration
<1>2. ASSUME Init PROVE IInv
  <2>1. TypeOK
    BY <1>1, <1>2 DEF Init, TypeOK
  <2>2. Unread <= MaxAnswers /\ NoMoreThanGivenUp
    BY <1>1, <1>2 DEF Init, Unread, NoMoreThanGivenUp
  <2>3. QED
    BY <2>1, <2>2 DEF IInv
<1>3. ASSUME Restart PROVE IInv'
  <2>1. TypeOK'
    BY <1>1, <1>3 DEF Restart, TypeOK
  <2>2. (Unread <= MaxAnswers)' /\ NoMoreThanGivenUp'
    BY <1>1, <1>3 DEF Restart, Unread, NoMoreThanGivenUp
  <2>3. QED
    BY <2>1, <2>2 DEF IInv
<1>4. QED
  BY <1>2, <1>3

\* The invariant is inductive.
LEMMA Step ==
  ASSUME IInv, [Next]_vars
  PROVE  IInv'
<1>1. CASE SendRequest
  BY <1>1, SendRequestStep
<1>2. CASE UseAnswer
  BY <1>2, UseAnswerStep
<1>3. CASE CheckInVain
  BY <1>3, CheckInVainStep
<1>4. CASE Deliver \/ Lose
  BY <1>4, NetworkStep
<1>5. CASE Tick
  BY <1>5, TickStep
<1>6. CASE SetPower \/ UNCHANGED vars
  BY <1>6, SetPowerStep
<1>7. CASE Restart
  BY <1>7, FreshStart
<1>8. QED
  BY <1>1, <1>2, <1>3, <1>4, <1>5, <1>6, <1>7 DEF Next, requestNTP

-----------------------------------------------------------------------------
(* In step. *)

\* When nothing is left to read the board is in step.
LEMMA NothingUnread ==
  ASSUME NEW s \in Seq(Answer), NEW t \in Seq(Answer), Len(s) + Len(t) <= 0, NEW w
  PROVE  s \in Seq(Own(w)) /\ t \in Seq(Own(w))
<1>1. Len(s) \in Nat /\ Len(t) \in Nat
  BY LenProperties
<1>2. Len(s) = 0 /\ Len(t) = 0
  BY <1>1
<1>3. QED
  BY <1>2, NoAnswers

\* A request is sent when nothing is unread; its answer comes from now.
LEMMA SendKeepsStep ==
  ASSUME IInv, InStep, SendRequest
  PROVE  InStep'
<1> DEFINE new == [lag |-> 0, abandoned |-> FALSE]
<1>1. new \in Own(0)
  BY TimeAssumption DEF Answer, Own, Duration
<1>2. /\ network \in Seq(Answer) /\ inbox \in Seq(Answer)
      /\ inbox' = inbox /\ waited' = 0 /\ ntp_pending' = TRUE /\ ntp_pending = FALSE
  BY DEF IInv, TypeOK, SendRequest, MaySend
<1>3. network' = network \/ network' = Append(network, new)
  BY DEF SendRequest
<1> HIDE DEF new
<1>4. Len(network) + Len(inbox) <= 0
  BY <1>2 DEF InStep, Unread
<1>5. network \in Seq(Own(0)) /\ inbox \in Seq(Own(0))
  BY <1>2, <1>4, NothingUnread
<1>6. network' \in Seq(Own(0)) /\ Len(network') <= Len(network) + 1 /\ Len(network') \in Nat
  BY <1>1, <1>3, <1>5, AppendProperties, LenProperties
<1>7. Len(network') + Len(inbox') <= 1
  BY <1>2, <1>4, <1>6, Lengths
<1>8. QED
  BY <1>2, <1>5, <1>6, <1>7 DEF InStep, Unread

\* The answer taken is the only one, and nothing is left behind it.
LEMMA UseKeepsStep ==
  ASSUME IInv, InStep, UseAnswer
  PROVE  /\ InStep'
         /\ ~Head(inbox).abandoned /\ error' <= waited
<1>1. /\ network \in Seq(Answer) /\ inbox \in Seq(Answer) /\ inbox # <<>>
      /\ network' = Abandon(network) /\ inbox' = Abandon(Tail(inbox))
      /\ ntp_pending' = FALSE /\ ntp_pending = TRUE /\ error' = Head(inbox).lag
  BY DEF IInv, TypeOK, UseAnswer, Taken
<1>2. Tail(inbox) \in Seq(Answer) /\ Len(Tail(inbox)) = Len(inbox) - 1
  BY <1>1, HeadTailProperties
<1>3. /\ network' \in Seq(Answer) /\ Len(network') = Len(network)
      /\ inbox' \in Seq(Answer) /\ Len(inbox') = Len(inbox) - 1
  BY <1>1, <1>2, AbandonType
<1>4. Len(network) + Len(inbox) <= 1
  BY <1>1 DEF InStep, Unread
<1>5. Len(network') + Len(inbox') <= 0
  BY <1>3, <1>4, Lengths
<1>6. network' \in Seq(Own(waited')) /\ inbox' \in Seq(Own(waited'))
  BY <1>3, <1>5, NothingUnread
<1>7. InStep'
  BY <1>1, <1>5, <1>6 DEF InStep, Unread
<1>8. Head(inbox) \in Own(waited)
  BY <1>1, HeadTailProperties DEF InStep
<1>9. QED
  BY <1>1, <1>7, <1>8 DEF Own

\* Giving up a request whose answer was lost leaves nothing unread.
LEMMA VainKeepsStep ==
  ASSUME IInv, InStep, CheckInVain, network = <<>>
  PROVE  InStep'
<1>1. /\ network \in Seq(Answer) /\ inbox \in Seq(Answer) /\ inbox = <<>>
      /\ network' = Abandon(network) /\ inbox' = inbox /\ ntp_pending' = FALSE
  BY DEF IInv, TypeOK, CheckInVain
<1>2. network' \in Seq(Answer) /\ Len(network') = 0 /\ Len(inbox') = 0
  BY <1>1, AbandonType, EmptySeq
<1>3. Len(network') + Len(inbox') <= 0
  BY <1>2
<1>4. network' \in Seq(Own(waited')) /\ inbox' \in Seq(Own(waited'))
  BY <1>1, <1>2, <1>3, NothingUnread
<1>5. QED
  BY <1>1, <1>3, <1>4 DEF InStep, Unread

\* The network moves and drops answers of whatever kind; it makes none.
LEMMA NetworkKeepsStep ==
  ASSUME IInv, InStep, Deliver \/ Lose
  PROVE  InStep'
<1>1. ntp_pending' = ntp_pending /\ waited' = waited
  BY DEF Deliver, Lose
<1>2. network \in Seq(Own(waited)) /\ inbox \in Seq(Own(waited))
  BY DEF InStep
<1>3. PICK i \in DOMAIN network :
        /\ network' = RemoveAt(network, i)
        /\ inbox' \in {inbox, Append(inbox, network[i])}
  BY DEF Deliver, Lose
<1>4. network[i] \in Own(waited)
  BY <1>2, <1>3, LenProperties
<1>5. network' \in Seq(Own(waited)) /\ Len(network') = Len(network) - 1
  BY <1>2, <1>3, RemoveAtType
<1>6. inbox' \in Seq(Own(waited)) /\ Len(inbox') <= Len(inbox) + 1 /\ Len(inbox') \in Nat
  BY <1>2, <1>3, <1>4, AppendProperties, LenProperties
<1>7. Len(network') + Len(inbox') <= Len(network) + Len(inbox)
  BY <1>5, <1>6, Lengths
<1>8. Unread' <= IF ntp_pending' THEN 1 ELSE 0
  <2>1. Unread' <= Unread /\ Unread' \in Int /\ Unread \in Int
    BY <1>5, <1>6, <1>7, Lengths DEF Unread
  <2>2. Unread <= IF ntp_pending THEN 1 ELSE 0
    BY DEF InStep
  <2>3. QED
    BY <1>1, <2>1, <2>2
<1>9. QED
  BY <1>1, <1>5, <1>6, <1>8 DEF InStep

\* Time makes the answers older by as much as the board has waited longer.
LEMMA TickKeepsStep ==
  ASSUME IInv, InStep, Tick
  PROVE  InStep'
<1>1. /\ network \in Seq(Answer) /\ inbox \in Seq(Answer) /\ waited \in Duration
      /\ network' = Older(network) /\ inbox' = Older(inbox)
      /\ waited' = Longer(waited) /\ ntp_pending' = ntp_pending
  BY DEF IInv, TypeOK, Tick
<1>2. /\ network' \in Seq(Own(waited')) /\ Len(network') = Len(network)
      /\ inbox' \in Seq(Own(waited')) /\ Len(inbox') = Len(inbox)
  BY <1>1, OlderType DEF InStep
<1>3. QED
  BY <1>1, <1>2 DEF InStep, Unread

\* One step ends what InStep says, and what it says makes the answer the right one.
LEMMA StepInStep ==
  ASSUME IInv, InStep, [Next]_vars
  PROVE  /\ UseAnswer => ~Head(inbox).abandoned /\ error' <= waited
         /\ InStep' \/ (CheckInVain /\ network # <<>>)
<1>1. CASE SendRequest
  <2>1. ~UseAnswer
    BY <1>1 DEF SendRequest, UseAnswer, MaySend
  <2>2. QED
    BY <1>1, <2>1, SendKeepsStep
<1>2. UseAnswer => InStep' /\ ~Head(inbox).abandoned /\ error' <= waited
  BY UseKeepsStep
<1>3. CASE CheckInVain
  BY <1>2, <1>3, VainKeepsStep
<1>4. CASE Deliver \/ Lose
  BY <1>2, <1>4, NetworkKeepsStep
<1>5. CASE Tick
  BY <1>2, <1>5, TickKeepsStep
<1>6. CASE SetPower \/ UNCHANGED vars
  <2>1. UNCHANGED <<ntp_pending, waited, network, inbox>>
    BY <1>6 DEF SetPower, vars
  <2>2. InStep'
    BY <2>1 DEF InStep, Unread
  <2>3. QED
    BY <1>2, <2>2
<1>7. CASE Restart
  <2>1. network' = <<>> /\ inbox' = <<>> /\ ntp_pending' = FALSE
    BY <1>7 DEF Restart
  <2>2. InStep'
    BY <2>1, EmptySeq DEF InStep, Unread
  <2>3. QED
    BY <1>2, <2>2
<1>8. QED
  BY <1>1, <1>2, <1>3, <1>4, <1>5, <1>6, <1>7 DEF Next, requestNTP

-----------------------------------------------------------------------------
(* The theorems. *)

\* The invariant holds in every state.
LEMMA Invariance == Spec => []IInv
<1>1. Init => IInv
  BY FreshStart
<1>2. IInv /\ [Next]_vars => IInv'
  BY Step
<1>3. QED
  BY <1>1, <1>2, PTL DEF Spec

\* Type correctness of the requests.
THEOREM TypeCorrect == Spec => []TypeOK
<1>1. IInv => TypeOK
  BY DEF IInv
<1>2. QED
  BY <1>1, Invariance, PTL

\* No answer is read twice and no request overtakes another: what is unread
\* belongs to the pending request or to one that was given up.
THEOREM NoMoreThanGivenUpCorrect == Spec => []NoMoreThanGivenUp
<1>1. IInv => NoMoreThanGivenUp
  BY DEF IInv
<1>2. QED
  BY <1>1, Invariance, PTL

\* In step, the clock is never further behind than the board has waited for the
\* answer, whatever the network loses, delays or reorders, and only giving up an
\* answer that is still to come ends it.
THEOREM OwnAnswerIsUsedCorrect == Spec => OwnAnswerIsUsed
<1> DEFINE Used == InStep =>
                     /\ UseAnswer => ~Head(inbox).abandoned /\ error' <= waited
                     /\ InStep' \/ (CheckInVain /\ network # <<>>)
<1>1. IInv /\ [Next]_vars => [Used]_vars
  BY StepInStep
<1>2. QED
  BY <1>1, Invariance, PTL DEF Spec, OwnAnswerIsUsed

\* The board is in step until it gives a request up, and again when the socket has
\* run dry: as soon as nothing is unread, however many requests were given up.
THEOREM InStepAgain == Spec => [](given_up = 0 \/ Unread = 0 => InStep)
<1> DEFINE Patient == given_up = 0 => InStep
<1>1. IInv /\ Unread = 0 => InStep
  <2> SUFFICES ASSUME IInv, Unread = 0 PROVE InStep
    OBVIOUS
  <2>1. network \in Seq(Answer) /\ inbox \in Seq(Answer)
    BY DEF IInv, TypeOK
  <2>2. Len(network) + Len(inbox) <= 0
    BY Lengths
  <2>3. network \in Seq(Own(waited)) /\ inbox \in Seq(Own(waited))
    BY <2>1, <2>2, NothingUnread
  <2>4. QED
    BY <2>3 DEF InStep
<1>2. Init => Patient
  BY <1>1, FreshStart DEF Init, Unread
<1>3. ASSUME IInv, Patient, [Next]_vars, given_up' = 0
      PROVE  InStep'
  <2>1. CASE Restart
    BY <2>1, EmptySeq DEF Restart, InStep, Unread
  <2>2. CASE CheckInVain /\ network # <<>>
    <3>1. Len(network) \in Nat /\ Len(inbox) \in Nat /\ Len(network) # 0
      BY <1>3, <2>2, EmptySeq, LenProperties DEF IInv, TypeOK
    <3>2. MaxAnswers > 0
      BY <1>3, <3>1, TimeAssumption DEF IInv, Unread
    <3>3. given_up' = IF given_up < MaxAnswers THEN given_up + 1 ELSE given_up
      BY <2>2 DEF CheckInVain
    <3>4. QED
      BY <1>3, <3>2, <3>3 DEF IInv, TypeOK
  <2>3. CASE ~Restart /\ ~(CheckInVain /\ network # <<>>)
    <3>1. given_up = 0
      BY <1>3, <2>3 DEF Next, requestNTP, SendRequest, UseAnswer, CheckInVain, Deliver,
         Lose, Tick, SetPower, vars, IInv, TypeOK
    <3>2. QED
      BY <1>3, <2>3, <3>1, StepInStep
  <2>4. QED
    BY <2>1, <2>2, <2>3
<1>4. IInv /\ Patient /\ [Next]_vars => Patient'
  BY <1>3
<1>5. IInv /\ Patient => (given_up = 0 \/ Unread = 0 => InStep)
  BY <1>1
<1> HIDE DEF Patient
<1>6. QED
  BY <1>2, <1>4, <1>5, Invariance, PTL DEF Spec
=============================================================================
