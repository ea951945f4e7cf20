----------------------------- MODULE NtpRequest -----------------------------
(***************************************************************************)
(* How SunRiseClock asks for the time: requestNTP, called at the end of    *)
(* every turn of loop() while the clock is unset or its last update is too *)
(* long ago.  Requests and answers are datagrams: they are lost, overtake  *)
(* each other, or arrive after the board has given them up; one that has   *)
(* arrived stays in the socket until parsePacket takes it.                 *)
(*                                                                         *)
(* Time passes in ticks.  An answer carries the time its request was sent, *)
(* the oldest it can carry: lag is how much older it is by now.  Durations *)
(* stop counting at Horizon.                                               *)
(***************************************************************************)
EXTENDS Integers, Sequences, SequencesExt

CONSTANTS
  GiveUp,     \* ticks a request is waited for: 1000 ms
  Interval,   \* NTP_UPDATE_INTERVAL
  Horizon,    \* bound of the durations
  MaxAnswers  \* bound: answers on their way and in the socket

ASSUME TimeAssumption ==
  /\ GiveUp \in Nat /\ Interval \in Nat /\ Horizon \in Nat /\ MaxAnswers \in Nat
  /\ GiveUp < Horizon /\ Interval < Horizon

VARIABLES
  power,              \* the setting: loop() returns early without it
  clock_initialized,
  ntp_pending,
  waited,             \* since ntp_request_sent_ms
  age,                \* since last_update_time
  error,              \* how far the clock was behind when it was last set
  network, inbox,     \* answers on their way, and in the socket: sequences
  given_up            \* history: requests given up since power-on, up to MaxAnswers

vars == <<power, clock_initialized, ntp_pending, waited, age, error, network, inbox, given_up>>

Duration == 0..Horizon
Answer == [lag : Duration, abandoned : BOOLEAN]

Longer(d) == IF d < Horizon THEN d + 1 ELSE d

Older(answers) == [i \in DOMAIN answers |-> [answers[i] EXCEPT !.lag = Longer(@)]]

\* When a request is over, an answer to it that is still to come has no taker.
Abandon(answers) == [i \in DOMAIN answers |-> [answers[i] EXCEPT !.abandoned = TRUE]]

Unread == Len(network) + Len(inbox)

\* loop() comes to its last lines, and an update is due.
Due == power /\ (~clock_initialized \/ age > Interval)

\* Mutant of MaySend: a request is repeated when nothing has come for it.
MaySendAgain == ~ntp_pending \/ inbox = <<>>

MaySend == ~ntp_pending

\* A request beyond MaxAnswers is lost.
SendRequest ==
  /\ Due /\ MaySend
  /\ ntp_pending' = TRUE /\ waited' = 0
  /\ network' = IF Unread < MaxAnswers
                THEN Append(network, [lag |-> 0, abandoned |-> FALSE]) ELSE network
  /\ UNCHANGED <<power, clock_initialized, age, error, inbox, given_up>>

\* Mutant of Taken: the answer is read and stays in the socket.
TakenNot(answers) == answers

\* What udp.read leaves in the socket.
Taken(answers) == Tail(answers)

\* Mutant of AgeWhenSet: MEASURED_BIAS_ms is added to the time of the update.
AgeWhenBiased == -1

\* last_update_time and local_hack_ms are set together: time passes from there.
AgeWhenSet == 0

\* Whatever answer the socket holds is taken for that of the pending request.
UseAnswer ==
  /\ Due /\ ntp_pending /\ inbox # <<>>
  /\ ntp_pending' = FALSE
  /\ clock_initialized' = TRUE /\ age' = AgeWhenSet /\ error' = Head(inbox).lag
  /\ inbox' = Abandon(Taken(inbox)) /\ network' = Abandon(network)
  /\ UNCHANGED <<power, waited, given_up>>

\* Mutant of GivesUp: ntp_pending stays set.
GivesUpNever == FALSE

GivesUp == waited > GiveUp

CheckInVain ==
  /\ Due /\ ntp_pending /\ inbox = <<>> /\ GivesUp
  /\ ntp_pending' = FALSE
  /\ network' = Abandon(network)
  /\ given_up' = IF given_up < MaxAnswers THEN given_up + 1 ELSE given_up
  /\ UNCHANGED <<power, clock_initialized, waited, age, error, inbox>>

-----------------------------------------------------------------------------
(* The network, the time, the user and the supply. *)

Deliver ==
  /\ \E i \in DOMAIN network :
       network' = RemoveAt(network, i) /\ inbox' = Append(inbox, network[i])
  /\ UNCHANGED <<power, clock_initialized, ntp_pending, waited, age, error, given_up>>

Lose ==
  /\ \E i \in DOMAIN network : network' = RemoveAt(network, i)
  /\ UNCHANGED <<power, clock_initialized, ntp_pending, waited, age, error, inbox, given_up>>

\* loop() comes round several times in a tick.
Tick ==
  /\ waited' = Longer(waited) /\ age' = Longer(age)
  /\ network' = Older(network) /\ inbox' = Older(inbox)
  /\ UNCHANGED <<power, clock_initialized, ntp_pending, error, given_up>>

\* A web request, or the alarm.
SetPower ==
  /\ power' = ~power
  /\ UNCHANGED <<clock_initialized, ntp_pending, waited, age, error, network, inbox, given_up>>

\* The supply fails; answers that were on their way find no socket.
Restart ==
  /\ power' \in BOOLEAN
  /\ clock_initialized' = FALSE /\ ntp_pending' = FALSE
  /\ waited' = 0 /\ age' = 0 /\ error' = 0
  /\ inbox' = <<>> /\ network' = <<>> /\ given_up' = 0

-----------------------------------------------------------------------------

Init ==
  /\ power \in BOOLEAN
  /\ clock_initialized = FALSE /\ ntp_pending = FALSE
  /\ waited = 0 /\ age = 0 /\ error = 0
  /\ network = <<>> /\ inbox = <<>> /\ given_up = 0

requestNTP == SendRequest \/ UseAnswer \/ CheckInVain

Next == requestNTP \/ Deliver \/ Lose \/ Tick \/ SetPower \/ Restart

Spec == Init /\ [][Next]_vars

\* loop() goes on and so does the time; of infinitely many answers not all are
\* lost.  Nobody has to turn the power on or to leave it on.
FairSpec == Spec /\ WF_vars(requestNTP) /\ WF_vars(Tick) /\ SF_vars(Deliver)

-----------------------------------------------------------------------------
(* What the requests do. *)

TypeOK ==
  /\ power \in BOOLEAN /\ clock_initialized \in BOOLEAN /\ ntp_pending \in BOOLEAN
  /\ waited \in Duration /\ age \in Duration /\ error \in Duration
  /\ network \in Seq(Answer) /\ inbox \in Seq(Answer)
  /\ given_up \in 0..MaxAnswers

\* Every answer is taken once and every request is waited for alone: besides the
\* one to the pending request no more answers are unread than requests were
\* given up.
NoMoreThanGivenUp == Unread <= given_up + (IF ntp_pending THEN 1 ELSE 0)

\* The answers to the last request, sent w ticks ago.
Own(w) == {a \in Answer : ~a.abandoned /\ a.lag <= w}

\* Requests and answers are in step: nothing is unread but the answer to the
\* pending request.
InStep ==
  /\ Unread <= IF ntp_pending THEN 1 ELSE 0
  /\ network \in Seq(Own(waited)) /\ inbox \in Seq(Own(waited))

\* In step, the clock is set from the answer to the last request and is behind by
\* no more than the board has waited for it.  Only giving up a request whose
\* answer is still on its way gets the board out of step; lost and late answers
\* and restarts do not, and it is in step again when nothing is left to read.
OwnAnswerIsUsed ==
  [][InStep =>
       /\ UseAnswer => ~Head(inbox).abandoned /\ error' <= waited
       /\ InStep' \/ (CheckInVain /\ network # <<>>)]_vars

\* While power and supply stay on the clock is set again and again: a lost answer
\* is given up and asked for again.
Synchronises == <>[]power /\ <>[][~Restart]_vars => []<><<UseAnswer>>_vars

\* "give up on this packet and requesta  new one" (1719): the answer to a
\* request that was given up does not set the clock.
GivenUpIsNotUsed == [][UseAnswer => ~Head(inbox).abandoned]_vars
=============================================================================
