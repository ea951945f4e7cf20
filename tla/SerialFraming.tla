---------------------------- MODULE SerialFraming ----------------------------
(***************************************************************************)
(* How the Dulles clock (src/arduino/DullesNavKey/DullesNavKey.ino) cuts   *)
(* messages out of the bytes of the serial line.  serial_loop takes what   *)
(* has arrived by the time of a poll, SERMAXLEN bytes at most, as one      *)
(* message: nothing in the stream ends a message.  A websocket delivers    *)
(* the same text in one piece.                                             *)
(*                                                                         *)
(* A message "clockiot/name//payload" is a sequence of units: the word     *)
(* clockiot, a slash, the name, two slashes, the bytes of the payload; the *)
(* control programs leave the slashes out when there is no payload.  A     *)
(* word cut in two is as unknown to serial_loop as a word that is missing. *)
(* Every unit carries the number of the message it was sent in and its     *)
(* place there, which serial_loop does not see.                            *)
(***************************************************************************)
EXTENDS Integers, Sequences

CONSTANTS
  Messages,  \* [name, rest]: what the host sends, rest being all after the name
  Names,     \* the topics of handle_msg
  Need,      \* the least payload handle_msg wants for a name
  Digits,    \* the bytes a number is made of
  MaxLine,   \* SERMAXLEN, in units
  MaxRx,     \* the receive buffer of the serial driver, in units
  MaxSent,   \* bound: messages the host sends
  None       \* no name, nothing handled yet

\* All that messages are spelled with.
Bytes == Names \cup Digits \cup {"clockiot", "/"}
           \cup UNION {{m.rest[k] : k \in DOMAIN m.rest} : m \in Messages}

ASSUME MessageAssumption ==
  /\ Names \cap (Digits \cup {"clockiot", "/"}) = {}
  /\ Digits \cap {"clockiot", "/"} = {}
  /\ None \notin Names \cup [name : Names, value : Seq(Digits), of : Nat]
  /\ \A m \in Messages :
       m.name \in Names /\ m.rest \in Seq(Bytes \ (Names \cup {"clockiot"}))
  /\ Need \in [Names -> Nat]

ASSUME SizeAssumption ==
  /\ MaxLine \in Nat \ {0}
  /\ MaxRx \in Nat \ {0}
  /\ MaxSent \in Nat

VARIABLES
  sent,     \* history: the messages sent, in order
  wire,     \* the units on their way
  rx,       \* the receive buffer of the serial driver
  topic,    \* the name that topic_c_str holds behind "clockiot/", or None
  handled,  \* history: the last call of handle_msg that took effect
  last,     \* history: the number of the last message whose name was handled
  overrun   \* history: the receive buffer dropped a unit

vars == <<sent, wire, rx, topic, handled, last, overrun>>

-----------------------------------------------------------------------------

First(S) == CHOOSE i \in S : \A j \in S : i <= j

\* The units of the text of message m, the i-th that was sent.
Spelled(m) == <<"clockiot", "/", m.name>> \o m.rest

Text(m, i) ==
  [k \in DOMAIN Spelled(m) |-> [byte |-> Spelled(m)[k], of |-> i, at |-> k]]

\* indexOf("clockiot").
Starts(line) == {k \in DOMAIN line : line[k].byte = "clockiot"}

\* indexOf("//", from), or the end of the line.
Stop(line, from) ==
  First({k \in from .. Len(line) - 1 :
           line[k].byte = "/" /\ line[k + 1].byte = "/"}
        \cup {Len(line) + 1})

TopicOf(line, from) == SubSeq(line, from, Stop(line, from) - 1)

\* Mutant of PayloadOf: the slashes are not skipped.
PayloadWithSlashes(line, from) == SubSeq(line, Stop(line, from), Len(line))

\* Mutant of PayloadOf: a line without slashes is not told from one that begins
\* with them (indexOf's -1 is not tested).
PayloadUntested(line, from) ==
  IF Stop(line, from) > Len(line)
  THEN SubSeq(line, 2, Len(line))
  ELSE SubSeq(line, Stop(line, from) + 2, Len(line))

PayloadOf(line, from) == SubSeq(line, Stop(line, from) + 2, Len(line))

\* handle_msg skips the nine bytes of "clockiot/" and compares the rest; it
\* does not look at the ninth.
Matches(t) ==
  /\ Len(t) = 3
  /\ t[2].byte \notin Names \cup {"clockiot"}
  /\ t[3].byte \in Names

\* Mutant of Value: the payload is not converted.
AllBytes(p) == [k \in DOMAIN p |-> p[k].byte]

\* Mutant of Value: what is no digit is skipped.
AllDigits(p) ==
  LET Digit(u) == u.byte \in Digits
      Found == SelectSeq(p, Digit)
  IN  [k \in DOMAIN Found |-> Found[k].byte]

\* What handle_msg makes of a payload: String.toInt reads digits up to the
\* first byte that is none.
Value(p) ==
  LET End == First({k \in 1 .. Len(p) : p[k].byte \notin Digits}
                   \cup {Len(p) + 1})
  IN  [k \in 1 .. End - 1 |-> p[k].byte]

\* handle_msg with the name n of message i, and the payload p.
HandleMsg(n, p, i) ==
  IF Len(p) >= Need[n]
  THEN handled' = [name |-> n, value |-> Value(p), of |-> i]
  ELSE UNCHANGED handled

-----------------------------------------------------------------------------

\* The host writes a message to the line.
Send(m) ==
  /\ Len(sent) < MaxSent
  /\ sent' = Append(sent, m)
  /\ wire' = wire \o Text(m, Len(sent) + 1)
  /\ UNCHANGED <<rx, topic, handled, last, overrun>>

\* A unit arrives; the driver drops it when its buffer is full.
Arrive ==
  /\ wire # <<>>
  /\ wire' = Tail(wire)
  /\ IF Len(rx) < MaxRx
     THEN rx' = Append(rx, Head(wire)) /\ UNCHANGED overrun
     ELSE overrun' = TRUE /\ UNCHANGED rx
  /\ UNCHANGED <<sent, topic, handled, last>>

\* What serial_loop finds in ser_msg at a poll.
Line == SubSeq(rx, 1, IF Len(rx) <= MaxLine THEN Len(rx) ELSE MaxLine)

\* Mutant of Take: the buffer is not cleared.
TakeNothing ==
  /\ rx # <<>>
  /\ UNCHANGED <<sent, wire, rx, overrun>>

Take ==
  /\ rx # <<>>
  /\ rx' = SubSeq(rx, Len(Line) + 1, Len(rx))
  /\ UNCHANGED <<sent, wire, overrun>>

\* serial_loop finds no "clockiot" and forgets the line.
PollNothing ==
  /\ Take
  /\ Starts(Line) = {}
  /\ UNCHANGED <<topic, handled, last>>

\* serial_loop finds a topic and calls handle_msg.
PollTopic ==
  /\ Take
  /\ Starts(Line) # {}
  /\ LET start == First(Starts(Line))
         t == TopicOf(Line, start)
     IN  /\ Matches(t)
         /\ HandleMsg(t[3].byte, PayloadOf(Line, start), t[3].of)
         /\ topic' = t[3].byte
         /\ last' = t[3].of

\* The topic is none that handle_msg knows.
PollUnknown ==
  /\ Take
  /\ Starts(Line) # {}
  /\ LET t == TopicOf(Line, First(Starts(Line)))
     IN  Len(t) > 1 /\ ~Matches(t)
  /\ topic' = None
  /\ UNCHANGED <<handled, last>>

\* The topic is "clockiot" alone, one byte short of what handle_msg skips: it
\* compares what topic_c_str holds behind the end of the topic.  The array is
\* not initialised; it may still hold the name of the last topic.
PollStale ==
  /\ Take
  /\ Starts(Line) # {}
  /\ LET start == First(Starts(Line))
     IN  /\ Len(TopicOf(Line, start)) = 1
         /\ \/ topic' = None /\ UNCHANGED handled
            \/ /\ topic # None
               /\ HandleMsg(topic, PayloadOf(Line, start), 0)
               /\ UNCHANGED topic
  /\ UNCHANGED last

\* A websocket client sends the text of m: webSocketEvent has all of it.
WebSocketText(m) ==
  /\ LET text == Text(m, 0)
     IN  /\ Matches(TopicOf(text, 1))
         /\ HandleMsg(TopicOf(text, 1)[3].byte, PayloadOf(text, 1), 0)
  /\ UNCHANGED <<sent, wire, rx, topic, last, overrun>>

\* The board restarts: what has arrived is lost, and what arrives meanwhile.
Restart ==
  /\ rx' = <<>>
  /\ topic' = None
  /\ \E k \in 0 .. Len(wire) : wire' = SubSeq(wire, k + 1, Len(wire))
  /\ UNCHANGED <<sent, handled, last, overrun>>

-----------------------------------------------------------------------------

Init ==
  /\ sent = <<>>
  /\ wire = <<>>
  /\ rx = <<>>
  /\ topic = None
  /\ handled = None
  /\ last = 0
  /\ overrun = FALSE

Poll == PollNothing \/ PollTopic \/ PollUnknown \/ PollStale

Next ==
  \/ \E m \in Messages : Send(m) \/ WebSocketText(m)
  \/ Arrive
  \/ Poll
  \/ Restart

Spec == Init /\ [][Next]_vars

-----------------------------------------------------------------------------
(***************************************************************************)
(* What the code guarantees.                                               *)
(***************************************************************************)

Units == [byte : Bytes, of : 0 .. MaxSent, at : Nat]

\* Every variable keeps its type, and no buffer outgrows its size.
TypeOK ==
  /\ sent \in Seq(Messages) /\ Len(sent) <= MaxSent
  /\ wire \in Seq(Units)
  /\ rx \in Seq(Units) /\ Len(rx) <= MaxRx
  /\ topic \in Names \cup {None}
  /\ \/ handled = None
     \/ handled \in [name : Names, value : Seq(Digits), of : 0 .. MaxSent]
  /\ last \in 0 .. Len(sent)
  /\ overrun \in BOOLEAN

\* The number a message was sent with, behind the two slashes.
SentValue(m) ==
  Value([k \in 1 .. Len(m.rest) - 2 |-> [byte |-> m.rest[k + 2], of |-> 0, at |-> k + 5]])

\* However the stream is cut and joined, as long as the driver drops nothing: a
\* message that is handled is handled with its own name and with digits of its
\* own payload only, never with those of the message behind it.
ValueIsOwn ==
  (~overrun /\ handled # None /\ handled.of # 0) =>
    LET m == sent[handled.of]
        v == SentValue(m)
    IN  /\ handled.name = m.name
        /\ Len(handled.value) <= Len(v)
        /\ handled.value = SubSeq(v, 1, Len(handled.value))

\* The messages as the host meant them.
Meaning == [m \in Messages |-> [name |-> m.name, value |-> SentValue(m)]]

Meant == [i \in DOMAIN sent |-> Meaning[sent[i]]]

Channel == INSTANCE MessageChannel WITH
  Name <- Names, Digit <- Digits, None <- None,
  queue <- Meant, taken <- last, effect <- handled, damaged <- overrun

\* The line, cut and joined by the polls, is a channel of messages: they are
\* handled in order, none of them twice, each with its own name and nothing but
\* digits of its own, also when the board restarts in the middle of one.
MessagesAreDelivered == Channel!Spec

\* No message is handled twice and none after a later one, also when the board
\* restarts in the middle of a message or the driver drops units.  (The name
\* left in topic_c_str may be, see PollStale.)
HandledInOrder ==
  [][(last' # last \/ (handled' # handled /\ handled'.of # 0))
       => last' > last]_vars

\* A topic cut short behind "clockiot" sends handle_msg to what the last topic left
\* in topic_c_str.  All that comes of it is the name that was handled last, once
\* more, and without a number as long as the driver drops nothing: it may dim the
\* panel again, but it sets no color and no zone.
StaleRepeatsName ==
  [][(Poll /\ handled' # handled /\ handled'.of = 0)
       => /\ last # 0
          /\ handled'.name = sent[last].name
          /\ ~overrun => handled'.value = <<>>]_vars

\* A poll that finds a whole message of the documented format, topic//payload,
\* at the beginning of the line handles it with the whole number it was sent
\* with, whatever follows it in the line; the payload is one that handle_msg
\* takes for this name.
WholeMessageIsHandled ==
  [][\A i \in DOMAIN sent :
       LET m == sent[i]
           text == Text(m, i)
       IN  (/\ Poll
            /\ ~overrun
            /\ Len(m.rest) >= 2 + Need[m.name]
            /\ m.rest[1] = "/" /\ m.rest[2] = "/"
            /\ Len(text) <= Len(Line)
            /\ SubSeq(Line, 1, Len(text)) = text)
           => handled' = [name |-> m.name, value |-> SentValue(m), of |-> i]
    ]_vars

=============================================================================
