--------------------------- MODULE MessageChannel ---------------------------
(***************************************************************************)
(* What a line promises that carries messages without marking their ends:  *)
(* the reader takes them in the order they were sent, may miss any of      *)
(* them, and takes none twice.  What it takes has the name it was sent     *)
(* with and, as long as the line was never damaged, the beginning of its   *)
(* own value.  Calls that come from elsewhere leave the line alone.        *)
(***************************************************************************)
EXTENDS Naturals, Sequences

CONSTANTS
  Name,    \* the names of messages
  Digit,   \* what values are made of
  None     \* nothing was taken yet

VARIABLES
  queue,   \* the messages sent, in order
  taken,   \* the number of the last one the reader took
  effect,  \* the last call that took effect, with the number of its message or 0
  damaged  \* the line has lost a part of a message

vars == <<queue, taken, effect, damaged>>

Init ==
  /\ queue = <<>>
  /\ taken = 0
  /\ effect = None
  /\ damaged = FALSE

\* One message is sent behind the others.
Submit ==
  /\ Len(queue') = Len(queue) + 1
  /\ \A i \in 1 .. Len(queue) : queue'[i] = queue[i]
  /\ queue'[Len(queue')] \in [name : Name, value : Seq(Digit)]
  /\ UNCHANGED <<taken, effect, damaged>>

\* The call that message i leads to.
Serves(call, i) ==
  /\ call \in [name : {queue[i].name}, value : Seq(Digit), of : {i}]
  /\ damaged \/ call.value = SubSeq(queue[i].value, 1, Len(call.value))

\* The reader takes message i, which may be too short to take effect.
Take(i) ==
  /\ i > taken
  /\ taken' = i
  /\ effect' = effect \/ Serves(effect', i)
  /\ UNCHANGED <<queue, damaged>>

\* A call that no message on the line has led to.
Aside ==
  /\ effect' \in [name : Name, value : Seq(Digit), of : {0}]
  /\ UNCHANGED <<queue, taken, damaged>>

Damage ==
  /\ damaged' = TRUE
  /\ UNCHANGED <<queue, taken, effect>>

Next ==
  \/ Submit
  \/ \E i \in 1 .. Len(queue) : Take(i)
  \/ Aside
  \/ Damage

Spec == Init /\ [][Next]_vars
=============================================================================
