--------------------------- MODULE MCSerialFraming ---------------------------
(***************************************************************************)
(* A small instance of SerialFraming: a color of two digits, a zone looked *)
(* up by IP, a button of NavKey.py, whose payload is empty, and one of     *)
(* WyoBeanWebSocket.py, which ends with the name.                          *)
(***************************************************************************)
EXTENDS SerialFraming

MCNames == {"set_colorwheel", "timezone_offset", "dimmer", "brighter"}

MCDigits == {"1", "4"}

MCMessages ==
  { [name |-> "set_colorwheel",  rest |-> <<"/", "/", "1", "4">>],
    [name |-> "timezone_offset", rest |-> <<"/", "/", "I", "P">>],
    [name |-> "dimmer",          rest |-> <<"/", "/">>],
    [name |-> "brighter",        rest |-> <<>>] }

MCNeed == [n \in MCNames |-> IF n = "set_colorwheel" THEN 1 ELSE 0]

=============================================================================
