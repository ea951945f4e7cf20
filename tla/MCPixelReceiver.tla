-------------------------- MODULE MCPixelReceiver --------------------------
(* One LED; a frame of every command but GETID, which is answered like     *)
(* GETVER, one with a wrong pixel count and one with a wrong size.  Their  *)
(* data are commands, known and unknown, if misread.                       *)
EXTENDS PixelReceiver, TLC

MCFrame ==
  { <<2, 2, 0, 3, 2>>, <<3, 1, 0, 2>>, <<1, 4, 0, 0, 2, 0, 0>>, <<1, 4, 0, 0, 0, 0, 0>>,
    <<5, 1, 0, 2>>, <<6, 0, 0>>, <<2, 1, 0, 2>> }
=============================================================================
