------------------------------ MODULE MCSnake ------------------------------
(* A matrix of four by four on which the snake starts in the second column. *)
EXTENDS Snake, TLC
=============================================================================
