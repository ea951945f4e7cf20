------------------------------- MODULE Snake -------------------------------
(***************************************************************************)
(* The game of src/arduino/Snake: Snake.h and the loop of Snake.ino.       *)
(*                                                                         *)
(* A turn of loop() reads the buttons pressed since the last one, blackens *)
(* the matrix and moves the snake.  gameover() stays inside the move and   *)
(* reads the buttons itself until CENTRAL has cleared GameOver.            *)
(***************************************************************************)
EXTENDS Integers, Sequences

CONSTANTS
  MatrixWidth, MatrixHeight,
  MAX_SEGMENTS,
  StartX, StartY   \* where the head starts: 8, 4

ASSUME MatrixAssumption ==
  /\ MatrixWidth \in Nat /\ MatrixHeight \in Nat
  /\ MatrixWidth > 1 /\ MatrixHeight > 1
  /\ StartX \in 0..(MatrixWidth - 1) /\ StartY \in 0..(MatrixHeight - 2)
  /\ MAX_SEGMENTS \in Nat /\ MAX_SEGMENTS > 1

VARIABLES
  segments,         \* the snake's cells, tail first
  snake_direction,
  snacks,           \* Seq(cell)
  GameOver

vars == <<segments, snake_direction, snacks, GameOver>>

Button == {"UP", "DOWN", "RIGHT", "LEFT", "CENTRAL"}
Direction == {<<0, 1>>, <<1, 0>>, <<0, -1>>, <<-1, 0>>}
NORTH == <<0, 1>>
WEST  == <<1, 0>>
SOUTH == <<0, -1>>
EAST  == <<-1, 0>>

Cell == (0..(MatrixWidth - 1)) \X (0..(MatrixHeight - 1))

\* random() excludes its upper bound: no snack in the last column or row.
SnackCell == (0..(MatrixWidth - 2)) \X (0..(MatrixHeight - 2))

-----------------------------------------------------------------------------
(* Buttons: the callbacks run in the order updateStatus tests them. *)

Directed(d, pressed) ==
  CASE "LEFT" \in pressed -> SOUTH
    [] "LEFT" \notin pressed /\ "RIGHT" \in pressed -> NORTH
    [] pressed \cap {"LEFT", "RIGHT"} = {} /\ "DOWN" \in pressed -> WEST
    [] pressed \cap {"LEFT", "RIGHT", "DOWN"} = {} /\ "UP" \in pressed -> EAST
    [] OTHER -> d

\* CENTRAL clears GameOver.
StaysOver(pressed) == "CENTRAL" \notin pressed

-----------------------------------------------------------------------------
(* Snacks. *)

\* eat(idx) moves the snacks behind idx forward and drops the last place.
Eaten(idx) ==
  [i \in 1..(Len(snacks) - 1) |-> IF i > idx THEN snacks[i + 1] ELSE snacks[i]]

\* New() looks for a black pixel.  The matrix is black when it is called: the
\* snake is not drawn yet, and the snack may lie under it.
New(s, c) == Append(s, c)

\* The place of a cell in the strip, which move() hands to eat().
XY(c) == c[2] * MatrixWidth + c[1]

-----------------------------------------------------------------------------
(* The snake. *)

SnakeHead == segments[Len(segments)]

\* Mutant of Ahead: the matrix is a torus.
AheadWrapped(d) == <<(SnakeHead[1] + d[1]) % MatrixWidth, (SnakeHead[2] + d[2]) % MatrixHeight>>

Ahead(d) == <<SnakeHead[1] + d[1], SnakeHead[2] + d[2]>>

\* Mutant of Inside: the far walls are one cell further out.
InsideWide(c) == c[1] \in 0..MatrixWidth /\ c[2] \in 0..MatrixHeight

Inside(c) == c \in Cell

\* Mutant of HitsTail: the last segment is about to leave its cell.
HitsTailOnly(c) == \E i \in 2..Len(segments) : segments[i] = c

HitsTail(c) == \E i \in 1..Len(segments) : segments[i] = c

Start == <<<<StartX, StartY + 1>>, <<StartX, StartY>>>>

\* One turn of loop() in which pressed is what has been pressed since the last.
Turn(pressed) ==
  /\ ~GameOver
  /\ snake_direction' = Directed(snake_direction, pressed)
  /\ LET c == Ahead(snake_direction') IN
     \/ /\ ~Inside(c) \/ HitsTail(c)
        /\ GameOver' = TRUE
        /\ UNCHANGED <<segments, snacks>>
     \/ /\ Inside(c) /\ ~HitsTail(c)
        /\ IF \E i \in 1..Len(snacks) : snacks[i] = c
           THEN /\ segments' = IF Len(segments) < MAX_SEGMENTS THEN Append(segments, c) ELSE segments
                /\ \E n \in SnackCell : snacks' = New(Eaten(XY(c)), n)
           ELSE segments' = Append(Tail(segments), c) /\ UNCHANGED snacks
        /\ UNCHANGED GameOver

\* Mutant of Refreshed: a new game gets a new snack.
RefreshedWith(n) == New(snacks, n)

\* reset() leaves the snacks where they are.
Refreshed(n) == snacks

\* A poll inside gameover(), and reset() when it is the last one.
PollOver(pressed) ==
  /\ GameOver
  /\ GameOver' = StaysOver(pressed)
  /\ IF GameOver'
     THEN /\ snake_direction' = Directed(snake_direction, pressed)
          /\ UNCHANGED <<segments, snacks>>
     ELSE /\ segments' = Start /\ snake_direction' = SOUTH
          /\ \E n \in SnackCell : snacks' = Refreshed(n)

-----------------------------------------------------------------------------

\* setup() places the first snack before the snake is drawn.
Init ==
  /\ segments = Start /\ snake_direction = SOUTH /\ GameOver = FALSE
  /\ \E n \in SnackCell : snacks = New(<<>>, n)

Next == \E pressed \in SUBSET Button : Turn(pressed) \/ PollOver(pressed)

Spec == Init /\ [][Next]_vars

\* loop() and gameover() go on; somebody presses CENTRAL when the game is over.
\* The turn in which a snake of full length finds its next snack in the cell of
\* the last one changes nothing: fairness asks for another turn, so that random()
\* does not name the same cell for ever.
FairSpec ==
  /\ Spec
  /\ WF_vars(\E pressed \in SUBSET Button : Turn(pressed))
  /\ WF_vars(\E pressed \in SUBSET Button : "CENTRAL" \in pressed /\ PollOver(pressed))

-----------------------------------------------------------------------------
(* The game. *)

TypeOK ==
  /\ segments \in Seq(Cell) /\ Len(segments) \in 2..MAX_SEGMENTS
  /\ snake_direction \in Direction
  /\ snacks \in Seq(SnackCell)
  /\ GameOver \in BOOLEAN

\* The snake is a path: no two segments share a cell, and each lies next to the
\* one before it, whatever it ate and wherever the snack lay.
SnakeIsPath ==
  /\ \A i, j \in 1..Len(segments) : i # j => segments[i] # segments[j]
  /\ \A i \in 1..(Len(segments) - 1) :
       \E d \in Direction : segments[i + 1] = <<segments[i][1] + d[1], segments[i][2] + d[2]>>

\* eat() is handed a pixel's place for a snack's index, and New() does not look
\* at the size of its array: both are right because there is exactly one snack.
OneSnack == Len(snacks) = 1

\* A snake nobody steers ends every game in a wall, and every next game too: also
\* one of full length, which eats without moving and may find the next snack in
\* the same cell, and with a snack that reset() left behind.
Unsteered ==
  <>[][\E p \in SUBSET {"CENTRAL"} : Turn(p) \/ PollOver(p)]_vars
    => []<>GameOver /\ []<>~GameOver
=============================================================================
