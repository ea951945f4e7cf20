---------------------------- MODULE Snake_proofs ----------------------------
(***************************************************************************)
(* The invariants of the game, for every matrix and every longest snake.   *)
(*                                                                         *)
(* TypeOK and OneSnack are inductive as they stand; SnakeIsPath needs that *)
(* the snake's direction is one of four, which TypeOK says.                *)
(***************************************************************************)
EXTENDS Snake, SequenceTheorems, TLAPS

\* The direction after a turn is one of the four.
LEMMA DirectedType ==
  ASSUME NEW d \in Direction, NEW pressed
  PROVE  Directed(d, pressed) \in Direction
<1>1. CASE "LEFT" \in pressed
  BY <1>1 DEF Directed, Direction, SOUTH
<1>2. CASE "LEFT" \notin pressed /\ "RIGHT" \in pressed
  BY <1>2 DEF Directed, Direction, NORTH
<1>3. CASE pressed \cap {"LEFT", "RIGHT"} = {} /\ "DOWN" \in pressed
  BY <1>3 DEF Directed, Direction, WEST
<1>4. CASE pressed \cap {"LEFT", "RIGHT", "DOWN"} = {} /\ "UP" \in pressed
  BY <1>4 DEF Directed, Direction, EAST
<1>5. CASE pressed \cap {"LEFT", "RIGHT", "DOWN", "UP"} = {}
  BY <1>5 DEF Directed
<1>6. QED
  BY <1>1, <1>2, <1>3, <1>4, <1>5

\* The snake of a new game fits the matrix.
LEMMA StartType ==
  /\ Start \in Seq(Cell) /\ Len(Start) = 2
  /\ SOUTH \in Direction
<1>1. <<StartX, StartY + 1>> \in Cell /\ <<StartX, StartY>> \in Cell
  BY MatrixAssumption DEF Cell
<1>2. QED
  BY <1>1 DEF Start, SOUTH, Direction

\* Eating takes one snack away, whatever index it is called with.
LEMMA EatenType ==
  ASSUME snacks \in Seq(SnackCell), Len(snacks) = 1, NEW idx \in Int
  PROVE  Eaten(idx) \in Seq(SnackCell) /\ Len(Eaten(idx)) = Len(snacks) - 1
<1>1. Len(snacks) \in Nat /\ Len(snacks) > 0
  OBVIOUS
<1>2. ASSUME NEW i \in 1..(Len(snacks) - 1)
      PROVE  (IF i > idx THEN snacks[i + 1] ELSE snacks[i]) \in SnackCell
  BY <1>1, <1>2
<1>3. Eaten(idx) \in [1..(Len(snacks) - 1) -> SnackCell]
  BY <1>2 DEF Eaten
<1>4. QED
  BY <1>1, <1>3

\* A new snack is one more.
LEMMA NewType ==
  ASSUME NEW s \in Seq(SnackCell), NEW n \in SnackCell
  PROVE  New(s, n) \in Seq(SnackCell) /\ Len(New(s, n)) = Len(s) + 1
BY DEF New

-----------------------------------------------------------------------------
(* Types, and the number of snacks. *)

\* The next state is well typed and has one snack.
LEMMA Step ==
  ASSUME TypeOK, OneSnack, [Next]_vars
  PROVE  TypeOK' /\ OneSnack'
<1>1. CASE UNCHANGED vars
  BY <1>1 DEF vars, TypeOK, OneSnack
<1>2. ASSUME NEW pressed \in SUBSET Button, Turn(pressed)
      PROVE  TypeOK' /\ OneSnack'
  <2> DEFINE c == Ahead(snake_direction')
  <2>1. snake_direction' \in Direction
    BY <1>2, DirectedType DEF TypeOK, Turn
  <2>2. CASE ~Inside(c) \/ HitsTail(c)
    BY <1>2, <2>1, <2>2 DEF Turn, TypeOK, OneSnack
  <2>3. CASE Inside(c) /\ ~HitsTail(c)
    <3>1. c \in Cell
      BY <2>3 DEF Inside
    <3>2. CASE \E i \in 1..Len(snacks) : snacks[i] = c
      <4>1. segments' \in Seq(Cell) /\ Len(segments') \in 2..MAX_SEGMENTS
        <5>1. segments' = IF Len(segments) < MAX_SEGMENTS THEN Append(segments, c) ELSE segments
          BY <1>2, <2>3, <3>2 DEF Turn
        <5>2. QED
          BY <3>1, <5>1, MatrixAssumption DEF TypeOK
      <4>2. PICK n \in SnackCell : snacks' = New(Eaten(XY(c)), n)
        BY <1>2, <2>3, <3>2 DEF Turn
      <4>3. XY(c) \in Int
        BY <3>1, MatrixAssumption DEF XY, Cell
      <4>4. Eaten(XY(c)) \in Seq(SnackCell) /\ Len(Eaten(XY(c))) = 0
        <5>1. snacks \in Seq(SnackCell) /\ Len(snacks) = 1
          BY DEF TypeOK, OneSnack
        <5>2. Eaten(XY(c)) \in Seq(SnackCell) /\ Len(Eaten(XY(c))) = Len(snacks) - 1
          BY <4>3, <5>1, EatenType
        <5>3. QED
          BY <5>1, <5>2
      <4>5. snacks' \in Seq(SnackCell) /\ Len(snacks') = 1
        <5>1. /\ New(Eaten(XY(c)), n) \in Seq(SnackCell)
              /\ Len(New(Eaten(XY(c)), n)) = Len(Eaten(XY(c))) + 1
          BY <4>4, NewType
        <5>2. QED
          BY <4>2, <4>4, <5>1
      <4>6. GameOver' \in BOOLEAN
        BY <1>2, <2>3 DEF Turn, TypeOK
      <4>7. QED
        BY <2>1, <4>1, <4>5, <4>6 DEF TypeOK, OneSnack
    <3>3. CASE ~\E i \in 1..Len(snacks) : snacks[i] = c
      <4>1. segments' = Append(Tail(segments), c) /\ UNCHANGED snacks
        BY <1>2, <2>3, <3>3 DEF Turn
      <4>2. segments' \in Seq(Cell) /\ Len(segments') = Len(segments)
        BY <3>1, <4>1 DEF TypeOK
      <4>3. GameOver' \in BOOLEAN
        BY <1>2, <2>3 DEF Turn, TypeOK
      <4>4. QED
        BY <2>1, <4>1, <4>2, <4>3 DEF TypeOK, OneSnack
    <3>4. QED
      BY <3>2, <3>3
  <2>4. QED
    BY <2>2, <2>3
<1>3. ASSUME NEW pressed \in SUBSET Button, PollOver(pressed)
      PROVE  TypeOK' /\ OneSnack'
  <2>1. GameOver' \in BOOLEAN
    BY <1>3 DEF PollOver, StaysOver
  <2>2. CASE GameOver'
    BY <1>3, <2>1, <2>2, DirectedType DEF PollOver, TypeOK, OneSnack
  <2>3. CASE ~GameOver'
    BY <1>3, <2>1, <2>3, StartType, MatrixAssumption DEF PollOver, Refreshed, TypeOK, OneSnack
  <2>4. QED
    BY <2>2, <2>3
<1>4. QED
  BY <1>1, <1>2, <1>3 DEF Next

\* The first snack.
LEMMA Initial ==
  ASSUME Init
  PROVE  TypeOK /\ OneSnack
<1>1. PICK n \in SnackCell : snacks = New(<<>>, n)
  BY DEF Init
<1>2. snacks \in Seq(SnackCell) /\ Len(snacks) = 1
  BY <1>1 DEF New
<1>3. segments \in Seq(Cell) /\ Len(segments) \in 2..MAX_SEGMENTS
  BY StartType, MatrixAssumption DEF Init
<1>4. snake_direction \in Direction /\ GameOver \in BOOLEAN
  BY StartType DEF Init
<1>5. QED
  BY <1>2, <1>3, <1>4 DEF TypeOK, OneSnack

\* Type correctness: segments stay on the matrix and within the array.
THEOREM TypeCorrect == Spec => []TypeOK
<1>1. Init => TypeOK /\ OneSnack
  BY Initial
<1>2. TypeOK /\ OneSnack /\ [Next]_vars => (TypeOK /\ OneSnack)'
  BY Step
<1>3. QED
  BY <1>1, <1>2, PTL DEF Spec

\* There is exactly one snack, though eat() is given a pixel's place and New()
\* never looks at the size of its array.
THEOREM OneSnackCorrect == Spec => []OneSnack
<1>1. Init => TypeOK /\ OneSnack
  BY Initial
<1>2. TypeOK /\ OneSnack /\ [Next]_vars => (TypeOK /\ OneSnack)'
  BY Step
<1>3. QED
  BY <1>1, <1>2, PTL DEF Spec

-----------------------------------------------------------------------------
(* The snake is a path. *)

\* A cell lies next to another.
Adjacent(a, b) == \E d \in Direction : b = <<a[1] + d[1], a[2] + d[2]>>

\* SnakeIsPath, said of any sequence of cells.
Path(s) ==
  /\ \A i, j \in 1..Len(s) : i # j => s[i] # s[j]
  /\ \A i \in 1..(Len(s) - 1) :
       \E d \in Direction : s[i + 1] = <<s[i][1] + d[1], s[i][2] + d[2]>>

\* A path is prolonged by a cell next to its head that is not on it.
LEMMA PathGrows ==
  ASSUME NEW s \in Seq(Cell), Path(s), Len(s) > 0,
         NEW c \in Cell, \A i \in 1..Len(s) : s[i] # c,
         Adjacent(s[Len(s)], c)
  PROVE  Path(Append(s, c))
<1> DEFINE t == Append(s, c)
<1>1. /\ Len(s) \in Nat /\ Len(t) = Len(s) + 1
      /\ \A i \in 1..Len(s) : t[i] = s[i]
      /\ t[Len(s) + 1] = c
  OBVIOUS
<1> HIDE DEF t
<1>2. ASSUME NEW i \in 1..Len(t), NEW j \in 1..Len(t), i # j
      PROVE  t[i] # t[j]
  <2>1. CASE i \in 1..Len(s) /\ j \in 1..Len(s)
    BY <1>1, <1>2, <2>1 DEF Path
  <2>2. CASE i = Len(s) + 1
    BY <1>1, <1>2, <2>2
  <2>3. CASE j = Len(s) + 1
    BY <1>1, <1>2, <2>3
  <2>4. QED
    BY <1>1, <2>1, <2>2, <2>3
<1>3. ASSUME NEW i \in 1..(Len(t) - 1)
      PROVE  \E d \in Direction : t[i + 1] = <<t[i][1] + d[1], t[i][2] + d[2]>>
  <2>1. CASE i = Len(s)
    <3>1. t[i] = s[Len(s)] /\ t[i + 1] = c
      BY <1>1, <2>1
    <3>2. QED
      BY <3>1 DEF Adjacent
  <2>2. CASE i \in 1..(Len(s) - 1)
    <3>1. t[i] = s[i] /\ t[i + 1] = s[i + 1]
      BY <1>1, <2>2
    <3>2. QED
      BY <2>2, <3>1 DEF Path
  <2>3. QED
    BY <1>1, <2>1, <2>2
<1>4. QED
  BY <1>2, <1>3 DEF Path, t

\* A path without its last segment is a path.
LEMMA PathShrinks ==
  ASSUME NEW s \in Seq(Cell), Path(s), Len(s) > 0
  PROVE  Path(Tail(s))
<1> DEFINE t == Tail(s)
<1>1. /\ Len(s) \in Nat /\ Len(s) > 0 /\ Len(t) = Len(s) - 1
      /\ \A i \in 1..Len(t) : t[i] = s[i + 1]
  OBVIOUS
<1> HIDE DEF t
<1>2. ASSUME NEW i \in 1..Len(t), NEW j \in 1..Len(t), i # j
      PROVE  t[i] # t[j]
  <2>1. i + 1 \in 1..Len(s) /\ j + 1 \in 1..Len(s) /\ i + 1 # j + 1
    BY <1>1, <1>2
  <2>2. QED
    BY <1>1, <2>1 DEF Path
<1>3. ASSUME NEW i \in 1..(Len(t) - 1)
      PROVE  \E d \in Direction : t[i + 1] = <<t[i][1] + d[1], t[i][2] + d[2]>>
  <2>1. /\ i + 1 \in 1..(Len(s) - 1)
        /\ t[i] = s[i + 1] /\ t[i + 1] = s[(i + 1) + 1]
    BY <1>1, <1>3
  <2>2. QED
    BY <2>1 DEF Path
<1>4. QED
  BY <1>2, <1>3 DEF Path, t

\* A new game's snake is a path.
LEMMA StartIsPath == Path(Start)
<1> DEFINE a == <<StartX, StartY + 1>>
           b == <<StartX, StartY>>
<1>1. a # b /\ b = <<a[1] + 0, a[2] + (-1)>>
  BY MatrixAssumption
<1>2. <<0, -1>> \in Direction
  BY DEF Direction
<1>3. Start = <<a, b>>
  BY DEF Start
<1>4. \A i, j \in 1..2 : i # j => Start[i] # Start[j]
  BY <1>1, <1>3
<1>5. Start[2] = <<Start[1][1] + <<0, -1>>[1], Start[1][2] + <<0, -1>>[2]>>
  BY <1>1, <1>3
<1>6. Len(Start) = 2
  BY <1>3
<1>7. QED
  BY <1>2, <1>4, <1>5, <1>6 DEF Path

\* A step keeps the snake a path.
LEMMA PathStep ==
  ASSUME TypeOK, Path(segments), [Next]_vars
  PROVE  Path(segments')
<1>1. CASE UNCHANGED vars
  BY <1>1 DEF vars
<1>2. ASSUME NEW pressed \in SUBSET Button, Turn(pressed)
      PROVE  Path(segments')
  <2> DEFINE c == Ahead(snake_direction')
  <2>1. snake_direction' \in Direction
    BY <1>2, DirectedType DEF TypeOK, Turn
  <2>2. CASE ~Inside(c) \/ HitsTail(c)
    <3>1. segments' = segments
      BY <1>2, <2>2 DEF Turn
    <3>2. QED
      BY <3>1
  <2>3. CASE Inside(c) /\ ~HitsTail(c)
    <3>1. c \in Cell /\ \A i \in 1..Len(segments) : segments[i] # c
      BY <2>3 DEF Inside, HitsTail
    <3>2. segments \in Seq(Cell) /\ Len(segments) \in Nat /\ Len(segments) > 1
      BY DEF TypeOK
    <3>3. Adjacent(segments[Len(segments)], c)
      BY <2>1 DEF Ahead, SnakeHead, Adjacent
    <3> HIDE DEF c
    <3>4. Path(Append(segments, c))
      <4>1. Len(segments) > 0
        BY <3>2
      <4>2. QED
        BY <3>1, <3>2, <3>3, <4>1, PathGrows
    <3>5. Path(Append(Tail(segments), c))
      <4> DEFINE s == Tail(segments)
      <4>1. s \in Seq(Cell) /\ Len(s) > 0 /\ Len(s) = Len(segments) - 1
        BY <3>2
      <4>2. s[Len(s)] = segments[Len(segments)]
        BY <3>2, <4>1
      <4>3. \A i \in 1..Len(s) : s[i] # c
        BY <3>1, <3>2, <4>1
      <4>4. Path(s)
        BY <3>2, PathShrinks
      <4> HIDE DEF s
      <4>5. Path(Append(s, c))
        BY <3>1, <3>3, <4>1, <4>2, <4>3, <4>4, PathGrows
      <4>6. QED
        BY <4>5 DEF s
    <3>6. segments' \in {Append(segments, c), segments, Append(Tail(segments), c)}
      BY <1>2, <2>3 DEF Turn, c
    <3>7. QED
      BY <3>4, <3>5, <3>6
  <2>4. QED
    BY <2>2, <2>3
<1>3. ASSUME NEW pressed \in SUBSET Button, PollOver(pressed)
      PROVE  Path(segments')
  <2>1. segments' \in {segments, Start}
    BY <1>3 DEF PollOver
  <2>2. QED
    BY <2>1, StartIsPath
<1>4. QED
  BY <1>1, <1>2, <1>3 DEF Next

\* No segment lies on another and none is torn off, on any matrix, however the
\* snake is steered and wherever its food lies.
THEOREM SnakeIsPathCorrect == Spec => []SnakeIsPath
<1> DEFINE IsPath == Path(segments)
<1>1. Init => IsPath
  BY StartIsPath DEF Init
<1>2. TypeOK /\ IsPath /\ [Next]_vars => IsPath'
  BY PathStep
<1>3. IsPath <=> SnakeIsPath
  BY DEF Path, SnakeIsPath
<1> HIDE DEF IsPath
<1>4. QED
  BY <1>1, <1>2, <1>3, TypeCorrect, PTL DEF Spec

-----------------------------------------------------------------------------
(* A snake that nobody steers. *)

\* How many cells there are between the head and the wall it is heading for.
Room ==
  CASE snake_direction = NORTH -> MatrixHeight - 1 - SnakeHead[2]
    [] snake_direction = SOUTH -> SnakeHead[2]
    [] snake_direction = WEST  -> MatrixWidth - 1 - SnakeHead[1]
    [] snake_direction = EAST  -> SnakeHead[1]

\* The head lies on the matrix.
LEMMA HeadOnMatrix ==
  ASSUME TypeOK
  PROVE  /\ SnakeHead \in Cell /\ SnakeHead = <<SnakeHead[1], SnakeHead[2]>>
         /\ SnakeHead[1] \in 0..(MatrixWidth - 1) /\ SnakeHead[2] \in 0..(MatrixHeight - 1)
<1>1. SnakeHead \in Cell
  BY DEF TypeOK, SnakeHead
<1>2. QED
  BY <1>1 DEF Cell

\* There is no less than no room.
LEMMA RoomType ==
  ASSUME TypeOK
  PROVE  Room \in Nat
<1>1. SnakeHead[1] \in 0..(MatrixWidth - 1) /\ SnakeHead[2] \in 0..(MatrixHeight - 1)
  BY HeadOnMatrix
<1>2. snake_direction \in {NORTH, SOUTH, WEST, EAST}
  BY DEF TypeOK, Direction, NORTH, SOUTH, WEST, EAST
<1>3. QED
  BY <1>1, <1>2, MatrixAssumption DEF Room, NORTH, SOUTH, WEST, EAST

\* A turn without a direction button: the game is over, or a snake of full length
\* has eaten where it lies, or the head is one cell nearer to the wall.
UnsteeredTurn ==
  \/ GameOver'
  \/ Len(segments) = MAX_SEGMENTS /\ UNCHANGED segments
  \/ snake_direction' = snake_direction /\ Room > 0 /\ Room' = Room - 1

LEMMA UnsteeredStep ==
  ASSUME TypeOK, TypeOK', NEW pressed \in SUBSET {"CENTRAL"}, Turn(pressed)
  PROVE  UnsteeredTurn
<1> DEFINE d == snake_direction
           c == Ahead(snake_direction')
<1>1. snake_direction' = d
  BY DEF Turn, Directed
<1>2. CASE ~Inside(c) \/ HitsTail(c)
  BY <1>2 DEF Turn, UnsteeredTurn
<1>3. CASE Inside(c) /\ ~HitsTail(c)
  <2>1. segments \in Seq(Cell) /\ Len(segments) \in Nat /\ Len(segments) > 1
    BY DEF TypeOK
  <2>2. c \in Cell /\ c = <<SnakeHead[1] + d[1], SnakeHead[2] + d[2]>>
    BY <1>1, <1>3 DEF Inside, Ahead
  <2>3. CASE UNCHANGED segments /\ ~(Len(segments) < MAX_SEGMENTS)
    <3>1. Len(segments) = MAX_SEGMENTS
      BY <2>3, MatrixAssumption DEF TypeOK
    <3>2. QED
      BY <2>3, <3>1 DEF UnsteeredTurn
  <2>4. CASE segments' \in {Append(segments, c), Append(Tail(segments), c)}
    <3>1. segments'[Len(segments')] = c
      BY <2>1, <2>2, <2>4
    <3>2. SnakeHead' = c
      BY <3>1 DEF SnakeHead
    <3>3. /\ SnakeHead[1] \in 0..(MatrixWidth - 1) /\ SnakeHead[2] \in 0..(MatrixHeight - 1)
      BY HeadOnMatrix
    <3>4. d \in {NORTH, SOUTH, WEST, EAST}
      BY DEF TypeOK, Direction, NORTH, SOUTH, WEST, EAST
    <3>5. c[1] = SnakeHead[1] + d[1] /\ c[2] = SnakeHead[2] + d[2]
      BY <2>2
    <3>6. c[1] \in 0..(MatrixWidth - 1) /\ c[2] \in 0..(MatrixHeight - 1)
      BY <2>2 DEF Cell
    <3>7. Room > 0 /\ Room' = Room - 1
      BY <1>1, <3>2, <3>3, <3>4, <3>5, <3>6, MatrixAssumption
      DEF Room, NORTH, SOUTH, WEST, EAST
    <3>8. QED
      BY <1>1, <3>7 DEF UnsteeredTurn
  <2>5. QED
    BY <1>3, <2>3, <2>4 DEF Turn
<1>4. QED
  BY <1>2, <1>3

\* The step behind Unsteered: on every matrix a snake nobody steers has used up
\* its room after as many turns, unless it hits itself or is as long as it may be.
THEOREM UnsteeredNearsWall ==
  Spec => [](Room \in Nat)
          /\ [][\A pressed \in SUBSET {"CENTRAL"} : Turn(pressed) => UnsteeredTurn]_vars
<1>1. TypeOK => Room \in Nat
  BY RoomType
<1>2. TypeOK /\ TypeOK' /\ [Next]_vars
        => [\A pressed \in SUBSET {"CENTRAL"} : Turn(pressed) => UnsteeredTurn]_vars
  BY UnsteeredStep
<1>3. QED
  BY <1>1, <1>2, TypeCorrect, PTL DEF Spec
=============================================================================
