---------------------------- MODULE MCSensorStream ----------------------------
(* Setups of SensorStream.  Frames: empty, a row on either line, odd       *)
(* numbers of units, rows whose states end on either line, three and more  *)
(* states.                                                                 *)
EXTENDS SensorStream

NoHits    == {<<>>}
FewFrames == {<<>>, <<2, 0, 0>>, <<1, 0, 2, 0, 0>>}
AllFrames == {<<1, 0>>, <<2, 0, 0, 1, 0>>, <<3, 0, 0, 0, 1, 0>>, <<1, 0, 1, 0, 2, 0, 0>>,
              <<2, 0, 0, 3, 0, 0, 0>>, <<4, 0, 0, 0, 0, 2, 0, 0>>}

MCSetup(size, delay, contents, depth, n, wrong, strobes) ==
  [frameSize |-> size, contents |-> contents, pattern |-> size + 1, countMod |-> 3,
   depth |-> depth, delay |-> delay, frames |-> n, faults |-> wrong, strobes |-> strobes]

MCSetups == { MCSetup(8, 3, FewFrames, 1000, 4, 1, FALSE),   \* errors
              MCSetup(9, 2, AllFrames, 1000, 2, 0, FALSE),   \* rows
              MCSetup(5, 0, NoHits, 3, 4, 0, FALSE),         \* loss
              MCSetup(6, 1, NoHits, 1000, 3, 1, TRUE),       \* strobes
              MCSetup(36, 31, NoHits, 1000, 3, 1, FALSE) }   \* the board's delay
=============================================================================
