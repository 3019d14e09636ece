------------------------------ MODULE MCHitParser ------------------------------
(* Small instances of HitParser: three rows of six columns, and words for  *)
(* rows and columns inside and outside of them.                            *)
EXTENDS HitParser

Row(n)          == 4096 + 4 * n
Column(n, code) == 4 * n + code
MCPayload == {Row(1), Row(1000), Column(2, 1), Column(4, 3)}
MCRows    == {Row(1), Column(2, 1)}

MCdata_cal ==
  [counterWords |-> 4, skip |-> 6, lastWord |-> FALSE, fresh |-> TRUE, breaks |-> FALSE,
   payload |-> MCPayload, maxPayload |-> 4, bufferWords |-> 12, maxWords |-> 24]
MCForerunner ==
  [counterWords |-> 0, skip |-> 2, lastWord |-> TRUE, fresh |-> FALSE, breaks |-> TRUE,
   payload |-> MCRows, maxPayload |-> 4, bufferWords |-> 8, maxWords |-> 26]
MCPrograms == {MCdata_cal, MCForerunner}
=============================================================================
