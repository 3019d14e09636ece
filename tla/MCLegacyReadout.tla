---------------------------- MODULE MCLegacyReadout ----------------------------
(* The two programs of LegacyReadout.  mainpy.py asks before it starts the *)
(* chip, so it needs one that streams already; it runs with maps, and with *)
(* a buffer more without maps and the display that waits for them.         *)
EXTENDS LegacyReadout

MCClient == [opening |-> <<"pulse", "read">>, order |-> <<"send", "recv">>,
             queued |-> FALSE, shared |-> TRUE, streaming |-> FALSE,
             silent |-> TRUE, mapped |-> FALSE, buffers |-> 5]
MCMain(mapped, n) ==
  [opening |-> <<"read", "pulse", "read">>,
   order |-> <<"proc", "send", "recv">> \o IF mapped THEN <<"disp">> ELSE <<>>,
   queued |-> TRUE, shared |-> FALSE, streaming |-> TRUE,
   silent |-> FALSE, mapped |-> mapped, buffers |-> n]
MCPrograms == {MCClient, MCMain(TRUE, 2), MCMain(FALSE, 3)}
=============================================================================
