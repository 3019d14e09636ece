---------------------------- MODULE GlobalResetter ----------------------------
(* global_resetter.vhd: the reset of the clock manager and of the board    *)
(* after power-up, a button push and a lost lock.                          *)
EXTENDS Naturals

CONSTANTS
  CLK_RESET_DELAY_CNT, GBL_RESET_DELAY_CNT, CNT_RANGE_HIGH,   \* the generics
  MaxEvents      \* bound: button pushes and lost locks

(* rstCtr has the width that holds CNT_RANGE_HIGH, and waits for its wrap. *)
ASSUME ResetterAssumption ==
  /\ CNT_RANGE_HIGH \in Nat /\ MaxEvents \in Nat
  /\ \E w \in 1 .. 20 : CNT_RANGE_HIGH + 1 = 2 ^ w
  /\ {CLK_RESET_DELAY_CNT, GBL_RESET_DELAY_CNT} \subseteq 1 .. CNT_RANGE_HIGH

VARIABLES
  FORCE_RST, events,                         \* the button; what has happened so far
  DCM_LOCKED,                                \* the clock manager
  rstState, rstCtr, CLK_RST, GLOBAL_RST,
  high,      \* clocks with CLK_RST since the last push or lost lock (history, up to the range)
  waited     \* clocks since the lock that followed them (history, up to the range)

vars == <<FORCE_RST, events, DCM_LOCKED, rstState, rstCtr, CLK_RST, GLOBAL_RST, high, waited>>

(* The outputs have no initial value.                                      *)
Init ==
  /\ FORCE_RST \in BOOLEAN /\ events = 0 /\ DCM_LOCKED = FALSE
  /\ rstState = "R0" /\ rstCtr = 0
  /\ CLK_RST \in BOOLEAN /\ GLOBAL_RST \in BOOLEAN /\ high = 0 /\ waited = 0
-----------------------------------------------------------------------------
Saturate(n) == IF n = CNT_RANGE_HIGH THEN n ELSE n + 1
NoWrap(n)   == n + 1
Wrap(n)     == (n + 1) % (CNT_RANGE_HIGH + 1)

Goto(s)     == rstState' = s
Outputs(c, g) == CLK_RST' = c /\ GLOBAL_RST' = g

Default     == TRUE
KeepCount   == rstCtr
LoadGlobal  == GBL_RESET_DELAY_CNT

CountTo(s) ==
  IF rstCtr = 0 THEN Goto(s) /\ UNCHANGED rstCtr
                ELSE rstCtr' = Wrap(rstCtr) /\ UNCHANGED rstState

R0 == Outputs(TRUE, Default) /\ rstCtr' = CLK_RESET_DELAY_CNT /\ Goto("R1")
R1 == Outputs(TRUE, Default) /\ CountTo("R2")
R2 == Outputs(FALSE, Default) /\ rstCtr' = LoadGlobal /\ Goto(IF DCM_LOCKED THEN "R3" ELSE "R2")
R3 == Outputs(FALSE, Default) /\ CountTo("R4")
R4 == Outputs(FALSE, FALSE) /\ UNCHANGED rstCtr /\ Goto(IF DCM_LOCKED THEN "R4" ELSE "R0")

(* The history starts again when the machine does.                         *)
Watch ==
  IF rstState = "R4" /\ rstState' = "R0" THEN high' = 0 /\ waited' = 0
  ELSE /\ high' = IF CLK_RST' THEN Saturate(high) ELSE high
       /\ waited' = CASE CLK_RST' -> 0
                      [] ~CLK_RST' /\ (waited > 0 \/ DCM_LOCKED) -> Saturate(waited)
                      [] OTHER -> waited

Clk ==
  /\ ~FORCE_RST
  /\ CASE rstState = "R0" -> R0 [] rstState = "R1" -> R1 [] rstState = "R2" -> R2
       [] rstState = "R3" -> R3 [] rstState = "R4" -> R4
  /\ Watch
  /\ UNCHANGED <<FORCE_RST, events, DCM_LOCKED>>

(* The asynchronous branch assigns neither output.                         *)
Push ==
  /\ ~FORCE_RST /\ events < MaxEvents /\ events' = events + 1
  /\ FORCE_RST' = TRUE /\ rstState' = "R0" /\ rstCtr' = 0 /\ high' = 0 /\ waited' = 0
  /\ UNCHANGED <<DCM_LOCKED, CLK_RST, GLOBAL_RST>>

Release ==
  /\ FORCE_RST /\ FORCE_RST' = FALSE
  /\ UNCHANGED <<events, DCM_LOCKED, rstState, rstCtr, CLK_RST, GLOBAL_RST, high, waited>>

(* The clock manager: out of lock while it is reset, in lock some time     *)
(* after, and out of it whenever its input fails.                          *)
Lock ==
  /\ ~DCM_LOCKED /\ ~CLK_RST /\ DCM_LOCKED' = TRUE
  /\ UNCHANGED <<FORCE_RST, events, rstState, rstCtr, CLK_RST, GLOBAL_RST, high, waited>>

Unlock ==
  /\ DCM_LOCKED /\ DCM_LOCKED' = FALSE
  /\ CLK_RST \/ events < MaxEvents
  /\ events' = IF CLK_RST THEN events ELSE events + 1
  /\ UNCHANGED <<FORCE_RST, rstState, rstCtr, CLK_RST, GLOBAL_RST, high, waited>>

Next == Clk \/ Push \/ Release \/ Lock \/ Unlock
Spec == Init /\ [][Next]_vars

(* The clock runs; whoever pushes the button lets go of it; the clock      *)
(* manager reacts to its reset and locks on a running clock.               *)
FairSpec == Spec /\ WF_vars(Clk) /\ WF_vars(Release) /\ WF_vars(Lock) /\ WF_vars(CLK_RST /\ Unlock)
-----------------------------------------------------------------------------
TypeOK ==
  /\ {FORCE_RST, DCM_LOCKED, CLK_RST, GLOBAL_RST} \subseteq BOOLEAN
  /\ rstState \in {"R0", "R1", "R2", "R3", "R4"} /\ events \in 0 .. MaxEvents
  /\ {rstCtr, high, waited} \subseteq 0 .. CNT_RANGE_HIGH

(* The board leaves its reset only after the clock manager has been reset  *)
(* for as long as the header promises, has locked, and the second delay    *)
(* has passed: nothing before a push or a lost lock counts.                *)
FullSequence ==
  [][(GLOBAL_RST /\ ~GLOBAL_RST') => /\ high >= CNT_RANGE_HIGH - CLK_RESET_DELAY_CNT
                                     /\ waited >= CNT_RANGE_HIGH - GBL_RESET_DELAY_CNT]_GLOBAL_RST

(* When the disturbances end, the board runs, with its clocks in lock.     *)
Settles == <>[](~GLOBAL_RST /\ ~CLK_RST /\ DCM_LOCKED)
=============================================================================
