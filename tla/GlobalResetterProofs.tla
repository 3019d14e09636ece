------------------------- MODULE GlobalResetterProofs -------------------------
(* TypeOK and FullSequence of GlobalResetter, for every delay and range.   *)
EXTENDS GlobalResetter, TLAPS

(* What each state has behind it: the clocks of the first delay that rstCtr *)
(* has counted, then all of them, then those of the second delay.          *)
CountedClk == /\ rstCtr = 0 => high >= CNT_RANGE_HIGH - CLK_RESET_DELAY_CNT
              /\ rstCtr # 0 => high >= rstCtr - CLK_RESET_DELAY_CNT
CountedGbl == /\ rstCtr = 0 => waited >= CNT_RANGE_HIGH - GBL_RESET_DELAY_CNT
              /\ rstCtr # 0 => waited >= rstCtr - GBL_RESET_DELAY_CNT
ClkDone    == high >= CNT_RANGE_HIGH - CLK_RESET_DELAY_CNT
GblDone    == waited >= CNT_RANGE_HIGH - GBL_RESET_DELAY_CNT

Behind ==
  /\ rstState = "R1" => CountedClk
  /\ rstState \in {"R2", "R3", "R4"} => ClkDone
  /\ rstState = "R3" => waited > 0 /\ CountedGbl
  /\ rstState = "R4" => GblDone

IInv == TypeOK /\ Behind

Range == 0 .. CNT_RANGE_HIGH

LEMMA Constants ==
  /\ CNT_RANGE_HIGH \in Nat /\ MaxEvents \in Nat
  /\ CLK_RESET_DELAY_CNT \in 1 .. CNT_RANGE_HIGH /\ GBL_RESET_DELAY_CNT \in 1 .. CNT_RANGE_HIGH
BY ResetterAssumption

(* The counter stays in its range, and wraps only from the top.            *)
LEMMA WrapInRange ==
  ASSUME NEW n \in Range
  PROVE  /\ Wrap(n) \in Range
         /\ n < CNT_RANGE_HIGH => Wrap(n) = n + 1
         /\ n = CNT_RANGE_HIGH => Wrap(n) = 0
<1>1. CNT_RANGE_HIGH \in Nat  BY Constants
<1>2. CASE n < CNT_RANGE_HIGH
  BY <1>1, <1>2 DEF Wrap, Range
<1>3. CASE n = CNT_RANGE_HIGH
  BY <1>1, <1>3 DEF Wrap, Range
<1> QED  BY <1>1, <1>2, <1>3 DEF Range

LEMMA SaturateInRange ==
  ASSUME NEW n \in Range
  PROVE  /\ Saturate(n) \in Range
         /\ n < CNT_RANGE_HIGH => Saturate(n) = n + 1
         /\ n = CNT_RANGE_HIGH => Saturate(n) = n
BY Constants DEF Saturate, Range

LEMMA InitIInv == Init => IInv
<1> SUFFICES ASSUME Init PROVE IInv  OBVIOUS
<1>1. {rstCtr, high, waited} \subseteq 0 .. CNT_RANGE_HIGH /\ events \in 0 .. MaxEvents
  BY Constants DEF Init
<1>2. {FORCE_RST, DCM_LOCKED, CLK_RST, GLOBAL_RST} \subseteq BOOLEAN  BY Zenon DEF Init
<1>3. rstState = "R0"  BY DEF Init
<1> QED  BY <1>1, <1>2, <1>3 DEF IInv, TypeOK, Behind

(* A clock in which the machine does not fall from R4 to R0.               *)
LEMMA WatchTypes ==
  ASSUME IInv, Watch, CLK_RST' \in BOOLEAN
  PROVE  high' \in Range /\ waited' \in Range
<1>1. high \in Range /\ waited \in Range  BY DEF IInv, TypeOK, Range
<1>2. 0 \in Range  BY Constants DEF Range
<1> QED  BY <1>1, <1>2, SaturateInRange DEF Watch

LEMMA R0Step ==
  ASSUME IInv, rstState = "R0", R0, Watch
  PROVE  rstState' = "R1" /\ rstCtr' \in Range /\ CLK_RST' = TRUE /\ GLOBAL_RST' = TRUE /\ CountedClk'
<1>1. rstState' = "R1" /\ rstCtr' = CLK_RESET_DELAY_CNT /\ CLK_RST' = TRUE /\ GLOBAL_RST' = TRUE
  BY DEF R0, Outputs, Default, Goto
<1>2. high' \in Range  BY <1>1, WatchTypes
<1> QED  BY <1>1, <1>2, Constants DEF CountedClk, Range

LEMMA R1Step ==
  ASSUME IInv, rstState = "R1", R1, Watch
  PROVE  /\ rstCtr' \in Range /\ CLK_RST' = TRUE /\ GLOBAL_RST' = TRUE
         /\ \/ rstState' = "R1" /\ CountedClk'
            \/ rstState' = "R2" /\ ClkDone'
<1>1. CLK_RST' = TRUE /\ GLOBAL_RST' = TRUE /\ CountTo("R2")
  BY DEF R1, Outputs, Default
<1>2. rstCtr \in Range /\ high \in Range /\ CountedClk
  BY DEF IInv, TypeOK, Behind, Range
<1>3. high' = Saturate(high)  BY <1>1 DEF Watch
<1>4. high' \in Range /\ high' >= high /\ (high < CNT_RANGE_HIGH => high' = high + 1)
  BY <1>2, <1>3, SaturateInRange, Constants DEF Range
<1>5. CASE rstCtr = 0
  <2>1. rstState' = "R2" /\ rstCtr' = rstCtr  BY <1>1, <1>5 DEF CountTo, Goto
  <2>2. ClkDone'  BY <1>2, <1>4, <1>5, Constants DEF CountedClk, ClkDone, Range
  <2> QED  BY <1>1, <1>2, <2>1, <2>2
<1>6. CASE rstCtr # 0
  <2>1. rstState' = "R1" /\ rstCtr' = Wrap(rstCtr)  BY <1>1, <1>6 DEF CountTo
  <2>2. rstCtr' \in Range  BY <2>1, <1>2, WrapInRange
  <2>3. CASE rstCtr < CNT_RANGE_HIGH
    <3>1. rstCtr' = rstCtr + 1  BY <2>1, <2>3, <1>2, WrapInRange
    <3>2. high >= rstCtr - CLK_RESET_DELAY_CNT  BY <1>2, <1>6 DEF CountedClk
    <3>3. high' >= rstCtr' - CLK_RESET_DELAY_CNT
      BY <3>1, <3>2, <2>3, <1>2, <1>4, Constants DEF Range
    <3>4. rstCtr' # 0  BY <3>1, <1>2 DEF Range
    <3> QED  BY <1>1, <2>1, <2>2, <3>3, <3>4 DEF CountedClk
  <2>4. CASE rstCtr = CNT_RANGE_HIGH
    <3>1. rstCtr' = 0  BY <2>1, <2>4, <1>2, WrapInRange
    <3>2. high' >= CNT_RANGE_HIGH - CLK_RESET_DELAY_CNT
      BY <2>4, <1>2, <1>4, <1>6, Constants DEF CountedClk, Range
    <3> QED  BY <1>1, <2>1, <2>2, <3>1, <3>2 DEF CountedClk
  <2>5. rstCtr < CNT_RANGE_HIGH \/ rstCtr = CNT_RANGE_HIGH  BY <1>2, Constants DEF Range
  <2> QED  BY <2>3, <2>4, <2>5
<1> QED  BY <1>5, <1>6

(* R2 and R3: high stays, waited counts from the lock on.                  *)
LEMMA R2Step ==
  ASSUME IInv, rstState = "R2", R2, Watch
  PROVE  /\ rstCtr' \in Range /\ CLK_RST' = FALSE /\ GLOBAL_RST' = TRUE /\ ClkDone'
         /\ \/ rstState' = "R2"
            \/ rstState' = "R3" /\ waited' > 0 /\ CountedGbl'
<1>1. CLK_RST' = FALSE /\ GLOBAL_RST' = TRUE /\ rstCtr' = GBL_RESET_DELAY_CNT
      /\ rstState' = IF DCM_LOCKED THEN "R3" ELSE "R2"
  BY DEF R2, Outputs, Default, LoadGlobal, Goto
<1>2. waited \in Range /\ high \in Range /\ ClkDone  BY DEF IInv, TypeOK, Behind, Range
<1>3. high' = high /\ waited' = IF waited > 0 \/ DCM_LOCKED THEN Saturate(waited) ELSE waited
  BY <1>1 DEF Watch
<1>4. ClkDone'  BY <1>2, <1>3 DEF ClkDone
<1>5. rstCtr' \in Range  BY <1>1, Constants DEF Range
<1>6. CASE DCM_LOCKED
  <2>1. waited' = Saturate(waited)  BY <1>3, <1>6
  <2>2. waited' > 0 /\ waited' \in Nat  BY <2>1, <1>2, SaturateInRange, Constants DEF Range
  <2>3. CountedGbl'  BY <1>1, <2>2, Constants DEF CountedGbl
  <2> QED  BY <1>1, <1>4, <1>5, <1>6, <2>2, <2>3
<1>7. CASE ~DCM_LOCKED
  BY <1>1, <1>4, <1>5, <1>7
<1> QED  BY <1>6, <1>7

LEMMA R3Step ==
  ASSUME IInv, rstState = "R3", R3, Watch
  PROVE  /\ rstCtr' \in Range /\ CLK_RST' = FALSE /\ GLOBAL_RST' = TRUE /\ ClkDone'
         /\ \/ rstState' = "R3" /\ waited' > 0 /\ CountedGbl'
            \/ rstState' = "R4" /\ GblDone'
<1>1. CLK_RST' = FALSE /\ GLOBAL_RST' = TRUE /\ CountTo("R4")
  BY DEF R3, Outputs, Default
<1>2. rstCtr \in Range /\ waited \in Range /\ high \in Range /\ ClkDone /\ CountedGbl /\ waited > 0
  BY DEF IInv, TypeOK, Behind, Range
<1>3. high' = high /\ waited' = Saturate(waited)  BY <1>1, <1>2 DEF Watch
<1>4. ClkDone'  BY <1>2, <1>3 DEF ClkDone
<1>5. waited' \in Range /\ waited' > 0 /\ waited' >= waited
      /\ (waited < CNT_RANGE_HIGH => waited' = waited + 1)
  BY <1>2, <1>3, SaturateInRange, Constants DEF Range
<1>6. CASE rstCtr = 0
  <2>1. rstState' = "R4" /\ rstCtr' = rstCtr  BY <1>1, <1>6 DEF CountTo, Goto
  <2>2. GblDone'  BY <1>2, <1>5, <1>6, Constants DEF CountedGbl, GblDone, Range
  <2> QED  BY <1>1, <1>2, <1>4, <2>1, <2>2
<1>7. CASE rstCtr # 0
  <2>1. rstState' = "R3" /\ rstCtr' = Wrap(rstCtr)  BY <1>1, <1>7 DEF CountTo
  <2>2. rstCtr' \in Range  BY <2>1, <1>2, WrapInRange
  <2>3. CASE rstCtr < CNT_RANGE_HIGH
    <3>1. rstCtr' = rstCtr + 1  BY <2>1, <2>3, <1>2, WrapInRange
    <3>2. waited >= rstCtr - GBL_RESET_DELAY_CNT  BY <1>2, <1>7 DEF CountedGbl
    <3>3. waited' >= rstCtr' - GBL_RESET_DELAY_CNT
      BY <3>1, <3>2, <2>3, <1>2, <1>5, Constants DEF Range
    <3>4. rstCtr' # 0  BY <3>1, <1>2 DEF Range
    <3> QED  BY <1>1, <1>4, <1>5, <2>1, <2>2, <3>3, <3>4 DEF CountedGbl
  <2>4. CASE rstCtr = CNT_RANGE_HIGH
    <3>1. rstCtr' = 0  BY <2>1, <2>4, <1>2, WrapInRange
    <3>2. waited' >= CNT_RANGE_HIGH - GBL_RESET_DELAY_CNT
      BY <2>4, <1>2, <1>5, <1>7, Constants DEF CountedGbl, Range
    <3> QED  BY <1>1, <1>4, <1>5, <2>1, <2>2, <3>1, <3>2 DEF CountedGbl
  <2>5. rstCtr < CNT_RANGE_HIGH \/ rstCtr = CNT_RANGE_HIGH  BY <1>2, Constants DEF Range
  <2> QED  BY <2>3, <2>4, <2>5
<1> QED  BY <1>6, <1>7

LEMMA R4Step ==
  ASSUME IInv, rstState = "R4", R4, Watch
  PROVE  /\ rstCtr' \in Range /\ CLK_RST' = FALSE /\ GLOBAL_RST' = FALSE
         /\ \/ rstState' = "R0"
            \/ rstState' = "R4" /\ ClkDone' /\ GblDone'
<1>1. CLK_RST' = FALSE /\ GLOBAL_RST' = FALSE /\ rstCtr' = rstCtr
      /\ rstState' = IF DCM_LOCKED THEN "R4" ELSE "R0"
  BY DEF R4, Outputs, Goto
<1>2. rstCtr \in Range /\ waited \in Range /\ ClkDone /\ GblDone
  BY DEF IInv, TypeOK, Behind, Range
<1>3. CASE DCM_LOCKED
  <2>1. high' = high /\ waited' \in {waited, Saturate(waited)}  BY <1>1, <1>3 DEF Watch
  <2>2. waited' \in Range /\ waited' >= waited
    BY <2>1, <1>2, SaturateInRange, Constants DEF Range
  <2>3. GblDone'  BY <2>2, <1>2, Constants DEF GblDone, Range
  <2> QED  BY <1>1, <1>2, <1>3, <2>1, <2>3 DEF ClkDone
<1>4. CASE ~DCM_LOCKED
  BY <1>1, <1>2, <1>4
<1> QED  BY <1>3, <1>4

LEMMA ClkIInv ==
  ASSUME IInv, Clk
  PROVE  IInv'
<1>1. Watch /\ UNCHANGED <<FORCE_RST, events, DCM_LOCKED>>  BY DEF Clk
<1>2. rstState \in {"R0", "R1", "R2", "R3", "R4"}  BY DEF IInv, TypeOK
<1>3. rstState' \in {"R0", "R1", "R2", "R3", "R4"} /\ rstCtr' \in Range
      /\ CLK_RST' \in BOOLEAN /\ GLOBAL_RST' \in BOOLEAN /\ Behind'
  <2>1. CASE rstState = "R0"  BY <2>1, <1>1, R0Step DEF Clk, Behind
  <2>2. CASE rstState = "R1"  BY <2>2, <1>1, R1Step DEF Clk, Behind
  <2>3. CASE rstState = "R2"  BY <2>3, <1>1, R2Step DEF Clk, Behind
  <2>4. CASE rstState = "R3"  BY <2>4, <1>1, R3Step DEF Clk, Behind
  <2>5. CASE rstState = "R4"  BY <2>5, <1>1, R4Step DEF Clk, Behind
  <2> QED  BY <1>2, <2>1, <2>2, <2>3, <2>4, <2>5
<1>4. high' \in Range /\ waited' \in Range  BY <1>1, <1>3, WatchTypes
<1>5. FORCE_RST' \in BOOLEAN /\ DCM_LOCKED' \in BOOLEAN /\ events' \in 0 .. MaxEvents
  BY <1>1 DEF IInv, TypeOK
<1> QED  BY <1>3, <1>4, <1>5 DEF IInv, TypeOK, Range

LEMMA PushIInv ==
  ASSUME IInv, Push
  PROVE  IInv'
<1>1. TypeOK'  BY Constants DEF IInv, TypeOK, Push
<1>2. Behind'  BY DEF Push, Behind
<1> QED  BY <1>1, <1>2 DEF IInv

LEMMA OthersIInv ==
  ASSUME IInv, Release \/ Lock \/ Unlock \/ UNCHANGED vars
  PROVE  IInv'
<1>1. UNCHANGED <<rstState, rstCtr, high, waited, CLK_RST, GLOBAL_RST>>
  BY DEF Release, Lock, Unlock, vars
<1>2. Behind'
  BY <1>1 DEF IInv, Behind, CountedClk, CountedGbl, ClkDone, GblDone
<1>3. FORCE_RST' \in BOOLEAN /\ DCM_LOCKED' \in BOOLEAN
  BY DEF IInv, TypeOK, Release, Lock, Unlock, vars
<1>4. events' \in 0 .. MaxEvents
  BY Constants DEF IInv, TypeOK, Release, Lock, Unlock, vars
<1>5. TypeOK'  BY <1>1, <1>3, <1>4 DEF IInv, TypeOK
<1> QED  BY <1>2, <1>5 DEF IInv

(* The inductive invariant holds of the reset circuit.                     *)
THEOREM Inductive == Spec => []IInv
<1>1. IInv /\ [Next]_vars => IInv'
  BY ClkIInv, PushIInv, OthersIInv DEF Next
<1> QED  BY InitIInv, <1>1, PTL DEF Spec

(* The counter never leaves its range, whatever the delays are.            *)
THEOREM TypeCorrect == Spec => []TypeOK
<1>1. IInv => TypeOK  BY DEF IInv
<1> QED  BY Inductive, <1>1, PTL

(* The board leaves its reset only after both delays and a lock (the       *)
(* header of global_resetter.vhd), whatever happened before.               *)
THEOREM FullSequenceHolds == Spec => FullSequence
<1> DEFINE Served == high >= CNT_RANGE_HIGH - CLK_RESET_DELAY_CNT
                     /\ waited >= CNT_RANGE_HIGH - GBL_RESET_DELAY_CNT
<1>1. IInv /\ [Next]_vars => [(GLOBAL_RST /\ ~GLOBAL_RST') => Served]_GLOBAL_RST
  <2> SUFFICES ASSUME IInv, [Next]_vars, GLOBAL_RST, ~GLOBAL_RST' PROVE Served
    OBVIOUS
  <2>1. Clk  BY DEF Next, vars, Push, Release, Lock, Unlock
  <2>2. rstState \in {"R0", "R1", "R2", "R3", "R4"}  BY DEF IInv, TypeOK
  <2>3. rstState = "R4"
    BY <2>1, <2>2 DEF Clk, R0, R1, R2, R3, Outputs, Default
  <2> QED  BY <2>3 DEF IInv, Behind, ClkDone, GblDone
<1> QED  BY Inductive, <1>1, PTL DEF Spec, FullSequence
=============================================================================
