------------------------------ MODULE JtagProofs ------------------------------
(* Why the driver and the chip never part: the feeder changes a word only  *)
(* when the driver rests or pauses, and so TMS, set while TCK is low, says *)
(* what the driver does when TCK rises.  And how long a program takes.     *)
EXTENDS Jtag, Integers, SequenceTheorems, TLAPS

States == {"idle", "init", "select", "capture", "shift", "exit1", "pause", "exit2", "update",
           "logic_reset", "hard_reset"}

Types ==
  /\ fState \in {"wait_for_start", "execute_RSTB", "get_data", "start_jtag_machine", "check_result"}
  /\ state \in States /\ hi \in BOOLEAN /\ col \in {"IR", "DR"}
  /\ input_mem_address \in Nat /\ hostAddr \in Nat /\ since \in Nat

AtRest  == state = "idle" /\ ~hi /\ ~PAUSE /\ ~JTAG_busy
Paused  == state = "pause" /\ ~hi /\ PAUSE /\ JTAG_busy
Started == state = "idle" /\ hi /\ ~PAUSE /\ JTAG_busy /\ JTAG_start /\ since = 0

(* The driver has been told to go on, and the feeder knows it at the next  *)
(* of its clocks, which comes before the driver's.                         *)
GoesOn ==
  /\ JTAG_go /\ JTAG_busy
  /\ \/ state = "pause" /\ hi /\ PAUSE
     \/ state = "exit2" /\ ~hi /\ PAUSE
     \/ state = "exit2" /\ hi /\ ~PAUSE /\ since = 0

(* Where the driver can be while the feeder is in each of its states.      *)
NotTold  == ~JTAG_start /\ ~JTAG_go
Fetches  == NotTold /\ IF input_mem_address = 0 THEN AtRest ELSE Paused
Tells    == IF input_address_zero THEN ~JTAG_go /\ (AtRest \/ Started)
                                  ELSE ~JTAG_start /\ (Paused \/ GoesOn)
Collects == /\ NotTold
            /\ JTAG_busy \/ (state = "idle" /\ ~hi)
            /\ PAUSE => state = "pause"
            /\ state = "pause" => ~hi

Handshake ==
  CASE fState = "get_data"           -> Fetches
    [] fState = "start_jtag_machine" -> Tells
    [] fState = "check_result"       -> Collects
    [] OTHER                         -> AtRest /\ NotTold

(* The driver is under way: it uses the word and what it has latched of it.*)
UnderWay == hi \/ state \notin {"idle", "pause"}
Latched  == UnderWay => sIR_DR = TX.kind /\ sDataLength = Len(TX.bits) - 1

(* TMS as it was set when TCK went low.                                    *)
Announced == IF state \in {"pause", "logic_reset"} THEN 1 ELSE Tms
Steady    == hi => sTCK = 0 /\ sTMS = Announced /\ state # "hard_reset"

(* The chip is taken to its reset state by five clocks or the reset line.  *)
ResetInv ==
  /\ state = "select" /\ hi /\ Resets => TX_bitCounter = 0
  /\ state = "logic_reset" /\ ~hi => tap = Reset \/ TX_bitCounter = 0

IInv == Types /\ Handshake /\ Latched /\ Steady /\ TapFollows /\ ResetInv
-----------------------------------------------------------------------------
LEMMA InitInvariant == Init => IInv
<1> SUFFICES ASSUME Init PROVE IInv
  OBVIOUS
<1>1. /\ fState = "wait_for_start" /\ state = "idle" /\ ~hi /\ col = "DR" /\ ~PAUSE /\ ~JTAG_busy
      /\ ~JTAG_start /\ ~JTAG_go /\ tap \in {Reset, Idle}
      /\ input_mem_address = 0 /\ hostAddr = 0 /\ since = 0
  BY DEF Init
<1>2. hi \in BOOLEAN
  BY ZenonT(20) DEF Init
<1>3. Types
  BY <1>1, <1>2 DEF Types, States
<1>4. Handshake /\ Latched /\ Steady /\ ResetInv
  BY <1>1 DEF Handshake, NotTold, AtRest, Latched, UnderWay, Steady, ResetInv
<1>5. TapFollows
  BY <1>1 DEF TapFollows
<1> QED
  BY <1>3, <1>4, <1>5 DEF IInv

(* While the driver is under way the feeder waits for it.                  *)
LEMMA FeederWaits ==
  ASSUME Types, Handshake, UnderWay
  PROVE  fState \in {"start_jtag_machine", "check_result"}
<1>1. ~AtRest /\ ~Paused
  BY DEF UnderWay, AtRest, Paused
<1> QED
  BY <1>1 DEF Types, Handshake, Fetches
-----------------------------------------------------------------------------
(* The clock of the feeder.                                                *)

LEMMA WaitForStartStep ==
  ASSUME Types, Handshake, WaitForStart, hostAddr' \in Nat, UNCHANGED driverVars
  PROVE  Handshake' /\ fState' \in {"wait_for_start", "execute_RSTB", "get_data"}
         /\ input_mem_address' \in Nat
<1>1. /\ AtRest /\ fState = "wait_for_start" /\ NotTold'
      /\ \/ fState' \in {"execute_RSTB", "get_data"} /\ input_mem_address' = 0
         \/ fState' = fState /\ input_mem_address' = hostAddr
  BY DEF WaitForStart, Handshake, NotTold
<1>2. AtRest'
  BY <1>1 DEF AtRest, driverVars
<1> QED
  BY <1>1, <1>2 DEF Handshake, Fetches, Types

LEMMA ExecuteRSTBStep ==
  ASSUME Types, Handshake, ExecuteRSTB, UNCHANGED driverVars
  PROVE  Handshake' /\ fState' = "start_jtag_machine" /\ input_mem_address' = input_mem_address
<1>1. /\ AtRest /\ ~JTAG_go' /\ input_address_zero' /\ fState' = "start_jtag_machine"
      /\ input_mem_address' = input_mem_address
  BY DEF ExecuteRSTB, Handshake
<1>2. AtRest'
  BY <1>1 DEF AtRest, driverVars
<1> QED
  BY <1>1, <1>2 DEF Handshake, Tells

LEMMA GetDataStep ==
  ASSUME Types, Handshake, GetData, UNCHANGED driverVars
  PROVE  Handshake' /\ fState' \in {"start_jtag_machine", "get_data"}
         /\ input_mem_address' = input_mem_address
<1>1. /\ fState = "get_data" /\ NotTold' /\ input_mem_address' = input_mem_address
      /\ \/ fState' = "start_jtag_machine" /\ (input_address_zero' = (input_mem_address = 0))
         \/ fState' = fState
      /\ IF input_mem_address = 0 THEN AtRest ELSE Paused
  BY DEF GetData, Handshake, Fetches, NotTold
<1>2. (AtRest => AtRest') /\ (Paused => Paused')
  BY DEF AtRest, Paused, driverVars
<1>3. CASE fState' = "get_data"
  BY <1>1, <1>2, <1>3 DEF Handshake, Fetches
<1>4. CASE fState' = "start_jtag_machine" /\ (input_address_zero' = (input_mem_address = 0))
  <2>1. input_address_zero' <=> input_mem_address = 0
    BY <1>4, ZenonT(20)
  <2> QED
    BY <1>1, <1>2, <1>4, <2>1 DEF Handshake, Tells, NotTold
<1> QED
  BY <1>1, <1>3, <1>4

LEMMA StartJtagMachineStep ==
  ASSUME Types, Handshake, StartJtagMachine, UNCHANGED driverVars
  PROVE  Handshake' /\ fState' \in {"start_jtag_machine", "check_result"}
         /\ input_mem_address' = input_mem_address
<1>1. /\ fState = "start_jtag_machine" /\ Tells
      /\ fState' = IF (input_address_zero /\ JTAG_busy) \/ (~input_address_zero /\ ~PAUSE /\ JTAG_go)
                     THEN "check_result" ELSE fState
      /\ input_mem_address' = input_mem_address /\ (input_address_zero' <=> input_address_zero)
  BY DEF StartJtagMachine, Handshake
<1>2. (JTAG_start' <=> input_address_zero /\ ~JTAG_busy) /\ (JTAG_go' <=> ~input_address_zero /\ PAUSE)
  BY ZenonT(20) DEF StartJtagMachine
<1>3. state' = state /\ (hi' <=> hi) /\ (PAUSE' <=> PAUSE) /\ (JTAG_busy' <=> JTAG_busy)
  BY DEF driverVars
<1>4. CASE input_address_zero
  <2>1. CASE AtRest
    <3>1. AtRest' /\ ~JTAG_go' /\ fState' = "start_jtag_machine"
      BY <1>1, <1>2, <1>3, <1>4, <2>1 DEF AtRest
    <3> QED
      BY <1>1, <1>4, <3>1 DEF Handshake, Tells
  <2>2. CASE Started
    <3>1. fState' = "check_result" /\ NotTold' /\ JTAG_busy' /\ ~PAUSE' /\ state' = "idle"
      BY <1>1, <1>2, <1>3, <1>4, <2>2 DEF Started, NotTold
    <3> QED
      BY <1>1, <3>1 DEF Handshake, Collects
  <2> QED
    BY <1>1, <1>4, <2>1, <2>2 DEF Tells
<1>5. CASE ~input_address_zero
  <2>1. CASE Paused
    <3>1. Paused' /\ ~JTAG_start' /\ fState' = "start_jtag_machine"
      BY <1>1, <1>2, <1>3, <1>5, <2>1 DEF Paused
    <3> QED
      BY <1>1, <1>5, <3>1 DEF Handshake, Tells
  <2>2. CASE GoesOn /\ PAUSE
    <3>1. GoesOn' /\ ~JTAG_start' /\ fState' = "start_jtag_machine"
      BY <1>1, <1>2, <1>3, <1>5, <2>2 DEF GoesOn
    <3> QED
      BY <1>1, <1>5, <3>1 DEF Handshake, Tells
  <2>3. CASE GoesOn /\ ~PAUSE
    <3>1. fState' = "check_result" /\ NotTold' /\ JTAG_busy' /\ ~PAUSE' /\ state' = "exit2"
      BY <1>1, <1>2, <1>3, <1>5, <2>3 DEF GoesOn, NotTold
    <3> QED
      BY <1>1, <3>1 DEF Handshake, Collects
  <2> QED
    BY <1>1, <1>5, <2>1, <2>2, <2>3 DEF Tells
<1> QED
  BY <1>4, <1>5

LEMMA CheckResultStep ==
  ASSUME Types, Handshake, CheckResult, UNCHANGED driverVars
  PROVE  Handshake' /\ fState' \in {"check_result", "wait_for_start", "get_data"}
         /\ input_mem_address' \in Nat
<1>1. fState = "check_result" /\ Collects /\ NotTold'
  BY DEF CheckResult, Handshake, Collects, NotTold
<1>2. state' = state /\ (hi' <=> hi) /\ (PAUSE' <=> PAUSE) /\ (JTAG_busy' <=> JTAG_busy)
  BY DEF driverVars
<1>3. \/ fState' = "check_result" /\ input_mem_address' = input_mem_address
      \/ fState' = "wait_for_start" /\ ~JTAG_busy /\ input_mem_address' = input_mem_address
      \/ fState' = "get_data" /\ JTAG_busy /\ PAUSE /\ input_mem_address' = input_mem_address + 1
  BY <1>1 DEF CheckResult
<1>4. input_mem_address' \in Nat /\ input_mem_address + 1 # 0
  BY <1>3 DEF Types
<1>5. CASE fState' = "check_result"
  <2>1. Collects'
    BY <1>1, <1>2 DEF Collects
  <2> QED
    BY <1>4, <1>5, <2>1 DEF Handshake
<1>6. CASE fState' = "wait_for_start" /\ ~JTAG_busy
  <2>1. AtRest'
    BY <1>1, <1>2, <1>6 DEF AtRest, Collects
  <2> QED
    BY <1>1, <1>4, <1>6, <2>1 DEF Handshake
<1>7. CASE fState' = "get_data" /\ JTAG_busy /\ PAUSE /\ input_mem_address' = input_mem_address + 1
  <2>1. Paused'
    BY <1>1, <1>2, <1>7 DEF Paused, Collects
  <2> QED
    BY <1>1, <1>4, <1>7, <2>1 DEF Handshake, Fetches
<1> QED
  BY <1>3, <1>5, <1>6, <1>7

(* The driver stands still on this clock; what it uses of the feeder does  *)
(* not change while it is under way.                                       *)
LEMMA ClkStep ==
  ASSUME IInv, Clk
  PROVE  IInv'
<1>1. Types /\ Handshake /\ Latched /\ Steady /\ TapFollows /\ ResetInv
  BY DEF IInv
<1>2. Feeder /\ Host /\ UNCHANGED driverVars /\ UNCHANGED chipVars
      /\ since' = IF since < Ratio THEN since + 1 ELSE since
  BY DEF Clk
<1>3. hostAddr' \in Nat
  <2>1. hostAddr' = hostAddr + 1 \/ hostAddr' = hostAddr
    BY <1>2 DEF Host, hostVars
  <2> QED
    BY <1>1, <2>1 DEF Types
<1>4. Handshake' /\ input_mem_address' \in Nat
      /\ fState' \in {"wait_for_start", "execute_RSTB", "get_data", "start_jtag_machine", "check_result"}
  <2>1. CASE WaitForStart
    BY <1>1, <1>2, <1>3, <2>1, WaitForStartStep
  <2>2. CASE ExecuteRSTB
    BY <1>1, <1>2, <2>2, ExecuteRSTBStep DEF Types
  <2>3. CASE GetData
    BY <1>1, <1>2, <2>3, GetDataStep DEF Types
  <2>4. CASE StartJtagMachine
    BY <1>1, <1>2, <2>4, StartJtagMachineStep DEF Types
  <2>5. CASE CheckResult
    BY <1>1, <1>2, <2>5, CheckResultStep
  <2> QED
    BY <1>2, <2>1, <2>2, <2>3, <2>4, <2>5 DEF Feeder
<1>5. /\ state' = state /\ hi' = hi /\ col' = col /\ sIR_DR' = sIR_DR /\ sDataLength' = sDataLength
      /\ sIR_DR_prev' = sIR_DR_prev /\ TX_bitCounter' = TX_bitCounter /\ sTCK' = sTCK
      /\ sTMS' = sTMS /\ tap' = tap
  BY <1>2 DEF driverVars, chipVars
<1>6. since' \in Nat
  BY <1>1, <1>2 DEF Types
<1>7. Types'
  BY <1>1, <1>3, <1>4, <1>5, <1>6 DEF Types
<1>8. UnderWay => TX' = TX /\ last' = last
  <2>1. SUFFICES ASSUME UnderWay PROVE TX' = TX /\ last' = last
    OBVIOUS
  <2>2. fState \in {"start_jtag_machine", "check_result"}
    BY <1>1, <2>1, FeederWaits
  <2>3. StartJtagMachine \/ CheckResult
    BY <1>2, <2>2 DEF Feeder, WaitForStart, ExecuteRSTB, GetData
  <2> QED
    BY <2>3 DEF StartJtagMachine, CheckResult
<1>9. Latched'
  BY <1>1, <1>5, <1>8 DEF Latched, UnderWay
<1>10. Steady'
  <2>1. SUFFICES ASSUME hi PROVE sTCK' = 0 /\ sTMS' = Announced' /\ state' # "hard_reset"
    BY <1>5 DEF Steady
  <2>2. last' = last /\ sTCK = 0 /\ sTMS = Announced /\ state # "hard_reset"
    BY <1>1, <1>8, <2>1 DEF UnderWay, Steady
  <2>3. Announced' = Announced
    BY <1>5, <2>2 DEF Announced, Tms, TowardsIR, LastBit, Same, Closes
  <2> QED
    BY <1>5, <2>2, <2>3
<1>11. TapFollows'
  BY <1>1, <1>5 DEF TapFollows, Reset, Idle
<1>12. ResetInv'
  BY <1>1, <1>5 DEF ResetInv, Resets, Reset
<1> QED
  BY <1>4, <1>7, <1>9, <1>10, <1>11, <1>12 DEF IInv
-----------------------------------------------------------------------------
(* The clock of the driver: the handshake.                                 *)

LEMMA LowHandshake ==
  ASSUME Types, Handshake, since = Ratio, since' = 0, Low, UNCHANGED feederVars
  PROVE  Handshake'
<1>1. since # 0
  BY JtagAssumption
<1>2. ~hi /\ ~Started /\ (GoesOn => state = "exit2" /\ PAUSE)
  BY <1>1 DEF Low, Started, GoesOn
<1>3. /\ fState' = fState /\ input_mem_address' = input_mem_address /\ (JTAG_go' <=> JTAG_go)
      /\ (input_address_zero' <=> input_address_zero) /\ (JTAG_start' <=> JTAG_start)
  BY DEF feederVars
<1>4. (JTAG_busy' <=> ~(Waits /\ state # "pause")) /\ (PAUSE' <=> state = "pause")
  BY ZenonT(20) DEF Low
<1>5. IF state = "logic_reset" /\ Waits
        THEN state' = "idle" /\ ~hi'
        ELSE state' = state /\ (hi' <=> ~Waits)
  <2>1. CASE state = "logic_reset" /\ Waits
    BY <2>1 DEF Low, Goes
  <2>2. CASE ~(state = "logic_reset" /\ Waits)
    <3>1. state' = state
      BY <2>2 DEF Low
    <3>2. hi' <=> ~Waits
      BY ZenonT(20) DEF Low
    <3> QED
      BY <2>2, <3>1, <3>2
  <2> QED
    BY <2>1, <2>2
<1>6. CASE state = "idle" /\ ~JTAG_start
  <2>1. AtRest'
    BY <1>4, <1>5, <1>6 DEF AtRest, Waits
  <2> QED
    BY <1>2, <1>3, <1>6, <2>1
       DEF Handshake, Fetches, Tells, Collects, NotTold, AtRest, Paused, GoesOn
<1>7. CASE state = "idle" /\ JTAG_start
  <2>1. fState = "start_jtag_machine" /\ input_address_zero /\ ~JTAG_go
    BY <1>7 DEF Handshake, Tells, Fetches, Collects, NotTold, Paused, GoesOn
  <2>2. Started'
    BY <1>3, <1>4, <1>5, <1>7 DEF Started, Waits
  <2> QED
    BY <1>3, <2>1, <2>2 DEF Handshake, Tells
<1>8. CASE state = "pause" /\ ~JTAG_go
  <2>1. Paused'
    BY <1>4, <1>5, <1>8 DEF Paused, Waits
  <2>2. ~AtRest /\ ~GoesOn
    BY <1>8 DEF AtRest, GoesOn
  <2> QED
    BY <1>2, <1>3, <2>1, <2>2 DEF Handshake, Fetches, Tells, Collects, NotTold, Paused
<1>9. CASE state = "pause" /\ JTAG_go
  <2>1. fState = "start_jtag_machine" /\ ~input_address_zero /\ ~JTAG_start
    BY <1>9 DEF Handshake, Tells, Fetches, Collects, NotTold, AtRest
  <2>2. GoesOn'
    BY <1>3, <1>4, <1>5, <1>9 DEF GoesOn, Waits
  <2> QED
    BY <1>3, <2>1, <2>2 DEF Handshake, Tells
<1>10. CASE state \notin {"idle", "pause"}
  <2>1. ~AtRest /\ ~Paused
    BY <1>10 DEF AtRest, Paused
  <2>2. CASE fState = "start_jtag_machine"
    <3>1. ~input_address_zero /\ ~JTAG_start /\ JTAG_go /\ state = "exit2"
      BY <1>2, <2>1, <2>2 DEF Handshake, Tells, GoesOn
    <3>2. GoesOn'
      BY <1>3, <1>4, <1>5, <3>1 DEF GoesOn, Waits
    <3> QED
      BY <1>3, <2>2, <3>1, <3>2 DEF Handshake, Tells
  <2>3. CASE fState = "check_result"
    <3>1. Collects'
      BY <1>3, <1>4, <1>5, <1>10, <2>3 DEF Handshake, Collects, NotTold, Waits
    <3> QED
      BY <1>3, <2>3, <3>1 DEF Handshake
  <2> QED
    BY <2>1, <2>2, <2>3 DEF Handshake, Fetches, Types
<1> QED
  BY <1>6, <1>7, <1>8, <1>9, <1>10

LEMMA HighHandshake ==
  ASSUME Types, Handshake, since = Ratio, High, UNCHANGED feederVars
  PROVE  Handshake'
<1>1. since # 0
  BY JtagAssumption
<1>2. hi /\ ~Started /\ ~AtRest /\ ~Paused /\ (GoesOn => state = "pause" /\ PAUSE)
  BY <1>1 DEF High, Started, GoesOn, AtRest, Paused
<1>3. /\ fState' = fState /\ (JTAG_go' <=> JTAG_go)
      /\ (input_address_zero' <=> input_address_zero) /\ (JTAG_start' <=> JTAG_start)
  BY DEF feederVars
<1>4. JTAG_busy' /\ (PAUSE' <=> state = "pause")
  BY ZenonT(20) DEF High
<1>5. ~hi' /\ (state = "pause" => state' = "exit2")
  BY DEF High, Goes
<1>6. CASE fState = "start_jtag_machine"
  <2>1. ~input_address_zero /\ ~JTAG_start /\ JTAG_go /\ state = "pause"
    BY <1>2, <1>6 DEF Handshake, Tells, GoesOn
  <2>2. GoesOn'
    BY <1>3, <1>4, <1>5, <2>1 DEF GoesOn
  <2> QED
    BY <1>3, <1>6, <2>1, <2>2 DEF Handshake, Tells
<1>7. CASE fState = "check_result"
  <2>1. Collects'
    BY <1>2, <1>3, <1>4, <1>5, <1>7 DEF Handshake, Collects, NotTold
  <2> QED
    BY <1>3, <1>7, <2>1 DEF Handshake
<1> QED
  BY <1>2, <1>6, <1>7 DEF Handshake, Fetches, Types

LEMMA HardResetHandshake ==
  ASSUME Types, Handshake, Steady, HardReset, UNCHANGED feederVars
  PROVE  Handshake'
<1>1. state = "hard_reset" /\ ~hi /\ ~Started /\ ~AtRest /\ ~Paused /\ ~GoesOn
  BY DEF HardReset, Steady, Started, AtRest, Paused, GoesOn
<1>2. fState' = fState /\ (JTAG_go' <=> JTAG_go) /\ (JTAG_start' <=> JTAG_start)
  BY DEF feederVars
<1>3. JTAG_busy' /\ ~PAUSE' /\ ~hi' /\ state' \in {"idle", "hard_reset"}
  BY <1>1 DEF HardReset, Goes
<1>4. fState = "check_result" /\ NotTold
  BY <1>1 DEF Handshake, Fetches, Tells, Collects, Types
<1> QED
  BY <1>2, <1>3, <1>4 DEF Handshake, Collects, NotTold
-----------------------------------------------------------------------------
(* The clock of the driver: TCK goes low.                                  *)

(* The chip's controller moves when TCK rises only.                        *)
LEMMA LowTap ==
  ASSUME Low, Chip
  PROVE  tap' = tap
<1>1. sTCK' = 0 /\ RSTB' = 1
  BY DEF Low
<1>2. ChipFalls \/ UNCHANGED chipVars
  BY <1>1 DEF Chip
<1> QED
  BY <1>2 DEF ChipFalls, chipVars

LEMMA LowStep ==
  ASSUME IInv, Low, Chip, UNCHANGED feederVars, sIR_DR' = TX.kind, sDataLength' = Len(TX.bits) - 1
  PROVE  /\ state' \in States /\ hi' \in BOOLEAN /\ col' \in {"IR", "DR"}
         /\ Latched' /\ Steady' /\ TapFollows' /\ ResetInv'
<1>1. Types /\ Latched /\ TapFollows /\ ResetInv /\ tap' = tap /\ ~hi /\ state # "hard_reset"
  BY LowTap DEF IInv, Low
<1>2. TX' = TX /\ last' = last
  BY DEF feederVars
<1>3. sTCK' = 0 /\ sTMS' = Tms /\ hi' = ~Waits
  BY DEF Low
<1>4. Latched'
  BY <1>2 DEF Latched
<1>5. state # "idle" /\ state # "pause" => sIR_DR' = sIR_DR /\ sDataLength' = sDataLength
  BY <1>1 DEF Latched, UnderWay
<1>6. CASE state = "logic_reset" /\ Waits
  <2>1. state' = "idle" /\ col' = "DR" /\ hi' = FALSE
    BY <1>6 DEF Low, Goes
  <2>2. tap' = Reset
    <3>1. TX_bitCounter = 5
      BY <1>6 DEF Waits
    <3> QED
      BY <1>1, <1>6, <3>1 DEF ResetInv
  <2>3. TapFollows'
    BY <2>1, <2>2 DEF TapFollows, Reset
  <2> QED
    BY <1>4, <2>1, <2>3 DEF States, Steady, ResetInv
<1>7. CASE ~(state = "logic_reset" /\ Waits)
  <2>1. state' = state /\ col' = col
    BY <1>7 DEF Low
  <2>2. hi' \in BOOLEAN /\ (hi' <=> ~Waits)
    BY <1>3, ZenonT(20)
  <2>3. TapFollows'
    BY <1>1, <2>1 DEF TapFollows, Reset, Idle
  <2>4. state' = "select" /\ hi' /\ Resets' => TX_bitCounter' = 0
    <3>1. SUFFICES ASSUME state = "select", Resets' PROVE TX_bitCounter' = 0
      BY <2>1
    <3>2. Resets
      BY <1>5, <2>1, <3>1 DEF Resets
    <3> QED
      BY <3>1, <3>2 DEF Low
  <2>5. ResetInv'
    BY <1>7, <2>1, <2>2, <2>4 DEF ResetInv
  <2>6. hi' => Announced' = Tms
    <3>1. SUFFICES ASSUME ~Waits PROVE Announced' = Tms
      BY <2>2
    <3>2. CASE state \in {"pause", "logic_reset"}
      BY <2>1, <3>1, <3>2 DEF Announced, Tms, Waits, One
    <3>3. CASE state \in {"idle", "init", "capture"}
      BY <2>1, <3>3 DEF Announced, Tms
    <3>4. CASE state = "select"
      BY <1>5, <2>1, <3>4 DEF Announced, Tms, One, TowardsIR
    <3>5. CASE state = "shift"
      <4>1. TX_bitCounter' = TX_bitCounter
        BY <3>5 DEF Low
      <4> QED
        BY <1>5, <2>1, <3>5, <4>1 DEF Announced, Tms, One, LastBit
    <3>6. CASE state = "exit1"
      BY <1>2, <2>1, <3>6 DEF Announced, Tms, One
    <3>7. CASE state \in {"exit2", "update"}
      <4>1. sIR_DR_prev' = sIR_DR_prev
        BY <3>7 DEF Low
      <4> QED
        BY <1>2, <1>5, <2>1, <3>7, <4>1 DEF Announced, Tms, One, Same, Closes
    <3> QED
      BY <1>1, <3>2, <3>3, <3>4, <3>5, <3>6, <3>7 DEF Types, States
  <2>7. Steady'
    BY <1>1, <1>3, <2>1, <2>6 DEF Steady
  <2> QED
    BY <1>1, <1>4, <2>1, <2>2, <2>3, <2>5, <2>7 DEF Types
<1> QED
  BY <1>6, <1>7
-----------------------------------------------------------------------------
(* The clock of the driver: TCK rises.                                     *)

(* The controller of the chip, from where the driver can meet it.          *)
LEMMA TapMoves ==
  /\ tap \in {Reset, Idle} => TapNext(0) = Idle
  /\ tap = Idle => TapNext(1) = <<"select", "DR">>
  /\ \A c \in {"IR", "DR"} :
       /\ tap = <<"select", c>> => TapNext(0) = <<"capture", c>>
       /\ \A s \in {"capture", "shift"} :
            tap = <<s, c>> => TapNext(0) = <<"shift", c>> /\ TapNext(1) = <<"exit1", c>>
       /\ tap = <<"exit1", c>> => TapNext(0) = <<"pause", c>> /\ TapNext(1) = <<"update", c>>
       /\ tap = <<"pause", c>> => TapNext(1) = <<"exit2", c>>
       /\ tap = <<"exit2", c>> => TapNext(0) = <<"shift", c>> /\ TapNext(1) = <<"update", c>>
       /\ tap = <<"update", c>> => TapNext(0) = Idle /\ TapNext(1) = <<"select", "DR">>
  /\ tap = <<"select", "DR">> => TapNext(1) = <<"select", "IR">>
  /\ tap \in {<<"select", "IR">>, Reset} => TapNext(1) = Reset
<1>1. /\ tap \in {Reset, Idle} => TapNext(0) = Idle
      /\ tap = Idle => TapNext(1) = <<"select", "DR">>
      /\ tap = <<"select", "DR">> => TapNext(1) = <<"select", "IR">>
      /\ tap \in {<<"select", "IR">>, Reset} => TapNext(1) = Reset
  BY DEF TapNext, Reset, Idle
<1>2. ASSUME NEW c \in {"IR", "DR"}
      PROVE  /\ tap = <<"select", c>> => TapNext(0) = <<"capture", c>>
             /\ \A s \in {"capture", "shift"} :
                  tap = <<s, c>> => TapNext(0) = <<"shift", c>> /\ TapNext(1) = <<"exit1", c>>
             /\ tap = <<"exit1", c>> => TapNext(0) = <<"pause", c>> /\ TapNext(1) = <<"update", c>>
             /\ tap = <<"pause", c>> => TapNext(1) = <<"exit2", c>>
             /\ tap = <<"exit2", c>> => TapNext(0) = <<"shift", c>> /\ TapNext(1) = <<"update", c>>
             /\ tap = <<"update", c>> => TapNext(0) = Idle /\ TapNext(1) = <<"select", "DR">>
  <2>1. \A s : tap = <<s, c>> => tap[1] = s /\ tap[2] = c
    OBVIOUS
  <2>2. tap[1] = "select" /\ tap[2] = c => TapNext(0) = <<"capture", c>>
    BY DEF TapNext
  <2>3. tap[1] \in {"capture", "shift"} /\ tap[2] = c
          => TapNext(0) = <<"shift", c>> /\ TapNext(1) = <<"exit1", c>>
    BY DEF TapNext
  <2>4. tap[1] = "exit1" /\ tap[2] = c
          => TapNext(0) = <<"pause", c>> /\ TapNext(1) = <<"update", c>>
    BY DEF TapNext
  <2>5. tap[1] = "pause" /\ tap[2] = c => TapNext(1) = <<"exit2", c>>
    BY DEF TapNext
  <2>6. tap[1] = "exit2" /\ tap[2] = c
          => TapNext(0) = <<"shift", c>> /\ TapNext(1) = <<"update", c>>
    BY DEF TapNext
  <2>7. tap[1] = "update" => TapNext(0) = Idle /\ TapNext(1) = <<"select", "DR">>
    BY DEF TapNext
  <2> QED
    BY <2>1, <2>2, <2>3, <2>4, <2>5, <2>6, <2>7
<1> QED
  BY <1>1, <1>2

LEMMA HighTap ==
  ASSUME Steady, High, Chip
  PROVE  tap' = TapNext(Announced)
<1>1. sTCK = 0 /\ sTCK' = 1 /\ RSTB' = 1 /\ sTMS' = Announced
  BY DEF Steady, High
<1>2. ChipRises
  BY <1>1 DEF Chip
<1> QED
  BY <1>1, <1>2 DEF ChipRises

LEMMA HighStep ==
  ASSUME IInv, High, Chip, UNCHANGED feederVars, sIR_DR' = TX.kind, sDataLength' = Len(TX.bits) - 1
  PROVE  /\ state' \in States /\ hi' \in BOOLEAN /\ col' \in {"IR", "DR"}
         /\ Latched' /\ Steady' /\ TapFollows' /\ ResetInv'
<1>1. Types /\ TapFollows /\ ResetInv /\ hi /\ state # "hard_reset" /\ tap' = TapNext(Announced)
  BY HighTap DEF IInv, High, Steady
<1>2. hi' = FALSE
  BY DEF High, Goes
<1>3. Latched' /\ Steady'
  BY <1>2 DEF Latched, Steady, feederVars
<1>4. SUFFICES state' \in States /\ col' \in {"IR", "DR"} /\ TapFollows' /\ ResetInv'
  BY <1>2, <1>3
<1>5. state' # "logic_reset" => ResetInv'
  BY <1>2 DEF ResetInv
<1>6. CASE state = "idle"
  <2>1. state' = "init" /\ col' = "DR"
    BY <1>6 DEF High, Goes
  <2>2. tap' = Idle
    BY <1>1, <1>6, TapMoves DEF TapFollows, Announced, Tms
  <2> QED
    BY <1>5, <2>1, <2>2 DEF TapFollows, Idle, States
<1>7. CASE state = "init"
  <2>1. state' = "select" /\ col' = "DR"
    BY <1>7 DEF High, Goes
  <2>2. tap' = <<"select", "DR">>
    BY <1>1, <1>7, TapMoves DEF TapFollows, Announced, Tms
  <2> QED
    BY <1>5, <2>1, <2>2 DEF TapFollows, States
<1>8. CASE state = "select"
  <2>1. tap = <<"select", col>> /\ col \in {"IR", "DR"} /\ Announced = One(TowardsIR)
    BY <1>1, <1>8 DEF Types, TapFollows, Announced, Tms
  <2>2. CASE col = "DR" /\ sIR_DR = "IR"
    <3>1. state' = "select" /\ col' = "IR"
      BY <1>8, <2>2 DEF High, Goes
    <3>2. tap' = <<"select", "IR">>
      BY <1>1, <2>1, <2>2, TapMoves DEF One, TowardsIR
    <3> QED
      BY <1>5, <3>1, <3>2 DEF TapFollows, States
  <2>3. CASE sIR_DR = "SRT"
    <3>1. state' = "logic_reset" /\ col' = "DR" /\ TX_bitCounter' = TX_bitCounter
      BY <1>8, <2>3 DEF High, Goes
    <3>2. tap' \in {<<"select", "IR">>, Reset}
      <4>1. tap' = TapNext(1)
        BY <1>1, <2>1, <2>3 DEF One, TowardsIR
      <4>2. col = "DR" => tap' = <<"select", "IR">>
        BY <2>1, <4>1, TapMoves
      <4>3. col = "IR" => tap' = Reset
        BY <2>1, <4>1, TapMoves
      <4> QED
        BY <2>1, <4>2, <4>3
    <3>3. TX_bitCounter = 0
      BY <1>1, <1>8, <2>3 DEF ResetInv, Resets
    <3>4. TapFollows'
      BY <3>1, <3>2 DEF TapFollows, Reset
    <3> QED
      BY <3>1, <3>3, <3>4 DEF ResetInv, States
  <2>4. CASE ~(col = "DR" /\ sIR_DR = "IR") /\ sIR_DR # "SRT"
    <3>1. tap' = <<"capture", col>>
      BY <1>1, <2>1, <2>4, TapMoves DEF One, TowardsIR
    <3>2. CASE col = "DR" /\ sIR_DR = "HRT"
      <4>1. state' = "hard_reset" /\ col' = "DR"
        BY <1>8, <2>4, <3>2 DEF High, Goes
      <4> QED
        BY <1>5, <3>1, <3>2, <4>1 DEF TapFollows, States
    <3>3. CASE ~(col = "DR" /\ sIR_DR = "HRT")
      <4>1. state' = "capture" /\ col' = col
        BY <1>8, <2>4, <3>3 DEF High, Goes
      <4> QED
        BY <1>5, <2>1, <3>1, <4>1 DEF TapFollows, States
    <3> QED
      BY <3>2, <3>3
  <2> QED
    BY <2>2, <2>3, <2>4
<1>9. CASE state \in {"capture", "shift", "exit1", "pause", "exit2", "update"}
  <2>1. tap = <<state, col>> /\ col \in {"IR", "DR"}
    BY <1>1, <1>9 DEF Types, TapFollows
  <2>2. /\ state' \in {"shift", "exit1", "pause", "exit2", "update", "idle", "select"}
        /\ col' \in {"IR", "DR"}
        /\ IF state' = "idle" THEN tap' = Idle ELSE tap' = <<state', col'>>
    <3>1. CASE state = "capture"
      <4>1. state' = "shift" /\ col' = col
        BY <3>1 DEF High, Goes
      <4>2. tap' = <<"shift", col>>
        BY <1>1, <2>1, <3>1, TapMoves DEF Announced, Tms
      <4> QED
        BY <2>1, <4>1, <4>2
    <3>2. CASE state = "shift"
      <4>1. state' = (IF LastBit THEN "exit1" ELSE "shift") /\ col' = col
        BY <3>2 DEF High, Goes
      <4>2. tap' = <<IF LastBit THEN "exit1" ELSE "shift", col>>
        BY <1>1, <2>1, <3>2, TapMoves DEF Announced, Tms, One
      <4> QED
        BY <2>1, <4>1, <4>2
    <3>3. CASE state = "exit1"
      <4>1. state' = (IF last THEN "update" ELSE "pause") /\ col' = col
        BY <3>3 DEF High, Goes
      <4>2. tap' = <<IF last THEN "update" ELSE "pause", col>>
        BY <1>1, <2>1, <3>3, TapMoves DEF Announced, Tms, One
      <4> QED
        BY <2>1, <4>1, <4>2
    <3>4. CASE state = "pause"
      <4>1. state' = "exit2" /\ col' = col
        BY <3>4 DEF High, Goes
      <4>2. tap' = <<"exit2", col>>
        BY <1>1, <2>1, <3>4, TapMoves DEF Announced
      <4> QED
        BY <2>1, <4>1, <4>2
    <3>5. CASE state = "exit2"
      <4>1. state' = (IF Same THEN "shift" ELSE "update") /\ col' = col
        BY <3>5 DEF High, Goes
      <4>2. tap' = <<IF Same THEN "shift" ELSE "update", col>>
        BY <1>1, <2>1, <3>5, TapMoves DEF Announced, Tms, One
      <4> QED
        BY <2>1, <4>1, <4>2
    <3>6. CASE state = "update"
      <4>1. IF Closes THEN state' = "idle" /\ col' = "DR" ELSE state' = "select" /\ col' = "DR"
        BY <3>6 DEF High, Goes
      <4>2. tap' = IF Closes THEN Idle ELSE <<"select", "DR">>
        BY <1>1, <2>1, <3>6, TapMoves DEF Announced, Tms, One
      <4> QED
        BY <4>1, <4>2
    <3> QED
      BY <1>9, <3>1, <3>2, <3>3, <3>4, <3>5, <3>6
  <2>3. TapFollows'
    BY <2>2 DEF TapFollows
  <2> QED
    BY <1>5, <2>2, <2>3 DEF States
<1>10. CASE state = "logic_reset"
  <2>1. state' = "logic_reset" /\ col' = "DR"
    BY <1>10 DEF High, Goes
  <2>2. tap' = Reset
    BY <1>1, <1>10, TapMoves DEF TapFollows, Announced
  <2>3. TapFollows'
    BY <2>1, <2>2 DEF TapFollows, Reset
  <2>4. ResetInv'
    BY <2>1, <2>2 DEF ResetInv, Reset
  <2> QED
    BY <2>1, <2>3, <2>4 DEF States
<1> QED
  BY <1>1, <1>6, <1>7, <1>8, <1>9, <1>10 DEF Types, States
-----------------------------------------------------------------------------
(* The reset line of the chip.                                             *)
LEMMA HardResetStep ==
  ASSUME IInv, HardReset, Chip, UNCHANGED feederVars, sIR_DR' = TX.kind,
         sDataLength' = Len(TX.bits) - 1
  PROVE  /\ state' \in States /\ hi' \in BOOLEAN /\ col' \in {"IR", "DR"}
         /\ Latched' /\ Steady' /\ TapFollows' /\ ResetInv'
<1>1. Types /\ Steady /\ state = "hard_reset" /\ ~hi
  BY DEF IInv, HardReset, Steady
<1>2. hi' = FALSE /\ state' \in {"idle", "hard_reset"} /\ col' \in {"IR", "DR"}
  <2>1. CASE LastBit
    BY <2>1 DEF HardReset, Goes
  <2>2. CASE ~LastBit
    <3>1. state' = state /\ col' = col /\ hi' = hi
      BY <2>2 DEF HardReset
    <3>2. hi = FALSE
      BY <1>1 DEF Types
    <3> QED
      BY <1>1, <3>1, <3>2 DEF Types
  <2> QED
    BY <2>1, <2>2
<1>3. tap' = Reset
  <2>1. RSTB' = 0
    BY DEF HardReset
  <2> QED
    BY <2>1 DEF Chip, ChipReset
<1>4. Latched' /\ Steady' /\ ResetInv'
  BY <1>2 DEF Latched, Steady, ResetInv, feederVars
<1>5. TapFollows'
  BY <1>2, <1>3 DEF TapFollows, Reset
<1> QED
  BY <1>2, <1>4, <1>5 DEF States

LEMMA DividedClkStep ==
  ASSUME IInv, DividedClk
  PROVE  IInv'
<1>1. Types /\ Handshake /\ Steady /\ since = Ratio /\ since' = 0 /\ Driver /\ Chip
      /\ UNCHANGED feederVars /\ UNCHANGED hostVars
  BY DEF IInv, DividedClk
<1>2. sIR_DR' = TX.kind /\ sDataLength' = Len(TX.bits) - 1 /\ (Low \/ High \/ HardReset)
  BY <1>1 DEF Driver
<1>3. Handshake'
  BY <1>1, <1>2, LowHandshake, HighHandshake, HardResetHandshake
<1>4. /\ state' \in States /\ hi' \in BOOLEAN /\ col' \in {"IR", "DR"}
      /\ Latched' /\ Steady' /\ TapFollows' /\ ResetInv'
  <2>1. CASE Low
    BY <1>1, <1>2, <2>1, LowStep
  <2>2. CASE High
    BY <1>1, <1>2, <2>2, HighStep
  <2>3. CASE HardReset
    BY <1>1, <1>2, <2>3, HardResetStep
  <2> QED
    BY <1>2, <2>1, <2>2, <2>3
<1>5. Types'
  <2>1. fState' = fState /\ input_mem_address' = input_mem_address /\ hostAddr' = hostAddr
    BY <1>1 DEF feederVars, hostVars
  <2> QED
    BY <1>1, <1>4, <2>1 DEF Types
<1> QED
  BY <1>3, <1>4, <1>5 DEF IInv

(* Between two programs the host alone moves, and in a stutter nobody.     *)
LEMMA OthersStep ==
  ASSUME IInv, NextProgram \/ UNCHANGED vars
  PROVE  IInv'
<1>1. UNCHANGED <<feederVars, driverVars, chipVars, since>> /\ (hostAddr' = 0 \/ hostAddr' = hostAddr)
  BY DEF NextProgram, vars, hostVars
<1>2. /\ fState' = fState /\ input_mem_address' = input_mem_address /\ since' = since
      /\ input_address_zero' = input_address_zero /\ JTAG_go' = JTAG_go /\ JTAG_start' = JTAG_start
      /\ TX' = TX /\ last' = last
      /\ state' = state /\ hi' = hi /\ col' = col /\ sIR_DR' = sIR_DR /\ sDataLength' = sDataLength
      /\ sIR_DR_prev' = sIR_DR_prev /\ TX_bitCounter' = TX_bitCounter /\ sTCK' = sTCK
      /\ sTMS' = sTMS /\ JTAG_busy' = JTAG_busy /\ PAUSE' = PAUSE /\ tap' = tap
  BY <1>1 DEF feederVars, driverVars, chipVars
<1>3. Types'
  BY <1>1, <1>2 DEF IInv, Types
<1>4. Handshake'
  <2>1. AtRest' = AtRest /\ Paused' = Paused /\ NotTold' = NotTold
    BY <1>2 DEF AtRest, Paused, NotTold
  <2>2. Started' = Started /\ GoesOn' = GoesOn /\ Collects' = Collects
    BY <1>2, <2>1 DEF Started, GoesOn, Collects, NotTold
  <2> QED
    BY <1>2, <2>1, <2>2 DEF IInv, Handshake, Fetches, Tells
<1>5. Latched'
  BY <1>2 DEF IInv, Latched, UnderWay
<1>6. Steady'
  BY <1>2 DEF IInv, Steady, Announced, Tms, TowardsIR, LastBit, Same, Closes
<1>7. TapFollows' /\ ResetInv'
  BY <1>2 DEF IInv, TapFollows, ResetInv, Resets, Reset, Idle
<1> QED
  BY <1>3, <1>4, <1>5, <1>6, <1>7 DEF IInv
-----------------------------------------------------------------------------
(* The driver's idea of the chip's controller is right in every reachable  *)
(* state, for every program, word length and ratio of the clocks: the      *)
(* registers of the chip are shifted, captured and updated when the driver *)
(* means it, and a reset of the chip ends where the driver begins again    *)
(* (property TapFollows).                                                  *)
THEOREM DriverFollows == Spec => []TapFollows
<1>1. ASSUME IInv, [Next]_vars PROVE IInv'
  BY <1>1, ClkStep, DividedClkStep, OthersStep DEF Next
<1>2. IInv => TapFollows
  BY DEF IInv
<1> QED
  BY InitInvariant, <1>1, <1>2, PTL DEF Spec
-----------------------------------------------------------------------------
(* How long a program takes.  Words are asked for and collected by the     *)
(* feeder within a few of its clocks, of which the driver's take two or    *)
(* more; Work counts what is left to do for the present word, in half      *)
(* clocks of the driver.                                                   *)

Typed ==
  /\ session \in Sessions /\ runs \in Nat /\ runs < Len(session)
  /\ hostPc \in {"write", "start", "reset", "sleep"}
  /\ hostPc = "write" => hostAddr < Len(program)
  /\ inputMem \in [Address -> Words] /\ word \in Words /\ TX \in Words
  /\ iWordCnt \in 0 .. MaxWords /\ ticks \in Nat /\ last \in BOOLEAN /\ outputMem_WEN \in BOOLEAN

(* The bit counter where the driver uses it, and the scan it has chosen.   *)
Counted ==
  /\ TX_bitCounter \in Nat
  /\ state \in {"init", "select", "capture", "exit1", "pause", "exit2", "update"} => TX_bitCounter = 0
  /\ state = "idle" /\ hi => TX_bitCounter = 0
  /\ state \in {"shift", "hard_reset"} => TX_bitCounter <= sDataLength
  /\ state = "logic_reset" => TX_bitCounter <= 5
  /\ state = "select" /\ col = "IR" => sIR_DR = "IR"

(* A scan that ends without a pause was the last.                          *)
LastKept ==
  /\ state = "exit1" /\ hi => Same
  /\ state = "update" /\ Same => last
  /\ fState = "check_result" /\ state = "pause" => ~last

(* The words asked for: the one in work is counted, unless the program is  *)
(* stopped with it, by the limit or by the reset line.                     *)
Barren == TX.kind = "HRT" /\ (state \in {"idle", "init", "hard_reset"} \/ (state = "select" /\ col = "DR"))
WordsCounted ==
  /\ fState # "wait_for_start" => input_mem_address <= iWordCnt
  /\ fState = "get_data" => delay_cnt \in 0 .. 5
  /\ fState = "execute_RSTB" => input_mem_address = 0
  /\ fState \in {"start_jtag_machine", "check_result"} => input_mem_address < iWordCnt \/ last \/ Barren

(* The feeder collects a result before the driver's next clock.            *)
CollectsInTime ==
  fState = "check_result" =>
    IF JTAG_busy /\ ~PAUSE THEN outputMem_WEN \/ since <= 1 ELSE outputMem_WEN /\ since = 0

Elapsed == IF since < 2 THEN since ELSE 2
Longest == 2 * Width + 18       \* driver clocks of a word, from JTAG_go
Remaining ==
  CASE state = "idle"        -> IF hi THEN 2 * Width + 15 ELSE 1
    [] state = "pause"       -> IF hi THEN 2 * Width + 17 ELSE 4
    [] state = "logic_reset" -> (IF hi THEN 12 ELSE 11) - 2 * TX_bitCounter
    [] state = "hard_reset"  -> Width + 2 - TX_bitCounter
    [] state = "init"        -> (2 * Width + 14) - One(hi)
    [] state = "select"      -> (2 * Width + (IF col = "DR" THEN 12 ELSE 10)) - One(hi)
    [] state = "capture"     -> (2 * Width + 8) - One(hi)
    [] state = "shift"       -> (2 * Width + 6) - (2 * TX_bitCounter + One(hi))
    [] state = "exit1"       -> 6 - One(hi)
    [] state = "exit2"       -> (2 * Width + 16) - One(hi)
    [] OTHER                 -> (IF Same THEN 4 ELSE 2 * Width + 14) - One(hi)

Work ==
  CASE fState = "execute_RSTB" -> 1 + Elapsed + 2 * Longest
    [] fState = "get_data"     -> (6 - delay_cnt) + Elapsed + 2 * Longest
    [] fState = "start_jtag_machine" ->
         IF UnderWay THEN 2 * Remaining
         ELSE IF JTAG_start \/ JTAG_go THEN 2 * Longest ELSE Elapsed + 2 * Longest
    [] fState = "check_result" -> IF ~JTAG_busy THEN 0 ELSE IF PAUSE THEN 5 ELSE 2 * Remaining
    [] OTHER -> 0

InTime == fState # "wait_for_start" => 2 * ticks + Work <= 2 * Allowed(input_mem_address + 1)

DInv == Typed /\ Counted /\ LastKept /\ WordsCounted /\ CollectsInTime /\ InTime

LEMMA AllowedFacts ==
  /\ \A n \in Nat : Allowed(n) \in Nat /\ Allowed(n + 1) = Allowed(n) + (2 * Width + 19)
  /\ \A m, n \in Nat : m <= n => Allowed(m) <= Allowed(n)
  /\ Allowed(1) = 2 * Width + 22
<1> DEFINE cost == 2 * Width + 19
<1>1. cost \in Nat
  BY JtagAssumption
<1>2. \A n, c \in Nat : n * c \in Nat /\ (n + 1) * c = n * c + c /\ 1 * c = c
  OBVIOUS
<1>3. \A m, n, c \in Nat : m <= n => m * c <= n * c
  OBVIOUS
<1>4. \A n \in Nat : Allowed(n) = 3 + n * cost
  BY DEF Allowed
<1>5. Allowed(1) = 2 * Width + 22
  <2>1. Allowed(1) = 3 + cost
    BY <1>1, <1>2, <1>4
  <2> QED
    BY <2>1, JtagAssumption
<1> HIDE DEF cost
<1>6. \A n \in Nat : Allowed(n) \in Nat /\ Allowed(n + 1) = Allowed(n) + cost
  BY <1>1, <1>2, <1>4
<1>7. \A m, n \in Nat : m <= n => Allowed(m) <= Allowed(n)
  BY <1>1, <1>2, <1>3, <1>4
<1> QED
  BY <1>5, <1>6, <1>7 DEF cost

(* What the driver has latched of a word fits the registers.               *)
LEMMA LengthFits ==
  ASSUME Typed, Latched, UnderWay
  PROVE  sDataLength \in Nat /\ sDataLength < Width /\ Width \in Nat
<1>1. TX \in Words /\ sDataLength = Len(TX.bits) - 1
  BY DEF Typed, Latched
<1>2. Len(TX.bits) \in 1 .. Width /\ Width \in Nat
  BY <1>1, JtagAssumption DEF Words
<1> QED
  BY <1>1, <1>2

LEMMA RemainingType ==
  ASSUME Types, Typed, Counted, Latched
  PROVE  Remaining \in Nat
<1>1. Width \in Nat /\ Width > 0 /\ TX_bitCounter \in Nat
  BY JtagAssumption DEF Counted
<1>2. One(hi) \in {0, 1}
  BY DEF One
<1>3. CASE state \in {"shift", "hard_reset"}
  <2>1. TX_bitCounter < Width
    BY <1>1, <1>3, LengthFits DEF Counted, UnderWay
  <2>2. state = "shift" => Remaining = (2 * Width + 6) - (2 * TX_bitCounter + One(hi))
    BY DEF Remaining
  <2>3. state = "hard_reset" => Remaining = Width + 2 - TX_bitCounter
    BY DEF Remaining
  <2> QED
    BY <1>1, <1>2, <1>3, <2>1, <2>2, <2>3
<1>4. CASE state = "logic_reset"
  BY <1>1, <1>4 DEF Counted, Remaining
<1>5. CASE state \notin {"shift", "hard_reset", "logic_reset"}
  BY <1>1, <1>2, <1>5 DEF Remaining
<1> QED
  BY <1>3, <1>4, <1>5

LEMMA WorkType ==
  ASSUME IInv, Typed, Counted, WordsCounted
  PROVE  Work \in Nat /\ Elapsed \in {0, 1, 2}
<1>1. Elapsed \in {0, 1, 2}
  BY DEF IInv, Types, Elapsed
<1>2. Remaining \in Nat /\ Longest \in Nat
  BY RemainingType, JtagAssumption DEF IInv, Longest
<1>3. fState = "get_data" => 6 - delay_cnt \in Nat
  BY DEF WordsCounted
<1> QED
  BY <1>1, <1>2, <1>3 DEF Work

(* A clock of the feeder: the driver stands still, and at most one more of *)
(* the clocks that bring its next is gone.                                 *)
LEMMA ClkFacts ==
  ASSUME IInv, DInv, Clk
  PROVE  /\ Feeder /\ Host /\ UNCHANGED driverVars
         /\ Remaining' = Remaining /\ (UnderWay' <=> UnderWay) /\ (Barren => (Barren' <=> TX'.kind = "HRT"))
         /\ ticks' \in Nat /\ ticks' <= ticks
         /\ Elapsed \in {0, 1, 2} /\ Elapsed' \in {0, 1, 2} /\ Elapsed' <= Elapsed + 1
         /\ (since = 0 => Elapsed' <= 1 /\ since' <= 1)
<1>1. Feeder /\ Host /\ UNCHANGED driverVars
      /\ since' = IF since < Ratio THEN since + 1 ELSE since
  BY DEF Clk
<1>2. since \in Nat /\ Ratio \in Nat /\ Ratio > 1 /\ ticks \in Nat
  BY JtagAssumption DEF IInv, Types, DInv, Typed
<1>3. ticks' = 0 \/ ticks' = ticks
  BY DEF Clk
<1>4. /\ state' = state /\ hi' = hi /\ col' = col /\ sIR_DR' = sIR_DR /\ sIR_DR_prev' = sIR_DR_prev
      /\ TX_bitCounter' = TX_bitCounter
  BY <1>1 DEF driverVars
<1>5. Remaining' = Remaining
  BY <1>4 DEF Remaining, One, Same
<1>6. (UnderWay' <=> UnderWay) /\ (Barren => (Barren' <=> TX'.kind = "HRT"))
  BY <1>4 DEF UnderWay, Barren
<1>7. /\ Elapsed \in {0, 1, 2} /\ Elapsed' \in {0, 1, 2} /\ Elapsed' <= Elapsed + 1
      /\ (since = 0 => Elapsed' <= 1 /\ since' <= 1)
  BY <1>1, <1>2 DEF Elapsed
<1> QED
  BY <1>1, <1>2, <1>3, <1>5, <1>6, <1>7

(* What a clock of the feeder has to keep.                                 *)
Kept ==
  /\ word \in Words /\ TX \in Words /\ iWordCnt \in 0 .. MaxWords /\ last \in BOOLEAN
  /\ outputMem_WEN \in BOOLEAN
  /\ fState = "check_result" /\ state = "pause" => ~last
  /\ WordsCounted /\ CollectsInTime /\ InTime

(* A clock that leaves no more work for the same word keeps the time.      *)
LEMMA NoMoreWork ==
  ASSUME IInv, DInv, Clk, fState # "wait_for_start", input_mem_address' = input_mem_address,
         Work' \in Int, Work' <= Work
  PROVE  InTime'
<1>1. 2 * ticks + Work <= 2 * Allowed(input_mem_address + 1)
  BY DEF DInv, InTime
<1>2. Work \in Int /\ ticks \in Int /\ ticks' \in Int /\ ticks' <= ticks
  BY WorkType, ClkFacts DEF DInv, Typed
<1>3. Allowed(input_mem_address + 1) \in Int
  <2>1. input_mem_address + 1 \in Nat
    BY DEF IInv, Types
  <2> QED
    BY <2>1, AllowedFacts
<1>4. \A s, t, u, v, a \in Int : 2 * s + u <= 2 * a /\ t <= s /\ v <= u => 2 * t + v <= 2 * a
  OBVIOUS
<1>5. 2 * ticks' + Work' <= 2 * Allowed(input_mem_address + 1)
  BY <1>1, <1>2, <1>3, <1>4
<1> QED
  BY <1>5 DEF InTime, Allowed

LEMMA WaitForStartTime ==
  ASSUME IInv, DInv, Clk, WaitForStart
  PROVE  Kept'
<1>1. /\ word' = word /\ TX' = TX /\ last' = last /\ iWordCnt' = 0 /\ outputMem_WEN' = FALSE
      /\ delay_cnt' = 0
      /\ \/ fState' = "wait_for_start"
         \/ fState' \in {"execute_RSTB", "get_data"} /\ input_mem_address' = 0 /\ ticks' = 0
  BY DEF WaitForStart, Start, Clk
<1>2. word' \in Words /\ TX' \in Words /\ iWordCnt' \in 0 .. MaxWords /\ last' \in BOOLEAN
      /\ outputMem_WEN' \in BOOLEAN
  <2>1. word' \in Words /\ TX' \in Words /\ last' \in BOOLEAN
    BY <1>1 DEF DInv, Typed
  <2>2. iWordCnt' \in 0 .. MaxWords
    BY <1>1, JtagAssumption
  <2> QED
    BY <1>1, <2>1, <2>2
<1>3. WordsCounted'
  BY <1>1 DEF WordsCounted
<1>4. CollectsInTime'
  BY <1>1 DEF CollectsInTime
<1>5. InTime'
  <2>1. SUFFICES ASSUME fState' # "wait_for_start"
                 PROVE  2 * ticks' + Work' <= 2 * (Allowed(input_mem_address + 1))'
    BY DEF InTime
  <2>2. fState' \in {"execute_RSTB", "get_data"} /\ input_mem_address' = 0 /\ ticks' = 0
    BY <1>1, <2>1
  <2>3. Allowed(input_mem_address' + 1) = 2 * Width + 22
    BY <2>2, AllowedFacts
  <2>4. Elapsed' \in {0, 1, 2} /\ Longest' = 2 * Width + 18 /\ Width \in Nat
    BY ClkFacts, JtagAssumption DEF Longest
  <2>5. Work' <= 6 + Elapsed' + 2 * Longest' /\ Work' \in Int
    <3>1. delay_cnt' = 0
      BY <1>1
    <3>2. fState' = "execute_RSTB" => Work' = 1 + Elapsed' + 2 * Longest'
      BY DEF Work
    <3>3. fState' = "get_data" => Work' = (6 - delay_cnt') + Elapsed' + 2 * Longest'
      BY DEF Work
    <3> QED
      BY <2>2, <2>4, <3>1, <3>2, <3>3
  <2>6. \A n, k, e, l, w \in Int : n = 0 /\ k <= 6 + e + 2 * l /\ e <= 2 /\ l = 2 * w + 18
                                   => 2 * n + k <= 2 * (2 * w + 22)
    OBVIOUS
  <2>7. 2 * ticks' + Work' <= 2 * (2 * Width + 22)
    <3>1. ticks' \in Int /\ Elapsed' \in Int /\ Longest' \in Int /\ Width \in Int
      BY <2>2, <2>4
    <3>2. ticks' = 0 /\ Elapsed' <= 2 /\ Longest' = 2 * Width + 18
      BY <2>2, <2>4
    <3> QED
      BY <2>5, <2>6, <3>1, <3>2
  <2> QED
    BY <2>3, <2>7 DEF Allowed
<1> QED
  BY <1>1, <1>2, <1>3, <1>4, <1>5 DEF Kept

LEMMA ExecuteRSTBTime ==
  ASSUME IInv, DInv, Clk, ExecuteRSTB
  PROVE  Kept'
<1>1. /\ fState = "execute_RSTB" /\ fState' = "start_jtag_machine" /\ ~JTAG_start' /\ ~JTAG_go'
      /\ last' = FALSE /\ word' = word /\ iWordCnt' = iWordCnt /\ outputMem_WEN' = outputMem_WEN
      /\ input_mem_address' = input_mem_address
      /\ TX' = [end |-> FALSE, kind |-> "HRT", bits |-> [i \in 1 .. Width |-> 0]]
  BY DEF ExecuteRSTB
<1>2. AtRest /\ input_mem_address = 0 /\ iWordCnt \in 0 .. MaxWords
  BY <1>1 DEF IInv, Handshake, DInv, WordsCounted, Typed
<1>3. TX' \in Words
  <2> DEFINE b == [i \in 1 .. Width |-> 0]
  <2>1. b \in Seq({0, 1}) /\ Len(b) = Width
    BY JtagAssumption
  <2> HIDE DEF b
  <2>2. TX' = [end |-> FALSE, kind |-> "HRT", bits |-> b]
    BY <1>1 DEF b
  <2>3. Len(b) \in 1 .. Width
    BY <2>1, JtagAssumption
  <2> QED
    BY <2>1, <2>2, <2>3 DEF Words, Kinds
<1>4. /\ word' \in Words /\ iWordCnt' \in 0 .. MaxWords /\ last' \in BOOLEAN
      /\ outputMem_WEN' \in BOOLEAN
  BY <1>1 DEF DInv, Typed
<1>5. state' = state
  BY ClkFacts DEF driverVars
<1>6. WordsCounted'
  <2>1. Barren'
    BY <1>1, <1>2, <1>5 DEF Barren, AtRest
  <2> QED
    BY <1>1, <1>2, <1>4, <2>1 DEF WordsCounted
<1>7. CollectsInTime'
  BY <1>1 DEF CollectsInTime
<1>8. InTime'
  <2>1. ~UnderWay'
    BY <1>2, ClkFacts DEF UnderWay, AtRest
  <2>2. Work' = Elapsed' + 2 * Longest' /\ Longest' = Longest /\ Longest \in Nat
    BY <1>1, <2>1, JtagAssumption DEF Work, Longest
  <2>3. Work = 1 + Elapsed + 2 * Longest
    BY <1>1 DEF Work
  <2>4. 2 * ticks + Work <= 2 * Allowed(input_mem_address + 1)
    BY <1>1 DEF DInv, InTime
  <2>5. Allowed(input_mem_address + 1) \in Nat /\ ticks \in Nat
    BY <1>2, AllowedFacts DEF DInv, Typed
  <2> HIDE DEF Allowed
  <2>6. 2 * ticks' + Work' <= 2 * Allowed(input_mem_address + 1)
    BY <2>2, <2>3, <2>4, <2>5, ClkFacts
  <2> QED
    BY <1>1, <2>6 DEF InTime, Allowed
<1> QED
  BY <1>1, <1>3, <1>4, <1>6, <1>7, <1>8 DEF Kept

LEMMA GetDataTime ==
  ASSUME IInv, DInv, Clk, GetData
  PROVE  Kept'
<1>1. /\ fState = "get_data" /\ delay_cnt' = delay_cnt + 1 /\ ~JTAG_start' /\ ~JTAG_go'
      /\ input_mem_address' = input_mem_address /\ outputMem_WEN' = outputMem_WEN
      /\ word' = IF delay_cnt = 3 THEN inputMem[input_mem_address] ELSE word
  BY DEF GetData
<1>2. /\ iWordCnt \in 0 .. MaxWords /\ MaxWords \in Nat /\ word \in Words /\ TX \in Words
      /\ input_mem_address \in Nat /\ input_mem_address <= iWordCnt /\ delay_cnt \in 0 .. 5
  BY <1>1, JtagAssumption DEF IInv, Types, DInv, Typed, WordsCounted
<1>3. /\ fState' = "get_data" \/ fState' = "start_jtag_machine"
      /\ fState' = "get_data" => delay_cnt # 5 /\ iWordCnt' = iWordCnt /\ last' = last /\ TX' = TX
      /\ fState' = "start_jtag_machine" =>
           /\ delay_cnt = 5 /\ last' = (Forced(iWordCnt) \/ word.end) /\ TX' = word
           /\ iWordCnt' = IF Forced(iWordCnt) THEN iWordCnt ELSE iWordCnt + 1
  BY <1>1 DEF GetData
<1>4. word' \in Words /\ TX' \in Words
  <2>1. inputMem[input_mem_address] \in Words
    <3>1. input_mem_address \in Address
      BY <1>2 DEF Address
    <3> QED
      BY <3>1 DEF DInv, Typed
  <2> QED
    BY <1>1, <1>2, <1>3, <2>1
<1>5. iWordCnt' \in 0 .. MaxWords /\ (iWordCnt' = iWordCnt \/ iWordCnt' = iWordCnt + 1)
  BY <1>2, <1>3 DEF Forced
<1>6. last' \in BOOLEAN /\ outputMem_WEN' \in BOOLEAN
  <2>1. last \in BOOLEAN /\ outputMem_WEN \in BOOLEAN
    BY DEF DInv, Typed
  <2> QED
    BY <1>1, <1>3, <2>1
<1>7. fState' = "start_jtag_machine" => input_mem_address' < iWordCnt' \/ last'
  <2>1. fState' = "start_jtag_machine" /\ Forced(iWordCnt) => last'
    BY <1>3, ZenonT(20)
  <2>2. fState' = "start_jtag_machine" /\ ~Forced(iWordCnt) => iWordCnt' = iWordCnt + 1
    BY <1>3
  <2>3. input_mem_address \in Int /\ iWordCnt \in Int /\ input_mem_address <= iWordCnt
    BY <1>2
  <2> QED
    BY <1>1, <2>1, <2>2, <2>3
<1>8. WordsCounted'
  BY <1>1, <1>2, <1>3, <1>5, <1>7 DEF WordsCounted
<1>9. CollectsInTime'
  BY <1>3 DEF CollectsInTime
<1>10. InTime'
  <2>1. ~UnderWay'
    BY <1>1, ClkFacts DEF IInv, Handshake, Fetches, AtRest, Paused, UnderWay
  <2>2. Longest' = Longest /\ Longest \in Int
    BY JtagAssumption DEF Longest
  <2>3. Work = (6 - delay_cnt) + Elapsed + 2 * Longest
    BY <1>1 DEF Work
  <2>4. fState' = "get_data" => Work' = (6 - delay_cnt') + Elapsed' + 2 * Longest'
    BY DEF Work
  <2>5. fState' = "start_jtag_machine" => Work' = Elapsed' + 2 * Longest'
    BY <1>1, <2>1 DEF Work
  <2>6. Elapsed \in Int /\ Elapsed' \in Int /\ Elapsed' <= Elapsed + 1
    BY ClkFacts
  <2>7. Work' \in Int /\ Work' <= Work
    <3> DEFINE L == 2 * Longest
    <3>1. L \in Int /\ Work = (6 - delay_cnt) + Elapsed + L /\ delay_cnt \in Int
      BY <1>2, <2>2, <2>3
    <3> HIDE DEF L
    <3>2. \A d, c, e, f, l \in Int : c = d + 1 /\ f <= e + 1
            => (6 - c) + f + l \in Int /\ (6 - c) + f + l <= (6 - d) + e + l
      OBVIOUS
    <3>3. CASE fState' = "get_data"
      <4>1. Work' = (6 - delay_cnt') + Elapsed' + L /\ delay_cnt' = delay_cnt + 1 /\ delay_cnt' \in Int
        BY <1>1, <1>2, <2>2, <2>4, <3>3 DEF L
      <4> QED
        BY <2>6, <3>1, <3>2, <4>1
    <3>4. CASE fState' = "start_jtag_machine"
      <4>1. Work' = Elapsed' + L /\ Work = 1 + Elapsed + L
        <5>1. delay_cnt = 5
          BY <1>3, <3>4
        <5>2. Work = 1 + Elapsed + L
          BY <2>6, <3>1, <5>1
        <5>3. Work' = Elapsed' + L
          BY <2>2, <2>5, <3>4 DEF L
        <5> QED
          BY <5>2, <5>3
      <4>2. \A e, f, l \in Int : f <= e + 1 => f + l \in Int /\ f + l <= 1 + e + l
        OBVIOUS
      <4> QED
        BY <2>6, <3>1, <4>1, <4>2
    <3> QED
      BY <1>3, <3>3, <3>4
  <2> QED
    BY <1>1, <2>7, NoMoreWork
<1> QED
  BY <1>3, <1>4, <1>5, <1>6, <1>8, <1>9, <1>10 DEF Kept

LEMMA StartJtagMachineTime ==
  ASSUME IInv, DInv, Clk, StartJtagMachine
  PROVE  Kept'
<1>1. /\ fState = "start_jtag_machine" /\ input_mem_address' = input_mem_address
      /\ word' = word /\ TX' = TX /\ last' = last /\ iWordCnt' = iWordCnt
      /\ outputMem_WEN' = outputMem_WEN
      /\ (JTAG_start' <=> input_address_zero /\ ~JTAG_busy)
      /\ (JTAG_go' <=> ~input_address_zero /\ PAUSE)
  BY DEF StartJtagMachine
<1>2. /\ state' = state /\ JTAG_busy' = JTAG_busy /\ PAUSE' = PAUSE
      /\ Remaining' = Remaining /\ (UnderWay' <=> UnderWay)
  BY ClkFacts DEF driverVars
<1>3. Tells
  BY <1>1 DEF IInv, Handshake
<1>4. fState' = "start_jtag_machine" \/ fState' = "check_result"
  BY <1>1 DEF StartJtagMachine
<1>5. fState' = "check_result" => JTAG_busy /\ ~PAUSE /\ since = 0 /\ UnderWay /\ state # "pause"
  <2>1. fState' = "check_result" =>
          (input_address_zero /\ JTAG_busy) \/ (~input_address_zero /\ ~PAUSE /\ JTAG_go)
    BY <1>1 DEF StartJtagMachine
  <2>2. input_address_zero /\ JTAG_busy => Started
    BY <1>3 DEF Tells, AtRest
  <2>3. ~input_address_zero /\ ~PAUSE => GoesOn /\ state = "exit2" /\ hi
    BY <1>3 DEF Tells, Paused, GoesOn
  <2> QED
    BY <2>1, <2>2, <2>3 DEF Started, GoesOn, UnderWay
<1>6. word' \in Words /\ TX' \in Words /\ iWordCnt' \in 0 .. MaxWords /\ last' \in BOOLEAN
      /\ outputMem_WEN' \in BOOLEAN
  BY <1>1 DEF DInv, Typed
<1>7. WordsCounted'
  <2>1. input_mem_address <= iWordCnt /\ (input_mem_address < iWordCnt \/ last \/ Barren)
    BY <1>1 DEF DInv, WordsCounted
  <2>2. Barren => Barren'
    <3>1. Barren => TX.kind = "HRT"
      BY DEF Barren
    <3> QED
      BY <1>1, <3>1, ClkFacts
  <2> QED
    BY <1>1, <1>4, <2>1, <2>2 DEF WordsCounted
<1>8. CollectsInTime'
  BY <1>2, <1>4, <1>5, ClkFacts DEF CollectsInTime
<1>9. InTime'
  <2>1. Work \in Nat /\ Remaining \in Nat /\ Longest \in Nat /\ Longest' = Longest
    BY WorkType, RemainingType, JtagAssumption DEF IInv, DInv, Longest
  <2>2. CASE UnderWay
    <3>1. Work = 2 * Remaining
      BY <1>1, <2>2 DEF Work
    <3>2. Work' = 2 * Remaining'
      BY <1>2, <1>4, <1>5, <2>2 DEF Work
    <3> QED
      BY <1>1, <1>2, <2>1, <3>1, <3>2, NoMoreWork
  <2>3. CASE ~UnderWay
    <3>1. IF input_address_zero THEN AtRest ELSE Paused
      BY <1>3, <2>3 DEF Tells, Started, GoesOn, UnderWay
    <3>2. fState' = "start_jtag_machine" /\ ~UnderWay' /\ (JTAG_start' \/ JTAG_go')
      BY <1>1, <1>2, <1>4, <1>5, <2>3, <3>1 DEF AtRest, Paused
    <3>3. Work' = 2 * Longest'
      BY <3>2 DEF Work
    <3>4. Work = 2 * Longest \/ Work = Elapsed + 2 * Longest
      BY <1>1, <2>3 DEF Work
    <3>5. Work' \in Int /\ Work' <= Work
      BY <2>1, <3>3, <3>4, ClkFacts
    <3> QED
      BY <1>1, <3>5, NoMoreWork
  <2> QED
    BY <2>2, <2>3
<1> QED
  BY <1>2, <1>4, <1>5, <1>6, <1>7, <1>8, <1>9 DEF Kept

LEMMA CheckResultTime ==
  ASSUME IInv, DInv, Clk, CheckResult
  PROVE  Kept'
<1>1. /\ fState = "check_result" /\ word' = word /\ TX' = TX /\ last' = last /\ iWordCnt' = iWordCnt
      /\ outputMem_WEN' = (~outputMem_WEN \/ (JTAG_busy /\ ~PAUSE))
  BY DEF CheckResult
<1>2. /\ JTAG_busy' = JTAG_busy /\ PAUSE' = PAUSE /\ state' = state
      /\ Remaining' = Remaining /\ (UnderWay' <=> UnderWay)
  BY ClkFacts DEF driverVars
<1>3. word' \in Words /\ TX' \in Words /\ iWordCnt' \in 0 .. MaxWords /\ last' \in BOOLEAN
  BY <1>1 DEF DInv, Typed
<1>4. outputMem_WEN' \in BOOLEAN
  BY <1>1
<1>5. IF JTAG_busy /\ ~PAUSE THEN TRUE ELSE outputMem_WEN /\ since = 0
  BY <1>1 DEF DInv, CollectsInTime
<1>6. CASE JTAG_busy /\ ~PAUSE
  <2>1. /\ fState' = "check_result" /\ input_mem_address' = input_mem_address /\ delay_cnt' = delay_cnt
        /\ outputMem_WEN'
    BY <1>6 DEF CheckResult
  <2>2. fState' = "check_result" /\ state' = "pause" => ~last'
    BY <1>1, <1>2 DEF DInv, LastKept
  <2>3. WordsCounted'
    <3>1. Barren => Barren'
      <4>1. Barren => TX.kind = "HRT"
        BY DEF Barren
      <4> QED
        BY <1>1, <4>1, ClkFacts
    <3> QED
      BY <1>1, <2>1, <3>1 DEF DInv, WordsCounted
  <2>4. CollectsInTime'
    BY <1>2, <1>6, <2>1 DEF CollectsInTime
  <2>5. InTime'
    <3>1. Work = 2 * Remaining
      BY <1>1, <1>6 DEF Work
    <3>2. Work' = 2 * Remaining'
      BY <1>2, <1>6, <2>1 DEF Work
    <3>3. Remaining \in Nat
      BY RemainingType DEF IInv, DInv
    <3> QED
      BY <1>1, <1>2, <2>1, <3>1, <3>2, <3>3, NoMoreWork
  <2> QED
    BY <1>3, <1>4, <2>2, <2>3, <2>4, <2>5 DEF Kept
<1>7. CASE ~JTAG_busy
  <2>1. fState' = "wait_for_start"
    BY <1>5, <1>7 DEF CheckResult
  <2> QED
    BY <1>3, <1>4, <2>1 DEF Kept, WordsCounted, CollectsInTime, InTime
<1>8. CASE JTAG_busy /\ PAUSE
  <2>1. fState' = "get_data" /\ delay_cnt' = 0 /\ input_mem_address' = input_mem_address + 1
    BY <1>5, <1>8 DEF CheckResult
  <2>2. state = "pause" /\ ~last
    BY <1>1, <1>8 DEF IInv, Handshake, Collects, DInv, LastKept
  <2>3. WordsCounted'
    <3>1. input_mem_address < iWordCnt
      BY <1>1, <2>2 DEF DInv, WordsCounted, Barren
    <3>2. input_mem_address \in Int /\ iWordCnt \in Int
      BY JtagAssumption DEF IInv, Types, DInv, Typed
    <3>3. input_mem_address' <= iWordCnt'
      BY <1>1, <2>1, <3>1, <3>2
    <3> QED
      BY <2>1, <3>3 DEF WordsCounted
  <2>4. CollectsInTime'
    BY <2>1 DEF CollectsInTime
  <2>5. InTime'
    <3>1. 2 * ticks + 5 <= 2 * Allowed(input_mem_address + 1)
      <4>1. Work = 5
        BY <1>1, <1>8 DEF Work
      <4> QED
        BY <1>1, <4>1 DEF DInv, InTime
    <3>2. Work' = 6 + Elapsed' + 2 * Longest'
      <4>1. Work' = (6 - delay_cnt') + Elapsed' + 2 * Longest'
        BY <2>1 DEF Work
      <4>2. Elapsed' \in Int /\ Longest' \in Int
        BY ClkFacts, JtagAssumption DEF Longest
      <4> QED
        BY <2>1, <4>1, <4>2
    <3>3. Elapsed' \in Int /\ Elapsed' <= 1 /\ Longest' = 2 * Width + 18 /\ Width \in Int
      BY <1>5, <1>8, ClkFacts, JtagAssumption DEF Longest
    <3>4. /\ Allowed(input_mem_address' + 1) = Allowed(input_mem_address + 1) + (2 * Width + 19)
          /\ Allowed(input_mem_address + 1) \in Int
      <4>1. input_mem_address + 1 \in Nat
        BY DEF IInv, Types
      <4> QED
        BY <2>1, <4>1, AllowedFacts
    <3>5. ticks \in Int /\ ticks' \in Int /\ ticks' <= ticks
      BY ClkFacts DEF DInv, Typed
    <3>6. \A s, t, e, l, w, a, b \in Int :
            2 * s + 5 <= 2 * a /\ t <= s /\ e <= 1 /\ l = 2 * w + 18 /\ b = a + (2 * w + 19)
            => 2 * t + (6 + e + 2 * l) <= 2 * b
      OBVIOUS
    <3>7. Longest' \in Int /\ Allowed(input_mem_address' + 1) \in Int
      BY <3>3, <3>4
    <3>8. 2 * ticks' + Work' <= 2 * Allowed(input_mem_address' + 1)
      BY <3>1, <3>2, <3>3, <3>4, <3>5, <3>6, <3>7
    <3> QED
      BY <3>8 DEF InTime, Allowed
  <2>6. ~(fState' = "check_result")
    BY <2>1
  <2> QED
    BY <1>3, <1>4, <2>3, <2>4, <2>5, <2>6 DEF Kept
<1> QED
  BY <1>6, <1>7, <1>8

LEMMA ProgramType ==
  ASSUME NEW s \in Sessions, NEW r \in Nat, r < Len(s)
  PROVE  s[r + 1] \in Seq(Words) /\ Len(s[r + 1]) \in Nat /\ Len(s[r + 1]) > 0
<1>1. s \in Seq(Seq(Words)) /\ \A n \in DOMAIN s : Len(s[n]) \in 1 .. (MaxWords + 1)
  BY JtagAssumption
<1>2. r + 1 \in DOMAIN s /\ s[r + 1] \in Seq(Words)
  <2>1. r + 1 \in 1 .. Len(s) /\ DOMAIN s = 1 .. Len(s)
    BY <1>1, LenProperties
  <2> QED
    BY <1>1, <2>1, ElementOfSeq
<1>3. Len(s[r + 1]) \in 1 .. (MaxWords + 1) /\ MaxWords \in Nat
  BY <1>1, <1>2, JtagAssumption
<1> QED
  BY <1>2, <1>3

(* The host writes each word of the program to its address.                *)
LEMMA HostTyped ==
  ASSUME Typed, Types, Host, Feeder
  PROVE  /\ session' = session /\ runs' = runs /\ hostPc' \in {"write", "start", "reset", "sleep"}
         /\ hostPc' = "write" => hostAddr' < Len(program)
         /\ inputMem' \in [Address -> Words]
<1>1. /\ program \in Seq(Words) /\ Len(program) \in Nat /\ hostAddr \in Nat
      /\ hostPc = "write" => hostAddr < Len(program)
      /\ hostPc \in {"write", "start", "reset", "sleep"} /\ inputMem \in [Address -> Words]
  BY ProgramType DEF program, Typed, Types
<1>2. session' = session /\ runs' = runs
  BY DEF Host, hostVars
<1>3. hostPc' \in {"write", "start", "reset", "sleep"} /\ (hostPc' = "write" => hostAddr' < Len(program))
  <2>1. CASE hostPc = "write"
    <3>1. hostAddr' = hostAddr + 1
          /\ hostPc' \in IF hostAddr' = Len(program) THEN {"start", "reset"} ELSE {"write"}
      BY <2>1 DEF Host
    <3> QED
      BY <1>1, <2>1, <3>1
  <2>2. CASE hostPc \in {"start", "reset"}
    BY <2>2 DEF Host
  <2>3. CASE hostPc = "sleep"
    BY <2>3 DEF Host, hostVars
  <2> QED
    BY <1>1, <2>1, <2>2, <2>3
<1>4. inputMem' \in [Address -> Words]
  <2>1. CASE inputMem' = inputMem
    BY <1>1, <2>1
  <2>2. CASE inputMem' # inputMem
    <3>1. WaitForStart /\ hostPc = "write" /\ inputMem' = [inputMem EXCEPT ![hostAddr] = program[hostAddr + 1]]
      BY <2>2 DEF Feeder, WaitForStart, ExecuteRSTB, GetData, StartJtagMachine, CheckResult
    <3>2. program[hostAddr + 1] \in Words
      <4>1. hostAddr + 1 \in 1 .. Len(program)
        BY <1>1, <3>1
      <4> QED
        BY <1>1, <4>1, ElementOfSeq
    <3> QED
      BY <1>1, <3>1, <3>2
  <2> QED
    BY <2>1, <2>2
<1> QED
  BY <1>2, <1>3, <1>4

LEMMA ClkTime ==
  ASSUME IInv, DInv, Clk
  PROVE  DInv'
<1>1. /\ Typed /\ Types /\ Handshake /\ Counted /\ LastKept /\ Feeder /\ Host /\ UNCHANGED driverVars
      /\ ticks' \in Nat
  BY ClkFacts DEF IInv, DInv
<1>2. Kept'
  <2>1. CASE WaitForStart
    BY <2>1, WaitForStartTime
  <2>2. CASE ExecuteRSTB
    BY <2>2, ExecuteRSTBTime
  <2>3. CASE GetData
    BY <2>3, GetDataTime
  <2>4. CASE StartJtagMachine
    BY <2>4, StartJtagMachineTime
  <2>5. CASE CheckResult
    BY <2>5, CheckResultTime
  <2> QED
    BY <1>1, <2>1, <2>2, <2>3, <2>4, <2>5 DEF Feeder
<1>3. /\ state' = state /\ hi' = hi /\ col' = col /\ sIR_DR' = sIR_DR /\ sDataLength' = sDataLength
      /\ sIR_DR_prev' = sIR_DR_prev /\ TX_bitCounter' = TX_bitCounter
  BY <1>1 DEF driverVars
<1>4. Typed'
  <2>1. /\ session' = session /\ runs' = runs /\ hostPc' \in {"write", "start", "reset", "sleep"}
        /\ hostPc' = "write" => hostAddr' < Len(program)
        /\ inputMem' \in [Address -> Words]
    BY <1>1, HostTyped
  <2>2. program' = program /\ session \in Sessions /\ runs \in Nat /\ runs < Len(session)
    BY <1>1, <2>1 DEF program, Typed
  <2>3. /\ word' \in Words /\ TX' \in Words /\ iWordCnt' \in 0 .. MaxWords /\ last' \in BOOLEAN
        /\ outputMem_WEN' \in BOOLEAN
    BY <1>2 DEF Kept
  <2> QED
    BY <1>1, <2>1, <2>2, <2>3 DEF Typed
<1>5. Counted'
  BY <1>1, <1>3 DEF Counted
<1>6. LastKept'
  <2>1. state = "update" => last' = last
    <3>1. SUFFICES ASSUME UnderWay PROVE last' = last
      BY DEF UnderWay
    <3>2. fState \in {"start_jtag_machine", "check_result"}
      BY <1>1, <3>1, FeederWaits
    <3>3. StartJtagMachine \/ CheckResult
      BY <1>1, <3>2 DEF Feeder, WaitForStart, ExecuteRSTB, GetData
    <3> QED
      BY <3>3 DEF StartJtagMachine, CheckResult
  <2>2. (state' = "exit1" /\ hi' => Same') /\ (state' = "update" /\ Same' => last')
    BY <1>1, <1>3, <2>1 DEF LastKept, Same
  <2>3. fState' = "check_result" /\ state' = "pause" => ~last'
    BY <1>2 DEF Kept
  <2> QED
    BY <2>2, <2>3 DEF LastKept
<1>7. WordsCounted' /\ CollectsInTime' /\ InTime'
  BY <1>2 DEF Kept
<1> QED
  BY <1>4, <1>5, <1>6, <1>7 DEF DInv

(* A clock of the driver: the feeder and the host stand still, and the     *)
(* word in work stays what was latched of it.  The feeder, if it collects, *)
(* has written the result before.                                          *)
LEMMA DriverFacts ==
  ASSUME IInv, DInv, DividedClk
  PROVE  /\ Low \/ High \/ HardReset
         /\ UNCHANGED <<hostVars, inputMem, feederVars>>
         /\ Elapsed = 2 /\ Elapsed' = 0 /\ since' = 0 /\ since > 1
         /\ Width \in Nat /\ Width > 0 /\ TX_bitCounter \in Nat
         /\ ticks' \in Nat /\ ticks' <= ticks + 1
         /\ UnderWay => /\ sIR_DR' = sIR_DR /\ sDataLength' = sDataLength
                        /\ sDataLength \in Nat /\ sDataLength < Width
         /\ fState = "check_result" => JTAG_busy /\ ~PAUSE /\ outputMem_WEN /\ NotTold /\ (state = "pause" => ~hi)
<1>1. Driver /\ UNCHANGED <<hostVars, inputMem, feederVars>> /\ since = Ratio /\ since' = 0
      /\ ticks' = IF fState = "wait_for_start" \/ ticks > Allowed(MaxWords + 1) THEN ticks ELSE ticks + 1
  BY DEF DividedClk
<1>2. Ratio \in Nat /\ Ratio > 1 /\ Width \in Nat /\ Width > 0 /\ ticks \in Nat /\ TX_bitCounter \in Nat
  BY JtagAssumption DEF DInv, Typed, Counted
<1>3. Elapsed = 2 /\ Elapsed' = 0 /\ since > 1
  BY <1>1, <1>2 DEF Elapsed
<1>4. ticks' \in Nat /\ ticks' <= ticks + 1
  <2>1. ticks' = ticks \/ ticks' = ticks + 1
    BY <1>1
  <2> QED
    BY <1>2, <2>1
<1>5. UnderWay => /\ sIR_DR' = sIR_DR /\ sDataLength' = sDataLength
                  /\ sDataLength \in Nat /\ sDataLength < Width
  <2>1. sIR_DR' = TX.kind /\ sDataLength' = Len(TX.bits) - 1
    BY <1>1 DEF Driver
  <2>2. UnderWay => sIR_DR = TX.kind /\ sDataLength = Len(TX.bits) - 1
    BY DEF IInv, Latched
  <2> QED
    BY <2>1, <2>2, LengthFits DEF IInv, DInv
<1>6. fState = "check_result" => JTAG_busy /\ ~PAUSE /\ outputMem_WEN /\ NotTold /\ (state = "pause" => ~hi)
  <2>1. fState = "check_result" => Collects
    BY DEF IInv, Handshake
  <2>2. ~(since = 0) /\ ~(since <= 1)
    BY <1>1, <1>2
  <2>3. fState = "check_result" => JTAG_busy /\ ~PAUSE /\ outputMem_WEN
    BY <2>2 DEF DInv, CollectsInTime
  <2> QED
    BY <2>1, <2>3 DEF Collects
<1> QED
  BY <1>1, <1>2, <1>3, <1>4, <1>5, <1>6 DEF Driver

LEMMA LowCounts ==
  ASSUME IInv, DInv, DividedClk, Low
  PROVE  Counted' /\ LastKept'
<1>1. /\ Counted /\ LastKept /\ fState' = fState /\ last' = last /\ TX_bitCounter \in Nat
      /\ UnderWay => sIR_DR' = sIR_DR /\ sDataLength' = sDataLength
  BY DriverFacts DEF DInv, feederVars
<1>2. /\ ~hi /\ state # "hard_reset" /\ hi' = ~Waits
      /\ TX_bitCounter' = CASE state = "idle" \/ (state = "select" /\ Resets) -> 0
                            [] state = "logic_reset" /\ ~Waits -> Count
                            [] OTHER -> TX_bitCounter
      /\ sIR_DR_prev' = CASE state = "idle" -> "IR" [] state = "exit1" -> sIR_DR [] OTHER -> sIR_DR_prev
  BY DEF Low
<1>3. CASE state = "logic_reset"
  <2>1. TX_bitCounter <= 5
    BY <1>1, <1>3 DEF Counted
  <2>2. CASE Waits
    <3>1. state' = "idle" /\ ~hi' /\ TX_bitCounter' = TX_bitCounter
      BY <1>2, <1>3, <2>2 DEF Low, Goes
    <3> QED
      BY <1>1, <3>1 DEF Counted, LastKept
  <2>3. CASE ~Waits
    <3>1. state' = "logic_reset" /\ TX_bitCounter' = TX_bitCounter + 1
      BY <1>2, <1>3, <2>3 DEF Low, Count
    <3>2. TX_bitCounter' <= 5
      BY <1>1, <1>3, <2>1, <2>3, <3>1 DEF Waits
    <3> QED
      BY <1>1, <3>1, <3>2 DEF Counted, LastKept
  <2> QED
    BY <2>2, <2>3
<1>4. CASE state # "logic_reset"
  <2>1. state' = state /\ col' = col
    BY <1>4 DEF Low
  <2>2. /\ TX_bitCounter' = 0 \/ TX_bitCounter' = TX_bitCounter
        /\ state = "idle" => TX_bitCounter' = 0
    BY <1>2, <1>4
  <2>3. Counted'
    BY <1>1, <1>2, <1>4, <2>1, <2>2 DEF Counted, UnderWay
  <2>4. LastKept'
    <3>1. state = "exit1" => Same'
      BY <1>1, <1>2 DEF Same, UnderWay
    <3>2. state = "update" => (Same' <=> Same)
      BY <1>1, <1>2 DEF Same, UnderWay
    <3> QED
      BY <1>1, <2>1, <3>1, <3>2 DEF LastKept
  <2> QED
    BY <2>3, <2>4
<1> QED
  BY <1>3, <1>4

LEMMA HighCounts ==
  ASSUME IInv, DInv, DividedClk, High
  PROVE  Counted' /\ LastKept'
<1>1. /\ Counted /\ LastKept /\ fState' = fState /\ last' = last /\ TX_bitCounter \in Nat
      /\ sIR_DR' = sIR_DR /\ sDataLength' = sDataLength /\ sDataLength \in Nat
      /\ state \in States /\ hi /\ state # "hard_reset"
  BY DriverFacts DEF DInv, feederVars, UnderWay, High, IInv, Steady, Types
<1>2. sIR_DR_prev' = sIR_DR_prev /\ (Same' <=> Same)
  BY <1>1 DEF High, Same
<1>3. ~hi'
  BY <1>1 DEF High, Goes, States
<1>4. CASE state = "shift"
  <2>1. CASE LastBit
    <3>1. state' = "exit1" /\ TX_bitCounter' = 0
      BY <1>4, <2>1 DEF High, Goes
    <3> QED
      BY <1>3, <3>1 DEF Counted, LastKept
  <2>2. CASE ~LastBit
    <3>1. state' = "shift" /\ TX_bitCounter' = TX_bitCounter + 1
      BY <1>4, <2>2 DEF High, Goes, Count
    <3>2. TX_bitCounter' <= sDataLength'
      BY <1>1, <2>2, <3>1 DEF LastBit
    <3> QED
      BY <1>1, <1>3, <3>1, <3>2 DEF Counted, LastKept
  <2> QED
    BY <2>1, <2>2
<1>5. CASE state = "logic_reset"
  <2>1. state' = "logic_reset" /\ TX_bitCounter' = TX_bitCounter
    BY <1>5 DEF High, Goes
  <2> QED
    BY <1>1, <1>3, <1>5, <2>1 DEF Counted, LastKept
<1>6. CASE state \notin {"shift", "logic_reset"}
  <2>1. TX_bitCounter = 0 /\ TX_bitCounter' = TX_bitCounter
    BY <1>1, <1>6 DEF High, Counted, States
  <2>2. state' = "select" /\ col' = "IR" => sIR_DR' = "IR"
    BY <1>1, <1>6 DEF High, Goes, States
  <2>3. Counted'
    BY <1>1, <1>3, <2>1, <2>2 DEF Counted
  <2>4. state' = "update" => (state = "exit1" /\ last) \/ (state = "exit2" /\ ~Same)
    BY <1>1, <1>6 DEF High, Goes, States
  <2>5. state' = "pause" => ~last
    BY <1>1, <1>6 DEF High, Goes, States
  <2>6. LastKept'
    BY <1>1, <1>2, <1>3, <2>4, <2>5 DEF LastKept
  <2> QED
    BY <2>3, <2>6
<1> QED
  BY <1>4, <1>5, <1>6

LEMMA HardResetCounts ==
  ASSUME IInv, DInv, DividedClk, HardReset
  PROVE  Counted' /\ LastKept'
<1>1. /\ Counted /\ TX_bitCounter \in Nat /\ sDataLength' = sDataLength /\ sDataLength \in Nat
      /\ state = "hard_reset"
  BY DriverFacts DEF DInv, UnderWay, HardReset
<1>2. CASE LastBit
  <2>1. state' = "idle" /\ ~hi' /\ TX_bitCounter' = TX_bitCounter
    BY <1>2 DEF HardReset, Goes
  <2> QED
    BY <1>1, <2>1 DEF Counted, LastKept
<1>3. CASE ~LastBit
  <2>1. state' = "hard_reset" /\ TX_bitCounter' = TX_bitCounter + 1
    BY <1>1, <1>3 DEF HardReset, Count
  <2>2. TX_bitCounter' <= sDataLength'
    BY <1>1, <1>3, <2>1 DEF LastBit
  <2> QED
    BY <1>1, <2>1, <2>2 DEF Counted, LastKept
<1> QED
  BY <1>2, <1>3

(* What a driver clock takes from the work of a word whose result is       *)
(* collected: one of the clocks that remain, or all the rest.              *)
LEMMA LowWork ==
  ASSUME IInv, DInv, DividedClk, Low, fState = "check_result"
  PROVE  \/ ~JTAG_busy' /\ Remaining >= 1
         \/ JTAG_busy' /\ PAUSE' /\ Remaining >= 4
         \/ JTAG_busy' /\ ~PAUSE' /\ Remaining' = Remaining - 1
<1>1. /\ ~JTAG_go /\ ~JTAG_start /\ Width \in Nat /\ TX_bitCounter \in Nat
      /\ UnderWay => sIR_DR' = sIR_DR
  BY DriverFacts DEF NotTold
<1>2. /\ ~hi /\ state \in States /\ state # "hard_reset" /\ hi' = ~Waits
      /\ JTAG_busy' = ~(Waits /\ state # "pause") /\ PAUSE' = (state = "pause")
  BY DEF Low, IInv, Types
<1>3. CASE state = "idle"
  <2>1. Waits /\ ~JTAG_busy'
    BY <1>1, <1>2, <1>3 DEF Waits
  <2>2. Remaining = 1
    BY <1>2, <1>3 DEF Remaining
  <2> QED
    BY <2>1, <2>2
<1>4. CASE state = "pause"
  BY <1>1, <1>2, <1>4 DEF Waits, Remaining
<1>5. CASE state = "logic_reset"
  <2>1. Remaining = 11 - 2 * TX_bitCounter
    BY <1>2, <1>5 DEF Remaining
  <2>2. CASE Waits
    <3>1. TX_bitCounter = 5 /\ ~JTAG_busy'
      BY <1>2, <1>5, <2>2 DEF Waits
    <3> QED
      BY <2>1, <3>1
  <2>3. CASE ~Waits
    <3>1. state' = "logic_reset" /\ hi' /\ TX_bitCounter' = TX_bitCounter + 1 /\ JTAG_busy' /\ ~PAUSE'
      BY <1>2, <1>5, <2>3 DEF Low, Count
    <3>2. Remaining' = 12 - 2 * TX_bitCounter'
      BY <3>1 DEF Remaining
    <3> QED
      BY <1>1, <2>1, <3>1, <3>2
  <2> QED
    BY <2>2, <2>3
<1>6. CASE state \notin {"idle", "pause", "logic_reset"}
  <2>1. ~Waits /\ hi' /\ JTAG_busy' /\ ~PAUSE' /\ state' = state /\ col' = col
    BY <1>2, <1>6 DEF Waits, Low
  <2>2. One(hi) = 0 /\ One(hi') = 1
    BY <1>2, <2>1 DEF One
  <2>3. state = "shift" => TX_bitCounter' = TX_bitCounter
    BY DEF Low
  <2>4. state = "update" => (Same' <=> Same)
    <3>1. state = "update" => sIR_DR' = sIR_DR /\ sIR_DR_prev' = sIR_DR_prev
      BY <1>1 DEF Low, UnderWay
    <3> QED
      BY <3>1 DEF Same
  <2>5. Remaining' = Remaining - 1
    <3>1. CASE state = "shift"
      <4>1. Remaining = (2 * Width + 6) - (2 * TX_bitCounter + One(hi))
        BY <3>1 DEF Remaining
      <4>2. Remaining' = (2 * Width + 6) - (2 * TX_bitCounter' + One(hi'))
        BY <2>1, <3>1 DEF Remaining, One
      <4> QED
        BY <1>1, <2>2, <2>3, <3>1, <4>1, <4>2
    <3>2. CASE state = "update"
      <4>1. Remaining = (IF Same THEN 4 ELSE 2 * Width + 14) - One(hi)
        BY <3>2 DEF Remaining
      <4>2. Remaining' = (IF Same' THEN 4 ELSE 2 * Width + 14) - One(hi')
        BY <2>1, <3>2 DEF Remaining, One
      <4> QED
        BY <1>1, <2>2, <2>4, <3>2, <4>1, <4>2
    <3>3. CASE state \in {"init", "select", "capture", "exit1", "exit2"}
      <4> DEFINE base == CASE state = "init" -> 2 * Width + 14
                           [] state = "select" -> 2 * Width + (IF col = "DR" THEN 12 ELSE 10)
                           [] state = "capture" -> 2 * Width + 8
                           [] state = "exit1" -> 6
                           [] OTHER -> 2 * Width + 16
      <4>1. Remaining = base - One(hi)
        BY <3>3 DEF Remaining
      <4>2. Remaining' = base - One(hi')
        BY <2>1, <3>3 DEF Remaining, One
      <4>3. base \in Int
        BY <1>1
      <4> HIDE DEF base
      <4> QED
        BY <2>2, <4>1, <4>2, <4>3
    <3> QED
      BY <1>2, <1>6, <3>1, <3>2, <3>3 DEF States
  <2> QED
    BY <2>1, <2>5
<1> QED
  BY <1>3, <1>4, <1>5, <1>6

LEMMA HighWork ==
  ASSUME IInv, DInv, DividedClk, High, fState = "check_result"
  PROVE  JTAG_busy' /\ ~PAUSE' /\ Remaining' \in Int /\ Remaining' <= Remaining - 1
<1>1. /\ Width \in Nat /\ Width > 0 /\ TX_bitCounter \in Nat /\ sIR_DR' = sIR_DR
      /\ sDataLength \in Nat /\ sDataLength < Width
      /\ hi /\ state \in States /\ state \notin {"hard_reset", "pause"} /\ Counted /\ LastKept
  BY DriverFacts DEF High, UnderWay, IInv, Steady, Types, DInv
<1>2. JTAG_busy' /\ ~PAUSE' /\ ~hi' /\ sIR_DR_prev' = sIR_DR_prev /\ (Same' <=> Same)
  BY <1>1 DEF High, Goes, States, Same
<1>3. One(hi) = 1 /\ One(hi') = 0
  BY <1>1, <1>2 DEF One
<1>4. CASE state = "shift"
  <2>1. Remaining = (2 * Width + 6) - (2 * TX_bitCounter + One(hi))
    BY <1>4 DEF Remaining
  <2>2. CASE LastBit
    <3>1. state' = "exit1"
      BY <1>4, <2>2 DEF High, Goes
    <3>2. Remaining' = 6 - One(hi')
      BY <3>1 DEF Remaining, One
    <3>3. TX_bitCounter <= sDataLength
      BY <1>1, <1>4 DEF Counted
    <3> QED
      BY <1>1, <1>2, <1>3, <2>1, <3>2, <3>3
  <2>3. CASE ~LastBit
    <3>1. state' = "shift" /\ TX_bitCounter' = TX_bitCounter + 1
      BY <1>4, <2>3 DEF High, Goes, Count
    <3>2. Remaining' = (2 * Width + 6) - (2 * TX_bitCounter' + One(hi'))
      BY <3>1 DEF Remaining, One
    <3> QED
      BY <1>1, <1>2, <1>3, <2>1, <3>1, <3>2
  <2> QED
    BY <2>2, <2>3
<1>5. CASE state = "logic_reset"
  <2>1. state' = "logic_reset" /\ TX_bitCounter' = TX_bitCounter
    BY <1>5 DEF High, Goes
  <2>2. Remaining = 12 - 2 * TX_bitCounter /\ Remaining' = 11 - 2 * TX_bitCounter'
    BY <1>1, <1>2, <1>5, <2>1 DEF Remaining
  <2> QED
    BY <1>1, <1>2, <2>1, <2>2
<1>6. CASE state = "select"
  <2>1. TX_bitCounter' = 0
    BY <1>1, <1>6 DEF High, Counted
  <2>2. CASE col = "DR"
    <3>1. Remaining = 2 * Width + 11
      BY <1>1, <1>6, <2>2 DEF Remaining, One
    <3>2. \/ state' = "select" /\ col' = "IR"
          \/ state' \in {"logic_reset", "hard_reset", "capture"}
      BY <1>6, <2>2 DEF High, Goes
    <3>3. Remaining' \in {2 * Width + 10, 11, Width + 2, 2 * Width + 8}
      BY <1>1, <1>2, <1>3, <2>1, <3>2 DEF Remaining, One
    <3> QED
      BY <1>1, <1>2, <3>1, <3>3
  <2>3. CASE col # "DR"
    <3>1. sIR_DR = "IR" /\ Remaining = 2 * Width + 9
      <4>1. col = "IR"
        BY <2>3 DEF IInv, Types
      <4>2. sIR_DR = "IR"
        BY <1>1, <1>6, <4>1 DEF Counted
      <4>3. Remaining = 2 * Width + 9
        BY <1>1, <1>6, <4>1 DEF Remaining, One
      <4> QED
        BY <4>2, <4>3
    <3>2. state' = "capture"
      BY <1>6, <2>3, <3>1 DEF High, Goes
    <3>3. Remaining' = 2 * Width + 8
      BY <1>1, <1>2, <1>3, <3>2 DEF Remaining, One
    <3> QED
      BY <1>1, <1>2, <3>1, <3>3
  <2> QED
    BY <2>2, <2>3
<1>7. CASE state \in {"idle", "init", "capture"}
  <2>1. CASE state = "idle"
    <3>1. Remaining = 2 * Width + 15
      BY <1>1, <2>1 DEF Remaining
    <3>2. state' = "init"
      BY <2>1 DEF High, Goes
    <3>3. Remaining' = 2 * Width + 14
      BY <1>1, <1>2, <1>3, <3>2 DEF Remaining, One
    <3> QED
      BY <1>1, <1>2, <3>1, <3>3
  <2>2. CASE state = "init"
    <3>1. Remaining = 2 * Width + 13
      BY <1>1, <2>2 DEF Remaining, One
    <3>2. state' = "select" /\ col' = "DR"
      BY <2>2 DEF High, Goes
    <3>3. Remaining' = 2 * Width + 12
      BY <1>1, <1>2, <1>3, <3>2 DEF Remaining, One
    <3> QED
      BY <1>1, <1>2, <3>1, <3>3
  <2>3. CASE state = "capture"
    <3>1. Remaining = 2 * Width + 7
      BY <1>1, <2>3 DEF Remaining, One
    <3>2. state' = "shift" /\ TX_bitCounter' = 0
      BY <1>1, <2>3 DEF High, Goes, Counted
    <3>3. Remaining' = 2 * Width + 6
      BY <1>1, <1>2, <1>3, <3>2 DEF Remaining, One
    <3> QED
      BY <1>1, <1>2, <3>1, <3>3
  <2> QED
    BY <1>7, <2>1, <2>2, <2>3
<1>8. CASE state \in {"exit1", "exit2", "update"}
  <2>1. CASE state = "exit1"
    <3>1. Remaining = 5
      BY <1>1, <2>1 DEF Remaining, One
    <3>2. (state' = "update" /\ Same') \/ state' = "pause"
      BY <1>1, <1>2, <2>1 DEF High, Goes, LastKept
    <3>3. Remaining' = 4
      BY <1>1, <1>2, <1>3, <3>2 DEF Remaining, One
    <3> QED
      BY <1>1, <1>2, <3>1, <3>3
  <2>2. CASE state = "exit2"
    <3>1. Remaining = 2 * Width + 15
      BY <1>1, <2>2 DEF Remaining, One
    <3>2. (state' = "update" /\ ~Same') \/ (state' = "shift" /\ TX_bitCounter' = 0)
      BY <1>1, <1>2, <2>2 DEF High, Goes, Counted
    <3>3. Remaining' \in {2 * Width + 14, 2 * Width + 6}
      BY <1>1, <1>2, <1>3, <3>2 DEF Remaining, One
    <3> QED
      BY <1>1, <1>2, <3>1, <3>3
  <2>3. CASE state = "update"
    <3>1. CASE Same
      <4>1. Remaining = 3
        BY <1>1, <2>3, <3>1 DEF Remaining, One
      <4>2. state' = "idle"
        BY <1>1, <2>3, <3>1 DEF High, Goes, Closes, LastKept
      <4>3. Remaining' = 1
        BY <1>2, <4>2 DEF Remaining
      <4> QED
        BY <1>2, <4>1, <4>3
    <3>2. CASE ~Same
      <4>1. Remaining = 2 * Width + 13
        BY <1>1, <2>3, <3>2 DEF Remaining, One
      <4>2. state' = "select" /\ col' = "DR"
        BY <2>3, <3>2 DEF High, Goes, Closes
      <4>3. Remaining' = 2 * Width + 12
        BY <1>1, <1>2, <1>3, <4>2 DEF Remaining, One
      <4> QED
        BY <1>1, <1>2, <4>1, <4>3
    <3> QED
      BY <3>1, <3>2
  <2> QED
    BY <1>8, <2>1, <2>2, <2>3
<1> QED
  BY <1>1, <1>4, <1>5, <1>6, <1>7, <1>8 DEF States

LEMMA HardResetWork ==
  ASSUME IInv, DInv, DividedClk, HardReset
  PROVE  JTAG_busy' /\ ~PAUSE' /\ Remaining' \in Int /\ Remaining' <= Remaining - 1
<1>1. /\ Width \in Nat /\ TX_bitCounter \in Nat /\ sDataLength \in Nat /\ sDataLength < Width
      /\ state = "hard_reset" /\ Counted /\ ~hi
  BY DriverFacts DEF UnderWay, HardReset, IInv, Steady, Types, DInv
<1>2. JTAG_busy' /\ ~PAUSE' /\ Remaining = Width + 2 - TX_bitCounter
  BY <1>1 DEF HardReset, Remaining
<1>3. CASE LastBit
  <2>1. state' = "idle" /\ ~hi'
    BY <1>3 DEF HardReset, Goes
  <2>2. Remaining' = 1
    BY <2>1 DEF Remaining
  <2>3. TX_bitCounter <= sDataLength
    BY <1>1 DEF Counted
  <2> QED
    BY <1>1, <1>2, <2>2, <2>3
<1>4. CASE ~LastBit
  <2>1. state' = "hard_reset" /\ TX_bitCounter' = TX_bitCounter + 1
    BY <1>1, <1>4 DEF HardReset, Count
  <2>2. Remaining' = Width + 2 - TX_bitCounter'
    BY <2>1 DEF Remaining
  <2> QED
    BY <1>1, <1>2, <2>1, <2>2
<1> QED
  BY <1>3, <1>4

LEMMA DividedClkTime ==
  ASSUME IInv, DInv, DividedClk
  PROVE  DInv'
<1>1. /\ UNCHANGED <<hostVars, inputMem, feederVars>> /\ Elapsed = 2 /\ Elapsed' = 0 /\ since' = 0
      /\ Low \/ High \/ HardReset
      /\ ticks \in Nat /\ ticks' \in Nat /\ ticks' <= ticks + 1 /\ Longest' = Longest /\ Longest \in Nat
      /\ Typed /\ WordsCounted
  BY DriverFacts, JtagAssumption DEF DInv, Typed, Longest
<1>2. /\ session' = session /\ runs' = runs /\ hostPc' = hostPc /\ hostAddr' = hostAddr
      /\ inputMem' = inputMem /\ word' = word /\ TX' = TX /\ iWordCnt' = iWordCnt /\ last' = last
      /\ outputMem_WEN' = outputMem_WEN /\ fState' = fState /\ delay_cnt' = delay_cnt
      /\ input_mem_address' = input_mem_address /\ JTAG_start' = JTAG_start /\ JTAG_go' = JTAG_go
  BY <1>1 DEF hostVars, feederVars
<1>3. Typed'
  <2>1. program' = program
    BY <1>2 DEF program
  <2> QED
    BY <1>1, <1>2, <2>1 DEF Typed
<1>4. Counted' /\ LastKept'
  BY <1>1, LowCounts, HighCounts, HardResetCounts
<1>5. WordsCounted'
  <2>1. Barren => Barren'
    <3>1. SUFFICES ASSUME Barren PROVE Barren'
      OBVIOUS
    <3>2. TX.kind = "HRT" /\ TX'.kind = "HRT" /\ state \in {"idle", "init", "hard_reset", "select"}
      BY <1>2, <3>1 DEF Barren
    <3>3. state = "select" => col = "DR" /\ sIR_DR = "HRT"
      BY <3>1, <3>2 DEF Barren, IInv, Latched, UnderWay
    <3>4. CASE Low
      <4>1. state' = state /\ col' = col
        BY <3>2, <3>4 DEF Low
      <4> QED
        BY <3>1, <3>2, <4>1 DEF Barren
    <3>5. CASE High
      <4>1. \/ state' \in {"init", "hard_reset"}
            \/ state' = "select" /\ col' = "DR"
        BY <3>2, <3>3, <3>5 DEF High, Goes, IInv, Steady
      <4> QED
        BY <3>2, <4>1 DEF Barren
    <3>6. CASE HardReset
      <4>1. state' \in {"idle", "hard_reset"}
        BY <3>2, <3>6 DEF HardReset, Goes
      <4> QED
        BY <3>2, <4>1 DEF Barren
    <3> QED
      BY <1>1, <3>4, <3>5, <3>6
  <2> QED
    BY <1>1, <1>2, <2>1 DEF WordsCounted
<1>6. CollectsInTime'
  BY <1>1, <1>2, DriverFacts DEF CollectsInTime
<1>7. fState # "wait_for_start" => Work' \in Int /\ Work' + 2 <= Work
  <2>1. SUFFICES ASSUME fState # "wait_for_start" PROVE Work' \in Int /\ Work' + 2 <= Work
    OBVIOUS
  <2>2. CASE fState \in {"execute_RSTB", "get_data"}
    <3> DEFINE wait == IF fState = "execute_RSTB" THEN 1 ELSE 6 - delay_cnt
    <3>1. Work = wait + Elapsed + 2 * Longest /\ Work' = wait + Elapsed' + 2 * Longest'
      BY <1>2, <2>2 DEF Work
    <3>2. wait \in Int
      BY <1>1, <2>2 DEF WordsCounted
    <3> HIDE DEF wait
    <3> QED
      BY <1>1, <3>1, <3>2
  <2>3. CASE fState = "start_jtag_machine"
    <3>1. Tells
      BY <2>3 DEF IInv, Handshake
    <3>2. since # 0 /\ Width \in Nat
      BY DriverFacts
    <3>3. CASE UnderWay
      <4>1. GoesOn /\ ((state = "pause" /\ hi) \/ (state = "exit2" /\ ~hi))
        BY <3>1, <3>2, <3>3 DEF Tells, AtRest, Started, Paused, GoesOn, UnderWay
      <4>2. CASE state = "pause" /\ hi
        <5>1. state' = "exit2" /\ ~hi'
          BY <1>1, <4>2 DEF Low, High, HardReset, Goes
        <5>2. Remaining = 2 * Width + 17 /\ Remaining' = 2 * Width + 16
          BY <3>2, <4>2, <5>1 DEF Remaining, One
        <5>3. Work = 2 * Remaining /\ Work' = 2 * Remaining'
          BY <1>2, <2>3, <3>3, <5>1 DEF Work, UnderWay
        <5> QED
          BY <3>2, <5>2, <5>3
      <4>3. CASE state = "exit2" /\ ~hi
        <5>1. state' = "exit2" /\ hi'
          BY <1>1, <4>3 DEF Low, High, HardReset, Waits
        <5>2. Remaining = 2 * Width + 16 /\ Remaining' = 2 * Width + 15
          BY <3>2, <4>3, <5>1 DEF Remaining, One
        <5>3. Work = 2 * Remaining /\ Work' = 2 * Remaining'
          BY <1>2, <2>3, <3>3, <5>1 DEF Work, UnderWay
        <5> QED
          BY <3>2, <5>2, <5>3
      <4> QED
        BY <4>1, <4>2, <4>3
    <3>4. CASE ~UnderWay
      <4>1. /\ state \in {"idle", "pause"} /\ ~hi /\ Low
            /\ state = "idle" => ~JTAG_go
            /\ state = "pause" => ~JTAG_start
        BY <1>1, <3>1, <3>4 DEF UnderWay, High, HardReset, Tells, AtRest, Started, Paused, GoesOn
      <4>2. CASE JTAG_start \/ JTAG_go
        <5>1. state' = state /\ hi' /\ ~Waits
          <6>1. ~Waits
            BY <4>1, <4>2 DEF Waits
          <6> QED
            BY <4>1, <6>1 DEF Low
        <5>2. Remaining' \in Int /\ Remaining' <= 2 * Width + 17
          <6>1. state' = "idle" => Remaining' = 2 * Width + 15
            BY <5>1 DEF Remaining
          <6>2. state' = "pause" => Remaining' = 2 * Width + 17
            BY <5>1 DEF Remaining
          <6> QED
            BY <3>2, <4>1, <5>1, <6>1, <6>2
        <5>3. Work = 2 * Longest /\ Work' = 2 * Remaining'
          BY <1>2, <2>3, <3>4, <4>2, <5>1 DEF Work, UnderWay
        <5>4. \A r, w, l \in Int : r <= 2 * w + 17 /\ l = 2 * w + 18 => 2 * r \in Int /\ 2 * r + 2 <= 2 * l
          OBVIOUS
        <5>5. Longest = 2 * Width + 18 /\ Longest \in Int /\ Width \in Int
          BY <3>2 DEF Longest
        <5> QED
          BY <5>2, <5>3, <5>4, <5>5
      <4>3. CASE ~(JTAG_start \/ JTAG_go)
        <5>1. state' = state /\ ~hi'
          <6>1. Waits /\ state # "logic_reset"
            BY <4>1, <4>3 DEF Waits
          <6> QED
            BY <4>1, <6>1 DEF Low
        <5>2. Work = Elapsed + 2 * Longest
          BY <2>3, <3>4, <4>3 DEF Work
        <5>3. Work' = Elapsed' + 2 * Longest'
          BY <1>2, <2>3, <4>1, <4>3, <5>1 DEF Work, UnderWay
        <5> QED
          BY <1>1, <5>2, <5>3
      <4> QED
        BY <4>2, <4>3
    <3> QED
      BY <3>3, <3>4
  <2>4. CASE fState = "check_result"
    <3>1. Work = 2 * Remaining
      BY <2>4, DriverFacts DEF Work
    <3>2. Remaining \in Int
      BY RemainingType DEF IInv, DInv
    <3>3. Work' = IF ~JTAG_busy' THEN 0 ELSE IF PAUSE' THEN 5 ELSE 2 * Remaining'
      BY <1>2, <2>4 DEF Work
    <3>4. CASE Low
      BY <2>4, <3>1, <3>2, <3>3, <3>4, LowWork
    <3>5. CASE High
      BY <2>4, <3>1, <3>2, <3>3, <3>5, HighWork
    <3>6. CASE HardReset
      BY <3>1, <3>2, <3>3, <3>6, HardResetWork
    <3> QED
      BY <1>1, <3>4, <3>5, <3>6
  <2> QED
    BY <2>1, <2>2, <2>3, <2>4 DEF IInv, Types
<1>8. InTime'
  <2>1. SUFFICES ASSUME fState # "wait_for_start"
                 PROVE  2 * ticks' + Work' <= 2 * Allowed(input_mem_address + 1)
    BY <1>2 DEF InTime, Allowed
  <2>2. 2 * ticks + Work <= 2 * Allowed(input_mem_address + 1) /\ Work \in Int
    BY <2>1, WorkType DEF DInv, InTime
  <2>3. Allowed(input_mem_address + 1) \in Int
    <3>1. input_mem_address + 1 \in Nat
      BY DEF IInv, Types
    <3> QED
      BY <3>1, AllowedFacts
  <2>4. \A s, t, u, v, a \in Int : 2 * s + u <= 2 * a /\ t <= s + 1 /\ v + 2 <= u => 2 * t + v <= 2 * a
    OBVIOUS
  <2> QED
    BY <1>1, <1>7, <2>1, <2>2, <2>3, <2>4
<1> QED
  BY <1>3, <1>4, <1>5, <1>6, <1>8 DEF DInv

LEMMA OthersTime ==
  ASSUME IInv, DInv, NextProgram \/ UNCHANGED vars
  PROVE  DInv'
<1>1. /\ UNCHANGED <<inputMem, feederVars, driverVars, since, ticks>> /\ session' = session
      /\ Typed /\ Counted /\ LastKept /\ WordsCounted /\ CollectsInTime /\ InTime
  BY DEF NextProgram, vars, hostVars, DInv
<1>2. /\ inputMem' = inputMem /\ word' = word /\ TX' = TX /\ iWordCnt' = iWordCnt /\ last' = last
      /\ outputMem_WEN' = outputMem_WEN /\ fState' = fState /\ delay_cnt' = delay_cnt
      /\ input_mem_address' = input_mem_address /\ JTAG_start' = JTAG_start /\ JTAG_go' = JTAG_go
      /\ state' = state /\ hi' = hi /\ col' = col /\ sIR_DR' = sIR_DR /\ sDataLength' = sDataLength
      /\ sIR_DR_prev' = sIR_DR_prev /\ TX_bitCounter' = TX_bitCounter /\ JTAG_busy' = JTAG_busy
      /\ PAUSE' = PAUSE /\ since' = since /\ ticks' = ticks
  BY <1>1 DEF feederVars, driverVars
<1>3. Typed'
  <2>1. CASE NextProgram
    <3>1. runs' = runs + 1 /\ runs + 1 < Len(session) /\ hostPc' = "write" /\ hostAddr' = 0
      BY <2>1 DEF NextProgram
    <3>2. session \in Sessions /\ runs + 1 \in Nat
      BY <1>1 DEF Typed
    <3>3. hostAddr' < Len(program')
      <4>1. Len(session[(runs + 1) + 1]) > 0
        BY <3>1, <3>2, ProgramType
      <4>2. program' = session[(runs + 1) + 1]
        BY <1>1, <3>1 DEF program
      <4> QED
        BY <3>1, <4>1, <4>2
    <3> QED
      BY <1>1, <1>2, <3>1, <3>2, <3>3 DEF Typed
  <2>2. CASE UNCHANGED vars
    <3>1. hostPc' = hostPc /\ hostAddr' = hostAddr /\ runs' = runs
      BY <2>2 DEF vars, hostVars
    <3> QED
      BY <1>1, <1>2, <3>1 DEF Typed, program
  <2> QED
    BY <2>1, <2>2
<1>4. Counted' /\ LastKept'
  BY <1>1, <1>2 DEF Counted, LastKept, Same
<1>5. WordsCounted'
  BY <1>1, <1>2 DEF WordsCounted, Barren
<1>6. CollectsInTime'
  BY <1>1, <1>2 DEF CollectsInTime
<1>7. InTime'
  <2>1. Remaining' = Remaining /\ (UnderWay' <=> UnderWay) /\ Elapsed' = Elapsed /\ Longest' = Longest
    BY <1>2 DEF Remaining, One, Same, UnderWay, Elapsed, Longest
  <2>2. Work' = Work
    BY <1>2, <2>1 DEF Work
  <2> QED
    BY <1>1, <1>2, <2>2 DEF InTime, Allowed
<1> QED
  BY <1>3, <1>4, <1>5, <1>6, <1>7 DEF DInv

LEMMA InitTime == Init => DInv
<1>1. SUFFICES ASSUME Init PROVE DInv
  OBVIOUS
<1>2. Blank \in Words
  <2> DEFINE b == <<0>>
  <2>1. b \in Seq({0, 1}) /\ Len(b) \in 1 .. Width
    BY JtagAssumption
  <2>2. Blank = [end |-> FALSE, kind |-> "IR", bits |-> b]
    BY DEF Blank
  <2> HIDE DEF b
  <2> QED
    BY <2>1, <2>2 DEF Words, Kinds
<1>3. session \in Sessions /\ runs = 0 /\ hostPc = "write" /\ hostAddr = 0 /\ 0 < Len(session)
  <2>1. session \in Sessions
    BY <1>1 DEF Init
  <2>2. session \in Seq(Seq(Words)) /\ session # <<>>
    BY <2>1, JtagAssumption
  <2> QED
    BY <1>1, <2>1, <2>2, EmptySeq, LenProperties DEF Init
<1>4. hostAddr < Len(program)
  <2>1. Len(session[0 + 1]) > 0
    BY <1>3, ProgramType
  <2> QED
    BY <1>3, <2>1 DEF program
<1>5. inputMem \in [Address -> Words]
  BY <1>1, <1>2 DEF Init
<1>6. Typed
  <2>1. /\ word = Blank /\ TX = Blank /\ iWordCnt = 0 /\ ticks = 0 /\ last = FALSE
        /\ outputMem_WEN = FALSE
    BY <1>1 DEF Init
  <2>2. iWordCnt \in 0 .. MaxWords
    BY <2>1, JtagAssumption
  <2> QED
    BY <1>2, <1>3, <1>4, <1>5, <2>1, <2>2 DEF Typed
<1>7. fState = "wait_for_start" /\ state = "idle" /\ ~hi /\ TX_bitCounter = 0
  BY <1>1 DEF Init
<1> QED
  BY <1>6, <1>7 DEF DInv, Counted, LastKept, WordsCounted, CollectsInTime, InTime

LEMMA TimeEnough ==
  ASSUME IInv, DInv
  PROVE  Duration
<1>1. SUFFICES ASSUME fState # "wait_for_start" PROVE ticks <= Allowed(iWordCnt + 1)
  BY DEF Duration
<1>2. 2 * ticks + Work <= 2 * Allowed(input_mem_address + 1)
  BY <1>1 DEF DInv, InTime
<1>3. Work \in Nat /\ ticks \in Nat
  BY WorkType DEF DInv, Typed
<1>4. input_mem_address \in Nat /\ iWordCnt \in Nat /\ input_mem_address <= iWordCnt
  BY <1>1, JtagAssumption DEF IInv, Types, DInv, Typed, WordsCounted
<1>5. /\ Allowed(input_mem_address + 1) \in Nat /\ Allowed(iWordCnt + 1) \in Nat
      /\ Allowed(input_mem_address + 1) <= Allowed(iWordCnt + 1)
  <2>1. input_mem_address + 1 \in Nat /\ iWordCnt + 1 \in Nat /\ input_mem_address + 1 <= iWordCnt + 1
    BY <1>4
  <2> QED
    BY <2>1, AllowedFacts
<1>6. \A t, w, a, b \in Nat : 2 * t + w <= 2 * a /\ a <= b => t <= b
  OBVIOUS
<1> QED
  BY <1>2, <1>3, <1>5, <1>6
-----------------------------------------------------------------------------
(* Whatever the words, their ends, resets and changes of register, and for *)
(* every divider that leaves the feeder two clocks or more in one of the   *)
(* driver's, a program has taken no more driver clocks than its words are  *)
(* worth: the sleep of the scripts, which read the results back without    *)
(* asking whether the program has ended, is long enough (property          *)
(* Duration).                                                              *)
THEOREM ProgramInTime == Spec => []Duration
<1>1. Init => IInv /\ DInv
  BY InitInvariant, InitTime
<1>2. ASSUME IInv, DInv, [Next]_vars PROVE IInv' /\ DInv'
  <2>1. CASE Clk
    BY <1>2, <2>1, ClkStep, ClkTime
  <2>2. CASE DividedClk
    BY <1>2, <2>2, DividedClkStep, DividedClkTime
  <2>3. CASE NextProgram \/ UNCHANGED vars
    BY <1>2, <2>3, OthersStep, OthersTime
  <2> QED
    BY <1>2, <2>1, <2>2, <2>3 DEF Next
<1>3. IInv /\ DInv => Duration
  BY TimeEnough
<1> QED
  BY <1>1, <1>2, <1>3, PTL DEF Spec
=============================================================================
