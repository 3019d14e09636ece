-------------------------- MODULE ControlInterface --------------------------
(***************************************************************************)
(* The control interface of the firmware (control_interface.vhd) with the  *)
(* FIFOs and the memory it is wired to in top_KC705.vhd: one action per    *)
(* branch of the state machine, each one rising edge of the 60 MHz CLK.    *)
(*                                                                         *)
(* All outputs of the state machine are registers, so what an edge decides *)
(* reaches a FIFO or the memory at the NEXT edge: Edge applies the         *)
(* registered requests to the FIFOs, Drive sets them for the next edge.    *)
(* The other clock domains (the Ethernet side, the sensor side, the chip   *)
(* start timer) are actions of their own that interleave with the edges.   *)
(***************************************************************************)
EXTENDS CommandWords, Sequences, FiniteSets

CONSTANTS
  CmdDepth,     (* Words of the command FIFO (16).                         *)
  OutDepth,     (* Words of the output FIFO fifo36x512 (512).              *)
  FullAssert,   (* Its prog_full threshold (505).                          *)
  DataDepth,    (* Words of the sensor data FIFO fifo32to32 (65536).       *)
  EmptyAssert,  (* Its prog_empty threshold (4).                           *)
  RegSlots,     (* Register answers a careful host leaves outstanding.     *)
  Careful       (* Whether the host keeps to HostMaySend's conditions.     *)

ASSUME DepthAssumption ==
  /\ CmdDepth \in Nat /\ OutDepth \in Nat /\ FullAssert \in Nat
  /\ DataDepth \in Nat /\ EmptyAssert \in Nat /\ RegSlots \in Nat
  /\ FullAssert + 2 <= OutDepth
  /\ EmptyAssert >= 2
  /\ Careful \in BOOLEAN

VARIABLES
  cmdState, counterV, counterFIFO, sDataFifoHigh,  (* The state machine.   *)
  sConfigReg, sPulseReg, sMemioCnt, sAddrA, sDinReg, sDinA, (* Registers.  *)
  bMemNotReg, sRegOut,                             (* Answer selection.    *)
  CMD_FIFO_RDREQ, sFifoWrreq, sWea, sDataFIFOrdreq, (* Registered requests. *)
  cmdFifo, lastCmd,                 (* Command FIFO and the word it held.  *)
  outFifo, sFifoFull, fifoBusy,     (* Output FIFO, prog_full, in reset.   *)
  dataFifo, DATA_FIFO_EMPTY,        (* Data FIFO and its prog_empty.       *)
  inputMem, MEM_DOUT,               (* Memory written, memory read port.   *)
  chStState, sFifoWrEn,             (* The chip start timer.               *)
  RESET

fsmVars  == <<cmdState, counterV, counterFIFO, sDataFifoHigh>>
regVars  == <<sConfigReg, sPulseReg, sMemioCnt, sAddrA, sDinReg>>
reqVars  == <<CMD_FIFO_RDREQ, sFifoWrreq, sWea, sDataFIFOrdreq, sRegOut, sDinA>>
cmdVars  == <<cmdFifo, lastCmd>>
outVars  == <<outFifo, sFifoFull, fifoBusy>>
dataVars == <<dataFifo, DATA_FIFO_EMPTY>>
memVars  == <<inputMem, MEM_DOUT>>
chipVars == <<chStState, sFifoWrEn>>
vars == <<fsmVars, regVars, bMemNotReg, reqVars, cmdVars, outVars, dataVars,
          memVars, chipVars, RESET>>

States == {"INIT", "WAIT_CMD", "INTERPRET_CMD", "MEM_ADV", "MEM_RD_CNT",
           "PULSE_DELAY", "FIFO_ADV"}
NoCmd  == [read |-> FALSE, addr |-> 0, data |-> 0]
Zero32 == [hi |-> 0, lo |-> 0]
Answers == [src : {"reg"}, val : Word] \union [src : {"mem"}, val : 0..(MemDepth - 1)]
             \union [src : {"data"}, val : Stamps]

(* FIFO outputs are first-word-fall-through: the head, or when the FIFO is *)
(* empty the last word it held.                                            *)
CMD_FIFO_Q  == IF cmdFifo # <<>> THEN Head(cmdFifo) ELSE lastCmd
DATA_FIFO_Q == Head(dataFifo)

(* The word the output FIFO is offered: a multiplexer in front of it.      *)
sFifoD == CASE bMemNotReg = "SEL_MEM"  -> MEM_DOUT
            [] bMemNotReg = "SEL_FIFO" -> DataWord(DATA_FIFO_Q)
            [] OTHER                   -> RegWord(sRegOut)

(* Bit 1 of the pulse register starts the chip.                            *)
sCtrStart == (sPulseReg \div 2) % 2 = 1
-----------------------------------------------------------------------------
(* Power-up: the global reset is held until the clock manager has locked.   *)

Init ==
  /\ cmdState = "INIT" /\ counterV = 0 /\ counterFIFO = 0 /\ sDataFifoHigh = 0
  /\ sConfigReg = [r \in CONFIG_REGS |-> W - 1]
  /\ sPulseReg = 0 /\ sMemioCnt = 0 /\ sAddrA = Zero32
  /\ sDinReg = 0 /\ sDinA = Zero32
  /\ bMemNotReg = "SEL_REG" /\ sRegOut = 0
  /\ CMD_FIFO_RDREQ = FALSE /\ sFifoWrreq = FALSE
  /\ sWea = FALSE /\ sDataFIFOrdreq = FALSE
  /\ cmdFifo = <<>> /\ lastCmd = NoCmd
  /\ outFifo = <<>> /\ sFifoFull = TRUE /\ fifoBusy = TRUE
  /\ dataFifo = <<>> /\ DATA_FIFO_EMPTY = TRUE
  /\ inputMem = [a \in 0..(MemDepth - 1) |-> Zero32] /\ MEM_DOUT = MemWord(Zero32)
  /\ chStState = "CS0" /\ sFifoWrEn = FALSE
  /\ RESET = TRUE
-----------------------------------------------------------------------------
(* What the requests registered at the previous edge do at this one.       *)

(* The thresholds the flags prog_full and prog_empty report.               *)
AlmostFullAtDepth == Len(outFifo) >= OutDepth
AlmostFull        == Len(outFifo) >= FullAssert
AlmostEmptyAtZero == dataFifo = <<>>
AlmostEmpty       == Len(dataFifo) <= EmptyAssert

(* Reading an empty FIFO and writing a full one, or one still in reset, is *)
(* ignored.  The flags lag one edge behind the contents.                   *)
CmdFifoEdge ==
  IF CMD_FIFO_RDREQ /\ cmdFifo # <<>>
    THEN cmdFifo' = Tail(cmdFifo) /\ lastCmd' = Head(cmdFifo)
    ELSE UNCHANGED cmdVars

OutFifoEdge ==
  /\ outFifo' = IF sFifoWrreq /\ ~fifoBusy /\ Len(outFifo) < OutDepth
                  THEN Append(outFifo, sFifoD) ELSE outFifo
  /\ sFifoFull' = (fifoBusy \/ AlmostFull)
  /\ UNCHANGED fifoBusy

DataFifoEdge ==
  /\ dataFifo' = IF sDataFIFOrdreq /\ dataFifo # <<>> THEN Tail(dataFifo) ELSE dataFifo
  /\ DATA_FIFO_EMPTY' = AlmostEmpty

MemEdge ==
  /\ inputMem' = IF sWea THEN [inputMem EXCEPT ![Cell(sAddrA)] = sDinA] ELSE inputMem
  /\ MEM_DOUT' = MemWord(sAddrA)

Edge ==
  /\ ~RESET
  /\ CmdFifoEdge /\ OutFifoEdge /\ DataFifoEdge /\ MemEdge
  /\ sDinA' = [hi |-> CMD_FIFO_Q.data, lo |-> sDinReg]
  /\ UNCHANGED <<chipVars, RESET>>

(* The requests for the next edge; each is low unless an edge raises it.   *)
Drive(cmdRd, wr, reg, wea, dataRd) ==
  /\ CMD_FIFO_RDREQ' = cmdRd
  /\ sFifoWrreq' = wr
  /\ sRegOut' = reg
  /\ sWea' = wea
  /\ sDataFIFOrdreq' = dataRd
Quiet == Drive(FALSE, FALSE, 0, FALSE, FALSE)
-----------------------------------------------------------------------------
(* INIT and WAIT_CMD.                                                      *)

InitState ==
  /\ cmdState = "INIT"
  /\ Edge /\ Quiet
  /\ sConfigReg' = [r \in CONFIG_REGS |-> W - 1]
  /\ sPulseReg' = 0
  /\ sAddrA' = Zero32
  /\ sMemioCnt' = 1
  /\ cmdState' = "WAIT_CMD"
  /\ UNCHANGED <<counterV, counterFIFO, sDataFifoHigh, sDinReg, bMemNotReg>>

PulseStays == UNCHANGED sPulseReg
PulseOver  == sPulseReg' = 0

WaitCmd ==
  /\ cmdState = "WAIT_CMD"
  /\ Edge
  /\ bMemNotReg' = "SEL_REG"
  /\ PulseOver
  /\ Drive(cmdFifo # <<>>, FALSE, 0, FALSE, FALSE)
  /\ cmdState' = IF cmdFifo # <<>> THEN "INTERPRET_CMD" ELSE "WAIT_CMD"
  /\ UNCHANGED <<counterV, counterFIFO, sDataFifoHigh, sConfigReg, sMemioCnt,
                 sAddrA, sDinReg>>
-----------------------------------------------------------------------------
(* INTERPRET_CMD, one action per group of addresses.                       *)

Interpret == cmdState = "INTERPRET_CMD" /\ Edge

InterpretRegRead ==
  /\ Interpret /\ IsRegRead(CMD_FIFO_Q)
  /\ \E v \in RegAnswers(CMD_FIFO_Q, sConfigReg, sMemioCnt, sAddrA) :
       Drive(FALSE, TRUE, v, FALSE, FALSE)
  /\ cmdState' = "WAIT_CMD"
  /\ UNCHANGED <<counterV, counterFIFO, sDataFifoHigh, regVars, bMemNotReg>>

(* With the output FIFO nearly full the state machine stays, although the  *)
(* command leaves the command FIFO at this very edge.                      *)
InterpretMemRead ==
  /\ Interpret /\ IsMemRead(CMD_FIFO_Q)
  /\ counterV' = sMemioCnt
  /\ bMemNotReg' = "SEL_MEM"
  /\ Drive(FALSE, ~sFifoFull, 0, FALSE, FALSE)
  /\ sAddrA' = IF sFifoFull THEN sAddrA ELSE NextAddr(sAddrA)
  /\ cmdState' = IF sFifoFull THEN "INTERPRET_CMD" ELSE "MEM_RD_CNT"
  /\ UNCHANGED <<counterFIFO, sDataFifoHigh, sConfigReg, sPulseReg, sMemioCnt, sDinReg>>

(* Writes that only set a register, and writes to a bad address.           *)
InterpretRegWrite ==
  LET c == CMD_FIFO_Q IN
  /\ Interpret /\ ~c.read /\ c.addr \notin {PULSE_REG, MEM_DATA, FIFO_COUNT}
  /\ Quiet
  /\ sConfigReg' = IF c.addr \in CONFIG_REGS
                     THEN [sConfigReg EXCEPT ![c.addr] = c.data] ELSE sConfigReg
  /\ sMemioCnt' = IF c.addr = MEM_COUNT THEN c.data ELSE sMemioCnt
  /\ sAddrA' = CASE c.addr = MEM_ADDR_LSB -> [sAddrA EXCEPT !.lo = c.data]
                 [] c.addr = MEM_ADDR_MSB -> [sAddrA EXCEPT !.hi = c.data]
                 [] OTHER                 -> sAddrA
  /\ sDinReg' = IF c.addr = MEM_DATA_LSB THEN c.data ELSE sDinReg
  /\ sDataFifoHigh' = IF c.addr = FIFO_COUNT_HIGH THEN c.data ELSE sDataFifoHigh
  /\ cmdState' = "WAIT_CMD"
  /\ UNCHANGED <<counterV, counterFIFO, sPulseReg, bMemNotReg>>

InterpretPulse ==
  /\ Interpret /\ Writes(CMD_FIFO_Q, PULSE_REG)
  /\ Quiet
  /\ sPulseReg' = CMD_FIFO_Q.data
  /\ counterV' = 2
  /\ cmdState' = "PULSE_DELAY"
  /\ UNCHANGED <<counterFIFO, sDataFifoHigh, sConfigReg, sMemioCnt, sAddrA,
                 sDinReg, bMemNotReg>>

InterpretMemWrite ==
  /\ Interpret /\ Writes(CMD_FIFO_Q, MEM_DATA)
  /\ Drive(FALSE, FALSE, 0, TRUE, FALSE)
  /\ cmdState' = "MEM_ADV"
  /\ UNCHANGED <<counterV, counterFIFO, sDataFifoHigh, regVars, bMemNotReg>>

InterpretFifoCount ==
  /\ Interpret /\ Writes(CMD_FIFO_Q, FIFO_COUNT)
  /\ Quiet
  /\ counterFIFO' = sDataFifoHigh * W + CMD_FIFO_Q.data
  /\ bMemNotReg' = "SEL_FIFO"
  /\ cmdState' = "FIFO_ADV"
  /\ UNCHANGED <<counterV, sDataFifoHigh, regVars>>
-----------------------------------------------------------------------------
(* The states that finish a command.                                       *)

MemAdv ==
  /\ cmdState = "MEM_ADV"
  /\ Edge /\ Quiet
  /\ sAddrA' = NextAddr(sAddrA)
  /\ cmdState' = "WAIT_CMD"
  /\ UNCHANGED <<counterV, counterFIFO, sDataFifoHigh, sConfigReg, sPulseReg,
                 sMemioCnt, sDinReg, bMemNotReg>>

(* Without room for a word the count goes back to what it was.             *)
MemCountRunsOn(read) == Dec(counterV)
MemCountStays(read)  == counterV
MemCountAfter(read)  ==
  IF read \/ Dec(counterV) = 0 THEN Dec(counterV) ELSE counterV

MemRdCnt ==
  LET done == Dec(counterV) = 0
      read == ~done /\ ~sFifoFull IN
  /\ cmdState = "MEM_RD_CNT"
  /\ Edge
  /\ Drive(FALSE, read, 0, FALSE, FALSE)
  /\ counterV' = MemCountAfter(read)
  /\ sAddrA' = IF read THEN NextAddr(sAddrA) ELSE sAddrA
  /\ cmdState' = IF done THEN "WAIT_CMD" ELSE "MEM_RD_CNT"
  /\ UNCHANGED <<counterFIFO, sDataFifoHigh, sConfigReg, sPulseReg, sMemioCnt,
                 sDinReg, bMemNotReg>>

(* The pulse outlasts several periods of the 160 MHz clock, so an idle     *)
(* chip start timer has sampled it before the state machine goes on.       *)
PulseDelay ==
  /\ cmdState = "PULSE_DELAY"
  /\ counterV = 1 => ~(sCtrStart /\ chStState = "CS0")
  /\ Edge /\ Quiet
  /\ counterV' = Dec(counterV)
  /\ cmdState' = IF Dec(counterV) = 0 THEN "WAIT_CMD" ELSE "PULSE_DELAY"
  /\ UNCHANGED <<counterFIFO, sDataFifoHigh, regVars, bMemNotReg>>

(* Copying and leaving both take a word in the data FIFO and room for it.  *)
CopiesWordUncounted == ~DATA_FIFO_EMPTY /\ ~sFifoFull
CopiesWordBlindly   == ~DATA_FIFO_EMPTY /\ counterFIFO # 0
CopiesWord          == ~DATA_FIFO_EMPTY /\ ~sFifoFull /\ counterFIFO # 0
TransferDoneOnFull  == ~DATA_FIFO_EMPTY /\ sFifoFull /\ counterFIFO = 0
TransferDone        == ~DATA_FIFO_EMPTY /\ ~sFifoFull /\ counterFIFO = 0

FifoAdv ==
  /\ cmdState = "FIFO_ADV"
  /\ Edge
  /\ Drive(FALSE, CopiesWord, 0, FALSE, CopiesWord)
  /\ counterFIFO' = IF CopiesWord THEN counterFIFO - 1 ELSE counterFIFO
  /\ cmdState' = IF TransferDone THEN "WAIT_CMD" ELSE "FIFO_ADV"
  /\ UNCHANGED <<counterV, sDataFifoHigh, regVars, bMemNotReg>>

Clock ==
  \/ InitState \/ WaitCmd
  \/ InterpretRegRead \/ InterpretMemRead \/ InterpretRegWrite
  \/ InterpretPulse \/ InterpretMemWrite \/ InterpretFifoCount
  \/ MemAdv \/ MemRdCnt \/ PulseDelay \/ FifoAdv
-----------------------------------------------------------------------------
(* The Ethernet side: commands arrive and answers leave in another clock   *)
(* domain, as fast or as slowly as the host and the network like.          *)

RegWordsOutstanding ==
  Cardinality({i \in DOMAIN cmdFifo : IsRegRead(cmdFifo[i])})
    + Cardinality({i \in DOMAIN outFifo : outFifo[i].src = "reg"})
    + (IF sFifoWrreq /\ bMemNotReg = "SEL_REG" THEN 1 ELSE 0)

(* What a careful host observes: it asks for memory words only when it has *)
(* no command or answer under way, for at least one of them, and leaves no *)
(* more register answers uncollected than the output FIFO has spare room.  *)
HostMaySend(c) ==
  /\ IsMemRead(c) => /\ cmdFifo = <<>> /\ outFifo = <<>>
                     /\ cmdState = "WAIT_CMD" /\ ~sFifoWrreq
  /\ Writes(c, MEM_COUNT) => c.data # 0
  /\ IsRegRead(c) => RegWordsOutstanding < RegSlots

(* A command cannot come in while the FIFOs recover from a reset.          *)
HostSend(c) ==
  /\ ~RESET /\ ~fifoBusy
  /\ Len(cmdFifo) < CmdDepth
  /\ Careful => HostMaySend(c)
  /\ cmdFifo' = Append(cmdFifo, c)
  /\ UNCHANGED <<fsmVars, regVars, bMemNotReg, reqVars, lastCmd, outVars,
                 dataVars, memVars, chipVars, RESET>>

HostRecv ==
  /\ outFifo # <<>>
  /\ outFifo' = Tail(outFifo)
  /\ UNCHANGED <<fsmVars, regVars, bMemNotReg, reqVars, cmdVars, sFifoFull,
                 fifoBusy, dataVars, memVars, chipVars, RESET>>
-----------------------------------------------------------------------------
(* The sensor side: the chip start timer (CS0, CS1, CS2) and the stream.   *)

(* The start pulse stops the stream and holds the data FIFO in reset.      *)
ChipStart ==
  /\ ~RESET /\ chStState = "CS0" /\ sCtrStart
  /\ chStState' = "CS1" /\ sFifoWrEn' = FALSE
  /\ dataFifo' = <<>> /\ DATA_FIFO_EMPTY' = TRUE
  /\ UNCHANGED <<fsmVars, regVars, bMemNotReg, reqVars, cmdVars, outVars,
                 memVars, RESET>>

ChipStarted ==
  /\ ~RESET /\ chStState = "CS1"
  /\ chStState' = "CS2"
  /\ UNCHANGED <<fsmVars, regVars, bMemNotReg, reqVars, cmdVars, outVars,
                 dataVars, memVars, sFifoWrEn, RESET>>

StreamOn ==
  /\ ~RESET /\ chStState = "CS2"
  /\ chStState' = "CS0" /\ sFifoWrEn' = TRUE
  /\ UNCHANGED <<fsmVars, regVars, bMemNotReg, reqVars, cmdVars, outVars,
                 dataVars, memVars, RESET>>

(* A word offered to a full data FIFO is lost, which leaves no trace here. *)
SensorWord ==
  /\ sFifoWrEn /\ Len(dataFifo) < DataDepth
  /\ \E d \in Stamps : dataFifo' = Append(dataFifo, d)
  /\ UNCHANGED <<fsmVars, regVars, bMemNotReg, reqVars, cmdVars, outVars,
                 DATA_FIFO_EMPTY, memVars, chipVars, RESET>>
-----------------------------------------------------------------------------
(* RESET is asynchronous and a level.  It does not clear counterFIFO,      *)
(* sDataFifoHigh or the requests sFifoWrreq and sDataFIFOrdreq: a transfer *)
(* it interrupts keeps reading the data FIFO while it lasts.               *)

AssertReset ==
  /\ ~RESET /\ RESET' = TRUE
  /\ cmdState' = "INIT" /\ counterV' = 0
  /\ CMD_FIFO_RDREQ' = FALSE /\ sWea' = FALSE
  /\ sConfigReg' = [r \in CONFIG_REGS |-> W - 1]
  /\ sPulseReg' = 0 /\ sDinReg' = 0 /\ sMemioCnt' = 0 /\ sAddrA' = Zero32
  /\ bMemNotReg' = "SEL_REG"
  /\ cmdFifo' = <<>> /\ lastCmd' = NoCmd
  /\ outFifo' = <<>> /\ sFifoFull' = TRUE /\ fifoBusy' = TRUE
  /\ chStState' = "CS0" /\ sFifoWrEn' = FALSE
  /\ UNCHANGED <<counterFIFO, sDataFifoHigh, sDinA, sRegOut, sFifoWrreq,
                 sDataFIFOrdreq, dataVars, memVars>>

ResetEdge ==
  /\ RESET
  /\ DataFifoEdge
  /\ MEM_DOUT' = MemWord(sAddrA)
  /\ UNCHANGED <<fsmVars, regVars, bMemNotReg, reqVars, cmdVars, outVars,
                 inputMem, chipVars, RESET>>

ReleaseReset ==
  /\ RESET /\ RESET' = FALSE
  /\ UNCHANGED <<fsmVars, regVars, bMemNotReg, reqVars, cmdVars, outVars,
                 dataVars, memVars, chipVars>>

(* The output FIFO accepts words again some edges after the reset, the     *)
(* first of which it always misses.                                        *)
FifoReady ==
  /\ fifoBusy /\ cmdState # "INIT"
  /\ fifoBusy' = FALSE
  /\ UNCHANGED <<fsmVars, regVars, bMemNotReg, reqVars, cmdVars, outFifo,
                 sFifoFull, dataVars, memVars, chipVars, RESET>>
-----------------------------------------------------------------------------
Next ==
  \/ Clock
  \/ \E c \in Commands : HostSend(c)
  \/ HostRecv
  \/ ChipStart \/ ChipStarted \/ StreamOn \/ SensorWord
  \/ AssertReset \/ ResetEdge \/ ReleaseReset \/ FifoReady

Spec == Init /\ [][Next]_vars

(* The clocks run, timers expire, a reset ends and the host collects its   *)
(* answers; that the sensor keeps sending is an assumption of its own.     *)
Fairness ==
  /\ WF_vars(Clock) /\ WF_vars(HostRecv)
  /\ WF_vars(ChipStart) /\ WF_vars(ChipStarted) /\ WF_vars(StreamOn)
  /\ WF_vars(ReleaseReset) /\ WF_vars(FifoReady)

FairSpec      == Spec /\ Fairness
StreamingSpec == FairSpec /\ WF_vars(SensorWord)
-----------------------------------------------------------------------------
(* Types, by the groups of variables above.                               *)
FsmTypeOK ==
  /\ cmdState \in States /\ counterV \in Word
  /\ counterFIFO \in Nat /\ sDataFifoHigh \in Word
RegTypeOK ==
  /\ sConfigReg \in [CONFIG_REGS -> Word]
  /\ sPulseReg \in Word /\ sMemioCnt \in Word
  /\ sAddrA \in MemAddress /\ sDinReg \in Word
RequestTypeOK ==
  /\ CMD_FIFO_RDREQ \in BOOLEAN /\ sFifoWrreq \in BOOLEAN
  /\ sWea \in BOOLEAN /\ sDataFIFOrdreq \in BOOLEAN
  /\ sRegOut \in Word /\ bMemNotReg \in {"SEL_REG", "SEL_MEM", "SEL_FIFO"}
FifoTypeOK ==
  /\ cmdFifo \in Seq(Command) /\ lastCmd \in Command
  /\ outFifo \in Seq(Answers) /\ sFifoFull \in BOOLEAN /\ fifoBusy \in BOOLEAN
  /\ dataFifo \in Seq(Stamps) /\ DATA_FIFO_EMPTY \in BOOLEAN
RestTypeOK ==
  /\ sDinA \in MemAddress
  /\ inputMem \in [0..(MemDepth - 1) -> MemAddress]
  /\ MEM_DOUT \in [src : {"mem"}, val : 0..(MemDepth - 1)]
  /\ chStState \in {"CS0", "CS1", "CS2"} /\ sFifoWrEn \in BOOLEAN
  /\ RESET \in BOOLEAN

(* Every register, FIFO and flag holds a value of its type; in particular  *)
(* the data count never goes below zero and no FIFO is given a word that   *)
(* is not there.                                                           *)
TypeOK == FsmTypeOK /\ RegTypeOK /\ RequestTypeOK /\ FifoTypeOK /\ RestTypeOK

(* A word is asked of the data FIFO only when one is there, although the   *)
(* request is made an edge after the flag and the flag lags the contents:  *)
(* otherwise the last word would be sent to the host twice.                *)
NoPhantomWord ==
  sDataFIFOrdreq /\ cmdState # "INIT" => dataFifo # <<>>

(* A sensor word on its way into the output FIFO finds room there, whatever *)
(* the host leaves uncollected: the data FIFO has already given it up.     *)
NoSensorWordDropped ==
  sFifoWrreq /\ bMemNotReg = "SEL_FIFO" =>
    ~fifoBusy /\ Len(outFifo) < OutDepth

(* While a pulse is out nothing is moving: a start pulse, which resets the *)
(* data FIFO from another clock domain, cannot catch a word half copied.   *)
PulseFindsFifosAtRest ==
  sPulseReg # 0 => ~sDataFIFOrdreq /\ ~sFifoWrreq /\ ~sWea
-----------------------------------------------------------------------------
(* The contract.  A word requested of a FIFO is owed until the edge that   *)
(* moves it, and a memory address counts as advanced from then on.         *)

InFlight == IF sFifoWrreq /\ ~fifoBusy THEN 1 ELSE 0

Executing ==
  CASE cmdState = "MEM_ADV"    -> Op("store", 1, sDinA.hi)
    [] cmdState = "MEM_RD_CNT" -> Owe("mem", counterV - 1 + InFlight)
    [] cmdState = "FIFO_ADV"   -> Owe("data", counterFIFO + InFlight)
    [] OTHER -> IF InFlight = 1 THEN Op("reg", 1, sRegOut) ELSE Idle

MemCount == IF cmdState = "INIT" THEN 1 ELSE sMemioCnt
Address  == IF cmdState = "MEM_RD_CNT" /\ sFifoWrreq
              THEN PrevAddr(sAddrA) ELSE sAddrA

Contract == INSTANCE CommandServer WITH
  cmds      <- cmdFifo,
  cur       <- Executing,
  resp      <- outFifo,
  data      <- dataFifo,
  config    <- sConfigReg,
  memCount  <- MemCount,
  addr      <- Address,
  dinReg    <- sDinReg,
  fifoHigh  <- sDataFifoHigh,
  mem       <- inputMem,
  resetting <- cmdState = "INIT"

(* The pipelined state machine executes every command of a careful host    *)
(* exactly once and in order, with exactly the answers the contract owes.  *)
KeepsContract == Contract!Spec

(* A memory read, once begun, is finished, unless a reset abandons it.     *)
MemReadEnds == cmdState = "MEM_RD_CNT" ~> cmdState \in {"WAIT_CMD", "INIT"}

(* While the sensor keeps sending, the interface keeps coming back for the *)
(* next command: no request for data blocks it for good.                   *)
KeepsServing == <>[]sFifoWrEn => []<>(cmdState = "WAIT_CMD")
=============================================================================
