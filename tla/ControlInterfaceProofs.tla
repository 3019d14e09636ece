----------------------- MODULE ControlInterfaceProofs -----------------------
(***************************************************************************)
(* Safety of the control interface for every register width, every FIFO    *)
(* depth and every threshold that leaves room for two words in flight.     *)
(*                                                                         *)
(* The argument: a request is made an edge after the flag it trusts, and   *)
(* the flag is an edge behind the FIFO, so a flag that permits a request   *)
(* bounds the contents (FlagsBound), and the request then finds its word   *)
(* and its room (RequestsServed).  Neither typing nor these facts is       *)
(* inductive alone: the output FIFO receives a word of the data FIFO only  *)
(* because that FIFO is known not to be empty.                             *)
(*                                                                         *)
(* The second half shows that it implements the contract (Refinement).     *)
(***************************************************************************)
EXTENDS ControlInterface, Integers, SequenceTheorems, FiniteSetTheorems, TLAPS

(* What a flag that is low says of the FIFO behind it.                     *)
FlagsBound ==
  /\ ~DATA_FIFO_EMPTY => Len(dataFifo) >= EmptyAssert
  /\ ~sFifoFull => Len(outFifo) <= FullAssert
  /\ fifoBusy => sFifoFull

(* Requests of a transfer come in pairs, only in FIFO_ADV, and are served; *)
(* a reset may leave them standing, with the register answers selected.    *)
RequestsServed ==
  /\ sDataFIFOrdreq /\ cmdState # "INIT" =>
       cmdState = "FIFO_ADV" /\ dataFifo # <<>>
  /\ sFifoWrreq /\ bMemNotReg = "SEL_FIFO" =>
       /\ sDataFIFOrdreq /\ cmdState = "FIFO_ADV"
       /\ ~fifoBusy /\ Len(outFifo) < OutDepth
  /\ bMemNotReg = "SEL_FIFO" => cmdState \in {"FIFO_ADV", "WAIT_CMD"}

(* A pulse is out only in the states that time it.                         *)
PulseAtRest ==
  sPulseReg # 0 =>
    /\ cmdState \in {"PULSE_DELAY", "WAIT_CMD"}
    /\ ~sDataFIFOrdreq /\ ~sFifoWrreq /\ ~sWea

(* While RESET lasts the state machine is held in INIT.                    *)
ResetHolds == RESET => cmdState = "INIT"

IInv == TypeOK /\ FlagsBound /\ RequestsServed /\ PulseAtRest /\ ResetHolds
-----------------------------------------------------------------------------
(* How many elements of a sequence lie in a set, and how that number       *)
(* changes when a queue is appended to or its head is taken.               *)

Places(s, S)  == {i \in 1 .. Len(s) : s[i] \in S}
CountIn(s, S) == Cardinality(Places(s, S))

LEMMA CountType ==
  ASSUME NEW T, NEW s \in Seq(T), NEW S
  PROVE  IsFiniteSet(Places(s, S)) /\ CountIn(s, S) \in Nat
<1>1. IsFiniteSet(1 .. Len(s))
  BY LenProperties, FS_Interval
<1>2. Places(s, S) \subseteq 1 .. Len(s)
  BY DEF Places
<1>3. IsFiniteSet(Places(s, S))
  BY <1>1, <1>2, FS_Subset
<1> QED
  BY <1>3, FS_CardinalityType DEF CountIn

LEMMA CountEmpty ==
  ASSUME NEW S
  PROVE  CountIn(<<>>, S) = 0
<1>1. Places(<<>>, S) = {}
  BY DEF Places
<1> QED
  BY <1>1, FS_EmptySet DEF CountIn

LEMMA CountAppend ==
  ASSUME NEW T, NEW s \in Seq(T), NEW e \in T, NEW S
  PROVE  CountIn(Append(s, e), S) = CountIn(s, S) + (IF e \in S THEN 1 ELSE 0)
<1> DEFINE t == Append(s, e)
           n == Len(s) + 1
<1>1. /\ Len(s) \in Nat /\ Len(t) = n /\ t[n] = e
      /\ \A i \in 1 .. Len(s) : t[i] = s[i]
  BY AppendProperties, LenProperties
<1>2. IsFiniteSet(Places(s, S)) /\ CountIn(s, S) \in Nat
  BY CountType
<1>5. n \notin Places(s, S)
  BY <1>1 DEF Places
<1> HIDE DEF t
<1>3. CASE e \in S
  <2>1. Places(t, S) = Places(s, S) \cup {n}
    BY <1>1, <1>3 DEF Places
  <2> QED
    BY <1>2, <1>3, <1>5, <2>1, FS_AddElement DEF CountIn, t
<1>4. CASE e \notin S
  <2>1. Places(t, S) = Places(s, S)
    BY <1>1, <1>4 DEF Places
  <2> QED
    BY <1>2, <1>4, <2>1 DEF CountIn, t
<1> QED
  BY <1>3, <1>4

LEMMA CountTail ==
  ASSUME NEW T, NEW s \in Seq(T), s # <<>>, NEW S
  PROVE  CountIn(s, S) = CountIn(Tail(s), S) + (IF Head(s) \in S THEN 1 ELSE 0)
<1> DEFINE t == Tail(s)
<1>1. /\ Len(s) \in Nat /\ Len(s) > 0 /\ t \in Seq(T) /\ Len(t) = Len(s) - 1
      /\ Head(s) = s[1] /\ \A i \in 1 .. Len(t) : t[i] = s[i + 1]
  BY HeadTailProperties, LenProperties
<1> HIDE DEF t
<1> DEFINE Rest == Places(s, S) \ {1}
<1>2. IsFiniteSet(Places(s, S)) /\ IsFiniteSet(Places(t, S)) /\ CountIn(t, S) \in Nat
      /\ CountIn(s, S) \in Nat
  BY <1>1, CountType
<1>3. Cardinality(Rest) = CountIn(t, S)
  <2> DEFINE f == [i \in Places(t, S) |-> i + 1]
  <2>1. \A i \in Places(t, S) : f[i] \in Rest
    BY <1>1 DEF Places
  <2>2. \A i, j \in Places(t, S) : f[i] = f[j] => i = j
    BY <1>1 DEF Places
  <2>3. \A k \in Rest : \E i \in Places(t, S) : f[i] = k
    <3> SUFFICES ASSUME NEW k \in Rest PROVE k - 1 \in Places(t, S) /\ f[k - 1] = k
      OBVIOUS
    <3>1. k \in 2 .. Len(s) /\ s[k] \in S
      BY <1>1 DEF Places
    <3>2. k - 1 \in Places(t, S)
      BY <1>1, <3>1 DEF Places
    <3> QED
      BY <3>1, <3>2
  <2>4. f \in [Places(t, S) -> Rest]
    BY <2>1
  <2> HIDE DEF f
  <2>5. f \in Bijection(Places(t, S), Rest)
    BY <2>2, <2>3, <2>4 DEF Bijection, Injection, Surjection, IsInjective
  <2>6. ExistsBijection(Places(t, S), Rest)
    BY <2>5 DEF ExistsBijection
  <2> QED
    BY <1>2, <2>6, FS_Bijection DEF CountIn
<1>4. CASE Head(s) \in S
  <2>1. 1 \in Places(s, S)
    BY <1>1, <1>4 DEF Places
  <2>2. Cardinality(Rest) = Cardinality(Places(s, S)) - 1
    BY <1>2, <2>1, FS_RemoveElement
  <2>3. CountIn(s, S) = CountIn(t, S) + 1
    BY <1>2, <1>3, <2>2 DEF CountIn
  <2> QED
    BY <1>4, <2>3 DEF t
<1>5. CASE Head(s) \notin S
  <2>1. Rest = Places(s, S)
    BY <1>1, <1>5 DEF Places
  <2>2. CountIn(s, S) = CountIn(t, S)
    BY <1>3, <2>1 DEF CountIn
  <2> QED
    BY <1>2, <1>5, <2>2 DEF t
<1> QED
  BY <1>4, <1>5
-----------------------------------------------------------------------------
(* Registers and addresses.                                                *)

(* Counting up or down in a 16-bit register stays in it.                   *)
LEMMA CountTypes == ASSUME NEW v \in Word PROVE Inc(v) \in Word /\ Dec(v) \in Word
  BY WordAssumption DEF Word, Inc, Dec

(* The next address is an address.                                         *)
LEMMA AddressTypes == ASSUME NEW a \in MemAddress PROVE NextAddr(a) \in MemAddress
  <1>1. a.hi \in Word /\ a.lo \in Word
    BY DEF MemAddress
  <1> QED
    BY <1>1, CountTypes DEF NextAddr, MemAddress

(* An address selects a cell of the memory.                                *)
LEMMA CellTypes == ASSUME NEW a \in MemAddress PROVE Cell(a) \in 0..(MemDepth - 1)
  <1>1. a.lo \in Nat /\ MemDepth \in Nat /\ MemDepth > 0
    BY WordAssumption DEF MemAddress, Word
  <1> DEFINE m == MemDepth  n == a.lo
  <1>2. n % m \in 0..(m - 1)
    <2> HIDE DEF m, n
    <2> SUFFICES ASSUME n \in Nat, m \in Nat, m > 0 PROVE n % m \in 0..(m - 1)
      BY <1>1 DEF m, n
    <2> QED OBVIOUS
  <1> QED
    BY <1>2 DEF Cell

(* A register read answers with a word, whatever its address.              *)
LEMMA AnswerTypes ==
  ASSUME RegTypeOK, NEW c \in Command,
         NEW v \in RegAnswers(c, sConfigReg, sMemioCnt, sAddrA)
  PROVE  v \in Word
  <1>1. sAddrA.hi \in Word /\ sAddrA.lo \in Word /\ W - 1 \in Word
    BY WordAssumption DEF RegTypeOK, MemAddress, Word
  <1> USE DEF CONFIG_REGS, STATUS_REGS, MEM_COUNT, MEM_ADDR_LSB, MEM_ADDR_MSB
  <1>2. v \in CASE c.addr \in CONFIG_REGS -> {sConfigReg[c.addr]}
                [] c.addr \in STATUS_REGS -> StatusWords
                [] c.addr = MEM_COUNT     -> {sMemioCnt}
                [] c.addr = MEM_ADDR_LSB  -> {sAddrA.lo}
                [] c.addr = MEM_ADDR_MSB  -> {sAddrA.hi}
                [] OTHER                  -> {W - 1}
    BY Zenon DEF RegAnswers
  <1>3. c.addr \in 0..4095
    BY DEF Command
  <1>4. CASE c.addr \in CONFIG_REGS
    BY <1>2, <1>4 DEF RegTypeOK
  <1>5. CASE c.addr \in STATUS_REGS
    BY <1>2, <1>5, WordAssumption
  <1>6. CASE c.addr \notin CONFIG_REGS \union STATUS_REGS
    BY <1>1, <1>2, <1>3, <1>6 DEF RegTypeOK
  <1> QED
    BY <1>4, <1>5, <1>6
-----------------------------------------------------------------------------
(* What every edge of the clock does to the FIFOs and the memory: types    *)
(* are kept, and the flags it registers bound the contents it leaves.      *)

(* The command FIFO.                                                       *)
LEMMA CmdFifoFacts ==
  ASSUME FifoTypeOK, CmdFifoEdge
  PROVE  /\ CMD_FIFO_Q \in Command
         /\ cmdFifo' \in Seq(Command) /\ lastCmd' \in Command
  <1>1. cmdFifo # <<>> => Head(cmdFifo) \in Command /\ Tail(cmdFifo) \in Seq(Command)
    BY HeadTailProperties DEF FifoTypeOK
  <1> QED
    BY <1>1 DEF FifoTypeOK, CmdFifoEdge, CMD_FIFO_Q, cmdVars

(* The word offered to the output FIFO is an answer when it is written.    *)
LEMMA OfferedWord ==
  ASSUME IInv, sFifoWrreq PROVE sFifoD \in Answers
  <1>1. CASE bMemNotReg = "SEL_MEM"
    BY <1>1 DEF IInv, TypeOK, RestTypeOK, sFifoD, Answers
  <1>2. CASE bMemNotReg = "SEL_FIFO"
    <2>1. dataFifo # <<>> /\ dataFifo \in Seq(Stamps)
      BY <1>2 DEF IInv, TypeOK, FifoTypeOK, RequestsServed
    <2>2. Head(dataFifo) \in Stamps
      BY <2>1, HeadTailProperties
    <2> QED
      BY <1>2, <2>2 DEF sFifoD, DataWord, DATA_FIFO_Q, Answers
  <1>3. CASE bMemNotReg = "SEL_REG"
    BY <1>3 DEF IInv, TypeOK, RequestTypeOK, sFifoD, RegWord, Answers
  <1> QED
    BY <1>1, <1>2, <1>3 DEF IInv, TypeOK, RequestTypeOK

(* The output FIFO: a flag that is low after the edge leaves two words of  *)
(* room less the one just written.                                         *)
LEMMA OutFifoFacts ==
  ASSUME IInv, OutFifoEdge
  PROVE  /\ outFifo' \in Seq(Answers) /\ sFifoFull' \in BOOLEAN
         /\ fifoBusy' \in BOOLEAN
         /\ ~sFifoFull' => ~fifoBusy' /\ Len(outFifo') <= FullAssert
         /\ ~sFifoFull => ~fifoBusy' /\ Len(outFifo') < OutDepth
  <1>1. /\ outFifo \in Seq(Answers) /\ Len(outFifo) \in Nat
        /\ sFifoFull \in BOOLEAN /\ fifoBusy \in BOOLEAN
        /\ ~sFifoFull => ~fifoBusy /\ Len(outFifo) <= FullAssert
    BY LenProperties DEF IInv, TypeOK, FifoTypeOK, FlagsBound
  <1>2. sFifoWrreq => /\ Append(outFifo, sFifoD) \in Seq(Answers)
                      /\ Len(Append(outFifo, sFifoD)) = Len(outFifo) + 1
    BY <1>1, OfferedWord, AppendProperties
  <1>3. outFifo' \in Seq(Answers) /\ Len(outFifo') \in Nat
        /\ Len(outFifo') <= Len(outFifo) + 1
    BY <1>1, <1>2 DEF OutFifoEdge
  <1>4. /\ sFifoFull' \in BOOLEAN /\ fifoBusy' = fifoBusy
        /\ ~sFifoFull' => ~fifoBusy /\ ~AlmostFull
    BY Zenon DEF OutFifoEdge
  <1> QED
    BY <1>1, <1>3, <1>4, DepthAssumption DEF AlmostFull

(* The data FIFO: a flag that is low before or after the edge leaves a     *)
(* word in it.                                                             *)
LEMMA DataFifoFacts ==
  ASSUME FifoTypeOK, FlagsBound, DataFifoEdge
  PROVE  /\ dataFifo' \in Seq(Stamps) /\ DATA_FIFO_EMPTY' \in BOOLEAN
         /\ ~DATA_FIFO_EMPTY' => Len(dataFifo') >= EmptyAssert
         /\ ~DATA_FIFO_EMPTY => dataFifo' # <<>>
  <1>1. /\ dataFifo \in Seq(Stamps) /\ Len(dataFifo) \in Nat
        /\ DATA_FIFO_EMPTY \in BOOLEAN
        /\ ~DATA_FIFO_EMPTY => Len(dataFifo) >= EmptyAssert
    BY LenProperties DEF FifoTypeOK, FlagsBound
  <1>2. dataFifo # <<>> => /\ Tail(dataFifo) \in Seq(Stamps)
                           /\ Len(Tail(dataFifo)) = Len(dataFifo) - 1
    BY <1>1, HeadTailProperties
  <1>3. dataFifo' \in Seq(Stamps) /\ Len(dataFifo') \in Nat
        /\ Len(dataFifo') >= Len(dataFifo) - 1
    BY <1>1, <1>2, LenProperties DEF DataFifoEdge
  <1>4. DATA_FIFO_EMPTY' \in BOOLEAN /\ (~DATA_FIFO_EMPTY' => ~AlmostEmpty)
    <2>1. AlmostEmpty \in BOOLEAN
      BY <1>1, DepthAssumption DEF AlmostEmpty
    <2> QED
      BY <2>1, Zenon DEF DataFifoEdge
  <1>5. Len(<<>>) = 0
    BY EmptySeq
  <1> QED
    BY <1>1, <1>3, <1>4, <1>5, DepthAssumption DEF AlmostEmpty

(* The memory and its data register.                                       *)
LEMMA MemFacts ==
  ASSUME TypeOK, Edge, CMD_FIFO_Q \in Command
  PROVE  RestTypeOK'
  <1>1. Cell(sAddrA) \in 0..(MemDepth - 1)
    BY CellTypes DEF TypeOK, RegTypeOK
  <1>2. inputMem' \in [0..(MemDepth - 1) -> MemAddress]
    BY <1>1 DEF TypeOK, RestTypeOK, Edge, MemEdge
  <1>3. MEM_DOUT' \in [src : {"mem"}, val : 0..(MemDepth - 1)]
    BY <1>1 DEF Edge, MemEdge, MemWord
  <1>4. sDinA' \in MemAddress
    BY DEF TypeOK, RegTypeOK, Edge, MemAddress, Command
  <1>5. /\ chStState' \in {"CS0", "CS1", "CS2"} /\ sFifoWrEn' \in BOOLEAN
        /\ RESET' \in BOOLEAN
    BY DEF TypeOK, RestTypeOK, Edge, chipVars
  <1> QED
    BY <1>2, <1>3, <1>4, <1>5 DEF RestTypeOK

(* All of it, as the steps of the state machine use it.                    *)
LEMMA EdgeFacts ==
  ASSUME IInv, Edge
  PROVE  /\ CMD_FIFO_Q \in Command
         /\ FifoTypeOK' /\ RestTypeOK' /\ FlagsBound'
         /\ ~sFifoFull => ~fifoBusy' /\ Len(outFifo') < OutDepth
         /\ ~DATA_FIFO_EMPTY => dataFifo' # <<>>
  <1>1. /\ CMD_FIFO_Q \in Command
        /\ cmdFifo' \in Seq(Command) /\ lastCmd' \in Command
    BY CmdFifoFacts DEF IInv, TypeOK, Edge
  <1>2. /\ outFifo' \in Seq(Answers) /\ sFifoFull' \in BOOLEAN
        /\ fifoBusy' \in BOOLEAN
        /\ ~sFifoFull' => ~fifoBusy' /\ Len(outFifo') <= FullAssert
        /\ ~sFifoFull => ~fifoBusy' /\ Len(outFifo') < OutDepth
    BY OutFifoFacts DEF Edge
  <1>3. /\ dataFifo' \in Seq(Stamps) /\ DATA_FIFO_EMPTY' \in BOOLEAN
        /\ ~DATA_FIFO_EMPTY' => Len(dataFifo') >= EmptyAssert
        /\ ~DATA_FIFO_EMPTY => dataFifo' # <<>>
    BY DataFifoFacts DEF IInv, TypeOK, Edge
  <1>4. RestTypeOK'
    BY <1>1, MemFacts DEF IInv
  <1> QED
    BY <1>1, <1>2, <1>3, <1>4 DEF FifoTypeOK, FlagsBound
-----------------------------------------------------------------------------
(* The words the code assigns as literals are words of any width.          *)
LEMMA Literals == {0, 1, 2, W - 1} \subseteq Word /\ Zero32 \in MemAddress
  BY WordAssumption DEF Word, Zero32, MemAddress

(* The invariant holds at power-up.                                        *)
LEMMA InitInvariant == Init => IInv
  <1> SUFFICES ASSUME Init PROVE IInv
    OBVIOUS
  <1> USE DEF Init
  <1>1. FsmTypeOK /\ RegTypeOK /\ RequestTypeOK
    BY Literals DEF FsmTypeOK, RegTypeOK, RequestTypeOK, States
  <1>2. FifoTypeOK
    <2>1. NoCmd \in Command
      BY Literals DEF NoCmd, Command
    <2> QED
      BY <2>1, EmptySeq DEF FifoTypeOK
  <1>3. RestTypeOK
    BY Literals, CellTypes DEF RestTypeOK, MemWord
  <1>4. FlagsBound /\ RequestsServed /\ PulseAtRest /\ ResetHolds
    BY DEF FlagsBound, RequestsServed, PulseAtRest, ResetHolds
  <1> QED
    BY <1>1, <1>2, <1>3, <1>4 DEF IInv, TypeOK
-----------------------------------------------------------------------------
(* The invariant is kept by every edge of the state machine.               *)

(* It remains to show what the state machine itself assigns.               *)
LEMMA EdgeInvariant ==
  ASSUME IInv, Edge,
         FsmTypeOK', RegTypeOK', RequestTypeOK', RequestsServed', PulseAtRest'
  PROVE  IInv'
  BY EdgeFacts DEF IInv, TypeOK, ResetHolds, Edge

(* INIT and WAIT_CMD.                                                      *)
LEMMA WaitInvariant == IInv /\ (InitState \/ WaitCmd) => IInv'
  <1> SUFFICES ASSUME IInv, InitState \/ WaitCmd PROVE IInv'
    OBVIOUS
  <1> USE DEF IInv, TypeOK, FsmTypeOK, RegTypeOK, RequestTypeOK, States
  <1>1. CASE InitState
    <2> USE <1>1, Literals DEF InitState, Quiet, Drive
    <2>1. FsmTypeOK' /\ RegTypeOK' /\ RequestTypeOK'
      OBVIOUS
    <2>2. RequestsServed' /\ PulseAtRest'
      BY DEF RequestsServed, PulseAtRest
    <2> QED
      BY <2>1, <2>2, EdgeInvariant
  <1>2. CASE WaitCmd
    <2> USE <1>2, Literals DEF WaitCmd, PulseOver, Drive
    <2>1. FsmTypeOK' /\ RegTypeOK' /\ RequestTypeOK'
      OBVIOUS
    <2>2. RequestsServed' /\ PulseAtRest'
      BY DEF RequestsServed, PulseAtRest
    <2> QED
      BY <2>1, <2>2, EdgeInvariant
  <1> QED
    BY <1>1, <1>2

(* Commands that read.                                                     *)
LEMMA ReadInvariant == IInv /\ (InterpretRegRead \/ InterpretMemRead) => IInv'
  <1> SUFFICES ASSUME IInv, InterpretRegRead \/ InterpretMemRead PROVE IInv'
    OBVIOUS
  <1>0. Edge
    BY DEF InterpretRegRead, InterpretMemRead, Interpret
  <1>1. CMD_FIFO_Q \in Command
    BY <1>0, EdgeFacts
  <1> USE DEF IInv, TypeOK, FsmTypeOK, RegTypeOK, RequestTypeOK, States, Interpret
  <1>2. CASE InterpretRegRead
    <2>1. PICK v \in RegAnswers(CMD_FIFO_Q, sConfigReg, sMemioCnt, sAddrA) :
            Drive(FALSE, TRUE, v, FALSE, FALSE)
      BY <1>2 DEF InterpretRegRead
    <2>2. v \in Word
      BY <1>1, <2>1, AnswerTypes
    <2> USE <1>2, <2>1, <2>2 DEF InterpretRegRead, Drive
    <2>3. FsmTypeOK' /\ RegTypeOK' /\ RequestTypeOK'
      BY DEF fsmVars, regVars
    <2>4. RequestsServed' /\ PulseAtRest'
      BY DEF RequestsServed, PulseAtRest, regVars
    <2> QED
      BY <1>0, <2>3, <2>4, EdgeInvariant
  <1>3. CASE InterpretMemRead
    <2> USE <1>3, Literals DEF InterpretMemRead, Drive
    <2>1. FsmTypeOK' /\ RegTypeOK' /\ RequestTypeOK'
      BY AddressTypes
    <2>2. RequestsServed' /\ PulseAtRest'
      BY DEF RequestsServed, PulseAtRest
    <2> QED
      BY <1>0, <2>1, <2>2, EdgeInvariant
  <1> QED
    BY <1>2, <1>3
-----------------------------------------------------------------------------
(* Commands that write.                                                    *)
LEMMA WriteInvariant ==
  IInv /\ (InterpretRegWrite \/ InterpretPulse \/ InterpretMemWrite
             \/ InterpretFifoCount) => IInv'
  <1> SUFFICES ASSUME IInv,
                      InterpretRegWrite \/ InterpretPulse \/ InterpretMemWrite
                        \/ InterpretFifoCount
               PROVE  IInv'
    OBVIOUS
  <1>0. Edge
    BY DEF InterpretRegWrite, InterpretPulse, InterpretMemWrite,
           InterpretFifoCount, Interpret
  <1>1. CMD_FIFO_Q \in Command /\ CMD_FIFO_Q.data \in Word
    BY <1>0, EdgeFacts DEF Command
  <1> USE DEF IInv, TypeOK, FsmTypeOK, RegTypeOK, RequestTypeOK, States,
              Interpret, Drive, Quiet
  <1>2. CASE InterpretRegWrite
    <2>1. sAddrA' \in MemAddress
      BY <1>1, <1>2 DEF InterpretRegWrite, MemAddress, MEM_ADDR_LSB, MEM_ADDR_MSB
    <2>2. sConfigReg' \in [CONFIG_REGS -> Word]
      BY <1>1, <1>2 DEF InterpretRegWrite
    <2> USE <1>2, Literals DEF InterpretRegWrite
    <2>3. FsmTypeOK' /\ RegTypeOK' /\ RequestTypeOK'
      BY <1>1, <2>1, <2>2
    <2>4. RequestsServed' /\ PulseAtRest'
      BY DEF RequestsServed, PulseAtRest
    <2> QED
      BY <1>0, <2>3, <2>4, EdgeInvariant
  <1>3. CASE InterpretPulse
    <2> USE <1>3, Literals DEF InterpretPulse
    <2>1. FsmTypeOK' /\ RegTypeOK' /\ RequestTypeOK'
      BY <1>1
    <2>2. RequestsServed' /\ PulseAtRest'
      BY DEF RequestsServed, PulseAtRest
    <2> QED
      BY <1>0, <2>1, <2>2, EdgeInvariant
  <1>4. CASE InterpretMemWrite
    <2> USE <1>4, Literals DEF InterpretMemWrite, regVars
    <2>1. FsmTypeOK' /\ RegTypeOK' /\ RequestTypeOK'
      OBVIOUS
    <2>2. RequestsServed' /\ PulseAtRest'
      BY DEF RequestsServed, PulseAtRest
    <2> QED
      BY <1>0, <2>1, <2>2, EdgeInvariant
  <1>5. CASE InterpretFifoCount
    <2>1. counterFIFO' \in Nat
      BY <1>1, <1>5, WordAssumption DEF InterpretFifoCount, Word
    <2> USE <1>5, Literals DEF InterpretFifoCount, regVars
    <2>2. FsmTypeOK' /\ RegTypeOK' /\ RequestTypeOK'
      BY <2>1
    <2>3. RequestsServed' /\ PulseAtRest'
      BY DEF RequestsServed, PulseAtRest
    <2> QED
      BY <1>0, <2>2, <2>3, EdgeInvariant
  <1> QED
    BY <1>2, <1>3, <1>4, <1>5

(* The states that finish a command.  FIFO_ADV is where the flags earn     *)
(* their keep: a word is requested only when both are low.                 *)
LEMMA FinishInvariant ==
  IInv /\ (MemAdv \/ MemRdCnt \/ PulseDelay \/ FifoAdv) => IInv'
  <1> SUFFICES ASSUME IInv, MemAdv \/ MemRdCnt \/ PulseDelay \/ FifoAdv
               PROVE  IInv'
    OBVIOUS
  <1>0. Edge
    BY DEF MemAdv, MemRdCnt, PulseDelay, FifoAdv
  <1> USE DEF IInv, TypeOK, FsmTypeOK, RegTypeOK, RequestTypeOK, States, Drive, Quiet
  <1>1. CASE MemAdv
    <2> USE <1>1, Literals DEF MemAdv
    <2>1. FsmTypeOK' /\ RegTypeOK' /\ RequestTypeOK'
      BY AddressTypes
    <2>2. RequestsServed' /\ PulseAtRest'
      BY DEF RequestsServed, PulseAtRest
    <2> QED
      BY <1>0, <2>1, <2>2, EdgeInvariant
  <1>2. CASE MemRdCnt
    <2>1. counterV' \in Word
      BY <1>2, CountTypes DEF MemRdCnt, MemCountAfter
    <2>2. sFifoWrreq' \in BOOLEAN
      BY <1>2 DEF MemRdCnt
    <2> USE <1>2, Literals DEF MemRdCnt
    <2>3. FsmTypeOK' /\ RegTypeOK' /\ RequestTypeOK'
      BY <2>1, <2>2, AddressTypes
    <2>4. RequestsServed' /\ PulseAtRest'
      BY DEF RequestsServed, PulseAtRest
    <2> QED
      BY <1>0, <2>3, <2>4, EdgeInvariant
  <1>3. CASE PulseDelay
    <2> USE <1>3, Literals DEF PulseDelay, regVars
    <2>1. FsmTypeOK' /\ RegTypeOK' /\ RequestTypeOK'
      BY CountTypes
    <2>2. RequestsServed' /\ PulseAtRest'
      BY DEF RequestsServed, PulseAtRest
    <2> QED
      BY <1>0, <2>1, <2>2, EdgeInvariant
  <1>4. CASE FifoAdv
    <2>1. /\ ~sFifoFull => ~fifoBusy' /\ Len(outFifo') < OutDepth
          /\ ~DATA_FIFO_EMPTY => dataFifo' # <<>>
      BY <1>0, EdgeFacts
    <2>2. /\ CopiesWord \in BOOLEAN
          /\ CopiesWord => ~DATA_FIFO_EMPTY /\ ~sFifoFull /\ counterFIFO # 0
                           /\ ~TransferDone
      BY DEF CopiesWord, TransferDone
    <2>3. /\ sFifoWrreq' = CopiesWord /\ sDataFIFOrdreq' = CopiesWord
          /\ cmdState' = IF TransferDone THEN "WAIT_CMD" ELSE "FIFO_ADV"
          /\ counterFIFO' = IF CopiesWord THEN counterFIFO - 1 ELSE counterFIFO
      BY <1>4 DEF FifoAdv
    <2>4. sFifoWrreq' \in BOOLEAN /\ sDataFIFOrdreq' \in BOOLEAN
      BY <2>2, <2>3, Zenon
    <2>5. counterFIFO' \in Nat /\ cmdState' \in States
      BY <2>2, <2>3
    <2> USE <1>4, Literals DEF FifoAdv, regVars
    <2>6. FsmTypeOK' /\ RegTypeOK' /\ RequestTypeOK'
      BY <2>4, <2>5
    <2>7. RequestsServed' /\ PulseAtRest'
      BY <2>1, <2>2, <2>3, <2>4 DEF RequestsServed, PulseAtRest
    <2> QED
      BY <1>0, <2>6, <2>7, EdgeInvariant
  <1> QED
    BY <1>1, <1>2, <1>3, <1>4
-----------------------------------------------------------------------------
(* The invariant is kept by everything that is not an edge of CLK.         *)

(* The host.                                                               *)
LEMMA HostInvariant ==
  ASSUME IInv, HostRecv \/ \E c \in Commands : HostSend(c) PROVE IInv'
  <1> USE DEF IInv, TypeOK, fsmVars, regVars, reqVars, outVars, dataVars,
              memVars, chipVars
  <1>1. CASE HostRecv
    <2>1. /\ outFifo' \in Seq(Answers) /\ Len(outFifo') \in Nat
          /\ Len(outFifo') = Len(outFifo) - 1
      BY <1>1, HeadTailProperties, LenProperties DEF HostRecv, FifoTypeOK
    <2>2. Len(outFifo) \in Nat
      BY LenProperties DEF FifoTypeOK
    <2> USE <1>1 DEF HostRecv
    <2>3. FsmTypeOK' /\ RegTypeOK' /\ RequestTypeOK' /\ RestTypeOK'
      BY DEF FsmTypeOK, RegTypeOK, RequestTypeOK, RestTypeOK
    <2>4. FifoTypeOK'
      BY <2>1 DEF FifoTypeOK, cmdVars
    <2>5. FlagsBound' /\ RequestsServed' /\ PulseAtRest' /\ ResetHolds'
      BY <2>1, <2>2, DepthAssumption DEF FlagsBound, RequestsServed, PulseAtRest, ResetHolds
    <2> QED
      BY <2>3, <2>4, <2>5
  <1>2. ASSUME NEW c \in Commands, HostSend(c) PROVE IInv'
    <2>1. cmdFifo' \in Seq(Command)
      BY <1>2, AppendProperties, WordAssumption DEF HostSend, FifoTypeOK
    <2> USE <1>2 DEF HostSend
    <2>2. FsmTypeOK' /\ RegTypeOK' /\ RequestTypeOK' /\ RestTypeOK'
      BY DEF FsmTypeOK, RegTypeOK, RequestTypeOK, RestTypeOK
    <2>3. FifoTypeOK'
      BY <2>1 DEF FifoTypeOK
    <2>4. FlagsBound' /\ RequestsServed' /\ PulseAtRest' /\ ResetHolds'
      BY DEF FlagsBound, RequestsServed, PulseAtRest, ResetHolds
    <2> QED
      BY <2>2, <2>3, <2>4
  <1> QED
    BY <1>1, <1>2

(* The chip start empties the data FIFO with the pulse out, so it finds no *)
(* request standing; the stream only adds to that FIFO.                    *)
LEMMA SensorInvariant ==
  ASSUME IInv, ChipStart \/ ChipStarted \/ StreamOn \/ SensorWord PROVE IInv'
  <1> USE DEF IInv, TypeOK, fsmVars, regVars, reqVars, cmdVars, outVars, memVars
  <1>1. CASE ChipStart
    <2>1. sPulseReg # 0
      BY <1>1 DEF ChipStart, sCtrStart
    <2> USE <1>1 DEF ChipStart
    <2>2. FsmTypeOK' /\ RegTypeOK' /\ RequestTypeOK' /\ RestTypeOK'
      BY DEF FsmTypeOK, RegTypeOK, RequestTypeOK, RestTypeOK
    <2>3. FifoTypeOK'
      BY EmptySeq DEF FifoTypeOK
    <2>4. FlagsBound' /\ RequestsServed' /\ PulseAtRest' /\ ResetHolds'
      BY <2>1 DEF FlagsBound, RequestsServed, PulseAtRest, ResetHolds
    <2> QED
      BY <2>2, <2>3, <2>4
  <1>2. CASE ChipStarted \/ StreamOn
    <2> USE <1>2 DEF ChipStarted, StreamOn, dataVars
    <2>1. FsmTypeOK' /\ RegTypeOK' /\ RequestTypeOK' /\ RestTypeOK'
      BY DEF FsmTypeOK, RegTypeOK, RequestTypeOK, RestTypeOK
    <2>2. FifoTypeOK'
      BY DEF FifoTypeOK
    <2>3. FlagsBound' /\ RequestsServed' /\ PulseAtRest' /\ ResetHolds'
      BY DEF FlagsBound, RequestsServed, PulseAtRest, ResetHolds
    <2> QED
      BY <2>1, <2>2, <2>3
  <1>3. CASE SensorWord
    <2>1. PICK d \in Stamps : dataFifo' = Append(dataFifo, d)
      BY <1>3 DEF SensorWord
    <2>2. /\ dataFifo' \in Seq(Stamps) /\ Len(dataFifo') \in Nat
          /\ Len(dataFifo) \in Nat /\ Len(dataFifo') = Len(dataFifo) + 1
      BY <2>1, AppendProperties, LenProperties DEF FifoTypeOK
    <2>3. dataFifo' # <<>>
      BY <2>2, EmptySeq
    <2> USE <1>3 DEF SensorWord, chipVars
    <2>4. FsmTypeOK' /\ RegTypeOK' /\ RequestTypeOK' /\ RestTypeOK'
      BY DEF FsmTypeOK, RegTypeOK, RequestTypeOK, RestTypeOK
    <2>5. FifoTypeOK'
      BY <2>2 DEF FifoTypeOK
    <2>6. FlagsBound' /\ RequestsServed' /\ PulseAtRest' /\ ResetHolds'
      BY <2>2, <2>3, DepthAssumption DEF FlagsBound, RequestsServed, PulseAtRest, ResetHolds
    <2> QED
      BY <2>4, <2>5, <2>6
  <1> QED
    BY <1>1, <1>2, <1>3
-----------------------------------------------------------------------------
(* The reset.  It leaves requests standing, but selects register answers   *)
(* and holds the output FIFO in reset.                                     *)
LEMMA ResetInvariant ==
  ASSUME IInv, AssertReset \/ ResetEdge \/ ReleaseReset \/ FifoReady PROVE IInv'
  <1> USE DEF IInv, TypeOK, fsmVars, regVars, reqVars, cmdVars, outVars
  <1>1. CASE AssertReset
    <2> USE <1>1, Literals DEF AssertReset, dataVars, memVars
    <2>1. FsmTypeOK' /\ RegTypeOK' /\ RequestTypeOK' /\ RestTypeOK'
      BY DEF FsmTypeOK, RegTypeOK, RequestTypeOK, RestTypeOK, States
    <2>2. FifoTypeOK'
      <3>1. NoCmd \in Command
        BY DEF NoCmd, Command
      <3> QED
        BY <3>1, EmptySeq DEF FifoTypeOK
    <2>3. FlagsBound' /\ RequestsServed' /\ PulseAtRest' /\ ResetHolds'
      BY DEF FlagsBound, RequestsServed, PulseAtRest, ResetHolds
    <2> QED
      BY <2>1, <2>2, <2>3
  <1>2. CASE ResetEdge
    <2>1. /\ dataFifo' \in Seq(Stamps) /\ DATA_FIFO_EMPTY' \in BOOLEAN
          /\ ~DATA_FIFO_EMPTY' => Len(dataFifo') >= EmptyAssert
      BY <1>2, DataFifoFacts DEF ResetEdge
    <2>2. MEM_DOUT' \in [src : {"mem"}, val : 0..(MemDepth - 1)]
      BY <1>2, CellTypes DEF ResetEdge, MemWord, RegTypeOK
    <2> USE <1>2 DEF ResetEdge, chipVars
    <2>3. FsmTypeOK' /\ RegTypeOK' /\ RequestTypeOK' /\ RestTypeOK'
      BY <2>2 DEF FsmTypeOK, RegTypeOK, RequestTypeOK, RestTypeOK
    <2>4. FifoTypeOK'
      BY <2>1 DEF FifoTypeOK
    <2>5. FlagsBound' /\ RequestsServed' /\ PulseAtRest' /\ ResetHolds'
      BY <2>1 DEF FlagsBound, RequestsServed, PulseAtRest, ResetHolds
    <2> QED
      BY <2>3, <2>4, <2>5
  <1>3. CASE ReleaseReset
    <2> USE <1>3 DEF ReleaseReset, dataVars, memVars, chipVars
    <2>1. FsmTypeOK' /\ RegTypeOK' /\ RequestTypeOK' /\ RestTypeOK'
      BY DEF FsmTypeOK, RegTypeOK, RequestTypeOK, RestTypeOK
    <2>2. FifoTypeOK'
      BY DEF FifoTypeOK
    <2>3. FlagsBound' /\ RequestsServed' /\ PulseAtRest' /\ ResetHolds'
      BY DEF FlagsBound, RequestsServed, PulseAtRest, ResetHolds
    <2> QED
      BY <2>1, <2>2, <2>3
  <1>4. CASE FifoReady
    <2> USE <1>4 DEF FifoReady, dataVars, memVars, chipVars
    <2>1. FsmTypeOK' /\ RegTypeOK' /\ RequestTypeOK' /\ RestTypeOK'
      BY DEF FsmTypeOK, RegTypeOK, RequestTypeOK, RestTypeOK
    <2>2. FifoTypeOK'
      BY DEF FifoTypeOK
    <2>3. FlagsBound' /\ RequestsServed' /\ PulseAtRest' /\ ResetHolds'
      BY DEF FlagsBound, RequestsServed, PulseAtRest, ResetHolds
    <2> QED
      BY <2>1, <2>2, <2>3
  <1> QED
    BY <1>1, <1>2, <1>3, <1>4

(* Nothing else happens.                                                   *)
LEMMA StepInvariant == IInv /\ [Next]_vars => IInv'
  <1> SUFFICES ASSUME IInv, [Next]_vars PROVE IInv'
    OBVIOUS
  <1>1. CASE Clock
    BY <1>1, WaitInvariant, ReadInvariant, WriteInvariant, FinishInvariant DEF Clock
  <1>2. CASE HostRecv \/ \E c \in Commands : HostSend(c)
    BY <1>2, HostInvariant
  <1>3. CASE ChipStart \/ ChipStarted \/ StreamOn \/ SensorWord
    BY <1>3, SensorInvariant
  <1>4. CASE AssertReset \/ ResetEdge \/ ReleaseReset \/ FifoReady
    BY <1>4, ResetInvariant
  <1>5. CASE UNCHANGED vars
    <2> USE <1>5 DEF vars, fsmVars, regVars, reqVars, cmdVars, outVars,
                     dataVars, memVars, chipVars, IInv, TypeOK
    <2>1. FsmTypeOK' /\ RegTypeOK' /\ RequestTypeOK'
      BY DEF FsmTypeOK, RegTypeOK, RequestTypeOK
    <2>2. FifoTypeOK' /\ RestTypeOK'
      BY DEF FifoTypeOK, RestTypeOK
    <2>3. FlagsBound' /\ RequestsServed' /\ PulseAtRest' /\ ResetHolds'
      BY DEF FlagsBound, RequestsServed, PulseAtRest, ResetHolds
    <2> QED
      BY <2>1, <2>2, <2>3
  <1> QED
    BY <1>1, <1>2, <1>3, <1>4, <1>5 DEF Next

(* The invariant is one of every behaviour.                                *)
LEMMA Invariant == Spec => []IInv
  <1> QED
    BY InitInvariant, StepInvariant, PTL DEF Spec
-----------------------------------------------------------------------------
(* What the invariant is for.                                              *)

(* Every register, FIFO and flag keeps to its type, at every register      *)
(* width and FIFO depth: the data count, which FIFO_ADV counts down, never *)
(* goes below zero, and no FIFO is given a word that is not there.         *)
THEOREM TypeCorrect == Spec => []TypeOK
  <1>1. IInv => TypeOK
    BY DEF IInv
  <1> QED
    BY <1>1, Invariant, PTL

(* FIFO_ADV never asks the data FIFO for a word it does not hold, for      *)
(* every depth and every prog_empty threshold of at least two words.       *)
THEOREM NoPhantom == Spec => []NoPhantomWord
  <1>1. IInv => NoPhantomWord
    BY DEF IInv, RequestsServed, NoPhantomWord
  <1> QED
    BY <1>1, Invariant, PTL

(* FIFO_ADV never offers the output FIFO a sensor word it has no room for, *)
(* whatever the host sends and however long it leaves answers uncollected: *)
(* two words of room above the prog_full threshold are enough.             *)
THEOREM NoDrop == Spec => []NoSensorWordDropped
  <1>1. IInv => NoSensorWordDropped
    BY DEF IInv, RequestsServed, NoSensorWordDropped
  <1> QED
    BY <1>1, Invariant, PTL

(* No request of a FIFO or the memory stands while a pulse is out, so the  *)
(* chip start, which empties the data FIFO, never meets one.               *)
THEOREM PulseSafe == Spec => []PulseFindsFifosAtRest
  <1>1. IInv => PulseFindsFifosAtRest
    BY DEF IInv, PulseAtRest, PulseFindsFifosAtRest
  <1> QED
    BY <1>1, Invariant, PTL
-----------------------------------------------------------------------------
(***************************************************************************)
(* The control interface implements the contract of CommandServer, for     *)
(* every width, depth and threshold, under a careful host.                 *)
(*                                                                         *)
(* The argument: a request registered at one edge moves its word at the    *)
(* next, so between the two the word is owed (Executing).  The edge that   *)
(* moves it is the contract's step; every other edge is none, or begins    *)
(* the command at the head of the queue.  That takes three facts of the    *)
(* registers (Phases, Prefetched, InitRegs) and three of the host's care:  *)
(* its memory reads come alone, with an answer count, and the register     *)
(* answers it leaves uncollected fit above the prog_full threshold.        *)
(***************************************************************************)

(* Which requests stand in which state.                                    *)
Phases ==
  /\ CMD_FIFO_RDREQ <=> cmdState = "INTERPRET_CMD"
  /\ sWea <=> cmdState = "MEM_ADV"
  /\ sFifoWrreq => cmdState \in {"INIT", "WAIT_CMD", "MEM_RD_CNT", "FIFO_ADV"}
  /\ cmdState = "INTERPRET_CMD" => cmdFifo # <<>>
  /\ cmdState \in {"INIT", "INTERPRET_CMD", "MEM_ADV", "PULSE_DELAY"}
       => bMemNotReg = "SEL_REG"
  /\ cmdState = "WAIT_CMD" /\ sFifoWrreq => bMemNotReg = "SEL_REG"
  /\ cmdState = "MEM_RD_CNT" => bMemNotReg = "SEL_MEM" /\ counterV # 0
  /\ cmdState = "FIFO_ADV" =>
       bMemNotReg = "SEL_FIFO" /\ (sFifoWrreq <=> sDataFIFOrdreq)

(* While the output FIFO recovers from a reset nothing else happens.       *)
Recovery ==
  /\ cmdState = "INIT" => fifoBusy
  /\ fifoBusy => cmdFifo = <<>> /\ outFifo = <<>> /\ cmdState \in {"INIT", "WAIT_CMD"}
  /\ fifoBusy /\ sFifoWrreq => cmdState = "INIT"

(* What is written at the next edge is at the memory's ports already.      *)
Prefetched ==
  /\ cmdState = "MEM_RD_CNT" /\ sFifoWrreq => MEM_DOUT = MemWord(PrevAddr(sAddrA))
  /\ cmdState = "MEM_ADV" => sDinA.lo = sDinReg

(* The registers before InitState sets them again.                         *)
InitRegs ==
  cmdState = "INIT" =>
    /\ sConfigReg = [r \in CONFIG_REGS |-> W - 1]
    /\ sAddrA = Zero32 /\ sDinReg = 0

(* A careful host's memory read finds the output FIFO empty, and memory    *)
(* reads are of at least one word.                                         *)
MemReadAlone ==
  \A i \in DOMAIN cmdFifo : IsMemRead(cmdFifo[i]) =>
    /\ i = 1 /\ outFifo = <<>> /\ ~sFifoWrreq
    /\ cmdState = "WAIT_CMD" \/ (cmdState = "INTERPRET_CMD" /\ ~sFifoFull)
MemCountSet ==
  /\ cmdState # "INIT" => sMemioCnt # 0
  /\ \A i \in DOMAIN cmdFifo : Writes(cmdFifo[i], MEM_COUNT) => cmdFifo[i].data # 0

(* Only register answers go beyond two words above the threshold, and at   *)
(* most RegSlots of them are asked for or uncollected.                     *)
RegReads   == {c \in Command : IsRegRead(c)}
RegAnswer  == {a \in Answers : a.src = "reg"}
RegsAsked  == CountIn(cmdFifo, RegReads)
RegsHeld   == CountIn(outFifo, RegAnswer)
RegsMoving == IF bMemNotReg = "SEL_REG" THEN InFlight ELSE 0
Room ==
  /\ RegsAsked + RegsHeld + RegsMoving <= RegSlots
  /\ Len(outFifo) - RegsHeld <= FullAssert + 2
  /\ InFlight = 1 /\ bMemNotReg # "SEL_REG" => Len(outFifo) <= FullAssert + 1

RInv == Phases /\ Recovery /\ Prefetched /\ InitRegs /\ MemReadAlone /\ MemCountSet /\ Room

(* What the theorems assume of the host and of the output FIFO: room above *)
(* the threshold for a word in flight, one more and the register answers   *)
(* (505 of 512 in the code, which leaves five).                            *)
CarefulHost ==
  /\ Careful
  /\ FullAssert >= 1
  /\ FullAssert + RegSlots + 2 <= OutDepth
-----------------------------------------------------------------------------
(* The numbers in Room, and how a FIFO's operations change them.           *)

LEMMA RoomTypes ==
  ASSUME IInv
  PROVE  /\ RegsAsked \in Nat /\ RegsHeld \in Nat /\ Len(outFifo) \in Nat
         /\ InFlight \in {0, 1} /\ RegsMoving \in {0, 1} /\ RegsMoving <= InFlight
         /\ FullAssert \in Nat /\ RegSlots \in Nat /\ OutDepth \in Nat
  <1>1. cmdFifo \in Seq(Command) /\ outFifo \in Seq(Answers)
    BY DEF IInv, TypeOK, FifoTypeOK
  <1> QED
    BY <1>1, CountType, LenProperties, DepthAssumption
       DEF RegsAsked, RegsHeld, RegsMoving, InFlight

(* A word in flight finds room in the output FIFO.                         *)
LEMMA WordFits ==
  ASSUME CarefulHost, IInv, Room, InFlight = 1
  PROVE  Len(outFifo) < OutDepth
  <1> USE RoomTypes DEF CarefulHost, Room
  <1>1. CASE bMemNotReg = "SEL_REG"
    BY <1>1 DEF RegsMoving
  <1>2. CASE bMemNotReg # "SEL_REG"
    BY <1>2
  <1> QED
    BY <1>1, <1>2

(* Commands and answers that are taken, added or moved.                    *)
LEMMA TakeAnswer ==
  ASSUME IInv, outFifo # <<>>
  PROVE  /\ CountIn(outFifo, RegAnswer) - CountIn(Tail(outFifo), RegAnswer) \in {0, 1}
         /\ Len(Tail(outFifo)) = Len(outFifo) - 1
  <1>1. outFifo \in Seq(Answers)
    BY DEF IInv, TypeOK, FifoTypeOK
  <1>2. CountIn(outFifo, RegAnswer)
          = CountIn(Tail(outFifo), RegAnswer) + (IF Head(outFifo) \in RegAnswer THEN 1 ELSE 0)
    BY <1>1, CountTail
  <1>3. Len(Tail(outFifo)) = Len(outFifo) - 1 /\ Tail(outFifo) \in Seq(Answers)
    BY <1>1, HeadTailProperties
  <1>4. CountIn(Tail(outFifo), RegAnswer) \in Nat
    BY <1>3, CountType
  <1> QED
    BY <1>2, <1>3, <1>4
-----------------------------------------------------------------------------
(* What an edge moves: the registered requests, in the words of the        *)
(* state machine.                                                          *)
LEMMA EdgeMoves ==
  ASSUME CarefulHost, IInv, RInv, Edge
  PROVE  /\ cmdFifo' = IF cmdState = "INTERPRET_CMD" THEN Tail(cmdFifo) ELSE cmdFifo
         /\ cmdState = "INTERPRET_CMD" => CMD_FIFO_Q = Head(cmdFifo)
         /\ outFifo' = IF InFlight = 1 THEN Append(outFifo, sFifoD) ELSE outFifo
         /\ fifoBusy' = fifoBusy /\ sFifoFull' = (fifoBusy \/ Len(outFifo) >= FullAssert)
         /\ dataFifo' = IF sDataFIFOrdreq /\ dataFifo # <<>> THEN Tail(dataFifo) ELSE dataFifo
         /\ inputMem' = IF cmdState = "MEM_ADV"
                          THEN [inputMem EXCEPT ![Cell(sAddrA)] = sDinA] ELSE inputMem
         /\ MEM_DOUT' = MemWord(sAddrA)
         /\ sDinA' = [hi |-> CMD_FIFO_Q.data, lo |-> sDinReg]
  <1>1. InFlight = 1 => Len(outFifo) < OutDepth
    BY WordFits DEF RInv
  <1>2. InFlight = 1 <=> sFifoWrreq /\ ~fifoBusy
    BY DEF InFlight
  <1>3. outFifo' = IF InFlight = 1 THEN Append(outFifo, sFifoD) ELSE outFifo
    BY <1>1, <1>2 DEF Edge, OutFifoEdge
  <1>4. fifoBusy' = fifoBusy /\ sFifoFull' = (fifoBusy \/ Len(outFifo) >= FullAssert)
    BY Zenon DEF Edge, OutFifoEdge, AlmostFull
  <1>5. /\ cmdFifo' = IF cmdState = "INTERPRET_CMD" THEN Tail(cmdFifo) ELSE cmdFifo
        /\ cmdState = "INTERPRET_CMD" => CMD_FIFO_Q = Head(cmdFifo)
    BY DEF Edge, CmdFifoEdge, cmdVars, CMD_FIFO_Q, RInv, Phases
  <1>6. inputMem' = IF cmdState = "MEM_ADV"
                      THEN [inputMem EXCEPT ![Cell(sAddrA)] = sDinA] ELSE inputMem
    BY DEF Edge, MemEdge, RInv, Phases
  <1> QED
    BY <1>3, <1>4, <1>5, <1>6, Zenon DEF Edge, DataFifoEdge, MemEdge

(* The commands an edge leaves: none of them a memory read, but where one  *)
(* waits alone; and what the command interpreted says of the FIFOs.        *)
LEMMA QueueEdge ==
  ASSUME CarefulHost, IInv, RInv, Edge
  PROVE  /\ cmdState # "WAIT_CMD" =>
              \A i \in DOMAIN cmdFifo' : ~IsMemRead(cmdFifo'[i])
         /\ \A i \in DOMAIN cmdFifo' :
              Writes(cmdFifo'[i], MEM_COUNT) => cmdFifo'[i].data # 0
         /\ cmdState = "INTERPRET_CMD" =>
              /\ Writes(CMD_FIFO_Q, MEM_COUNT) => CMD_FIFO_Q.data # 0
              /\ IsMemRead(CMD_FIFO_Q) => ~sFifoFull
  <1> DEFINE q == cmdFifo'
  <1>1. cmdFifo \in Seq(Command)
    BY DEF IInv, TypeOK, FifoTypeOK
  <1>2. CASE cmdState = "INTERPRET_CMD"
    <2>1. /\ cmdFifo # <<>> /\ q = Tail(cmdFifo) /\ CMD_FIFO_Q = cmdFifo[1]
          /\ 1 \in DOMAIN cmdFifo
          /\ \A i \in DOMAIN q : q[i] = cmdFifo[i + 1] /\ i + 1 \in DOMAIN cmdFifo /\ i + 1 # 1
      <3>1. cmdFifo # <<>> /\ q = Tail(cmdFifo) /\ CMD_FIFO_Q = Head(cmdFifo)
        BY <1>2, EdgeMoves DEF RInv, Phases
      <3>2. /\ q \in Seq(Command) /\ Len(q) = Len(cmdFifo) - 1 /\ Len(cmdFifo) \in Nat
            /\ Len(cmdFifo) > 0
            /\ \A i \in 1 .. Len(q) : q[i] = cmdFifo[i + 1]
        BY <1>1, <3>1, HeadTailProperties, LenProperties
      <3>3. DOMAIN q = 1 .. Len(q) /\ DOMAIN cmdFifo = 1 .. Len(cmdFifo)
        BY <1>1, <3>2, LenProperties
      <3> HIDE DEF q
      <3>4. CMD_FIFO_Q = cmdFifo[1] /\ 1 \in DOMAIN cmdFifo
        BY <1>1, <3>1, <3>2, <3>3
      <3>5. \A i \in DOMAIN q : q[i] = cmdFifo[i + 1] /\ i + 1 \in DOMAIN cmdFifo /\ i + 1 # 1
        BY <3>2, <3>3
      <3> QED
        BY <3>1, <3>4, <3>5 DEF q
    <2> HIDE DEF q
    <2>2. \A i \in DOMAIN q : ~IsMemRead(q[i])
      BY <2>1 DEF RInv, MemReadAlone
    <2>3. \A i \in DOMAIN q : Writes(q[i], MEM_COUNT) => q[i].data # 0
      BY <2>1 DEF RInv, MemCountSet
    <2>4. /\ Writes(CMD_FIFO_Q, MEM_COUNT) => CMD_FIFO_Q.data # 0
          /\ IsMemRead(CMD_FIFO_Q) => ~sFifoFull
      BY <1>2, <2>1 DEF RInv, MemReadAlone, MemCountSet
    <2> QED
      BY <2>2, <2>3, <2>4 DEF q
  <1>3. CASE cmdState # "INTERPRET_CMD"
    <2>1. q = cmdFifo
      BY <1>3, EdgeMoves
    <2> QED
      BY <1>3, <2>1 DEF RInv, MemReadAlone, MemCountSet
  <1> QED
    BY <1>2, <1>3

(* The room an edge leaves, whatever it registers for the next.            *)
LEMMA RoomEdge ==
  ASSUME CarefulHost, IInv, RInv, Edge
  PROVE  /\ RegsAsked' + RegsHeld'
              + (IF cmdState = "INTERPRET_CMD" /\ IsRegRead(CMD_FIFO_Q) THEN 1 ELSE 0)
              <= RegSlots
         /\ Len(outFifo') - RegsHeld' <= FullAssert + 2
         /\ ~sFifoFull => Len(outFifo') <= FullAssert + 1
         /\ RegsAsked' \in Nat /\ RegsHeld' \in Nat /\ Len(outFifo') \in Nat
  <1>1. cmdFifo \in Seq(Command) /\ outFifo \in Seq(Answers)
    BY DEF IInv, TypeOK, FifoTypeOK
  <1>2. /\ RegsAsked' \in Nat
        /\ RegsAsked = RegsAsked'
             + (IF cmdState = "INTERPRET_CMD" /\ IsRegRead(CMD_FIFO_Q) THEN 1 ELSE 0)
    <2>1. CASE cmdState = "INTERPRET_CMD"
      <3>1. cmdFifo # <<>> /\ cmdFifo' = Tail(cmdFifo) /\ CMD_FIFO_Q = Head(cmdFifo)
        BY <2>1, EdgeMoves DEF RInv, Phases
      <3>2. Head(cmdFifo) \in Command /\ Tail(cmdFifo) \in Seq(Command)
        BY <1>1, <3>1, HeadTailProperties
      <3>3. CountIn(cmdFifo, RegReads) = CountIn(Tail(cmdFifo), RegReads)
              + (IF Head(cmdFifo) \in RegReads THEN 1 ELSE 0)
        BY <1>1, <3>1, CountTail
      <3>4. CountIn(Tail(cmdFifo), RegReads) \in Nat
        BY <3>2, CountType
      <3>5. Head(cmdFifo) \in RegReads <=> IsRegRead(CMD_FIFO_Q)
        BY <3>1, <3>2 DEF RegReads
      <3> QED
        BY <2>1, <3>1, <3>3, <3>4, <3>5 DEF RegsAsked
    <2>2. CASE cmdState # "INTERPRET_CMD"
      BY <2>2, EdgeMoves, RoomTypes DEF RegsAsked
    <2> QED
      BY <2>1, <2>2
  <1>3. /\ RegsHeld' = RegsHeld + RegsMoving
        /\ Len(outFifo') = Len(outFifo) + InFlight
    <2>1. CASE InFlight = 1
      <3>1. sFifoWrreq /\ outFifo' = Append(outFifo, sFifoD)
        BY <2>1, EdgeMoves DEF InFlight
      <3>2. sFifoD \in Answers
        BY <3>1, OfferedWord
      <3>3. CountIn(outFifo', RegAnswer)
              = CountIn(outFifo, RegAnswer) + (IF sFifoD \in RegAnswer THEN 1 ELSE 0)
        BY <1>1, <3>1, <3>2, CountAppend
      <3>4. Len(outFifo') = Len(outFifo) + 1
        BY <1>1, <3>1, <3>2, AppendProperties
      <3>5. sFifoD \in RegAnswer <=> bMemNotReg = "SEL_REG"
        <4>1. CASE bMemNotReg = "SEL_MEM"
          <5>1. sFifoD.src = "mem"
            BY <4>1 DEF sFifoD, IInv, TypeOK, RestTypeOK
          <5> QED
            BY <4>1, <5>1 DEF RegAnswer
        <4>2. CASE bMemNotReg = "SEL_FIFO"
          BY <4>2 DEF sFifoD, DataWord, RegAnswer
        <4>3. CASE bMemNotReg = "SEL_REG"
          BY <3>2, <4>3 DEF sFifoD, RegWord, RegAnswer
        <4> QED
          BY <4>1, <4>2, <4>3 DEF IInv, TypeOK, RequestTypeOK
      <3> QED
        BY <2>1, <3>3, <3>4, <3>5 DEF RegsHeld, RegsMoving
    <2>2. CASE InFlight = 0
      BY <2>2, EdgeMoves, RoomTypes DEF RegsHeld, RegsMoving
    <2> QED
      BY <2>1, <2>2, RoomTypes
  <1>4. ~sFifoFull => Len(outFifo) <= FullAssert
    BY DEF IInv, FlagsBound
  <1>5. Len(outFifo) - RegsHeld + (InFlight - RegsMoving) <= FullAssert + 2
    <2>1. CASE InFlight - RegsMoving = 0
      BY <2>1, RoomTypes DEF RInv, Room
    <2>2. CASE InFlight = 1 /\ bMemNotReg # "SEL_REG"
      BY <2>2, RoomTypes DEF RInv, Room, RegsMoving
    <2> QED
      BY <2>1, <2>2, RoomTypes DEF RegsMoving
  <1>6. RegsHeld' \in Nat /\ Len(outFifo') \in Nat
    BY <1>3, RoomTypes
  <1> QED
    <2>1. RegsAsked + RegsHeld + RegsMoving <= RegSlots
      BY DEF RInv, Room
    <2>2. RegsAsked' + RegsHeld'
            + (IF cmdState = "INTERPRET_CMD" /\ IsRegRead(CMD_FIFO_Q) THEN 1 ELSE 0)
            = RegsAsked + RegsHeld + RegsMoving
      BY <1>2, <1>3, RoomTypes
    <2>3. Len(outFifo') - RegsHeld' <= FullAssert + 2
      BY <1>3, <1>5, RoomTypes
    <2>4. ~sFifoFull => Len(outFifo') <= FullAssert + 1
      BY <1>3, <1>4, RoomTypes
    <2> QED
      BY <1>2, <1>6, <2>1, <2>2, <2>3, <2>4
-----------------------------------------------------------------------------
(* RInv is one of every behaviour.                                         *)

LEMMA InitRefines == ASSUME IInv, Init PROVE RInv
  <1>1. RegsAsked = 0 /\ RegsHeld = 0 /\ Len(outFifo) = 0
    BY CountEmpty, EmptySeq DEF Init, RegsAsked, RegsHeld
  <1>2. Room
    BY <1>1, DepthAssumption DEF Init, Room, RegsMoving, InFlight
  <1>3. MemReadAlone /\ MemCountSet
    BY DEF Init, MemReadAlone, MemCountSet
  <1> QED
    BY <1>2, <1>3 DEF Init, RInv, Phases, Recovery, Prefetched, InitRegs

(* For an edge it remains to show what the state machine itself assigns.   *)
LEMMA EdgeRefines ==
  ASSUME CarefulHost, IInv, RInv, Edge,
         Phases', Prefetched', cmdState' # "INIT", sMemioCnt' # 0,
         fifoBusy => cmdState' = "WAIT_CMD" /\ ~sFifoWrreq',
         cmdState = "WAIT_CMD" =>
           /\ ~sFifoWrreq'
           /\ cmdFifo # <<>> => cmdState' = "INTERPRET_CMD",
         sFifoWrreq' =>
           \/ bMemNotReg' # "SEL_REG" /\ ~sFifoFull
           \/ cmdState = "INTERPRET_CMD" /\ IsRegRead(CMD_FIFO_Q)
                /\ bMemNotReg' = "SEL_REG"
  PROVE  RInv'
  <1>1. Recovery'
    <2>1. fifoBusy' = fifoBusy
      BY EdgeMoves
    <2>2. ASSUME fifoBusy PROVE cmdFifo' = <<>> /\ outFifo' = <<>>
      <3>1. /\ cmdFifo = <<>> /\ outFifo = <<>>
            /\ cmdState # "INTERPRET_CMD" /\ InFlight # 1
        BY <2>2 DEF RInv, Recovery, InFlight
      <3> QED
        BY <3>1, EdgeMoves
    <2> QED
      BY <2>1, <2>2 DEF Recovery
  <1>2. MemReadAlone'
    <2>1. CASE cmdState = "WAIT_CMD"
      <3> SUFFICES ASSUME NEW i \in DOMAIN cmdFifo', IsMemRead(cmdFifo'[i])
                   PROVE  i = 1 /\ outFifo' = <<>> /\ ~sFifoWrreq'
                          /\ cmdState' = "INTERPRET_CMD" /\ ~sFifoFull'
        BY DEF MemReadAlone
      <3>1. cmdFifo' = cmdFifo
        BY <2>1, EdgeMoves
      <3>2. i = 1 /\ outFifo = <<>> /\ ~sFifoWrreq /\ cmdFifo # <<>>
        BY <3>1 DEF RInv, MemReadAlone
      <3>3. outFifo' = <<>>
        BY <3>2, EdgeMoves DEF InFlight
      <3>4. Len(outFifo) = 0 /\ ~fifoBusy
        BY <3>2, EmptySeq DEF RInv, Recovery
      <3>5. ~sFifoFull'
        <4>1. ~(fifoBusy \/ Len(outFifo) >= FullAssert)
          BY <3>4, DepthAssumption DEF CarefulHost
        <4>2. sFifoFull' = (fifoBusy \/ Len(outFifo) >= FullAssert)
          BY EdgeMoves
        <4> QED
          BY <4>1, <4>2, Zenon
      <3> QED
        BY <2>1, <3>2, <3>3, <3>5
    <2>2. CASE cmdState # "WAIT_CMD"
      BY <2>2, QueueEdge DEF MemReadAlone
    <2> QED
      BY <2>1, <2>2
  <1>3. MemCountSet'
    BY QueueEdge DEF MemCountSet
  <1>4. Room'
    <2> DEFINE r == IF cmdState = "INTERPRET_CMD" /\ IsRegRead(CMD_FIFO_Q) THEN 1 ELSE 0
    <2>1. /\ RegsAsked' + RegsHeld' + r <= RegSlots
          /\ Len(outFifo') - RegsHeld' <= FullAssert + 2
          /\ ~sFifoFull => Len(outFifo') <= FullAssert + 1
          /\ RegsAsked' \in Nat /\ RegsHeld' \in Nat
      BY RoomEdge
    <2>2. RegsMoving' \in {0, 1} /\ (RegsMoving' = 1 => r = 1)
      BY DEF RegsMoving, InFlight
    <2>3. r \in {0, 1}
      OBVIOUS
    <2>4. InFlight' = 1 /\ bMemNotReg' # "SEL_REG" => ~sFifoFull
      BY DEF InFlight
    <2> HIDE DEF r
    <2>5. RegsAsked' + RegsHeld' + RegsMoving' <= RegSlots
      <3>1. RegsMoving' <= r /\ r \in Nat /\ RegsMoving' \in Nat
        BY <2>2, <2>3
      <3>2. RegsAsked' \in Nat /\ RegsHeld' \in Nat /\ RegSlots \in Nat
            /\ RegsAsked' + RegsHeld' + r <= RegSlots
        BY <2>1, DepthAssumption
      <3>3. \A a, b, c, d, e \in Nat : a + b + c <= d /\ e <= c => a + b + e <= d
        OBVIOUS
      <3> QED
        BY <3>1, <3>2, <3>3, Zenon
    <2> QED
      BY <2>1, <2>4, <2>5 DEF Room
  <1> QED
    BY <1>1, <1>2, <1>3, <1>4 DEF RInv, InitRegs

(* Addresses: one step forth and one back.                                 *)
LEMMA AddressSteps ==
  ASSUME NEW a \in MemAddress
  PROVE  /\ NextAddr(a) \in MemAddress
         /\ PrevAddr(NextAddr(a)) = a /\ NextAddr(PrevAddr(a)) = a
  <1>1. a.hi \in Word /\ a.lo \in Word /\ a = [hi |-> a.hi, lo |-> a.lo]
    BY DEF MemAddress
  <1>2. \A v \in Word : Inc(Dec(v)) = v /\ Dec(Inc(v)) = v
    BY WordAssumption DEF Word, Inc, Dec
  <1>3. \A v \in Word : (Inc(v) = 0 <=> v = W - 1) /\ (Dec(v) = W - 1 <=> v = 0)
    BY WordAssumption DEF Word, Inc, Dec
  <1>4. PrevAddr(NextAddr(a)) = a
    BY <1>1, <1>2, <1>3, Zenon DEF NextAddr, PrevAddr
  <1>5. NextAddr(PrevAddr(a)) = a
    BY <1>1, <1>2, <1>3, Zenon DEF NextAddr, PrevAddr
  <1> QED
    BY <1>4, <1>5, AddressTypes
-----------------------------------------------------------------------------
(* The steps of the state machine.                                         *)
LEMMA ClockRefines == ASSUME CarefulHost, IInv, RInv, Clock PROVE RInv'
  <1>1. /\ Edge => MEM_DOUT' = MemWord(sAddrA)
        /\ Edge => sDinA' = [hi |-> CMD_FIFO_Q.data, lo |-> sDinReg]
    BY EdgeMoves
  <1>2. sAddrA \in MemAddress /\ PrevAddr(NextAddr(sAddrA)) = sAddrA
    BY AddressSteps DEF IInv, TypeOK, RegTypeOK
  <1>3. fifoBusy => cmdState \in {"INIT", "WAIT_CMD"} /\ cmdFifo = <<>>
    BY DEF RInv, Recovery
  <1>4. (cmdState # "INIT" => sMemioCnt # 0)
    BY DEF RInv, MemCountSet
  <1> USE DEF Quiet, Drive
  <1>5. CASE InitState
    <2>1. Edge /\ Phases' /\ Prefetched'
      BY <1>5 DEF InitState, RInv, Phases, Prefetched
    <2> QED
      BY <1>5, <2>1, EdgeRefines DEF InitState
  <1>6. CASE WaitCmd
    <2>1. Edge /\ cmdFifo' = cmdFifo
      BY <1>6, EdgeMoves DEF WaitCmd
    <2>2. Phases' /\ Prefetched'
      BY <1>6, <2>1 DEF WaitCmd, Phases, Prefetched
    <2> QED
      BY <1>3, <1>4, <1>6, <2>1, <2>2, EdgeRefines DEF WaitCmd
  <1>7. CASE InterpretRegRead
    <2>1. Edge /\ cmdState = "INTERPRET_CMD" /\ IsRegRead(CMD_FIFO_Q)
      BY <1>7 DEF InterpretRegRead, Interpret
    <2>2. bMemNotReg' = "SEL_REG" /\ sMemioCnt' = sMemioCnt /\ cmdState' = "WAIT_CMD"
      BY <1>7, <2>1 DEF InterpretRegRead, RInv, Phases, regVars
    <2>3. Phases' /\ Prefetched'
      BY <1>7, <2>2 DEF InterpretRegRead, Phases, Prefetched
    <2> QED
      BY <1>3, <1>4, <2>1, <2>2, <2>3, EdgeRefines
  <1>8. CASE InterpretMemRead
    <2>1. Edge /\ cmdState = "INTERPRET_CMD" /\ ~sFifoFull
      BY <1>8, QueueEdge DEF InterpretMemRead, Interpret
    <2>2. /\ bMemNotReg' = "SEL_MEM" /\ sMemioCnt' = sMemioCnt /\ cmdState' = "MEM_RD_CNT"
          /\ sAddrA' = NextAddr(sAddrA) /\ counterV' = sMemioCnt
      BY <1>8, <2>1 DEF InterpretMemRead
    <2>3. Phases'
      BY <1>4, <1>8, <2>1, <2>2 DEF InterpretMemRead, Phases
    <2>4. Prefetched'
      BY <1>1, <1>2, <2>1, <2>2 DEF Prefetched
    <2> QED
      BY <1>3, <1>4, <2>1, <2>2, <2>3, <2>4, EdgeRefines
  <1>9. CASE InterpretRegWrite
    <2>1. Edge /\ cmdState = "INTERPRET_CMD" /\ bMemNotReg = "SEL_REG"
      BY <1>9 DEF InterpretRegWrite, Interpret, RInv, Phases
    <2>2. sMemioCnt' # 0
      <3>1. Writes(CMD_FIFO_Q, MEM_COUNT) => CMD_FIFO_Q.data # 0
        BY <2>1, QueueEdge
      <3> QED
        BY <1>4, <1>9, <2>1, <3>1 DEF InterpretRegWrite, Writes
    <2>3. Phases' /\ Prefetched'
      BY <1>9, <2>1 DEF InterpretRegWrite, Phases, Prefetched
    <2> QED
      BY <1>3, <1>9, <2>1, <2>2, <2>3, EdgeRefines DEF InterpretRegWrite
  <1>10. CASE InterpretPulse \/ InterpretMemWrite
    <2>1. Edge /\ cmdState = "INTERPRET_CMD" /\ bMemNotReg = "SEL_REG"
      BY <1>10 DEF InterpretPulse, InterpretMemWrite, Interpret, RInv, Phases
    <2>2. sMemioCnt' = sMemioCnt /\ cmdState' \in {"PULSE_DELAY", "MEM_ADV"} /\ ~sFifoWrreq'
      BY <1>10 DEF InterpretPulse, InterpretMemWrite, regVars
    <2>3. Phases'
      BY <1>10, <2>1 DEF InterpretPulse, InterpretMemWrite, Phases
    <2>4. Prefetched'
      BY <1>1, <1>10, <2>1 DEF InterpretPulse, InterpretMemWrite, Prefetched, regVars
    <2> QED
      BY <1>3, <1>4, <2>1, <2>2, <2>3, <2>4, EdgeRefines
  <1>11. CASE InterpretFifoCount
    <2>1. Edge /\ cmdState = "INTERPRET_CMD"
      BY <1>11 DEF InterpretFifoCount, Interpret
    <2>2. sMemioCnt' = sMemioCnt /\ cmdState' = "FIFO_ADV" /\ ~sFifoWrreq'
      BY <1>11 DEF InterpretFifoCount, regVars
    <2>3. Phases' /\ Prefetched'
      BY <1>11 DEF InterpretFifoCount, Phases, Prefetched
    <2> QED
      BY <1>3, <1>4, <2>1, <2>2, <2>3, EdgeRefines
  <1>12. CASE MemAdv
    <2>1. Edge /\ Phases' /\ Prefetched'
      BY <1>12 DEF MemAdv, RInv, Phases, Prefetched
    <2> QED
      BY <1>3, <1>4, <1>12, <2>1, EdgeRefines DEF MemAdv
  <1>13. CASE MemRdCnt
    <2>1. /\ Edge /\ cmdState = "MEM_RD_CNT" /\ bMemNotReg = "SEL_MEM"
          /\ counterV \in Word /\ counterV # 0
      BY <1>13 DEF MemRdCnt, RInv, Phases, IInv, TypeOK, FsmTypeOK
    <2>2. cmdState' = IF Dec(counterV) = 0 THEN "WAIT_CMD" ELSE "MEM_RD_CNT"
      BY <1>13 DEF MemRdCnt
    <2>3. sFifoWrreq' => /\ ~sFifoFull /\ Dec(counterV) # 0 /\ sAddrA' = NextAddr(sAddrA)
      BY <1>13 DEF MemRdCnt
    <2>4. counterV' # 0 \/ cmdState' = "WAIT_CMD"
      BY <1>13, <2>1, <2>2 DEF MemRdCnt, MemCountAfter
    <2>5. /\ bMemNotReg' = "SEL_MEM" /\ ~CMD_FIFO_RDREQ' /\ ~sWea'
          /\ sMemioCnt' = sMemioCnt
      BY <1>13, <2>1 DEF MemRdCnt
    <2>6. Phases'
      BY <2>2, <2>3, <2>4, <2>5 DEF Phases
    <2>7. Prefetched'
      BY <1>1, <1>2, <2>1, <2>2, <2>3 DEF Prefetched
    <2> QED
      BY <1>3, <1>4, <2>1, <2>2, <2>3, <2>5, <2>6, <2>7, EdgeRefines
  <1>14. CASE PulseDelay
    <2>1. Edge /\ Phases' /\ Prefetched' /\ cmdState = "PULSE_DELAY"
      BY <1>14 DEF PulseDelay, RInv, Phases, Prefetched
    <2> QED
      BY <1>3, <1>4, <1>14, <2>1, EdgeRefines DEF PulseDelay, regVars
  <1>15. CASE FifoAdv
    <2>1. Edge /\ cmdState = "FIFO_ADV" /\ bMemNotReg = "SEL_FIFO"
      BY <1>15 DEF FifoAdv, RInv, Phases
    <2>2. /\ sFifoWrreq' = CopiesWord /\ sDataFIFOrdreq' = CopiesWord
          /\ cmdState' = IF TransferDone THEN "WAIT_CMD" ELSE "FIFO_ADV"
          /\ ~CMD_FIFO_RDREQ' /\ ~sWea'
          /\ bMemNotReg' = "SEL_FIFO" /\ sMemioCnt' = sMemioCnt
      BY <1>15, <2>1 DEF FifoAdv, regVars
    <2>3. sFifoWrreq' => ~sFifoFull /\ ~TransferDone
      BY <2>2 DEF CopiesWord, TransferDone
    <2>4. Phases' /\ Prefetched'
      BY <2>2, <2>3 DEF Phases, Prefetched
    <2> QED
      BY <1>3, <1>4, <2>1, <2>2, <2>3, <2>4, EdgeRefines
  <1> QED
    BY <1>5, <1>6, <1>7, <1>8, <1>9, <1>10, <1>11, <1>12, <1>13, <1>14, <1>15 DEF Clock
-----------------------------------------------------------------------------
(* The steps that are not edges of CLK.                                    *)

(* A command the host sends.                                               *)
LEMMA SendRefines ==
  ASSUME CarefulHost, IInv, RInv, NEW c \in Commands, HostSend(c) PROVE RInv'
  <1>1. /\ cmdFifo \in Seq(Command) /\ outFifo \in Seq(Answers) /\ c \in Command
        /\ cmdFifo' = Append(cmdFifo, c) /\ HostMaySend(c)
        /\ UNCHANGED <<fsmVars, regVars, bMemNotReg, reqVars, lastCmd, outVars,
                       dataVars, memVars, chipVars, RESET>>
    BY WordAssumption DEF HostSend, CarefulHost, IInv, TypeOK, FifoTypeOK
  <1>2. ~fifoBusy /\ cmdState # "INIT"
    BY DEF HostSend, RInv, Recovery
  <1> DEFINE n == Len(cmdFifo) + 1
  <1>3. /\ n \in Nat /\ cmdFifo' # <<>> /\ DOMAIN cmdFifo' = DOMAIN cmdFifo \union {n}
        /\ cmdFifo'[n] = c /\ \A i \in DOMAIN cmdFifo : cmdFifo'[i] = cmdFifo[i]
    <2>1. /\ cmdFifo' \in Seq(Command) /\ Len(cmdFifo') = n /\ cmdFifo'[n] = c
          /\ Len(cmdFifo) \in Nat
          /\ \A i \in 1 .. Len(cmdFifo) : cmdFifo'[i] = cmdFifo[i]
      BY <1>1, AppendProperties, LenProperties
    <2>2. DOMAIN cmdFifo' = 1 .. n /\ DOMAIN cmdFifo = 1 .. Len(cmdFifo)
      BY <1>1, <2>1, LenProperties
    <2> QED
      BY <2>1, <2>2, EmptySeq
  <1>4. IsMemRead(c) => n = 1
    BY <1>1, EmptySeq DEF HostMaySend
  <1> HIDE DEF n
  <1> USE DEF fsmVars, regVars, reqVars, outVars, memVars
  <1>5. Phases' /\ Recovery' /\ Prefetched' /\ InitRegs'
    BY <1>1, <1>2, <1>3 DEF RInv, Phases, Recovery, Prefetched, InitRegs
  <1>6. MemReadAlone'
    <2>1. IsMemRead(c) => n = 1 /\ outFifo = <<>> /\ ~sFifoWrreq /\ cmdState = "WAIT_CMD"
      BY <1>1, <1>4 DEF HostMaySend
    <2> QED
      BY <1>1, <1>3, <2>1 DEF RInv, MemReadAlone
  <1>7. MemCountSet'
    BY <1>1, <1>3 DEF RInv, MemCountSet, HostMaySend
  <1>8. Room'
    <2>1. RegsAsked' = RegsAsked + (IF c \in RegReads THEN 1 ELSE 0)
      BY <1>1, CountAppend DEF RegsAsked
    <2>2. /\ RegsHeld' = RegsHeld /\ RegsMoving' = RegsMoving /\ InFlight' = InFlight
      BY <1>1 DEF RegsHeld, RegsMoving, InFlight
    <2>3. c \in RegReads => RegsAsked + RegsHeld + RegsMoving < RegSlots
      <3>1. Places(cmdFifo, RegReads) = {i \in DOMAIN cmdFifo : IsRegRead(cmdFifo[i])}
        BY <1>1 DEF Places, RegReads
      <3>2. Places(outFifo, RegAnswer) = {i \in DOMAIN outFifo : outFifo[i].src = "reg"}
        BY <1>1 DEF Places, RegAnswer
      <3>3. RegWordsOutstanding = RegsAsked + RegsHeld
              + (IF sFifoWrreq /\ bMemNotReg = "SEL_REG" THEN 1 ELSE 0)
        BY <3>1, <3>2 DEF RegWordsOutstanding, RegsAsked, RegsHeld, CountIn
      <3>4. RegsMoving = IF sFifoWrreq /\ bMemNotReg = "SEL_REG" THEN 1 ELSE 0
        BY <1>2 DEF RegsMoving, InFlight
      <3> QED
        BY <1>1, <3>3, <3>4 DEF HostMaySend, RegReads
    <2>4. RegsAsked' + RegsHeld' + RegsMoving' <= RegSlots
      <3>1. RegsAsked + RegsHeld + RegsMoving <= RegSlots
        BY DEF RInv, Room
      <3> QED
        BY <2>1, <2>2, <2>3, <3>1, RoomTypes
    <2> QED
      BY <1>1, <2>2, <2>4 DEF RInv, Room
  <1> QED
    BY <1>5, <1>6, <1>7, <1>8 DEF RInv

(* An answer the host collects.                                            *)
LEMMA RecvRefines == ASSUME IInv, RInv, HostRecv PROVE RInv'
  <1> USE DEF HostRecv, fsmVars, regVars, reqVars, cmdVars, memVars
  <1>1. Phases' /\ Recovery' /\ Prefetched' /\ InitRegs' /\ MemReadAlone' /\ MemCountSet'
    BY DEF RInv, Phases, Recovery, Prefetched, InitRegs, MemReadAlone, MemCountSet
  <1>2. Room'
    <2>1. /\ RegsHeld - RegsHeld' \in {0, 1} /\ Len(outFifo') = Len(outFifo) - 1
          /\ RegsHeld' \in Nat
      <3>1. Tail(outFifo) \in Seq(Answers)
        BY HeadTailProperties DEF IInv, TypeOK, FifoTypeOK
      <3> QED
        BY <3>1, TakeAnswer, CountType DEF RegsHeld
    <2>2. RegsAsked' = RegsAsked /\ RegsMoving' = RegsMoving /\ InFlight' = InFlight
      BY DEF RegsAsked, RegsMoving, InFlight
    <2>3. RegsHeld' <= RegsHeld /\ Len(outFifo') - RegsHeld' <= Len(outFifo) - RegsHeld
      BY <2>1, RoomTypes
    <2>4. Len(outFifo') \in Int /\ Len(outFifo') <= Len(outFifo)
      BY <2>1, RoomTypes
    <2>5. RegsAsked' + RegsHeld' + RegsMoving' <= RegSlots
      <3>1. RegsAsked + RegsHeld + RegsMoving <= RegSlots
        BY DEF RInv, Room
      <3>2. \A a, h, k, m, n \in Nat : a + h + m <= n /\ k <= h => a + k + m <= n
        OBVIOUS
      <3>3. RegsAsked \in Nat /\ RegsHeld \in Nat /\ RegsMoving \in Nat /\ RegSlots \in Nat
        BY RoomTypes
      <3> HIDE DEF HostRecv
      <3>4. RegsAsked + RegsHeld' + RegsMoving <= RegSlots
        BY <2>1, <2>3, <3>1, <3>2, <3>3
      <3> QED
        BY <2>2, <3>4
    <2>6. Len(outFifo') - RegsHeld' <= FullAssert + 2
      BY <2>1, <2>3, <2>4, RoomTypes DEF RInv, Room
    <2>7. InFlight' = 1 /\ bMemNotReg' # "SEL_REG" => Len(outFifo') <= FullAssert + 1
      BY <2>2, <2>4, RoomTypes DEF RInv, Room
    <2> QED
      BY <2>5, <2>6, <2>7 DEF Room
  <1> QED
    BY <1>1, <1>2 DEF RInv

(* The sensor side and, but for its assertion, the reset.                  *)
LEMMA OtherRefines ==
  ASSUME IInv, RInv,
         \/ ChipStart \/ ChipStarted \/ StreamOn \/ SensorWord
         \/ ResetEdge \/ ReleaseReset \/ FifoReady
         \/ UNCHANGED vars
  PROVE  RInv'
  <1> USE DEF fsmVars, regVars, reqVars, cmdVars, outVars
  <1>1. /\ UNCHANGED <<cmdState, counterV, sConfigReg, sMemioCnt, sAddrA, sDinReg,
                       bMemNotReg, CMD_FIFO_RDREQ, sFifoWrreq, sWea, sDataFIFOrdreq,
                       sDinA, cmdFifo, outFifo, sFifoFull>>
    BY DEF ChipStart, ChipStarted, StreamOn, SensorWord, ResetEdge, ReleaseReset,
           FifoReady, vars
  <1>2. UNCHANGED fifoBusy \/ (fifoBusy /\ ~fifoBusy' /\ cmdState # "INIT")
    BY DEF ChipStart, ChipStarted, StreamOn, SensorWord, ResetEdge, ReleaseReset,
           FifoReady, vars
  <1>3. UNCHANGED MEM_DOUT \/ cmdState = "INIT"
    BY DEF ChipStart, ChipStarted, StreamOn, SensorWord, ResetEdge, ReleaseReset,
           FifoReady, vars, memVars, IInv, ResetHolds
  <1>4. Phases' /\ Recovery' /\ InitRegs' /\ MemReadAlone' /\ MemCountSet'
    BY <1>1, <1>2 DEF RInv, Phases, Recovery, InitRegs, MemReadAlone, MemCountSet
  <1>5. Prefetched'
    BY <1>1, <1>3 DEF RInv, Prefetched
  <1>6. Room'
    <2>1. InFlight' = InFlight
      BY <1>1, <1>2 DEF RInv, Recovery, InFlight
    <2>2. RegsAsked' = RegsAsked /\ RegsHeld' = RegsHeld /\ RegsMoving' = RegsMoving
      BY <1>1, <2>1 DEF RegsAsked, RegsHeld, RegsMoving
    <2> QED
      BY <1>1, <2>1, <2>2 DEF RInv, Room
  <1> QED
    BY <1>4, <1>5, <1>6 DEF RInv

LEMMA ResetRefines == ASSUME IInv, RInv, AssertReset PROVE RInv'
  <1> USE DEF AssertReset
  <1>1. RegsAsked' = 0 /\ RegsHeld' = 0 /\ Len(outFifo') = 0
    BY CountEmpty, EmptySeq DEF RegsAsked, RegsHeld
  <1>2. Room'
    BY <1>1, DepthAssumption DEF Room, RegsMoving, InFlight
  <1>3. MemReadAlone' /\ MemCountSet'
    BY DEF MemReadAlone, MemCountSet
  <1> QED
    BY <1>2, <1>3 DEF RInv, Phases, Recovery, Prefetched, InitRegs

LEMMA StepRefines == ASSUME CarefulHost, IInv, RInv, [Next]_vars PROVE RInv'
  BY ClockRefines, SendRefines, RecvRefines, OtherRefines, ResetRefines DEF Next
-----------------------------------------------------------------------------
(* The mapping.  Every variable of the contract but cur is a register, a   *)
(* FIFO or one of the two names below.                                     *)
CNext == Contract!Next
CStut == UNCHANGED <<cmdFifo, Executing, outFifo, dataFifo, sConfigReg, MemCount,
                     Address, sDinReg, sDataFifoHigh, inputMem, cmdState = "INIT">>

LEMMA Stutters == ASSUME CStut PROVE UNCHANGED Contract!vars
  BY DEF CStut, Contract!vars

(* Outside INIT the contract sees the registers themselves.                *)
LEMMA Registers ==
  /\ cmdState # "INIT" => MemCount = sMemioCnt
  /\ cmdState # "MEM_RD_CNT" => Address = sAddrA
  BY DEF MemCount, Address

(* Outside the states that finish a command only a register answer may be  *)
(* owed, and one word of it.                                               *)
Owed ==
  /\ cmdState \notin {"MEM_ADV", "MEM_RD_CNT", "FIFO_ADV"} =>
       Executing = IF InFlight = 1 THEN Op("reg", 1, sRegOut) ELSE Idle
  /\ cmdState = "MEM_ADV" => Executing = Op("store", 1, sDinA.hi)
  /\ cmdState = "MEM_RD_CNT" => Executing = Owe("mem", counterV - 1 + InFlight)
  /\ cmdState = "FIFO_ADV" => Executing = Owe("data", counterFIFO + InFlight)
  /\ ~sFifoWrreq => InFlight = 0

LEMMA Owing == Owed /\ Owed'
  BY DEF Owed, Executing, InFlight

(* A word less owed.                                                       *)
LEMMA Paying ==
  /\ Contract!Idle = Idle
  /\ \A v : Contract!RegWord(v) = RegWord(v) /\ Contract!DataWord(v) = DataWord(v)
              /\ Contract!MemWord(v) = MemWord(v)
  /\ \A k, n, v : Contract!Op(k, n, v) = Op(k, n, v) /\ Contract!Owe(k, n) = Owe(k, n)
  /\ \A k, v : Executing = Op(k, 1, v) => Executing.kind = k /\ Contract!Paid = Idle
  /\ \A k : \A n \in Nat : Executing = Owe(k, n + 1) =>
       Executing.kind = k /\ Contract!Paid = Owe(k, n)
<1>1. /\ Contract!Idle = Idle
      /\ \A v : Contract!RegWord(v) = RegWord(v) /\ Contract!DataWord(v) = DataWord(v)
                  /\ Contract!MemWord(v) = MemWord(v)
      /\ \A k, n, v : Contract!Op(k, n, v) = Op(k, n, v) /\ Contract!Owe(k, n) = Owe(k, n)
  BY DEF Contract!Idle, Contract!RegWord, Contract!DataWord, Contract!MemWord, Contract!Cell,
         Contract!Op, Contract!Owe, Idle, RegWord, DataWord, MemWord, Cell, Op, Owe
<1>2. ASSUME NEW k, NEW v, Executing = Op(k, 1, v)
      PROVE  Executing.kind = k /\ Contract!Paid = Idle
  BY <1>1, <1>2 DEF Op, Contract!Paid
<1>3. ASSUME NEW k, NEW n \in Nat, Executing = Owe(k, n + 1)
      PROVE  Executing.kind = k /\ Contract!Paid = Owe(k, n)
  <2>1. Executing = [kind |-> k, owed |-> n + 1, val |-> 0]
    BY <1>3 DEF Owe, Op
  <2>2. Executing.kind = k /\ Executing.owed = n + 1
    BY <2>1
  <2>3. CASE n = 0
    BY <1>1, <2>2, <2>3 DEF Contract!Paid, Owe
  <2>4. CASE n # 0
    <3>1. Contract!Paid = [Executing EXCEPT !.owed = Executing.owed - 1]
      BY <2>2, <2>4 DEF Contract!Paid
    <3>2. Contract!Paid = [kind |-> k, owed |-> n, val |-> 0]
      BY <2>1, <3>1
    <3> QED
      BY <2>2, <2>4, <3>2 DEF Owe, Op
  <2> QED
    BY <2>2, <2>3, <2>4
<1> QED
  BY <1>1, <1>2, <1>3

(* INIT and WAIT_CMD: a register answer registered before is moved.        *)
LEMMA InitStep == ASSUME CarefulHost, IInv, RInv, InitState PROVE Contract!LeaveReset
  <1>1. /\ InFlight = 0 /\ cmdState = "INIT" /\ cmdState' = "WAIT_CMD"
        /\ ~sFifoWrreq' /\ InFlight' = 0 /\ Edge
    BY DEF InitState, Quiet, Drive, RInv, Recovery, InFlight
  <1>2. Executing = Idle /\ Executing' = Idle
    BY <1>1, Owing DEF Owed
  <1>3. /\ cmdFifo' = cmdFifo /\ outFifo' = outFifo /\ inputMem' = inputMem
        /\ dataFifo' = IF sDataFIFOrdreq /\ dataFifo # <<>> THEN Tail(dataFifo) ELSE dataFifo
    BY <1>1, EdgeMoves
  <1>4. MemCount' = MemCount /\ Address' = Address /\ sConfigReg' = sConfigReg
        /\ sDinReg' = sDinReg /\ sDataFifoHigh' = sDataFifoHigh
    BY <1>1 DEF InitState, MemCount, Address, RInv, InitRegs
  <1> QED
    BY <1>1, <1>2, <1>3, <1>4 DEF Contract!LeaveReset, Contract!regs

LEMMA WaitStep ==
  ASSUME CarefulHost, IInv, RInv, WaitCmd PROVE CStut \/ Contract!Answer
  <1>1. /\ Edge /\ cmdState = "WAIT_CMD" /\ cmdState' \in {"WAIT_CMD", "INTERPRET_CMD"}
        /\ ~sFifoWrreq' /\ ~sDataFIFOrdreq
        /\ UNCHANGED <<sConfigReg, sMemioCnt, sAddrA, sDinReg, sDataFifoHigh>>
    BY DEF WaitCmd, Drive, IInv, RequestsServed
  <1>2. MemCount' = MemCount /\ Address' = Address
    BY <1>1 DEF MemCount, Address
  <1>3. cmdFifo' = cmdFifo /\ dataFifo' = dataFifo /\ inputMem' = inputMem
    BY <1>1, EdgeMoves
  <1>4. InFlight' = 0 /\ Executing' = Idle
    BY <1>1, Owing DEF Owed
  <1>5. CASE InFlight = 1
    <2>1. Executing = Op("reg", 1, sRegOut)
      BY <1>1, <1>5, Owing DEF Owed
    <2>2. outFifo' = Append(outFifo, RegWord(sRegOut))
      BY <1>1, <1>5, EdgeMoves DEF RInv, Phases, InFlight, sFifoD
    <2> QED
      <3>1. Executing.kind = "reg" /\ Contract!Paid = Idle /\ Executing.val = sRegOut
        BY <2>1, Paying DEF Op
      <3> QED
        BY <1>1, <1>2, <1>3, <1>4, <2>2, <3>1, Paying DEF Contract!Answer, Contract!regs
  <1>6. CASE InFlight # 1
    <2>1. Executing = Idle /\ outFifo' = outFifo
      BY <1>1, <1>6, EdgeMoves, Owing DEF Owed
    <2> QED
      BY <1>1, <1>2, <1>3, <1>4, <2>1 DEF CStut
  <1> QED
    BY <1>5, <1>6
-----------------------------------------------------------------------------
(* INTERPRET_CMD begins the command at the head of the queue.              *)

LEMMA SameWords ==
  /\ \A c : (Contract!IsMemRead(c) <=> IsMemRead(c))
  /\ \A c, a : (Contract!Writes(c, a) <=> Writes(c, a))
  /\ \A c, f, n, a : Contract!RegAnswers(c, f, n, a) = RegAnswers(c, f, n, a)
  /\ \A a : Contract!NextAddr(a) = NextAddr(a) /\ Contract!Cell(a) = Cell(a)
  /\ Contract!FIFO_COUNT = FIFO_COUNT /\ Contract!MEM_DATA = MEM_DATA
  /\ Contract!MEM_COUNT = MEM_COUNT /\ Contract!CONFIG_REGS = CONFIG_REGS
  /\ Contract!MEM_ADDR_LSB = MEM_ADDR_LSB /\ Contract!MEM_ADDR_MSB = MEM_ADDR_MSB
  /\ Contract!MEM_DATA_LSB = MEM_DATA_LSB /\ Contract!FIFO_COUNT_HIGH = FIFO_COUNT_HIGH
<1> USE DEF Contract!FIFO_COUNT, FIFO_COUNT, Contract!MEM_DATA, MEM_DATA,
            Contract!MEM_COUNT, MEM_COUNT, Contract!CONFIG_REGS, CONFIG_REGS,
            Contract!MEM_ADDR_LSB, MEM_ADDR_LSB, Contract!MEM_ADDR_MSB, MEM_ADDR_MSB,
            Contract!MEM_DATA_LSB, MEM_DATA_LSB,
            Contract!FIFO_COUNT_HIGH, FIFO_COUNT_HIGH
<1>1. \A c, f, n, a : Contract!RegAnswers(c, f, n, a) = RegAnswers(c, f, n, a)
  BY Zenon DEF Contract!RegAnswers, RegAnswers, Contract!STATUS_REGS, STATUS_REGS
<1>2. \A a : Contract!NextAddr(a) = NextAddr(a) /\ Contract!Cell(a) = Cell(a)
  BY DEF Contract!NextAddr, NextAddr, Contract!Inc, Inc, Contract!Cell, Cell
<1> QED
  BY <1>1, <1>2 DEF Contract!IsMemRead, IsMemRead, Contract!Writes, Writes

LEMMA Interpreting ==
  ASSUME CarefulHost, IInv, RInv, Interpret
  PROVE  /\ cmdState = "INTERPRET_CMD" /\ Edge
         /\ cmdFifo # <<>> /\ cmdFifo' = Tail(cmdFifo) /\ CMD_FIFO_Q = Head(cmdFifo)
         /\ UNCHANGED <<outFifo, dataFifo, inputMem>>
         /\ Executing = Idle /\ MemCount = sMemioCnt /\ Address = sAddrA
         /\ InFlight' = IF sFifoWrreq' THEN 1 ELSE 0
         /\ bMemNotReg = "SEL_REG"
<1>1. /\ cmdState = "INTERPRET_CMD" /\ Edge /\ cmdFifo # <<>> /\ ~sFifoWrreq
      /\ ~sDataFIFOrdreq /\ ~fifoBusy /\ bMemNotReg = "SEL_REG"
  BY DEF Interpret, RInv, Phases, Recovery, IInv, RequestsServed
<1>2. InFlight = 0 /\ Executing = Idle
  BY <1>1, Owing DEF Owed
<1>3. MemCount = sMemioCnt /\ Address = sAddrA
  BY <1>1, Registers
<1>4. fifoBusy' = fifoBusy
  BY <1>1, EdgeMoves
<1>5. InFlight' = IF sFifoWrreq' THEN 1 ELSE 0
  BY <1>1, <1>4 DEF InFlight
<1>6. /\ cmdFifo' = Tail(cmdFifo) /\ CMD_FIFO_Q = Head(cmdFifo)
      /\ UNCHANGED <<outFifo, dataFifo, inputMem>>
  BY <1>1, <1>2, EdgeMoves
<1> QED
  BY <1>1, <1>2, <1>3, <1>5, <1>6

LEMMA RegReadStep ==
  ASSUME CarefulHost, IInv, RInv, InterpretRegRead PROVE Contract!BeginRead(Head(cmdFifo))
<1> DEFINE c == Head(cmdFifo)
<1>1. Interpret /\ IsRegRead(CMD_FIFO_Q) /\ cmdState' = "WAIT_CMD"
      /\ UNCHANGED <<sConfigReg, sMemioCnt, sAddrA, sDinReg, sDataFifoHigh>>
  BY DEF InterpretRegRead, regVars
<1>2. /\ c = CMD_FIFO_Q /\ Executing = Idle /\ cmdState = "INTERPRET_CMD"
      /\ cmdFifo # <<>> /\ cmdFifo' = Tail(cmdFifo)
      /\ UNCHANGED <<outFifo, dataFifo, inputMem>>
  BY <1>1, Interpreting
<1>3. MemCount = sMemioCnt /\ Address = sAddrA /\ MemCount' = MemCount /\ Address' = Address
  BY <1>1, <1>2 DEF MemCount, Address
<1>4. PICK v \in RegAnswers(c, sConfigReg, MemCount, Address) :
        Drive(FALSE, TRUE, v, FALSE, FALSE)
  BY <1>2, <1>3 DEF InterpretRegRead
<1>5. Executing' = Op("reg", 1, v)
  BY <1>1, <1>4, Interpreting, Owing DEF Drive, Owed
<1>6. c.read /\ ~IsMemRead(c)
  BY <1>1, <1>2 DEF IsRegRead, IsMemRead
<1> QED
  BY <1>1, <1>2, <1>3, <1>4, <1>5, <1>6, SameWords, Paying
     DEF Contract!BeginRead, Contract!Begin

LEMMA MemReadStep ==
  ASSUME CarefulHost, IInv, RInv, InterpretMemRead PROVE Contract!BeginRead(Head(cmdFifo))
<1> DEFINE c == Head(cmdFifo)
<1>1. Interpret /\ IsMemRead(CMD_FIFO_Q)
      /\ UNCHANGED <<sConfigReg, sMemioCnt, sDinReg, sDataFifoHigh>>
  BY DEF InterpretMemRead
<1>2. /\ c = CMD_FIFO_Q /\ Executing = Idle /\ cmdState = "INTERPRET_CMD" /\ Edge
      /\ cmdFifo # <<>> /\ cmdFifo' = Tail(cmdFifo)
      /\ UNCHANGED <<outFifo, dataFifo, inputMem>>
  BY <1>1, Interpreting
<1>3. ~sFifoFull
  BY <1>1, <1>2, QueueEdge
<1>4. /\ cmdState' = "MEM_RD_CNT" /\ sFifoWrreq' /\ sAddrA' = NextAddr(sAddrA)
      /\ counterV' = sMemioCnt
  BY <1>3 DEF InterpretMemRead, Drive
<1>5. PrevAddr(NextAddr(sAddrA)) = sAddrA /\ sMemioCnt \in Nat
  BY AddressSteps, WordAssumption DEF IInv, TypeOK, RegTypeOK, Word
<1>6. MemCount = sMemioCnt /\ MemCount' = MemCount /\ Address' = Address
  BY <1>1, <1>2, <1>4, <1>5 DEF MemCount, Address
<1>7. Executing' = Owe("mem", MemCount)
  <2>1. InFlight' = 1
    BY <1>1, <1>4, Interpreting
  <2>2. Executing' = Owe("mem", counterV' - 1 + InFlight')
    BY <1>4, Owing DEF Owed
  <2>3. counterV' - 1 + InFlight' = MemCount
    BY <1>4, <1>5, <1>6, <2>1
  <2> QED
    BY <2>2, <2>3
<1>8. c.read
  BY <1>1, <1>2 DEF IsMemRead
<1> QED
  BY <1>1, <1>2, <1>4, <1>6, <1>7, <1>8, SameWords, Paying
     DEF Contract!BeginRead, Contract!Begin

LEMMA WriteStep ==
  ASSUME CarefulHost, IInv, RInv, InterpretRegWrite \/ InterpretPulse
  PROVE  Contract!Write(Head(cmdFifo))
<1> DEFINE c == Head(cmdFifo)
<1>1. /\ Interpret /\ ~CMD_FIFO_Q.read /\ CMD_FIFO_Q.addr \notin {MEM_DATA, FIFO_COUNT}
      /\ cmdState' \in {"WAIT_CMD", "PULSE_DELAY"} /\ ~sFifoWrreq'
  BY DEF InterpretRegWrite, InterpretPulse, Writes, PULSE_REG, MEM_DATA, FIFO_COUNT,
         Quiet, Drive
<1>2. /\ c = CMD_FIFO_Q /\ Executing = Idle /\ cmdState = "INTERPRET_CMD"
      /\ cmdFifo # <<>> /\ cmdFifo' = Tail(cmdFifo)
      /\ UNCHANGED <<outFifo, dataFifo, inputMem>>
  BY <1>1, Interpreting
<1>3. MemCount = sMemioCnt /\ Address = sAddrA /\ MemCount' = sMemioCnt' /\ Address' = sAddrA'
  BY <1>1, <1>2 DEF MemCount, Address
<1>4. Executing' = Idle
  BY <1>1, Owing DEF Owed
<1>5. /\ sConfigReg' = IF c.addr \in CONFIG_REGS
                         THEN [sConfigReg EXCEPT ![c.addr] = c.data] ELSE sConfigReg
      /\ sMemioCnt' = IF c.addr = MEM_COUNT THEN c.data ELSE sMemioCnt
      /\ sAddrA' = CASE c.addr = MEM_ADDR_LSB -> [sAddrA EXCEPT !.lo = c.data]
                     [] c.addr = MEM_ADDR_MSB -> [sAddrA EXCEPT !.hi = c.data]
                     [] OTHER                 -> sAddrA
      /\ sDinReg' = IF c.addr = MEM_DATA_LSB THEN c.data ELSE sDinReg
      /\ sDataFifoHigh' = IF c.addr = FIFO_COUNT_HIGH THEN c.data ELSE sDataFifoHigh
  <2>1. CASE InterpretRegWrite
    BY <1>2, <2>1, Zenon DEF InterpretRegWrite
  <2>2. CASE InterpretPulse
    <3>1. c.addr = PULSE_REG
          /\ UNCHANGED <<sConfigReg, sMemioCnt, sAddrA, sDinReg, sDataFifoHigh>>
      BY <1>2, <2>2 DEF InterpretPulse, Writes
    <3>2. c.addr \notin CONFIG_REGS /\ c.addr # MEM_COUNT /\ c.addr # MEM_ADDR_LSB
          /\ c.addr # MEM_ADDR_MSB /\ c.addr # MEM_DATA_LSB /\ c.addr # FIFO_COUNT_HIGH
      BY <3>1 DEF PULSE_REG, CONFIG_REGS, MEM_COUNT, MEM_ADDR_LSB, MEM_ADDR_MSB,
                  MEM_DATA_LSB, FIFO_COUNT_HIGH
    <3> QED
      BY <3>1, <3>2, Zenon
  <2> QED
    BY <2>1, <2>2
<1>6. Contract!Begin(c)
  BY <1>1, <1>2, Paying DEF Contract!Begin
<1>7. Executing' = Executing /\ ~c.read /\ c.addr \notin {FIFO_COUNT, MEM_DATA}
  BY <1>1, <1>2, <1>4
<1>8. Address' = CASE c.addr = MEM_ADDR_LSB -> [Address EXCEPT !.lo = c.data]
                   [] c.addr = MEM_ADDR_MSB -> [Address EXCEPT !.hi = c.data]
                   [] OTHER                 -> Address
  BY <1>3, <1>5, Zenon
<1>9. MemCount' = IF c.addr = MEM_COUNT THEN c.data ELSE MemCount
  BY <1>3, <1>5, Zenon
<1> HIDE DEF c
<1>10. Contract!Write(c)
  BY <1>5, <1>6, <1>7, <1>8, <1>9, SameWords, Zenon DEF Contract!Write
<1> QED
  BY <1>10 DEF c

LEMMA StoreBegins ==
  ASSUME CarefulHost, IInv, RInv, InterpretMemWrite
  PROVE  Contract!BeginStore(Head(cmdFifo))
<1> DEFINE c == Head(cmdFifo)
<1>1. /\ Interpret /\ Writes(CMD_FIFO_Q, MEM_DATA) /\ cmdState' = "MEM_ADV"
      /\ UNCHANGED <<sConfigReg, sMemioCnt, sAddrA, sDinReg, sDataFifoHigh>>
  BY DEF InterpretMemWrite, regVars
<1>2. /\ c = CMD_FIFO_Q /\ Executing = Idle /\ cmdState = "INTERPRET_CMD" /\ Edge
      /\ cmdFifo # <<>> /\ cmdFifo' = Tail(cmdFifo)
      /\ UNCHANGED <<outFifo, dataFifo, inputMem>>
  BY <1>1, Interpreting
<1>3. MemCount' = MemCount /\ Address' = Address
  BY <1>1, <1>2 DEF MemCount, Address
<1>4. sDinA' = [hi |-> c.data, lo |-> sDinReg]
  BY <1>2, EdgeMoves
<1>5. Executing' = Op("store", 1, c.data)
  BY <1>1, <1>4, Owing DEF Owed
<1> QED
  BY <1>1, <1>2, <1>3, <1>5, SameWords, Paying DEF Contract!BeginStore, Contract!Begin

LEMMA TransferBegins ==
  ASSUME CarefulHost, IInv, RInv, InterpretFifoCount
  PROVE  Contract!BeginTransfer(Head(cmdFifo))
<1> DEFINE c == Head(cmdFifo)
<1>1. /\ Interpret /\ Writes(CMD_FIFO_Q, FIFO_COUNT) /\ cmdState' = "FIFO_ADV"
      /\ ~sFifoWrreq' /\ counterFIFO' = sDataFifoHigh * W + CMD_FIFO_Q.data
      /\ UNCHANGED <<sConfigReg, sMemioCnt, sAddrA, sDinReg, sDataFifoHigh>>
  BY DEF InterpretFifoCount, regVars, Quiet, Drive
<1>2. /\ c = CMD_FIFO_Q /\ Executing = Idle /\ cmdState = "INTERPRET_CMD" /\ Edge
      /\ cmdFifo # <<>> /\ cmdFifo' = Tail(cmdFifo)
      /\ UNCHANGED <<outFifo, dataFifo, inputMem>>
  BY <1>1, Interpreting
<1>3. MemCount' = MemCount /\ Address' = Address
  BY <1>1, <1>2 DEF MemCount, Address
<1>4. counterFIFO' \in Nat
  BY <1>1, StepInvariant DEF Next, Clock, IInv, TypeOK, FsmTypeOK
<1>5. Executing' = Owe("data", sDataFifoHigh * W + c.data)
  <2>1. Executing' = Owe("data", counterFIFO' + InFlight') /\ InFlight' = 0
    BY <1>1, Owing DEF Owed
  <2>2. \A n \in Nat : n + 0 = n
    OBVIOUS
  <2>3. counterFIFO' + InFlight' = counterFIFO'
    BY <1>4, <2>1, <2>2, Zenon
  <2> QED
    BY <1>1, <1>2, <2>1, <2>3
<1> QED
  BY <1>1, <1>2, <1>3, <1>5, SameWords, Paying DEF Contract!BeginTransfer, Contract!Begin
-----------------------------------------------------------------------------
(* The states that finish a command pay what it owes.                      *)

LEMMA StoreStep == ASSUME CarefulHost, IInv, RInv, MemAdv PROVE Contract!Store
<1>1. /\ Edge /\ cmdState = "MEM_ADV" /\ cmdState' = "WAIT_CMD" /\ ~sFifoWrreq /\ ~sFifoWrreq'
      /\ sAddrA' = NextAddr(sAddrA) /\ ~sDataFIFOrdreq /\ sDinA.lo = sDinReg
      /\ UNCHANGED <<sConfigReg, sMemioCnt, sDinReg, sDataFifoHigh>>
  BY DEF MemAdv, Quiet, Drive, RInv, Phases, Prefetched, IInv, RequestsServed
<1>2. InFlight # 1
  BY <1>1 DEF InFlight
<1>3. /\ UNCHANGED <<cmdFifo, outFifo, dataFifo>>
      /\ inputMem' = [inputMem EXCEPT ![Cell(sAddrA)] = sDinA]
  BY <1>1, <1>2, EdgeMoves
<1>4. Executing = Op("store", 1, sDinA.hi) /\ Executing' = Idle
  BY <1>1, Owing DEF Owed
<1>5. Executing.kind = "store" /\ Contract!Paid = Idle /\ Executing.val = sDinA.hi
  BY <1>4, Paying DEF Op
<1>6. /\ Address = sAddrA /\ Address' = sAddrA' /\ MemCount' = MemCount
  BY <1>1 DEF Address, MemCount
<1>7. sDinA = [hi |-> Executing.val, lo |-> sDinReg]
  BY <1>1, <1>5 DEF IInv, TypeOK, RestTypeOK, MemAddress
<1> QED
  BY <1>1, <1>3, <1>4, <1>5, <1>6, <1>7, SameWords DEF Contract!Store

LEMMA MemReadPays ==
  ASSUME CarefulHost, IInv, RInv, MemRdCnt PROVE CStut \/ Contract!ReadCell
<1> DEFINE read == Dec(counterV) # 0 /\ ~sFifoFull
<1>1. /\ Edge /\ cmdState = "MEM_RD_CNT" /\ bMemNotReg = "SEL_MEM"
      /\ ~sDataFIFOrdreq /\ ~fifoBusy
      /\ UNCHANGED <<sConfigReg, sMemioCnt, sDinReg, sDataFifoHigh>>
  BY DEF MemRdCnt, RInv, Phases, Recovery, IInv, RequestsServed
<1>2. /\ cmdState' = IF Dec(counterV) = 0 THEN "WAIT_CMD" ELSE "MEM_RD_CNT"
      /\ sFifoWrreq' <=> read
      /\ sAddrA' = IF read THEN NextAddr(sAddrA) ELSE sAddrA
      /\ counterV' = MemCountAfter(read)
  BY DEF MemRdCnt, Drive
<1>3. /\ UNCHANGED <<cmdFifo, dataFifo, inputMem, fifoBusy>>
      /\ outFifo' = IF InFlight = 1 THEN Append(outFifo, sFifoD) ELSE outFifo
  BY <1>1, EdgeMoves
<1>4. /\ counterV \in Nat /\ counterV # 0 /\ Dec(counterV) = counterV - 1
      /\ sAddrA \in MemAddress
  BY <1>1, WordAssumption
     DEF IInv, TypeOK, FsmTypeOK, RegTypeOK, Word, RInv, Phases, Dec
<1>5. /\ InFlight = IF sFifoWrreq THEN 1 ELSE 0
      /\ InFlight' = IF sFifoWrreq' THEN 1 ELSE 0
  BY <1>1, <1>3 DEF InFlight
<1>6. Executing = Owe("mem", counterV - 1 + InFlight)
  BY <1>1, Owing DEF Owed
<1>7. Executing' = Owe("mem", counterV - 1)
  <2>1. CASE Dec(counterV) = 0
    <3>1. InFlight' = 0 /\ Executing' = Idle
      BY <1>2, <1>5, <2>1, Owing DEF Owed
    <3>2. counterV - 1 = 0
      BY <1>4, <2>1
    <3> QED
      BY <3>1, <3>2 DEF Owe
  <2>2. CASE Dec(counterV) # 0
    <3>1. Executing' = Owe("mem", counterV' - 1 + InFlight')
      BY <1>2, <2>2, Owing DEF Owed
    <3>2. counterV' - 1 + InFlight' = counterV - 1
      BY <1>2, <1>4, <1>5, <2>2 DEF MemCountAfter
    <3> QED
      BY <3>1, <3>2
  <2> QED
    BY <2>1, <2>2
<1>8. Address' = sAddrA
  BY <1>2, <1>4, AddressSteps DEF Address
<1>9. MemCount' = MemCount
  BY <1>1, <1>2 DEF MemCount
<1>10. CASE sFifoWrreq
  <2>1. Address = PrevAddr(sAddrA) /\ NextAddr(Address) = sAddrA
    BY <1>1, <1>4, <1>10, AddressSteps DEF Address
  <2>2. outFifo' = Append(outFifo, MemWord(Address))
    BY <1>1, <1>3, <1>5, <1>10, <2>1 DEF sFifoD, RInv, Prefetched
  <2>3. Executing.kind = "mem" /\ Contract!Paid = Executing'
    <3> DEFINE n == counterV - 1
    <3>1. n \in Nat /\ n + InFlight = n + 1
      BY <1>4, <1>5, <1>10
    <3>2. Executing = Owe("mem", n + 1) /\ Executing' = Owe("mem", n)
      BY <1>6, <1>7, <3>1
    <3> QED
      BY <3>1, <3>2, Paying
  <2> QED
    BY <1>1, <1>2, <1>3, <1>8, <1>9, <2>1, <2>2, <2>3, SameWords, Paying
       DEF Contract!ReadCell
<1>11. CASE ~sFifoWrreq
  <2>1. Executing' = Executing
    <3>1. counterV - 1 + InFlight = counterV - 1
      BY <1>4, <1>5, <1>11
    <3> QED
      BY <1>6, <1>7, <3>1
  <2>2. Address = sAddrA /\ outFifo' = outFifo
    BY <1>3, <1>5, <1>11 DEF Address
  <2> QED
    BY <1>1, <1>2, <1>3, <1>8, <1>9, <2>1, <2>2 DEF CStut
<1> QED
  BY <1>10, <1>11

LEMMA PulseStep == ASSUME CarefulHost, IInv, RInv, PulseDelay PROVE CStut
<1>1. /\ Edge /\ cmdState = "PULSE_DELAY" /\ cmdState' \in {"WAIT_CMD", "PULSE_DELAY"}
      /\ ~sFifoWrreq /\ ~sFifoWrreq' /\ ~sDataFIFOrdreq
      /\ UNCHANGED <<sConfigReg, sMemioCnt, sAddrA, sDinReg, sDataFifoHigh>>
  BY DEF PulseDelay, Quiet, Drive, regVars, RInv, Phases, IInv, RequestsServed
<1>2. UNCHANGED <<cmdFifo, outFifo, dataFifo, inputMem>>
  <2>1. InFlight # 1
    BY <1>1 DEF InFlight
  <2> QED
    BY <1>1, <2>1, EdgeMoves
<1>3. Executing = Idle /\ Executing' = Idle
  BY <1>1, Owing DEF Owed
<1>4. MemCount' = MemCount /\ Address' = Address
  BY <1>1 DEF MemCount, Address
<1> QED
  BY <1>1, <1>2, <1>3, <1>4 DEF CStut

LEMMA TransferPays ==
  ASSUME CarefulHost, IInv, RInv, FifoAdv PROVE CStut \/ Contract!CopyWord
<1>1. /\ Edge /\ cmdState = "FIFO_ADV" /\ bMemNotReg = "SEL_FIFO" /\ ~fifoBusy
      /\ (sFifoWrreq <=> sDataFIFOrdreq) /\ (sFifoWrreq => dataFifo # <<>>)
      /\ UNCHANGED <<sConfigReg, sMemioCnt, sAddrA, sDinReg, sDataFifoHigh>>
  BY DEF FifoAdv, regVars, RInv, Phases, Recovery, IInv, RequestsServed
<1>2. /\ cmdState' = IF TransferDone THEN "WAIT_CMD" ELSE "FIFO_ADV"
      /\ sFifoWrreq' = CopiesWord
      /\ counterFIFO' = IF CopiesWord THEN counterFIFO - 1 ELSE counterFIFO
  BY DEF FifoAdv, Drive
<1>3. /\ UNCHANGED <<cmdFifo, inputMem, fifoBusy>>
      /\ outFifo' = IF InFlight = 1 THEN Append(outFifo, sFifoD) ELSE outFifo
      /\ dataFifo' = IF sFifoWrreq THEN Tail(dataFifo) ELSE dataFifo
  BY <1>1, EdgeMoves
<1>4. /\ InFlight = IF sFifoWrreq THEN 1 ELSE 0
      /\ InFlight' = IF sFifoWrreq' THEN 1 ELSE 0
  BY <1>1, <1>3 DEF InFlight
<1>5. counterFIFO \in Nat
  BY DEF IInv, TypeOK, FsmTypeOK
<1>6. Executing = Owe("data", counterFIFO + InFlight)
  BY <1>1, Owing DEF Owed
<1>7. Executing' = Owe("data", counterFIFO)
  <2>1. CASE TransferDone
    <3>1. InFlight' = 0 /\ counterFIFO = 0 /\ cmdState' = "WAIT_CMD"
      BY <1>2, <1>4, <2>1 DEF TransferDone, CopiesWord
    <3>2. Executing' = Idle
      BY <3>1, Owing DEF Owed
    <3> QED
      BY <3>1, <3>2 DEF Owe
  <2>2. CASE ~TransferDone
    <3>1. Executing' = Owe("data", counterFIFO' + InFlight')
      BY <1>2, <2>2, Owing DEF Owed
    <3>2. counterFIFO' + InFlight' = counterFIFO
      <4>1. CASE CopiesWord
        <5>1. counterFIFO' = counterFIFO - 1 /\ InFlight' = 1
          BY <1>2, <1>4, <4>1, Zenon
        <5> QED
          BY <1>5, <5>1
      <4>2. CASE ~CopiesWord
        <5>1. counterFIFO' = counterFIFO /\ InFlight' = 0
          BY <1>2, <1>4, <4>2, Zenon
        <5> QED
          BY <1>5, <5>1
      <4> QED
        BY <4>1, <4>2
    <3> QED
      BY <3>1, <3>2
  <2> QED
    BY <2>1, <2>2
<1>8. MemCount' = MemCount /\ Address' = Address
  BY <1>1, <1>2 DEF MemCount, Address
<1>9. CASE sFifoWrreq
  <2>1. outFifo' = Append(outFifo, DataWord(Head(dataFifo))) /\ dataFifo' = Tail(dataFifo)
    BY <1>1, <1>3, <1>4, <1>9 DEF sFifoD, DATA_FIFO_Q
  <2>2. Executing.kind = "data" /\ Contract!Paid = Executing'
    <3>1. Executing = Owe("data", counterFIFO + 1)
      BY <1>4, <1>6, <1>9
    <3> QED
      BY <1>5, <1>7, <3>1, Paying
  <2> QED
    BY <1>1, <1>2, <1>3, <1>8, <1>9, <2>1, <2>2, Paying
       DEF Contract!CopyWord, Contract!regs
<1>10. CASE ~sFifoWrreq
  <2>1. Executing' = Executing
    <3>1. counterFIFO + InFlight = counterFIFO
      BY <1>4, <1>5, <1>10
    <3> QED
      BY <1>6, <1>7, <3>1
  <2> QED
    BY <1>1, <1>2, <1>3, <1>4, <1>8, <1>10, <2>1 DEF CStut
<1> QED
  BY <1>9, <1>10
-----------------------------------------------------------------------------
(* The steps that are not edges of CLK.                                    *)

(* Outside the state machine an answer under way stays under way.          *)
LEMMA AsideSteps ==
  ASSUME RInv, UNCHANGED <<cmdState, counterV, counterFIFO, sRegOut, sDinA, sFifoWrreq>>,
         UNCHANGED fifoBusy \/ (fifoBusy /\ cmdState # "INIT")
  PROVE  UNCHANGED <<Executing, cmdState = "INIT">>
<1>1. InFlight' = InFlight
  BY DEF InFlight, RInv, Recovery
<1> QED
  BY <1>1 DEF Executing

LEMMA HostStep ==
  ASSUME RInv, HostRecv \/ \E c \in Commands : HostSend(c)
  PROVE  CNext
<1> USE DEF fsmVars, regVars, reqVars, outVars, memVars, dataVars, cmdVars
<1>1. /\ UNCHANGED <<cmdState, counterV, counterFIFO, sRegOut, sDinA, sFifoWrreq>>
      /\ UNCHANGED <<fifoBusy, dataFifo, sConfigReg, sMemioCnt, sAddrA, sDinReg,
                     sDataFifoHigh, inputMem>>
  BY DEF HostRecv, HostSend
<1>2. UNCHANGED <<Executing, MemCount, Address, cmdState = "INIT">>
  BY <1>1, AsideSteps DEF MemCount, Address
<1>3. CASE HostRecv
  BY <1>1, <1>2, <1>3 DEF HostRecv, CNext, Contract!Next, Contract!Receive, Contract!regs
<1>4. ASSUME NEW c \in Commands, HostSend(c) PROVE CNext
  <2>1. cmdState # "INIT" /\ cmdFifo' = Append(cmdFifo, c) /\ outFifo' = outFifo
    BY <1>4 DEF HostSend, RInv, Recovery
  <2>2. Contract!Send(c)
    BY <1>1, <1>2, <2>1 DEF Contract!Send, Contract!regs
  <2> QED
    BY <2>2 DEF CNext, Contract!Next
<1> QED
  BY <1>3, <1>4

LEMMA SensorStep ==
  ASSUME IInv, RInv, ChipStart \/ ChipStarted \/ StreamOn \/ SensorWord
  PROVE  CNext \/ CStut
<1> USE DEF fsmVars, regVars, reqVars, cmdVars, outVars, memVars, dataVars
<1>1. /\ UNCHANGED <<cmdState, counterV, counterFIFO, sRegOut, sDinA, sFifoWrreq>>
      /\ UNCHANGED <<fifoBusy, cmdFifo, outFifo, sConfigReg, sMemioCnt, sAddrA, sDinReg,
                     sDataFifoHigh, inputMem>>
  BY DEF ChipStart, ChipStarted, StreamOn, SensorWord
<1>2. UNCHANGED <<Executing, MemCount, Address, cmdState = "INIT">>
  BY <1>1, AsideSteps DEF MemCount, Address
<1>3. CASE ChipStart
  <2>1. cmdState \in {"PULSE_DELAY", "WAIT_CMD"} /\ ~sFifoWrreq
    BY <1>3 DEF ChipStart, sCtrStart, IInv, PulseAtRest
  <2>2. Executing = Idle /\ dataFifo' = <<>>
    BY <1>3, <2>1, Owing DEF Owed, ChipStart
  <2>3. Contract!StartChip
    BY <1>1, <1>2, <2>2, Paying DEF Contract!StartChip, Contract!regs
  <2> QED
    BY <2>3 DEF CNext, Contract!Next
<1>4. CASE ChipStarted \/ StreamOn
  BY <1>1, <1>2, <1>4 DEF ChipStarted, StreamOn, CStut
<1>5. CASE SensorWord
  <2>1. PICK d \in Stamps : dataFifo' = Append(dataFifo, d)
    BY <1>5 DEF SensorWord
  <2>2. Contract!Produce(d)
    BY <1>1, <1>2, <2>1 DEF Contract!Produce, Contract!regs
  <2> QED
    BY <2>2 DEF CNext, Contract!Next
<1> QED
  BY <1>3, <1>4, <1>5

LEMMA ResetStep ==
  ASSUME IInv, RInv, AssertReset \/ ResetEdge \/ ReleaseReset \/ FifoReady
  PROVE  CNext \/ CStut
<1> USE DEF fsmVars, regVars, reqVars, cmdVars, outVars, memVars, dataVars
<1>1. CASE AssertReset
  <2>1. Executing' = Idle
    BY <1>1 DEF AssertReset, Executing, InFlight
  <2>2. MemCount' = 1 /\ Address' = Zero32
    BY <1>1 DEF AssertReset, MemCount, Address
  <2>3. Contract!PowerUpRegs'
    BY <1>1, <2>2 DEF AssertReset, Contract!PowerUpRegs, Zero32, CONFIG_REGS,
                      Contract!CONFIG_REGS
  <2>4. Contract!Reset
    BY <1>1, <2>1, <2>3, Paying DEF AssertReset, Contract!Reset
  <2> QED
    BY <2>4 DEF CNext, Contract!Next
<1>2. CASE ResetEdge \/ ReleaseReset \/ FifoReady
  <2>1. /\ UNCHANGED <<cmdState, counterV, counterFIFO, sRegOut, sDinA, sFifoWrreq>>
        /\ UNCHANGED <<cmdFifo, outFifo, sConfigReg, sMemioCnt, sAddrA, sDinReg,
                       sDataFifoHigh, inputMem>>
        /\ UNCHANGED fifoBusy \/ (fifoBusy /\ cmdState # "INIT")
    BY <1>2 DEF ResetEdge, ReleaseReset, FifoReady
  <2>2. UNCHANGED <<Executing, MemCount, Address, cmdState = "INIT">>
    BY <2>1, AsideSteps DEF MemCount, Address
  <2>3. \/ UNCHANGED dataFifo
        \/ cmdState = "INIT" /\ dataFifo # <<>> /\ dataFifo' = Tail(dataFifo)
    BY <1>2 DEF ResetEdge, ReleaseReset, FifoReady, DataFifoEdge, IInv, ResetHolds
  <2>4. CASE UNCHANGED dataFifo
    BY <2>1, <2>2, <2>4 DEF CStut
  <2>5. CASE cmdState = "INIT" /\ dataFifo # <<>> /\ dataFifo' = Tail(dataFifo)
    <3>1. Contract!LoseWord
      BY <2>1, <2>2, <2>5 DEF Contract!LoseWord, Contract!regs
    <3> QED
      BY <3>1 DEF CNext, Contract!Next
  <2> QED
    BY <2>3, <2>4, <2>5
<1> QED
  BY <1>1, <1>2
-----------------------------------------------------------------------------
(* Initial states map to initial states and steps to steps or stuttering.  *)

LEMMA InitMaps == ASSUME Init PROVE Contract!Init
<1>1. Executing = Idle /\ MemCount = 1 /\ Address = Zero32
  BY DEF Init, Executing, InFlight, MemCount, Address
<1>2. Contract!PowerUpRegs
  BY <1>1 DEF Init, Contract!PowerUpRegs, Zero32, CONFIG_REGS, Contract!CONFIG_REGS
<1> QED
  BY <1>1, <1>2, Paying DEF Init, Contract!Init, Zero32

LEMMA ClockMaps == ASSUME CarefulHost, IInv, RInv, Clock PROVE CNext \/ CStut
<1>1. CASE InitState
  BY <1>1, InitStep DEF CNext, Contract!Next
<1>2. CASE WaitCmd
  BY <1>2, WaitStep DEF CNext, Contract!Next
<1>3. CASE InterpretRegRead \/ InterpretMemRead
  BY <1>3, RegReadStep, MemReadStep DEF CNext, Contract!Next
<1>4. CASE InterpretRegWrite \/ InterpretPulse
  BY <1>4, WriteStep DEF CNext, Contract!Next
<1>5. CASE InterpretMemWrite
  BY <1>5, StoreBegins DEF CNext, Contract!Next
<1>6. CASE InterpretFifoCount
  BY <1>6, TransferBegins DEF CNext, Contract!Next
<1>7. CASE MemAdv
  BY <1>7, StoreStep DEF CNext, Contract!Next
<1>8. CASE MemRdCnt
  BY <1>8, MemReadPays DEF CNext, Contract!Next
<1>9. CASE PulseDelay
  BY <1>9, PulseStep
<1>10. CASE FifoAdv
  BY <1>10, TransferPays DEF CNext, Contract!Next
<1> QED
  BY <1>1, <1>2, <1>3, <1>4, <1>5, <1>6, <1>7, <1>8, <1>9, <1>10 DEF Clock

LEMMA StepMaps ==
  ASSUME CarefulHost, IInv, RInv, [Next]_vars PROVE [Contract!Next]_(Contract!vars)
<1>1. CASE UNCHANGED vars
  <2>1. CStut
    BY <1>1 DEF vars, fsmVars, regVars, reqVars, cmdVars, outVars, dataVars, memVars,
                CStut, Executing, InFlight, MemCount, Address
  <2> QED
    BY <2>1, Stutters
<1>2. CASE Next
  <2>1. CNext \/ CStut
    BY <1>2, ClockMaps, HostStep, SensorStep, ResetStep DEF Next
  <2> QED
    BY <2>1, Stutters DEF CNext
<1> QED
  BY <1>1, <1>2

(* Under a careful host the invariant holds in every behaviour.            *)
LEMMA RefinementInvariant ==
  ASSUME CarefulHost PROVE Spec => [](IInv /\ RInv)
<1>1. Init => IInv /\ RInv
  BY InitInvariant, InitRefines
<1>2. (IInv /\ RInv) /\ [Next]_vars => (IInv /\ RInv)'
  BY StepInvariant, StepRefines
<1> QED
  BY <1>1, <1>2, PTL DEF Spec

(* The pipelined state machine of control_interface.vhd, its FIFOs and the *)
(* memory implement the contract: every command is executed once and in    *)
(* order, with the answers it is owed and no others, at every register     *)
(* width, FIFO depth and memory size, through resets and chip starts, if   *)
(* the host is careful and the output FIFO has the room CarefulHost says.  *)
THEOREM Refinement == ASSUME CarefulHost PROVE Spec => KeepsContract
<1>1. Init => Contract!Init
  BY InitMaps
<1>2. IInv /\ RInv /\ [Next]_vars => [Contract!Next]_(Contract!vars)
  BY StepMaps
<1> QED
  BY <1>1, <1>2, RefinementInvariant, PTL DEF Spec, KeepsContract, Contract!Spec
===============================================================================
