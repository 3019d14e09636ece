---------------------------- MODULE CommandServer ---------------------------
(***************************************************************************)
(* What the control interface promises its host: commands are executed one *)
(* at a time, in the order they were sent, each exactly once; a register   *)
(* read is answered with one word, a memory read with as many words as the *)
(* count register says from consecutive addresses, a data request with the *)
(* next words of the sensor stream in their order; and the answers come in *)
(* the order of the commands.  No clock, no pipeline, no flags.            *)
(***************************************************************************)
EXTENDS CommandWords, Sequences

VARIABLES
  cmds,       (* Commands sent and not yet begun.                          *)
  cur,        (* The command being executed and the words it still owes.   *)
  resp,       (* Answers the host has not received.                        *)
  data,       (* Sensor words not yet copied.                              *)
  config, memCount, addr, dinReg, fifoHigh, mem,   (* Register contents.   *)
  resetting

vars == <<cmds, cur, resp, data, config, memCount, addr, dinReg, fifoHigh,
          mem, resetting>>
regs == <<config, memCount, addr, dinReg, fifoHigh, mem>>

(* One word less to go.                                                    *)
Paid == IF cur.owed = 1 THEN Idle ELSE [cur EXCEPT !.owed = @ - 1]

PowerUpRegs ==
  /\ config   = [r \in CONFIG_REGS |-> W - 1]
  /\ memCount = 1
  /\ addr     = [hi |-> 0, lo |-> 0]
  /\ dinReg   = 0

Init ==
  /\ cmds = <<>> /\ cur = Idle /\ resp = <<>> /\ data = <<>>
  /\ PowerUpRegs
  /\ fifoHigh = 0
  /\ mem = [a \in 0..(MemDepth - 1) |-> [hi |-> 0, lo |-> 0]]
  /\ resetting = TRUE
-----------------------------------------------------------------------------
(* The host and the sensor.                                                *)

Send(c) ==
  /\ ~resetting
  /\ cmds' = Append(cmds, c)
  /\ UNCHANGED <<cur, resp, data, regs, resetting>>

Receive ==
  /\ resp # <<>>
  /\ resp' = Tail(resp)
  /\ UNCHANGED <<cmds, cur, data, regs, resetting>>

Produce(d) ==
  /\ data' = Append(data, d)
  /\ UNCHANGED <<cmds, cur, resp, regs, resetting>>

(* A chip start empties the stream, and never in the middle of a transfer. *)
StartChip ==
  /\ cur = Idle
  /\ data' = <<>>
  /\ UNCHANGED <<cmds, cur, resp, regs, resetting>>
-----------------------------------------------------------------------------
(* Executing the command c at the head of the queue.                       *)

Begin(c) ==
  /\ cur = Idle /\ cmds # <<>> /\ ~resetting
  /\ cmds' = Tail(cmds)
  /\ UNCHANGED <<resp, data, mem, resetting>>

BeginRead(c) ==
  /\ Begin(c) /\ c.read
  /\ IF IsMemRead(c)
       THEN cur' = Owe("mem", memCount)
       ELSE \E v \in RegAnswers(c, config, memCount, addr) :
              cur' = Op("reg", 1, v)
  /\ UNCHANGED <<config, memCount, addr, dinReg, fifoHigh>>

BeginTransfer(c) ==
  /\ Begin(c) /\ Writes(c, FIFO_COUNT)
  /\ cur' = Owe("data", fifoHigh * W + c.data)
  /\ UNCHANGED <<config, memCount, addr, dinReg, fifoHigh>>

BeginStore(c) ==
  /\ Begin(c) /\ Writes(c, MEM_DATA)
  /\ cur' = Op("store", 1, c.data)
  /\ UNCHANGED <<config, memCount, addr, dinReg, fifoHigh>>

(* Every other write is over at once; a pulse and a bad address change no  *)
(* register.                                                               *)
Write(c) ==
  /\ Begin(c) /\ ~c.read /\ c.addr \notin {FIFO_COUNT, MEM_DATA}
  /\ UNCHANGED cur
  /\ config' = IF c.addr \in CONFIG_REGS
                 THEN [config EXCEPT ![c.addr] = c.data] ELSE config
  /\ memCount' = IF c.addr = MEM_COUNT THEN c.data ELSE memCount
  /\ addr' = CASE c.addr = MEM_ADDR_LSB -> [addr EXCEPT !.lo = c.data]
               [] c.addr = MEM_ADDR_MSB -> [addr EXCEPT !.hi = c.data]
               [] OTHER                 -> addr
  /\ dinReg'   = IF c.addr = MEM_DATA_LSB THEN c.data ELSE dinReg
  /\ fifoHigh' = IF c.addr = FIFO_COUNT_HIGH THEN c.data ELSE fifoHigh

Answer ==
  /\ cur.kind = "reg"
  /\ resp' = Append(resp, RegWord(cur.val))
  /\ cur' = Paid
  /\ UNCHANGED <<cmds, data, regs, resetting>>

ReadCell ==
  /\ cur.kind = "mem"
  /\ resp' = Append(resp, MemWord(addr))
  /\ addr' = NextAddr(addr)
  /\ cur' = Paid
  /\ UNCHANGED <<cmds, data, config, memCount, dinReg, fifoHigh, mem, resetting>>

CopyWord ==
  /\ cur.kind = "data" /\ data # <<>>
  /\ resp' = Append(resp, DataWord(Head(data)))
  /\ data' = Tail(data)
  /\ cur' = Paid
  /\ UNCHANGED <<cmds, regs, resetting>>

Store ==
  /\ cur.kind = "store"
  /\ mem' = [mem EXCEPT ![Cell(addr)] = [hi |-> cur.val, lo |-> dinReg]]
  /\ addr' = NextAddr(addr)
  /\ cur' = Paid
  /\ UNCHANGED <<cmds, resp, data, config, memCount, dinReg, fifoHigh, resetting>>
-----------------------------------------------------------------------------
(* A reset forgets everything that was asked and answered; the memory and  *)
(* the high part of the data count are kept, sensor words may be lost      *)
(* while it lasts.                                                         *)

Reset ==
  /\ cmds' = <<>> /\ cur' = Idle /\ resp' = <<>>
  /\ PowerUpRegs'
  /\ resetting' = TRUE
  /\ UNCHANGED <<data, fifoHigh, mem>>

LoseWord ==
  /\ resetting /\ data # <<>>
  /\ data' = Tail(data)
  /\ UNCHANGED <<cmds, cur, resp, regs, resetting>>

(* The cycle that ends a reset may still lose a word.                      *)
LeaveReset ==
  /\ resetting
  /\ resetting' = FALSE
  /\ data' \in {data} \union (IF data = <<>> THEN {} ELSE {Tail(data)})
  /\ UNCHANGED <<cmds, cur, resp, regs>>
-----------------------------------------------------------------------------
Next ==
  \/ \E c \in Commands : Send(c)
  \/ Receive
  \/ \E d \in Stamps : Produce(d)
  \/ StartChip
  \/ LET c == Head(cmds) IN
       BeginRead(c) \/ BeginTransfer(c) \/ BeginStore(c) \/ Write(c)
  \/ Answer \/ ReadCell \/ CopyWord \/ Store
  \/ Reset \/ LoseWord \/ LeaveReset

Spec == Init /\ [][Next]_vars
=============================================================================
