---------------------------- MODULE CommandWords ----------------------------
(***************************************************************************)
(* The command words of the control interface and the words it answers     *)
(* with: the vocabulary shared by the contract (CommandServer) and the     *)
(* clocked implementation (ControlInterface).                              *)
(*                                                                         *)
(* A command is one 32-bit word: read/not-write, a 12-bit address and 16   *)
(* bits of data.  The 16-bit register width is the constant W (2^16 in the *)
(* code); a 32-bit quantity is a pair of words, high and low.              *)
(***************************************************************************)
EXTENDS Integers

CONSTANTS
  W,            (* Number of values of a 16-bit register.                  *)
  MemDepth,     (* Words of the JTAG memory behind the memory interface.   *)
  StatusWords,  (* Values the read-only status registers may show.         *)
  Commands,     (* The commands the host sends.                            *)
  Stamps        (* The words the sensor may produce.                       *)

Word    == 0..(W - 1)
Command == [read : BOOLEAN, addr : 0..4095, data : Word]

ASSUME WordAssumption ==
  /\ W \in Nat /\ W > 2
  /\ MemDepth \in 1..W
  /\ StatusWords \subseteq Word
  /\ Commands \subseteq Command

STATUS_REGS     == 0..10
PULSE_REG       == 11
MEM_COUNT       == 16
MEM_ADDR_LSB    == 17
MEM_ADDR_MSB    == 18
MEM_DATA_LSB    == 19
MEM_DATA        == 20
FIFO_COUNT      == 25
FIFO_COUNT_HIGH == 26
CONFIG_REGS     == 32..63

IsMemRead(c) == c.read /\ c.addr = MEM_DATA
IsRegRead(c) == c.read /\ c.addr # MEM_DATA
Writes(c, a) == ~c.read /\ c.addr = a

(* Unsigned 16-bit steps, and the 32-bit memory address as a pair.         *)
Inc(v) == IF v = W - 1 THEN 0 ELSE v + 1
Dec(v) == IF v = 0 THEN W - 1 ELSE v - 1

MemAddress  == [hi : Word, lo : Word]
NextAddr(a) == [hi |-> IF a.lo = W - 1 THEN Inc(a.hi) ELSE a.hi,
                lo |-> Inc(a.lo)]
PrevAddr(a) == [hi |-> IF a.lo = 0 THEN Dec(a.hi) ELSE a.hi,
                lo |-> Dec(a.lo)]
Cell(a)     == a.lo % MemDepth

(* The words an answer is made of.  The bus carries 32 bits whatever the   *)
(* source; the tag is what the host tells apart by position.               *)
RegWord(v)  == [src |-> "reg",  val |-> v]
MemWord(a)  == [src |-> "mem",  val |-> Cell(a)]
DataWord(d) == [src |-> "data", val |-> d]

(* What executing a command still owes: a number of words, or a store.     *)
Op(kind, owed, val) == [kind |-> kind, owed |-> owed, val |-> val]
Idle         == Op("idle", 0, 0)
Owe(kind, k) == IF k = 0 THEN Idle ELSE Op(kind, k, 0)

(* What a register read may answer; only a status register, an input of    *)
(* the design, leaves a choice.  A bad address answers all ones.           *)
RegAnswers(c, config, memCount, addr) ==
  CASE c.addr \in CONFIG_REGS -> {config[c.addr]}
    [] c.addr \in STATUS_REGS -> StatusWords
    [] c.addr = MEM_COUNT     -> {memCount}
    [] c.addr = MEM_ADDR_LSB  -> {addr.lo}
    [] c.addr = MEM_ADDR_MSB  -> {addr.hi}
    [] OTHER                  -> {W - 1}
=============================================================================
