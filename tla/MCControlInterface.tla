------------------------- MODULE MCControlInterface -------------------------
(* Small instances of the control interface: the commands of each run and   *)
(* the constants that need an expression.                                  *)
EXTENDS ControlInterface, TLC

Rd(a)    == [read |-> TRUE,  addr |-> a, data |-> 0]
Wr(a, v) == [read |-> FALSE, addr |-> a, data |-> v]

(* Data requests short and split over both count registers, a register     *)
(* read between them, and start pulses at any time.                        *)
StreamCommands ==
  {Wr(PULSE_REG, 2), Wr(FIFO_COUNT, 2), Wr(FIFO_COUNT_HIGH, 1), Rd(FIFO_COUNT)}

(* The memory interface: a count long enough for the read to stall, an     *)
(* address about to carry into its high half, a store and the read.        *)
MemoryCommands ==
  {Wr(MEM_COUNT, 4), Wr(MEM_ADDR_LSB, 3), Wr(MEM_DATA_LSB, 2), Wr(MEM_DATA, 1),
   Rd(MEM_DATA)}

(* For liveness: a transfer, a memory read and what they need.             *)
LiveCommands ==
  {Wr(PULSE_REG, 2), Wr(FIFO_COUNT, 2), Wr(MEM_COUNT, 4), Rd(MEM_DATA)}

StampSymmetry == Permutations(Stamps)
=============================================================================
