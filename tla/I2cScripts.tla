------------------------------ MODULE I2cScripts ------------------------------
(* The slow control functions of Software/util/i2c_control.py, each as the *)
(* sequence of commands it sends to the board, and the scripts that call   *)
(* them.  A word is the set of its one bits: the scripts and the wiring of *)
(* top_KC705.vhd only move bits about, and some of the words have 144.     *)
EXTENDS Naturals, Sequences

Bits(n)        == {b \in 0 .. 15 : (n \div 2^b) % 2 = 1}
Shift(S, k)    == {b + k : b \in S}
Field(S, m, k) == {b - m : b \in S \cap (m .. k)}  \* bits m to k, from 0 on

(* Commands: a register write, the start pulse with the sleep that follows *)
(* it in every function, and the read of status register 0, for which the  *)
(* script waits.                                                           *)
Write(r, w) == [op |-> "write", reg |-> r, word |-> w]
Pulse       == [op |-> "pulse"]
Status      == [op |-> "status"]

(* One transaction on the bus: slave address and mode, chip address and    *)
(* first byte, and for three bytes the second one; start; sleep.           *)
Transact(slave, bytes)   == <<Write(0, Bits(slave)), Write(1, Bits(bytes)), Pulse>>
Transact3(slave, b1, b2) == <<Write(0, Bits(slave)), Write(1, Bits(b1)),
                              Write(2, Bits(b2)), Pulse>>

i2c_ad7993_initial == Transact(\h2201, \hf802) \o Transact(\h2201, \h0503)
                        \o Transact(\h2200, \h0000)

(* Start a conversion by writing the channel to the chip, read the result. *)
Conversion(channel) == Transact(\h2200, channel) \o Transact(\h2205, \h0000)
                         \o <<Status>>

i2c_ad7993_chipvdd_r   == Conversion(\h0010)
i2c_ad7993_mimosavdd_r == Conversion(\h0020)
i2c_ad7993_ichip_r     == Conversion(\h0040)
i2c_ad7993_imim_r      == Conversion(\h0080)

i2c_ad7418_initial == Transact(\h2801, \h0001) \o Transact(\h2800, \h0000)

i2c_ad7418_itself_tmp_r == Transact(\h2801, \h0001) \o Transact(\h2801, \h0101)
                             \o Transact(\h2800, \h0000)
                             \o Transact(\h2805, \h0000) \o <<Status>>
i2c_ad7418_mimosa_tmp_r == Transact(\h2801, \h8001) \o Transact(\h2801, \h8101)
                             \o Transact(\h2800, \h0004)
                             \o Transact(\h2805, \h0000) \o <<Status>>

(* Write the non-volatile cell of a potentiometer, restore from it, no-op. *)
Potentiometer(cell, data) == Transact(\h2C01, data * 256 + cell)
                               \o Transact(\h2C00, \h00b8)
                               \o Transact(\h2C00, \h0080)

i2c_ad5252_pot_chip(data)   == Potentiometer(\h21, data)
i2c_ad5252_pot_mimosa(data) == Potentiometer(\h23, data)

(* Twelve bits of a threshold, left aligned in the two bytes after the     *)
(* command byte.                                                           *)
Threshold(command, data) ==
  Transact3(\h4102, (data \div 16) * 256 + command, (data % 16) * 16)

i2c_ltc2635_thre_vchip(data) == Threshold(\h30, data)
i2c_ltc2635_thre_vmim(data)  == Threshold(\h31, data)

i2c_pcf8574_reset_latchup == Transact(\h2100, \h0000) \o Transact(\h2100, \h00ff)
i2c_pcf8574_read_latchup  == Transact(\h2104, \h0000) \o <<Status>>

(* The order of the bits in a command of i2c_tic.                          *)
bitmixSwapped(x) ==
  Shift(Field(x, 0, 1), 32) \cup Shift(Field(x, 2, 2), 31)
    \cup Shift(Field(x, 8, 14), 25) \cup Shift(Field(x, 16, 23), 16)
    \cup Shift(Field(x, 24, 31), 8) \cup Field(x, 32, 39)
bitmix(x) ==
  Shift(Field(x, 0, 1), 32) \cup Shift(Field(x, 2, 2), 31)
    \cup Shift(Field(x, 8, 14), 24) \cup Shift(Field(x, 16, 23), 16)
    \cup Shift(Field(x, 24, 31), 8) \cup Field(x, 32, 39)

(* What the slots 0 to 3 are to do in every turn, and how the 144 bits are *)
(* cut into the registers 7 to 15.                                         *)
ReadCommands == <<Bits(\h2805), Bits(\h2805), Bits(\h2205), Bits(\h2105)>>

PreparedBits == (UNION {Shift(bitmix(ReadCommands[k]), 35 * (k - 1)) : k \in 1 .. 4})
                  \cup Shift(Bits(\hf), 140)
i2c_prep_cont_read ==
  [i \in 1 .. 9 |-> Write(6 + i, Field(PreparedBits, 16 * (i - 1), 16 * i - 1))]

(* The scripts.                                                            *)
PowerUp == i2c_ltc2635_thre_vchip(\h5ff) \o i2c_ltc2635_thre_vmim(\h5ff)
             \o i2c_pcf8574_reset_latchup \o i2c_pcf8574_read_latchup

top_script == PowerUp \o i2c_ad7993_initial \o i2c_ad7418_initial
                \o i2c_prep_cont_read

i2c_test_script == PowerUp \o i2c_pcf8574_read_latchup \o i2c_ad7418_initial
                     \o i2c_ad7418_mimosa_tmp_r \o i2c_ad7418_itself_tmp_r
                     \o i2c_ad7993_initial \o i2c_ad7993_chipvdd_r
=============================================================================
