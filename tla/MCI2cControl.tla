----------------------------- MODULE MCI2cControl -----------------------------
(* Small instances of I2cControl: the scripts of the repository.           *)
EXTENDS I2cControl

(* Every one-shot function of i2c_control.py: i2c_test.py, then those that *)
(* no script calls.                                                        *)
MCEveryFunction ==
  i2c_test_script
    \o i2c_ad5252_pot_chip(\h80) \o i2c_ad5252_pot_mimosa(\h7f)
    \o i2c_ad7993_mimosavdd_r \o i2c_ad7993_ichip_r \o i2c_ad7993_imim_r

(* The last one finds the slots at work that top.py has prepared.          *)
MCScripts == {top_script, MCEveryFunction, top_script \o i2c_ad7418_mimosa_tmp_r}
=============================================================================
