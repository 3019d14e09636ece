------------------------------ MODULE IodelayScan ------------------------------
(* iodelayscan.py: try 32 settings of the input delay, note at which the   *)
(* deserializer reports an error, take the setting opposite to them on the *)
(* circle of one clock period, then try 32 settings again with pauses.     *)
(* The error flag is up from a reset until the deserializer has seen a     *)
(* header.  The first loop does not wait for that: it may read too early,  *)
(* and then notes an error that is not the setting's.                      *)
EXTENDS Integers, Sequences

CONSTANTS
  Steps,     \* settings tried in each loop (32)
  MaxArc,    \* bound: settings with errors
  MaxEarly   \* bound: statuses read too early

ASSUME ScanAssumption == /\ Steps \in Nat /\ Steps % 2 = 0 /\ MaxArc \in Nat
                         /\ MaxEarly \in Nat

VARIABLES
  errors,      \* settings at which the sensor's data are misread
  loop, i, ioDelayValue_, sums, cnt, boundary, setvalue,
  optimum,     \* the setvalue that is printed
  printed,     \* what the second loop has printed (history)
  link,        \* commands on their way
  answer,      \* the status on its way back: <<>> or the error bit
  reg,         \* config_reg 4
  delay,       \* the delay that is loaded
  timer,       \* chStState is not CS0
  sErr,
  early        \* statuses read before the board had settled (history)

hostVars  == <<loop, i, ioDelayValue_, sums, cnt, boundary, setvalue, optimum, printed>>
boardVars == <<reg, delay, timer, sErr, early>>
vars      == <<errors, hostVars, link, answer, boardVars>>

(* A setting has five bits of delay and one for the clock edge; half a     *)
(* period is 40 units of which 32 can be set.                              *)
Half     == Steps                \* the first setting of the other edge
Settings == 0 .. (2 * Steps - 1)
Gap      == Steps \div 4
Circle   == 2 * (Half + Gap)

(* Errors: neighbouring settings, as one unstable edge of the data causes, *)
(* n more from the a-th tried one on.                                      *)
Arc(a, n) == {2 * ((a + k) % Steps) : k \in 0 .. n}

(* A setting between two tried ones is as bad as its neighbours.           *)
Bad(v) == v \in errors \/ {v - 1, (v + 1) % (2 * Steps)} \subseteq errors

Init ==
  /\ \E a \in 0 .. (Steps - 1), n \in 0 .. (MaxArc - 1) : errors = Arc(a, n)
  /\ loop = "scan" /\ i = 0 /\ ioDelayValue_ = 0 /\ sums = 0 /\ cnt = 0
  /\ boundary = 0 /\ setvalue = 0 /\ optimum = 0 /\ printed = <<>>
  /\ link = <<>> /\ answer = <<>>
  /\ reg = 0 /\ delay = 0 /\ timer = FALSE /\ sErr = TRUE /\ early = 0
-----------------------------------------------------------------------------
(* The board executes commands in order; a new delay and a chip start      *)
(* reset the deserializer, a start while the timer runs does nothing.      *)

(* Nothing is left to happen without another command.                     *)
Settled == ~timer /\ (sErr => Bad(delay))

Load  == delay' = reg /\ sErr' = TRUE /\ UNCHANGED <<reg, timer, early>>
Start == /\ timer' = TRUE /\ sErr' = (sErr \/ ~timer)
         /\ UNCHANGED <<reg, delay, early>>

(* In the second loop the host has slept before it asks.                   *)
ReadStatus ==
  /\ Settled \/ (loop = "scan" /\ early < MaxEarly)
  /\ early' = IF Settled THEN early ELSE early + 1
  /\ answer' = <<sErr>> /\ UNCHANGED <<reg, delay, timer, sErr>>

Execute ==
  /\ link # <<>> /\ link' = Tail(link)
  /\ LET c == Head(link)
     IN  \/ /\ c \in Settings /\ reg' = c /\ UNCHANGED <<delay, timer, sErr, early, answer>>
         \/ c = -1 /\ Load /\ UNCHANGED answer
         \/ c = -2 /\ Start /\ UNCHANGED answer
         \/ c = -3 /\ ReadStatus
  /\ UNCHANGED <<errors, hostVars>>

HeaderFound ==
  /\ sErr /\ ~Bad(delay) /\ sErr' = FALSE
  /\ UNCHANGED <<errors, hostVars, link, answer, reg, delay, timer, early>>

TimerEnds ==
  /\ timer /\ timer' = FALSE
  /\ UNCHANGED <<errors, hostVars, link, answer, reg, delay, sErr, early>>
-----------------------------------------------------------------------------
(* The host.  In the second loop it sleeps before each command, and so the *)
(* board has settled when it reads the status.                             *)

load  == -1   \* cmd_send_pulse(0x1)
start == -2   \* cmd_send_pulse(0x2)
read  == -3   \* cmd_read_status(1)

Waiting == link # <<>> \/ answer # <<>>
AskLate(v) == link' = <<load, v, start, read>>
Ask(v)     == link' = <<v, load, start, read>>

Scan ==
  /\ loop = "scan" /\ i < Steps /\ ~Waiting
  /\ Ask(2 * i) /\ UNCHANGED <<errors, hostVars, answer, boardVars>>

NextPosition == IF ioDelayValue_ + 2 = Half THEN Half + Gap ELSE ioDelayValue_ + 2

(* Positions of the other edge lie before 0 if the errors reach over it.   *)
WrapNone(b) == ioDelayValue_
Wrap(b)     == IF b = 1 /\ ioDelayValue_ >= Half + Gap
                 THEN ioDelayValue_ - Circle ELSE ioDelayValue_

Note ==
  /\ loop = "scan" /\ answer # <<>> /\ answer' = <<>>
  /\ boundary' = IF answer[1] /\ i = 0 THEN 1 ELSE boundary
  /\ sums' = IF answer[1] THEN sums + Wrap(boundary') ELSE sums
  /\ cnt' = IF answer[1] THEN cnt + 1 ELSE cnt
  /\ ioDelayValue_' = NextPosition /\ i' = i + 1
  /\ UNCHANGED <<errors, loop, setvalue, optimum, printed, link, boardVars>>

(* The positions that cannot be set fall to their nearest neighbours.      *)
ToSetting(x) ==
  CASE x >= Circle - Gap \div 2                    -> 0
    [] x >= Circle - Gap /\ x < Circle - Gap \div 2 -> 2 * Half - 1
    [] x >= Half + Gap /\ x < Circle - Gap          -> x - Gap
    [] x >= Half + Gap \div 2 /\ x < Half + Gap     -> Half
    [] x >= Half /\ x < Half + Gap \div 2           -> Half - 1
    [] OTHER                                        -> x

(* sums/cnt raises an exception when no setting has shown an error.        *)
Choose ==
  /\ loop = "scan" /\ i = Steps /\ cnt # 0
  /\ optimum' = ToSetting((sums \div cnt + Half + Gap) % Circle)
  /\ setvalue' = optimum'
  /\ loop' = "check" /\ i' = 0
  /\ UNCHANGED <<errors, ioDelayValue_, sums, cnt, boundary, printed, link, answer,
                 boardVars>>

Check ==
  /\ loop = "check" /\ i < Steps /\ ~Waiting
  /\ setvalue' = i /\ Ask(i)
  /\ UNCHANGED <<errors, loop, i, ioDelayValue_, sums, cnt, boundary, optimum, printed,
                 answer, boardVars>>

Report ==
  /\ loop = "check" /\ answer # <<>> /\ answer' = <<>>
  /\ printed' = Append(printed, answer[1]) /\ i' = i + 1
  /\ UNCHANGED <<errors, loop, ioDelayValue_, sums, cnt, boundary, setvalue, optimum,
                 link, boardVars>>

Board == Execute \/ HeaderFound \/ TimerEnds
Next  == Board \/ Scan \/ Note \/ Choose \/ Check \/ Report
Spec  == Init /\ [][Next]_vars
-----------------------------------------------------------------------------
(* Wherever on the circle the errors lie, over its end and its gaps too,   *)
(* the setting chosen exists and shows none, and neither do its            *)
(* neighbours, if no status has been read too early.                       *)
OptimumIsClean ==
  loop = "check" /\ early = 0 =>
    optimum \in Settings /\ \A k \in -1 .. 1 : (optimum + k) % (2 * Steps) \notin errors

(* The second loop prints, for each setting, whether that one is bad, also *)
(* after a first loop that was mistaken: its pauses are enough although a  *)
(* start may be ignored and the flag is up after each reset.               *)
PrintsTruth == \A k \in DOMAIN printed : printed[k] = Bad(k - 1)
=============================================================================
