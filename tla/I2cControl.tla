------------------------------ MODULE I2cControl ------------------------------
(* The slow control path: a script of Software/util/i2c_control.py, the    *)
(* registers of the board, the scheduler i2c_tic.vhd and the chips on the  *)
(* bus.  The scheduler reads a command from the registers at its tick, not *)
(* at the pulse, and its result comes at the tick after; nothing tells the *)
(* script, which sleeps instead.  Time is counted in ticks of 2^20 clocks. *)
(* A transaction is one step: it lasts a fraction of a tick.               *)
EXTENDS I2cScripts

CONSTANTS
  Scripts,     \* the scripts that may run, each its commands in order
  SleepTicks,  \* ticks a sleep of pulseDelay lasts at least (28)
  Lag          \* bound: ticks a command is on its way at most

Turn == 16     \* ticks after which the 24-bit counter is back at zero
Slots == 0 .. 4
Registers == 0 .. 17

ASSUME TimeAssumption ==
  SleepTicks \in Nat /\ Lag \in Nat /\ Lag + Turn + 2 <= SleepTicks
ASSUME ScriptAssumption ==
  Scripts \subseteq Seq([op : {"write"}, reg : Registers, word : SUBSET (0 .. 15)]
                        \cup [op : {"pulse", "status"}])

VARIABLES
  script,     \* the script that runs
  at,         \* next step of the script
  sleeping,   \* ticks the script still sleeps
  waiting,    \* the script waits for the status it asked for
  link,       \* commands on their way, each with its age in ticks
  reply,      \* the status on its way back; <<>>: none
  config_reg,
  sTicCnt, signA, signB,
  rd,         \* RD_DATA0 and RD_DATA1: what was read last
  data,       \* DATA5: the result the status register shows
  stream,     \* DATA0 .. DATA4: the results that go into the data stream
  pointer,    \* the register each chip reads from
  ordered,    \* the registers as the script has written them (history)
  believed,   \* the pointers as the script has set them (history)
  pulses,     \* pulses given by the script (history)
  issued,     \* the command of the last pulse, as the script means it (history)
  runs        \* how often the scheduler has run it (history)

scriptVars == <<script, at, sleeping, waiting, ordered, believed, pulses>>
linkVars   == <<link, reply>>
ticVars    == <<sTicCnt, signA, signB>>
busVars    == <<rd, data, stream, pointer>>
runVars    == <<issued, runs>>
vars == <<scriptVars, linkVars, config_reg, ticVars, busVars, runVars>>

Chips   == {Field(Bits(a), 8, 14) : a \in {\h2200, \h2800, \h2C00, \h4100, \h2100}}
Nothing == [chip |-> {}, reg |-> {}, by |-> 0, after |-> 0]

(* A script asks for the status after the pulse of a command that reads a  *)
(* chip.                                                                   *)
ASSUME StatusAssumption ==
  \A s \in Scripts : \A k \in DOMAIN s : s[k].op = "status" =>
    /\ k > 1 /\ s[k - 1].op = "pulse"
    /\ \E j \in 1 .. (k - 1) :
         /\ s[j].op = "write" /\ s[j].reg = 0
         /\ 2 \in s[j].word /\ 1 \notin s[j].word
         /\ Field(s[j].word, 8, 14) \in Chips \ {{}}
         /\ \A i \in (j + 1) .. (k - 1) : s[i].op = "write" => s[i].reg # 0

(* The words of the slots leave their read bits set, as the reset does.    *)
ReadBit(k) == 35 * k + 31
ASSUME SlotAssumption ==
  \A s \in Scripts : \A i \in DOMAIN s : s[i].op = "write" =>
    \A k \in Slots : s[i].reg = 7 + ReadBit(k) \div 16 => ReadBit(k) % 16 \in s[i].word

(* At step k of script s register r is to hold the word of step j.         *)
SetBy(s, k, r, j) ==
  /\ j \in 1 .. (k - 1) /\ s[j].op = "write" /\ s[j].reg = r
  /\ \A i \in (j + 1) .. (k - 1) : s[i].op = "write" => s[i].reg # r

(* The chip that the pulse at step k is for, and whether it makes the      *)
(* register 0, the result of a conversion, the one the chip reads from.    *)
IsFor(s, k, chip) == \E j \in DOMAIN s : SetBy(s, k, 0, j) /\ Field(s[j].word, 8, 14) = chip
SelectsResult(s, k) ==
  /\ \E j \in DOMAIN s : SetBy(s, k, 0, j) /\ {1, 2} \cap s[j].word = {}
  /\ \E j \in DOMAIN s : SetBy(s, k, 1, j) /\ Field(s[j].word, 0, 7) = {}

(* The converters that the prepared reads are for, and the scripts that    *)
(* end with the preparation: each has used only the one-shot registers     *)
(* before, and the last it has told each converter is to read its result.  *)
Converters  == {Field(Bits(a), 8, 14) : a \in {\h2200, \h2800}}
Preparing(s) == Len(s) > 8 /\ SubSeq(s, Len(s) - 8, Len(s)) = i2c_prep_cont_read
ASSUME PreparationAssumption ==
  \A s \in Scripts : Preparing(s) =>
    /\ \A i \in 1 .. (Len(s) - 9) : s[i].op = "write" => s[i].reg < 7
    /\ \A chip \in Converters : \E k \in 1 .. (Len(s) - 9) :
         /\ s[k].op = "pulse" /\ IsFor(s, k, chip) /\ SelectsResult(s, k)
         /\ \A i \in (k + 1) .. (Len(s) - 9) : s[i].op = "pulse" =>
              \E other \in Chips \ {chip} : IsFor(s, i, other)
-----------------------------------------------------------------------------
(* The wires of i2c_command, by slots of 35 bits, and a command's fields.  *)

PulseCommand(r0, r1, r2) ==
  Shift(Field(r0, 0, 1), 32) \cup Shift(Field(r0, 2, 2), 31)
    \cup Shift(Field(r0, 8, 14), 24) \cup Shift(Field(r1, 0, 7), 16)
    \cup Shift(Field(r1, 8, 15), 8) \cup Field(r2, 0, 7)

i2c_command(k) ==
  IF k = 5 THEN PulseCommand(config_reg[0], config_reg[1], config_reg[2])
           ELSE Field(UNION {Shift(config_reg[7 + i], 16 * i) : i \in 0 .. 10},
                      35 * k, 35 * k + 34)

Fields(c) == [mode |-> Field(c, 32, 33), read |-> 31 \in c,
              chip |-> Field(c, 24, 30), reg |-> Field(c, 16, 23),
              bytes |-> <<Field(c, 8, 15), Field(c, 0, 7)>>]
Disabled(k) == 34 \in i2c_command(k)
-----------------------------------------------------------------------------
(* The bus: i2c_wr_bytes runs a transaction, RD_DATA keeps its last bytes. *)

IsWrite(c) == ~c.read /\ c.mode \in {{}, {0}, {1}}
IsRead(c)  == c.read /\ c.mode \in {{}, {0}}

(* What the chip answers to the command k: which of its registers it is    *)
(* from, for which command, and after how many pulses it was read.         *)
Answer(c, k) == IF c.chip \in Chips
                  THEN [chip |-> c.chip, reg |-> pointer[c.chip], by |-> k, after |-> pulses]
                  ELSE Nothing

BytesReadLast(c, k) == <<IF c.mode = {0} THEN Answer(c, k) ELSE rd[1], Answer(c, k)>>
BytesRead(c, k)     == <<Answer(c, k), IF c.mode = {0} THEN Answer(c, k) ELSE rd[2]>>

Transaction(k) ==
  LET c == Fields(i2c_command(k))
  IN  /\ pointer' = IF IsWrite(c) /\ c.chip \in Chips
                      THEN [pointer EXCEPT ![c.chip] = c.reg] ELSE pointer
      /\ rd' = IF IsRead(c) THEN BytesRead(c, k) ELSE rd
-----------------------------------------------------------------------------
(* The script.  Every command is sent when the one before it is; a pulse   *)
(* is followed by the sleep, a status read by the wait for its answer.     *)

Ready == at \in DOMAIN script /\ sleeping = 0 /\ ~waiting
Send(c) == link' = Append(link, [cmd |-> c, age |-> 0])

SleepNot   == 0
SleepAfter == SleepTicks

(* The one-shot command the script means.                                  *)
Ordered == Fields(PulseCommand(ordered[0], ordered[1], ordered[2]))

SendWrite ==
  /\ Ready /\ script[at].op = "write"
  /\ Send(script[at]) /\ at' = at + 1
  /\ ordered' = [ordered EXCEPT ![script[at].reg] = script[at].word]
  /\ UNCHANGED <<script, sleeping, waiting, believed, pulses, reply, config_reg, ticVars,
                 busVars, runVars>>

SendPulse ==
  /\ Ready /\ script[at].op = "pulse"
  /\ Send(script[at]) /\ at' = at + 1 /\ sleeping' = SleepAfter
  /\ issued' = Ordered /\ runs' = 0 /\ pulses' = pulses + 1
  /\ believed' = IF IsWrite(Ordered) /\ Ordered.chip \in Chips
                   THEN [believed EXCEPT ![Ordered.chip] = Ordered.reg]
                   ELSE believed
  /\ UNCHANGED <<script, waiting, ordered, reply, config_reg, ticVars, busVars>>

SendStatus ==
  /\ Ready /\ script[at].op = "status"
  /\ Send(script[at]) /\ waiting' = TRUE
  /\ UNCHANGED <<script, at, sleeping, ordered, believed, pulses, reply, config_reg,
                 ticVars, busVars, runVars>>

Receive ==
  /\ waiting /\ reply # <<>>
  /\ reply' = <<>> /\ waiting' = FALSE /\ at' = at + 1
  /\ UNCHANGED <<script, sleeping, ordered, believed, pulses, link, config_reg, ticVars,
                 busVars, runVars>>
-----------------------------------------------------------------------------
(* The control interface executes the commands in order.                   *)

Take == Head(link).cmd

TakeWrite ==
  /\ link # <<>> /\ Take.op = "write"
  /\ link' = Tail(link)
  /\ config_reg' = [config_reg EXCEPT ![Take.reg] = Take.word]
  /\ UNCHANGED <<scriptVars, reply, ticVars, busVars, runVars>>

StatusAnswer == data

TakeStatus ==
  /\ link # <<>> /\ Take.op = "status"
  /\ link' = Tail(link) /\ reply' = StatusAnswer
  /\ UNCHANGED <<scriptVars, config_reg, ticVars, busVars, runVars>>

TakePulse ==
  /\ link # <<>> /\ Take.op = "pulse"
  /\ link' = Tail(link) /\ signA' = TRUE
  /\ UNCHANGED <<scriptVars, reply, config_reg, sTicCnt, signB, busVars,
                 runVars>>

(* The clock edge at which the tick counter reaches a multiple of 2^20.    *)
(* The start pulse is high for PulseEdges edges, and the tick may fall on  *)
(* the n-th of them (0: on none).  While it is high signA stays set, also  *)
(* through the transaction that signA starts, which comes once more then.  *)

PulseEdges == 3
Seen(n)    == signA \/ n > 1

Pending(n) ==
  /\ signA' = (n > 0 \/ (signA /\ sTicCnt # 10))
  /\ signB' = IF n > 0 THEN signB
              ELSE (signA /\ sTicCnt = 10) \/ (signB /\ sTicCnt # 11)

Run(n) ==
  IF sTicCnt \in {2 * k : k \in Slots} /\ ~Disabled(sTicCnt \div 2)
    THEN Transaction(sTicCnt \div 2) /\ UNCHANGED runs
  ELSE IF sTicCnt = 10 /\ Seen(n)
    THEN Transaction(5) /\ runs' = runs + 1
  ELSE UNCHANGED <<rd, pointer, runs>>

Latch ==
  /\ stream' = [k \in Slots |-> IF sTicCnt = 2 * k + 1 /\ ~Disabled(k)
                                  THEN rd ELSE stream[k]]
  /\ data' = IF sTicCnt = 11 /\ signB THEN rd ELSE data

NextTic == (sTicCnt + 1) % Turn

NothingOverdue == \A i \in DOMAIN link : link[i].age < Lag

Tick(n) ==
  /\ NothingOverdue
  /\ n > 0 => link # <<>> /\ Take.op = "pulse"
  /\ Pending(n) /\ Run(n) /\ Latch
  /\ sTicCnt' = NextTic
  /\ sleeping' = IF sleeping = 0 THEN 0 ELSE sleeping - 1
  /\ LET rest == IF n > 0 THEN Tail(link) ELSE link
     IN  link' = [i \in DOMAIN rest |-> [cmd |-> rest[i].cmd, age |-> rest[i].age + 1]]
  /\ UNCHANGED <<script, at, waiting, ordered, believed, pulses, issued, reply, config_reg>>
-----------------------------------------------------------------------------
(* The registers as the reset leaves them: every slot is disabled.         *)
AfterReset == [r \in Registers |-> 0 .. 15]

Init ==
  /\ script \in Scripts /\ at = 1 /\ sleeping = 0 /\ waiting = FALSE /\ link = <<>> /\ reply = <<>>
  /\ config_reg = AfterReset
  /\ sTicCnt \in 0 .. (Turn - 1) /\ signA = FALSE /\ signB = FALSE
  /\ rd = <<Nothing, Nothing>> /\ data = rd /\ stream = [k \in Slots |-> rd]
  /\ pointer = [c \in Chips |-> {}] /\ believed = pointer
  /\ ordered = config_reg /\ pulses = 0 /\ issued = Ordered /\ runs = 0

Scripted == SendWrite \/ SendPulse \/ SendStatus \/ Receive
Board    == TakeWrite \/ TakeStatus \/ TakePulse
Next     == Scripted \/ Board \/ \E n \in 0 .. PulseEdges : Tick(n)

Spec == Init /\ [][Next]_vars
-----------------------------------------------------------------------------
(* What the scheduler runs for a pulse is the command the registers held   *)
(* when the pulse was sent, although it reads them up to a turn later; it  *)
(* has run it when the next pulse is sent, and not more than twice.        *)
RunsAsSent ==
  [][/\ runs' > runs => /\ pulses > 0 /\ runs < 2
                        /\ Fields(i2c_command(5)) = issued
     /\ pulses' > pulses /\ pulses > 0 => runs > 0]_vars

(* The status a script receives is what its own read transaction fetched,  *)
(* from the register the script has selected: not the result of an earlier *)
(* command, nor of the reads for the data stream that share the bus and    *)
(* RD_DATA.  A read of one byte answers for the first byte only.           *)
Own == [chip |-> Ordered.chip, reg |-> believed[Ordered.chip], by |-> 5, after |-> pulses]
StatusIsOwn ==
  reply # <<>> => /\ reply[1] = Own
                  /\ Ordered.mode = {0} => reply[2] = Own

(* From the reset on a slot of the data stream that runs reads two bytes   *)
(* of a conversion register: none runs before its last bits are there, the *)
(* commands survive the mixing and cutting of their bits, and the last     *)
(* one-shot command to each chip has left its pointer at register 0.  When *)
(* the script has prepared them all four run, and the fifth never does.    *)
Prepared == at > Len(script) /\ link = <<>>
ReadsResult(k) ==
  LET c == Fields(i2c_command(k))
  IN  IsRead(c) /\ c.mode = {0} /\ c.chip \in Chips /\ pointer[c.chip] = {}
StreamReadsResults ==
  Preparing(script) =>
    /\ \A k \in 0 .. 2 : ~Disabled(k) => ReadsResult(k)
    /\ Prepared => \A k \in 0 .. 3 : ~Disabled(k)
    /\ Disabled(4)
=============================================================================
