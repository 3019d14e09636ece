--------------------------- MODULE I2cControlProofs ---------------------------
(* Why a script may sleep instead of being told: what the scheduler runs   *)
(* for a pulse is the command the script has sent, and what the status     *)
(* register shows when the script asks is the answer to that command.      *)
EXTENDS I2cControl, SequenceTheorems, TLAPS

Writes(c, r) == c.op = "write" /\ c.reg = r
Places       == 1 .. Len(link)

(* A pulse is on its way, or has come and waits for its turn.              *)
InFlight    == \E i \in Places : link[i].cmd.op = "pulse"
Outstanding == InFlight \/ signA

Words    == SUBSET (0 .. 15)
Commands == [op : {"write"}, reg : Registers, word : Words] \cup [op : {"pulse", "status"}]
Entries  == [cmd : Commands, age : Nat]

Types ==
  /\ script \in Scripts /\ script \in Seq(Commands) /\ at \in Nat \ {0} /\ sleeping \in Nat
  /\ waiting \in BOOLEAN
  /\ link \in Seq(Entries)
  /\ config_reg \in [Registers -> Words] /\ ordered \in [Registers -> Words]
  /\ sTicCnt \in 0 .. 15 /\ signA \in BOOLEAN /\ signB \in BOOLEAN
  /\ pulses \in Nat /\ runs \in Nat
  /\ pointer \in [Chips -> SUBSET Int] /\ believed \in [Chips -> SUBSET Int]

(* The registers are on their way to what the script has written.          *)
RegistersFollow ==
  \A r \in Registers :
    \/ config_reg[r] = ordered[r] /\ \A i \in Places : ~Writes(link[i].cmd, r)
    \/ \E i \in Places :
         /\ Writes(link[i].cmd, r) /\ link[i].cmd.word = ordered[r]
         /\ \A j \in Places : Writes(link[j].cmd, r) => j <= i

(* A pulse or a request for the status is the last thing that was sent.    *)
LastSent ==
  \A i \in Places :
    /\ link[i].age <= Lag
    /\ link[i].cmd.op = "pulse" => i = Len(link) /\ link[i].age + sleeping >= SleepTicks
    /\ link[i].cmd.op = "status" => i = Len(link) /\ waiting /\ reply = <<>>

(* The script sleeps for as long as a pulse and its result take.           *)
SleepsLongEnough ==
  /\ signA => /\ link = <<>> /\ ~signB
              /\ sleeping + sTicCnt >= IF sTicCnt <= 10 THEN 12 ELSE 28
  /\ signB => link = <<>> /\ sTicCnt = 11 /\ sleeping >= 1

(* While a pulse is outstanding the registers are to hold its command,     *)
(* which has run once at most; when none is, the command has run.          *)
CommandKept ==
  /\ Outstanding => issued = Ordered /\ pulses > 0
  /\ InFlight => runs = 0
  /\ signA => runs <= 1
  /\ pulses > 0 /\ ~Outstanding => runs > 0

IssueInv == RegistersFollow /\ LastSent /\ SleepsLongEnough /\ CommandKept

(* The script's writes so far, by its own text.                            *)
LastWritten ==
  \A j \in 1 .. (at - 1) :
    /\ j \in DOMAIN script
    /\ script[j].op = "write" /\ (\A i \in (j + 1) .. (at - 1) : ~Writes(script[i], script[j].reg))
         => ordered[script[j].reg] = script[j].word

Asked == at \in DOMAIN script /\ script[at].op = "status"

(* The read bits of the slots stay set: no slot moves the pointer of a     *)
(* chip.                                                                   *)
SlotReg(k) == 7 + ReadBit(k) \div 16
SlotBit(k) == ReadBit(k) % 16
KeepsRead(c) ==
  c.op = "write" => \A k \in Slots : c.reg = SlotReg(k) => SlotBit(k) \in c.word
SlotsRead ==
  /\ \A k \in Slots : SlotBit(k) \in config_reg[SlotReg(k)]
  /\ \A i \in Places : KeepsRead(link[i].cmd)
PointersFollow ==
  \A c \in Chips :
    believed[c] = IF Outstanding /\ IsWrite(Ordered) /\ Ordered.chip = c
                    THEN Ordered.reg ELSE pointer[c]

(* An answer that the script may take for its own.                         *)
Result(x) == x[1] = Own /\ (Ordered.mode = {0} => x[2] = Own)

(* The answer is in RD_DATA, then in DATA5, then on its way.               *)
ResultKept ==
  /\ Asked /\ ~Outstanding => IF signB THEN Result(rd) ELSE Result(data)
  /\ reply # <<>> => Result(reply)

(* The script waits at the step that asks.                                 *)
WaitsForIt ==
  /\ waiting => Asked /\ sleeping = 0
  /\ reply # <<>> => waiting

IInv == Types /\ IssueInv /\ LastWritten /\ SlotsRead /\ PointersFollow /\ ResultKept /\ WaitsForIt
-----------------------------------------------------------------------------
(* What a send, an execution and a tick do to the commands on their way.   *)

LinkTyped == link \in Seq(Entries)

LEMMA Sending ==
  ASSUME LinkTyped, NEW c \in Commands, Send(c)
  PROVE  /\ LinkTyped' /\ Len(link) \in Nat /\ Len(link') = Len(link) + 1
         /\ link'[Len(link) + 1].cmd = c /\ link'[Len(link) + 1].age = 0
         /\ \A i \in 1 .. Len(link) : link'[i] = link[i]
<1> DEFINE e == [cmd |-> c, age |-> 0]
<1>1. e \in Entries /\ e.cmd = c /\ e.age = 0
  BY DEF Entries
<1>2. link' = Append(link, e)
  BY DEF Send
<1> HIDE DEF e
<1> QED
  BY <1>1, <1>2, AppendProperties, LenProperties DEF LinkTyped

LEMMA Taking ==
  ASSUME LinkTyped, link # <<>>, link' = Tail(link)
  PROVE  /\ LinkTyped' /\ Len(link) \in Nat /\ Len(link) >= 1 /\ Len(link') = Len(link) - 1
         /\ Take = link[1].cmd /\ Take \in Commands
         /\ \A i \in 1 .. Len(link') : link'[i] = link[i + 1]
<1>1. /\ LinkTyped' /\ Len(link) \in Nat /\ Len(link) >= 1 /\ Len(link') = Len(link) - 1
      /\ \A i \in 1 .. Len(link') : link'[i] = link[i + 1]
  BY HeadTailProperties, EmptySeq DEF LinkTyped
<1>2. link[1] \in Entries
  BY <1>1, ElementOfSeq DEF LinkTyped
<1> QED
  BY <1>1, <1>2 DEF Take, Entries

LEMMA Ageing ==
  ASSUME NEW s \in Seq(Entries),
         link' = [i \in DOMAIN s |-> [cmd |-> s[i].cmd, age |-> s[i].age + 1]]
  PROVE  /\ LinkTyped' /\ Len(s) \in Nat /\ Len(link') = Len(s)
         /\ \A i \in 1 .. Len(s) : link'[i].cmd = s[i].cmd /\ link'[i].age = s[i].age + 1
<1>1. Len(s) \in Nat /\ DOMAIN s = 1 .. Len(s)
  BY LenProperties
<1>2. \A i \in 1 .. Len(s) :
        link'[i] \in Entries /\ link'[i].cmd = s[i].cmd /\ link'[i].age = s[i].age + 1
  <2> SUFFICES ASSUME NEW i \in 1 .. Len(s)
               PROVE  /\ link'[i] \in Entries
                      /\ link'[i].cmd = s[i].cmd /\ link'[i].age = s[i].age + 1
    OBVIOUS
  <2>1. s[i] \in Entries
    BY ElementOfSeq
  <2>2. link'[i] = [cmd |-> s[i].cmd, age |-> s[i].age + 1]
    BY <1>1
  <2> QED
    BY <2>1, <2>2 DEF Entries
<1>3. link' = [i \in 1 .. Len(s) |-> link'[i]]
  BY <1>1
<1>4. link' \in [1 .. Len(s) -> Entries]
  BY <1>2, <1>3
<1>5. LinkTyped'
  BY <1>1, <1>4, SeqDef DEF LinkTyped
<1>6. Len(link') \in Nat /\ 1 .. Len(link') = 1 .. Len(s)
  BY <1>4, <1>5, LenProperties DEF LinkTyped
<1>7. Len(link') = Len(s)
  BY <1>1, <1>6
<1> QED
  BY <1>1, <1>2, <1>5, <1>7
-----------------------------------------------------------------------------
(* What the wiring makes of the registers.                                 *)

LEMMA PulseFields ==
  ASSUME NEW r0 \in Words, NEW r1 \in Words, NEW r2 \in Words
  PROVE  LET f == Fields(PulseCommand(r0, r1, r2))
         IN  /\ f.read <=> 2 \in r0
             /\ 1 \notin r0 => f.mode \in {{}, {0}}
             /\ f.chip = Field(r0, 8, 14)
             /\ Field(r1, 0, 7) = {} => f.reg = {}
<1> DEFINE c == PulseCommand(r0, r1, r2)
           f == Fields(c)
<1>1. \A x : x \in c <=> \/ \E b \in r0 \cap (0 .. 1) : x = b + 32
                         \/ \E b \in r0 \cap (2 .. 2) : x = b + 29
                         \/ \E b \in r0 \cap (8 .. 14) : x = b + 16
                         \/ \E b \in r1 \cap (0 .. 7) : x = b + 16
                         \/ \E b \in r1 \cap (8 .. 15) : x = b
                         \/ \E b \in r2 \cap (0 .. 7) : x = b
  <2>1. \A S, m, n, k, x :
          x \in Shift(Field(S, m, n), k) <=> \E b \in S \cap (m .. n) : x = (b - m) + k
    BY DEF Shift, Field
  <2>2. \A S, m, n, x : x \in Field(S, m, n) <=> \E b \in S \cap (m .. n) : x = b - m
    BY DEF Field
  <2>3. \A x : x \in c <=> \/ \E b \in r0 \cap (0 .. 1) : x = (b - 0) + 32
                           \/ \E b \in r0 \cap (2 .. 2) : x = (b - 2) + 31
                           \/ \E b \in r0 \cap (8 .. 14) : x = (b - 8) + 24
                           \/ \E b \in r1 \cap (0 .. 7) : x = (b - 0) + 16
                           \/ \E b \in r1 \cap (8 .. 15) : x = (b - 8) + 8
                           \/ \E b \in r2 \cap (0 .. 7) : x = b - 0
    BY <2>1, <2>2 DEF PulseCommand
  <2>4. \A b \in 0 .. 15 : /\ (b - 0) + 32 = b + 32 /\ (b - 2) + 31 = b + 29 /\ (b - 8) + 24 = b + 16
                           /\ (b - 0) + 16 = b + 16 /\ (b - 8) + 8 = b /\ b - 0 = b
    OBVIOUS
  <2>5. r0 \subseteq 0 .. 15 /\ r1 \subseteq 0 .. 15 /\ r2 \subseteq 0 .. 15
    BY DEF Words
  <2> HIDE DEF c
  <2> QED
    BY <2>3, <2>4, <2>5
<1>2. /\ f.read = (31 \in c) /\ f.mode = Field(c, 32, 33) /\ f.chip = Field(c, 24, 30)
      /\ f.reg = Field(c, 16, 23)
  BY DEF Fields
<1> HIDE DEF c, f
<1>3. 31 \in c <=> 2 \in r0
  BY <1>1 DEF Words
<1>4. 33 \in c <=> 1 \in r0
  BY <1>1 DEF Words
<1>5. 1 \notin r0 => Field(c, 32, 33) \in {{}, {0}}
  BY <1>4 DEF Field
<1>6. Field(c, 24, 30) = Field(r0, 8, 14)
  <2>1. \A b \in 0 .. 15 : b \in 8 .. 14 => (b + 16 \in c <=> b \in r0)
    BY <1>1 DEF Words
  <2>2. \A x \in 24 .. 30 : x - 16 \in 8 .. 14 /\ x - 16 + 16 = x /\ x - 24 = (x - 16) - 8
    OBVIOUS
  <2>3. \A y : y \in Field(c, 24, 30) <=> \E x \in 24 .. 30 : x \in c /\ y = x - 24
    BY DEF Field
  <2>4. \A y : y \in Field(r0, 8, 14) <=> \E b \in 8 .. 14 : b \in r0 /\ y = b - 8
    BY DEF Field
  <2>5. \A y : (\E x \in 24 .. 30 : x \in c /\ y = x - 24) <=> (\E b \in 8 .. 14 : b \in r0 /\ y = b - 8)
    BY <2>1, <2>2
  <2> QED
    BY <2>3, <2>4, <2>5
<1>7. ASSUME Field(r1, 0, 7) = {} PROVE Field(c, 16, 23) = {}
  <2>1. \A b \in r1 : b \notin 0 .. 7
    BY <1>7 DEF Field
  <2>2. \A b \in 8 .. 14 : b + 16 \notin 16 .. 23
    OBVIOUS
  <2>3. \A b \in 0 .. 2 : b + 32 \notin 16 .. 23 /\ b + 29 \notin 16 .. 23
    OBVIOUS
  <2>4. \A x \in 16 .. 23 : x \notin c
    BY <1>1, <2>1, <2>2, <2>3 DEF Words
  <2> QED
    BY <2>4 DEF Field
<1> QED
  BY <1>2, <1>3, <1>5, <1>6, <1>7 DEF c, f

LEMMA SlotPlaces ==
  \A k \in Slots : /\ ReadBit(k) = 35 * k + 31 /\ SlotReg(k) \in Registers
                   /\ SlotReg(k) - 7 \in 0 .. 10 /\ SlotReg(k) = 7 + (SlotReg(k) - 7)
                   /\ SlotBit(k) + 16 * (SlotReg(k) - 7) = 35 * k + 31
<1> SUFFICES ASSUME NEW k \in Slots
             PROVE  /\ ReadBit(k) = 35 * k + 31 /\ SlotReg(k) \in Registers
                    /\ SlotReg(k) - 7 \in 0 .. 10 /\ SlotReg(k) = 7 + (SlotReg(k) - 7)
                    /\ SlotBit(k) + 16 * (SlotReg(k) - 7) = 35 * k + 31
  OBVIOUS
<1>1. k \in 0 .. 4
  BY DEF Slots
<1> QED
  BY <1>1 DEF ReadBit, SlotReg, SlotBit, Registers

LEMMA SlotReads ==
  ASSUME SlotsRead, NEW k \in Slots
  PROVE  Fields(i2c_command(k)).read /\ ~IsWrite(Fields(i2c_command(k)))
<1> DEFINE wires == UNION {Shift(config_reg[7 + i], 16 * i) : i \in 0 .. 10}
           i == SlotReg(k) - 7
<1>1. i \in 0 .. 10 /\ SlotReg(k) = 7 + i /\ SlotBit(k) + 16 * i = 35 * k + 31
  BY SlotPlaces
<1>2. SlotBit(k) \in config_reg[7 + i]
  BY <1>1 DEF SlotsRead
<1> HIDE DEF i
<1>3. 35 * k + 31 \in Shift(config_reg[7 + i], 16 * i)
  BY <1>1, <1>2 DEF Shift
<1>4. 35 * k + 31 \in wires
  BY <1>1, <1>3
<1>5. i2c_command(k) = Field(wires, 35 * k, 35 * k + 34)
  BY DEF i2c_command, Slots
<1> HIDE DEF wires
<1>6. k \in 0 .. 4 /\ 35 * k + 31 \in 35 * k .. 35 * k + 34 /\ (35 * k + 31) - 35 * k = 31
  BY DEF Slots
<1>7. 31 \in i2c_command(k)
  BY <1>4, <1>5, <1>6 DEF Field
<1>8. Fields(i2c_command(k)).read = (31 \in i2c_command(k))
  BY DEF Fields
<1> QED
  BY <1>7, <1>8 DEF IsWrite

-----------------------------------------------------------------------------
(* What the parts of the invariant say together.                           *)

LEMMA Rested ==
  ASSUME Types, IssueInv, sleeping = 0
  PROVE  ~Outstanding /\ ~InFlight /\ ~signA /\ ~signB /\ (pulses > 0 => runs > 0)
<1>1. ~signA /\ ~signB
  BY DEF Types, IssueInv, SleepsLongEnough
<1>2. ~InFlight
  <2> SUFFICES ASSUME NEW i \in Places, link[i].cmd.op = "pulse" PROVE FALSE
    BY DEF InFlight
  <2>1. link[i] \in Entries
    BY ElementOfSeq DEF Types, Places
  <2>2. link[i].age \in Nat /\ link[i].age <= Lag /\ link[i].age + 0 >= SleepTicks
    BY <2>1 DEF Entries, IssueInv, LastSent
  <2> QED
    BY <2>2, TimeAssumption DEF Turn
<1> QED
  BY <1>1, <1>2 DEF Outstanding, IssueInv, CommandKept

LEMMA ScriptStep ==
  ASSUME Types, at \in DOMAIN script
  PROVE  script[at] \in Commands /\ at \in Nat /\ at <= Len(script) /\ DOMAIN script = 1 .. Len(script)
         /\ Len(script) \in Nat
  BY LenProperties, ElementOfSeq DEF Types

(* A script that asks has pulsed a read in the step before.                *)
LEMMA AskedFacts ==
  ASSUME Types, LastWritten, Asked
  PROVE  /\ at > 1 /\ at - 1 \in DOMAIN script /\ script[at - 1].op = "pulse"
         /\ IsRead(Ordered) /\ ~IsWrite(Ordered)
         /\ Ordered.chip \in Chips \ {{}}
<1>1. script \in Scripts /\ at \in DOMAIN script /\ script[at].op = "status"
  BY DEF Types, Asked
<1>2. PICK j \in 1 .. (at - 1) :
        /\ script[j].op = "write" /\ script[j].reg = 0
        /\ 2 \in script[j].word /\ 1 \notin script[j].word
        /\ Field(script[j].word, 8, 14) \in Chips \ {{}}
        /\ \A i \in (j + 1) .. (at - 1) : script[i].op = "write" => script[i].reg # 0
  BY <1>1, StatusAssumption
<1>3. at > 1 /\ script[at - 1].op = "pulse"
  BY <1>1, StatusAssumption
<1>4. at - 1 \in DOMAIN script
  BY <1>1, <1>3, ScriptStep
<1>6. ordered[0] = script[j].word
  BY <1>2 DEF LastWritten, Writes
<1>7. ordered[0] \in Words /\ ordered[1] \in Words /\ ordered[2] \in Words
  BY DEF Types, Registers
<1>8. /\ Ordered.read <=> 2 \in ordered[0]
      /\ 1 \notin ordered[0] => Ordered.mode \in {{}, {0}}
      /\ Ordered.chip = Field(ordered[0], 8, 14)
  BY <1>7, PulseFields DEF Ordered
<1> QED
  BY <1>2, <1>3, <1>4, <1>6, <1>8 DEF IsRead, IsWrite

LEMMA InitInvariant == Init => IInv
<1> SUFFICES ASSUME Init PROVE IInv
  OBVIOUS
<1> USE DEF Init
<1>1. Types
  <2>1. script \in Seq(Commands)
    BY ScriptAssumption DEF Commands, Words
  <2>2. /\ config_reg \in [Registers -> Words] /\ ordered \in [Registers -> Words]
        /\ pointer \in [Chips -> SUBSET Int] /\ believed \in [Chips -> SUBSET Int]
    BY DEF Words, AfterReset
  <2>3. sTicCnt \in 0 .. 15
    BY DEF Turn
  <2>4. at \in Nat \ {0} /\ sleeping \in Nat /\ pulses \in Nat /\ runs \in Nat
    OBVIOUS
  <2>6. waiting \in BOOLEAN /\ signA \in BOOLEAN /\ signB \in BOOLEAN
    BY ZenonT(20)
  <2> HIDE DEF Init
  <2>5. script \in Scripts /\ link \in Seq(Entries)
    BY EmptySeq DEF Init
  <2> QED
    BY <2>1, <2>2, <2>3, <2>4, <2>5, <2>6 DEF Types
<1>2. Places = {} /\ ~InFlight /\ ~Outstanding
  BY DEF Places, InFlight, Outstanding
<1>3. IssueInv
  BY <1>2 DEF IssueInv, RegistersFollow, LastSent, SleepsLongEnough, CommandKept
<1>4. LastWritten /\ PointersFollow
  BY <1>2 DEF LastWritten, PointersFollow
<1>6. SlotsRead
  <2>1. config_reg = [r \in Registers |-> 0 .. 15]
    BY DEF AfterReset
  <2>2. \A k \in Slots : SlotBit(k) \in 0 .. 15
    BY DEF SlotBit, ReadBit, Slots
  <2> HIDE DEF Init
  <2> QED
    BY <1>2, <2>1, <2>2, SlotPlaces DEF SlotsRead
<1>5. ~Asked
  BY <1>1, StatusAssumption DEF Asked
<1> QED
  BY <1>1, <1>3, <1>4, <1>5, <1>6 DEF IInv, ResultKept, WaitsForIt
-----------------------------------------------------------------------------
(* The steps of the script.                                                *)

LEMMA ReadyFacts ==
  ASSUME IInv, Ready
  PROVE  /\ sleeping = 0 /\ ~waiting /\ reply = <<>> /\ at \in DOMAIN script
         /\ ~Outstanding /\ ~InFlight /\ ~signA /\ ~signB /\ (pulses > 0 => runs > 0)
         /\ \A i \in Places : link[i].cmd.op # "pulse" /\ link[i].cmd.op # "status"
<1>1. sleeping = 0 /\ ~waiting /\ at \in DOMAIN script /\ reply = <<>>
  BY DEF Ready, IInv, WaitsForIt
<1>2. ~Outstanding /\ ~InFlight /\ ~signA /\ ~signB /\ (pulses > 0 => runs > 0)
  BY <1>1, Rested DEF IInv
<1>3. \A i \in Places : link[i].cmd.op # "pulse" /\ link[i].cmd.op # "status"
  BY <1>1, <1>2 DEF InFlight, IInv, IssueInv, LastSent
<1> QED
  BY <1>1, <1>2, <1>3

(* After a step that is not a pulse the script does not ask.               *)
LEMMA NextStep ==
  ASSUME Types, at \in DOMAIN script, script' = script, at' = at + 1
  PROVE  Asked' => script[at].op = "pulse"
<1>1. at \in Nat /\ at >= 1 /\ at' - 1 = at
  BY DEF Types
<1> QED
  BY <1>1, StatusAssumption DEF Asked, Types

(* A script's writes leave the read bits of the slots set.                 *)
LEMMA StepKeepsRead ==
  ASSUME Types, at \in DOMAIN script
  PROVE  KeepsRead(script[at])
<1>1. script \in Scripts
  BY DEF Types
<1> QED
  BY <1>1, SlotAssumption DEF KeepsRead, SlotReg, SlotBit

LEMMA SendWriteStep ==
  ASSUME IInv, SendWrite
  PROVE  IInv'
<1> DEFINE c == script[at]
           n == Len(link)
<1>1. /\ Ready /\ c.op = "write" /\ Send(c) /\ at' = at + 1
      /\ ordered' = [ordered EXCEPT ![c.reg] = c.word]
      /\ UNCHANGED <<script, sleeping, waiting, believed, pulses, reply, config_reg, sTicCnt, signA,
                     signB, rd, data, pointer, runs, issued>>
  BY DEF SendWrite, ticVars, busVars, runVars
<1>2. /\ sleeping = 0 /\ ~waiting /\ reply = <<>> /\ at \in DOMAIN script
      /\ ~Outstanding /\ ~InFlight /\ ~signA /\ ~signB /\ (pulses > 0 => runs > 0)
      /\ \A i \in Places : link[i].cmd.op # "pulse" /\ link[i].cmd.op # "status"
  BY <1>1, ReadyFacts
<1>3. Types /\ LinkTyped
  BY DEF IInv, Types, LinkTyped
<1>4. c \in Commands /\ c.reg \in Registers /\ c.word \in Words
  BY <1>1, <1>2, <1>3, ScriptStep DEF Commands
<1>5. /\ LinkTyped' /\ n \in Nat /\ Len(link') = n + 1 /\ link'[n + 1].cmd = c /\ link'[n + 1].age = 0
      /\ \A i \in 1 .. n : link'[i] = link[i]
  BY <1>1, <1>3, <1>4, Sending
<1>6. Types'
  <2>1. ordered' \in [Registers -> Words]
    BY <1>1, <1>3, <1>4 DEF Types
  <2>2. at' \in Nat \ {0}
    BY <1>1, <1>3 DEF Types
  <2> QED
    BY <1>1, <1>3, <1>5, <2>1, <2>2 DEF Types, LinkTyped
<1> HIDE DEF c, n
<1>7. Places = 1 .. n /\ Places' = 1 .. (n + 1)
  BY <1>5 DEF Places, n
<1>8. ~InFlight' /\ ~Outstanding'
  BY <1>1, <1>2, <1>5, <1>7 DEF InFlight, Outstanding
<1>9. IssueInv'
  <2>1. RegistersFollow'
    <3> SUFFICES ASSUME NEW r \in Registers
                 PROVE  \/ config_reg[r] = ordered'[r] /\ \A i \in 1 .. (n + 1) : ~Writes(link'[i].cmd, r)
                        \/ \E i \in 1 .. (n + 1) :
                             /\ Writes(link'[i].cmd, r) /\ link'[i].cmd.word = ordered'[r]
                             /\ \A j \in 1 .. (n + 1) : Writes(link'[j].cmd, r) => j <= i
      BY <1>1, <1>7 DEF RegistersFollow
    <3>1. CASE r = c.reg
      <4>1. ordered'[r] = c.word
        BY <1>1, <1>3, <1>4, <3>1 DEF Types
      <4>2. Writes(link'[n + 1].cmd, r)
        BY <1>1, <1>5, <3>1 DEF Writes
      <4> QED
        BY <1>5, <4>1, <4>2
    <3>2. CASE r # c.reg
      <4>1. ordered'[r] = ordered[r]
        BY <1>1, <1>3, <1>4, <3>2 DEF Types
      <4>2. ~Writes(link'[n + 1].cmd, r)
        BY <1>5, <3>2 DEF Writes
      <4>3. \A i \in 1 .. (n + 1) : i \in 1 .. n \/ i = n + 1
        BY <1>5
      <4>4. CASE config_reg[r] = ordered[r] /\ \A i \in 1 .. n : ~Writes(link[i].cmd, r)
        BY <1>5, <4>1, <4>2, <4>3, <4>4
      <4>5. CASE \E i \in 1 .. n : /\ Writes(link[i].cmd, r) /\ link[i].cmd.word = ordered[r]
                                   /\ \A j \in 1 .. n : Writes(link[j].cmd, r) => j <= i
        <5>1. PICK i \in 1 .. n : /\ Writes(link[i].cmd, r) /\ link[i].cmd.word = ordered[r]
                                  /\ \A j \in 1 .. n : Writes(link[j].cmd, r) => j <= i
          BY <4>5
        <5>2. i \in 1 .. (n + 1) /\ link'[i] = link[i]
          BY <1>5
        <5>3. \A j \in 1 .. (n + 1) : Writes(link'[j].cmd, r) => j <= i
          BY <1>5, <4>2, <4>3, <5>1
        <5> QED
          BY <4>1, <5>1, <5>2, <5>3
      <4> QED
        BY <1>7, <4>4, <4>5 DEF IInv, IssueInv, RegistersFollow
    <3> QED
      BY <3>1, <3>2
  <2>2. LastSent'
    <3>1. \A i \in 1 .. (n + 1) :
            link'[i].age <= Lag /\ link'[i].cmd.op # "pulse" /\ link'[i].cmd.op # "status"
      <4>1. Lag >= 0
        BY TimeAssumption
      <4>2. \A i \in 1 .. (n + 1) : i \in 1 .. n \/ i = n + 1
        BY <1>5
      <4>3. \A i \in 1 .. n : link[i].age <= Lag
        BY <1>7 DEF IInv, IssueInv, LastSent
      <4> QED
        BY <1>1, <1>2, <1>5, <1>7, <4>1, <4>2, <4>3
    <3> QED
      BY <1>7, <3>1 DEF LastSent
  <2>3. SleepsLongEnough' /\ CommandKept'
    BY <1>1, <1>2, <1>8 DEF SleepsLongEnough, CommandKept
  <2> QED
    BY <2>1, <2>2, <2>3 DEF IssueInv
<1>10. LastWritten'
  <2>1. at \in Nat /\ at' - 1 = at
    BY <1>1, <1>3 DEF Types
  <2> SUFFICES ASSUME NEW j \in 1 .. at
               PROVE  /\ j \in DOMAIN script
                      /\ script[j].op = "write"
                           /\ (\A i \in (j + 1) .. at : ~Writes(script[i], script[j].reg))
                         => ordered'[script[j].reg] = script[j].word
    BY <1>1, <2>1 DEF LastWritten
  <2>2. CASE j = at
    BY <1>1, <1>2, <1>3, <1>4, <2>2 DEF c, Types
  <2>3. CASE j # at
    <3>1. j \in 1 .. (at - 1) /\ at \in (j + 1) .. at
      BY <2>1, <2>3
    <3>2. j \in DOMAIN script
      BY <3>1 DEF IInv, LastWritten
    <3>3. ASSUME script[j].op = "write", \A i \in (j + 1) .. at : ~Writes(script[i], script[j].reg)
          PROVE  ordered'[script[j].reg] = script[j].word
      <4>1. script[j].reg # c.reg
        BY <1>1, <3>1, <3>3 DEF Writes, c
      <4>2. \A i \in (j + 1) .. (at - 1) : ~Writes(script[i], script[j].reg)
        BY <2>1, <3>3
      <4>3. ordered[script[j].reg] = script[j].word
        BY <3>1, <3>3, <4>2 DEF IInv, LastWritten
      <4>4. script[j].reg \in Registers
        BY <1>3, <3>2, <3>3, ElementOfSeq, LenProperties DEF Types, Commands
      <4> QED
        BY <1>1, <1>3, <1>4, <4>1, <4>3, <4>4 DEF Types
    <3> QED
      BY <3>2, <3>3
  <2> QED
    BY <2>2, <2>3
<1>11. ~Asked'
  BY <1>1, <1>2, <1>3, NextStep DEF c
<1>12. SlotsRead'
  <2>1. KeepsRead(c)
    BY <1>2, <1>3, StepKeepsRead DEF c
  <2>2. \A i \in 1 .. n : KeepsRead(link[i].cmd)
    BY <1>7 DEF IInv, SlotsRead
  <2>3. \A i \in 1 .. (n + 1) : i \in 1 .. n \/ i = n + 1
    BY <1>5
  <2>4. \A i \in 1 .. (n + 1) : KeepsRead(link'[i].cmd)
    BY <1>5, <2>1, <2>2, <2>3
  <2> QED
    BY <1>1, <1>7, <2>4 DEF IInv, SlotsRead, KeepsRead
<1>13. PointersFollow'
  BY <1>1, <1>2, <1>8 DEF IInv, PointersFollow
<1>14. ResultKept' /\ WaitsForIt'
  BY <1>1, <1>2, <1>11 DEF ResultKept, WaitsForIt
<1> QED
  BY <1>6, <1>9, <1>10, <1>12, <1>13, <1>14 DEF IInv
(* A command that is no write leaves the registers to be what they were.   *)
LEMMA SendOther ==
  ASSUME LinkTyped, RegistersFollow, SlotsRead, NEW c \in Commands, c.op # "write", Send(c),
         UNCHANGED <<config_reg, ordered>>
  PROVE  RegistersFollow' /\ SlotsRead'
<1> DEFINE n == Len(link)
<1>1. /\ LinkTyped' /\ n \in Nat /\ Len(link') = n + 1 /\ link'[n + 1].cmd = c
      /\ \A i \in 1 .. n : link'[i] = link[i]
  BY Sending
<1>2. Places = 1 .. n /\ Places' = 1 .. (n + 1)
  BY <1>1 DEF Places
<1> HIDE DEF n
<1>3. \A i \in 1 .. (n + 1) : i \in 1 .. n \/ i = n + 1
  BY <1>1
<1>4. \A r : ~Writes(link'[n + 1].cmd, r)
  BY <1>1 DEF Writes
<1>5. RegistersFollow'
  <2> SUFFICES ASSUME NEW r \in Registers
               PROVE  \/ config_reg[r] = ordered[r] /\ \A i \in 1 .. (n + 1) : ~Writes(link'[i].cmd, r)
                      \/ \E i \in 1 .. (n + 1) :
                           /\ Writes(link'[i].cmd, r) /\ link'[i].cmd.word = ordered[r]
                           /\ \A j \in 1 .. (n + 1) : Writes(link'[j].cmd, r) => j <= i
    BY <1>2 DEF RegistersFollow
  <2>1. CASE config_reg[r] = ordered[r] /\ \A i \in 1 .. n : ~Writes(link[i].cmd, r)
    BY <1>1, <1>3, <1>4, <2>1
  <2>2. CASE \E i \in 1 .. n : /\ Writes(link[i].cmd, r) /\ link[i].cmd.word = ordered[r]
                               /\ \A j \in 1 .. n : Writes(link[j].cmd, r) => j <= i
    <3>1. PICK i \in 1 .. n : /\ Writes(link[i].cmd, r) /\ link[i].cmd.word = ordered[r]
                              /\ \A j \in 1 .. n : Writes(link[j].cmd, r) => j <= i
      BY <2>2
    <3>2. i \in 1 .. (n + 1) /\ link'[i] = link[i]
      BY <1>1
    <3>3. \A j \in 1 .. (n + 1) : Writes(link'[j].cmd, r) => j <= i
      BY <1>1, <1>3, <1>4, <3>1
    <3> QED
      BY <3>1, <3>2, <3>3
  <2> QED
    BY <1>2, <2>1, <2>2 DEF RegistersFollow
<1>6. SlotsRead'
  BY <1>1, <1>2, <1>3 DEF SlotsRead, KeepsRead
<1> QED
  BY <1>5, <1>6

LEMMA StepOther ==
  ASSUME Types, LastWritten, at \in DOMAIN script, script[at].op # "write", at' = at + 1,
         UNCHANGED <<script, ordered>>
  PROVE  LastWritten'
<1>1. at \in Nat /\ at' - 1 = at
  BY DEF Types
<1> SUFFICES ASSUME NEW j \in 1 .. at
             PROVE  /\ j \in DOMAIN script
                    /\ script[j].op = "write"
                         /\ (\A i \in (j + 1) .. at : ~Writes(script[i], script[j].reg))
                       => ordered[script[j].reg] = script[j].word
  BY <1>1 DEF LastWritten
<1>2. CASE j = at
  BY <1>2
<1>3. CASE j # at
  <2>1. j \in 1 .. (at - 1) /\ \A i \in (j + 1) .. (at - 1) : i \in (j + 1) .. at
    BY <1>1, <1>3
  <2> QED
    BY <2>1 DEF LastWritten
<1> QED
  BY <1>2, <1>3

LEMMA SendPulseStep ==
  ASSUME IInv, SendPulse
  PROVE  IInv'
<1> DEFINE c == script[at]
           n == Len(link)
<1>1. /\ Ready /\ c.op = "pulse" /\ Send(c) /\ at' = at + 1 /\ sleeping' = SleepTicks
      /\ issued' = Ordered /\ runs' = 0 /\ pulses' = pulses + 1
      /\ believed' = IF IsWrite(Ordered) /\ Ordered.chip \in Chips
                       THEN [believed EXCEPT ![Ordered.chip] = Ordered.reg] ELSE believed
      /\ UNCHANGED <<script, waiting, ordered, reply, config_reg, sTicCnt, signA, signB,
                     pointer>>
  BY DEF SendPulse, SleepAfter, ticVars, busVars
<1>2. /\ ~waiting /\ reply = <<>> /\ at \in DOMAIN script
      /\ ~Outstanding /\ ~InFlight /\ ~signA /\ ~signB /\ (pulses > 0 => runs > 0)
      /\ \A i \in Places : link[i].cmd.op # "pulse" /\ link[i].cmd.op # "status"
  BY <1>1, ReadyFacts
<1>3. Types /\ LinkTyped /\ SleepTicks \in Nat
  BY TimeAssumption DEF IInv, Types, LinkTyped
<1>4. c \in Commands
  BY <1>1, <1>2, <1>3, ScriptStep
<1>5. /\ LinkTyped' /\ n \in Nat /\ Len(link') = n + 1 /\ link'[n + 1].cmd = c /\ link'[n + 1].age = 0
      /\ \A i \in 1 .. n : link'[i] = link[i]
  BY <1>1, <1>3, <1>4, Sending
<1>6. Ordered.reg \in SUBSET Int /\ Ordered' = Ordered
  <2>1. Ordered' = Ordered
    BY <1>1 DEF Ordered
  <2> QED
    BY <2>1 DEF Ordered, Fields, Field
<1>7. Types'
  <2>1. believed' \in [Chips -> SUBSET Int]
    BY <1>1, <1>3, <1>6 DEF Types
  <2>2. at' \in Nat \ {0} /\ pulses' \in Nat /\ runs' \in Nat
    BY <1>1, <1>3 DEF Types
  <2> QED
    BY <1>1, <1>3, <1>5, <2>1, <2>2 DEF Types, LinkTyped
<1>9. RegistersFollow' /\ SlotsRead' /\ LastWritten'
  BY <1>1, <1>2, <1>3, <1>4, SendOther, StepOther DEF IInv, IssueInv
<1> HIDE DEF c, n
<1>10. Places = 1 .. n /\ Places' = 1 .. (n + 1)
  BY <1>5 DEF Places, n
<1>11. InFlight' /\ Outstanding'
  BY <1>1, <1>5, <1>10 DEF InFlight, Outstanding
<1>12. IssueInv'
  <2>1. LastSent'
    <3>1. Lag >= 0 /\ 0 + SleepTicks >= SleepTicks
      BY TimeAssumption
    <3>2. \A i \in 1 .. (n + 1) : i \in 1 .. n \/ i = n + 1
      BY <1>5
    <3>3. \A i \in 1 .. n : /\ link'[i].age <= Lag
                            /\ link'[i].cmd.op # "pulse" /\ link'[i].cmd.op # "status"
      BY <1>2, <1>5, <1>10 DEF IInv, IssueInv, LastSent
    <3> QED
      BY <1>1, <1>5, <1>10, <3>1, <3>2, <3>3 DEF LastSent
  <2>2. SleepsLongEnough'
    BY <1>1, <1>2 DEF SleepsLongEnough
  <2>4. CommandKept'
    <3>1. issued' = Ordered' /\ pulses' > 0 /\ runs' = 0
      BY <1>1, <1>3, <1>6 DEF Types
    <3> QED
      BY <1>1, <1>2, <1>11, <3>1 DEF CommandKept
  <2> QED
    BY <1>9, <2>1, <2>2, <2>4 DEF IssueInv
<1>13. PointersFollow'
  <2> SUFFICES ASSUME NEW h \in Chips
               PROVE  believed'[h] = IF IsWrite(Ordered) /\ Ordered.chip = h THEN Ordered.reg ELSE pointer[h]
    BY <1>1, <1>6, <1>11 DEF PointersFollow
  <2>1. believed[h] = pointer[h]
    BY <1>2 DEF IInv, PointersFollow
  <2> QED
    BY <1>1, <1>3, <2>1 DEF Types
<1>14. ResultKept' /\ WaitsForIt'
  BY <1>1, <1>2, <1>11 DEF ResultKept, WaitsForIt
<1> QED
  BY <1>7, <1>9, <1>12, <1>13, <1>14 DEF IInv
LEMMA SameResult ==
  ASSUME UNCHANGED <<ordered, believed, pulses>>
  PROVE  Ordered' = Ordered /\ Own' = Own /\ \A x : Result(x)' <=> Result(x)
<1>1. Ordered' = Ordered
  BY DEF Ordered
<1>2. Own' = Own
  BY <1>1 DEF Own
<1> QED
  BY <1>1, <1>2 DEF Result

LEMMA SendStatusStep ==
  ASSUME IInv, SendStatus
  PROVE  IInv'
<1> DEFINE c == script[at]
           n == Len(link)
<1>1. /\ Ready /\ c.op = "status" /\ Send(c) /\ waiting' = TRUE
      /\ UNCHANGED <<script, at, sleeping, ordered, believed, pulses, reply, config_reg, sTicCnt,
                     signA, signB, rd, data, pointer, runs, issued>>
  BY DEF SendStatus, ticVars, busVars, runVars
<1>2. /\ sleeping = 0 /\ ~waiting /\ reply = <<>> /\ at \in DOMAIN script
      /\ ~Outstanding /\ ~InFlight /\ ~signA /\ ~signB /\ (pulses > 0 => runs > 0)
      /\ \A i \in Places : link[i].cmd.op # "pulse" /\ link[i].cmd.op # "status"
  BY <1>1, ReadyFacts
<1>3. Types /\ LinkTyped
  BY DEF IInv, Types, LinkTyped
<1>4. c \in Commands
  BY <1>1, <1>2, <1>3, ScriptStep
<1>5. /\ LinkTyped' /\ n \in Nat /\ Len(link') = n + 1 /\ link'[n + 1].cmd = c /\ link'[n + 1].age = 0
      /\ \A i \in 1 .. n : link'[i] = link[i]
  BY <1>1, <1>3, <1>4, Sending
<1>6. Types'
  BY <1>1, <1>3, <1>5 DEF Types, LinkTyped
<1>7. (Asked' <=> Asked) /\ Asked
  BY <1>1, <1>2 DEF Asked
<1>8. RegistersFollow' /\ SlotsRead'
  BY <1>1, <1>3, <1>4, SendOther DEF IInv, IssueInv
<1>9. LastWritten'
  BY <1>1 DEF IInv, LastWritten
<1> HIDE DEF c, n
<1>10. Places = 1 .. n /\ Places' = 1 .. (n + 1)
  BY <1>5 DEF Places, n
<1>11. \A i \in 1 .. (n + 1) : i \in 1 .. n \/ i = n + 1
  BY <1>5
<1>12. ~InFlight' /\ ~Outstanding'
  BY <1>1, <1>2, <1>5, <1>10, <1>11 DEF InFlight, Outstanding
<1>13. LastSent'
  <2>1. Lag >= 0
    BY TimeAssumption
  <2>2. \A i \in 1 .. n : /\ link'[i].age <= Lag
                          /\ link'[i].cmd.op # "pulse" /\ link'[i].cmd.op # "status"
    BY <1>2, <1>5, <1>10 DEF IInv, IssueInv, LastSent
  <2> QED
    BY <1>1, <1>2, <1>5, <1>10, <1>11, <2>1, <2>2 DEF LastSent
<1>14. SleepsLongEnough' /\ CommandKept'
  BY <1>1, <1>2, <1>12 DEF SleepsLongEnough, CommandKept
<1>15. PointersFollow'
  BY <1>1, <1>2, <1>12 DEF IInv, PointersFollow
<1>16. ResultKept'
  <2>1. Result(data)
    BY <1>2, <1>7 DEF IInv, ResultKept
  <2> QED
    BY <1>1, <1>2, <2>1, SameResult DEF ResultKept
<1>17. WaitsForIt'
  BY <1>1, <1>2, <1>7 DEF WaitsForIt
<1> QED
  BY <1>6, <1>8, <1>9, <1>13, <1>14, <1>15, <1>16, <1>17 DEF IInv, IssueInv

LEMMA ReceiveStep ==
  ASSUME IInv, Receive
  PROVE  IInv'
<1>1. /\ waiting /\ reply # <<>> /\ reply' = <<>> /\ waiting' = FALSE /\ at' = at + 1
      /\ UNCHANGED <<script, sleeping, ordered, believed, pulses, link, config_reg, sTicCnt,
                     signA, signB, rd, data, pointer, runs, issued>>
  BY DEF Receive, ticVars, busVars, runVars
<1>2. Types /\ sleeping = 0 /\ Asked /\ at \in DOMAIN script /\ script[at].op = "status"
  BY <1>1 DEF IInv, WaitsForIt, Asked
<1>3. Types'
  <2>1. at' \in Nat \ {0}
    BY <1>1, <1>2 DEF Types
  <2>2. waiting' \in BOOLEAN
    BY <1>1, ZenonT(20)
  <2> QED
    BY <1>1, <1>2, <2>1, <2>2 DEF Types
<1>4. ~Asked'
  BY <1>1, <1>2, NextStep
<1>5. LastWritten'
  BY <1>1, <1>2, StepOther DEF IInv
<1>6. Places' = Places /\ (InFlight' <=> InFlight) /\ (Outstanding' <=> Outstanding) /\ Ordered' = Ordered
  BY <1>1 DEF Places, InFlight, Outstanding, Ordered
<1>7. IssueInv'
  <2>1. LastSent'
    BY <1>1, <1>6 DEF LastSent, IInv, IssueInv
  <2>2. RegistersFollow' /\ SleepsLongEnough' /\ CommandKept'
    BY <1>1, <1>6 DEF RegistersFollow, SleepsLongEnough, CommandKept, IInv, IssueInv
  <2> QED
    BY <2>1, <2>2 DEF IssueInv
<1>8. SlotsRead' /\ PointersFollow'
  BY <1>1, <1>6 DEF SlotsRead, KeepsRead, PointersFollow, IInv
<1>9. ResultKept' /\ WaitsForIt'
  BY <1>1, <1>4 DEF ResultKept, WaitsForIt
<1> QED
  BY <1>3, <1>5, <1>7, <1>8, <1>9 DEF IInv
-----------------------------------------------------------------------------
(* The steps of the control interface.                                     *)

LEMMA TakeWriteStep ==
  ASSUME IInv, TakeWrite
  PROVE  IInv'
<1> DEFINE c == Take
           n == Len(link)
<1>1. /\ link # <<>> /\ c.op = "write" /\ link' = Tail(link)
      /\ config_reg' = [config_reg EXCEPT ![c.reg] = c.word]
      /\ UNCHANGED <<script, at, sleeping, waiting, ordered, believed, pulses, reply, sTicCnt, signA,
                     signB, rd, data, pointer, runs, issued>>
  BY DEF TakeWrite, scriptVars, ticVars, busVars, runVars
<1>2. Types /\ LinkTyped
  BY DEF IInv, Types, LinkTyped
<1>3. /\ LinkTyped' /\ n \in Nat /\ n >= 1 /\ Len(link') = n - 1
      /\ link[1].cmd = c /\ c \in Commands
      /\ \A i \in 1 .. (n - 1) : link'[i] = link[i + 1]
  BY <1>1, <1>2, Taking
<1>4. c.reg \in Registers /\ c.word \in Words
  BY <1>1, <1>3 DEF Commands
<1> HIDE DEF c, n
<1>5. Types'
  <2>1. config_reg' \in [Registers -> Words]
    BY <1>1, <1>2, <1>4 DEF Types
  <2> QED
    BY <1>1, <1>2, <1>3, <2>1 DEF Types, LinkTyped
<1>6. Places = 1 .. n /\ Places' = 1 .. (n - 1) /\ 1 \in 1 .. n
  BY <1>3 DEF Places, n
<1>7. \A i \in 1 .. n : i = 1 \/ (i - 1 \in 1 .. (n - 1) /\ (i - 1) + 1 = i)
  BY <1>3
<1>8. \A i \in 1 .. (n - 1) : i + 1 \in 1 .. n
  BY <1>3
<1>9. (InFlight' <=> InFlight) /\ (Outstanding' <=> Outstanding) /\ ~signA /\ ~signB
  <2>1. InFlight' => InFlight
    BY <1>3, <1>6, <1>8 DEF InFlight
  <2>2. InFlight => InFlight'
    BY <1>1, <1>3, <1>6, <1>7 DEF InFlight
  <2>3. ~signA /\ ~signB
    BY <1>1 DEF IInv, IssueInv, SleepsLongEnough
  <2> QED
    BY <1>1, <2>1, <2>2, <2>3 DEF Outstanding
<1>10. RegistersFollow'
  <2> SUFFICES ASSUME NEW r \in Registers
               PROVE  \/ config_reg'[r] = ordered[r] /\ \A i \in 1 .. (n - 1) : ~Writes(link'[i].cmd, r)
                      \/ \E i \in 1 .. (n - 1) :
                           /\ Writes(link'[i].cmd, r) /\ link'[i].cmd.word = ordered[r]
                           /\ \A j \in 1 .. (n - 1) : Writes(link'[j].cmd, r) => j <= i
    BY <1>1, <1>6 DEF RegistersFollow
  <2>1. CASE config_reg[r] = ordered[r] /\ \A i \in 1 .. n : ~Writes(link[i].cmd, r)
    <3>1. c.reg # r
      BY <1>1, <1>3, <1>6, <2>1 DEF Writes
    <3>2. config_reg'[r] = ordered[r]
      BY <1>1, <1>2, <1>4, <2>1, <3>1 DEF Types
    <3> QED
      BY <1>3, <1>8, <2>1, <3>2
  <2>2. CASE \E i \in 1 .. n : /\ Writes(link[i].cmd, r) /\ link[i].cmd.word = ordered[r]
                               /\ \A j \in 1 .. n : Writes(link[j].cmd, r) => j <= i
    <3>1. PICK i \in 1 .. n : /\ Writes(link[i].cmd, r) /\ link[i].cmd.word = ordered[r]
                              /\ \A j \in 1 .. n : Writes(link[j].cmd, r) => j <= i
      BY <2>2
    <3>2. CASE i = 1
      <4>1. config_reg'[r] = ordered[r]
        BY <1>1, <1>2, <1>3, <1>4, <3>1, <3>2 DEF Writes, Types
      <4>2. \A k \in 1 .. (n - 1) : ~(k + 1 <= 1)
        BY <1>3
      <4>3. \A k \in 1 .. (n - 1) : ~Writes(link'[k].cmd, r)
        BY <1>3, <1>8, <3>1, <3>2, <4>2
      <4> QED
        BY <4>1, <4>3
    <3>3. CASE i # 1
      <4>1. PICK m \in 1 .. (n - 1) : m + 1 = i
        BY <1>7, <3>3
      <4>2. Writes(link'[m].cmd, r) /\ link'[m].cmd.word = ordered[r]
        BY <1>3, <3>1, <4>1
      <4>3. \A k \in 1 .. (n - 1) : k + 1 <= i => k <= m
        BY <1>3, <4>1
      <4>4. \A k \in 1 .. (n - 1) : Writes(link'[k].cmd, r) => k <= m
        BY <1>3, <1>8, <3>1, <4>3
      <4> QED
        BY <4>2, <4>4
    <3> QED
      BY <3>2, <3>3
  <2> QED
    BY <1>6, <2>1, <2>2 DEF IInv, IssueInv, RegistersFollow
<1>11. LastSent'
  <2> SUFFICES ASSUME NEW i \in 1 .. (n - 1)
               PROVE  /\ link'[i].age <= Lag
                      /\ link'[i].cmd.op = "pulse" => i = n - 1 /\ link'[i].age + sleeping >= SleepTicks
                      /\ link'[i].cmd.op = "status" => i = n - 1 /\ waiting /\ reply = <<>>
    BY <1>1, <1>3, <1>6 DEF LastSent
  <2>1. i + 1 = n => i = n - 1
    BY <1>3
  <2>2. /\ link[i + 1].age <= Lag
        /\ link[i + 1].cmd.op = "pulse" => i + 1 = n /\ link[i + 1].age + sleeping >= SleepTicks
        /\ link[i + 1].cmd.op = "status" => i + 1 = n /\ waiting /\ reply = <<>>
    BY <1>6, <1>8 DEF IInv, IssueInv, LastSent, n
  <2> QED
    BY <1>3, <2>1, <2>2
<1>12. SleepsLongEnough' /\ CommandKept' /\ Ordered' = Ordered
  <2>1. Ordered' = Ordered
    BY <1>1 DEF Ordered
  <2> QED
    BY <1>1, <1>9, <2>1 DEF SleepsLongEnough, CommandKept, IInv, IssueInv
<1>13. (Asked' <=> Asked) /\ LastWritten'
  BY <1>1 DEF Asked, IInv, LastWritten
<1>14. SlotsRead'
  <2>1. KeepsRead(c) /\ \A i \in 1 .. n : KeepsRead(link[i].cmd)
    BY <1>3, <1>6 DEF IInv, SlotsRead
  <2>2. \A i \in 1 .. (n - 1) : KeepsRead(link'[i].cmd)
    BY <1>3, <1>8, <2>1
  <2>3. ASSUME NEW k \in Slots PROVE SlotBit(k) \in config_reg'[SlotReg(k)]
    <3>1. SlotReg(k) \in Registers /\ SlotBit(k) \in config_reg[SlotReg(k)]
      BY SlotPlaces DEF IInv, SlotsRead
    <3>2. c.reg = SlotReg(k) => SlotBit(k) \in c.word
      BY <1>1, <2>1 DEF KeepsRead
    <3> QED
      BY <1>1, <1>2, <1>4, <3>1, <3>2 DEF Types
  <2> QED
    BY <1>6, <2>2, <2>3 DEF SlotsRead, KeepsRead, SlotBit, SlotReg
<1>15. PointersFollow'
  BY <1>1, <1>9, <1>12 DEF PointersFollow, IInv
<1>16. ResultKept' /\ WaitsForIt'
  BY <1>1, <1>9, <1>13, SameResult DEF ResultKept, WaitsForIt, IInv
<1> QED
  BY <1>5, <1>10, <1>11, <1>12, <1>13, <1>14, <1>15, <1>16 DEF IInv, IssueInv
(* A pulse or a request is taken when nothing else is on its way.          *)
LEMMA TakeLast ==
  ASSUME IInv, link # <<>>, Take.op = "pulse" \/ Take.op = "status"
  PROVE  /\ Len(link) = 1 /\ Places = {1} /\ link[1].cmd = Take /\ Tail(link) = <<>>
         /\ ~signA /\ ~signB
         /\ \A r \in Registers : config_reg[r] = ordered[r]
<1>1. link \in Seq(Entries)
  BY DEF IInv, Types
<1>2. Take = link[1].cmd /\ Len(link) \in Nat /\ Len(link) >= 1
  BY <1>1, EmptySeq DEF Take
<1>3. Places = 1 .. Len(link) /\ 1 \in Places
  BY <1>2 DEF Places
<1>4. Len(link) = 1
  BY <1>2, <1>3 DEF IInv, IssueInv, LastSent
<1>5. Places = {1}
  BY <1>3, <1>4
<1>6. Tail(link) \in Seq(Entries) /\ Len(Tail(link)) = 0
  BY <1>1, <1>4, HeadTailProperties
<1>7. Tail(link) = <<>>
  BY <1>6, EmptySeq
<1>8. ~signA /\ ~signB
  BY DEF IInv, IssueInv, SleepsLongEnough
<1>9. \A r \in Registers : config_reg[r] = ordered[r]
  BY <1>2, <1>5 DEF IInv, IssueInv, RegistersFollow, Writes
<1> QED
  BY <1>2, <1>4, <1>5, <1>7, <1>8, <1>9

(* With nothing on its way there is little to say.                         *)
LEMMA NoneSent ==
  ASSUME link' = <<>>, \A r \in Registers : config_reg'[r] = ordered'[r]
  PROVE  /\ link' \in Seq(Entries) /\ Places' = {} /\ ~InFlight' /\ (Outstanding' <=> signA')
         /\ RegistersFollow' /\ LastSent'
<1>1. link' \in Seq(Entries) /\ Len(link') = 0
  BY EmptySeq
<1>2. Places' = {}
  BY <1>1 DEF Places
<1> QED
  BY <1>1, <1>2 DEF InFlight, Outstanding, RegistersFollow, LastSent

LEMMA TakeStatusStep ==
  ASSUME IInv, TakeStatus
  PROVE  IInv'
<1>1. /\ link # <<>> /\ Take.op = "status" /\ link' = Tail(link) /\ reply' = data
      /\ UNCHANGED <<script, at, sleeping, waiting, ordered, believed, pulses, config_reg, sTicCnt,
                     signA, signB, rd, data, pointer, runs, issued>>
  BY DEF TakeStatus, StatusAnswer, scriptVars, ticVars, busVars, runVars
<1>2. /\ Len(link) = 1 /\ Places = {1} /\ link[1].cmd = Take /\ link' = <<>> /\ ~signA /\ ~signB
      /\ \A r \in Registers : config_reg[r] = ordered[r]
  BY <1>1, TakeLast
<1>3. /\ link' \in Seq(Entries) /\ Places' = {} /\ ~InFlight' /\ ~Outstanding'
      /\ RegistersFollow' /\ LastSent'
  BY <1>1, <1>2, NoneSent
<1>4. waiting /\ reply = <<>>
  BY <1>1, <1>2 DEF IInv, IssueInv, LastSent
<1>5. Asked /\ sleeping = 0 /\ ~Outstanding /\ (pulses > 0 => runs > 0)
  BY <1>4, Rested DEF IInv, WaitsForIt
<1>6. Types'
  BY <1>1, <1>3 DEF IInv, Types
<1>7. SleepsLongEnough' /\ CommandKept'
  BY <1>1, <1>2, <1>3, <1>5 DEF SleepsLongEnough, CommandKept
<1>8. (Asked' <=> Asked) /\ LastWritten' /\ Ordered' = Ordered
  BY <1>1 DEF Asked, IInv, LastWritten, Ordered
<1>9. SlotsRead' /\ PointersFollow'
  BY <1>1, <1>3, <1>5, <1>8 DEF SlotsRead, PointersFollow, IInv
<1>10. Result(data)
  BY <1>2, <1>5 DEF IInv, ResultKept
<1>11. ResultKept' /\ WaitsForIt'
  BY <1>1, <1>2, <1>4, <1>5, <1>8, <1>10, SameResult DEF ResultKept, WaitsForIt
<1> QED
  BY <1>3, <1>6, <1>7, <1>8, <1>9, <1>11 DEF IInv, IssueInv

LEMMA TakePulseStep ==
  ASSUME IInv, TakePulse
  PROVE  IInv'
<1>1. /\ link # <<>> /\ Take.op = "pulse" /\ link' = Tail(link) /\ signA' = TRUE
      /\ UNCHANGED <<script, at, sleeping, waiting, ordered, believed, pulses, reply, config_reg,
                     sTicCnt, signB, rd, data, pointer, runs, issued>>
  BY DEF TakePulse, scriptVars, busVars, runVars
<1>2. /\ Len(link) = 1 /\ Places = {1} /\ link[1].cmd = Take /\ link' = <<>> /\ ~signA /\ ~signB
      /\ \A r \in Registers : config_reg[r] = ordered[r]
  BY <1>1, TakeLast
<1>3. /\ link' \in Seq(Entries) /\ Places' = {} /\ ~InFlight' /\ Outstanding'
      /\ RegistersFollow' /\ LastSent'
  BY <1>1, <1>2, NoneSent
<1>4. Outstanding
  BY <1>1, <1>2 DEF Outstanding, InFlight
<1>5. Types'
  <2>1. signA' \in BOOLEAN
    BY <1>1, ZenonT(20)
  <2> QED
    BY <1>1, <1>3, <2>1 DEF IInv, Types
<1>6. SleepsLongEnough'
  <2>1. link[1] \in Entries
    BY <1>2, ElementOfSeq DEF IInv, Types, Places
  <2>2. /\ link[1].age \in Nat /\ link[1].age <= Lag
        /\ link[1].age + sleeping >= SleepTicks
    BY <1>1, <1>2, <2>1 DEF Entries, IInv, IssueInv, LastSent
  <2>3. sleeping \in Nat /\ sTicCnt \in 0 .. 15
    BY DEF IInv, Types
  <2>4. Lag + 18 <= SleepTicks /\ Lag \in Nat /\ SleepTicks \in Nat
    BY TimeAssumption DEF Turn
  <2>5. sleeping >= 18
    BY <2>2, <2>3, <2>4
  <2>6. sleeping + sTicCnt >= IF sTicCnt <= 10 THEN 12 ELSE 28
    BY <2>3, <2>5
  <2> QED
    BY <1>1, <1>2, <2>6 DEF SleepsLongEnough
<1>7. (Asked' <=> Asked) /\ LastWritten' /\ Ordered' = Ordered
  BY <1>1 DEF Asked, IInv, LastWritten, Ordered
<1>8. CommandKept'
  <2>1. InFlight
    BY <1>1, <1>2 DEF InFlight
  <2> QED
    BY <1>1, <1>3, <1>4, <1>7, <2>1 DEF CommandKept, IInv, IssueInv
<1>9. SlotsRead' /\ PointersFollow'
  BY <1>1, <1>3, <1>4, <1>7 DEF SlotsRead, PointersFollow, IInv
<1>10. ResultKept' /\ WaitsForIt'
  BY <1>1, <1>3, <1>7, SameResult DEF ResultKept, WaitsForIt, IInv
<1> QED
  BY <1>3, <1>5, <1>6, <1>7, <1>8, <1>9, <1>10 DEF IInv, IssueInv
-----------------------------------------------------------------------------
(* The tick.                                                               *)

LEMMA TicFacts ==
  ASSUME Types, sTicCnt' = NextTic
  PROVE  sTicCnt' = (IF sTicCnt = 15 THEN 0 ELSE sTicCnt + 1) /\ sTicCnt' \in 0 .. 15
<1>1. sTicCnt \in 0 .. 15 /\ sTicCnt' = (sTicCnt + 1) % 16
  BY DEF Types, NextTic, Turn
<1> QED
  BY <1>1

(* The command of the pulse that waits is the one that was sent.           *)
LEMMA PulsedCommand ==
  ASSUME IInv, signA \/ (link # <<>> /\ Take.op = "pulse")
  PROVE  /\ Fields(i2c_command(5)) = Ordered /\ issued = Ordered /\ Outstanding /\ ~signB
         /\ pulses > 0 /\ runs < 2
<1>1. /\ \A r \in Registers : config_reg[r] = ordered[r]
      /\ Outstanding /\ ~signB /\ runs <= 1
  <2>1. CASE signA
    <3>1. link = <<>> /\ Outstanding /\ ~signB /\ runs <= 1
      BY <2>1 DEF IInv, IssueInv, SleepsLongEnough, CommandKept, Outstanding
    <3>2. Places = {}
      BY <3>1 DEF Places
    <3> QED
      BY <3>1, <3>2 DEF IInv, IssueInv, RegistersFollow
  <2>2. CASE link # <<>> /\ Take.op = "pulse"
    <3>1. /\ Places = {1} /\ link[1].cmd = Take /\ ~signB
          /\ \A r \in Registers : config_reg[r] = ordered[r]
      BY <2>2, TakeLast
    <3>2. InFlight
      BY <2>2, <3>1 DEF InFlight
    <3> QED
      BY <3>1, <3>2 DEF IInv, IssueInv, CommandKept, Outstanding
  <2> QED
    BY <2>1, <2>2
<1>2. 0 \in Registers /\ 1 \in Registers /\ 2 \in Registers
  BY DEF Registers
<1>3. i2c_command(5) = PulseCommand(ordered[0], ordered[1], ordered[2])
  BY <1>1, <1>2 DEF i2c_command
<1>4. runs \in Nat
  BY DEF IInv, Types
<1> QED
  BY <1>1, <1>3, <1>4 DEF Ordered, IInv, IssueInv, CommandKept

LEMMA Transacted ==
  ASSUME Types, NEW k, Transaction(k)
  PROVE  LET c == Fields(i2c_command(k))
         IN  /\ pointer' \in [Chips -> SUBSET Int]
             /\ \A h \in Chips : pointer'[h] = IF IsWrite(c) /\ c.chip = h THEN c.reg ELSE pointer[h]
             /\ ~IsWrite(c) => pointer' = pointer
             /\ rd' = IF IsRead(c) THEN BytesRead(c, k) ELSE rd
<1> DEFINE c == Fields(i2c_command(k))
<1>1. c.reg \in SUBSET Int
  BY DEF Fields, Field
<1>2. /\ pointer' = IF IsWrite(c) /\ c.chip \in Chips
                      THEN [pointer EXCEPT ![c.chip] = c.reg] ELSE pointer
      /\ rd' = IF IsRead(c) THEN BytesRead(c, k) ELSE rd
  BY DEF Transaction
<1> HIDE DEF c
<1>3. pointer \in [Chips -> SUBSET Int]
  BY DEF Types
<1>4. /\ pointer' \in [Chips -> SUBSET Int]
      /\ \A h \in Chips : pointer'[h] = IF IsWrite(c) /\ c.chip = h THEN c.reg ELSE pointer[h]
  BY <1>1, <1>2, <1>3
<1>5. ~IsWrite(c) => pointer' = pointer
  BY <1>2
<1> QED
  BY <1>2, <1>4, <1>5 DEF c

(* A slot, or nothing, is run.                                             *)
LEMMA RunSlot ==
  ASSUME IInv, NEW n \in 0 .. PulseEdges, Run(n), ~(sTicCnt = 10 /\ Seen(n))
  PROVE  /\ pointer' = pointer /\ runs' = runs
         /\ sTicCnt = 11 => rd' = rd
<1>1. CASE UNCHANGED <<rd, pointer, runs>>
  BY <1>1
<1>2. CASE /\ sTicCnt \in {2 * k : k \in Slots} /\ UNCHANGED runs
           /\ Transaction(sTicCnt \div 2)
  <2>1. PICK k \in Slots : sTicCnt = 2 * k
    BY <1>2
  <2>2. k \in 0 .. 4 /\ (2 * k) \div 2 = k /\ 2 * k # 11
    BY DEF Slots
  <2>3. Transaction(k) /\ sTicCnt # 11
    BY <1>2, <2>1, <2>2
  <2>4. ~IsWrite(Fields(i2c_command(k)))
    BY SlotReads DEF IInv
  <2> QED
    BY <1>2, <2>3, <2>4, Transacted DEF IInv
<1> QED
  BY <1>1, <1>2 DEF Run

(* The command of the pulse is run.                                        *)
LEMMA RunPulse ==
  ASSUME IInv, NEW n \in 0 .. PulseEdges, Run(n), sTicCnt = 10, Seen(n),
         signA \/ (link # <<>> /\ Take.op = "pulse")
  PROVE  /\ pointer' \in [Chips -> SUBSET Int] /\ runs' = runs + 1
         /\ \A h \in Chips : pointer'[h] = IF IsWrite(Ordered) /\ Ordered.chip = h
                                             THEN Ordered.reg ELSE pointer[h]
         /\ rd' = IF IsRead(Ordered) THEN BytesRead(Ordered, 5) ELSE rd
<1>1. Types /\ Fields(i2c_command(5)) = Ordered
  BY PulsedCommand DEF IInv
<1>2. sTicCnt \notin {2 * k : k \in Slots}
  <2>1. \A k \in 0 .. 4 : 2 * k # 10
    OBVIOUS
  <2> QED
    BY <2>1 DEF Slots
<1>3. Transaction(5) /\ runs' = runs + 1
  BY <1>2 DEF Run
<1> QED
  BY <1>1, <1>3, Transacted

(* A tick changes only the age of what is on its way.                      *)
LEMMA AgedLink ==
  ASSUME Types, LinkTyped', Len(link') = Len(link),
         \A i \in 1 .. Len(link) : link'[i].cmd = link[i].cmd,
         UNCHANGED <<script, at, ordered, config_reg>>
  PROVE  /\ Places' = Places /\ (InFlight' <=> InFlight)
         /\ RegistersFollow => RegistersFollow'
         /\ SlotsRead => SlotsRead'
         /\ LastWritten => LastWritten'
         /\ (Asked' <=> Asked) /\ Ordered' = Ordered
<1>1. Places' = Places /\ \A i \in Places : link'[i].cmd = link[i].cmd
  BY DEF Places
<1>2. (InFlight' <=> InFlight) /\ (Asked' <=> Asked) /\ Ordered' = Ordered
  BY <1>1 DEF InFlight, Asked, Ordered
<1>3. RegistersFollow => RegistersFollow'
  BY <1>1 DEF RegistersFollow
<1>4. SlotsRead => SlotsRead'
  BY <1>1 DEF SlotsRead, KeepsRead
<1>5. LastWritten => LastWritten'
  BY DEF LastWritten
<1> QED
  BY <1>1, <1>2, <1>3, <1>4, <1>5

LEMMA TickStep ==
  ASSUME IInv, Tick(0)
  PROVE  IInv'
<1>1. /\ NothingOverdue /\ Run(0)
      /\ signA' = (0 > 0 \/ (signA /\ sTicCnt # 10))
      /\ signB' = ((signA /\ sTicCnt = 10) \/ (signB /\ sTicCnt # 11))
      /\ data' = (IF sTicCnt = 11 /\ signB THEN rd ELSE data)
      /\ sTicCnt' = NextTic /\ sleeping' = (IF sleeping = 0 THEN 0 ELSE sleeping - 1)
      /\ link' = [i \in DOMAIN link |-> [cmd |-> link[i].cmd, age |-> link[i].age + 1]]
      /\ UNCHANGED <<script, at, waiting, ordered, believed, pulses, issued, reply, config_reg>>
  <2>1. ~(0 > 0)
    OBVIOUS
  <2> QED
    BY <2>1 DEF Tick, Pending, Latch
<1>2. Types /\ IssueInv /\ link \in Seq(Entries)
  BY DEF IInv, Types
<1>3. /\ LinkTyped' /\ Len(link) \in Nat /\ Len(link') = Len(link)
      /\ \A i \in 1 .. Len(link) : link'[i].cmd = link[i].cmd /\ link'[i].age = link[i].age + 1
  BY <1>1, <1>2, Ageing
<1>4. sTicCnt' = (IF sTicCnt = 15 THEN 0 ELSE sTicCnt + 1) /\ sTicCnt' \in 0 .. 15
  BY <1>1, <1>2, TicFacts
<1>5. sTicCnt \in 0 .. 15 /\ sleeping \in Nat /\ pulses \in Nat /\ runs \in Nat
  BY <1>2 DEF Types
<1>6. sleeping' \in Nat
  BY <1>1, <1>5
<1>7. /\ Places' = Places /\ (InFlight' <=> InFlight) /\ RegistersFollow' /\ SlotsRead' /\ LastWritten'
      /\ (Asked' <=> Asked) /\ Ordered' = Ordered
  BY <1>1, <1>2, <1>3, AgedLink DEF IInv, IssueInv
<1>0. Seen(0) <=> signA
  BY DEF Seen
<1>8. (signA' <=> signA /\ sTicCnt # 10)
      /\ (signB' <=> (signA /\ sTicCnt = 10) \/ (signB /\ sTicCnt # 11))
  <2>1. ~(0 > 0)
    OBVIOUS
  <2> QED
    BY <1>1, <2>1, ZenonT(20)
<1>9. signA' \in BOOLEAN /\ signB' \in BOOLEAN
  BY <1>1, ZenonT(20)
<1>10. LastSent'
  <2> SUFFICES ASSUME NEW i \in Places
               PROVE  /\ link'[i].age <= Lag
                      /\ link'[i].cmd.op = "pulse" => i = Len(link) /\ link'[i].age + sleeping' >= SleepTicks
                      /\ link'[i].cmd.op = "status" => i = Len(link) /\ waiting /\ reply = <<>>
    BY <1>1, <1>3, <1>7 DEF LastSent
  <2>1. i \in 1 .. Len(link) /\ link[i] \in Entries /\ i \in DOMAIN link
    BY <1>2, ElementOfSeq, LenProperties DEF Places
  <2>2. link[i].age \in Nat /\ link[i].age < Lag
    BY <1>1, <2>1 DEF Entries, NothingOverdue
  <2>3. link'[i].cmd = link[i].cmd /\ link'[i].age = link[i].age + 1
    BY <1>3, <2>1
  <2>4. /\ link[i].cmd.op = "pulse" => i = Len(link) /\ link[i].age + sleeping >= SleepTicks
        /\ link[i].cmd.op = "status" => i = Len(link) /\ waiting /\ reply = <<>>
    BY <1>2 DEF IssueInv, LastSent
  <2>5. Lag \in Nat /\ SleepTicks \in Nat /\ Lag + 18 <= SleepTicks
    BY TimeAssumption DEF Turn
  <2>6. \A a, s \in Nat : a < Lag /\ a + s >= SleepTicks => s # 0 /\ (a + 1) + (s - 1) >= SleepTicks
    BY <2>5
  <2>7. link'[i].cmd.op = "pulse" => link'[i].age + sleeping' >= SleepTicks
    BY <1>1, <1>5, <2>2, <2>3, <2>4, <2>6
  <2>8. link'[i].age <= Lag
    BY <2>2, <2>3, <2>5
  <2> QED
    BY <2>3, <2>4, <2>7, <2>8
<1>11. link = <<>> => link' = <<>>
  <2> SUFFICES ASSUME link = <<>> PROVE link' = <<>>
    OBVIOUS
  <2>1. Len(link') = 0
    BY <1>3
  <2> QED
    BY <1>3, <2>1, EmptySeq DEF LinkTyped
<1>12. SleepsLongEnough'
  <2>1. ASSUME signA'
        PROVE  link' = <<>> /\ ~signB' /\ sleeping' + sTicCnt' >= IF sTicCnt' <= 10 THEN 12 ELSE 28
    <3>1. /\ signA /\ sTicCnt # 10 /\ link = <<>> /\ ~signB
          /\ sleeping + sTicCnt >= IF sTicCnt <= 10 THEN 12 ELSE 28
      BY <1>2, <1>8, <2>1 DEF IssueInv, SleepsLongEnough
    <3>2. sleeping' + sTicCnt' >= IF sTicCnt' <= 10 THEN 12 ELSE 28
      BY <1>1, <1>4, <1>5, <3>1
    <3> QED
      BY <1>8, <1>11, <3>1, <3>2
  <2>2. ASSUME signB'
        PROVE  link' = <<>> /\ sTicCnt' = 11 /\ sleeping' >= 1
    <3>1. signA /\ sTicCnt = 10 /\ link = <<>> /\ sleeping + 10 >= 12
      BY <1>2, <1>8, <2>2 DEF IssueInv, SleepsLongEnough
    <3> QED
      BY <1>1, <1>4, <1>5, <1>11, <3>1
  <2> QED
    BY <2>1, <2>2 DEF SleepsLongEnough
<1>13. CASE sTicCnt = 10 /\ signA
  <2>1. link = <<>> /\ ~signB /\ Outstanding /\ issued = Ordered /\ pulses > 0
    BY <1>2, <1>13, PulsedCommand DEF IssueInv, SleepsLongEnough
  <2>2. /\ pointer' \in [Chips -> SUBSET Int] /\ runs' = runs + 1
        /\ \A h \in Chips : pointer'[h] = IF IsWrite(Ordered) /\ Ordered.chip = h
                                            THEN Ordered.reg ELSE pointer[h]
        /\ rd' = IF IsRead(Ordered) THEN BytesRead(Ordered, 5) ELSE rd
    BY <1>0, <1>1, <1>13, RunPulse DEF PulseEdges
  <2>3. ~Outstanding' /\ ~InFlight' /\ ~signA'
    <3>1. Places = {}
      BY <2>1 DEF Places
    <3> QED
      BY <1>7, <1>8, <1>13, <3>1 DEF Outstanding, InFlight
  <2>4. Types'
    <3>1. runs' \in Nat
      BY <1>5, <2>2
    <3> QED
      BY <1>1, <1>2, <1>3, <1>4, <1>5, <1>6, <1>9, <2>2, <3>1 DEF Types, LinkTyped
  <2>6. CommandKept'
    <3>1. runs' > 0
      BY <1>5, <2>2
    <3> QED
      BY <2>3, <3>1 DEF CommandKept
  <2>7. PointersFollow'
    BY <1>1, <1>7, <2>1, <2>2, <2>3 DEF IInv, PointersFollow
  <2>8. ASSUME Asked PROVE Result(rd)'
    <3>1. IsRead(Ordered) /\ ~IsWrite(Ordered) /\ Ordered.chip \in Chips
      BY <1>2, <2>8, AskedFacts DEF IInv
    <3> DEFINE own == [chip |-> Ordered.chip, reg |-> pointer[Ordered.chip],
                     by |-> 5, after |-> pulses]
    <3>2. rd' = BytesRead(Ordered, 5)
      BY <2>2, <3>1
    <3>3. Answer(Ordered, 5) = own
      BY <3>1 DEF Answer
    <3>4. believed[Ordered.chip] = pointer[Ordered.chip]
      BY <3>1 DEF IInv, PointersFollow
    <3>5. Own' = own
      BY <1>1, <1>7, <3>4 DEF Own
    <3> HIDE DEF own
    <3>6. rd' = <<own, IF Ordered.mode = {0} THEN own ELSE rd[2]>>
      BY <3>2, <3>3 DEF BytesRead
    <3>7. rd'[1] = own /\ (Ordered.mode = {0} => rd'[2] = own)
      BY <3>6
    <3> QED
      BY <1>7, <3>5, <3>7 DEF Result
  <2>9. ResultKept'
    BY <1>1, <1>7, <1>8, <1>13, <2>8, SameResult DEF ResultKept, IInv
  <2>10. WaitsForIt'
    BY <1>1, <1>7 DEF WaitsForIt, IInv
  <2> QED
    BY <1>7, <1>10, <1>12, <2>4, <2>6, <2>7, <2>9, <2>10 DEF IInv, IssueInv
<1>14. CASE ~(sTicCnt = 10 /\ signA)
  <2>1. pointer' = pointer /\ runs' = runs /\ (sTicCnt = 11 => rd' = rd)
    BY <1>0, <1>1, <1>14, RunSlot DEF PulseEdges
  <2>2. (signA' <=> signA) /\ (Outstanding' <=> Outstanding)
    BY <1>7, <1>8, <1>14 DEF Outstanding
  <2>3. Types'
    BY <1>1, <1>2, <1>3, <1>4, <1>5, <1>6, <1>9, <2>1 DEF Types, LinkTyped
  <2>4. CommandKept'
    BY <1>1, <1>2, <1>7, <2>1, <2>2 DEF CommandKept, IssueInv
  <2>5. PointersFollow'
    BY <1>1, <1>7, <2>1, <2>2 DEF IInv, PointersFollow
  <2>6. ~signB'
    BY <1>2, <1>8, <1>14 DEF IssueInv, SleepsLongEnough
  <2>7. ASSUME Asked, ~Outstanding PROVE Result(data')
    <3>1. CASE signB
      BY <1>1, <1>2, <2>7, <3>1 DEF IInv, IssueInv, SleepsLongEnough, ResultKept
    <3>2. CASE ~signB
      BY <1>1, <2>7, <3>2 DEF IInv, ResultKept
    <3> QED
      BY <3>1, <3>2
  <2>8. ResultKept'
    <3>1. PICK d : d = data'
      OBVIOUS
    <3>2. Asked /\ ~Outstanding => Result(d)
      BY <2>7, <3>1
    <3>3. Result(d)' <=> Result(d)
      BY <1>1, SameResult
    <3>4. Asked' /\ ~Outstanding' => Result(data)'
      BY <1>7, <2>2, <3>1, <3>2, <3>3 DEF Result
    <3>5. reply' # <<>> => Result(reply)'
      BY <1>1, SameResult DEF IInv, ResultKept
    <3> QED
      BY <2>6, <3>4, <3>5 DEF ResultKept
  <2>9. WaitsForIt'
    BY <1>1, <1>7 DEF WaitsForIt, IInv
  <2> QED
    BY <1>7, <1>10, <1>12, <2>3, <2>4, <2>5, <2>8, <2>9 DEF IInv, IssueInv
<1> QED
  BY <1>13, <1>14
(* The tick at one of whose edges the pulse comes.                         *)
LEMMA TickPulseStep ==
  ASSUME IInv, NEW n \in 1 .. PulseEdges, Tick(n)
  PROVE  IInv'
<1>0. n \in 0 .. PulseEdges /\ n > 0
  BY DEF PulseEdges
<1>1. /\ NothingOverdue /\ Run(n) /\ link # <<>> /\ Take.op = "pulse"
      /\ signA' = (n > 0 \/ (signA /\ sTicCnt # 10)) /\ signB' = signB
      /\ data' = (IF sTicCnt = 11 /\ signB THEN rd ELSE data)
      /\ sTicCnt' = NextTic /\ sleeping' = (IF sleeping = 0 THEN 0 ELSE sleeping - 1)
      /\ link' = [i \in DOMAIN Tail(link) |->
                    [cmd |-> Tail(link)[i].cmd, age |-> Tail(link)[i].age + 1]]
      /\ UNCHANGED <<script, at, waiting, ordered, believed, pulses, issued, reply, config_reg>>
  BY <1>0 DEF Tick, Pending, Latch
<1>2. /\ Len(link) = 1 /\ Places = {1} /\ link[1].cmd = Take /\ Tail(link) = <<>> /\ ~signA /\ ~signB
      /\ \A r \in Registers : config_reg[r] = ordered[r]
  BY <1>1, TakeLast
<1>3. link' = <<>>
  <2>1. Tail(link) \in Seq(Entries) /\ Len(Tail(link)) = 0
    BY <1>2, EmptySeq
  <2>2. LinkTyped' /\ Len(link') = 0
    BY <1>1, <2>1, Ageing
  <2> QED
    BY <2>2, EmptySeq DEF LinkTyped
<1>4. /\ link' \in Seq(Entries) /\ Places' = {} /\ ~InFlight' /\ (Outstanding' <=> signA')
      /\ RegistersFollow' /\ LastSent'
  BY <1>1, <1>2, <1>3, NoneSent
<1>5. Types /\ Outstanding /\ InFlight /\ signA' /\ ~signB' /\ data' = data
  BY <1>0, <1>1, <1>2 DEF IInv, Outstanding, InFlight
<1>16. runs = 0 /\ issued = Ordered /\ pulses > 0
  BY <1>5 DEF IInv, IssueInv, CommandKept
<1>6. /\ pointer' \in [Chips -> SUBSET Int] /\ runs' \in 0 .. 1
      /\ \A h \in Chips : ~(IsWrite(Ordered) /\ Ordered.chip = h) => pointer'[h] = pointer[h]
  <2>1. CASE sTicCnt = 10 /\ Seen(n)
    <3>1. /\ pointer' \in [Chips -> SUBSET Int] /\ runs' = runs + 1
          /\ \A h \in Chips : pointer'[h] = IF IsWrite(Ordered) /\ Ordered.chip = h
                                              THEN Ordered.reg ELSE pointer[h]
      BY <1>0, <1>1, <2>1, RunPulse
    <3> QED
      BY <1>16, <3>1
  <2>2. CASE ~(sTicCnt = 10 /\ Seen(n))
    <3>1. pointer' = pointer /\ runs' = runs
      BY <1>0, <1>1, <2>2, RunSlot
    <3> QED
      BY <1>5, <1>16, <3>1 DEF Types
  <2> QED
    BY <2>1, <2>2
<1>7. sTicCnt' \in 0 .. 15
  BY <1>1, <1>5, TicFacts
<1>8. sTicCnt \in 0 .. 15 /\ sleeping \in Nat /\ sleeping' \in Nat
  BY <1>1, <1>5 DEF Types
<1>9. Types'
  <2>1. signA' \in BOOLEAN
    BY <1>1, ZenonT(20)
  <2>3. runs' \in Nat
    BY <1>6
  <2>2. signB' \in BOOLEAN
    BY <1>1, <1>5 DEF Types
  <2> QED
    BY <1>1, <1>4, <1>5, <1>6, <1>7, <1>8, <2>1, <2>2, <2>3 DEF Types
<1>10. SleepsLongEnough'
  <2>0. link \in Seq(Entries) /\ 1 \in 1 .. Len(link)
    BY <1>2, <1>5 DEF Types
  <2>1. link[1] \in Entries /\ 1 \in DOMAIN link
    BY <2>0, ElementOfSeq, LenProperties
  <2>2. /\ link[1].age \in Nat /\ link[1].age < Lag
        /\ link[1].age + sleeping >= SleepTicks
    BY <1>1, <1>2, <2>1 DEF Entries, NothingOverdue, IInv, IssueInv, LastSent
  <2>3. Lag + 18 <= SleepTicks /\ Lag \in Nat /\ SleepTicks \in Nat
    BY TimeAssumption DEF Turn
  <2>4. sleeping >= 19
    BY <1>8, <2>2, <2>3
  <2>5. sleeping' + sTicCnt' >= IF sTicCnt' <= 10 THEN 12 ELSE 28
    BY <1>1, <1>7, <1>8, <2>4
  <2> QED
    BY <1>3, <1>5, <2>5 DEF SleepsLongEnough
<1>11. (Asked' <=> Asked) /\ LastWritten' /\ Ordered' = Ordered
  BY <1>1 DEF Asked, IInv, LastWritten, Ordered
<1>12. Outstanding'
  BY <1>4, <1>5
<1>13. CommandKept'
  <2>1. issued' = Ordered' /\ pulses' > 0 /\ runs' <= 1
    BY <1>1, <1>6, <1>11, <1>16
  <2> QED
    BY <1>4, <1>12, <2>1 DEF CommandKept
<1>14. SlotsRead' /\ PointersFollow'
  <2>1. SlotsRead'
    BY <1>1, <1>4 DEF SlotsRead, IInv
  <2>2. PointersFollow'
    BY <1>1, <1>5, <1>6, <1>11, <1>12 DEF PointersFollow, IInv
  <2> QED
    BY <2>1, <2>2
<1>15. ResultKept' /\ WaitsForIt'
  BY <1>1, <1>11, <1>12, SameResult DEF ResultKept, WaitsForIt, IInv
<1> QED
  BY <1>4, <1>9, <1>10, <1>11, <1>13, <1>14, <1>15 DEF IInv, IssueInv

LEMMA StutterStep ==
  ASSUME IInv, UNCHANGED vars
  PROVE  IInv'
<1>1. UNCHANGED <<script, at, sleeping, waiting, ordered, believed, pulses, link, reply, config_reg,
                  sTicCnt, signA, signB, rd, data, pointer, runs, issued>>
  BY DEF vars, scriptVars, linkVars, ticVars, busVars, runVars
<1>2. Places' = Places /\ (InFlight' <=> InFlight) /\ (Outstanding' <=> Outstanding)
      /\ Ordered' = Ordered /\ (Asked' <=> Asked)
  BY <1>1 DEF Places, InFlight, Outstanding, Ordered, Asked
<1>3. Types' /\ LastWritten' /\ WaitsForIt'
  BY <1>1, <1>2 DEF IInv, Types, LastWritten, WaitsForIt
<1>4. RegistersFollow' /\ SleepsLongEnough' /\ CommandKept'
  BY <1>1, <1>2 DEF IInv, IssueInv, RegistersFollow, SleepsLongEnough, CommandKept
<1>5. LastSent'
  BY <1>1, <1>2 DEF IInv, IssueInv, LastSent
<1>6. SlotsRead' /\ PointersFollow'
  BY <1>1, <1>2 DEF IInv, SlotsRead, KeepsRead, PointersFollow
<1>7. ResultKept'
  BY <1>1, <1>2, SameResult DEF IInv, ResultKept
<1> QED
  BY <1>3, <1>4, <1>5, <1>6, <1>7 DEF IInv, IssueInv

LEMMA Inductive == IInv /\ [Next]_vars => IInv'
<1> SUFFICES ASSUME IInv, [Next]_vars PROVE IInv'
  OBVIOUS
<1>1. CASE Scripted
  BY <1>1, SendWriteStep, SendPulseStep, SendStatusStep, ReceiveStep DEF Scripted
<1>2. CASE Board
  BY <1>2, TakeWriteStep, TakeStatusStep, TakePulseStep DEF Board
<1>3. CASE \E n \in 0 .. PulseEdges : Tick(n)
  <2>1. PICK n \in 0 .. PulseEdges : Tick(n)
    BY <1>3
  <2>2. n = 0 \/ n \in 1 .. PulseEdges
    BY DEF PulseEdges
  <2> QED
    BY <2>1, <2>2, TickStep, TickPulseStep
<1>4. CASE UNCHANGED vars
  BY <1>4, StutterStep
<1> QED
  BY <1>1, <1>2, <1>3, <1>4 DEF Next

LEMMA Invariant == Spec => []IInv
  BY InitInvariant, Inductive, PTL DEF Spec

(* Whatever a script does, however late its commands come and on whichever *)
(* edge of the pulse the tick falls, the scheduler runs for each pulse the *)
(* command that the script's registers held when the pulse was sent, at    *)
(* least once and twice at most, before the next pulse is sent: the pause  *)
(* after it is long enough for both.                                       *)
THEOREM RunAsSent == Spec => RunsAsSent
<1>1. ASSUME IInv, [Next]_vars
      PROVE  [/\ runs' > runs => /\ pulses > 0 /\ runs < 2
                                 /\ Fields(i2c_command(5)) = issued
              /\ pulses' > pulses /\ pulses > 0 => runs > 0]_vars
  <2> SUFFICES ASSUME Next
               PROVE  /\ runs' > runs => /\ pulses > 0 /\ runs < 2
                                         /\ Fields(i2c_command(5)) = issued
                      /\ pulses' > pulses /\ pulses > 0 => runs > 0
    BY <1>1
  <2>0. runs \in Nat /\ pulses \in Nat
    BY <1>1 DEF IInv, Types
  <2>1. CASE SendPulse
    <3>1. runs' = 0 /\ (pulses > 0 => runs > 0)
      BY <1>1, <2>1, ReadyFacts DEF SendPulse
    <3> QED
      BY <2>0, <3>1
  <2>2. CASE Board \/ SendWrite \/ SendStatus \/ Receive
    <3>1. UNCHANGED <<runs, pulses>>
      BY <2>2 DEF Board, SendWrite, SendStatus, Receive, TakeWrite, TakeStatus, TakePulse,
         scriptVars, runVars
    <3> QED
      BY <2>0, <3>1
  <2>3. CASE \E n \in 0 .. PulseEdges : Tick(n)
    <3>1. PICK n \in 0 .. PulseEdges : Tick(n)
      BY <2>3
    <3>2. Run(n) /\ pulses' = pulses /\ (n > 0 => link # <<>> /\ Take.op = "pulse")
      BY <3>1 DEF Tick
    <3>3. CASE sTicCnt = 10 /\ Seen(n)
      <4>1. signA \/ (link # <<>> /\ Take.op = "pulse")
        BY <3>2, <3>3 DEF Seen
      <4>2. Fields(i2c_command(5)) = issued /\ pulses > 0 /\ runs < 2
        BY <1>1, <4>1, PulsedCommand
      <4> QED
        BY <2>0, <3>2, <4>2
    <3>4. CASE ~(sTicCnt = 10 /\ Seen(n))
      <4>1. runs' = runs
        BY <1>1, <3>2, <3>4, RunSlot
      <4> QED
        BY <2>0, <3>2, <4>1
    <3> QED
      BY <3>3, <3>4
  <2> QED
    BY <2>1, <2>2, <2>3 DEF Next, Scripted
<1> QED
  BY <1>1, Invariant, PTL DEF Spec, RunsAsSent

(* The status that comes back to a script is the answer to its own read:   *)
(* of the chip it has addressed, from the register it has selected before, *)
(* fetched for its last pulse, although the slots share the bus and the    *)
(* registers of the result, and nothing but time tells the script when.    *)
THEOREM StatusOwn == Spec => []StatusIsOwn
<1>1. IInv => StatusIsOwn
  BY DEF IInv, ResultKept, Result, StatusIsOwn
<1> QED
  BY <1>1, Invariant, PTL
-----------------------------------------------------------------------------
(* The wiring of the slots, on the words of the preparation.               *)

(* The bits of a word, which the text of the scripts gives as a number: a  *)
(* power with a variable exponent is first made one with a constant one.   *)
LEMMA BitOf ==
  ASSUME NEW n \in Nat, NEW b
  PROVE  b \in Bits(n) <=>
           \/ (b = 0 /\ (n \div 1) % 2 = 1) \/ (b = 1 /\ (n \div 2) % 2 = 1)
           \/ (b = 2 /\ (n \div 4) % 2 = 1) \/ (b = 3 /\ (n \div 8) % 2 = 1)
           \/ (b = 4 /\ (n \div 16) % 2 = 1) \/ (b = 5 /\ (n \div 32) % 2 = 1)
           \/ (b = 6 /\ (n \div 64) % 2 = 1) \/ (b = 7 /\ (n \div 128) % 2 = 1)
           \/ (b = 8 /\ (n \div 256) % 2 = 1) \/ (b = 9 /\ (n \div 512) % 2 = 1)
           \/ (b = 10 /\ (n \div 1024) % 2 = 1) \/ (b = 11 /\ (n \div 2048) % 2 = 1)
           \/ (b = 12 /\ (n \div 4096) % 2 = 1) \/ (b = 13 /\ (n \div 8192) % 2 = 1)
           \/ (b = 14 /\ (n \div 16384) % 2 = 1) \/ (b = 15 /\ (n \div 32768) % 2 = 1)
<1>1. /\ (b = 0 => 2^b = 2^0) /\ (b = 1 => 2^b = 2^1) /\ (b = 2 => 2^b = 2^2) /\ (b = 3 => 2^b = 2^3)
      /\ (b = 4 => 2^b = 2^4) /\ (b = 5 => 2^b = 2^5) /\ (b = 6 => 2^b = 2^6) /\ (b = 7 => 2^b = 2^7)
      /\ (b = 8 => 2^b = 2^8) /\ (b = 9 => 2^b = 2^9) /\ (b = 10 => 2^b = 2^10) /\ (b = 11 => 2^b = 2^11)
      /\ (b = 12 => 2^b = 2^12) /\ (b = 13 => 2^b = 2^13) /\ (b = 14 => 2^b = 2^14) /\ (b = 15 => 2^b = 2^15)
  BY ZenonT(20)
<1>2. /\ (b = 0 => 2^b = 1) /\ (b = 1 => 2^b = 2) /\ (b = 2 => 2^b = 4) /\ (b = 3 => 2^b = 8)
      /\ (b = 4 => 2^b = 16) /\ (b = 5 => 2^b = 32) /\ (b = 6 => 2^b = 64) /\ (b = 7 => 2^b = 128)
      /\ (b = 8 => 2^b = 256) /\ (b = 9 => 2^b = 512) /\ (b = 10 => 2^b = 1024) /\ (b = 11 => 2^b = 2048)
      /\ (b = 12 => 2^b = 4096) /\ (b = 13 => 2^b = 8192) /\ (b = 14 => 2^b = 16384) /\ (b = 15 => 2^b = 32768)
  BY <1>1
<1>3. b \in 0 .. 15 <=> \/ b = 0 \/ b = 1 \/ b = 2 \/ b = 3
                       \/ b = 4 \/ b = 5 \/ b = 6 \/ b = 7
                       \/ b = 8 \/ b = 9 \/ b = 10 \/ b = 11
                       \/ b = 12 \/ b = 13 \/ b = 14 \/ b = 15
  OBVIOUS
<1>4. b \in Bits(n) <=> b \in 0 .. 15 /\ (n \div 2^b) % 2 = 1
  BY DEF Bits
<1> DEFINE odd(x) == (n \div x) % 2 = 1
<1>5. b \in Bits(n) <=> b \in 0 .. 15 /\ odd(2^b)
  BY <1>4
<1> HIDE DEF odd
<1>6. /\ (b = 0 => (odd(2^b) <=> odd(1))) /\ (b = 1 => (odd(2^b) <=> odd(2)))
      /\ (b = 2 => (odd(2^b) <=> odd(4))) /\ (b = 3 => (odd(2^b) <=> odd(8)))
      /\ (b = 4 => (odd(2^b) <=> odd(16))) /\ (b = 5 => (odd(2^b) <=> odd(32)))
      /\ (b = 6 => (odd(2^b) <=> odd(64))) /\ (b = 7 => (odd(2^b) <=> odd(128)))
      /\ (b = 8 => (odd(2^b) <=> odd(256))) /\ (b = 9 => (odd(2^b) <=> odd(512)))
      /\ (b = 10 => (odd(2^b) <=> odd(1024))) /\ (b = 11 => (odd(2^b) <=> odd(2048)))
      /\ (b = 12 => (odd(2^b) <=> odd(4096))) /\ (b = 13 => (odd(2^b) <=> odd(8192)))
      /\ (b = 14 => (odd(2^b) <=> odd(16384))) /\ (b = 15 => (odd(2^b) <=> odd(32768)))
  <2>1. \A x, y : x = y => (odd(x) <=> odd(y))
    BY ZenonT(20)
  <2> QED
    BY <1>2, <2>1
<1>7. b \in Bits(n) <=>
        \/ (b = 0 /\ odd(1)) \/ (b = 1 /\ odd(2)) \/ (b = 2 /\ odd(4)) \/ (b = 3 /\ odd(8))
        \/ (b = 4 /\ odd(16)) \/ (b = 5 /\ odd(32)) \/ (b = 6 /\ odd(64)) \/ (b = 7 /\ odd(128))
        \/ (b = 8 /\ odd(256)) \/ (b = 9 /\ odd(512)) \/ (b = 10 /\ odd(1024)) \/ (b = 11 /\ odd(2048))
        \/ (b = 12 /\ odd(4096)) \/ (b = 13 /\ odd(8192)) \/ (b = 14 /\ odd(16384)) \/ (b = 15 /\ odd(32768))
  <2> DEFINE one == odd(2^b)
  <2>1. b \in Bits(n) <=> b \in 0 .. 15 /\ one
    BY <1>5
  <2>2. /\ (b = 0 => (one <=> odd(1))) /\ (b = 1 => (one <=> odd(2)))
        /\ (b = 2 => (one <=> odd(4))) /\ (b = 3 => (one <=> odd(8)))
        /\ (b = 4 => (one <=> odd(16))) /\ (b = 5 => (one <=> odd(32)))
        /\ (b = 6 => (one <=> odd(64))) /\ (b = 7 => (one <=> odd(128)))
        /\ (b = 8 => (one <=> odd(256))) /\ (b = 9 => (one <=> odd(512)))
        /\ (b = 10 => (one <=> odd(1024))) /\ (b = 11 => (one <=> odd(2048)))
        /\ (b = 12 => (one <=> odd(4096))) /\ (b = 13 => (one <=> odd(8192)))
        /\ (b = 14 => (one <=> odd(16384))) /\ (b = 15 => (one <=> odd(32768)))
    BY <1>6
  <2> HIDE DEF one
  <2> QED
    BY <1>3, <2>1, <2>2
<1> QED
  BY <1>7 DEF odd

(* The numbers that the preparation and its converters are made of.        *)
LEMMA BitValues ==
  /\ ReadCommands = <<{0, 2, 11, 13}, {0, 2, 11, 13}, {0, 2, 9, 13}, {0, 2, 8, 13}>>
  /\ Bits(\hf) = {0, 1, 2, 3}
  /\ Field(Bits(\h2200), 8, 14) = {1, 5} /\ Field(Bits(\h2800), 8, 14) = {3, 5}
<1>1. Bits(10245) = {0, 2, 11, 13}
  <2>1. \A b : b \in Bits(10245) <=> b \in {0, 2, 11, 13}
    BY BitOf
  <2> QED
    BY <2>1
<1>2. Bits(8709) = {0, 2, 9, 13}
  <2>1. \A b : b \in Bits(8709) <=> b \in {0, 2, 9, 13}
    BY BitOf
  <2> QED
    BY <2>1
<1>3. Bits(8453) = {0, 2, 8, 13}
  <2>1. \A b : b \in Bits(8453) <=> b \in {0, 2, 8, 13}
    BY BitOf
  <2> QED
    BY <2>1
<1>4. Bits(15) = {0, 1, 2, 3}
  <2>1. \A b : b \in Bits(15) <=> b \in {0, 1, 2, 3}
    BY BitOf
  <2> QED
    BY <2>1
<1>5. Bits(8704) = {9, 13}
  <2>1. \A b : b \in Bits(8704) <=> b \in {9, 13}
    BY BitOf
  <2> QED
    BY <2>1
<1>6. Bits(10240) = {11, 13}
  <2>1. \A b : b \in Bits(10240) <=> b \in {11, 13}
    BY BitOf
  <2> QED
    BY <2>1
<1>7. Field({9, 13}, 8, 14) = {1, 5}
  <2>1. {9, 13} \cap (8 .. 14) = {9, 13} /\ 9 - 8 = 1 /\ 13 - 8 = 5
    OBVIOUS
  <2>2. Field({9, 13}, 8, 14) = {b - 8 : b \in {9, 13}}
    BY <2>1 DEF Field
  <2> QED
    BY <2>1, <2>2
<1>8. Field({11, 13}, 8, 14) = {3, 5}
  <2>1. {11, 13} \cap (8 .. 14) = {11, 13} /\ 11 - 8 = 3 /\ 13 - 8 = 5
    OBVIOUS
  <2>2. Field({11, 13}, 8, 14) = {b - 8 : b \in {11, 13}}
    BY <2>1 DEF Field
  <2> QED
    BY <2>1, <2>2
<1>9. \h2805 = 10245 /\ \h2205 = 8709 /\ \h2105 = 8453 /\ \hf = 15 /\ \h2200 = 8704 /\ \h2800 = 10240
  OBVIOUS
<1> QED
  BY <1>1, <1>2, <1>3, <1>4, <1>5, <1>6, <1>7, <1>8, <1>9 DEF ReadCommands

(* The words of the preparation, together, and bit for bit.                *)
LEMMA PreparedValue ==
  \A x : x \in PreparedBits <=> x \in {27, 29, 31, 32, 62, 64, 66, 67, 95, 99, 101, 102,
                                       129, 134, 136, 137, 140, 141, 142, 143}
<1>1. ASSUME NEW w \in Words, w \cap {1} = {}, w \cap (3 .. 7) = {}
      PROVE  bitmix(w) = {x + 32 : x \in w \cap {0}} \cup {x + 29 : x \in w \cap {2}}
                           \cup {x + 16 : x \in w \cap (8 .. 14)}
  <2>1. w \subseteq 0 .. 15
    BY DEF Words
  <2>2. \A S, m, n, k, x :
          x \in Shift(Field(S, m, n), k) <=> \E b \in S \cap (m .. n) : x = (b - m) + k
    BY DEF Shift, Field
  <2>3. \A x : x \in bitmix(w) <=> \/ \E b \in w \cap (0 .. 1) : x = (b - 0) + 32
                                   \/ \E b \in w \cap (2 .. 2) : x = (b - 2) + 31
                                   \/ \E b \in w \cap (8 .. 14) : x = (b - 8) + 24
                                   \/ \E b \in w \cap (16 .. 23) : x = (b - 16) + 16
                                   \/ \E b \in w \cap (24 .. 31) : x = (b - 24) + 8
                                   \/ x \in Field(w, 32, 39)
    BY <2>2 DEF bitmix
  <2>4. Field(w, 32, 39) = {} /\ w \cap (16 .. 23) = {} /\ w \cap (24 .. 31) = {}
    BY <2>1 DEF Field
  <2>5. w \cap (0 .. 1) = w \cap {0} /\ w \cap (2 .. 2) = w \cap {2}
    BY <1>1, <2>1
  <2>6. \A b \in 0 .. 15 : (b - 0) + 32 = b + 32 /\ (b - 2) + 31 = b + 29 /\ (b - 8) + 24 = b + 16
    OBVIOUS
  <2>7. \A x : x \in bitmix(w) <=> \/ \E b \in w \cap {0} : x = b + 32
                                   \/ \E b \in w \cap {2} : x = b + 29
                                   \/ \E b \in w \cap (8 .. 14) : x = b + 16
    BY <2>1, <2>3, <2>4, <2>5, <2>6
  <2> QED
    BY <2>7
<1>2. /\ \A x : x \in bitmix({0, 2, 11, 13}) <=> x \in {27, 29, 31, 32}
      /\ \A x : x \in bitmix({0, 2, 9, 13}) <=> x \in {25, 29, 31, 32}
      /\ \A x : x \in bitmix({0, 2, 8, 13}) <=> x \in {24, 29, 31, 32}
  <2>1. \A y : y \in 8 .. 14 => {0, 2, y, 13} \in Words
    BY DEF Words
  <2>2. \A y \in 8 .. 14 : \A x : x \in bitmix({0, 2, y, 13}) <=> x \in {y + 16, 29, 31, 32}
    <3> SUFFICES ASSUME NEW y \in 8 .. 14, NEW x
                 PROVE  x \in bitmix({0, 2, y, 13}) <=> x \in {y + 16, 29, 31, 32}
      OBVIOUS
    <3> DEFINE w == {0, 2, y, 13}
    <3>1. w \in Words /\ w \cap {1} = {} /\ w \cap (3 .. 7) = {}
      BY DEF Words
    <3>2. w \cap {0} = {0} /\ w \cap {2} = {2} /\ w \cap (8 .. 14) = {y, 13}
      <4>1. 0 \notin 8 .. 14 /\ 2 \notin 8 .. 14 /\ y \in 8 .. 14 /\ 13 \in 8 .. 14
        OBVIOUS
      <4> QED
        BY <4>1
    <3> HIDE DEF w
    <3>3. bitmix(w) = {b + 32 : b \in {0}} \cup {b + 29 : b \in {2}} \cup {b + 16 : b \in {y, 13}}
      BY <1>1, <3>1, <3>2
    <3>4. x \in bitmix(w) <=> x \in {32, 31, y + 16, 29}
      BY <3>3
    <3> QED
      BY <3>4 DEF w
  <2>3. /\ \A x : x \in bitmix({0, 2, 11, 13}) <=> x \in {11 + 16, 29, 31, 32}
        /\ \A x : x \in bitmix({0, 2, 9, 13}) <=> x \in {9 + 16, 29, 31, 32}
        /\ \A x : x \in bitmix({0, 2, 8, 13}) <=> x \in {8 + 16, 29, 31, 32}
    BY <2>2
  <2> QED
    BY <2>3
<1>3. \A x : x \in PreparedBits <=> \/ \E b \in bitmix({0, 2, 11, 13}) : x = b + 0 \/ x = b + 35
                                    \/ \E b \in bitmix({0, 2, 9, 13}) : x = b + 70
                                    \/ \E b \in bitmix({0, 2, 8, 13}) : x = b + 105
                                    \/ \E b \in {0, 1, 2, 3} : x = b + 140
  <2> DEFINE S(k) == Shift(bitmix(ReadCommands[k]), 35 * (k - 1))
  <2>1. \A x : x \in PreparedBits <=> x \in S(1) \/ x \in S(2) \/ x \in S(3) \/ x \in S(4)
                                        \/ x \in Shift(Bits(\hf), 140)
    <3>1. \A k : k \in 1 .. 4 <=> k = 1 \/ k = 2 \/ k = 3 \/ k = 4
      OBVIOUS
    <3> HIDE DEF S
    <3>2. PreparedBits = (UNION {S(k) : k \in 1 .. 4}) \cup Shift(Bits(\hf), 140)
      BY DEF PreparedBits, S
    <3> QED
      BY <3>1, <3>2
  <2>2. /\ S(1) = Shift(bitmix({0, 2, 11, 13}), 0) /\ S(2) = Shift(bitmix({0, 2, 11, 13}), 35)
        /\ S(3) = Shift(bitmix({0, 2, 9, 13}), 70) /\ S(4) = Shift(bitmix({0, 2, 8, 13}), 105)
        /\ Shift(Bits(\hf), 140) = Shift({0, 1, 2, 3}, 140)
    <3>1. /\ ReadCommands[1] = {0, 2, 11, 13} /\ ReadCommands[2] = {0, 2, 11, 13}
          /\ ReadCommands[3] = {0, 2, 9, 13} /\ ReadCommands[4] = {0, 2, 8, 13}
      BY BitValues
    <3>2. 35 * (1 - 1) = 0 /\ 35 * (2 - 1) = 35 /\ 35 * (3 - 1) = 70 /\ 35 * (4 - 1) = 105
      OBVIOUS
    <3> QED
      BY <3>1, <3>2, BitValues
  <2> HIDE DEF S
  <2>3. \A T, k, x : x \in Shift(T, k) <=> \E b \in T : x = b + k
    BY DEF Shift
  <2> QED
    BY <2>1, <2>2, <2>3
<1>4. \A x : x \in PreparedBits <=> \/ \E b \in {27, 29, 31, 32} : x = b + 0 \/ x = b + 35
                                    \/ \E b \in {25, 29, 31, 32} : x = b + 70
                                    \/ \E b \in {24, 29, 31, 32} : x = b + 105
                                    \/ \E b \in {0, 1, 2, 3} : x = b + 140
  BY <1>2, <1>3
<1> QED
  BY <1>4

(* What a slot runs when the first m words of the preparation are there:   *)
(* the registers above are as the reset has left them.                     *)
HasFirst(m) ==
  /\ \A i \in 0 .. 8 : config_reg[7 + i] = IF i < m THEN Field(PreparedBits, 16 * i, 16 * i + 15)
                                                    ELSE 0 .. 15
  /\ config_reg[16] = 0 .. 15 /\ config_reg[17] = 0 .. 15

LEMMA SlotCommand ==
  ASSUME NEW m \in Int, m <= 9, HasFirst(m), NEW k \in Slots
  PROVE  \A b : b \in i2c_command(k) <=>
               b \in 0 .. 34 /\ (35 * k + b < 16 * m => 35 * k + b \in PreparedBits)
<1> DEFINE wires == UNION {Shift(config_reg[7 + i], 16 * i) : i \in 0 .. 10}
<1>1. ASSUME NEW i \in 0 .. 10, NEW y
      PROVE  y \in Shift(config_reg[7 + i], 16 * i) <=>
               y \in 16 * i .. 16 * i + 15 /\ (i < m => y \in PreparedBits)
  <2>1. i \in 0 .. 8 \/ i = 9 \/ i = 10
    OBVIOUS
  <2>2. y \in Shift(config_reg[7 + i], 16 * i) <=> \E b \in config_reg[7 + i] : y = b + 16 * i
    BY DEF Shift
  <2>3. \A x \in PreparedBits : x \in 0 .. 143
    BY PreparedValue
  <2>4. CASE i \in 0 .. 8 /\ i < m
    <3>1. \A b : b \in config_reg[7 + i] <=> \E x \in PreparedBits : x \in 16 * i .. 16 * i + 15 /\ b = x - 16 * i
      BY <2>4 DEF HasFirst, Field
    <3>2. \A x \in PreparedBits : (x - 16 * i) + 16 * i = x
      BY <2>3
    <3> QED
      BY <2>2, <2>4, <3>1, <3>2
  <2>5. CASE ~(i < m)
    <3>1. config_reg[7 + i] = 0 .. 15
      BY <2>1, <2>5 DEF HasFirst
    <3>2. \A x \in 16 * i .. 16 * i + 15 : x - 16 * i \in 0 .. 15 /\ (x - 16 * i) + 16 * i = x
      OBVIOUS
    <3>3. \A b \in 0 .. 15 : b + 16 * i \in 16 * i .. 16 * i + 15
      OBVIOUS
    <3> QED
      BY <2>2, <2>5, <3>1, <3>2, <3>3
  <2>6. i < m => i \in 0 .. 8
    OBVIOUS
  <2> QED
    BY <2>4, <2>5, <2>6
<1>2. \A y : y \in wires <=> \E i \in 0 .. 10 : y \in Shift(config_reg[7 + i], 16 * i)
  OBVIOUS
<1>3. i2c_command(k) = Field(wires, 35 * k, 35 * k + 34)
  BY DEF i2c_command, Slots
<1> HIDE DEF wires
<1>4. \A y \in 0 .. 174 : y \in wires <=> (y < 16 * m => y \in PreparedBits)
  <2> SUFFICES ASSUME NEW y \in 0 .. 174 PROVE y \in wires <=> (y < 16 * m => y \in PreparedBits)
    OBVIOUS
  <2>1. y \in wires <=> \E i \in 0 .. 10 : y \in 16 * i .. 16 * i + 15 /\ (i < m => y \in PreparedBits)
    BY <1>1, <1>2
  <2>2. /\ y \div 16 \in 0 .. 10 /\ y \in 16 * (y \div 16) .. 16 * (y \div 16) + 15
        /\ (y \div 16 < m <=> y < 16 * m)
        /\ \A i \in 0 .. 10 : y \in 16 * i .. 16 * i + 15 => i = y \div 16
    OBVIOUS
  <2> QED
    BY <2>1, <2>2
<1>5. k \in 0 .. 4 /\ \A b \in 0 .. 34 : /\ 35 * k + b \in 35 * k .. 35 * k + 34
                                         /\ (35 * k + b) - 35 * k = b /\ 35 * k + b \in 0 .. 174
  BY DEF Slots
<1>6. \A y \in 35 * k .. 35 * k + 34 : /\ y - 35 * k \in 0 .. 34 /\ 35 * k + (y - 35 * k) = y
                                      /\ y \in 0 .. 174
  BY <1>5
<1>7. \A b : b \in i2c_command(k) <=> \E y \in wires : y \in 35 * k .. 35 * k + 34 /\ b = y - 35 * k
  BY <1>3 DEF Field
<1> QED
  BY <1>4, <1>5, <1>6, <1>7

(* When a slot runs: its last bit, which disables it, is in its last word. *)
LEMMA SlotEnabled ==
  ASSUME NEW m \in Int, m <= 9, HasFirst(m)
  PROVE  /\ \A k \in 0 .. 2 : ~Disabled(k) => 35 * k + 34 < 16 * m
         /\ m = 9 => \A k \in 0 .. 3 : ~Disabled(k)
         /\ Disabled(4)
<1>1. \A k \in Slots : Disabled(k) <=> (35 * k + 34 < 16 * m => 35 * k + 34 \in PreparedBits)
  <2>1. 34 \in 0 .. 34
    OBVIOUS
  <2> QED
    BY <2>1, SlotCommand DEF Disabled
<1>2. \A k : k \in 0 .. 3 <=> k = 0 \/ k = 1 \/ k = 2 \/ k = 3
  OBVIOUS
<1>3. \A k \in 0 .. 3 : k \in Slots /\ 35 * k + 34 \notin PreparedBits /\ 35 * k + 34 < 144
  <2>1. 35 * 0 + 34 = 34 /\ 35 * 1 + 34 = 69 /\ 35 * 2 + 34 = 104 /\ 35 * 3 + 34 = 139
    OBVIOUS
  <2>2. 34 \notin PreparedBits /\ 69 \notin PreparedBits /\ 104 \notin PreparedBits
        /\ 139 \notin PreparedBits
    BY PreparedValue
  <2> QED
    BY <1>2, <2>1, <2>2 DEF Slots
<1>4. 4 \in Slots /\ ~(35 * 4 + 34 < 16 * m)
  BY DEF Slots
<1>5. m = 9 => 16 * m = 144
  OBVIOUS
<1>6. \A k \in 0 .. 2 : k \in 0 .. 3
  OBVIOUS
<1> QED
  BY <1>1, <1>3, <1>4, <1>5, <1>6

(* What a slot for a converter runs when it runs.                          *)
LEMMA SlotsPrepared ==
  ASSUME NEW m \in Int, m <= 9, HasFirst(m), NEW k \in 0 .. 2, ~Disabled(k)
  PROVE  /\ IsRead(Fields(i2c_command(k))) /\ Fields(i2c_command(k)).mode = {0}
         /\ Fields(i2c_command(k)).chip \in Converters
<1> DEFINE c == i2c_command(k)
<1>1. k \in Slots /\ 35 * k + 34 < 16 * m
  BY SlotEnabled DEF Slots
<1>2. \A b : b \in c <=> b \in 0 .. 34 /\ 35 * k + b \in PreparedBits
  <2>1. \A b : b \in c <=> b \in 0 .. 34 /\ (35 * k + b < 16 * m => 35 * k + b \in PreparedBits)
    BY <1>1, SlotCommand
  <2>2. \A b \in 0 .. 34 : 35 * k + b < 16 * m
    BY <1>1
  <2> QED
    BY <2>1, <2>2
<1>3. k = 0 \/ k = 1 \/ k = 2
  OBVIOUS
<1>4. /\ Fields(c).chip = Field(c, 24, 30) /\ Fields(c).read = (31 \in c)
      /\ Fields(c).mode = Field(c, 32, 33)
  BY DEF Fields
<1> HIDE DEF c
<1>5. 31 \in c /\ 32 \in c /\ 33 \notin c
  BY <1>2, <1>3, PreparedValue
<1>6. Field(c, 32, 33) = {0}
  <2>1. c \cap (32 .. 33) = {32}
    BY <1>5
  <2> QED
    BY <2>1 DEF Field
<1>7. {1, 5} \in Converters /\ {3, 5} \in Converters
  BY BitValues DEF Converters
<1>8. ASSUME k = 0 \/ k = 1 PROVE Field(c, 24, 30) \in Converters
  <2>1. \A b : b \in c \cap (24 .. 30) <=> b \in {27, 29}
    BY <1>2, <1>8, PreparedValue
  <2>2. c \cap (24 .. 30) = {27, 29}
    BY <2>1
  <2>3. Field(c, 24, 30) = {3, 5}
    <3>1. Field(c, 24, 30) = {b - 24 : b \in {27, 29}}
      BY <2>2 DEF Field
    <3>2. 27 - 24 = 3 /\ 29 - 24 = 5
      OBVIOUS
    <3>3. \A x : x \in Field(c, 24, 30) <=> x \in {3, 5}
      BY <3>1, <3>2
    <3> QED
      BY <3>3
  <2> QED
    BY <1>7, <2>3
<1>9. ASSUME k = 2 PROVE Field(c, 24, 30) \in Converters
  <2>1. \A b : b \in c \cap (24 .. 30) <=> b \in {25, 29}
    BY <1>2, <1>9, PreparedValue
  <2>2. c \cap (24 .. 30) = {25, 29}
    BY <2>1
  <2>3. Field(c, 24, 30) = {1, 5}
    <3>1. Field(c, 24, 30) = {b - 24 : b \in {25, 29}}
      BY <2>2 DEF Field
    <3>2. 25 - 24 = 1 /\ 29 - 24 = 5
      OBVIOUS
    <3>3. \A x : x \in Field(c, 24, 30) <=> x \in {1, 5}
      BY <3>1, <3>2
    <3> QED
      BY <3>3
  <2> QED
    BY <1>7, <2>3
<1>10. Fields(c).read
  BY <1>5, <1>4
<1>11. IsRead(Fields(c)) /\ Fields(c).mode = {0}
  BY <1>4, <1>5, <1>6, <1>10 DEF IsRead
<1>12. Fields(c).chip \in Converters
  BY <1>3, <1>4, <1>8, <1>9
<1> QED
  BY <1>11, <1>12 DEF c
-----------------------------------------------------------------------------
(* The slots.  A script that ends with the preparation has told each       *)
(* converter to read its result, and from the first word of the            *)
(* preparation on the registers of the slots hold its first words.         *)

Sent     == IF waiting THEN at ELSE at - 1
Executed == Sent - Len(link)

(* What is on its way is the last part of what the script has sent, and    *)
(* the registers hold what was written by the part before.                 *)
LinkIsScript ==
  /\ Executed \in Nat /\ Sent \in 0 .. Len(script)
  /\ \A i \in Places : link[i].cmd = script[Executed + i]
RegistersHold ==
  \A r \in Registers :
    /\ (\A j \in 1 .. Executed : ~Writes(script[j], r)) => config_reg[r] = 0 .. 15
    /\ \A j \in 1 .. Executed :
         Writes(script[j], r) /\ (\A i \in (j + 1) .. Executed : ~Writes(script[i], r))
           => config_reg[r] = script[j].word

(* The last pulse before the preparation that is for a converter.          *)
Selects(k, chip) ==
  /\ script[k].op = "pulse" /\ IsFor(script, k, chip) /\ SelectsResult(script, k)
  /\ \A i \in (k + 1) .. (Len(script) - 9) : script[i].op = "pulse" =>
       \E other \in Chips \ {chip} : IsFor(script, i, other)
BelievesResult ==
  Preparing(script) => \A chip \in Converters : \A k \in 1 .. (Len(script) - 9) :
    Selects(k, chip) /\ k < at => believed[chip] = {}
PointsToResult ==
  Preparing(script) /\ at > Len(script) - 8 =>
    ~Outstanding /\ \A chip \in Converters : pointer[chip] = {}

SlotInv == LinkIsScript /\ RegistersHold /\ BelievesResult /\ PointsToResult

LEMMA ConverterChips == \A chip \in Converters : chip \in Chips /\ chip # {}
<1>1. \A chip \in Converters : chip \in Chips
  BY DEF Converters, Chips
<1>2. Converters = {{1, 5}, {3, 5}}
  BY BitValues DEF Converters
<1> QED
  BY <1>1, <1>2

(* The text of a script that ends with the preparation.                    *)
LEMMA PreparingText ==
  ASSUME Types, Preparing(script)
  PROVE  /\ Len(script) \in Nat /\ Len(script) > 8 /\ DOMAIN script = 1 .. Len(script)
         /\ \A i \in 0 .. 8 : LET c == script[(Len(script) - 8) + i]
                              IN  /\ c.op = "write" /\ c.reg = 7 + i
                                  /\ c.word = Field(PreparedBits, 16 * i, 16 * i + 15)
         /\ \A i \in 1 .. (Len(script) - 9) : script[i].op = "write" => script[i].reg < 7
         /\ \A chip \in Converters : \E k \in 1 .. (Len(script) - 9) : Selects(k, chip)
<1> DEFINE n == Len(script)
<1>1. script \in Scripts /\ script \in Seq(Commands) /\ n \in Nat /\ DOMAIN script = 1 .. n /\ n > 8
  BY LenProperties DEF Types, Preparing
<1>2. SubSeq(script, n - 8, n) = i2c_prep_cont_read
  BY DEF Preparing
<1>3. ASSUME NEW i \in 0 .. 8
      PROVE  script[(n - 8) + i] = Write(7 + i, Field(PreparedBits, 16 * i, 16 * i + 15))
  <2>1. i + 1 \in 1 .. 9 /\ 6 + (i + 1) = 7 + i /\ 16 * ((i + 1) - 1) = 16 * i
        /\ 16 * (i + 1) - 1 = 16 * i + 15
    OBVIOUS
  <2>2. i2c_prep_cont_read[i + 1] = Write(7 + i, Field(PreparedBits, 16 * i, 16 * i + 15))
    BY <2>1 DEF i2c_prep_cont_read
  <2>3. n - 8 \in 1 .. n + 1 /\ n \in (n - 8) - 1 .. n /\ (n - 8) + (i + 1) - 1 = (n - 8) + i
        /\ i + 1 \in 1 .. (n - (n - 8)) + 1
    BY <1>1
  <2>4. SubSeq(script, n - 8, n)[i + 1] = script[(n - 8) + i]
    BY <1>1, <2>3, SubSeqProperties
  <2> QED
    BY <1>2, <2>2, <2>4
<1>4. \A i \in 0 .. 8 : LET c == script[(n - 8) + i]
                        IN  /\ c.op = "write" /\ c.reg = 7 + i
                            /\ c.word = Field(PreparedBits, 16 * i, 16 * i + 15)
  <2> SUFFICES ASSUME NEW i \in 0 .. 8
               PROVE  LET c == script[(n - 8) + i]
                      IN  /\ c.op = "write" /\ c.reg = 7 + i
                          /\ c.word = Field(PreparedBits, 16 * i, 16 * i + 15)
    OBVIOUS
  <2> DEFINE w == Field(PreparedBits, 16 * i, 16 * i + 15)
  <2>1. script[(n - 8) + i] = Write(7 + i, w)
    BY <1>3
  <2> HIDE DEF w, n
  <2>2. LET c == script[(n - 8) + i] IN c.op = "write" /\ c.reg = 7 + i /\ c.word = w
    BY <2>1 DEF Write
  <2> QED
    BY <2>2 DEF w
<1> HIDE DEF n
<1>5. /\ \A i \in 1 .. (n - 9) : script[i].op = "write" => script[i].reg < 7
      /\ \A chip \in Converters : \E k \in 1 .. (n - 9) : Selects(k, chip)
  BY <1>1, PreparationAssumption DEF Selects, n
<1> QED
  BY <1>1, <1>4, <1>5 DEF n

(* From a given place on the text is the preparation.                      *)
LEMMA PreparingStep ==
  ASSUME Types, Preparing(script), NEW j \in DOMAIN script, j >= Len(script) - 8
  PROVE  script[j].op = "write" /\ j - (Len(script) - 8) \in 0 .. 8
         /\ script[j].reg = 7 + (j - (Len(script) - 8))
<1>1. Len(script) \in Nat /\ DOMAIN script = 1 .. Len(script) /\ Len(script) > 8
  BY PreparingText
<1>2. j - (Len(script) - 8) \in 0 .. 8 /\ (Len(script) - 8) + (j - (Len(script) - 8)) = j
  BY <1>1
<1> QED
  BY <1>2, PreparingText

(* What the registers of the slots hold.                                   *)
LEMMA FirstWords ==
  ASSUME Types, Preparing(script), LinkIsScript, RegistersHold
  PROVE  /\ HasFirst(Executed - (Len(script) - 9)) /\ Executed - (Len(script) - 9) \in Int
         /\ Executed - (Len(script) - 9) <= 9 /\ Executed <= Sent
<1> DEFINE n == Len(script)
<1>1. /\ n \in Nat /\ n > 8 /\ Executed \in Nat /\ Executed <= n /\ DOMAIN script = 1 .. n
      /\ Executed <= Sent
  <2>1. Len(link) \in Nat
    BY LenProperties DEF Types
  <2>2. Sent \in 0 .. n /\ Executed \in Nat /\ Executed = Sent - Len(link)
    BY DEF LinkIsScript, Executed
  <2>3. n \in Nat /\ n > 8 /\ DOMAIN script = 1 .. n
    BY PreparingText
  <2> QED
    BY <2>1, <2>2, <2>3
<1>2. ASSUME NEW r \in 7 .. 17, NEW j \in 1 .. n
      PROVE  Writes(script[j], r) => j = (n - 8) + (r - 7) /\ r < 16
  <2>1. CASE j <= n - 9
    <3>1. j \in 1 .. (n - 9)
      BY <1>1, <2>1
    <3>2. script[j].op = "write" => script[j].reg < 7
      BY <3>1, PreparingText
    <3> QED
      BY <3>2 DEF Writes
  <2>2. CASE j >= n - 8
    <3>1. script[j].reg = 7 + (j - (n - 8)) /\ j - (n - 8) \in 0 .. 8
      BY <1>1, <2>2, PreparingStep
    <3>2. \A a, x, y \in Int : x - a \in 0 .. 8 /\ 7 + (x - a) = y => x = a + (y - 7) /\ y < 16
      OBVIOUS
    <3>3. n - 8 \in Int /\ j \in Int /\ r \in Int
      BY <1>1
    <3>4. 7 + (j - (n - 8)) = r => j = (n - 8) + (r - 7) /\ r < 16
      BY <3>1, <3>2, <3>3
    <3> QED
      BY <3>1, <3>4 DEF Writes
  <2> QED
    BY <1>1, <2>1, <2>2
<1>3. \A r \in 7 .. 17 : r \in Registers
  BY DEF Registers
<1>4. \A j \in 1 .. Executed : j \in 1 .. n
  BY <1>1
<1>5. ASSUME NEW i \in 0 .. 8
      PROVE  config_reg[7 + i] = IF i < Executed - (n - 9)
                                   THEN Field(PreparedBits, 16 * i, 16 * i + 15) ELSE 0 .. 15
  <2> DEFINE p == (n - 8) + i
  <2>1. 7 + i \in 7 .. 17 /\ (n - 8) + ((7 + i) - 7) = p /\ p \in 1 .. n
        /\ (i < Executed - (n - 9) <=> p <= Executed)
    BY <1>1
  <2>2. /\ script[p].op = "write" /\ script[p].reg = 7 + i
        /\ script[p].word = Field(PreparedBits, 16 * i, 16 * i + 15)
    BY PreparingText
  <2> HIDE DEF p
  <2>3. \A j \in 1 .. n : Writes(script[j], 7 + i) => j = p
    BY <1>2, <2>1
  <2>4. CASE p <= Executed
    <3>1. p \in 1 .. Executed /\ \A j \in (p + 1) .. Executed : j \in 1 .. n /\ j # p
      BY <1>1, <2>1, <2>4
    <3>2. Writes(script[p], 7 + i) /\ \A j \in (p + 1) .. Executed : ~Writes(script[j], 7 + i)
      BY <2>2, <2>3, <3>1 DEF Writes
    <3>3. config_reg[7 + i] = script[p].word
      BY <1>3, <2>1, <3>1, <3>2 DEF RegistersHold
    <3> QED
      BY <2>1, <2>2, <2>4, <3>3
  <2>5. CASE ~(p <= Executed)
    <3>1. \A j \in 1 .. Executed : j \in 1 .. n /\ j # p
      BY <1>1, <2>1, <2>5
    <3>2. \A j \in 1 .. Executed : ~Writes(script[j], 7 + i)
      BY <2>3, <3>1
    <3>3. config_reg[7 + i] = 0 .. 15
      BY <1>3, <2>1, <3>2 DEF RegistersHold
    <3> QED
      BY <2>1, <2>5, <3>3
  <2> QED
    BY <2>4, <2>5
<1>6. \A r \in 16 .. 17 : config_reg[r] = 0 .. 15
  <2> SUFFICES ASSUME NEW r \in 16 .. 17 PROVE config_reg[r] = 0 .. 15
    OBVIOUS
  <2>1. r \in 7 .. 17 /\ ~(r < 16)
    OBVIOUS
  <2>2. \A j \in 1 .. Executed : ~Writes(script[j], r)
    BY <1>2, <1>4, <2>1
  <2> QED
    BY <1>3, <2>1, <2>2 DEF RegistersHold
<1>7. config_reg[16] = 0 .. 15 /\ config_reg[17] = 0 .. 15
  BY <1>6
<1>8. Executed - (n - 9) \in Int /\ Executed - (n - 9) <= 9
  BY <1>1
<1> QED
  BY <1>1, <1>5, <1>7, <1>8 DEF HasFirst, n
-----------------------------------------------------------------------------
(* How the steps keep what is said of the slots.                           *)

(* The script sends the next command of its text.                          *)
LEMMA SentCommand ==
  ASSUME IInv, SlotInv, Ready, Send(script[at]), at' = IF waiting' THEN at ELSE at + 1,
         UNCHANGED <<script, config_reg>>
  PROVE  LinkIsScript' /\ RegistersHold' /\ Executed' = Executed
<1>1. Types /\ LinkTyped /\ ~waiting /\ at \in DOMAIN script
  BY DEF IInv, Types, LinkTyped, Ready
<1>2. script[at] \in Commands /\ at \in Nat /\ at <= Len(script) /\ Len(script) \in Nat
  BY <1>1, ScriptStep
<1>3. /\ Len(link) \in Nat /\ Len(link') = Len(link) + 1 /\ link'[Len(link) + 1].cmd = script[at]
      /\ \A i \in 1 .. Len(link) : link'[i] = link[i]
  BY <1>1, <1>2, Sending
<1>4. Sent = at - 1 /\ Sent' = at /\ Executed \in Nat /\ Executed = Sent - Len(link)
  BY <1>1, <1>2 DEF Sent, SlotInv, LinkIsScript, Executed
<1>5. Executed' = Executed /\ Executed + (Len(link) + 1) = at
  BY <1>2, <1>3, <1>4 DEF Executed
<1>6. LinkIsScript'
  <2>1. \A i \in 1 .. (Len(link) + 1) : i \in 1 .. Len(link) \/ i = Len(link) + 1
    BY <1>3
  <2>2. \A i \in 1 .. (Len(link) + 1) : link'[i].cmd = script[Executed + i]
    BY <1>3, <1>5, <2>1 DEF SlotInv, LinkIsScript, Places
  <2>3. at \in 0 .. Len(script)
    BY <1>2
  <2> QED
    BY <1>3, <1>4, <1>5, <2>2, <2>3 DEF LinkIsScript, Places
<1>7. RegistersHold'
  BY <1>5 DEF SlotInv, RegistersHold
<1> QED
  BY <1>5, <1>6, <1>7

(* The control interface executes the first command on its way.            *)
LEMMA TakenCommand ==
  ASSUME IInv, SlotInv, link # <<>>,
         LinkTyped', Len(link') = Len(link) - 1,
         \A i \in 1 .. (Len(link) - 1) : link'[i].cmd = link[i + 1].cmd,
         config_reg' = IF Take.op = "write" THEN [config_reg EXCEPT ![Take.reg] = Take.word]
                                            ELSE config_reg,
         UNCHANGED <<script, at, waiting>>
  PROVE  LinkIsScript' /\ RegistersHold'
<1> DEFINE n == Len(link)
           e == Executed
           c == script[e + 1]
<1>1. /\ Types /\ n \in Nat /\ n >= 1 /\ Take = link[1].cmd /\ Take \in Commands
  <2>1. link \in Seq(Entries)
    BY DEF IInv, Types
  <2>2. Len(link) \in Nat /\ Len(link) >= 1 /\ Take = link[1].cmd
    BY <2>1, EmptySeq DEF Take
  <2>3. link[1] \in Entries
    BY <2>1, <2>2, ElementOfSeq
  <2> QED
    BY <2>2, <2>3 DEF IInv, Entries
<1>2. Sent' = Sent /\ e \in Nat /\ e = Sent - n /\ Sent \in 0 .. Len(script)
  BY DEF Sent, SlotInv, LinkIsScript, Executed
<1>3. Executed' = e + 1
  <2>1. Executed' = Sent' - Len(link')
    BY DEF Executed
  <2>2. \A s, l \in Int : s - (l - 1) = (s - l) + 1
    OBVIOUS
  <2>3. Sent \in Int /\ n \in Int
    BY <1>1, <1>2
  <2> QED
    BY <1>2, <2>1, <2>2, <2>3
<1>4. Take = c
  <2>1. 1 \in Places
    BY <1>1 DEF Places
  <2> QED
    BY <1>1, <2>1 DEF SlotInv, LinkIsScript
<1>5. LinkIsScript'
  <2>1. \A i \in 1 .. (n - 1) : i + 1 \in 1 .. n /\ (e + 1) + i = e + (i + 1)
    BY <1>1, <1>2
  <2>2. \A i \in 1 .. (n - 1) : link'[i].cmd = script[(e + 1) + i]
    BY <2>1 DEF SlotInv, LinkIsScript, Places
  <2>3. e + 1 \in Nat
    BY <1>2
  <2> QED
    BY <1>2, <1>3, <2>2, <2>3 DEF LinkIsScript, Places
<1> HIDE DEF n, e, c
<1>6. \A j \in 1 .. (e + 1) : j \in 1 .. e \/ j = e + 1
  BY <1>2
<1>7. \A j \in 1 .. e : j \in 1 .. (e + 1) /\ e + 1 \in (j + 1) .. (e + 1)
                        /\ \A i \in (j + 1) .. e : i \in (j + 1) .. (e + 1)
  BY <1>2
<1>8. e + 1 \in 1 .. (e + 1)
  BY <1>2
<1>9. RegistersHold'
  <2> SUFFICES ASSUME NEW r \in Registers
               PROVE  /\ (\A j \in 1 .. (e + 1) : ~Writes(script[j], r)) => config_reg'[r] = 0 .. 15
                      /\ \A j \in 1 .. (e + 1) :
                           Writes(script[j], r) /\ (\A i \in (j + 1) .. (e + 1) : ~Writes(script[i], r))
                             => config_reg'[r] = script[j].word
    BY <1>3 DEF RegistersHold
  <2>1. CASE Writes(c, r)
    <3>1. Writes(script[e + 1], r)
      BY <2>1 DEF c
    <3>2. config_reg'[r] = c.word
      BY <1>1, <1>4, <2>1 DEF Types, Writes
    <3>3. \A j \in 1 .. e : \E i \in (j + 1) .. (e + 1) : Writes(script[i], r)
      BY <1>7, <3>1
    <3>4. ~\A j \in 1 .. (e + 1) : ~Writes(script[j], r)
      BY <1>8, <3>1
    <3> QED
      BY <1>6, <3>2, <3>3, <3>4 DEF c
  <2>2. CASE ~Writes(c, r)
    <3>1. ~Writes(script[e + 1], r)
      BY <2>2 DEF c
    <3>2. config_reg'[r] = config_reg[r]
      BY <1>1, <1>4, <2>2 DEF Types, Writes, IInv
    <3>3. /\ (\A j \in 1 .. e : ~Writes(script[j], r)) => config_reg[r] = 0 .. 15
          /\ \A j \in 1 .. e :
               Writes(script[j], r) /\ (\A i \in (j + 1) .. e : ~Writes(script[i], r))
                 => config_reg[r] = script[j].word
      BY DEF SlotInv, RegistersHold, e
    <3>4. ASSUME \A j \in 1 .. (e + 1) : ~Writes(script[j], r) PROVE config_reg'[r] = 0 .. 15
      BY <1>7, <3>2, <3>3, <3>4
    <3>5. ASSUME NEW j \in 1 .. (e + 1), Writes(script[j], r),
                 \A i \in (j + 1) .. (e + 1) : ~Writes(script[i], r)
          PROVE  config_reg'[r] = script[j].word
      <4>1. j \in 1 .. e
        BY <1>6, <3>1, <3>5
      <4>2. \A i \in (j + 1) .. e : ~Writes(script[i], r)
        BY <1>7, <3>5, <4>1
      <4> QED
        BY <3>2, <3>3, <3>5, <4>1, <4>2
    <3> QED
      BY <3>4, <3>5
  <2> QED
    BY <2>1, <2>2
<1> QED
  BY <1>5, <1>9

(* Nothing is sent and nothing is executed.                                *)
LEMMA LinkKept ==
  ASSUME LinkIsScript, RegistersHold, Len(link') = Len(link),
         \A i \in 1 .. Len(link) : link'[i].cmd = link[i].cmd,
         Sent' = Sent, UNCHANGED <<script, config_reg>>
  PROVE  LinkIsScript' /\ RegistersHold'
<1>1. Executed' = Executed /\ Places' = Places
  BY DEF Executed, Places
<1>2. LinkIsScript'
  BY <1>1 DEF LinkIsScript, Places
<1>3. RegistersHold'
  BY <1>1 DEF RegistersHold
<1> QED
  BY <1>2, <1>3

(* What the registers of a pulse hold when the script gives it.            *)
LEMMA PulseOrders ==
  ASSUME IInv, at \in DOMAIN script
  PROVE  /\ \A chip : IsFor(script, at, chip) => Ordered.chip = chip
         /\ SelectsResult(script, at) => IsWrite(Ordered) /\ Ordered.reg = {}
<1>1. \A r, j : SetBy(script, at, r, j) => ordered[r] = script[j].word
  BY DEF SetBy, IInv, LastWritten, Writes
<1>2. ordered[0] \in Words /\ ordered[1] \in Words /\ ordered[2] \in Words
  BY DEF IInv, Types, Registers
<1>3. /\ Ordered.read <=> 2 \in ordered[0]
      /\ 1 \notin ordered[0] => Ordered.mode \in {{}, {0}}
      /\ Ordered.chip = Field(ordered[0], 8, 14)
      /\ Field(ordered[1], 0, 7) = {} => Ordered.reg = {}
  BY <1>2, PulseFields DEF Ordered
<1>4. \A chip : IsFor(script, at, chip) => Ordered.chip = chip
  BY <1>1, <1>3 DEF IsFor
<1>5. ASSUME SelectsResult(script, at) PROVE IsWrite(Ordered) /\ Ordered.reg = {}
  <2>1. {1, 2} \cap ordered[0] = {} /\ Field(ordered[1], 0, 7) = {}
    BY <1>1, <1>5 DEF SelectsResult
  <2> QED
    BY <1>3, <2>1 DEF IsWrite
<1> QED
  BY <1>4, <1>5

LEMMA BelievesKept ==
  ASSUME BelievesResult, UNCHANGED <<script, believed>>, at \in Nat,
         at' = at \/ (at' = at + 1 /\ script[at].op # "pulse")
  PROVE  BelievesResult'
<1>1. Preparing(script)' = Preparing(script) /\ \A k, chip : Selects(k, chip)' = Selects(k, chip)
  BY DEF Selects
<1> SUFFICES ASSUME Preparing(script), NEW chip \in Converters, NEW k \in 1 .. (Len(script) - 9),
                    Selects(k, chip), k < at'
             PROVE  believed[chip] = {}
  BY <1>1 DEF BelievesResult
<1>2. k < at
  BY DEF Selects
<1> QED
  BY <1>2 DEF BelievesResult

LEMMA PointsKept ==
  ASSUME PointsToResult, UNCHANGED script, at' = at, Outstanding' => Outstanding,
         Preparing(script) /\ at > Len(script) - 8 =>
           \A chip \in Converters : pointer'[chip] = pointer[chip]
  PROVE  PointsToResult'
  BY DEF PointsToResult

(* While the preparation is sent the script does nothing but write.        *)
LEMMA OnlyWrites ==
  ASSUME IInv, Preparing(script), at \in DOMAIN script, script[at].op # "write"
  PROVE  at <= Len(script) - 9
<1>1. Types /\ Len(script) \in Nat /\ at \in Nat
  BY PreparingText DEF IInv, Types
<1>2. ~(at >= Len(script) - 8)
  BY <1>1, PreparingStep
<1> QED
  BY <1>1, <1>2

LEMMA SendWriteSlots ==
  ASSUME IInv, SlotInv, SendWrite
  PROVE  SlotInv'
<1>1. /\ Ready /\ script[at].op = "write" /\ Send(script[at]) /\ at' = at + 1
      /\ UNCHANGED <<script, waiting, believed, config_reg, signA, pointer>>
  BY DEF SendWrite, ticVars, busVars, runVars
<1>2. /\ ~waiting /\ at \in DOMAIN script /\ ~Outstanding /\ ~InFlight /\ ~signA
      /\ \A i \in Places : link[i].cmd.op # "pulse" /\ link[i].cmd.op # "status"
  BY <1>1, ReadyFacts
<1>3. Types /\ LinkTyped /\ at \in Nat /\ script[at] \in Commands /\ at <= Len(script)
  BY <1>2, ScriptStep DEF IInv, Types, LinkTyped
<1>4. LinkIsScript' /\ RegistersHold'
  BY <1>1, <1>2, SentCommand
<1>5. BelievesResult'
  BY <1>1, <1>3, BelievesKept DEF SlotInv
<1>6. ~Outstanding'
  <2>1. /\ Len(link) \in Nat /\ Len(link') = Len(link) + 1 /\ link'[Len(link) + 1].cmd = script[at]
        /\ \A i \in 1 .. Len(link) : link'[i] = link[i]
    BY <1>1, <1>3, Sending
  <2>2. \A i \in 1 .. (Len(link) + 1) : i \in 1 .. Len(link) \/ i = Len(link) + 1
    BY <2>1
  <2> QED
    BY <1>1, <1>2, <2>1, <2>2 DEF Outstanding, InFlight, Places
<1>7. PointsToResult'
  <2> SUFFICES ASSUME Preparing(script), at + 1 > Len(script) - 8, NEW chip \in Converters
               PROVE  pointer[chip] = {}
    BY <1>1, <1>6 DEF PointsToResult
  <2>1. Len(script) \in Nat /\ Len(script) > 8
    BY <1>3, PreparingText
  <2>2. CASE at > Len(script) - 8
    BY <2>2 DEF SlotInv, PointsToResult
  <2>3. CASE at = Len(script) - 8
    <3>1. PICK k \in 1 .. (Len(script) - 9) : Selects(k, chip)
      BY <1>3, PreparingText
    <3>2. believed[chip] = {}
      BY <2>1, <2>3, <3>1 DEF SlotInv, BelievesResult
    <3>3. believed[chip] = pointer[chip]
      BY <1>2, ConverterChips DEF IInv, PointersFollow
    <3> QED
      BY <3>2, <3>3
  <2> QED
    BY <1>3, <2>1, <2>2, <2>3
<1> QED
  BY <1>4, <1>5, <1>7 DEF SlotInv

LEMMA SendPulseSlots ==
  ASSUME IInv, SlotInv, SendPulse
  PROVE  SlotInv'
<1>1. /\ Ready /\ script[at].op = "pulse" /\ Send(script[at]) /\ at' = at + 1
      /\ believed' = IF IsWrite(Ordered) /\ Ordered.chip \in Chips
                       THEN [believed EXCEPT ![Ordered.chip] = Ordered.reg] ELSE believed
      /\ UNCHANGED <<script, waiting, config_reg>>
  BY DEF SendPulse
<1>2. ~waiting /\ at \in DOMAIN script
  BY <1>1, ReadyFacts
<1>3. Types /\ at \in Nat /\ at <= Len(script)
  BY <1>2, ScriptStep DEF IInv
<1>4. LinkIsScript' /\ RegistersHold'
  BY <1>1, <1>2, SentCommand
<1>5. Preparing(script) => at <= Len(script) - 9 /\ Len(script) \in Nat
  BY <1>1, <1>2, <1>3, OnlyWrites, PreparingText
<1>6. PointsToResult'
  BY <1>1, <1>3, <1>5 DEF PointsToResult
<1>7. BelievesResult'
  <2>1. Preparing(script)' = Preparing(script) /\ \A k, chip : Selects(k, chip)' = Selects(k, chip)
    BY <1>1 DEF Selects
  <2> SUFFICES ASSUME Preparing(script), NEW chip \in Converters, NEW k \in 1 .. (Len(script) - 9),
                      Selects(k, chip), k < at + 1
               PROVE  believed'[chip] = {}
    BY <1>1, <2>1 DEF BelievesResult
  <2>2. chip \in Chips /\ believed \in [Chips -> SUBSET Int]
    BY <1>3, ConverterChips DEF Types
  <2>3. CASE k = at
    <3>1. Ordered.chip = chip /\ IsWrite(Ordered) /\ Ordered.reg = {}
      BY <1>2, <2>3, PulseOrders DEF Selects
    <3> QED
      BY <1>1, <2>2, <3>1
  <2>4. CASE k < at
    <3>1. at \in (k + 1) .. (Len(script) - 9)
      BY <1>3, <1>5, <2>4
    <3>2. PICK other \in Chips \ {chip} : IsFor(script, at, other)
      BY <1>1, <3>1 DEF Selects
    <3>3. Ordered.chip # chip
      BY <1>2, <3>2, PulseOrders
    <3>4. believed[chip] = {}
      BY <2>4 DEF SlotInv, BelievesResult
    <3> QED
      BY <1>1, <2>2, <3>3, <3>4
  <2> QED
    BY <1>3, <2>3, <2>4
<1> QED
  BY <1>4, <1>6, <1>7 DEF SlotInv

LEMMA SendStatusSlots ==
  ASSUME IInv, SlotInv, SendStatus
  PROVE  SlotInv'
<1>1. /\ Ready /\ script[at].op = "status" /\ Send(script[at]) /\ at' = at /\ waiting' = TRUE
      /\ UNCHANGED <<script, believed, config_reg, pointer>>
  BY DEF SendStatus, busVars
<1>2. at \in DOMAIN script /\ at \in Nat
  BY <1>1, ReadyFacts DEF IInv, Types
<1>3. LinkIsScript' /\ RegistersHold'
  BY <1>1, SentCommand
<1>4. BelievesResult'
  BY <1>1, <1>2, BelievesKept DEF SlotInv
<1>5. Preparing(script) => at <= Len(script) - 9 /\ Len(script) \in Nat
  BY <1>1, <1>2, OnlyWrites, PreparingText DEF IInv
<1>6. PointsToResult'
  BY <1>1, <1>2, <1>5 DEF PointsToResult
<1> QED
  BY <1>3, <1>4, <1>6 DEF SlotInv

LEMMA ReceiveSlots ==
  ASSUME IInv, SlotInv, Receive
  PROVE  SlotInv'
<1>1. /\ waiting /\ waiting' = FALSE /\ at' = at + 1
      /\ UNCHANGED <<script, believed, link, config_reg>>
  BY DEF Receive
<1>2. at \in DOMAIN script /\ script[at].op = "status" /\ at \in Nat
  BY <1>1 DEF IInv, WaitsForIt, Asked, Types
<1>3. Sent' = Sent
  BY <1>1, <1>2 DEF Sent
<1>4. LinkIsScript' /\ RegistersHold'
  BY <1>1, <1>3, LinkKept DEF SlotInv
<1>5. BelievesResult'
  BY <1>1, <1>2, BelievesKept DEF SlotInv
<1>6. Preparing(script) => at <= Len(script) - 9 /\ Len(script) \in Nat
  BY <1>2, OnlyWrites, PreparingText DEF IInv
<1>7. PointsToResult'
  BY <1>1, <1>2, <1>6 DEF PointsToResult
<1> QED
  BY <1>4, <1>5, <1>7 DEF SlotInv

(* A pulse that is on its way is none of a script that prepares.           *)
LEMMA NoPulse ==
  ASSUME IInv, PointsToResult, link # <<>>, Take.op = "pulse"
  PROVE  ~(Preparing(script) /\ at > Len(script) - 8)
<1>1. Places = {1} /\ link[1].cmd = Take
  BY TakeLast
<1> QED
  BY <1>1 DEF PointsToResult, Outstanding, InFlight

LEMMA TakeWriteSlots ==
  ASSUME IInv, SlotInv, TakeWrite
  PROVE  SlotInv'
<1>1. /\ link # <<>> /\ Take.op = "write" /\ link' = Tail(link)
      /\ config_reg' = [config_reg EXCEPT ![Take.reg] = Take.word]
      /\ UNCHANGED <<script, at, waiting, believed, signA, pointer>>
  BY DEF TakeWrite, scriptVars, ticVars, busVars, runVars
<1>2. LinkTyped /\ at \in Nat
  BY DEF IInv, Types, LinkTyped
<1>3. /\ LinkTyped' /\ Len(link) \in Nat /\ Len(link) >= 1 /\ Len(link') = Len(link) - 1
      /\ \A i \in 1 .. (Len(link) - 1) : link'[i] = link[i + 1]
  BY <1>1, <1>2, Taking
<1>4. LinkIsScript' /\ RegistersHold'
  BY <1>1, <1>3, TakenCommand
<1>5. BelievesResult'
  BY <1>1, <1>2, BelievesKept DEF SlotInv
<1>6. Outstanding' => Outstanding
  <2>1. \A i \in 1 .. (Len(link) - 1) : i + 1 \in 1 .. Len(link)
    BY <1>3
  <2> QED
    BY <1>1, <1>3, <2>1 DEF Outstanding, InFlight, Places
<1>7. PointsToResult'
  BY <1>1, <1>6, PointsKept DEF SlotInv
<1> QED
  BY <1>4, <1>5, <1>7 DEF SlotInv

LEMMA TakeStatusSlots ==
  ASSUME IInv, SlotInv, TakeStatus
  PROVE  SlotInv'
<1>1. /\ link # <<>> /\ Take.op = "status" /\ link' = Tail(link)
      /\ UNCHANGED <<script, at, waiting, believed, config_reg, signA, pointer>>
  BY DEF TakeStatus, scriptVars, ticVars, busVars
<1>2. Len(link) = 1 /\ link' = <<>> /\ ~signA /\ at \in Nat
  BY <1>1, TakeLast DEF IInv, Types
<1>3. LinkTyped' /\ Len(link') = 0 /\ Len(link') = Len(link) - 1
  BY <1>2, EmptySeq DEF LinkTyped
<1>4. \A i \in 1 .. (Len(link) - 1) : FALSE
  BY <1>2
<1>5. LinkIsScript' /\ RegistersHold'
  BY <1>1, <1>3, <1>4, TakenCommand
<1>6. BelievesResult'
  BY <1>1, <1>2, BelievesKept DEF SlotInv
<1>7. ~Outstanding'
  BY <1>1, <1>2, <1>3 DEF Outstanding, InFlight, Places
<1>8. PointsToResult'
  BY <1>1, <1>7, PointsKept DEF SlotInv
<1> QED
  BY <1>5, <1>6, <1>8 DEF SlotInv

LEMMA TakePulseSlots ==
  ASSUME IInv, SlotInv, TakePulse
  PROVE  SlotInv'
<1>1. /\ link # <<>> /\ Take.op = "pulse" /\ link' = Tail(link)
      /\ UNCHANGED <<script, at, waiting, believed, config_reg, pointer>>
  BY DEF TakePulse, scriptVars, busVars
<1>2. Len(link) = 1 /\ link' = <<>> /\ at \in Nat
  BY <1>1, TakeLast DEF IInv, Types
<1>3. LinkTyped' /\ Len(link') = 0 /\ Len(link') = Len(link) - 1
  BY <1>2, EmptySeq DEF LinkTyped
<1>4. \A i \in 1 .. (Len(link) - 1) : FALSE
  BY <1>2
<1>5. LinkIsScript' /\ RegistersHold'
  BY <1>1, <1>3, <1>4, TakenCommand
<1>6. BelievesResult'
  BY <1>1, <1>2, BelievesKept DEF SlotInv
<1>7. PointsToResult'
  BY <1>1, NoPulse DEF SlotInv, PointsToResult
<1> QED
  BY <1>5, <1>6, <1>7 DEF SlotInv

(* What a tick runs while the preparation is on its way.                   *)
LEMMA RunKeepsPointers ==
  ASSUME IInv, SlotInv, Run(0), Preparing(script), at > Len(script) - 8, NEW chip \in Converters
  PROVE  pointer'[chip] = pointer[chip]
<1>1. ~Seen(0)
  BY DEF SlotInv, PointsToResult, Outstanding, Seen
<1> QED
  BY <1>1, RunSlot DEF PulseEdges

LEMMA TickSlots ==
  ASSUME IInv, SlotInv, Tick(0)
  PROVE  SlotInv'
<1>1. /\ Run(0) /\ signA' = (0 > 0 \/ (signA /\ sTicCnt # 10))
      /\ link' = [i \in DOMAIN link |-> [cmd |-> link[i].cmd, age |-> link[i].age + 1]]
      /\ UNCHANGED <<script, at, waiting, believed, config_reg>>
  <2>1. ~(0 > 0)
    OBVIOUS
  <2> QED
    BY <2>1 DEF Tick, Pending
<1>2. link \in Seq(Entries) /\ at \in Nat
  BY DEF IInv, Types
<1>3. /\ Len(link') = Len(link) /\ \A i \in 1 .. Len(link) : link'[i].cmd = link[i].cmd
  BY <1>1, <1>2, Ageing
<1>4. Sent' = Sent
  BY <1>1 DEF Sent
<1>5. LinkIsScript' /\ RegistersHold'
  BY <1>1, <1>3, <1>4, LinkKept DEF SlotInv
<1>6. BelievesResult'
  BY <1>1, <1>2, BelievesKept DEF SlotInv
<1>7. Outstanding' => Outstanding
  <2>3. ~(0 > 0)
    OBVIOUS
  <2>1. signA' => signA
    BY <1>1, <2>3, ZenonT(20)
  <2>2. InFlight' => InFlight
    BY <1>3 DEF InFlight, Places
  <2> QED
    BY <2>1, <2>2 DEF Outstanding
<1>8. PointsToResult'
  BY <1>1, <1>7, PointsKept, RunKeepsPointers DEF SlotInv
<1> QED
  BY <1>5, <1>6, <1>8 DEF SlotInv

LEMMA TickPulseSlots ==
  ASSUME IInv, SlotInv, NEW n \in 1 .. PulseEdges, Tick(n)
  PROVE  SlotInv'
<1>1. /\ link # <<>> /\ Take.op = "pulse"
      /\ link' = [i \in DOMAIN Tail(link) |->
                    [cmd |-> Tail(link)[i].cmd, age |-> Tail(link)[i].age + 1]]
      /\ UNCHANGED <<script, at, waiting, believed, config_reg>>
  <2>1. n > 0
    OBVIOUS
  <2> QED
    BY <2>1 DEF Tick
<1>2. Len(link) = 1 /\ Tail(link) = <<>> /\ at \in Nat
  BY <1>1, TakeLast DEF IInv, Types
<1>3. LinkTyped' /\ Len(link') = Len(link) - 1
  <2>1. Tail(link) \in Seq(Entries) /\ Len(Tail(link)) = 0
    BY <1>2, EmptySeq
  <2> QED
    BY <1>1, <1>2, <2>1, Ageing
<1>4. \A i \in 1 .. (Len(link) - 1) : FALSE
  BY <1>2
<1>5. LinkIsScript' /\ RegistersHold'
  BY <1>1, <1>3, <1>4, TakenCommand
<1>6. BelievesResult'
  BY <1>1, <1>2, BelievesKept DEF SlotInv
<1>7. PointsToResult'
  BY <1>1, NoPulse DEF SlotInv, PointsToResult
<1> QED
  BY <1>5, <1>6, <1>7 DEF SlotInv

LEMMA SlotsKept == IInv /\ SlotInv /\ [Next]_vars => SlotInv'
<1> SUFFICES ASSUME IInv, SlotInv, [Next]_vars PROVE SlotInv'
  OBVIOUS
<1>1. CASE Scripted
  BY <1>1, SendWriteSlots, SendPulseSlots, SendStatusSlots, ReceiveSlots DEF Scripted
<1>2. CASE Board
  BY <1>2, TakeWriteSlots, TakeStatusSlots, TakePulseSlots DEF Board
<1>3. CASE \E n \in 0 .. PulseEdges : Tick(n)
  <2>1. PICK n \in 0 .. PulseEdges : Tick(n)
    BY <1>3
  <2>2. n = 0 \/ n \in 1 .. PulseEdges
    BY DEF PulseEdges
  <2> QED
    BY <2>1, <2>2, TickSlots, TickPulseSlots
<1>4. CASE UNCHANGED vars
  <2>1. UNCHANGED <<script, at, waiting, believed, link, config_reg, signA, pointer>>
    BY <1>4 DEF vars, scriptVars, linkVars, ticVars, busVars
  <2>2. LinkIsScript' /\ RegistersHold'
    BY <2>1 DEF SlotInv, LinkIsScript, RegistersHold, Executed, Sent, Places
  <2>3. BelievesResult'
    BY <2>1, BelievesKept DEF SlotInv, IInv, Types
  <2>4. PointsToResult'
    BY <2>1 DEF SlotInv, PointsToResult, Outstanding, InFlight, Places
  <2> QED
    BY <2>2, <2>3, <2>4 DEF SlotInv
<1> QED
  BY <1>1, <1>2, <1>3, <1>4 DEF Next

LEMMA SlotsInit == Init => SlotInv
<1> SUFFICES ASSUME Init PROVE SlotInv
  OBVIOUS
<1>1. IInv
  BY InitInvariant
<1>2. at = 1 /\ ~waiting /\ link = <<>> /\ Len(link) = 0 /\ config_reg = [r \in Registers |-> 0 .. 15]
  BY DEF Init, AfterReset
<1>3. Sent = 0 /\ Executed = 0 /\ Places = {} /\ Len(script) \in Nat
  BY <1>1, <1>2, LenProperties DEF Sent, Executed, Places, IInv, Types
<1>4. LinkIsScript
  BY <1>3 DEF LinkIsScript
<1>5. RegistersHold
  BY <1>2, <1>3 DEF RegistersHold
<1>6. BelievesResult
  BY <1>2 DEF BelievesResult
<1>7. PointsToResult
  BY <1>1, <1>2, PreparingText DEF PointsToResult, IInv
<1> QED
  BY <1>4, <1>5, <1>6, <1>7 DEF SlotInv

(* From the reset on a slot of the data stream that runs reads two bytes   *)
(* of the register that holds a conversion: no slot runs before its last   *)
(* word is there, the commands survive the mixing, packing and cutting of  *)
(* their bits, and no slot moves the pointer of a chip.  A script that has *)
(* prepared them has all four run, and never the fifth.                    *)
THEOREM StreamReads == Spec => []StreamReadsResults
<1>1. ASSUME IInv, SlotInv PROVE StreamReadsResults
  <2> SUFFICES ASSUME Preparing(script)
               PROVE  /\ \A k \in 0 .. 2 : ~Disabled(k) => ReadsResult(k)
                      /\ Prepared => \A k \in 0 .. 3 : ~Disabled(k)
                      /\ Disabled(4)
    BY DEF StreamReadsResults
  <2> DEFINE m == Executed - (Len(script) - 9)
  <2>1. /\ Types /\ at \in Nat /\ Len(script) \in Nat /\ DOMAIN script = 1 .. Len(script)
        /\ Executed \in Nat
    BY <1>1, PreparingText DEF IInv, Types, SlotInv, LinkIsScript
  <2>2. HasFirst(m) /\ m \in Int /\ m <= 9 /\ Executed <= Sent
    BY <1>1, <2>1, FirstWords DEF SlotInv
  <2>3. ASSUME NEW k \in 0 .. 2, ~Disabled(k) PROVE ReadsResult(k)
    <3>1. 35 * k + 34 < 16 * m
      BY <2>2, <2>3, SlotEnabled
    <3>2. Sent \in Nat /\ Sent <= at
      BY <1>1, <2>1 DEF Sent, SlotInv, LinkIsScript
    <3>3. at > Len(script) - 8
      BY <2>1, <2>2, <3>1, <3>2
    <3>4. /\ IsRead(Fields(i2c_command(k))) /\ Fields(i2c_command(k)).mode = {0}
          /\ Fields(i2c_command(k)).chip \in Converters
      BY <2>2, <2>3, SlotsPrepared
    <3> QED
      BY <1>1, <3>3, <3>4, ConverterChips DEF SlotInv, PointsToResult, ReadsResult
  <2>4. ASSUME Prepared PROVE \A k \in 0 .. 3 : ~Disabled(k)
    <3>1. at > Len(script) /\ link = <<>> /\ Len(link) = 0
      BY <2>4 DEF Prepared
    <3>2. ~waiting
      BY <1>1, <2>1, <3>1 DEF IInv, WaitsForIt, Asked
    <3>3. Executed = Len(script)
      BY <1>1, <2>1, <3>1, <3>2 DEF SlotInv, LinkIsScript, Executed, Sent
    <3>4. m = 9
      BY <2>1, <3>3
    <3> QED
      BY <2>2, <3>4, SlotEnabled
  <2>5. Disabled(4)
    BY <2>2, SlotEnabled
  <2> QED
    BY <2>3, <2>4, <2>5
<1>2. Spec => []SlotInv
  BY SlotsInit, SlotsKept, Invariant, PTL DEF Spec
<1> QED
  BY <1>1, <1>2, Invariant, PTL
=============================================================================
