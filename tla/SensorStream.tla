----------------------------- MODULE SensorStream -----------------------------
(* From the sensor's two serial lines to the data FIFO: the deserializer   *)
(* (sensor_deserializer.vhd) that finds and watches the headers, the state *)
(* machine that marks the rows (data_mod.vhd), and the chip start timer,   *)
(* start and stop flags, frame counter and FIFO of top_KC705.vhd.  A step  *)
(* of the 10 MHz clock takes one word, two units of 16 bits, one per line. *)
EXTENDS Naturals, Sequences

CONSTANTS
  Setups,      \* what a behaviour starts from, see below
  MaxStarts    \* bound: chip starts

(* A setup: the frames the sensor sends, and the widths of the hardware.   *)
SetupFields ==
  { "frameSize",   \* words of a frame (1856)
    "contents",    \* units of a frame: rows, each with its number of states, and states
    "pattern",     \* the length a header would be taken for (x"AAAA")
    "countMod",    \* 2^20: the frame counter has 20 bits in a word
    "depth",       \* words of the FIFO (65536)
    "delay",       \* TRIGGER_DELAY: 31, as register 5 is reset to ones and never written
    "frames",      \* bound: frames the sensor sends after a start
    "faults",      \* bound: words after a start that arrive with one line wrong
    "strobes" }    \* whether START_IN is used

IsRow(u) == u > 0       \* a unit: 0 is a state, n > 0 a row with n states
Fill     == 0

(* Rows and their states fill a frame; the number of states has 4 bits.    *)
InRows(f) ==
  /\ f # <<>> => IsRow(f[1])
  /\ \A i \in DOMAIN f : IsRow(f[i]) =>
       LET next == i + f[i] + 1
       IN  /\ f[i] < 16 /\ next <= Len(f) + 1 /\ (next \in DOMAIN f => IsRow(f[next]))
           /\ \A k \in i + 1 .. next - 1 : ~IsRow(f[k])

ASSUME SensorAssumption ==
  /\ MaxStarts \in Nat
  /\ \A s \in Setups :
       /\ DOMAIN s = SetupFields
       /\ {s.frameSize, s.frames, s.faults} \subseteq Nat /\ s.strobes \in BOOLEAN
       /\ s.pattern \in s.frameSize .. 65535 /\ {s.countMod, s.depth} \subseteq Nat \ {0}
       /\ s.delay \in 0 .. 31 /\ s.frameSize > s.delay + 4 /\ s.contents \subseteq Seq(Nat)
       /\ \A f \in s.contents : InRows(f) /\ (Len(f) + 1) \div 2 + 4 <= s.frameSize

VARIABLES
  setup,                                      \* fixed in a behaviour
  frame, pos, frames, faults,                 \* the sensor (counts since the last start)
  early,                                      \* the latch clock falls into the first clock of a word
  shiftState, iFrameCtr, ERR,                 \* the deserializer
  sDataInDelayed, sDataIn,                    \* the state machine
  dataState, wordCtr, stateCtr, sState0LSB, sDataOut, flag,
  chStState, starts, sFifoWrEn,               \* the timer
  START_IN, start_sign, sign_tag, frame_counter, clocked,
  fifo,                                       \* words accepted since the last start (history)
  taken,                                      \* how many of them the reader has taken
  full,                                       \* a word was lost since the last start (history)
  stale,                                      \* sDataIn held a header in the last reset (history)
  from,                                       \* frames when sFifoWrEn rose (history)
  struck,                                     \* a strobe since the last marked frame (history)
  owed                                        \* a strobe the next header must find (history)

sensorVars == <<setup, frame, pos, frames, faults, early>>
desVars    == <<shiftState, iFrameCtr, ERR>>
modVars    == <<sDataInDelayed, sDataIn, dataState, wordCtr, stateCtr, sState0LSB, sDataOut, flag>>
timerVars  == <<chStState, starts, sFifoWrEn>>
signVars   == <<START_IN, start_sign>>
tagVars    == <<sign_tag, frame_counter>>
fifoVars   == <<fifo, taken, full>>
strobeVars == <<struck, owed>>
vars == <<sensorVars, desVars, modVars, timerVars, signVars, tagVars, clocked, fifoVars, stale, from, strobeVars>>

FrameSize == setup.frameSize
Frames    == setup.contents
Pattern   == setup.pattern
CountMod  == setup.countMod
Delay     == setup.delay

(* What the lines carry in a word: a section's name, whether they agree.   *)
(* The stamp tells when the sensor sent it (history); the zeros of a reset *)
(* were never sent.                                                        *)
Lines(s, u, n, t) == [is |-> s, agree |-> TRUE, units |-> u, length |-> n, stamp |-> t]
Plain(s, t)       == Lines(s, <<Fill, Fill>>, 0, t)
Stamp             == [of |-> frame, at |-> pos, nth |-> frames]
Zero              == Plain("pad", [of |-> <<>>, at |-> 0, nth |-> 0])
Zeros             == [i \in 0 .. Delay |-> Zero]

Init ==
  /\ setup \in Setups
  /\ frame \in Frames /\ pos = FrameSize - 1 /\ frames = 0 /\ faults = 0 /\ early \in BOOLEAN
  /\ shiftState = "S1" /\ iFrameCtr = 0 /\ ERR = TRUE
  /\ sDataInDelayed = Zeros /\ sDataIn = Zero /\ dataState = "HeaderSt" /\ wordCtr = 0
  /\ stateCtr = 0 /\ sState0LSB = TRUE /\ sDataOut = [word |-> Zero, rows |-> <<FALSE, FALSE>>]
  /\ flag = "none"
  /\ chStState = "CS0" /\ starts = 0 /\ sFifoWrEn = FALSE
  /\ START_IN = FALSE /\ start_sign = FALSE /\ sign_tag = FALSE /\ frame_counter = 0
  /\ clocked = FALSE /\ fifo = <<>> /\ taken = 0 /\ full = FALSE
  /\ stale = FALSE /\ from = 0 /\ struck = FALSE /\ owed = FALSE
-----------------------------------------------------------------------------
(* The sensor: header, frame counter, length, data, trailer, and padding   *)
(* to FrameSize words.  The length is sent on both lines.                  *)

DataWords == (Len(frame) + 1) \div 2
Unit(i)   == IF i \in DOMAIN frame THEN frame[i] ELSE Fill
Sent ==
  LET at == pos - 2
  IN  CASE pos = 0 -> Lines("header", <<Fill, Fill>>, Pattern, Stamp)
        [] pos = 1 -> Plain("counter", Stamp)
        [] pos = 2 -> Lines("length", <<Fill, Fill>>, DataWords, Stamp)
        [] pos > 2 /\ at <= DataWords -> Lines("data", <<Unit(2 * at - 1), Unit(2 * at)>>, 0, Stamp)
        [] pos > 2 /\ at = DataWords + 1 -> Plain("trailer", Stamp)
        [] OTHER -> Plain("pad", Stamp)

(* One line wrong: no header, or two lengths of which the code would take  *)
(* the wrong one.                                                          *)
Spoilt(w) == [is |-> IF w.is = "header" THEN "pad" ELSE w.is, agree |-> FALSE,
              units |-> w.units, length |-> w.length + 1, stamp |-> w.stamp]

Streaming == chStState # "CS1" /\ starts > 0

SensorStep ==
  IF Streaming /\ (pos < FrameSize - 1 \/ frames < setup.frames)
    THEN /\ pos' = (pos + 1) % FrameSize
         /\ IF pos' = 0 THEN frame' \in Frames /\ frames' = frames + 1
                        ELSE UNCHANGED <<frame, frames>>
    ELSE UNCHANGED <<frame, pos, frames>>
-----------------------------------------------------------------------------
(* The deserializer: w is the word it has shifted in.                      *)

LengthUnchecked(w) == FALSE
LengthDiffers(w)   == iFrameCtr = 2 /\ ~w.agree

ResetUnlessParked == iFrameCtr' = 0 /\ shiftState' = IF shiftState = "S3" THEN "S3" ELSE "S1"
SerReset          == iFrameCtr' = 0 /\ shiftState' = "S1"

Shift(w) ==
  CASE shiftState = "S1" /\ w.is = "header" ->
         shiftState' = "S2" /\ iFrameCtr' = 1
    [] shiftState = "S2" /\ iFrameCtr = FrameSize /\ w.is = "header" ->
         iFrameCtr' = 1 /\ UNCHANGED shiftState
    [] shiftState = "S2" /\ ((iFrameCtr = FrameSize /\ w.is # "header") \/ LengthDiffers(w)) ->
         shiftState' = "S3" /\ UNCHANGED iFrameCtr
    [] shiftState = "S2" /\ iFrameCtr # FrameSize /\ ~LengthDiffers(w) ->
         iFrameCtr' = iFrameCtr + 1 /\ UNCHANGED shiftState
    [] OTHER -> UNCHANGED <<shiftState, iFrameCtr>>

(* sErr when the word is latched.  The header that ends the search clears *)
(* it one clock after it is there, and a latch clock in between loses that *)
(* header; a failed check has set it when the next word is there.          *)
ErrNow(w) == IF shiftState = "S1" THEN w.is # "header" \/ early ELSE shiftState = "S3"
-----------------------------------------------------------------------------
(* data_mod: RESET is ERR.                                                 *)

Emit(f, rows) == flag' = f /\ sDataOut' = [word |-> sDataIn, rows |-> rows]
NoRows        == <<FALSE, FALSE>>

AfterLength(n) == IF n = 0 THEN "TrailerSt" ELSE "State0St"
AfterData(n)    == IF wordCtr' = 0 THEN "TrailerSt" ELSE IF n <= 1 THEN "State0St" ELSE "StateSt"

CountDown == (wordCtr + 65535) % 65536

EvenOnly(u) == u % 2 = 0
OddOnly(u)  == u % 2 = 1
State0 ==
  LET u == sDataIn.units
  IN  /\ wordCtr' = CountDown
      /\ IF sState0LSB
           THEN /\ stateCtr' = (u[1] + 15) % 16
                /\ sState0LSB' = (OddOnly(u[1]) \/ wordCtr' = 0)
                /\ Emit("data", <<TRUE, FALSE>>)
           ELSE /\ stateCtr' = u[2] % 16
                /\ sState0LSB' = ~OddOnly(u[2])
                /\ Emit("data", <<FALSE, wordCtr' # 0>>)
      /\ dataState' = AfterData(stateCtr')

StateN ==
  /\ wordCtr' = CountDown /\ stateCtr' = (stateCtr + 14) % 16
  /\ sState0LSB' = (sState0LSB \/ wordCtr' = 0)
  /\ Emit("data", NoRows) /\ dataState' = AfterData(stateCtr')

Decode ==
  CASE dataState = "HeaderSt" ->
         /\ IF sDataIn.is = "header" THEN Emit("header", NoRows) /\ dataState' = "FramectrSt"
                                     ELSE Emit("none", NoRows) /\ UNCHANGED dataState
         /\ UNCHANGED <<wordCtr, stateCtr, sState0LSB>>
    [] dataState = "FramectrSt" ->
         Emit("counter", NoRows) /\ dataState' = "LengthSt" /\ UNCHANGED <<wordCtr, stateCtr, sState0LSB>>
    [] dataState = "LengthSt" ->
         /\ Emit("length", NoRows) /\ sState0LSB' = TRUE /\ wordCtr' = sDataIn.length
         /\ dataState' = AfterLength(sDataIn.length)
         /\ UNCHANGED stateCtr
    [] dataState = "State0St" -> State0
    [] dataState = "StateSt"  -> StateN
    [] dataState = "TrailerSt" ->
         Emit("trailer", NoRows) /\ dataState' = "HeaderSt" /\ UNCHANGED <<wordCtr, stateCtr, sState0LSB>>

ResetMod ==
  /\ sDataInDelayed' = Zeros /\ dataState' = "HeaderSt" /\ wordCtr' = 0 /\ stateCtr' = 0
  /\ sState0LSB' = TRUE /\ flag' = "none" /\ sDataOut' = [word |-> Zero, rows |-> NoRows]
  /\ UNCHANGED sDataIn

(* The register shifts, of which the words up to the one that is read      *)
(* matter: sDataIn is what came TRIGGER_DELAY + 1 words before.            *)
DataMod(w) ==
  IF ERR' THEN ResetMod
  ELSE /\ sDataInDelayed' = [i \in 0 .. Delay |-> IF i = 0 THEN w ELSE sDataInDelayed[i - 1]]
       /\ sDataIn' = sDataInDelayed[Delay] /\ Decode
-----------------------------------------------------------------------------
(* The FIFO takes each word of a frame; a word that meets a full FIFO is   *)
(* lost.                                                                   *)

Din == [is |-> flag, tag |-> sign_tag, count |-> frame_counter % CountMod,
        units |-> sDataOut.word.units, rows |-> sDataOut.rows,
        nth |-> sDataOut.word.stamp.nth]   \* the frame it belongs to (history)

IsFull == Len(fifo) - taken = setup.depth
WritesNoLength == sFifoWrEn /\ flag \notin {"none", "length"}
Writes         == sFifoWrEn /\ flag # "none"
WriteFifo ==
  IF Writes
    THEN /\ fifo' = IF IsFull THEN fifo ELSE Append(fifo, Din)
         /\ full' = (full \/ IsFull)
    ELSE UNCHANGED <<fifo, full>>

CountKept  == frame_counter + (IF IsFull THEN 0 ELSE 1)
CountFrame == frame_counter + 1

TagFrame ==
  IF sFifoWrEn
    THEN IF flag = "header" THEN frame_counter' = CountFrame /\ sign_tag' = start_sign
                            ELSE UNCHANGED tagVars
    ELSE frame_counter' = 0 /\ UNCHANGED sign_tag

(* A header taken with the counter word behind it: no reset in between.    *)
Marks == sFifoWrEn /\ flag = "header" /\ flag' = "counter"

Tick ==
  /\ clocked /\ clocked' = FALSE
  /\ SensorStep /\ UNCHANGED setup
  /\ \E w \in {Sent} \cup (IF faults < setup.faults /\ Streaming THEN {Spoilt(Sent)} ELSE {}) :
       /\ faults' = IF w = Sent THEN faults ELSE faults + 1
       /\ IF chStState = "CS1" THEN SerReset /\ ERR' = TRUE ELSE Shift(w) /\ ERR' = ErrNow(w)
       /\ DataMod(w)
  /\ stale' = IF chStState = "CS1" THEN sDataIn.is = "header" ELSE stale
  /\ WriteFifo /\ TagFrame
  /\ struck' = (struck /\ ~(Marks /\ sign_tag')) /\ owed' = (owed /\ flag # "header")
  /\ UNCHANGED <<early, timerVars, signVars, taken, from>>

(* The 160 MHz clock, at least once in every word.                         *)
LeaveSign    == start_sign
ClearAtOnce  == start_sign /\ flag # "header"
ClearSign    == start_sign /\ flag # "counter"
Clk160 ==
  /\ clocked' = TRUE
  /\ start_sign' = (START_IN \/ ClearSign)
  /\ struck' = (struck \/ START_IN) /\ owed' = (owed \/ (START_IN /\ flag # "counter"))
  /\ UNCHANGED <<sensorVars, desVars, modVars, timerVars, START_IN, tagVars, fifoVars, stale, from>>

(* A strobe of any length that the clock sees.                             *)
Strobe ==
  /\ setup.strobes /\ (START_IN => clocked) /\ START_IN' = ~START_IN /\ clocked' = FALSE
  /\ UNCHANGED <<sensorVars, desVars, modVars, timerVars, start_sign, tagVars, fifoVars, stale, from, strobeVars>>
-----------------------------------------------------------------------------
(* chipStartTimer, in clocks of 160 MHz; its waits are of any length.      *)

FifoReset == fifo' = <<>> /\ taken' = 0 /\ full' = FALSE
ChipStart ==
  /\ chStState = "CS0" /\ starts < MaxStarts
  /\ chStState' = "CS1" /\ starts' = starts + 1 /\ sFifoWrEn' = FALSE
  /\ pos' = FrameSize - 1 /\ frames' = 0 /\ faults' = 0 /\ early' \in BOOLEAN
  /\ FifoReset
  /\ UNCHANGED <<setup, frame, desVars, modVars, signVars, tagVars, clocked, stale, from, strobeVars>>

(* 120 clocks: more than the two words after which the reset is everywhere.*)
ChipStarted ==
  /\ chStState = "CS1" /\ iFrameCtr = 0 /\ ERR /\ frame_counter = 0
  /\ chStState' = "CS2"
  /\ UNCHANGED <<sensorVars, desVars, modVars, starts, sFifoWrEn, signVars, tagVars, clocked,
                 fifoVars, stale, from, strobeVars>>

TimerEnds ==
  /\ chStState = "CS2" /\ chStState' = "CS0" /\ sFifoWrEn' = TRUE /\ from' = frames
  /\ UNCHANGED <<sensorVars, desVars, modVars, starts, signVars, tagVars, clocked, fifoVars, stale, strobeVars>>

(* A reader that waits until the FIFO is full leaves every choice open of  *)
(* which words are lost.                                                   *)
Read ==
  /\ IsFull /\ taken' = taken + 1
  /\ UNCHANGED <<sensorVars, desVars, modVars, timerVars, signVars, tagVars, clocked, fifo, full,
                 stale, from, strobeVars>>

Next == Tick \/ Clk160 \/ Strobe \/ ChipStart \/ ChipStarted \/ TimerEnds \/ Read
Spec == Init /\ [][Next]_vars
-----------------------------------------------------------------------------
(* The flags tell which section of a frame the word beside them is from    *)
(* (data_mod.vhd:15).                                                      *)
FlagsTellSection == flag # "none" => sDataOut.word.is = flag

(* They do so, whatever is wrong on the lines and whenever the chip is     *)
(* started, unless a reset has met a header in sDataIn, which survives it. *)
FlagsRight == stale \/ FlagsTellSection

Follows(a, b) ==
  CASE a = "header"  -> b = "counter"
    [] a = "counter" -> b = "length"
    [] a \in {"length", "data"} -> b \in {"data", "trailer"}
    [] a = "trailer" -> b = "header"

Whole(i, j) == /\ i < j /\ fifo[i].is = "header" /\ fifo[j].is = "trailer"
               /\ \A k \in i + 1 .. j - 1 : fifo[k].is \notin {"header", "trailer"}
Units(f)    == [k \in 1 .. (Len(f) + 1) \div 2 |->
                  <<f[2 * k - 1], IF 2 * k \in DOMAIN f THEN f[2 * k] ELSE Fill>>]

(* The FIFO gets, after the rest of the frame in which writing began, whole *)
(* frames one after the other, each with all that the sensor has sent in   *)
(* it: an error ends the stream and does not damage it.                    *)
WholeFrames ==
  stale \/ full \/
  /\ \A i \in 1 .. Len(fifo) - 1 : Follows(fifo[i].is, fifo[i + 1].is)
  /\ \A i, j \in DOMAIN fifo : Whole(i, j) =>
       \E f \in Frames : [k \in 1 .. j - i - 3 |-> fifo[i + 2 + k].units] = Units(f)

(* The rows, and only the rows, carry the row marker, wherever they stand  *)
(* on the two lines.                                                       *)
RowsMarked ==
  stale \/ \A i \in DOMAIN fifo : fifo[i].is = "data" =>
             \A l \in 1 .. 2 : fifo[i].rows[l] = IsRow(fifo[i].units[l])

(* The frame counters in the FIFO differ by the number of frames between   *)
(* them, so that they tell the frames lost on a full FIFO (README.md:23).  *)
Counters == {i \in DOMAIN fifo : fifo[i].is = "counter"}
CountersTell ==
  stale \/ \A i, j \in Counters : i < j =>
             (fifo[j].count + CountMod - fifo[i].count) % CountMod = (fifo[j].nth - fifo[i].nth) % CountMod

(* After every start, whatever went wrong before it, frames are recorded   *)
(* again: the third from the one in which writing began is not the first,  *)
(* when its header has come through the trigger delay.                     *)
Recovered ==
  ( /\ faults = 0 /\ ~stale /\ ~full /\ sFifoWrEn
    /\ frames > from + 3 \/ (frames = from + 3 /\ pos >= Delay + 4) ) =>
     \E i, j \in DOMAIN fifo : Whole(i, j)

(* A frame is marked only if START_IN was high since the last that was:    *)
(* no strobe marks two frames.                                             *)
TagsEarned == [][(Marks /\ sign_tag') => struck]_<<sign_tag, frame_counter>>

(* A strobe that is seen outside of the counter word's clock waits for the *)
(* next header: it is not lost between the two clocks.                     *)
StrobesKept == owed => start_sign
=============================================================================
