--------------------------- MODULE SensorStreamProofs ---------------------------
(* The sensor stream for frames of any size, any rows in them, any number  *)
(* of starts, any places of errors and phases of the clocks, and any       *)
(* trigger delay.                                                          *)
EXTENDS SensorStream, Integers, SequenceTheorems, TLAPS

(* The word at position q of a frame f.                                    *)
Words(f)      == (Len(f) + 1) \div 2
UnitAt(f, i)  == IF i \in DOMAIN f THEN f[i] ELSE Fill
FirstUnit(q)  == 2 * (q - 2) - 1
UnitsAt(f, q) == <<UnitAt(f, FirstUnit(q)), UnitAt(f, FirstUnit(q) + 1)>>
Section(f, q) ==
  CASE q = 0 -> "header"
    [] q = 1 -> "counter"
    [] q = 2 -> "length"
    [] q \in 3 .. Words(f) + 2 -> "data"
    [] q = Words(f) + 3 -> "trailer"
    [] OTHER -> "pad"

Holds(w, f, q) ==
  /\ w.is = Section(f, q)
  /\ w.is = "length" => w.length = Words(f)
  /\ w.is = "data" => w.units = UnitsAt(f, q)

(* The n units from the i-th on are states, and then comes a row or the    *)
(* end of the frame.                                                       *)
StatesFrom(f, i, n) ==
  /\ i + n <= Len(f) + 1 /\ (i + n <= Len(f) => IsRow(f[i + n]))
  /\ \A k \in i .. i + n - 1 : ~IsRow(f[k])
Sections == {"header", "counter", "length", "data", "trailer", "pad"}
Flags    == {"header", "counter", "length", "data", "trailer", "none"}
Bits     == BOOLEAN \X BOOLEAN
Stamps   == [of : Seq(Nat), at : Nat, nth : Nat]
Word     == [is : Sections, agree : BOOLEAN, units : Nat \X Nat, length : Nat, stamp : Stamps]
Entries  == [is : Flags, tag : BOOLEAN, count : Nat, units : Nat \X Nat, rows : Bits, nth : Nat]

SensorTypes ==
  /\ setup \in Setups /\ frame \in Frames /\ pos \in 0 .. FrameSize - 1 /\ frames \in Nat
  /\ shiftState \in {"S1", "S2", "S3"} /\ iFrameCtr \in 0 .. FrameSize /\ ERR \in BOOLEAN
ModTypes ==
  /\ sDataInDelayed \in [0 .. Delay -> Word] /\ sDataIn \in Word
  /\ dataState \in {"HeaderSt", "FramectrSt", "LengthSt", "State0St", "StateSt", "TrailerSt"}
  /\ wordCtr \in Nat /\ stateCtr \in 0 .. 15 /\ sState0LSB \in BOOLEAN
  /\ sDataOut \in [word : Word, rows : Bits] /\ flag \in Flags
TopTypes ==
  /\ chStState \in {"CS0", "CS1", "CS2"} /\ starts \in Nat /\ sFifoWrEn \in BOOLEAN
  /\ START_IN \in BOOLEAN /\ start_sign \in BOOLEAN /\ sign_tag \in BOOLEAN
  /\ frame_counter \in Nat /\ fifo \in Seq(Entries) /\ full \in BOOLEAN /\ stale \in BOOLEAN
Types == SensorTypes /\ ModTypes /\ TopTypes

(* Nothing stands in a state machine under reset.                          *)
ResetState ==
  ERR => /\ dataState = "HeaderSt" /\ sDataInDelayed = Zeros /\ flag = "none"
         /\ shiftState # "S3" => fifo = <<>> /\ (stale \/ sDataIn.is # "header")

(* Writing is off, and the FIFO empty, from a chip start until the timer   *)
(* ends; before the first start the sensor is silent.                      *)
TimerState ==
  /\ ~sFifoWrEn => fifo = <<>>
  /\ chStState # "CS0" => ~sFifoWrEn
  /\ chStState = "CS1" => starts > 0
  /\ starts = 0 => pos = FrameSize - 1 /\ shiftState = "S1"

(* The deserializer counts the words of a frame as the sensor sends them,  *)
(* also the last one, after which the sensor may stop.                     *)
Lockstep ==
  /\ shiftState = "S1" => iFrameCtr = 0 /\ ERR
  /\ shiftState # "S1" => iFrameCtr > 0
  /\ shiftState = "S2" /\ chStState # "CS1" =>
       \/ pos > 0 /\ iFrameCtr = pos
       \/ pos \in {0, FrameSize - 1} /\ iFrameCtr = FrameSize

(* The state machine is where the word it is about to see, the one at      *)
(* position q of f, asks it to be.                                         *)
AtData(f, q) ==
  /\ q \in 3 .. Words(f) + 2 /\ wordCtr = Words(f) + 3 - q
  /\ \/ dataState = "State0St" /\ sState0LSB = TRUE /\ StatesFrom(f, FirstUnit(q), 0)
     \/ dataState = "State0St" /\ sState0LSB = FALSE /\ StatesFrom(f, FirstUnit(q), 1)
     \/ /\ dataState = "StateSt" /\ 1 < stateCtr /\ stateCtr < 16
        /\ sState0LSB <=> stateCtr % 2 = 0
        /\ StatesFrom(f, FirstUnit(q), stateCtr)
At(f, q) ==
  \/ dataState = "HeaderSt" /\ (q = 0 \/ q > Words(f) + 3)
  \/ dataState = "FramectrSt" /\ q = 1
  \/ dataState = "LengthSt" /\ q = 2
  \/ AtData(f, q)
  \/ dataState = "TrailerSt" /\ q = Words(f) + 3

(* A word that is what its stamp says, and one that is sent right behind   *)
(* another.                                                                *)
Genuine(w) == /\ w.stamp.of \in Frames /\ w.stamp.at \in 0 .. FrameSize - 1
              /\ Holds(w, w.stamp.of, w.stamp.at)
Behind(s, t) ==
  \/ t.of = s.of /\ t.at = s.at + 1 /\ t.nth = s.nth
  \/ s.at = FrameSize - 1 /\ t.at = 0 /\ t.nth = s.nth + 1

(* The words in the trigger delay: v came before w, or the reset did.  The *)
(* newest is the one that the sensor has sent before, also when that was   *)
(* its last.                                                               *)
Joined(v, w) == \/ v = Zero /\ (w = Zero \/ Genuine(w))
                \/ Genuine(v) /\ Genuine(w) /\ Behind(v.stamp, w.stamp)
Newest(w) == /\ Genuine(w) /\ w.stamp.at = iFrameCtr - 1
             /\ \/ Behind(w.stamp, Stamp)
                \/ w.stamp.at = FrameSize - 1 /\ pos = FrameSize - 1
Delayed == /\ Newest(sDataInDelayed[0])
           /\ \A i \in 1 .. Delay : Joined(sDataInDelayed[i], sDataInDelayed[i - 1])

(* The state machine waits for a header, or is in step with sDataIn.       *)
Waiting  == dataState = "HeaderSt" /\ sDataIn.is # "header" /\ flag = "none" /\ fifo = <<>>
Stamped(w, f, q) == f = w.stamp.of /\ q = w.stamp.at
Decoding ==
  \/ Waiting
  \/ /\ \E f \in Frames, q \in 0 .. FrameSize - 1 :
          Stamped(sDataIn, f, q) /\ Holds(sDataIn, f, q) /\ At(f, q)
     /\ Behind(sDataIn.stamp, sDataInDelayed[Delay].stamp)
     /\ (flag = "none" /\ fifo = <<>>) \/ Behind(sDataOut.word.stamp, sDataIn.stamp)

(* An entry of the FIFO, and the next one.                                 *)
Flagged(s) == IF s = "pad" THEN "none" ELSE s
EntryOf(e, g, p) ==
  /\ e.is = Section(g, p)
  /\ e.is = "data" => e.units = UnitsAt(g, p)
Recorded(i, g) ==
  \A k \in i .. Len(fifo) : k - i <= Words(g) + 3 => EntryOf(fifo[k], g, k - i)
Open(i) == /\ i \in DOMAIN fifo /\ fifo[i].is = "header"
           /\ \A k \in i + 1 .. Len(fifo) : fifo[k].is # "trailer"

(* What is about to be written, the word at position p of g, continues the *)
(* frame that is not written to its end.                                   *)
Output(g, p) ==
  /\ \/ flag = "none" /\ fifo = <<>>
     \/ flag = Flagged(Section(g, p)) /\ Holds(sDataOut.word, g, p)
  /\ ~full => \A i \in DOMAIN fifo : Open(i) => Recorded(i, g) /\ Len(fifo) + 1 - i = p

Written == \/ flag = "none" /\ fifo = <<>>
           \/ \E g \in Frames, p \in 0 .. FrameSize - 1 : Stamped(sDataOut.word, g, p) /\ Output(g, p)

InFrame ==
  ~stale /\ ~ERR /\ chStState # "CS1" => Written /\ (shiftState = "S2" => Delayed /\ Decoding)

RowsFlagged ==
  ~stale /\ flag = "data" => \A l \in 1 .. 2 : sDataOut.rows[l] = IsRow(sDataOut.word.units[l])

FramesRecorded ==
  stale \/ full \/
    \A i \in DOMAIN fifo : fifo[i].is = "header" => \E g \in Frames : Recorded(i, g)

(* Each flag is one that may follow the one before.                        *)
FlagState ==
  /\ flag = "header" <=> dataState = "FramectrSt"
  /\ flag = "counter" <=> dataState = "LengthSt"
  /\ dataState \in {"State0St", "StateSt"} => flag \in {"length", "data"}
  /\ dataState = "TrailerSt" => flag \in {"length", "data"}
  /\ dataState = "HeaderSt" => flag \in {"trailer", "none"}
LastWritten ==
  fifo # <<>> /\ ~full =>
    LET last == fifo[Len(fifo)].is
    IN  IF flag = "none" THEN ERR \/ last = "trailer" ELSE Follows(last, flag)
Chained == full \/ \A i \in 1 .. Len(fifo) - 1 : Follows(fifo[i].is, fifo[i + 1].is)

(* The number of the frame whose header was counted last.                  *)
Latest == IF flag = "header" THEN sDataOut.word.stamp.nth - 1 ELSE sDataOut.word.stamp.nth
CountersLinked ==
  ~stale /\ ~ERR /\ chStState # "CS1" =>
    \A i \in Counters :
      /\ fifo[i].nth <= Latest /\ Latest - fifo[i].nth <= frame_counter
      /\ fifo[i].count = (frame_counter - (Latest - fifo[i].nth)) % CountMod

(* A strobe on its way keeps the flag, and the flag is older than no mark. *)
StrobeState ==
  /\ owed => start_sign /\ flag # "counter"
  /\ start_sign => struck \/ (flag = "counter" /\ ~clocked)
-----------------------------------------------------------------------------
(* What a setup is.                                                        *)
LEMMA SetupFacts ==
  ASSUME setup \in Setups
  PROVE  /\ FrameSize \in Nat /\ FrameSize > 4 /\ FrameSize <= 65535
         /\ Delay \in Nat /\ FrameSize > Delay + 4
         /\ Pattern \in Nat /\ CountMod \in Nat /\ CountMod > 0
         /\ \A f \in Frames : /\ f \in Seq(Nat) /\ Len(f) \in Nat /\ InRows(f)
                              /\ Words(f) \in Nat /\ Words(f) + 4 <= FrameSize
                              /\ 2 * Words(f) - 1 <= Len(f) /\ Len(f) <= 2 * Words(f)
<1>1. /\ FrameSize \in Nat /\ FrameSize > Delay + 4 /\ FrameSize <= 65535 /\ Delay \in 0 .. 31
      /\ Pattern \in Nat /\ CountMod \in Nat /\ CountMod > 0 /\ Frames \subseteq Seq(Nat)
      /\ \A f \in Frames : InRows(f) /\ (Len(f) + 1) \div 2 + 4 <= FrameSize
  BY SensorAssumption DEF FrameSize, Pattern, CountMod, Frames, Delay
<1>2. \A n \in Nat : /\ (n + 1) \div 2 \in Nat
                     /\ 2 * ((n + 1) \div 2) - 1 <= n /\ n <= 2 * ((n + 1) \div 2)
  OBVIOUS
<1> QED
  BY <1>1, <1>2, LenProperties DEF Words

LEMMA SectionFacts ==
  ASSUME NEW f, Words(f) \in Nat, NEW q \in Nat
  PROVE  /\ Section(f, q) \in Sections
         /\ Section(f, q) = "header" <=> q = 0
         /\ Section(f, q) = "counter" <=> q = 1
         /\ Section(f, q) = "length" <=> q = 2
         /\ Section(f, q) = "data" <=> q \in 3 .. Words(f) + 2
         /\ Section(f, q) = "trailer" <=> q = Words(f) + 3
         /\ Section(f, q) = "pad" <=> q > Words(f) + 3
  BY DEF Section, Sections

(* What the sensor sends.                                                  *)
LEMMA SentFacts ==
  ASSUME SensorTypes
  PROVE  /\ Sent \in Word /\ Sent.agree = TRUE /\ Holds(Sent, frame, pos)
         /\ Sent.is = "header" <=> pos = 0
         /\ Spoilt(Sent) \in Word /\ Spoilt(Sent).agree = FALSE /\ Spoilt(Sent).is # "header"
         /\ pos \notin {0, 2} => Holds(Spoilt(Sent), frame, pos)
         /\ Sent.stamp = Stamp /\ Spoilt(Sent).stamp = Stamp
<1>1. /\ FrameSize \in Nat /\ Pattern \in Nat /\ frame \in Seq(Nat) /\ Len(frame) \in Nat
      /\ Words(frame) \in Nat /\ pos \in Nat /\ DataWords = Words(frame)
      /\ \A i : Unit(i) = UnitAt(frame, i)
  BY SetupFacts DEF SensorTypes, DataWords, Words, Unit, UnitAt
<1>2. \A i \in Int : UnitAt(frame, i) \in Nat
  BY <1>1 DEF UnitAt, Fill
<1> DEFINE Good(w) == /\ w \in Word /\ w.agree = TRUE /\ w.is = Section(frame, pos)
                      /\ w.stamp = Stamp
                      /\ pos = 2 => w.length = Words(frame)
                      /\ pos \in 3 .. Words(frame) + 2 => w.units = UnitsAt(frame, pos)
<1>3. \A s \in Sections, u \in Nat \X Nat, n \in Nat : Lines(s, u, n, Stamp) \in Word
  <2>1. Stamp \in Stamps
    BY <1>1 DEF Stamp, Stamps, SensorTypes
  <2> QED
    BY <2>1 DEF Word, Lines
<1>4. Good(Sent)
  <2>0. <<Fill, Fill>> \in Nat \X Nat /\ 0 \in Nat
    BY DEF Fill
  <2>1. CASE pos = 0
    <3>1. Sent = Lines("header", <<Fill, Fill>>, Pattern, Stamp)
      BY <2>1 DEF Sent, Plain
    <3>2. Lines("header", <<Fill, Fill>>, Pattern, Stamp) \in Word
      BY <1>1, <1>3, <2>0 DEF Sections
    <3> QED
      BY <1>1, <2>1, <3>1, <3>2 DEF Section, Lines
  <2>2. CASE pos = 1
    <3>1. Sent = Lines("counter", <<Fill, Fill>>, 0, Stamp)
      BY <2>2 DEF Sent, Plain
    <3>2. Lines("counter", <<Fill, Fill>>, 0, Stamp) \in Word
      BY <1>3, <2>0 DEF Sections
    <3> QED
      BY <1>1, <2>2, <3>1, <3>2 DEF Section, Lines
  <2>3. CASE pos = 2
    <3>1. Sent = Lines("length", <<Fill, Fill>>, Words(frame), Stamp)
      BY <1>1, <2>3 DEF Sent, Plain
    <3>2. Lines("length", <<Fill, Fill>>, Words(frame), Stamp) \in Word
      BY <1>1, <1>3, <2>0 DEF Sections
    <3> QED
      BY <1>1, <2>3, <3>1, <3>2 DEF Section, Lines
  <2>4. CASE pos > 2 /\ pos - 2 <= Words(frame)
    <3> DEFINE u == UnitsAt(frame, pos)
    <3>1. Sent = Lines("data", u, 0, Stamp)
      <4>1. u = <<Unit(2 * (pos - 2) - 1), Unit(2 * (pos - 2))>>
        BY <1>1 DEF UnitsAt, FirstUnit
      <4> QED
        BY <1>1, <2>4, <4>1 DEF Sent, Plain
    <3>2. u \in Nat \X Nat
      BY <1>1, <1>2 DEF UnitsAt, FirstUnit
    <3>3. Section(frame, pos) = "data" /\ pos # 2
      BY <1>1, <2>4 DEF Section
    <3> HIDE DEF u
    <3>4. Lines("data", u, 0, Stamp) \in Word
      BY <1>3, <2>0, <3>2 DEF Sections
    <3> QED
      BY <3>1, <3>3, <3>4 DEF u, Lines
  <2>5. CASE pos > 2 /\ pos - 2 = Words(frame) + 1
    <3>1. Sent = Lines("trailer", <<Fill, Fill>>, 0, Stamp)
      BY <1>1, <2>5 DEF Sent, Plain
    <3>2. Section(frame, pos) = "trailer" /\ pos # 2 /\ pos \notin 3 .. Words(frame) + 2
      BY <1>1, <2>5 DEF Section
    <3>3. Lines("trailer", <<Fill, Fill>>, 0, Stamp) \in Word
      BY <1>3, <2>0 DEF Sections
    <3> QED
      BY <3>1, <3>2, <3>3 DEF Lines
  <2>6. CASE pos > 2 /\ pos - 2 > Words(frame) + 1
    <3>1. Sent = Lines("pad", <<Fill, Fill>>, 0, Stamp)
      BY <1>1, <2>6 DEF Sent, Plain
    <3>2. Section(frame, pos) = "pad" /\ pos # 2 /\ pos \notin 3 .. Words(frame) + 2
      BY <1>1, <2>6 DEF Section
    <3>3. Lines("pad", <<Fill, Fill>>, 0, Stamp) \in Word
      BY <1>3, <2>0 DEF Sections
    <3> QED
      BY <3>1, <3>2, <3>3 DEF Lines
  <2> HIDE DEF Good
  <2>7. \/ pos = 0 \/ pos = 1 \/ pos = 2 \/ (pos > 2 /\ pos - 2 <= Words(frame))
        \/ (pos > 2 /\ pos - 2 = Words(frame) + 1) \/ (pos > 2 /\ pos - 2 > Words(frame) + 1)
    BY <1>1
  <2> QED
    BY <2>1, <2>2, <2>3, <2>4, <2>5, <2>6, <2>7
<1>5. /\ Sent.is = "header" <=> pos = 0
      /\ Sent.is = "length" <=> pos = 2
      /\ Sent.is = "data" <=> pos \in 3 .. Words(frame) + 2
  BY <1>1, <1>4, SectionFacts
<1>6. /\ Spoilt(Sent) \in Word /\ Spoilt(Sent).agree = FALSE
      /\ Spoilt(Sent).units = Sent.units /\ Spoilt(Sent).stamp = Sent.stamp
      /\ Spoilt(Sent).is = IF Sent.is = "header" THEN "pad" ELSE Sent.is
  <2> DEFINE s == Sent
  <2>1. s \in Word
    BY <1>4
  <2> HIDE DEF s
  <2>2. Spoilt(s) = [is |-> IF s.is = "header" THEN "pad" ELSE s.is, agree |-> FALSE,
                     units |-> s.units, length |-> s.length + 1, stamp |-> s.stamp]
    BY DEF Spoilt
  <2>3. s.is \in Sections /\ s.units \in Nat \X Nat /\ s.length \in Nat /\ s.stamp \in Stamps
    BY <2>1 DEF Word
  <2>4. (IF s.is = "header" THEN "pad" ELSE s.is) \in Sections
    BY <2>3 DEF Sections
  <2> QED
    BY <2>2, <2>3, <2>4 DEF Word, s
<1> QED
  BY <1>4, <1>5, <1>6 DEF Holds

LEMMA ZeroFacts == Zero \in Word /\ Zero.is = "pad" /\ Zero.stamp.at = 0 /\ Zero.stamp.nth = 0
<1>1. Zero = [is |-> "pad", agree |-> TRUE, units |-> <<0, 0>>, length |-> 0,
              stamp |-> [of |-> <<>>, at |-> 0, nth |-> 0]]
  BY DEF Zero, Plain, Lines, Fill
<1>2. [of |-> <<>>, at |-> 0, nth |-> 0] \in Stamps
  <2>1. <<>> \in Seq(Nat)
    OBVIOUS
  <2> QED
    BY <2>1 DEF Stamps
<1> QED
  BY <1>1, <1>2 DEF Word, Sections

(* Tick by its parts.                                                      *)
Shifted(w) ==
  /\ IF chStState = "CS1" THEN SerReset /\ ERR' = TRUE ELSE Shift(w) /\ ERR' = ErrNow(w)
  /\ DataMod(w)

LEMMA TickParts ==
  ASSUME Tick
  PROVE  /\ \E w \in {Sent, Spoilt(Sent)} : Shifted(w)
         /\ SensorStep /\ WriteFifo /\ TagFrame
         /\ stale' = (IF chStState = "CS1" THEN sDataIn.is = "header" ELSE stale)
         /\ UNCHANGED <<setup, timerVars, START_IN, start_sign>>
  BY DEF Tick, Shifted, signVars

(* The deserializer: what a step without an error says of the one before.  *)
LEMMA ShiftFacts ==
  ASSUME SensorTypes, chStState \in {"CS0", "CS1", "CS2"}, NEW w \in Word, Shifted(w)
  PROVE  /\ shiftState' \in {"S1", "S2", "S3"} /\ iFrameCtr' \in 0 .. FrameSize /\ ERR' \in BOOLEAN
         /\ shiftState' = "S1" => ERR' /\ (iFrameCtr' = 0 \/ (shiftState = "S1" /\ iFrameCtr' = iFrameCtr))
         /\ chStState = "CS1" => ERR' /\ shiftState' = "S1"
         /\ shiftState = "S3" => ERR' /\ (chStState = "CS1" \/ shiftState' = "S3")
         /\ shiftState = "S1" /\ ~ERR' =>
              shiftState' = "S2" /\ iFrameCtr' = 1 /\ w.is = "header"
         /\ shiftState = "S2" /\ chStState # "CS1" =>
              /\ ~ERR'
              /\ \/ shiftState' = "S2" /\ iFrameCtr = FrameSize /\ iFrameCtr' = 1 /\ w.is = "header"
                 \/ shiftState' = "S3" /\ iFrameCtr' = iFrameCtr
                      /\ (iFrameCtr = FrameSize \/ (iFrameCtr = 2 /\ ~w.agree))
                 \/ shiftState' = "S2" /\ iFrameCtr # FrameSize /\ iFrameCtr' = iFrameCtr + 1
                      /\ (iFrameCtr = 2 => w.agree)
         /\ shiftState' = "S2" => shiftState = "S2" \/ (w.is = "header" /\ iFrameCtr' = 1)
         /\ shiftState' = "S3" => shiftState = "S3" \/ (shiftState = "S2" /\ ~ERR')
         /\ shiftState' # "S1" =>
              iFrameCtr' > 0 \/ (shiftState = "S3" /\ iFrameCtr' = iFrameCtr)
<1>0. FrameSize \in Nat /\ FrameSize > 4 /\ iFrameCtr \in 0 .. FrameSize /\ ERR \in BOOLEAN
  BY SetupFacts DEF SensorTypes
<1>1. CASE chStState = "CS1"
  BY <1>0, <1>1 DEF Shifted, SerReset, SensorTypes
<1>2. CASE chStState # "CS1"
  <2>0. Shift(w) /\ ERR' = ErrNow(w)
    BY <1>2 DEF Shifted
  <2>1. CASE shiftState = "S1"
    <3>1. CASE w.is = "header"
      BY <1>0, <1>2, <2>0, <2>1, <3>1 DEF Shift, ErrNow, SensorTypes
    <3>2. CASE w.is # "header"
      BY <1>0, <1>2, <2>0, <2>1, <3>2 DEF Shift, ErrNow, SensorTypes
    <3> QED
      BY <3>1, <3>2
  <2>2. CASE shiftState = "S2"
    <3>1. ERR' = FALSE
      BY <2>0, <2>2 DEF ErrNow
    <3>2. \/ shiftState' = "S2" /\ iFrameCtr = FrameSize /\ iFrameCtr' = 1 /\ w.is = "header"
          \/ shiftState' = "S3" /\ iFrameCtr' = iFrameCtr
               /\ (iFrameCtr = FrameSize \/ (iFrameCtr = 2 /\ ~w.agree))
          \/ shiftState' = "S2" /\ iFrameCtr # FrameSize /\ iFrameCtr' = iFrameCtr + 1
               /\ (iFrameCtr = 2 => w.agree)
      <4>1. CASE iFrameCtr = FrameSize /\ w.is = "header"
        BY <1>0, <2>0, <2>2, <4>1 DEF Shift, LengthDiffers
      <4>2. CASE (iFrameCtr = FrameSize /\ w.is # "header") \/ LengthDiffers(w)
        BY <1>0, <2>0, <2>2, <4>2 DEF Shift, LengthDiffers
      <4>3. CASE iFrameCtr # FrameSize /\ ~LengthDiffers(w)
        BY <1>0, <2>0, <2>2, <4>3 DEF Shift, LengthDiffers
      <4> QED
        BY <4>1, <4>2, <4>3
    <3>3. /\ iFrameCtr' \in 0 .. FrameSize /\ iFrameCtr' > 0
          /\ shiftState' \in {"S2", "S3"}
      BY <1>0, <3>2
    <3>4. shiftState' = "S3" \/ shiftState' = "S2"
      BY <3>3
    <3> QED
      BY <1>2, <2>2, <3>1, <3>2, <3>3, <3>4, ZenonT(20)
  <2>3. CASE shiftState = "S3"
    BY <1>0, <1>2, <2>0, <2>3 DEF Shift, ErrNow, SensorTypes
  <2> QED
    BY <2>1, <2>2, <2>3 DEF SensorTypes
<1> QED
  BY <1>1, <1>2

LEMMA SensorFacts ==
  ASSUME SensorTypes, SensorStep, setup' = setup
  PROVE  /\ setup' \in Setups /\ frame' \in Frames' /\ Frames' = Frames /\ FrameSize' = FrameSize
         /\ pos' \in 0 .. FrameSize - 1 /\ frames' \in Nat
         /\ \/ UNCHANGED <<frame, pos, frames>> /\ (Streaming => pos = FrameSize - 1)
            \/ Streaming /\ pos < FrameSize - 1 /\ pos' = pos + 1 /\ UNCHANGED <<frame, frames>>
            \/ Streaming /\ pos = FrameSize - 1 /\ pos' = 0 /\ frames' = frames + 1
<1>1. FrameSize \in Nat /\ FrameSize > 4 /\ pos \in 0 .. FrameSize - 1 /\ frames \in Nat
      /\ setup.frames \in Nat
  BY SetupFacts, SensorAssumption DEF SensorTypes
<1>2. Frames' = Frames /\ FrameSize' = FrameSize /\ setup' \in Setups
  BY DEF Frames, FrameSize, SensorTypes
<1>3. CASE ~(Streaming /\ (pos < FrameSize - 1 \/ frames < setup.frames))
  BY <1>1, <1>2, <1>3 DEF SensorStep, SensorTypes
<1>4. CASE Streaming /\ pos < FrameSize - 1
  <2>1. (pos + 1) % FrameSize = pos + 1 /\ pos + 1 # 0
    BY <1>1, <1>4
  <2> QED
    BY <1>1, <1>2, <1>4, <2>1 DEF SensorStep, SensorTypes
<1>5. CASE Streaming /\ pos = FrameSize - 1 /\ frames < setup.frames
  <2>1. (pos + 1) % FrameSize = 0
    BY <1>1, <1>5
  <2> QED
    BY <1>1, <1>2, <1>5, <2>1 DEF SensorStep, SensorTypes
<1> QED
  BY <1>1, <1>3, <1>4, <1>5
-----------------------------------------------------------------------------
(* The state machine.                                                      *)

LEMMA Counts ==
  /\ \A n \in Nat : 0 < n /\ n < 65536 => (n + 65535) % 65536 = n - 1
  /\ \A n \in Nat : 0 < n /\ n < 16 => (n + 15) % 16 = n - 1 /\ n % 16 = n
  /\ \A n \in Nat : 1 < n /\ n < 16 => (n + 14) % 16 = n - 2
  /\ \A n \in Nat : /\ (n + 65535) % 65536 \in Nat /\ (n + 15) % 16 \in 0 .. 15
                    /\ n % 16 \in 0 .. 15 /\ (n + 14) % 16 \in 0 .. 15
  OBVIOUS

(* One step, as it depends on the state: what flags go with it.            *)
LEMMA DecodeTypes ==
  ASSUME ModTypes, Decode
  PROVE  /\ dataState' \in {"HeaderSt", "FramectrSt", "LengthSt", "State0St", "StateSt", "TrailerSt"}
         /\ wordCtr' \in Nat /\ stateCtr' \in 0 .. 15 /\ sState0LSB' \in BOOLEAN
         /\ sDataOut' \in [word : Word, rows : Bits] /\ flag' \in Flags
         /\ sDataOut'.word = sDataIn /\ FlagState'
         /\ dataState = "HeaderSt" => flag' = (IF sDataIn.is = "header" THEN "header" ELSE "none")
         /\ dataState = "FramectrSt" => flag' = "counter"
         /\ dataState = "LengthSt" => flag' = "length"
         /\ dataState \in {"State0St", "StateSt"} => flag' = "data"
         /\ dataState = "TrailerSt" => flag' = "trailer"
<1>0. /\ sDataIn \in Word /\ sDataIn.units \in Nat \X Nat /\ sDataIn.length \in Nat
      /\ wordCtr \in Nat /\ stateCtr \in 0 .. 15 /\ sState0LSB \in BOOLEAN
  BY DEF ModTypes, Word
<1>1. \A s \in Flags, r \in Bits : Emit(s, r) =>
        /\ flag' = s /\ flag' \in Flags /\ sDataOut' \in [word : Word, rows : Bits]
        /\ sDataOut'.word = sDataIn
  BY <1>0 DEF Emit
<1>2. NoRows \in Bits /\ <<TRUE, FALSE>> \in Bits /\ \A b \in BOOLEAN : <<FALSE, b>> \in Bits
  BY DEF NoRows, Bits
<1>3. CASE dataState = "HeaderSt"
  <2>1. CASE sDataIn.is = "header"
    <3>1. Emit("header", NoRows) /\ dataState' = "FramectrSt" /\ UNCHANGED <<wordCtr, stateCtr, sState0LSB>>
      BY <1>3, <2>1 DEF Decode
    <3> QED
      BY <1>0, <1>1, <1>2, <1>3, <2>1, <3>1 DEF Flags, FlagState
  <2>2. CASE sDataIn.is # "header"
    <3>1. Emit("none", NoRows) /\ dataState' = "HeaderSt" /\ UNCHANGED <<wordCtr, stateCtr, sState0LSB>>
      BY <1>3, <2>2 DEF Decode
    <3> QED
      BY <1>0, <1>1, <1>2, <1>3, <2>2, <3>1 DEF Flags, FlagState
  <2> QED
    BY <2>1, <2>2
<1>4. CASE dataState = "FramectrSt"
  <2>1. Emit("counter", NoRows) /\ dataState' = "LengthSt" /\ UNCHANGED <<wordCtr, stateCtr, sState0LSB>>
    BY <1>4 DEF Decode
  <2> QED
    BY <1>0, <1>1, <1>2, <1>4, <2>1 DEF Flags, FlagState
<1>5. CASE dataState = "LengthSt"
  <2>1. /\ Emit("length", NoRows) /\ dataState' \in {"TrailerSt", "State0St"}
        /\ wordCtr' = sDataIn.length /\ sState0LSB' = TRUE /\ stateCtr' = stateCtr
    BY <1>5 DEF Decode, AfterLength
  <2> QED
    BY <1>0, <1>1, <1>2, <1>5, <2>1 DEF Flags, FlagState
<1>6. CASE dataState \in {"State0St", "StateSt"}
  <2>1. dataState' \in {"TrailerSt", "State0St", "StateSt"}
    BY <1>6 DEF Decode, State0, StateN, AfterData
  <2>2. wordCtr' \in Nat
    <3>1. wordCtr' = CountDown
      BY <1>6 DEF Decode, State0, StateN
    <3> QED
      BY <1>0, <3>1, Counts DEF CountDown
  <2>3. stateCtr' \in 0 .. 15
    <3>1. sDataIn.units[1] \in Nat /\ sDataIn.units[2] \in Nat
      BY <1>0
    <3>2. stateCtr' \in {(sDataIn.units[1] + 15) % 16, sDataIn.units[2] % 16, (stateCtr + 14) % 16}
      BY <1>6 DEF Decode, State0, StateN
    <3> QED
      BY <1>0, <3>1, <3>2, Counts
  <2>4. sState0LSB' \in BOOLEAN
    <3>1. CASE dataState = "State0St" /\ sState0LSB
      BY <3>1, ZenonT(20) DEF Decode, State0
    <3>2. CASE dataState = "State0St" /\ ~sState0LSB
      BY <3>2, ZenonT(20) DEF Decode, State0
    <3>3. CASE dataState = "StateSt"
      BY <3>3, ZenonT(20) DEF Decode, StateN
    <3> QED
      BY <1>6, <3>1, <3>2, <3>3
  <2>5. \E r \in Bits : Emit("data", r)
    <3>1. CASE dataState = "State0St" /\ sState0LSB
      BY <1>2, <3>1 DEF Decode, State0
    <3>2. CASE dataState = "State0St" /\ ~sState0LSB
      <4>1. Emit("data", <<FALSE, wordCtr' # 0>>)
        BY <3>2 DEF Decode, State0
      <4> QED
        BY <1>2, <4>1
    <3>3. CASE dataState = "StateSt"
      BY <1>2, <3>3 DEF Decode, StateN
    <3> QED
      BY <1>6, <3>1, <3>2, <3>3
  <2> QED
    BY <1>1, <1>6, <2>1, <2>2, <2>3, <2>4, <2>5 DEF Flags, FlagState
<1>7. CASE dataState = "TrailerSt"
  <2>1. Emit("trailer", NoRows) /\ dataState' = "HeaderSt" /\ UNCHANGED <<wordCtr, stateCtr, sState0LSB>>
    BY <1>7 DEF Decode
  <2> QED
    BY <1>0, <1>1, <1>2, <1>7, <2>1 DEF Flags, FlagState
<1> QED
  BY <1>3, <1>4, <1>5, <1>6, <1>7 DEF ModTypes

(* A row, its states, and what follows them.                               *)
LEMMA RowThenStates ==
  ASSUME NEW f \in Seq(Nat), InRows(f), NEW i \in 1 .. Len(f), IsRow(f[i])
  PROVE  f[i] \in Nat /\ 0 < f[i] /\ f[i] < 16 /\ i + 1 \in 1 .. Len(f) /\ StatesFrom(f, i + 1, f[i])
<1>1. Len(f) \in Nat /\ f[i] \in Nat /\ i \in DOMAIN f /\ DOMAIN f = 1 .. Len(f)
  BY LenProperties
<1>2. /\ f[i] < 16 /\ i + f[i] + 1 <= Len(f) + 1
      /\ (i + f[i] + 1 \in DOMAIN f => IsRow(f[i + f[i] + 1]))
      /\ \A k \in i + 1 .. i + f[i] : ~IsRow(f[k])
  <2>1. (i + f[i] + 1) - 1 = i + f[i]
    BY <1>1
  <2> QED
    BY <1>1, <2>1 DEF InRows
<1>3. f[i] > 0
  BY DEF IsRow
<1> DEFINE j == i + 1
           n == f[i]
<1>4. j + n = i + f[i] + 1 /\ j + n - 1 = i + f[i] /\ j \in 1 .. Len(f)
  <2>1. \A a, b, l \in Nat : b > 0 /\ a + b + 1 <= l + 1 =>
          /\ (a + 1) + b = a + b + 1 /\ (a + 1) + b - 1 = a + b /\ a + 1 \in 1 .. l
    OBVIOUS
  <2>2. i \in Nat /\ n \in Nat /\ n > 0 /\ Len(f) \in Nat /\ i + n + 1 <= Len(f) + 1
    BY <1>1, <1>2, <1>3
  <2> HIDE DEF n
  <2>3. j + n = i + n + 1 /\ j + n - 1 = i + n /\ j \in 1 .. Len(f)
    BY <2>1, <2>2
  <2> QED
    BY <2>3 DEF n
<1>5. j + n <= Len(f) => j + n \in DOMAIN f
  BY <1>1, <1>4
<1>6. j + n <= Len(f) + 1 /\ (j + n <= Len(f) => IsRow(f[j + n]))
      /\ \A k \in j .. j + n - 1 : ~IsRow(f[k])
  BY <1>2, <1>4, <1>5
<1> HIDE DEF j, n
<1>7. StatesFrom(f, j, n)
  BY <1>6 DEF StatesFrom
<1> QED
  BY <1>1, <1>2, <1>3, <1>4, <1>7 DEF j, n

LEMMA FewerStates ==
  ASSUME NEW f \in Seq(Nat), NEW i \in Nat, NEW n \in Nat, StatesFrom(f, i, n),
         NEW m \in 0 .. n
  PROVE  StatesFrom(f, i + m, n - m)
<1> DEFINE j == i + m
           l == n - m
<1>1. j + l = i + n /\ j + l - 1 = i + n - 1 /\ j .. i + n - 1 \subseteq i .. i + n - 1
  OBVIOUS
<1> HIDE DEF j, l
<1>2. StatesFrom(f, j, l)
  BY <1>1 DEF StatesFrom
<1> QED
  BY <1>2 DEF j, l

(* A data word: the row marker stands at the rows, and the state machine   *)
(* keeps track of the states and of the words.                             *)
LEMMA DecodeData ==
  ASSUME SensorTypes, ModTypes, NEW f \in Frames, NEW q \in Nat, Holds(sDataIn, f, q),
         AtData(f, q), Decode
  PROVE  /\ AtData(f, q + 1)' \/ (dataState' = "TrailerSt" /\ q + 1 = Words(f) + 3)
         /\ \A l \in 1 .. 2 : sDataOut'.rows[l] = IsRow(sDataOut'.word.units[l])
<1> DEFINE i == FirstUnit(q)
           u == sDataIn.units
           w == Words(f)
           n == Len(f)
<1>1. /\ n \in Nat /\ w \in Nat /\ w < 65536 /\ q \in 3 .. w + 2
      /\ 2 * w - 1 <= n /\ n <= 2 * w /\ wordCtr = w + 3 - q
  <2>1. FrameSize \in Nat /\ FrameSize <= 65535 /\ w \in Nat /\ w + 4 <= FrameSize
    BY SetupFacts DEF SensorTypes
  <2>2. w < 65536
    BY <2>1
  <2> QED
    BY <2>2, SetupFacts DEF SensorTypes, AtData
<1>2. f \in Seq(Nat) /\ InRows(f) /\ DOMAIN f = 1 .. n /\ \A k \in 1 .. n : f[k] \in Nat
  <2>1. f \in Seq(Nat) /\ InRows(f)
    BY SetupFacts DEF SensorTypes
  <2> QED
    BY <2>1
<1>3. /\ u = UnitsAt(f, q) /\ sDataOut'.word.units = u
      /\ wordCtr' = CountDown /\ dataState' = AfterData(stateCtr')
      /\ sState0LSB' \in BOOLEAN /\ stateCtr \in Nat
  <2>1. Section(f, q) = "data"
    BY <1>1, SectionFacts
  <2>2. u = UnitsAt(f, q)
    BY <2>1 DEF Holds
  <2>3. sDataOut'.word = sDataIn /\ sState0LSB' \in BOOLEAN
    BY DecodeTypes
  <2>4. wordCtr' = CountDown /\ dataState' = AfterData(stateCtr')
    BY DEF Decode, State0, StateN, AtData
  <2> QED
    BY <2>2, <2>3, <2>4 DEF ModTypes
<1> HIDE DEF w, n
<1>4. /\ i \in 1 .. n /\ FirstUnit(q + 1) = i + 2
      /\ q < w + 2 => i + 1 \in 1 .. n
      /\ q = w + 2 => n <= i + 1
  <2>1. \A a, b, c \in Nat : c \in 3 .. b + 2 /\ 2 * b - 1 <= a /\ a <= 2 * b =>
          LET j == 2 * (c - 2) - 1
          IN  /\ j \in 1 .. a /\ 2 * ((c + 1) - 2) - 1 = j + 2
              /\ (c < b + 2 => j + 1 \in 1 .. a) /\ (c = b + 2 => a <= j + 1)
    OBVIOUS
  <2> QED
    BY <1>1, <2>1 DEF FirstUnit
<1>5. /\ wordCtr \in Nat /\ 0 < wordCtr /\ wordCtr < 65536
      /\ wordCtr - 1 = w + 3 - (q + 1) /\ (wordCtr - 1 = 0 <=> q = w + 2)
      /\ wordCtr - 1 # 0 => q + 1 \in 3 .. w + 2
  <2>1. \A b, c \in Nat : c \in 3 .. b + 2 /\ b < 65536 =>
          /\ b + 3 - c \in Nat /\ 0 < b + 3 - c /\ b + 3 - c < 65536
          /\ (b + 3 - c) - 1 = b + 3 - (c + 1) /\ ((b + 3 - c) - 1 = 0 <=> c = b + 2)
          /\ ((b + 3 - c) - 1 # 0 => c + 1 \in 3 .. b + 2)
    OBVIOUS
  <2> QED
    BY <1>1, <2>1
<1>6. wordCtr' = wordCtr - 1
  BY <1>3, <1>5, Counts DEF CountDown
<1>7. /\ u[1] = f[i] /\ u[1] \in Nat /\ u[2] \in Nat
      /\ u[2] = IF i + 1 \in 1 .. n THEN f[i + 1] ELSE 0
  <2> HIDE DEF i, u
  <2>1. u[1] = UnitAt(f, i) /\ u[2] = UnitAt(f, i + 1)
    BY <1>3 DEF UnitsAt, i
  <2> QED
    BY <1>2, <1>4, <2>1 DEF UnitAt, Fill
<1> HIDE DEF i, u
<1>8. ASSUME NEW r \in Nat, r < 16, StatesFrom(f, i + 2, r), stateCtr' = r,
             wordCtr' # 0 => (sState0LSB' <=> r % 2 = 0)
      PROVE  AtData(f, q + 1)' \/ (dataState' = "TrailerSt" /\ q + 1 = Words(f) + 3)
  <2>1. CASE wordCtr' = 0
    <3>1. dataState' = "TrailerSt"
      BY <1>3, <2>1 DEF AfterData
    <3>2. q + 1 = w + 3
      BY <1>1, <1>5, <1>6, <2>1
    <3> QED
      BY <3>1, <3>2 DEF w
  <2>2. CASE wordCtr' # 0
    <3>1. q + 1 \in 3 .. w + 2 /\ wordCtr' = w + 3 - (q + 1)
      BY <1>5, <1>6, <2>2
    <3>2. StatesFrom(f, FirstUnit(q + 1), r)
      BY <1>4, <1>8
    <3>3. dataState' = IF r <= 1 THEN "State0St" ELSE "StateSt"
      BY <1>3, <1>8, <2>2 DEF AfterData
    <3>4. CASE r = 0
      BY <1>3, <1>8, <2>2, <3>1, <3>2, <3>3, <3>4 DEF AtData, StatesFrom, w
    <3>5. CASE r = 1
      BY <1>3, <1>8, <2>2, <3>1, <3>2, <3>3, <3>5 DEF AtData, StatesFrom, w
    <3>6. CASE r > 1
      BY <1>3, <1>8, <2>2, <3>1, <3>2, <3>3, <3>6 DEF AtData, StatesFrom, w
    <3> QED
      BY <3>4, <3>5, <3>6
  <2> QED
    BY <2>1, <2>2
<1>9. ASSUME NEW a \in BOOLEAN, NEW b \in BOOLEAN, sDataOut' = [word |-> sDataIn, rows |-> <<a, b>>],
             a <=> IsRow(u[1]), b <=> IsRow(u[2])
      PROVE  \A l \in 1 .. 2 : sDataOut'.rows[l] = IsRow(sDataOut'.word.units[l])
  <2>1. sDataOut'.rows[1] = a /\ sDataOut'.rows[2] = b
    BY <1>9
  <2>2. IsRow(u[1]) \in BOOLEAN /\ IsRow(u[2]) \in BOOLEAN
    BY DEF IsRow
  <2>3. sDataOut'.rows[1] = IsRow(u[1]) /\ sDataOut'.rows[2] = IsRow(u[2])
    BY <1>9, <2>1, <2>2, ZenonT(20)
  <2>4. sDataOut'.word.units = u
    BY <1>3
  <2>5. \A l \in 1 .. 2 : l = 1 \/ l = 2
    OBVIOUS
  <2> QED
    BY <2>3, <2>4, <2>5, ZenonT(20)
<1>10. CASE dataState = "State0St" /\ sState0LSB = TRUE /\ StatesFrom(f, i, 0)
  <2> DEFINE m == f[i]
  <2>1. IsRow(u[1])
    BY <1>4, <1>7, <1>10 DEF StatesFrom, n
  <2>2. m \in Nat /\ 0 < m /\ m < 16 /\ i + 1 \in 1 .. n /\ StatesFrom(f, i + 1, m)
    BY <1>2, <1>4, <1>7, <2>1, RowThenStates DEF n
  <2>3. ~IsRow(u[2])
    BY <1>4, <1>7, <2>2 DEF StatesFrom
  <2>4. StatesFrom(f, i + 2, m - 1)
    <3>1. i + 1 \in Nat /\ 1 \in 0 .. m /\ (i + 1) + 1 = i + 2
      BY <1>4, <2>2
    <3>2. StatesFrom(f, (i + 1) + 1, m - 1)
      BY <1>2, <2>2, <3>1, FewerStates
    <3> QED
      BY <3>1, <3>2
  <2>5. /\ stateCtr' = (u[1] + 15) % 16 /\ sState0LSB' = (u[1] % 2 = 1 \/ wordCtr' = 0)
        /\ Emit("data", <<TRUE, FALSE>>)
    BY <1>10 DEF Decode, State0, OddOnly, u
  <2> HIDE DEF m
  <2>6. stateCtr' = m - 1 /\ m - 1 \in Nat /\ m - 1 < 16
    BY <1>7, <2>2, <2>5, Counts DEF m
  <2>7. wordCtr' # 0 => (sState0LSB' <=> (m - 1) % 2 = 0)
    <3>1. m % 2 = 1 <=> (m - 1) % 2 = 0
      BY <2>2
    <3>2. u[1] = m
      BY <1>7 DEF m
    <3> QED
      BY <2>5, <3>1, <3>2
  <2> QED
    BY <1>8, <1>9, <2>1, <2>3, <2>4, <2>5, <2>6, <2>7 DEF Emit
<1>11. CASE dataState = "State0St" /\ sState0LSB = FALSE /\ StatesFrom(f, i, 1)
  <2>1. ~IsRow(u[1])
    BY <1>4, <1>7, <1>11 DEF StatesFrom
  <2>2. i + 1 \in 1 .. n => IsRow(f[i + 1]) /\ i + 2 \in 1 .. n
    <3> SUFFICES ASSUME i + 1 \in 1 .. n PROVE IsRow(f[i + 1]) /\ i + 2 \in 1 .. n
      OBVIOUS
    <3>1. IsRow(f[i + 1])
      BY <1>4, <1>11 DEF StatesFrom, n
    <3>2. (i + 1) + 1 \in 1 .. n /\ (i + 1) + 1 = i + 2
      BY <1>2, <1>4, <3>1, RowThenStates DEF n
    <3> QED
      BY <3>1, <3>2
  <2>3. IsRow(u[2]) <=> wordCtr' # 0
    <3>1. CASE wordCtr - 1 # 0
      <4>1. i + 1 \in 1 .. n
        BY <1>1, <1>4, <1>5, <3>1
      <4> QED
        BY <1>6, <1>7, <2>2, <3>1, <4>1
    <3>2. CASE wordCtr - 1 = 0
      <4>1. ~(i + 1 \in 1 .. n)
        BY <1>1, <1>4, <1>5, <2>2, <3>2
      <4> QED
        BY <1>6, <1>7, <3>2, <4>1 DEF IsRow
    <3> QED
      BY <3>1, <3>2
  <2>4. /\ stateCtr' = u[2] % 16 /\ sState0LSB' = ~(u[2] % 2 = 1)
        /\ Emit("data", <<FALSE, wordCtr' # 0>>)
    BY <1>11 DEF Decode, State0, OddOnly, u
  <2>5. \A l \in 1 .. 2 : sDataOut'.rows[l] = IsRow(sDataOut'.word.units[l])
    BY <1>9, <2>1, <2>3, <2>4 DEF Emit
  <2>6. CASE wordCtr - 1 = 0
    <3>1. dataState' = "TrailerSt" /\ q + 1 = w + 3
      BY <1>1, <1>3, <1>5, <1>6, <2>6 DEF AfterData
    <3> QED
      BY <2>5, <3>1 DEF w
  <2>7. CASE wordCtr - 1 # 0
    <3> DEFINE m == f[i + 1]
    <3>1. i + 1 \in 1 .. n /\ IsRow(m) /\ u[2] = m
      BY <1>1, <1>4, <1>5, <1>7, <2>2, <2>7
    <3>2. m \in Nat /\ 0 < m /\ m < 16 /\ StatesFrom(f, i + 2, m)
      <4> DEFINE k == i + 1
      <4>1. k + 1 = i + 2
        BY <1>4
      <4>2. k \in 1 .. Len(f) /\ IsRow(f[k])
        BY <3>1 DEF n
      <4> HIDE DEF k
      <4>3. f[k] \in Nat /\ 0 < f[k] /\ f[k] < 16 /\ StatesFrom(f, k + 1, f[k])
        BY <1>2, <4>2, RowThenStates
      <4> QED
        BY <4>1, <4>3 DEF k
    <3> HIDE DEF m
    <3>3. stateCtr' = m
      BY <2>4, <3>1, <3>2, Counts
    <3>4. sState0LSB' <=> m % 2 = 0
      <4>1. ~(m % 2 = 1) <=> (m % 2 = 0)
        BY <3>2
      <4> QED
        BY <2>4, <3>1, <4>1
    <3> QED
      BY <1>8, <2>5, <3>2, <3>3, <3>4
  <2> QED
    BY <2>6, <2>7
<1>12. CASE /\ dataState = "StateSt" /\ 1 < stateCtr /\ stateCtr < 16
            /\ sState0LSB <=> stateCtr % 2 = 0
            /\ StatesFrom(f, i, stateCtr)
  <2> DEFINE m == stateCtr
  <2>0. m \in Nat /\ 1 < m /\ m < 16
    BY <1>3, <1>12
  <2>1. ~IsRow(f[i]) /\ ~IsRow(f[i + 1]) /\ i + 1 \in 1 .. n
    <3>1. i \in i .. i + m - 1 /\ i + 1 \in i .. i + m - 1 /\ i + m <= n + 1
      BY <1>1, <1>4, <1>12, <2>0 DEF StatesFrom, n
    <3>2. i + 1 \in 1 .. n
      BY <1>1, <1>4, <2>0, <3>1
    <3> QED
      BY <1>12, <3>1, <3>2 DEF StatesFrom
  <2>2. ~IsRow(u[1]) /\ ~IsRow(u[2])
    BY <1>7, <2>1
  <2>3. /\ stateCtr' = (m + 14) % 16 /\ sState0LSB' = (sState0LSB \/ wordCtr' = 0)
        /\ Emit("data", NoRows)
    BY <1>12 DEF Decode, StateN
  <2>4. StatesFrom(f, i + 2, m - 2)
    <3>1. i \in Nat /\ 2 \in 0 .. m
      BY <1>4, <2>0
    <3> QED
      BY <1>2, <1>12, <2>0, <3>1, FewerStates
  <2>5. stateCtr' = m - 2 /\ m - 2 \in Nat /\ m - 2 < 16
    BY <2>0, <2>3, Counts
  <2>6. wordCtr' # 0 => (sState0LSB' <=> (m - 2) % 2 = 0)
    <3>1. m % 2 = 0 <=> (m - 2) % 2 = 0
      BY <2>0
    <3> QED
      BY <1>12, <2>3, <3>1
  <2> QED
    BY <1>8, <1>9, <2>2, <2>3, <2>4, <2>5, <2>6 DEF Emit, NoRows
<1> QED
  BY <1>10, <1>11, <1>12 DEF AtData, i

(* A word of a frame: the flag says which section it is from, and the      *)
(* state machine is ready for the next one.                                *)
LEMMA DecodeAt ==
  ASSUME SensorTypes, ModTypes, NEW f \in Frames, NEW q \in Nat, Holds(sDataIn, f, q),
         At(f, q), Decode
  PROVE  /\ At(f, q + 1)' /\ flag' = Flagged(Section(f, q)) /\ Holds(sDataOut'.word, f, q)
         /\ flag' = "data" =>
              \A l \in 1 .. 2 : sDataOut'.rows[l] = IsRow(sDataOut'.word.units[l])
<1> DEFINE w == Words(f)
<1>1. w \in Nat /\ f \in Seq(Nat) /\ Len(f) \in Nat /\ InRows(f) /\ Len(f) >= 2 * w - 1
  BY SetupFacts DEF SensorTypes
<1>2. sDataOut'.word = sDataIn /\ Holds(sDataOut'.word, f, q) /\ sDataIn.is = Section(f, q)
  BY DecodeTypes DEF Holds
<1>3. /\ Section(f, q) = "header" <=> q = 0
      /\ Section(f, q) = "counter" <=> q = 1
      /\ Section(f, q) = "length" <=> q = 2
      /\ Section(f, q) = "data" <=> q \in 3 .. w + 2
      /\ Section(f, q) = "trailer" <=> q = w + 3
      /\ Section(f, q) = "pad" <=> q > w + 3
  BY <1>1, SectionFacts
<1> HIDE DEF w
<1>4. CASE dataState = "HeaderSt" /\ q = 0
  <2>1. sDataIn.is = "header" /\ Section(f, q) = "header"
    BY <1>2, <1>3, <1>4
  <2>2. dataState' = "FramectrSt" /\ flag' = "header"
    BY <1>4, <2>1, DecodeTypes DEF Decode
  <2> QED
    BY <1>2, <1>4, <2>1, <2>2 DEF At, Flagged
<1>5. CASE dataState = "HeaderSt" /\ q > w + 3
  <2>1. sDataIn.is = "pad" /\ Section(f, q) = "pad"
    BY <1>2, <1>3, <1>5
  <2>2. dataState' = "HeaderSt" /\ flag' = "none"
    BY <1>5, <2>1, DecodeTypes DEF Decode
  <2>3. q + 1 > w + 3
    BY <1>1, <1>5 DEF w
  <2> QED
    BY <1>2, <2>1, <2>2, <2>3 DEF At, Flagged, w
<1>6. CASE dataState = "FramectrSt" /\ q = 1
  <2>1. Section(f, q) = "counter"
    BY <1>3, <1>6
  <2>2. dataState' = "LengthSt" /\ flag' = "counter"
    BY <1>6, DecodeTypes DEF Decode
  <2> QED
    BY <1>2, <1>6, <2>1, <2>2 DEF At, Flagged
<1>7. CASE dataState = "LengthSt" /\ q = 2
  <2>1. Section(f, q) = "length" /\ sDataIn.length = w
    BY <1>2, <1>3, <1>7 DEF Holds, w
  <2>2. flag' = "length" /\ dataState' = AfterLength(w) /\ wordCtr' = w /\ sState0LSB' = TRUE
    BY <1>7, <2>1, DecodeTypes DEF Decode
  <2>3. CASE w = 0
    BY <1>2, <1>7, <2>1, <2>2, <2>3 DEF At, AfterLength, Flagged, w
  <2>4. CASE w # 0
    <3>1. dataState' = "State0St"
      BY <2>2, <2>4 DEF AfterLength
    <3>2. 3 \in 3 .. w + 2 /\ w = w + 3 - 3 /\ Len(f) > 0 /\ FirstUnit(3) = 1
      BY <1>1, <2>4 DEF w, FirstUnit
    <3>3. IsRow(f[1])
      <4>1. f # <<>>
        BY <3>2
      <4> QED
        BY <1>1, <4>1 DEF InRows
    <3>4. StatesFrom(f, 1, 0)
      BY <1>1, <3>2, <3>3 DEF StatesFrom
    <3>5. AtData(f, 3)'
      BY <2>2, <3>1, <3>2, <3>4 DEF AtData, w
    <3> QED
      BY <1>2, <1>7, <2>1, <2>2, <3>5 DEF At, Flagged
  <2> QED
    BY <2>3, <2>4
<1>8. CASE AtData(f, q)
  <2>1. flag' = "data" /\ Section(f, q) = "data"
    BY <1>3, <1>8, DecodeTypes DEF AtData, w
  <2>2. AtData(f, q + 1)' \/ (dataState' = "TrailerSt" /\ q + 1 = w + 3)
    BY <1>8, DecodeData DEF w
  <2>3. At(f, q + 1)'
    BY <2>2 DEF At, w
  <2>4. \A l \in 1 .. 2 : sDataOut'.rows[l] = IsRow(sDataOut'.word.units[l])
    BY <1>8, DecodeData
  <2> QED
    BY <1>2, <2>1, <2>3, <2>4 DEF Flagged
<1>9. CASE dataState = "TrailerSt" /\ q = w + 3
  <2>1. Section(f, q) = "trailer"
    BY <1>3, <1>9
  <2>2. dataState' = "HeaderSt" /\ flag' = "trailer"
    BY <1>9, DecodeTypes DEF Decode
  <2>3. q + 1 > w + 3
    BY <1>1, <1>9 DEF w
  <2> QED
    BY <1>2, <2>1, <2>2, <2>3 DEF At, Flagged, w
<1> QED
  BY <1>4, <1>5, <1>6, <1>7, <1>8, <1>9 DEF At, w
-----------------------------------------------------------------------------
(* The inductive invariant.                                                *)

Flow   == ResetState /\ TimerState /\ Lockstep /\ FlagState
Framed == InFrame /\ FlagsRight /\ RowsFlagged
Record == FramesRecorded /\ LastWritten /\ Chained /\ RowsMarked
Tally  == CountersLinked /\ CountersTell
IInv   == Types /\ Flow /\ Framed /\ Record /\ Tally /\ StrobeState

LEMMA DinType ==
  ASSUME Types
  PROVE  Din \in Entries
<1>1. frame_counter % CountMod \in Nat
  BY SetupFacts DEF Types, SensorTypes, TopTypes
<1>2. /\ sDataOut.word.units \in Nat \X Nat /\ sDataOut.rows \in Bits
      /\ sDataOut.word.stamp.nth \in Nat
  BY DEF Types, ModTypes, Word, Stamps
<1> QED
  BY <1>1, <1>2 DEF Types, SensorTypes, ModTypes, TopTypes, Din, Entries

(* What a tick does to the FIFO.                                           *)
LEMMA WriteFacts ==
  ASSUME Types, WriteFifo
  PROVE  /\ fifo' \in Seq(Entries) /\ full' \in BOOLEAN /\ (full => full')
         /\ \/ fifo' = fifo /\ (full' \/ flag = "none" \/ ~sFifoWrEn)
            \/ /\ fifo' = Append(fifo, Din) /\ sFifoWrEn /\ flag # "none"
               /\ Len(fifo') = Len(fifo) + 1 /\ fifo'[Len(fifo) + 1] = Din
               /\ \A i \in 1 .. Len(fifo) : fifo'[i] = fifo[i]
         /\ Len(fifo) \in Nat /\ DOMAIN fifo = 1 .. Len(fifo) /\ DOMAIN fifo' = 1 .. Len(fifo')
<1>1. Din \in Entries /\ fifo \in Seq(Entries) /\ full \in BOOLEAN
  BY DinType DEF Types, TopTypes
<1>2. Len(fifo) \in Nat /\ DOMAIN fifo = 1 .. Len(fifo)
  BY <1>1
<1>3. CASE ~Writes
  <2>1. fifo' = fifo /\ full' = full
    BY <1>3 DEF WriteFifo
  <2> QED
    BY <1>1, <1>2, <1>3, <2>1 DEF Writes
<1>4. CASE Writes /\ IsFull
  <2>1. fifo' = fifo /\ full' = TRUE
    BY <1>4 DEF WriteFifo
  <2> QED
    BY <1>1, <1>2, <2>1
<1>5. CASE Writes /\ ~IsFull
  <2>1. fifo' = Append(fifo, Din) /\ full' = full
    BY <1>1, <1>5 DEF WriteFifo
  <2>2. fifo' \in Seq(Entries) /\ Len(fifo') = Len(fifo) + 1 /\ fifo'[Len(fifo) + 1] = Din
        /\ \A i \in 1 .. Len(fifo) : fifo'[i] = fifo[i]
    BY <1>1, <2>1, AppendProperties
  <2>3. DOMAIN fifo' = 1 .. Len(fifo')
    BY <2>2
  <2>4. sFifoWrEn /\ flag # "none" /\ full' \in BOOLEAN /\ (full => full')
    BY <1>1, <1>5, <2>1 DEF Writes
  <2> QED
    BY <1>2, <2>1, <2>2, <2>3, <2>4
<1> QED
  BY <1>3, <1>4, <1>5

LEMMA ModFacts ==
  ASSUME ModTypes, NEW w \in Word, DataMod(w), ERR' \in BOOLEAN, setup' = setup, setup \in Setups
  PROVE  /\ ModTypes' /\ FlagState'
         /\ ERR' => /\ dataState' = "HeaderSt" /\ sDataInDelayed' = Zeros /\ flag' = "none"
                    /\ sDataIn' = sDataIn
         /\ ~ERR' => /\ sDataInDelayed'[0] = w /\ sDataIn' = sDataInDelayed[Delay] /\ Decode
                     /\ \A i \in 1 .. Delay : sDataInDelayed'[i] = sDataInDelayed[i - 1]
<1>0. Delay' = Delay /\ Delay \in Nat
  BY SetupFacts DEF Delay
<1>1. CASE ERR'
  <2>1. ResetMod
    BY <1>1 DEF DataMod
  <2>2. NoRows \in Bits /\ Zero \in Word /\ Zeros \in [0 .. Delay -> Word]
    BY ZeroFacts DEF NoRows, Bits, Zeros
  <2>3. /\ sDataInDelayed' = Zeros /\ dataState' = "HeaderSt" /\ wordCtr' = 0 /\ stateCtr' = 0
        /\ sState0LSB' = TRUE /\ flag' = "none" /\ sDataOut' = [word |-> Zero, rows |-> NoRows]
        /\ sDataIn' = sDataIn
    BY <2>1 DEF ResetMod
  <2> QED
    BY <1>0, <1>1, <2>2, <2>3 DEF ModTypes, FlagState, Flags
<1>2. CASE ~ERR'
  <2>1. /\ sDataInDelayed' = [i \in 0 .. Delay |-> IF i = 0 THEN w ELSE sDataInDelayed[i - 1]]
        /\ sDataIn' = sDataInDelayed[Delay] /\ Decode
    BY <1>2 DEF DataMod
  <2>2. /\ sDataInDelayed \in [0 .. Delay -> Word] /\ 0 \in 0 .. Delay /\ Delay \in 0 .. Delay
        /\ \A i \in 0 .. Delay : i # 0 => i - 1 \in 0 .. Delay
        /\ \A i \in 1 .. Delay : i \in 0 .. Delay /\ i # 0
    BY <1>0 DEF ModTypes
  <2>3. sDataInDelayed' \in [0 .. Delay -> Word] /\ sDataIn' \in Word
    BY <2>1, <2>2
  <2>4. ModTypes' /\ FlagState'
    BY <1>0, <2>1, <2>3, DecodeTypes DEF ModTypes
  <2> QED
    BY <1>2, <2>1, <2>2, <2>4
<1> QED
  BY <1>1, <1>2

LEMMA TickTypes ==
  ASSUME Types, Tick
  PROVE  Types'
<1>1. PICK w \in {Sent, Spoilt(Sent)} : Shifted(w)
  BY TickParts
<1>2. w \in Word
  BY <1>1, SentFacts DEF Types
<1>3. /\ setup' = setup /\ SensorStep /\ WriteFifo /\ TagFrame
      /\ stale' = (IF chStState = "CS1" THEN sDataIn.is = "header" ELSE stale)
      /\ UNCHANGED <<chStState, starts, sFifoWrEn, START_IN, start_sign>>
  BY TickParts DEF timerVars
<1>4. SensorTypes'
  BY <1>1, <1>2, <1>3, ShiftFacts, SensorFacts DEF Types, SensorTypes, TopTypes
<1>5. ModTypes'
  BY <1>1, <1>2, <1>3, <1>4, ModFacts DEF Types, Shifted, SensorTypes
<1>6. TopTypes'
  <2>1. frame_counter' \in Nat /\ sign_tag' \in BOOLEAN
    <3>1. CASE ~sFifoWrEn
      BY <1>3, <3>1 DEF TagFrame, Types, TopTypes
    <3>2. CASE sFifoWrEn /\ flag # "header"
      BY <1>3, <3>2 DEF TagFrame, tagVars, Types, TopTypes
    <3>3. CASE sFifoWrEn /\ flag = "header"
      <4>1. frame_counter' = frame_counter + 1 /\ sign_tag' = start_sign
        BY <1>3, <3>3 DEF TagFrame, CountFrame
      <4> QED
        BY <4>1 DEF Types, TopTypes
    <3> QED
      BY <3>1, <3>2, <3>3
  <2>2. stale' \in BOOLEAN
    <3>1. CASE chStState = "CS1"
      BY <1>3, <3>1, ZenonT(20)
    <3>2. CASE chStState # "CS1"
      BY <1>3, <3>2 DEF Types, TopTypes
    <3> QED
      BY <3>1, <3>2
  <2> QED
    BY <1>3, <2>1, <2>2, WriteFacts DEF Types, TopTypes
<1> QED
  BY <1>4, <1>5, <1>6 DEF Types

(* Under reset, in the timer's states, and in step with the sensor.        *)
LEMMA TickFlow ==
  ASSUME Types, Flow, Tick
  PROVE  Flow'
<1>1. PICK w \in {Sent, Spoilt(Sent)} : Shifted(w)
  BY TickParts
<1>2. w \in Word /\ (w.is = "header" => pos = 0 /\ w = Sent)
  BY <1>1, SentFacts DEF Types
<1>3. /\ setup' = setup /\ SensorStep /\ WriteFifo
      /\ stale' = (IF chStState = "CS1" THEN sDataIn.is = "header" ELSE stale)
      /\ UNCHANGED <<chStState, starts, sFifoWrEn>>
  BY TickParts DEF timerVars
<1>4. /\ DataMod(w) /\ ERR' \in BOOLEAN
      /\ FrameSize \in Nat /\ FrameSize > 4 /\ FrameSize' = FrameSize
  <2>1. DataMod(w) /\ ERR' \in BOOLEAN
    BY <1>1, <1>2, ShiftFacts DEF Types, TopTypes, Shifted
  <2>2. FrameSize \in Nat /\ FrameSize > 4
    BY SetupFacts DEF Types, SensorTypes
  <2> QED
    BY <1>3, <2>1, <2>2 DEF FrameSize
<1>5. ModTypes' /\ FlagState'
  BY <1>2, <1>3, <1>4, ModFacts DEF Types, SensorTypes
<1>6. flag = "none" \/ ~sFifoWrEn => fifo' = fifo
  BY <1>3, WriteFacts
<1>7. ResetState'
  <2> SUFFICES ASSUME ERR'
               PROVE  /\ dataState' = "HeaderSt" /\ sDataInDelayed' = Zeros /\ flag' = "none"
                      /\ shiftState' # "S3" => fifo' = <<>> /\ (stale' \/ sDataIn'.is # "header")
    BY <1>3 DEF ResetState, Zeros, Delay
  <2>1. /\ dataState' = "HeaderSt" /\ sDataInDelayed' = Zeros /\ flag' = "none"
        /\ sDataIn' = sDataIn
    BY <1>2, <1>3, <1>4, ModFacts DEF Types, SensorTypes
  <2>2. CASE chStState = "CS1"
    <3>1. fifo' = <<>>
      BY <1>6, <2>2 DEF Flow, TimerState
    <3>2. stale' \/ sDataIn'.is # "header"
      BY <1>3, <2>1, <2>2
    <3> QED
      BY <2>1, <3>1, <3>2
  <2>3. CASE chStState # "CS1" /\ shiftState' # "S3"
    <3>1. shiftState = "S1"
      BY <1>1, <1>2, <2>3, ShiftFacts DEF Types, SensorTypes, TopTypes
    <3>2. ERR /\ flag = "none" /\ fifo = <<>> /\ (stale \/ sDataIn.is # "header")
      BY <3>1 DEF Flow, Lockstep, ResetState
    <3> QED
      BY <1>3, <1>6, <2>1, <2>3, <3>2
  <2> QED
    BY <2>1, <2>2, <2>3
<1>8. TimerState'
  <2>1. ~sFifoWrEn' => fifo' = <<>>
    BY <1>3, <1>6 DEF Flow, TimerState
  <2>2. ASSUME starts' = 0 PROVE pos' = FrameSize' - 1 /\ shiftState' = "S1"
    <3>1. starts = 0 /\ pos = FrameSize - 1 /\ shiftState = "S1" /\ ~Streaming
      BY <1>3, <2>2 DEF Flow, TimerState, Streaming, Types, TopTypes
    <3>2. pos' = pos
      BY <1>3, <3>1, SensorFacts DEF Types
    <3>3. w.is # "header"
      BY <1>2, <1>4, <3>1
    <3>4. shiftState' = "S1"
      BY <1>1, <1>2, <3>1, <3>3, ShiftFacts DEF Types, SensorTypes, TopTypes
    <3> QED
      BY <1>4, <3>1, <3>2, <3>4
  <2> QED
    BY <1>3, <2>1, <2>2 DEF Flow, TimerState
<1>9. Lockstep'
  <2>1. shiftState' = "S1" => iFrameCtr' = 0 /\ ERR'
    BY <1>1, <1>2, ShiftFacts DEF Flow, Lockstep, Types, SensorTypes, TopTypes
  <2>2. shiftState' # "S1" => iFrameCtr' > 0
    BY <1>1, <1>2, ShiftFacts DEF Flow, Lockstep, Types, SensorTypes, TopTypes
  <2>3. ASSUME shiftState' = "S2", chStState' # "CS1"
        PROVE  \/ pos' > 0 /\ iFrameCtr' = pos'
               \/ pos' \in {0, FrameSize' - 1} /\ iFrameCtr' = FrameSize'
    <3>1. chStState # "CS1" /\ pos \in 0 .. FrameSize - 1
      BY <1>3, <2>3 DEF Types, SensorTypes
    <3>2. Streaming
      <4>1. starts # 0
        <5> SUFFICES ASSUME starts = 0 PROVE FALSE
          OBVIOUS
        <5>1. starts' = 0
          BY <1>3
        <5> QED
          BY <1>8, <2>3, <5>1 DEF TimerState
      <4> QED
        BY <3>1, <4>1 DEF Streaming, Types, TopTypes
    <3>3. CASE w.is = "header" /\ iFrameCtr' = 1
      <4>1. pos = 0 /\ pos < FrameSize - 1 /\ pos # FrameSize - 1
        BY <1>2, <1>4, <3>3
      <4>2. pos' = 1
        BY <1>3, <3>2, <4>1, SensorFacts DEF Types
      <4> QED
        BY <3>3, <4>2
    <3>4. CASE shiftState = "S2" /\ iFrameCtr # FrameSize /\ iFrameCtr' = iFrameCtr + 1
      <4>1. pos > 0 /\ iFrameCtr = pos
        BY <3>1, <3>4 DEF Flow, Lockstep
      <4>2. CASE pos < FrameSize - 1
        <5>1. pos' = pos + 1
          BY <1>3, <1>4, <3>1, <3>2, <4>2, SensorFacts DEF Types
        <5> QED
          BY <1>4, <3>1, <3>4, <4>1, <5>1
      <4>3. CASE pos = FrameSize - 1
        <5>1. pos' = 0 \/ pos' = pos
          BY <1>3, <1>4, <3>1, <3>2, <4>3, SensorFacts DEF Types
        <5> QED
          BY <1>4, <3>1, <3>4, <4>1, <4>3, <5>1
      <4> QED
        BY <1>4, <3>1, <4>2, <4>3
    <3>5. \/ w.is = "header" /\ iFrameCtr' = 1
          \/ shiftState = "S2" /\ iFrameCtr # FrameSize /\ iFrameCtr' = iFrameCtr + 1
      <4>1. CASE shiftState = "S2"
        BY <1>1, <1>2, <2>3, <3>1, <4>1, ShiftFacts DEF Types, SensorTypes, TopTypes
      <4>2. CASE shiftState # "S2"
        BY <1>1, <1>2, <2>3, <3>1, <4>2, ShiftFacts DEF Types, SensorTypes, TopTypes
      <4> QED
        BY <4>1, <4>2
    <3> QED
      BY <3>3, <3>4, <3>5
  <2> QED
    BY <2>1, <2>2, <2>3 DEF Lockstep
<1> QED
  BY <1>5, <1>7, <1>8, <1>9 DEF Flow

(* The entry that a tick writes continues the frame that is open, and only *)
(* the trailer closes it.                                                  *)
LEMMA WriteRecord ==
  ASSUME Types, TimerState, WriteFifo, NEW g \in Frames, NEW p \in Nat, Output(g, p), ~full'
  PROVE  \A i \in DOMAIN fifo' : fifo'[i].is = "header" =>
           /\ Open(i) \/ i = Len(fifo) + 1 => fifo' = fifo \/ Recorded(i, g)'
           /\ Open(i)' => Recorded(i, g)' /\ Len(fifo') + 1 - i = p + 1 /\ p < Words(g) + 3
<1> DEFINE n == Len(fifo)
           w == Words(g)
<1>1. /\ ~full /\ n \in Nat /\ DOMAIN fifo = 1 .. n /\ DOMAIN fifo' = 1 .. Len(fifo')
      /\ \/ fifo' = fifo /\ (flag = "none" \/ ~sFifoWrEn)
         \/ /\ fifo' = Append(fifo, Din) /\ sFifoWrEn /\ flag # "none"
            /\ Len(fifo') = n + 1 /\ fifo'[n + 1] = Din
            /\ \A i \in 1 .. n : fifo'[i] = fifo[i]
  BY WriteFacts
<1>2. w \in Nat
  BY SetupFacts DEF Types, SensorTypes
<1>3. /\ \A q \in Nat : Section(g, q) = "trailer" <=> q = w + 3
      /\ Section(g, p) = "header" <=> p = 0
      /\ Section(g, p) = "pad" <=> p > w + 3
      /\ Section(g, p) \in Sections
  BY <1>2, SectionFacts
<1>4. \A i \in 1 .. n : Open(i) => Recorded(i, g) /\ n + 1 - i = p
  BY <1>1 DEF Output
<1>0. /\ n \in Nat /\ DOMAIN fifo = 1 .. n /\ (\A i \in 1 .. n : fifo # <<>>)
      /\ fifo' = fifo => flag = "none" \/ ~sFifoWrEn
  <2>1. fifo = <<>> => n = 0
    OBVIOUS
  <2>2. n \in Nat /\ n + 1 # n
    <3>1. n \in Nat
      BY <1>1
    <3> HIDE DEF n
    <3> QED
      BY <3>1
  <2>3. Len(fifo') = n + 1 => fifo' # fifo
    BY <2>2, ZenonT(20) DEF n
  <2>4. fifo' = fifo => flag = "none" \/ ~sFifoWrEn
    BY <1>1, <2>3, ZenonT(20)
  <2>5. \A i \in 1 .. n : fifo # <<>>
    <3> HIDE DEF n
    <3> QED
      BY <2>1, <2>2
  <2> QED
    BY <1>1, <2>2, <2>4, <2>5, ZenonT(20)
<1> HIDE DEF w, n
<1>5. CASE fifo' = fifo
  <2> SUFFICES ASSUME NEW i \in 1 .. n, Open(i)
               PROVE  FALSE
    BY <1>0, <1>5 DEF Open, n
  <2>1. Recorded(i, g) /\ n + 1 - i = p /\ fifo # <<>>
    BY <1>0, <1>4
  <2>2. flag = "none"
    BY <1>0, <1>5, <2>1 DEF TimerState
  <2>3. p > w + 3
    BY <1>3, <2>1, <2>2 DEF Output, Flagged, Sections
  <2>4. PICK k \in i + 1 .. n : k - i = w + 3
    <3>1. i + w + 3 \in i + 1 .. n /\ (i + w + 3) - i = w + 3
      BY <1>0, <1>2, <2>1, <2>3
    <3> QED
      BY <3>1
  <2>5. k \in i .. n /\ k - i <= w + 3 /\ k - i \in Nat
    BY <1>0, <1>2, <2>4
  <2>6. EntryOf(fifo[k], g, k - i)
    BY <2>1, <2>5 DEF Recorded, w, n
  <2>7. fifo[k].is = "trailer"
    BY <1>3, <2>4, <2>5, <2>6 DEF EntryOf
  <2> QED
    BY <2>4, <2>7 DEF Open, n
<1>6. CASE fifo' # fifo
  <2>1. /\ Len(fifo') = n + 1 /\ fifo'[n + 1] = Din /\ flag # "none"
        /\ \A i \in 1 .. n : fifo'[i] = fifo[i]
    BY <1>1, <1>6
  <2>2. flag = Section(g, p) /\ p <= w + 3 /\ Holds(sDataOut.word, g, p)
    BY <1>2, <1>3, <2>1 DEF Output, Flagged
  <2>3. EntryOf(Din, g, p) /\ Din.is = flag
    BY <2>2 DEF EntryOf, Din, Holds
  <2> SUFFICES ASSUME NEW i \in 1 .. n + 1, fifo'[i].is = "header"
               PROVE  /\ Open(i) \/ i = n + 1 => Recorded(i, g)'
                      /\ Open(i)' => Recorded(i, g)' /\ Len(fifo') + 1 - i = p + 1 /\ p < w + 3
    BY <1>1, <2>1 DEF w
  <2>4. CASE i = n + 1
    <3>1. p = 0 /\ (n + 1) - i = p /\ Len(fifo') + 1 - i = p + 1 /\ p < w + 3
      BY <1>1, <1>2, <1>3, <2>1, <2>2, <2>3, <2>4
    <3>2. \A k \in i .. Len(fifo') : k = n + 1
      BY <1>1, <2>1, <2>4
    <3>3. Recorded(i, g)'
      BY <2>1, <2>3, <3>1, <3>2 DEF Recorded
    <3> QED
      BY <3>1, <3>3
  <2>5. CASE i # n + 1
    <3>1. i \in 1 .. n /\ fifo[i].is = "header"
      BY <1>1, <2>1, <2>5
    <3>2. ASSUME Open(i)
          PROVE  Recorded(i, g)' /\ Len(fifo') + 1 - i = p + 1
      <4>1. Recorded(i, g) /\ n + 1 - i = p
        BY <1>4, <3>1, <3>2
      <4>2. \A k \in i .. n + 1 : k - i <= w + 3 => EntryOf(fifo'[k], g, k - i)
        <5> TAKE k \in i .. n + 1
        <5>1. CASE k = n + 1
          BY <1>0, <2>1, <2>3, <3>1, <4>1, <5>1
        <5>2. CASE k # n + 1
          <6>1. k \in i .. n /\ k \in 1 .. n
            BY <1>0, <3>1, <5>2
          <6> QED
            BY <2>1, <4>1, <6>1 DEF Recorded, w, n
        <5> QED
          BY <5>1, <5>2
      <4>3. Recorded(i, g)'
        BY <2>1, <4>2 DEF Recorded, w, n
      <4> QED
        BY <1>1, <2>1, <4>1, <4>3
    <3>3. ASSUME Open(i)'
          PROVE  Open(i) /\ p < w + 3
      <4>1. \A k \in i + 1 .. n + 1 : fifo'[k].is # "trailer"
        BY <2>1, <3>3 DEF Open
      <4>2. n + 1 \in i + 1 .. n + 1 /\ \A k \in i + 1 .. n : k \in i + 1 .. n + 1 /\ k \in 1 .. n
        BY <1>0, <3>1
      <4>3. Open(i)
        BY <1>1, <2>1, <3>1, <4>1, <4>2 DEF Open, n
      <4>4. Section(g, p) # "trailer"
        BY <2>1, <2>2, <2>3, <4>1, <4>2
      <4> QED
        BY <1>2, <1>3, <2>2, <4>3, <4>4
    <3> QED
      BY <2>5, <3>2, <3>3
  <2> QED
    BY <2>4, <2>5
<1> QED
  BY <1>5, <1>6

(* The word that is shifted in is the one that the deserializer counts.    *)
LEMMA InLine ==
  ASSUME Types, Flow, NEW w \in {Sent, Spoilt(Sent)}, Shifted(w),
         chStState # "CS1", ~ERR', shiftState' = "S2"
  PROVE  Genuine(w) /\ w.stamp = Stamp /\ pos = iFrameCtr' - 1
<1>1. w \in Word /\ (w.is = "header" => pos = 0 /\ w = Sent) /\ (w.agree = TRUE => w = Sent)
      /\ Holds(Sent, frame, pos) /\ (pos \notin {0, 2} => Holds(w, frame, pos)) /\ w.stamp = Stamp
  BY SentFacts DEF Types
<1>2. /\ FrameSize \in Nat /\ FrameSize > 4 /\ pos \in 0 .. FrameSize - 1
      /\ iFrameCtr' \in 0 .. FrameSize
  BY <1>1, SetupFacts, ShiftFacts DEF Types, SensorTypes, TopTypes
<1>3. pos = iFrameCtr' - 1 /\ Holds(w, frame, pos) => Genuine(w)
  BY <1>1, <1>2 DEF Genuine, Stamp, Types, SensorTypes
<1>4. \/ w.is = "header" /\ iFrameCtr' = 1
      \/ shiftState = "S2" /\ iFrameCtr # FrameSize /\ iFrameCtr' = iFrameCtr + 1
           /\ (iFrameCtr = 2 => w.agree)
  <2>1. CASE shiftState = "S2"
    BY <1>1, <2>1, ShiftFacts DEF Types, SensorTypes, TopTypes
  <2>2. CASE shiftState # "S2"
    BY <1>1, <2>2, ShiftFacts DEF Types, SensorTypes, TopTypes
  <2> QED
    BY <2>1, <2>2
<1>5. CASE w.is = "header" /\ iFrameCtr' = 1
  BY <1>1, <1>3, <1>5
<1>6. CASE shiftState = "S2" /\ iFrameCtr # FrameSize /\ iFrameCtr' = iFrameCtr + 1
           /\ (iFrameCtr = 2 => w.agree)
  <2>1. pos > 0 /\ iFrameCtr = pos
    BY <1>6 DEF Flow, Lockstep
  <2>2. iFrameCtr' - 1 = pos
    BY <1>2, <1>6, <2>1
  <2>3. Holds(w, frame, pos)
    <3>1. CASE pos = 2
      <4>1. w.agree \in BOOLEAN /\ w.agree
        BY <1>1, <1>6, <2>1, <3>1 DEF Word
      <4> QED
        BY <1>1, <4>1
    <3>2. CASE pos # 2
      BY <1>1, <1>2, <2>1, <3>2
    <3> QED
      BY <3>1, <3>2
  <2> QED
    BY <1>1, <1>3, <2>2, <2>3
<1> QED
  BY <1>4, <1>5, <1>6

LEMMA SameSetup ==
  ASSUME setup' = setup
  PROVE  /\ FrameSize' = FrameSize /\ Delay' = Delay /\ Frames' = Frames /\ CountMod' = CountMod
         /\ \A w : Genuine(w)' <=> Genuine(w)
         /\ \A v, w : Joined(v, w)' <=> Joined(v, w)
         /\ \A s, t : Behind(s, t)' <=> Behind(s, t)
<1>1. FrameSize' = FrameSize /\ Delay' = Delay /\ Frames' = Frames /\ CountMod' = CountMod
  BY DEF FrameSize, Delay, Frames, CountMod
<1>2. \A w : Genuine(w)' <=> Genuine(w)
  BY <1>1 DEF Genuine
<1>3. \A s, t : Behind(s, t)' <=> Behind(s, t)
  BY <1>1 DEF Behind
<1>4. \A v, w : Joined(v, w)' <=> Joined(v, w)
  BY <1>1 DEF Joined, Genuine, Behind
<1> QED
  BY <1>1, <1>2, <1>3, <1>4

LEMMA GenuineFacts ==
  ASSUME setup \in Setups, NEW w, Genuine(w)
  PROVE  /\ w # Zero /\ w.stamp.of \in Frames /\ w.stamp.at \in Nat
         /\ w.is = "header" <=> w.stamp.at = 0
<1>1. w.stamp.of \in Frames /\ w.stamp.at \in Nat /\ Words(w.stamp.of) \in Nat
      /\ w.is = Section(w.stamp.of, w.stamp.at)
  BY SetupFacts DEF Genuine, Holds
<1>2. w.is = "header" <=> w.stamp.at = 0
  BY <1>1, SectionFacts
<1> QED
  BY <1>1, <1>2, ZeroFacts

(* The words in the trigger delay follow one another as they were sent.    *)
LEMMA DelayedStep ==
  ASSUME Types, Flow, SensorStep, setup' = setup, NEW w \in {Sent, Spoilt(Sent)}, Shifted(w),
         chStState # "CS1", ~ERR', shiftState' = "S2", ERR \/ (shiftState = "S2" /\ Delayed)
  PROVE  /\ Delayed'
         /\ Joined(sDataInDelayed[Delay], sDataInDelayed'[Delay])
<1>1. PICK old, new : old = sDataInDelayed /\ new = sDataInDelayed'
  OBVIOUS
<1>2. /\ FrameSize \in Nat /\ FrameSize > 4 /\ Delay \in Nat /\ pos \in 0 .. FrameSize - 1
      /\ frames \in Nat /\ iFrameCtr \in 0 .. FrameSize /\ w \in Word
      /\ FrameSize' = FrameSize /\ Delay' = Delay
  <2>1. /\ FrameSize \in Nat /\ FrameSize > 4 /\ Delay \in Nat /\ pos \in 0 .. FrameSize - 1
        /\ frames \in Nat /\ iFrameCtr \in 0 .. FrameSize
    BY SetupFacts DEF Types, SensorTypes
  <2>2. w \in Word
    BY SentFacts DEF Types
  <2> QED
    BY <2>1, <2>2, SameSetup
<1>3. /\ new[0] = w /\ \A i \in 1 .. Delay : new[i] = old[i - 1]
  <2>1. ERR' \in BOOLEAN /\ DataMod(w)
    BY <1>2, ShiftFacts DEF Types, TopTypes, Shifted
  <2> QED
    BY <1>1, <1>2, <2>1, ModFacts DEF Types, SensorTypes
<1>4. Genuine(w) /\ w.stamp = Stamp /\ pos = iFrameCtr' - 1
  BY InLine
<1>5. Newest(w)'
  <2>1. Genuine(w)' /\ w.stamp.at = iFrameCtr' - 1
    BY <1>4, SameSetup DEF Stamp
  <2>2. \/ UNCHANGED <<frame, pos, frames>> /\ pos = FrameSize - 1
        \/ pos < FrameSize - 1 /\ pos' = pos + 1 /\ UNCHANGED <<frame, frames>>
        \/ pos = FrameSize - 1 /\ pos' = 0 /\ frames' = frames + 1
    <3>1. ~Streaming => pos = FrameSize - 1
      BY DEF Streaming, Types, TopTypes, Flow, TimerState
    <3> QED
      BY <3>1, SensorFacts DEF Types
  <2>3. w.stamp.of = frame /\ w.stamp.at = pos /\ w.stamp.nth = frames
    BY <1>4 DEF Stamp
  <2>4. Stamp'.of = frame' /\ Stamp'.at = pos' /\ Stamp'.nth = frames'
    BY DEF Stamp
  <2>5. Behind(w.stamp, Stamp)' \/ (w.stamp.at = FrameSize' - 1 /\ pos' = FrameSize' - 1)
    BY <1>2, <2>2, <2>3, <2>4 DEF Behind
  <2> QED
    BY <2>1, <2>5 DEF Newest
<1>6. Joined(old[0], w)
  <2>1. CASE ERR
    <3>1. old[0] = Zero
      BY <1>1, <1>2, <2>1 DEF Flow, ResetState, Zeros
    <3> QED
      BY <1>4, <3>1 DEF Joined
  <2>2. CASE shiftState = "S2" /\ Delayed
    <3>1. Newest(old[0])
      BY <1>1, <2>2 DEF Delayed
    <3>2. CASE Behind(old[0].stamp, Stamp)
      BY <1>4, <3>1, <3>2 DEF Newest, Joined
    <3>3. CASE old[0].stamp.at = FrameSize - 1 /\ pos = FrameSize - 1
      <4>1. iFrameCtr = FrameSize
        BY <1>2, <3>1, <3>3 DEF Newest
      <4>2. w.is # "header"
        BY <1>2, <3>3, SentFacts DEF Types
      <4>3. FALSE
        BY <1>2, <2>2, <4>1, <4>2, ShiftFacts DEF Types, TopTypes
      <4> QED
        BY <4>3
    <3> QED
      BY <3>1, <3>2, <3>3 DEF Newest
  <2> QED
    BY <2>1, <2>2
<1>7. ASSUME NEW i \in 1 .. Delay
      PROVE  Joined(old[i], old[i - 1])
  <2>1. CASE ERR
    <3>1. i \in 0 .. Delay /\ i - 1 \in 0 .. Delay
      BY <1>2
    <3>2. old[i] = Zero /\ old[i - 1] = Zero
      BY <1>1, <2>1, <3>1 DEF Flow, ResetState, Zeros
    <3> QED
      BY <3>2 DEF Joined
  <2> QED
    BY <1>1, <2>1 DEF Delayed
<1>8. ASSUME NEW i \in 1 .. Delay
      PROVE  Joined(new[i], new[i - 1])
  <2>1. CASE i = 1
    BY <1>3, <1>6, <2>1
  <2>2. CASE i # 1
    <3>1. i - 1 \in 1 .. Delay
      BY <1>2, <2>2
    <3> QED
      BY <1>3, <1>7, <3>1
  <2> QED
    BY <2>1, <2>2
<1>9. Joined(old[Delay], new[Delay])
  <2>1. CASE Delay = 0
    BY <1>3, <1>6, <2>1
  <2>2. CASE Delay # 0
    <3>1. Delay \in 1 .. Delay
      BY <1>2, <2>2
    <3> QED
      BY <1>3, <1>7, <3>1
  <2> QED
    BY <2>1, <2>2
<1>10. Delayed'
  <2>1. \A i \in 1 .. Delay : Joined(new[i], new[i - 1])'
    BY <1>8, SameSetup
  <2>2. Newest(new[0])'
    BY <1>3, <1>5
  <2> QED
    BY <1>1, <1>2, <2>1, <2>2 DEF Delayed, Newest, Joined, Genuine, Behind
<1> QED
  BY <1>1, <1>9, <1>10

(* The word that leaves the state machine.                                 *)
LEMMA WrittenStep ==
  ASSUME Types, Flow, WriteFifo, Decode, setup' = setup, Written, Decoding
  PROVE  /\ Written'
         /\ \/ Waiting /\ dataState' = "HeaderSt" /\ flag' = "none" /\ fifo' = <<>>
            \/ /\ Behind(sDataIn.stamp, sDataInDelayed[Delay].stamp)
               /\ \E f \in Frames, q \in 0 .. FrameSize - 1 :
                    Stamped(sDataIn, f, q) /\ At(f, q + 1)' /\ flag' = Flagged(Section(f, q))
         /\ flag' # "none" => sDataOut'.word.is = flag'
         /\ flag' = "data" =>
              \A l \in 1 .. 2 : sDataOut'.rows[l] = IsRow(sDataOut'.word.units[l])
<1>1. /\ FrameSize \in Nat /\ FrameSize > 4 /\ SensorTypes /\ ModTypes /\ TimerState
      /\ FrameSize' = FrameSize /\ Frames' = Frames
      /\ \A g \in Frames : Words(g) \in Nat /\ Words(g) + 4 <= FrameSize
  BY SetupFacts, SameSetup DEF Types, SensorTypes, Flow
<1>2. sDataOut'.word = sDataIn
  BY <1>1, DecodeTypes
<1>3. flag = "none" /\ fifo = <<>> => fifo' = <<>>
  BY WriteFacts
<1>4. CASE Waiting
  <2>1. dataState' = "HeaderSt" /\ flag' = "none"
    BY <1>1, <1>4, DecodeTypes DEF Decode, Waiting
  <2> QED
    BY <1>3, <1>4, <2>1 DEF Waiting, Written
<1>5. CASE ~Waiting
  <2>1. PICK f \in Frames, q \in 0 .. FrameSize - 1 :
          /\ Stamped(sDataIn, f, q) /\ Holds(sDataIn, f, q) /\ At(f, q)
          /\ Behind(sDataIn.stamp, sDataInDelayed[Delay].stamp)
          /\ (flag = "none" /\ fifo = <<>>) \/ Behind(sDataOut.word.stamp, sDataIn.stamp)
    BY <1>5 DEF Decoding
  <2>2. q \in Nat
    BY <1>1
  <2>3. /\ At(f, q + 1)' /\ flag' = Flagged(Section(f, q)) /\ Holds(sDataOut'.word, f, q)
        /\ flag' = "data" =>
             \A l \in 1 .. 2 : sDataOut'.rows[l] = IsRow(sDataOut'.word.units[l])
    BY <1>1, <2>1, <2>2, DecodeAt
  <2>4. ASSUME ~full', NEW i \in DOMAIN fifo', Open(i)'
        PROVE  Recorded(i, f)' /\ Len(fifo') + 1 - i = q
    <3>1. ~(flag = "none" /\ fifo = <<>>)
      <4>1. fifo' # <<>>
        BY <2>4
      <4> QED
        BY <1>3, <4>1
    <3>2. PICK g \in Frames, p \in 0 .. FrameSize - 1 : Stamped(sDataOut.word, g, p) /\ Output(g, p)
      BY <3>1 DEF Written
    <3>3. fifo'[i].is = "header" /\ p \in Nat
      BY <1>1, <2>4 DEF Open
    <3>4. Recorded(i, g)' /\ Len(fifo') + 1 - i = p + 1 /\ p < Words(g) + 3
      BY <1>1, <2>4, <3>2, <3>3, WriteRecord
    <3>5. \/ f = g /\ q = p + 1
          \/ p = FrameSize - 1
      BY <2>1, <3>1, <3>2 DEF Stamped, Behind
    <3>6. p # FrameSize - 1
      BY <1>1, <3>2, <3>3, <3>4
    <3> QED
      BY <3>4, <3>5, <3>6
  <2>5. Output(f, q)'
    BY <2>3, <2>4 DEF Output
  <2>6. Stamped(sDataOut.word, f, q)'
    BY <1>2, <2>1 DEF Stamped
  <2>7. Written'
    BY <1>1, <2>5, <2>6 DEF Written
  <2>8. ASSUME flag' # "none" PROVE sDataOut'.word.is = flag'
    BY <2>3, <2>8 DEF Holds, Flagged
  <2> QED
    BY <2>1, <2>3, <2>7, <2>8
<1> QED
  BY <1>4, <1>5

(* The state machine keeps in step with the words that leave the delay.    *)
LEMMA DecodingStep ==
  ASSUME Types, Flow, WriteFifo, Decode, setup' = setup, Written, Decoding,
         sDataIn' = sDataInDelayed[Delay],
         Joined(sDataInDelayed[Delay], sDataInDelayed'[Delay])
  PROVE  Decoding'
<1>1. PICK x, v, u : x = sDataIn /\ v = sDataInDelayed[Delay] /\ u = sDataInDelayed'[Delay]
  OBVIOUS
<1>2. /\ FrameSize \in Nat /\ FrameSize > 4 /\ SensorTypes /\ ModTypes /\ setup \in Setups
      /\ FrameSize' = FrameSize /\ Frames' = Frames /\ Delay' = Delay
      /\ \A g \in Frames : Words(g) \in Nat /\ Words(g) + 4 <= FrameSize
      /\ x.stamp.at \in Nat /\ x.stamp.nth \in Nat
  <2>1. x \in Word
    BY <1>1 DEF Types, ModTypes
  <2>2. x.stamp.at \in Nat /\ x.stamp.nth \in Nat
    BY <2>1 DEF Word, Stamps
  <2> QED
    BY <2>2, SetupFacts, SameSetup DEF Types, SensorTypes
<1>3. Joined(v, u) /\ sDataIn' = v /\ sDataOut'.word = x
  BY <1>1, <1>2, DecodeTypes
<1>4. ASSUME v # Zero, At(v.stamp.of, v.stamp.at)',
             (flag' = "none" /\ fifo' = <<>>) \/ Behind(x.stamp, v.stamp)
      PROVE  Decoding'
  <2>1. Genuine(v) /\ Genuine(u) /\ Behind(v.stamp, u.stamp)
    BY <1>3, <1>4 DEF Joined
  <2>2. PICK f \in Frames, q \in 0 .. FrameSize - 1 :
          f = v.stamp.of /\ q = v.stamp.at /\ Holds(v, f, q) /\ At(f, q)'
    BY <1>4, <2>1 DEF Genuine
  <2>3. Behind(v.stamp, u.stamp)'
    BY <2>1, SameSetup
  <2>4. Behind(sDataIn.stamp, sDataInDelayed[Delay].stamp)'
    BY <1>1, <1>2, <1>3, <2>3 DEF Behind
  <2>5. (flag' = "none" /\ fifo' = <<>>) \/ Behind(sDataOut.word.stamp, sDataIn.stamp)'
    BY <1>2, <1>3, <1>4 DEF Behind
  <2>6. Stamped(sDataIn, f, q)' /\ Holds(sDataIn, f, q)'
    BY <1>3, <2>2 DEF Stamped, Holds
  <2> QED
    BY <1>2, <2>2, <2>4, <2>5, <2>6 DEF Decoding
<1>5. CASE Waiting /\ dataState' = "HeaderSt" /\ flag' = "none" /\ fifo' = <<>>
  <2>1. CASE v.is # "header"
    BY <1>3, <1>5, <2>1 DEF Decoding, Waiting
  <2>2. CASE v.is = "header"
    <3>1. v # Zero
      BY <2>2, ZeroFacts
    <3>2. Genuine(v)
      BY <1>3, <3>1 DEF Joined
    <3>3. v.stamp.at = 0
      BY <1>2, <2>2, <3>2, GenuineFacts
    <3>4. At(v.stamp.of, v.stamp.at)'
      BY <1>5, <3>3 DEF At
    <3> QED
      BY <1>4, <1>5, <3>1, <3>4
  <2> QED
    BY <2>1, <2>2
<1>6. CASE /\ Behind(sDataIn.stamp, sDataInDelayed[Delay].stamp)
           /\ \E f \in Frames, q \in 0 .. FrameSize - 1 :
                Stamped(sDataIn, f, q) /\ At(f, q + 1)' /\ flag' = Flagged(Section(f, q))
  <2>1. PICK f \in Frames, q \in 0 .. FrameSize - 1 : f = x.stamp.of /\ q = x.stamp.at /\ At(f, q + 1)'
    BY <1>1, <1>6 DEF Stamped
  <2>2. Behind(x.stamp, v.stamp)
    BY <1>1, <1>6
  <2>3. v # Zero
    BY <1>2, <2>2, ZeroFacts DEF Behind
  <2>4. At(v.stamp.of, v.stamp.at)'
    <3>1. CASE v.stamp.of = f /\ v.stamp.at = q + 1
      BY <2>1, <3>1
    <3>2. CASE q = FrameSize - 1 /\ v.stamp.at = 0
      <4>1. q + 1 > Words(f) + 3 /\ q + 1 # 1 /\ q + 1 # 2
            /\ q + 1 \notin 3 .. Words(f) + 2 /\ q + 1 # Words(f) + 3
        BY <1>2, <3>2
      <4>2. dataState' = "HeaderSt"
        BY <2>1, <4>1 DEF At, AtData
      <4> QED
        BY <3>2, <4>2 DEF At
    <3> QED
      BY <2>1, <2>2, <3>1, <3>2 DEF Behind
  <2> QED
    BY <1>4, <2>2, <2>3, <2>4
<1> QED
  BY <1>5, <1>6, WrittenStep

(* The frames, from their words on the lines to the flags.                 *)
LEMMA TickFrame ==
  ASSUME Types, Flow, Framed, Tick
  PROVE  Framed'
<1>1. PICK w \in {Sent, Spoilt(Sent)} : Shifted(w)
  BY TickParts
<1>2. /\ setup' = setup /\ SensorStep /\ WriteFifo /\ chStState' = chStState
      /\ stale' = (IF chStState = "CS1" THEN sDataIn.is = "header" ELSE stale)
      /\ w \in Word /\ DataMod(w)
  BY <1>1, TickParts, SentFacts DEF timerVars, Types, Shifted
<1>3. Flow' /\ ERR' \in BOOLEAN
  BY TickFlow, TickTypes DEF Types, SensorTypes
<1>4. CASE stale' \/ ERR'
  <2>1. ERR' => flag' = "none"
    BY <1>3 DEF Flow, ResetState
  <2> QED
    BY <1>4, <2>1 DEF Framed, InFrame, FlagsRight, FlagsTellSection, RowsFlagged
<1>5. CASE ~stale' /\ ~ERR'
  <2>1. /\ chStState # "CS1" /\ ~stale /\ shiftState # "S3" /\ (ERR => fifo = <<>>)
        /\ shiftState \in {"S1", "S2"}
    <3>1. chStState # "CS1" /\ shiftState # "S3"
      BY <1>1, <1>2, <1>5, ShiftFacts DEF Types, SensorTypes, TopTypes
    <3>2. ~stale
      BY <1>2, <1>5, <3>1
    <3> QED
      BY <3>1, <3>2 DEF Flow, ResetState, Types, SensorTypes
  <2>2. Decode /\ sDataIn' = sDataInDelayed[Delay]
    BY <1>2, <1>3, <1>5, ModFacts DEF Types, SensorTypes
  <2>3. CASE ERR
    <3>1. dataState = "HeaderSt" /\ sDataInDelayed = Zeros /\ flag = "none"
          /\ sDataIn.is # "header" /\ fifo = <<>>
      BY <2>1, <2>3 DEF Flow, ResetState
    <3>2. dataState' = "HeaderSt" /\ flag' = "none"
      BY <2>2, <3>1, DecodeTypes DEF Decode, Types
    <3>3. fifo' = <<>>
      BY <1>2, <3>1, WriteFacts
    <3>4. sDataIn'.is # "header"
      <4>1. Delay \in 0 .. Delay
        BY SetupFacts DEF Types, SensorTypes
      <4>2. sDataIn' = Zero
        BY <2>2, <3>1, <4>1 DEF Zeros
      <4> QED
        BY <4>2, ZeroFacts
    <3>5. Written' /\ Decoding'
      BY <3>2, <3>3, <3>4 DEF Written, Decoding, Waiting
    <3>6. shiftState' = "S2" => Delayed'
      BY <1>1, <1>2, <1>5, <2>1, <2>3, DelayedStep
    <3> QED
      BY <3>2, <3>5, <3>6 DEF Framed, InFrame, FlagsRight, FlagsTellSection, RowsFlagged
  <2>4. CASE ~ERR
    <3>1. shiftState = "S2"
      BY <2>1, <2>4 DEF Flow, Lockstep
    <3>2. Written /\ Delayed /\ Decoding
      BY <2>1, <2>4, <3>1 DEF Framed, InFrame
    <3>3. /\ Written' /\ FlagsTellSection'
          /\ flag' = "data" =>
               \A l \in 1 .. 2 : sDataOut'.rows[l] = IsRow(sDataOut'.word.units[l])
      BY <1>2, <2>2, <3>2, WrittenStep DEF FlagsTellSection
    <3>4. shiftState' = "S2" => Delayed' /\ Decoding'
      BY <1>1, <1>2, <1>5, <2>1, <2>2, <3>1, <3>2, DelayedStep, DecodingStep
    <3> QED
      BY <3>3, <3>4 DEF Framed, InFrame, FlagsRight, RowsFlagged
  <2> QED
    BY <2>3, <2>4
<1> QED
  BY <1>4, <1>5

(* The FIFO keeps whole frames, with their rows marked.                    *)
LEMMA TickRecord ==
  ASSUME Types, Flow, Framed, Record, Tick
  PROVE  Record'
<1> DEFINE n == Len(fifo)
<1>1. PICK w \in {Sent, Spoilt(Sent)} : Shifted(w)
  BY TickParts
<1>2. /\ setup' = setup /\ SensorStep /\ WriteFifo /\ chStState' = chStState
      /\ stale' = (IF chStState = "CS1" THEN sDataIn.is = "header" ELSE stale)
      /\ w \in Word /\ DataMod(w)
  BY <1>1, TickParts, SentFacts DEF timerVars, Types, Shifted
<1>3. /\ fifo \in Seq(Entries) /\ fifo' \in Seq(Entries) /\ (full => full')
      /\ n \in Nat /\ DOMAIN fifo = 1 .. n /\ DOMAIN fifo' = 1 .. Len(fifo')
  BY <1>2, WriteFacts DEF Types, TopTypes
<1>4. /\ Flow' /\ ERR' \in BOOLEAN /\ Frames' = Frames /\ flag \in Flags
      /\ \A g \in Frames : Words(g) \in Nat
  <2>1. Flow'
    BY TickFlow
  <2>2. ERR' \in BOOLEAN
    BY TickTypes DEF Types, SensorTypes
  <2>3. flag \in Flags
    BY DEF Types, ModTypes
  <2>4. Frames' = Frames
    BY <1>2, SameSetup
  <2>5. \A g \in Frames : Words(g) \in Nat
    BY SetupFacts DEF Types, SensorTypes
  <2> QED
    BY <2>1, <2>2, <2>3, <2>4, <2>5
<1>5. CASE fifo' = fifo
  <2>1. fifo = <<>> \/ stale' = stale
    BY <1>2 DEF Flow, TimerState
  <2>2. fifo = <<>> => DOMAIN fifo = {} /\ n = 0
    BY <1>3
  <2>3. FramesRecorded' /\ Chained' /\ RowsMarked'
    <3>1. FramesRecorded'
      <4> SUFFICES ASSUME ~stale', ~full', NEW i \in DOMAIN fifo, fifo[i].is = "header"
                   PROVE  \E g \in Frames : Recorded(i, g)'
        BY <1>4, <1>5 DEF FramesRecorded
      <4>1. ~stale /\ ~full
        BY <1>3, <2>1, <2>2
      <4>2. PICK g \in Frames : Recorded(i, g)
        BY <4>1 DEF Record, FramesRecorded
      <4>3. Recorded(i, g)'
        BY <1>5, <4>2 DEF Recorded
      <4> QED
        BY <4>3
    <3>2. Chained'
      <4> HIDE DEF n
      <4> QED
        BY <1>3, <1>5 DEF Record, Chained
    <3>3. RowsMarked'
      <4>1. CASE fifo = <<>>
        BY <1>5, <2>2, <4>1 DEF RowsMarked
      <4>2. CASE stale' = stale
        BY <1>5, <4>2 DEF Record, RowsMarked
      <4> QED
        BY <2>1, <4>1, <4>2
    <3> QED
      BY <3>1, <3>2, <3>3
  <2>4. LastWritten'
    <3> SUFFICES ASSUME fifo # <<>>, ~full', ~ERR'
                 PROVE  LET last == fifo[n].is
                        IN  IF flag' = "none" THEN last = "trailer" ELSE Follows(last, flag')
      <4>1. ERR' => flag' = "none"
        BY <1>4 DEF Flow, ResetState
      <4> QED
        BY <1>5, <4>1 DEF LastWritten
    <3>1. chStState # "CS1" /\ shiftState # "S3"
      BY <1>1, <1>2, ShiftFacts DEF Types, SensorTypes, TopTypes
    <3>2. ~ERR /\ sFifoWrEn /\ ~full
      BY <1>3, <3>1 DEF Flow, ResetState, TimerState
    <3>3. flag = "none"
      <4>1. n + 1 # n
        <5> HIDE DEF n
        <5> QED
          BY <1>3
      <4>2. (fifo' = fifo /\ (full' \/ flag = "none" \/ ~sFifoWrEn)) \/ Len(fifo') = n + 1
        BY <1>2, WriteFacts
      <4> QED
        BY <1>5, <3>2, <4>1, <4>2, ZenonT(20)
    <3>4. fifo[n].is = "trailer" /\ dataState = "HeaderSt"
      BY <3>2, <3>3 DEF Record, LastWritten, Flow, FlagState, Types, ModTypes
    <3>5. flag' \in {"header", "none"}
      BY <1>2, <1>4, <3>4, ModFacts, DecodeTypes DEF Types, SensorTypes
    <3> QED
      BY <3>4, <3>5 DEF Follows
  <2> QED
    BY <2>3, <2>4 DEF Record
<1>6. CASE fifo' # fifo
  <2>1. /\ Len(fifo') = n + 1 /\ fifo'[n + 1] = Din /\ flag # "none" /\ sFifoWrEn
        /\ \A i \in 1 .. n : fifo'[i] = fifo[i]
    BY <1>2, <1>6, WriteFacts
  <2>2. /\ ~ERR /\ shiftState \in {"S2", "S3"} /\ chStState # "CS1" /\ stale' = stale
    BY <1>2, <2>1 DEF Flow, ResetState, TimerState, Lockstep, Types, SensorTypes
  <2>3. Din.is = flag /\ Din.units = sDataOut.word.units /\ Din.rows = sDataOut.rows
    BY DEF Din
  <2> HIDE DEF n
  <2>4. FramesRecorded'
    <3> SUFFICES ASSUME ~stale, ~full', NEW i \in 1 .. n + 1, fifo'[i].is = "header"
                 PROVE  \E g \in Frames : Recorded(i, g)'
      BY <1>3, <1>4, <2>1, <2>2 DEF FramesRecorded
    <3>1. PICK g \in Frames, p \in Nat : Output(g, p)
      <4>1. \E g \in Frames, p \in 0 .. FrameSize - 1 : Output(g, p)
        BY <2>1, <2>2 DEF Framed, InFrame, Written
      <4>2. \A p \in 0 .. FrameSize - 1 : p \in Nat
        BY SetupFacts DEF Types, SensorTypes
      <4> QED
        BY <4>1, <4>2
    <3>2. CASE Open(i) \/ i = n + 1
      <4>1. Recorded(i, g)'
        BY <1>2, <1>3, <1>6, <2>1, <3>1, <3>2, WriteRecord DEF Flow, n
      <4> QED
        BY <4>1
    <3>3. CASE ~Open(i) /\ i # n + 1
      <4>1. i \in 1 .. n /\ fifo[i].is = "header" /\ ~full
        BY <1>3, <2>1, <3>3
      <4>2. PICK g0 \in Frames : Recorded(i, g0)
        BY <1>3, <4>1 DEF Record, FramesRecorded
      <4>3. PICK k \in i + 1 .. n : fifo[k].is = "trailer"
        BY <1>3, <3>3, <4>1 DEF Open, n
      <4>4. k - i >= Words(g0) + 3
        <5>1. k \in i .. n /\ k - i \in Nat /\ Words(g0) \in Nat
          BY <1>3, <1>4, <4>1, <4>3
        <5>2. k - i <= Words(g0) + 3 => Section(g0, k - i) = "trailer"
          BY <4>2, <4>3, <5>1 DEF Recorded, EntryOf, n
        <5>3. Section(g0, k - i) = "trailer" => k - i = Words(g0) + 3
          BY <5>1, SectionFacts
        <5> QED
          BY <5>1, <5>2, <5>3
      <4>5. ASSUME NEW j \in i .. n + 1, j - i <= Words(g0) + 3
            PROVE  j \in i .. n /\ j \in 1 .. n
        BY <1>3, <1>4, <4>1, <4>3, <4>4, <4>5
      <4>6. Recorded(i, g0)'
        <5> SUFFICES ASSUME NEW j \in i .. n + 1, j - i <= Words(g0) + 3
                     PROVE  EntryOf(fifo'[j], g0, j - i)
          BY <2>1 DEF Recorded
        <5>1. j \in i .. n /\ j \in 1 .. n
          BY <4>5
        <5>2. EntryOf(fifo[j], g0, j - i)
          BY <4>2, <5>1 DEF Recorded, n
        <5> QED
          BY <2>1, <5>1, <5>2
      <4> QED
        BY <4>6
    <3> QED
      BY <3>2, <3>3
  <2>5. LastWritten'
    <3> SUFFICES ASSUME ~full', ~ERR'
                 PROVE  IF flag' = "none" THEN flag = "trailer" ELSE Follows(flag, flag')
      <4>1. ERR' => flag' = "none"
        BY <1>4 DEF Flow, ResetState
      <4>2. fifo'[Len(fifo')].is = flag
        BY <2>1, <2>3
      <4> QED
        BY <4>1, <4>2 DEF LastWritten
    <3>1. Decode /\ ModTypes
      BY <1>2, <1>4, ModFacts DEF Types, SensorTypes
    <3>2. FlagState /\ dataState \in
            {"HeaderSt", "FramectrSt", "LengthSt", "State0St", "StateSt", "TrailerSt"}
      BY DEF Flow, Types, ModTypes
    <3>3. CASE dataState = "HeaderSt"
      <4>1. flag = "trailer" /\ flag' \in {"header", "none"}
        BY <2>1, <3>1, <3>2, <3>3, DecodeTypes DEF FlagState
      <4> QED
        BY <4>1 DEF Follows
    <3>4. CASE dataState = "FramectrSt"
      <4>1. flag = "header" /\ flag' = "counter"
        BY <3>1, <3>2, <3>4, DecodeTypes DEF FlagState
      <4> QED
        BY <4>1 DEF Follows
    <3>5. CASE dataState = "LengthSt"
      <4>1. flag = "counter" /\ flag' = "length"
        BY <3>1, <3>2, <3>5, DecodeTypes DEF FlagState
      <4> QED
        BY <4>1 DEF Follows
    <3>6. CASE dataState \in {"State0St", "StateSt"}
      <4>1. flag \in {"length", "data"} /\ flag' = "data"
        BY <3>1, <3>2, <3>6, DecodeTypes DEF FlagState
      <4> QED
        BY <4>1 DEF Follows
    <3>7. CASE dataState = "TrailerSt"
      <4>1. flag \in {"length", "data"} /\ flag' = "trailer"
        BY <3>1, <3>2, <3>7, DecodeTypes DEF FlagState
      <4> QED
        BY <4>1 DEF Follows
    <3> QED
      BY <3>2, <3>3, <3>4, <3>5, <3>6, <3>7
  <2>6. Chained'
    <3> SUFFICES ASSUME ~full', NEW i \in 1 .. n
                 PROVE  Follows(fifo'[i].is, fifo'[i + 1].is)
      <4>1. (n + 1) - 1 = n
        BY <1>3
      <4> QED
        BY <2>1, <4>1 DEF Chained
    <3>1. ~full
      BY <1>3
    <3>2. CASE i = n
      <4>1. n # 0 /\ fifo'[i] = fifo[n] /\ fifo'[i + 1].is = flag
        BY <2>1, <2>3, <3>2
      <4>2. fifo # <<>>
        BY <4>1 DEF n
      <4> QED
        BY <2>1, <3>1, <4>1, <4>2 DEF Record, LastWritten, n
    <3>3. CASE i # n
      <4>1. i \in 1 .. n - 1 /\ i + 1 \in 1 .. n
        BY <1>3, <3>3
      <4> QED
        BY <2>1, <3>1, <4>1 DEF Record, Chained, n
    <3> QED
      BY <3>2, <3>3
  <2>7. RowsMarked'
    <3> SUFFICES ASSUME ~stale, NEW i \in 1 .. n + 1, fifo'[i].is = "data"
                 PROVE  \A l \in 1 .. 2 : fifo'[i].rows[l] = IsRow(fifo'[i].units[l])
      BY <1>3, <2>1, <2>2 DEF RowsMarked
    <3>1. CASE i = n + 1
      BY <2>1, <2>3, <3>1 DEF Framed, RowsFlagged
    <3>2. CASE i # n + 1
      <4>1. i \in 1 .. n
        BY <1>3, <3>2
      <4> QED
        BY <1>3, <2>1, <4>1 DEF Record, RowsMarked
    <3> QED
      BY <3>1, <3>2
  <2> QED
    BY <2>4, <2>5, <2>6, <2>7 DEF Record
<1> QED
  BY <1>5, <1>6
-----------------------------------------------------------------------------
(* The difference of two counters, taken modulo m, is the difference of    *)
(* what they count.                                                        *)
LEMMA ModUnique ==
  ASSUME NEW m \in Nat, m > 0, NEW x \in Int, NEW k \in Int, NEW r \in Nat, r < m, x = k * m + r
  PROVE  x % m = r
<1>1. PICK d \in Int, s \in Nat : d = x \div m /\ s = x % m /\ s < m /\ x = d * m + s
  <2>1. x \div m \in Int /\ x % m \in Int /\ x % m >= 0 /\ x % m < m /\ x = (x \div m) * m + (x % m)
    OBVIOUS
  <2> QED
    BY <2>1
<1>2. (k - d) * m = s - r
  <2>1. (k - d) * m = k * m - d * m
    OBVIOUS
  <2>2. k * m \in Int /\ d * m \in Int
    OBVIOUS
  <2> QED
    BY <1>1, <2>1, <2>2
<1>3. k - d = 0
  <2>1. PICK e \in Int : e = k - d
    OBVIOUS
  <2>2. e >= 1 => e * m >= m
    OBVIOUS
  <2>3. e <= -1 => e * m <= -m
    OBVIOUS
  <2>4. e * m \in Int /\ e * m < m /\ e * m > -m
    BY <1>1, <1>2, <2>1
  <2> QED
    BY <2>1, <2>2, <2>3, <2>4
<1> QED
  BY <1>1, <1>2, <1>3

LEMMA ModDifference ==
  ASSUME NEW m \in Nat, m > 0, NEW F \in Nat, NEW a \in Nat, a <= F
  PROVE  ((F % m) + m - ((F - a) % m)) % m = a % m
<1>1. \A x \in Nat : \E k \in Int, r \in Nat : r = x % m /\ r < m /\ x = k * m + r
  <2> TAKE x \in Nat
  <2>1. x \div m \in Int /\ x % m \in Nat /\ x % m < m /\ x = (x \div m) * m + (x % m)
    OBVIOUS
  <2> QED
    BY <2>1
<1>2. PICK k1 \in Int, r1 \in Nat : r1 = F % m /\ r1 < m /\ F = k1 * m + r1
  BY <1>1
<1>3. F - a \in Nat
  OBVIOUS
<1>4. PICK k2 \in Int, r2 \in Nat : r2 = (F - a) % m /\ r2 < m /\ F - a = k2 * m + r2
  BY <1>1, <1>3
<1>5. PICK k3 \in Int, r3 \in Nat : r3 = a % m /\ r3 < m /\ a = k3 * m + r3
  BY <1>1
<1>6. r1 + m - r2 = (k3 + k2 - k1 + 1) * m + r3
  <2>1. \A u, v, t \in Int : (u + v) * t = u * t + v * t /\ u * t \in Int
    OBVIOUS
  <2>2. \A u, v, t \in Int : (u - v) * t = u * t - v * t /\ u - v \in Int
    OBVIOUS
  <2>3. PICK e1 \in Int, e2 \in Int, e3 \in Int : e1 = k1 * m /\ e2 = k2 * m /\ e3 = k3 * m
    BY <2>1
  <2>4. (k2 - k1) * m = e2 - e1 /\ (k2 - k1) + 1 \in Int /\ (k3 + 1) \in Int
    BY <2>2, <2>3
  <2>5. (k3 + 1) * m = e3 + m
    BY <2>1, <2>3
  <2>6. ((k3 + 1) + (k2 - k1)) * m = (e3 + m) + (e2 - e1)
    BY <2>1, <2>2, <2>4, <2>5
  <2>7. k3 + k2 - k1 + 1 = (k3 + 1) + (k2 - k1)
    OBVIOUS
  <2>8. r1 + m - r2 = (e3 + m) + (e2 - e1) + r3
    BY <1>2, <1>4, <1>5, <2>3
  <2> QED
    BY <2>6, <2>7, <2>8
<1>7. r1 + m - r2 \in Int /\ k3 + k2 - k1 + 1 \in Int
  OBVIOUS
<1>8. (r1 + m - r2) % m = r3
  BY <1>5, <1>6, <1>7, ModUnique
<1> QED
  BY <1>2, <1>4, <1>5, <1>8

(* The frame whose header was counted last, over a tick: it is a new one   *)
(* when its header is what the flag tells.                                 *)
LEMMA LatestStep ==
  ASSUME Types, Decode, setup' = setup, Written, Decoding, fifo # <<>> \/ flag # "none"
  PROVE  Latest' = IF flag = "header" THEN Latest + 1 ELSE Latest
<1> DEFINE o == sDataOut.word.stamp
           x == sDataIn.stamp
<1>1. /\ FrameSize \in Nat /\ FrameSize > 4 /\ SensorTypes /\ ModTypes
      /\ \A g \in Frames : Words(g) \in Nat
  BY SetupFacts DEF Types, SensorTypes
<1>2. o.nth \in Nat /\ o.at \in Nat /\ x.nth \in Nat /\ x.at \in Nat
  <2>1. sDataOut.word \in Word /\ sDataIn \in Word
    BY <1>1 DEF ModTypes
  <2> QED
    BY <2>1 DEF Word, Stamps
<1>3. sDataOut'.word.stamp = x
  BY <1>1, DecodeTypes
<1>4. ~Waiting
  BY DEF Waiting
<1>5. flag = "header" <=> o.at = 0
  <2>1. PICK g \in Frames, p \in 0 .. FrameSize - 1 : Stamped(sDataOut.word, g, p) /\ Output(g, p)
    BY DEF Written
  <2>2. flag = Flagged(Section(g, p)) /\ p = o.at
    BY <2>1 DEF Output, Stamped
  <2>3. Section(g, p) = "header" <=> p = 0
    BY <1>1, <1>2, <2>2, SectionFacts
  <2> QED
    BY <2>2, <2>3 DEF Flagged
<1>6. (flag' = "header" <=> x.at = 0) /\ Behind(o, x)
  <2>1. PICK f \in Frames, q \in 0 .. FrameSize - 1 :
          Stamped(sDataIn, f, q) /\ Holds(sDataIn, f, q) /\ At(f, q)
    BY <1>4 DEF Decoding
  <2>2. q \in Nat /\ q = x.at
    BY <1>2, <2>1 DEF Stamped
  <2>3. flag' = Flagged(Section(f, q))
    BY <1>1, <2>1, <2>2, DecodeAt
  <2>4. Section(f, q) = "header" <=> q = 0
    BY <1>1, <2>2, SectionFacts
  <2>5. Behind(o, x)
    BY <1>4 DEF Decoding
  <2> QED
    BY <2>2, <2>3, <2>4, <2>5 DEF Flagged
<1>7. Latest = IF flag = "header" THEN o.nth - 1 ELSE o.nth
  BY DEF Latest
<1>8. Latest' = IF flag' = "header" THEN x.nth - 1 ELSE x.nth
  BY <1>3 DEF Latest
<1> HIDE DEF o, x
<1> QED
  BY <1>1, <1>2, <1>5, <1>6, <1>7, <1>8 DEF Behind

(* The counters in the FIFO.                                               *)
LEMMA TickTally ==
  ASSUME Types, Flow, Framed, Tally, Tick
  PROVE  Tally'
<1> DEFINE n == Len(fifo)
<1>1. PICK w \in {Sent, Spoilt(Sent)} : Shifted(w)
  BY TickParts
<1>2. /\ setup' = setup /\ SensorStep /\ WriteFifo /\ TagFrame /\ chStState' = chStState
      /\ stale' = (IF chStState = "CS1" THEN sDataIn.is = "header" ELSE stale)
      /\ w \in Word
  BY <1>1, TickParts, SentFacts DEF timerVars, Types
<1>3. /\ fifo \in Seq(Entries) /\ fifo' \in Seq(Entries) /\ n \in Nat
      /\ DOMAIN fifo = 1 .. n /\ DOMAIN fifo' = 1 .. Len(fifo')
      /\ frame_counter \in Nat /\ frame_counter' \in Nat /\ frames \in Nat
      /\ CountMod \in Nat /\ CountMod > 0 /\ CountMod' = CountMod
      /\ \A i \in 1 .. n : fifo[i].nth \in Nat
  <2>1. fifo \in Seq(Entries) /\ fifo' \in Seq(Entries) /\ n \in Nat
        /\ DOMAIN fifo = 1 .. n /\ DOMAIN fifo' = 1 .. Len(fifo')
    BY <1>2, WriteFacts DEF Types, TopTypes
  <2>2. /\ frame_counter \in Nat /\ frame_counter' \in Nat /\ frames \in Nat
        /\ CountMod \in Nat /\ CountMod > 0
    BY TickTypes, SetupFacts DEF Types, TopTypes, SensorTypes
  <2>3. \A i \in 1 .. n : fifo[i].nth \in Nat
    <3> TAKE i \in 1 .. n
    <3>1. fifo[i] \in Entries
      BY <2>1
    <3> QED
      BY <3>1 DEF Entries
  <2>4. CountMod' = CountMod
    BY <1>2 DEF CountMod
  <2> QED
    BY <2>1, <2>2, <2>3, <2>4
<1>5. \/ fifo' = fifo
      \/ /\ Len(fifo') = n + 1 /\ fifo'[n + 1] = Din /\ flag # "none" /\ sFifoWrEn
         /\ \A i \in 1 .. n : fifo'[i] = fifo[i]
  BY <1>2, WriteFacts
<1>6. /\ flag # "none" /\ sFifoWrEn => ~ERR /\ chStState # "CS1" /\ stale' = stale
      /\ fifo # <<>> => sFifoWrEn /\ chStState # "CS1" /\ stale' = stale
  BY <1>2 DEF Flow, ResetState, TimerState
<1> HIDE DEF n
<1>7. CASE fifo' = <<>>
  <2>1. Counters' = {}
    BY <1>7 DEF Counters
  <2> QED
    BY <2>1 DEF Tally, CountersLinked, CountersTell
<1>8. CASE fifo' # <<>>
  <2>1. sFifoWrEn /\ chStState # "CS1" /\ stale' = stale
    BY <1>5, <1>6, <1>8
  <2>2. frame_counter' = IF flag = "header" THEN frame_counter + 1 ELSE frame_counter
    BY <1>2, <2>1 DEF TagFrame, CountFrame, tagVars
  <2>3. Counters \subseteq 1 .. n /\ Counters' \subseteq 1 .. Len(fifo')
    BY <1>3 DEF Counters
  <2>4. ASSUME NEW i \in Counters', i \in 1 .. n
        PROVE  i \in Counters /\ fifo'[i] = fifo[i]
    <3>1. fifo'[i] = fifo[i]
      BY <1>5, <2>4
    <3> QED
      BY <1>3, <2>4, <3>1 DEF Counters
  <2>5. ASSUME NEW i \in Counters', i \notin 1 .. n
        PROVE  /\ i = n + 1 /\ flag = "counter" /\ ~ERR
               /\ fifo'[i].count = frame_counter % CountMod /\ fifo'[i].nth = Latest
    <3>1. i \in 1 .. Len(fifo') /\ fifo'[i].is = "counter"
      BY <1>3, <2>5 DEF Counters
    <3>2. fifo' # fifo
      BY <2>3, <2>5, <3>1 DEF n
    <3>3. i \in 1 .. n + 1 /\ fifo'[n + 1] = Din /\ flag # "none"
      BY <1>5, <3>1, <3>2
    <3>4. i = n + 1
      <4>1. n \in Nat
        BY <1>3
      <4> QED
        BY <2>5, <3>3, <4>1
    <3>5. Din.is = flag /\ Din.count = frame_counter % CountMod /\ Din.nth = sDataOut.word.stamp.nth
      BY DEF Din
    <3>6. fifo'[i].is = Din.is /\ fifo'[i].count = Din.count /\ fifo'[i].nth = Din.nth
      BY <3>3, <3>4, ZenonT(20)
    <3>7. ~ERR /\ flag = "counter"
      BY <1>6, <2>1, <3>1, <3>3, <3>5, <3>6, ZenonT(20)
    <3>8. Latest = sDataOut.word.stamp.nth
      BY <3>7 DEF Latest
    <3> QED
      BY <3>4, <3>5, <3>6, <3>7, <3>8, ZenonT(20)
  <2>6. /\ fifo # <<>> \/ flag # "none"
        /\ n \in Nat
    BY <1>3, <1>5, <1>8, ZenonT(20)
  <2>7. ASSUME ~stale, ~ERR
        PROVE  /\ Latest \in Int
               /\ \A i \in Counters :
                    /\ fifo[i].nth <= Latest /\ Latest - fifo[i].nth <= frame_counter
                    /\ fifo[i].count = (frame_counter - (Latest - fifo[i].nth)) % CountMod
    <3>1. sDataOut.word.stamp.nth \in Nat
      BY DEF Types, ModTypes, Word, Stamps
    <3>2. Latest \in Int
      BY <3>1 DEF Latest
    <3> QED
      BY <2>1, <2>7, <3>2 DEF Tally, CountersLinked
  <2>8. ASSUME ~stale, ~ERR, shiftState = "S2", ~ERR'
        PROVE  Latest' = IF flag = "header" THEN Latest + 1 ELSE Latest
    <3>1. Written /\ Decoding
      BY <2>1, <2>8 DEF Framed, InFrame
    <3>2. Decode
      BY <1>1, <1>2, <2>8, TickTypes, ModFacts DEF Types, SensorTypes, Shifted
    <3> QED
      BY <1>2, <2>6, <2>8, <3>1, <3>2, LatestStep
  <2>9. CountersLinked'
    <3> SUFFICES ASSUME ~stale, ~ERR', NEW i \in Counters'
                 PROVE  /\ fifo'[i].nth <= Latest' /\ Latest' - fifo'[i].nth <= frame_counter'
                        /\ fifo'[i].count = (frame_counter' - (Latest' - fifo'[i].nth)) % CountMod
      BY <1>3, <2>1 DEF CountersLinked
    <3>1. shiftState = "S2" /\ ~ERR
      <4>1. ~ERR
        <5>1. ERR => fifo = <<>> /\ flag = "none"
          <6>1. shiftState # "S3"
            BY <1>1, <1>2, <2>1, ShiftFacts DEF Types, SensorTypes, TopTypes
          <6> QED
            BY <6>1 DEF Flow, ResetState
        <5> QED
          BY <2>6, <5>1
      <4>2. shiftState # "S1" /\ shiftState # "S3"
        BY <1>1, <1>2, <2>1, <4>1, ShiftFacts DEF Flow, Lockstep, Types, SensorTypes, TopTypes
      <4> QED
        BY <4>1, <4>2 DEF Types, SensorTypes
    <3>2. Latest \in Int /\ Latest' = IF flag = "header" THEN Latest + 1 ELSE Latest
      BY <2>7, <2>8, <3>1
    <3>3. CASE i \in 1 .. n
      <4>1. i \in Counters /\ fifo'[i] = fifo[i] /\ fifo[i].nth \in Nat
        BY <1>3, <2>4, <3>3 DEF n
      <4>2. PICK t \in Nat : t = fifo[i].nth
        BY <4>1
      <4>3. /\ t <= Latest /\ Latest - t <= frame_counter
            /\ fifo[i].count = (frame_counter - (Latest - t)) % CountMod
        BY <2>7, <3>1, <4>1, <4>2
      <4>4. /\ t <= Latest' /\ Latest' - t <= frame_counter'
            /\ frame_counter' - (Latest' - t) = frame_counter - (Latest - t)
        BY <1>3, <2>2, <3>2, <4>3
      <4> QED
        BY <4>1, <4>2, <4>3, <4>4
    <3>4. CASE i \notin 1 .. n
      <4>1. /\ flag = "counter" /\ fifo'[i].count = frame_counter % CountMod /\ fifo'[i].nth = Latest
        BY <2>5, <3>4
      <4>2. PICK t \in Int : t = Latest
        BY <3>2
      <4>3. Latest' = t /\ frame_counter' = frame_counter
        BY <2>2, <3>2, <4>1, <4>2
      <4>4. t <= t /\ t - t <= frame_counter /\ frame_counter - (t - t) = frame_counter
        BY <1>3
      <4> QED
        BY <4>1, <4>2, <4>3, <4>4
    <3> QED
      BY <3>3, <3>4
  <2>10. CountersTell'
    <3> SUFFICES ASSUME ~stale, NEW i \in Counters', NEW j \in Counters', i < j
                 PROVE  (fifo'[j].count + CountMod - fifo'[i].count) % CountMod
                          = (fifo'[j].nth - fifo'[i].nth) % CountMod
      BY <1>3, <2>1 DEF CountersTell
    <3>1. i \in Nat /\ j \in Nat
      BY <1>3, <2>3
    <3>2. CASE j \in 1 .. n
      <4>1. i \in 1 .. n
        BY <1>3, <2>3, <3>1, <3>2
      <4> QED
        BY <2>4, <3>2, <4>1 DEF Tally, CountersTell
    <3>3. CASE j \notin 1 .. n
      <4>1. /\ j = n + 1 /\ flag = "counter" /\ ~ERR
            /\ fifo'[j].count = frame_counter % CountMod /\ fifo'[j].nth = Latest
        BY <2>5, <3>3
      <4>2. i \in 1 .. n
        BY <1>3, <2>3, <2>6, <3>1, <4>1
      <4>3. i \in Counters /\ fifo'[i] = fifo[i] /\ fifo[i].nth \in Nat
        BY <1>3, <2>4, <4>2 DEF n
      <4>4. PICK t \in Int : t = Latest
        BY <2>7, <4>1
      <4>5. PICK a \in Nat : a = t - fifo[i].nth /\ a <= frame_counter
                              /\ fifo[i].count = (frame_counter - a) % CountMod
        <5>1. /\ fifo[i].nth <= t /\ t - fifo[i].nth <= frame_counter
              /\ fifo[i].count = (frame_counter - (t - fifo[i].nth)) % CountMod
          BY <2>7, <4>1, <4>3, <4>4
        <5>2. t - fifo[i].nth \in Nat
          BY <1>3, <4>3, <5>1
        <5> QED
          BY <5>1, <5>2
      <4>6. ((frame_counter % CountMod) + CountMod - ((frame_counter - a) % CountMod)) % CountMod
              = a % CountMod
        BY <1>3, <4>5, ModDifference
      <4> QED
        BY <4>1, <4>3, <4>4, <4>5, <4>6
    <3> QED
      BY <3>2, <3>3
  <2> QED
    BY <2>9, <2>10 DEF Tally
<1> QED
  BY <1>7, <1>8
-----------------------------------------------------------------------------
(* The other steps.                                                        *)

LEMMA FrameKept ==
  ASSUME Framed, UNCHANGED <<setup, frame, pos, frames, desVars, modVars, stale, fifo, full>>,
         ~ERR /\ chStState' # "CS1" => chStState # "CS1"
  PROVE  Framed'
<1>1. UNCHANGED <<setup, frame, pos, frames, shiftState, iFrameCtr, ERR, sDataInDelayed, sDataIn,
                  dataState, wordCtr, stateCtr, sState0LSB, sDataOut, flag, stale, fifo, full>>
  BY DEF desVars, modVars
<1>2. FlagsRight' /\ RowsFlagged'
  BY <1>1 DEF Framed, FlagsRight, FlagsTellSection, RowsFlagged
<1>3. Frames' = Frames /\ FrameSize' = FrameSize /\ Delay' = Delay
  BY <1>1 DEF Frames, FrameSize, Delay
<1>4. \A g, p : Output(g, p) => Output(g, p)'
  <2>1. \A i : Open(i)' => Open(i)
    BY <1>1 DEF Open
  <2>2. \A i, g : Recorded(i, g) => Recorded(i, g)'
    BY <1>1 DEF Recorded
  <2> QED
    BY <1>1, <2>1, <2>2 DEF Output
<1>5. Written => Written'
  BY <1>1, <1>3, <1>4 DEF Written, Stamped
<1>6. Delayed => Delayed'
  <2>1. Stamp' = Stamp
    BY <1>1 DEF Stamp
  <2> QED
    BY <1>1, <1>3, <2>1 DEF Delayed, Newest, Joined, Genuine, Behind
<1>7. Decoding => Decoding'
  <2>1. \A f, q : At(f, q) => At(f, q)'
    BY <1>1 DEF At, AtData
  <2> QED
    BY <1>1, <1>3, <2>1 DEF Decoding, Waiting, Stamped, Behind
<1>8. InFrame'
  BY <1>1, <1>5, <1>6, <1>7 DEF Framed, InFrame
<1> QED
  BY <1>2, <1>8 DEF Framed

LEMMA RecordKept ==
  ASSUME Record, UNCHANGED <<setup, flag, ERR, stale, fifo, full>>
  PROVE  Record'
<1>1. Frames' = Frames
  BY DEF Frames
<1>2. \A i, g : Recorded(i, g) => Recorded(i, g)'
  BY DEF Recorded
<1>3. FramesRecorded'
  BY <1>1, <1>2 DEF Record, FramesRecorded
<1>4. LastWritten'
  BY DEF Record, LastWritten
<1>5. Chained'
  BY DEF Record, Chained
<1>6. RowsMarked'
  BY DEF Record, RowsMarked
<1> QED
  BY <1>3, <1>4, <1>5, <1>6 DEF Record

LEMMA TallyKept ==
  ASSUME Tally, UNCHANGED <<setup, desVars, modVars, frame_counter, stale, fifo>>,
         ~ERR /\ chStState' # "CS1" => chStState # "CS1"
  PROVE  Tally'
<1>1. /\ Latest' = Latest /\ CountMod' = CountMod /\ Counters' = Counters
      /\ UNCHANGED <<ERR, frame_counter, stale, fifo>>
  BY DEF Latest, CountMod, Counters, desVars, modVars
<1>2. CountersLinked'
  BY <1>1 DEF Tally, CountersLinked
<1>3. CountersTell'
  BY <1>1 DEF Tally, CountersTell
<1> QED
  BY <1>2, <1>3 DEF Tally

LEMMA TickStrobe ==
  ASSUME Types, Flow, StrobeState, Tick
  PROVE  StrobeState' /\ (Marks /\ sign_tag' => struck)
<1>1. PICK w \in {Sent, Spoilt(Sent)} : Shifted(w)
  BY TickParts
<1>2. /\ clocked /\ clocked' = FALSE /\ start_sign' = start_sign /\ TagFrame
      /\ struck' = (struck /\ ~(Marks /\ sign_tag')) /\ owed' = (owed /\ flag # "header")
      /\ w \in Word /\ DataMod(w) /\ ERR' \in BOOLEAN
  <2>1. w \in Word /\ DataMod(w)
    BY <1>1, SentFacts DEF Types, Shifted
  <2>2. ERR' \in BOOLEAN
    BY TickTypes DEF Types, SensorTypes
  <2> QED
    BY <2>1, <2>2, ZenonT(20) DEF Tick, signVars
<1>3. flag' = "counter" => flag = "header"
  <2> SUFFICES ASSUME flag' = "counter" PROVE flag = "header"
    OBVIOUS
  <2>1. Decode
    <3>1. setup' = setup /\ ERR' # TRUE
      <4>1. setup' = setup
        BY TickParts
      <4>2. ERR' => flag' = "none"
        BY <1>2, <4>1, ModFacts DEF Types, SensorTypes
      <4> QED
        BY <4>1, <4>2, <1>2
    <3> QED
      BY <1>2, <3>1, ModFacts DEF Types, SensorTypes
  <2>2. dataState = "FramectrSt"
    BY <2>1, DecodeTypes DEF Types, ModTypes
  <2> QED
    BY <2>2 DEF Flow, FlagState
<1>4. Marks /\ sign_tag' => struck /\ flag' = "counter"
  <2> SUFFICES ASSUME Marks, sign_tag' PROVE struck /\ flag' = "counter"
    OBVIOUS
  <2>1. sFifoWrEn /\ flag = "header" /\ flag' = "counter"
    BY DEF Marks
  <2>2. sign_tag' = start_sign
    BY <1>2, <2>1 DEF TagFrame
  <2> QED
    BY <1>2, <2>1, <2>2 DEF StrobeState
<1>5. owed' => start_sign' /\ flag' # "counter"
  BY <1>2, <1>3 DEF StrobeState
<1>6. start_sign' => struck' \/ (flag' = "counter" /\ ~clocked')
  BY <1>2, <1>4 DEF StrobeState
<1> QED
  BY <1>4, <1>5, <1>6 DEF StrobeState

LEMMA Initial == Init => IInv
<1> SUFFICES ASSUME Init PROVE IInv
  OBVIOUS
<1>1. /\ FrameSize \in Nat /\ FrameSize > 4
  BY SetupFacts DEF Init
<1>2. Types
  <2>1. SensorTypes
    <3>1. /\ setup \in Setups /\ frame \in Frames /\ pos = FrameSize - 1 /\ frames = 0
          /\ shiftState = "S1" /\ iFrameCtr = 0 /\ ERR = TRUE
      BY DEF Init
    <3>2. FrameSize - 1 \in 0 .. FrameSize - 1 /\ 0 \in 0 .. FrameSize
      BY <1>1
    <3> QED
      BY <3>1, <3>2 DEF SensorTypes
  <2>2. ModTypes
    <3>1. /\ sDataInDelayed = Zeros /\ sDataIn = Zero /\ dataState = "HeaderSt" /\ wordCtr = 0
          /\ stateCtr = 0 /\ sState0LSB = TRUE /\ flag = "none"
          /\ sDataOut = [word |-> Zero, rows |-> <<FALSE, FALSE>>]
      BY DEF Init
    <3>2. <<FALSE, FALSE>> \in Bits /\ "none" \in Flags
      BY DEF Bits, Flags
    <3>3. sDataOut \in [word : Word, rows : Bits]
      BY <3>1, <3>2, ZeroFacts
    <3>4. wordCtr \in Nat /\ stateCtr \in 0 .. 15 /\ sState0LSB \in BOOLEAN
      BY <3>1
    <3>5. /\ dataState \in {"HeaderSt", "FramectrSt", "LengthSt", "State0St", "StateSt", "TrailerSt"}
          /\ flag \in Flags
      BY <3>1, <3>2
    <3>6. sDataInDelayed \in [0 .. Delay -> Word] /\ sDataIn \in Word
      BY <3>1, ZeroFacts DEF Zeros
    <3> QED
      BY <3>3, <3>4, <3>5, <3>6 DEF ModTypes
  <2>3. TopTypes
    <3>1. fifo \in Seq(Entries)
      <4>1. <<>> \in Seq(Entries)
        OBVIOUS
      <4> QED
        BY <4>1, ZenonT(20) DEF Init
    <3> QED
      BY <3>1 DEF Init, TopTypes
  <2> QED
    BY <2>1, <2>2, <2>3 DEF Types
<1>3. Flow
  BY ZeroFacts DEF Init, Flow, ResetState, TimerState, Lockstep, FlagState
<1>4. Framed
  BY DEF Init, Framed, InFrame, FlagsRight, FlagsTellSection, RowsFlagged
<1>5. fifo = <<>> /\ DOMAIN fifo = {} /\ Len(fifo) = 0
  BY DEF Init
<1>6. Record
  <2>1. 1 .. 0 - 1 = {}
    OBVIOUS
  <2> QED
    BY <1>5, <2>1 DEF Record, FramesRecorded, LastWritten, Chained, RowsMarked
<1>7. Tally
  BY <1>5 DEF Tally, CountersLinked, CountersTell, Counters
<1>8. StrobeState
  BY DEF Init, StrobeState
<1> QED
  BY <1>2, <1>3, <1>4, <1>6, <1>7, <1>8 DEF IInv

LEMMA Inductive == IInv /\ [Next]_vars => IInv'
<1> SUFFICES ASSUME IInv, [Next]_vars PROVE IInv'
  OBVIOUS
<1> USE DEF IInv
<1>1. CASE Tick
  BY <1>1, TickTypes, TickFlow, TickFrame, TickRecord, TickTally, TickStrobe
<1>2. ASSUME UNCHANGED <<sensorVars, desVars, modVars, timerVars, tagVars, fifo, full, stale>>
      PROVE  /\ Flow' /\ Framed' /\ Record' /\ Tally'
             /\ START_IN' \in BOOLEAN /\ start_sign' \in BOOLEAN => Types'
  <2>1. /\ UNCHANGED <<setup, frame, pos, frames, shiftState, iFrameCtr, ERR, desVars, modVars>>
        /\ UNCHANGED <<chStState, starts, sFifoWrEn, sign_tag, frame_counter, fifo, full, stale>>
    BY <1>2 DEF sensorVars, desVars, timerVars, tagVars
  <2>2. UNCHANGED <<sDataInDelayed, sDataIn, dataState, wordCtr, stateCtr, sState0LSB, sDataOut, flag>>
    BY <1>2 DEF modVars
  <2>3. Flow'
    BY <2>1, <2>2 DEF Flow, ResetState, TimerState, Lockstep, FlagState, FrameSize, Zeros, Delay
  <2>4. Framed' /\ Record' /\ Tally'
    BY <2>1, <2>2, FrameKept, RecordKept, TallyKept
  <2>5. START_IN' \in BOOLEAN /\ start_sign' \in BOOLEAN => Types'
    BY <2>1, <2>2 DEF Types, SensorTypes, ModTypes, TopTypes, Frames, FrameSize, Delay
  <2> QED
    BY <2>3, <2>4, <2>5
<1>3. CASE Clk160
  <2>1. UNCHANGED <<sensorVars, desVars, modVars, timerVars, tagVars, fifo, full, stale, START_IN>>
    BY <1>3 DEF Clk160, fifoVars
  <2>2. /\ clocked' = TRUE /\ start_sign' = (START_IN \/ ClearSign) /\ flag' = flag
        /\ struck' = (struck \/ START_IN) /\ owed' = (owed \/ (START_IN /\ flag # "counter"))
    BY <1>3 DEF Clk160, modVars
  <2>3. START_IN' \in BOOLEAN /\ start_sign' \in BOOLEAN
    BY <2>1, <2>2, ZenonT(20) DEF Types, TopTypes
  <2>4. StrobeState'
    BY <2>2 DEF StrobeState, ClearSign
  <2> QED
    BY <1>2, <2>1, <2>3, <2>4
<1>4. CASE Strobe
  <2>1. /\ UNCHANGED <<sensorVars, desVars, modVars, timerVars, tagVars, fifo, full, stale>>
        /\ UNCHANGED <<start_sign, struck, owed, flag>> /\ clocked' = FALSE /\ START_IN' = ~START_IN
    BY <1>4 DEF Strobe, fifoVars, strobeVars, modVars
  <2>2. START_IN' \in BOOLEAN /\ start_sign' \in BOOLEAN
    BY <2>1, ZenonT(20) DEF Types, TopTypes
  <2>3. StrobeState'
    BY <2>1 DEF StrobeState
  <2> QED
    BY <1>2, <2>1, <2>2, <2>3
<1>5. CASE Read
  <2>1. /\ UNCHANGED <<sensorVars, desVars, modVars, timerVars, tagVars, fifo, full, stale>>
        /\ UNCHANGED <<START_IN, start_sign, struck, owed, flag, clocked>>
    BY <1>5 DEF Read, signVars, strobeVars, modVars
  <2>2. StrobeState'
    BY <2>1 DEF StrobeState
  <2>3. START_IN' \in BOOLEAN /\ start_sign' \in BOOLEAN
    BY <2>1 DEF Types, TopTypes
  <2> QED
    BY <1>2, <2>1, <2>2, <2>3
<1>6. CASE ChipStart
  <2>1. /\ chStState = "CS0" /\ chStState' = "CS1" /\ starts' = starts + 1 /\ sFifoWrEn' = FALSE
        /\ pos' = FrameSize - 1 /\ frames' = 0 /\ fifo' = <<>> /\ full' = FALSE
        /\ UNCHANGED <<setup, frame, START_IN, start_sign, sign_tag, frame_counter, clocked, stale>>
        /\ UNCHANGED <<struck, owed, shiftState, iFrameCtr, ERR>>
    BY <1>6 DEF ChipStart, FifoReset, desVars, signVars, tagVars, strobeVars
  <2>2. UNCHANGED <<sDataInDelayed, sDataIn, dataState, wordCtr, stateCtr, sState0LSB, sDataOut, flag>>
    BY <1>6 DEF ChipStart, modVars
  <2>3. FrameSize \in Nat /\ FrameSize > 4 /\ starts \in Nat
    BY SetupFacts DEF Types, SensorTypes, TopTypes
  <2>4. Types'
    <3>1. pos' \in 0 .. FrameSize - 1 /\ starts' \in Nat /\ frames' \in Nat
      BY <2>1, <2>3
    <3>2. SensorTypes'
      BY <2>1, <3>1 DEF Types, SensorTypes, Frames, FrameSize
    <3>3. ModTypes'
      BY <2>1, <2>2 DEF Types, ModTypes, Delay
    <3>4. fifo' \in Seq(Entries) /\ full' \in BOOLEAN
      <4>1. \A S : <<>> \in Seq(S)
        OBVIOUS
      <4> QED
        BY <2>1, <4>1, ZenonT(20)
    <3>5. TopTypes'
      BY <2>1, <3>1, <3>4 DEF Types, TopTypes
    <3> QED
      BY <3>2, <3>3, <3>5 DEF Types
  <2>5. Flow'
    <3>1. starts' > 0 /\ starts' # 0
      BY <2>1, <2>3
    <3> QED
      BY <2>1, <2>2, <3>1 DEF Flow, ResetState, TimerState, Lockstep, FlagState, Zeros, Delay
  <2>6. Framed'
    BY <2>1, <2>2 DEF Framed, InFrame, FlagsRight, FlagsTellSection, RowsFlagged
  <2>7. DOMAIN fifo' = {} /\ 1 .. Len(fifo') - 1 = {}
    BY <2>1
  <2>8. Record'
    BY <2>1, <2>7 DEF Record, FramesRecorded, LastWritten, Chained, RowsMarked
  <2>9. Tally'
    BY <2>1, <2>7 DEF Tally, CountersLinked, CountersTell, Counters
  <2>10. StrobeState'
    BY <2>1, <2>2 DEF StrobeState
  <2> QED
    BY <2>4, <2>5, <2>6, <2>8, <2>9, <2>10
<1>7. CASE ChipStarted \/ TimerEnds
  <2>1. /\ UNCHANGED <<setup, frame, pos, frames, START_IN, start_sign, sign_tag, frame_counter>>
        /\ UNCHANGED <<clocked, stale, struck, owed, starts, fifo, full>>
        /\ UNCHANGED <<desVars, modVars, shiftState, iFrameCtr, ERR>>
    BY <1>7 DEF ChipStarted, TimerEnds, sensorVars, desVars, signVars, tagVars, strobeVars, fifoVars
  <2>2. UNCHANGED <<sDataInDelayed, sDataIn, dataState, wordCtr, stateCtr, sState0LSB, sDataOut, flag>>
    BY <2>1 DEF modVars
  <2>3. \/ /\ chStState = "CS1" /\ chStState' = "CS2" /\ iFrameCtr = 0 /\ ERR /\ sFifoWrEn' = sFifoWrEn
        \/ chStState = "CS2" /\ chStState' = "CS0" /\ sFifoWrEn' = TRUE
    BY <1>7 DEF ChipStarted, TimerEnds
  <2>4. Types'
    <3>1. SensorTypes'
      BY <2>1 DEF Types, SensorTypes, Frames, FrameSize
    <3>2. ModTypes'
      BY <2>1, <2>2 DEF Types, ModTypes, Delay
    <3>3. TopTypes'
      BY <2>1, <2>3 DEF Types, TopTypes
    <3> QED
      BY <3>1, <3>2, <3>3 DEF Types
  <2>5. Flow'
    <3>1. ResetState' /\ FlagState'
      BY <2>1, <2>2 DEF Flow, ResetState, FlagState, Zeros, Delay
    <3>2. TimerState'
      BY <2>1, <2>3 DEF Flow, TimerState, FrameSize
    <3>3. Lockstep'
      <4>1. iFrameCtr = 0 => shiftState # "S2"
        BY DEF Flow, Lockstep
      <4> QED
        BY <2>1, <2>3, <4>1 DEF Flow, Lockstep, FrameSize
    <3> QED
      BY <3>1, <3>2, <3>3 DEF Flow
  <2>6. Framed' /\ Record' /\ Tally'
    BY <2>1, <2>2, <2>3, FrameKept, RecordKept, TallyKept
  <2>7. StrobeState'
    BY <2>1, <2>2 DEF StrobeState
  <2> QED
    BY <2>4, <2>5, <2>6, <2>7
<1>8. CASE UNCHANGED vars
  <2>1. /\ UNCHANGED <<sensorVars, desVars, modVars, timerVars, tagVars, fifo, full, stale>>
        /\ UNCHANGED <<START_IN, start_sign, struck, owed, flag, clocked>>
    BY <1>8 DEF vars, signVars, strobeVars, modVars, fifoVars
  <2>2. StrobeState'
    BY <2>1 DEF StrobeState
  <2>3. START_IN' \in BOOLEAN /\ start_sign' \in BOOLEAN
    BY <2>1 DEF Types, TopTypes
  <2> QED
    BY <1>2, <2>1, <2>2, <2>3
<1> QED
  BY <1>1, <1>3, <1>4, <1>5, <1>6, <1>7, <1>8 DEF Next

THEOREM Invariant == Spec => []IInv
<1>1. Init => IInv
  BY Initial
<1>2. IInv /\ [Next]_vars => IInv'
  BY Inductive
<1> QED
  BY <1>1, <1>2, PTL DEF Spec
-----------------------------------------------------------------------------
(* The flag beside a word in the FIFO is the section that the word is from, *)
(* for all errors on the lines and all chip starts, unless a reset has met *)
(* a header in sDataIn (data_mod.vhd:15).                                  *)
THEOREM FlagsCorrect == Spec => []FlagsRight
<1>1. IInv => FlagsRight
  BY DEF IInv, Framed
<1> QED
  BY <1>1, Invariant, PTL

(* The row marker stands at the rows and nowhere else, for frames with any *)
(* number of rows, of states in a row, and of units.                       *)
THEOREM RowsCorrect == Spec => []RowsMarked
<1>1. IInv => RowsMarked
  BY DEF IInv, Record
<1> QED
  BY <1>1, Invariant, PTL

(* Two counter words in the FIFO differ, modulo the counter's width, by    *)
(* the number of frames between them, also when frames in between are lost *)
(* (README.md:23).                                                         *)
THEOREM CountersCorrect == Spec => []CountersTell
<1>1. IInv => CountersTell
  BY DEF IInv, Tally
<1> QED
  BY <1>1, Invariant, PTL

(* A strobe that is seen outside of the counter word's clock still waits   *)
(* when the next header comes.                                             *)
THEOREM StrobesCorrect == Spec => []StrobesKept
<1>1. IInv => StrobesKept
  BY DEF IInv, StrobeState, StrobesKept
<1> QED
  BY <1>1, Invariant, PTL

(* A step that marks a frame follows a strobe of its own: none marks two.  *)
THEOREM TagsCorrect == Spec => TagsEarned
<1>1. IInv /\ [Next]_vars => [(Marks /\ sign_tag') => struck]_<<sign_tag, frame_counter>>
  <2> SUFFICES ASSUME IInv, [Next]_vars, Marks, sign_tag'
               PROVE  struck \/ UNCHANGED <<sign_tag, frame_counter>>
    OBVIOUS
  <2>1. CASE Tick
    BY <2>1, TickStrobe DEF IInv
  <2>2. CASE ~Tick
    BY <2>2 DEF Next, Clk160, Strobe, ChipStart, ChipStarted, TimerEnds, Read, tagVars, vars
  <2> QED
    BY <2>1, <2>2
<1> QED
  BY <1>1, Invariant, PTL DEF Spec, TagsEarned

(* A frame that stands in the FIFO from its header to its trailer is as    *)
(* long as the one that the sensor has sent.                               *)
LEMMA WholeLength ==
  ASSUME Types, NEW i \in DOMAIN fifo, NEW j \in DOMAIN fifo, Whole(i, j),
         NEW g \in Frames, Recorded(i, g)
  PROVE  j - i = Words(g) + 3
<1> DEFINE n == Len(fifo)
           w == Words(g)
<1>1. n \in Nat /\ DOMAIN fifo = 1 .. n /\ w \in Nat
  BY SetupFacts DEF Types, SensorTypes, TopTypes
<1>2. \A q \in Nat : Section(g, q) = "trailer" <=> q = w + 3
  BY <1>1, SectionFacts
<1>3. i < j /\ fifo[j].is = "trailer" /\ \A k \in i + 1 .. j - 1 : fifo[k].is # "trailer"
  BY DEF Whole
<1>4. \A k \in i .. n : k - i <= w + 3 => fifo[k].is = Section(g, k - i)
  BY DEF Recorded, EntryOf
<1> HIDE DEF n, w
<1>5. i \in Nat /\ j \in Nat /\ j \in i .. n /\ j - i \in Nat
  BY <1>1, <1>3
<1>6. CASE j - i <= w + 3
  <2>1. Section(g, j - i) = "trailer"
    BY <1>3, <1>4, <1>5, <1>6
  <2> QED
    BY <1>2, <1>5, <2>1 DEF w
<1>7. CASE j - i > w + 3
  <2>1. PICK k \in i + 1 .. j - 1 : k - i = w + 3 /\ k \in i .. n
    <3>1. i + (w + 3) \in i + 1 .. j - 1 /\ (i + (w + 3)) - i = w + 3 /\ i + (w + 3) \in i .. n
      BY <1>1, <1>5, <1>7
    <3> QED
      BY <3>1
  <2>2. w + 3 \in Nat /\ k - i <= w + 3
    BY <1>1, <2>1
  <2>3. fifo[k].is = Section(g, w + 3) /\ Section(g, w + 3) = "trailer"
    BY <1>2, <1>4, <2>1, <2>2
  <2> QED
    BY <1>3, <2>1, <2>3
<1> QED
  BY <1>1, <1>5, <1>6, <1>7 DEF w

(* Whole frames, one after the other and each as it was sent, are what the *)
(* FIFO gets, for all errors on the lines and all chip starts: an error    *)
(* ends the stream and does not damage it.                                 *)
THEOREM FramesWhole == Spec => []WholeFrames
<1>1. IInv => WholeFrames
  <2> SUFFICES ASSUME IInv, ~stale, ~full
               PROVE  WholeFrames
    BY DEF WholeFrames
  <2>1. \A i \in 1 .. Len(fifo) - 1 : Follows(fifo[i].is, fifo[i + 1].is)
    BY DEF IInv, Record, Chained
  <2>2. ASSUME NEW i \in DOMAIN fifo, NEW j \in DOMAIN fifo, Whole(i, j)
        PROVE  \E f \in Frames : [k \in 1 .. j - i - 3 |-> fifo[i + 2 + k].units] = Units(f)
    <3>1. PICK g \in Frames : Recorded(i, g)
      BY <2>2 DEF IInv, Record, FramesRecorded, Whole
    <3> DEFINE w == Words(g)
    <3>2. j - i = w + 3
      BY <2>2, <3>1, WholeLength DEF IInv
    <3>3. /\ w \in Nat /\ Len(g) \in Nat /\ 2 * w - 1 <= Len(g) /\ DOMAIN g = 1 .. Len(g)
          /\ Len(fifo) \in Nat /\ DOMAIN fifo = 1 .. Len(fifo)
      BY SetupFacts DEF IInv, Types, SensorTypes, TopTypes
    <3>4. w = (Len(g) + 1) \div 2
      BY DEF Words
    <3> HIDE DEF w
    <3>5. i \in Nat /\ j \in Nat /\ j <= Len(fifo) /\ j - i - 3 = w /\ i >= 1
      BY <2>2, <3>2, <3>3
    <3>6. ASSUME NEW k \in 1 .. w
          PROVE  fifo[i + 2 + k].units
                   = <<g[2 * k - 1], IF 2 * k \in DOMAIN g THEN g[2 * k] ELSE Fill>>
      <4>1. /\ i + 2 + k \in i .. Len(fifo) /\ (i + 2 + k) - i = k + 2 /\ k + 2 <= w + 3
            /\ k + 2 \in 3 .. w + 2 /\ k + 2 \in Nat
            /\ FirstUnit(k + 2) = 2 * k - 1 /\ (2 * k - 1) + 1 = 2 * k
            /\ 2 * k - 1 \in 1 .. Len(g)
        BY <3>2, <3>3, <3>5 DEF FirstUnit
      <4>2. Section(g, k + 2) = "data"
        BY <3>3, <4>1, SectionFacts DEF w
      <4>3. EntryOf(fifo[i + 2 + k], g, k + 2)
        BY <3>1, <4>1 DEF Recorded, w
      <4>4. fifo[i + 2 + k].units = UnitsAt(g, k + 2)
        BY <4>2, <4>3 DEF EntryOf
      <4>5. UnitAt(g, 2 * k - 1) = g[2 * k - 1]
        BY <3>3, <4>1 DEF UnitAt
      <4> QED
        BY <4>1, <4>4, <4>5 DEF UnitsAt, UnitAt
    <3>7. [k \in 1 .. w |-> fifo[i + 2 + k].units] = Units(g)
      BY <3>4, <3>6 DEF Units
    <3> QED
      BY <3>5, <3>7
  <2> QED
    BY <2>1, <2>2 DEF WholeFrames
<1> QED
  BY <1>1, Invariant, PTL
-----------------------------------------------------------------------------
(* That frames are recorded again after a start: what happens as long as   *)
(* every word arrives as it was sent.                                      *)
Undisturbed == faults = 0 /\ chStState # "CS1"

(* The deserializer finds the first header and every one behind it, until  *)
(* the sensor stops.                                                       *)
InStep ==
  /\ from \in Nat /\ faults \in Nat
  /\ chStState = "CS1" => frames = 0 /\ pos = FrameSize - 1
  /\ Undisturbed =>
       /\ frames = 0 => shiftState = "S1" /\ pos = FrameSize - 1
       /\ shiftState = "S1" => frames = 0 \/ (frames = 1 /\ pos = 0)
       /\ shiftState = "S3" => pos = FrameSize - 1 /\ frames >= setup.frames
       /\ shiftState = "S2" /\ pos = FrameSize - 1 /\ iFrameCtr = FrameSize => frames >= setup.frames
       /\ shiftState = "S2" /\ ERR => frames = 1 /\ pos = 1

(* The headers behind the first, which may be lost, go through the trigger *)
(* delay to the flag.                                                      *)
HeaderComes ==
  Undisturbed /\ ~stale /\ frames >= 2 =>
    /\ pos \in 1 .. Delay + 1 => sDataInDelayed[pos - 1].is = "header"
    /\ pos = Delay + 2 => sDataIn.is = "header"
    /\ pos = Delay + 3 => flag = "header"

(* The header of the second frame from the one in which writing began is   *)
(* recorded, and when the next one is, so is its trailer.                  *)
HeaderFound  == \E i \in DOMAIN fifo : fifo[i].is = "header"
TrailerFound == \E i \in DOMAIN fifo : fifo[i].is = "header" /\ ~Open(i)
Found ==
  Undisturbed /\ ~stale /\ ~full /\ sFifoWrEn =>
    /\ frames >= from + 3 \/ (frames = from + 2 /\ pos >= Delay + 4) => HeaderFound
    /\ frames >= from + 4 \/ (frames = from + 3 /\ pos >= Delay + 4) => TrailerFound

Recovering == InStep /\ HeaderComes /\ Found

(* A word that arrives as it was sent.                                     *)
LEMMA CleanTick ==
  ASSUME Tick, faults \in Nat
  PROVE  faults' \in Nat /\ (faults' = 0 => faults = 0 /\ Shifted(Sent)) /\ from' = from
<1>1. PICK w \in {Sent, Spoilt(Sent)} : Shifted(w) /\ faults' = IF w = Sent THEN faults ELSE faults + 1
  BY DEF Tick, Shifted
<1>2. from' = from
  BY DEF Tick
<1> QED
  BY <1>1, <1>2

(* The sensor stays behind a frame only if it has sent the last.           *)
LEMMA SensorStays ==
  ASSUME SensorTypes, SensorStep, pos = FrameSize - 1
  PROVE  /\ frames >= setup.frames => UNCHANGED <<frame, pos, frames>>
         /\ Streaming /\ pos' = pos => frames >= setup.frames
<1>1. FrameSize \in Nat /\ FrameSize > 4 /\ setup.frames \in Nat /\ frames \in Nat
  BY SetupFacts, SensorAssumption DEF SensorTypes
<1>2. frames >= setup.frames <=> ~(frames < setup.frames)
  BY <1>1
<1>3. CASE frames < setup.frames
  <2>1. (pos + 1) % FrameSize = 0 /\ pos # 0
    BY <1>1
  <2>2. Streaming => pos' = 0
    BY <1>3, <2>1 DEF SensorStep
  <2> QED
    BY <1>2, <1>3, <2>1, <2>2
<1>4. CASE ~(frames < setup.frames)
  <2>1. ~(pos < FrameSize - 1)
    BY <1>1
  <2> QED
    BY <1>2, <1>4, <2>1 DEF SensorStep
<1> QED
  BY <1>3, <1>4

(* The first header starts the counting, and no other word does.           *)
LEMMA InStepTick ==
  ASSUME IInv, InStep, Tick
  PROVE  InStep'
<1>1. /\ Types /\ SensorTypes /\ Lockstep /\ TimerState /\ SensorStep
      /\ setup' = setup /\ chStState' = chStState /\ starts' = starts /\ FrameSize' = FrameSize
      /\ from' = from /\ from \in Nat /\ faults' \in Nat /\ (faults' = 0 => faults = 0 /\ Shifted(Sent))
  BY TickParts, CleanTick DEF IInv, Types, Flow, InStep, timerVars, FrameSize
<1>2. FrameSize \in Nat /\ FrameSize > 4 /\ setup.frames \in Nat /\ pos \in Nat /\ frames \in Nat
      /\ chStState \in {"CS0", "CS1", "CS2"} /\ iFrameCtr \in Nat
  BY <1>1, SetupFacts, SensorAssumption DEF SensorTypes, Types, TopTypes
<1>3. /\ \/ UNCHANGED <<frame, pos, frames>> /\ (Streaming => pos = FrameSize - 1)
         \/ Streaming /\ pos < FrameSize - 1 /\ pos' = pos + 1 /\ UNCHANGED <<frame, frames>>
         \/ Streaming /\ pos = FrameSize - 1 /\ pos' = 0 /\ frames' = frames + 1
      /\ pos' \in Nat /\ frames' \in Nat
  BY <1>1, <1>2, SensorFacts
<1>4. chStState' = "CS1" => frames' = 0 /\ pos' = FrameSize' - 1
  BY <1>1, <1>3 DEF InStep, Streaming
<1>5. ASSUME Undisturbed'
      PROVE  /\ frames' = 0 => shiftState' = "S1" /\ pos' = FrameSize - 1
             /\ shiftState' = "S1" => frames' = 0 \/ (frames' = 1 /\ pos' = 0)
             /\ shiftState' = "S3" => pos' = FrameSize - 1 /\ frames' >= setup.frames
             /\ shiftState' = "S2" /\ pos' = FrameSize - 1 /\ iFrameCtr' = FrameSize => frames' >= setup.frames
             /\ shiftState' = "S2" /\ ERR' => frames' = 1 /\ pos' = 1
  <2>1. Undisturbed /\ chStState # "CS1" /\ Shifted(Sent)
    BY <1>1, <1>5 DEF Undisturbed
  <2>2. /\ frames = 0 => shiftState = "S1" /\ pos = FrameSize - 1
        /\ shiftState = "S1" => frames = 0 \/ (frames = 1 /\ pos = 0)
        /\ shiftState = "S3" => pos = FrameSize - 1 /\ frames >= setup.frames
        /\ shiftState = "S2" /\ pos = FrameSize - 1 /\ iFrameCtr = FrameSize => frames >= setup.frames
    BY <2>1 DEF InStep
  <2>3. /\ Sent \in Word /\ Sent.agree = TRUE /\ (Sent.is = "header" <=> pos = 0)
        /\ Shift(Sent)
    BY <1>1, <2>1, SentFacts DEF Shifted
  <2>4. starts # 0 => Streaming
    BY <1>1, <2>1 DEF Streaming, Types, TopTypes
  <2>5. CASE shiftState = "S1"
    <3>1. CASE pos = 0
      <4>1. frames = 1 /\ starts # 0
        BY <1>1, <1>2, <2>2, <2>5, <3>1 DEF TimerState
      <4>2. frames' = 1 /\ pos' = 1
        BY <1>2, <1>3, <2>4, <3>1, <4>1
      <4>3. shiftState' = "S2"
        BY <2>3, <2>5, <3>1 DEF Shift
      <4> QED
        BY <1>2, <4>2, <4>3
    <3>2. CASE pos # 0
      <4>1. shiftState' = "S1" /\ frames = 0 /\ pos = FrameSize - 1
        BY <2>2, <2>3, <2>5, <3>2 DEF Shift
      <4>2. (frames' = 0 /\ pos' = FrameSize - 1) \/ (frames' = 1 /\ pos' = 0)
        BY <1>2, <1>3, <4>1
      <4> QED
        BY <4>1, <4>2
    <3> QED
      BY <3>1, <3>2
  <2>6. CASE shiftState = "S2"
    <3>1. frames >= 1 /\ starts # 0 /\ Streaming
      BY <1>1, <1>2, <2>2, <2>4, <2>6 DEF TimerState
    <3>2. frames' >= 1
      BY <1>2, <1>3, <3>1
    <3>3. ~ERR' /\ shiftState' \in {"S2", "S3"}
      BY <1>1, <1>2, <2>1, <2>3, <2>6, ShiftFacts
    <3>4. (pos > 0 /\ iFrameCtr = pos) \/ (pos \in {0, FrameSize - 1} /\ iFrameCtr = FrameSize)
      BY <1>1, <2>1, <2>6 DEF Lockstep
    <3>5. ASSUME shiftState' = "S3" PROVE pos' = FrameSize - 1 /\ frames' >= setup.frames
      <4>1. iFrameCtr = FrameSize /\ Sent.is # "header"
        BY <2>3, <2>6, <3>5 DEF Shift, LengthDiffers
      <4>2. pos = FrameSize - 1 /\ frames >= setup.frames
        BY <1>1, <1>2, <2>2, <2>3, <2>6, <3>4, <4>1 DEF SensorTypes
      <4> QED
        BY <1>1, <4>2, SensorStays
    <3>6. ASSUME shiftState' = "S2", pos' = FrameSize - 1, iFrameCtr' = FrameSize
          PROVE  frames' >= setup.frames
      <4>1. iFrameCtr' = iFrameCtr + 1 \/ iFrameCtr' = 1
        BY <1>1, <1>2, <2>1, <2>3, <2>6, <3>6, ShiftFacts
      <4>2. pos = FrameSize - 1
        BY <1>2, <3>4, <3>6, <4>1
      <4>3. pos' = pos /\ frames >= setup.frames
        BY <1>1, <3>1, <3>6, <4>2, SensorStays
      <4> QED
        BY <1>1, <4>2, <4>3, SensorStays
    <3> QED
      BY <1>3, <3>2, <3>3, <3>5, <3>6
  <2>7. CASE shiftState = "S3"
    <3>1. shiftState' = "S3"
      BY <1>1, <1>2, <2>1, <2>3, <2>7, ShiftFacts
    <3>2. pos' = pos /\ frames' = frames
      BY <1>1, <2>2, <2>7, SensorStays
    <3> QED
      BY <2>2, <2>7, <3>1, <3>2
  <2> QED
    BY <1>1, <2>5, <2>6, <2>7 DEF SensorTypes
<1> QED
  BY <1>1, <1>4, <1>5 DEF InStep

(* Behind the second header the deserializer counts, without an error, the *)
(* word that the sensor is at.                                             *)
LEMMA CountsInStep ==
  ASSUME IInv, InStep, Undisturbed, frames >= 2, pos \in 0 .. Delay + 3
  PROVE  shiftState = "S2" /\ ~ERR
<1>1. /\ FrameSize \in Nat /\ FrameSize > Delay + 4 /\ Delay \in Nat /\ frames \in Nat
      /\ shiftState \in {"S1", "S2", "S3"}
  BY SetupFacts DEF IInv, Types, SensorTypes
<1>2. pos # FrameSize - 1 /\ frames # 0 /\ frames # 1
  BY <1>1
<1> QED
  BY <1>1, <1>2 DEF InStep

(* Where the sensor has been a word before.                                *)
LEMMA PositionBefore ==
  ASSUME IInv, InStep, Tick
  PROVE  /\ pos \in Nat /\ pos' \in Nat /\ frames \in Nat /\ FrameSize \in Nat /\ FrameSize > 4
         /\ pos' > 0 => frames' = frames /\ (pos' = pos + 1 \/ (pos' = pos /\ pos = FrameSize - 1))
         /\ pos' = 0 => frames' = frames + 1 /\ pos = FrameSize - 1
<1>1. /\ SensorTypes /\ SensorStep /\ setup' = setup /\ TimerState /\ chStState \in {"CS0", "CS1", "CS2"}
      /\ starts \in Nat
  BY TickParts DEF IInv, Types, TopTypes, Flow
<1>2. FrameSize \in Nat /\ FrameSize > 4 /\ pos \in Nat /\ frames \in Nat
  BY <1>1, SetupFacts DEF SensorTypes
<1>3. /\ \/ UNCHANGED <<frame, pos, frames>> /\ (Streaming => pos = FrameSize - 1)
         \/ Streaming /\ pos < FrameSize - 1 /\ pos' = pos + 1 /\ UNCHANGED <<frame, frames>>
         \/ Streaming /\ pos = FrameSize - 1 /\ pos' = 0 /\ frames' = frames + 1
  BY <1>1, SensorFacts
<1>4. ~Streaming => pos = FrameSize - 1
  BY <1>1 DEF Streaming, TimerState, InStep
<1> QED
  BY <1>2, <1>3, <1>4

(* With the word counted, the header goes through the pipeline to the flag. *)
LEMMA HeaderComesTick ==
  ASSUME IInv, InStep, HeaderComes, Tick
  PROVE  HeaderComes'
<1>0. /\ setup' = setup /\ setup \in Setups /\ Delay \in Nat /\ FrameSize \in Nat
      /\ FrameSize > Delay + 4 /\ Delay' = Delay
  BY TickParts, SetupFacts DEF IInv, Types, SensorTypes, Delay
<1>1. SUFFICES ASSUME Undisturbed', ~stale', frames' >= 2, pos' \in 1 .. Delay + 3
               PROVE  /\ pos' \in 1 .. Delay + 1 => sDataInDelayed'[pos' - 1].is = "header"
                      /\ pos' = Delay + 2 => sDataIn'.is = "header"
                      /\ pos' = Delay + 3 => flag' = "header"
  BY <1>0 DEF HeaderComes
<1>2. /\ Undisturbed /\ ~stale /\ Shifted(Sent) /\ Types
      /\ chStState \in {"CS0", "CS1", "CS2"} /\ chStState # "CS1"
  BY <1>1, CleanTick, TickParts DEF Undisturbed, InStep, timerVars, IInv, Types, TopTypes
<1>3. frames >= 2 /\ pos \in 0 .. Delay + 2 /\ pos' = pos + 1
  BY <1>0, <1>1, PositionBefore
<1>4. shiftState = "S2" /\ ~ERR
  BY <1>0, <1>2, <1>3, CountsInStep
<1>5. /\ sDataInDelayed'[0] = Sent /\ sDataIn' = sDataInDelayed[Delay] /\ Decode
      /\ \A i \in 1 .. Delay : sDataInDelayed'[i] = sDataInDelayed[i - 1]
  <2>1. ~ERR' /\ ERR' \in BOOLEAN /\ Sent \in Word
    BY <1>2, <1>4, ShiftFacts, SentFacts DEF Types
  <2> QED
    BY <1>0, <1>2, <2>1, ModFacts DEF Shifted, Types
<1>6. CASE pos = 0
  <2>1. Sent.is = "header"
    BY <1>2, <1>6, SentFacts DEF Types
  <2> QED
    BY <1>0, <1>3, <1>5, <1>6, <2>1
<1>7. CASE pos \in 1 .. Delay
  <2>1. sDataInDelayed[pos - 1].is = "header"
    BY <1>0, <1>2, <1>3, <1>7 DEF HeaderComes
  <2>2. pos' - 1 = pos /\ pos' \notin {Delay + 2, Delay + 3}
    BY <1>0, <1>3, <1>7
  <2> QED
    BY <1>5, <1>7, <2>1, <2>2
<1>8. CASE pos = Delay + 1
  <2>1. sDataInDelayed[Delay].is = "header"
    <3>1. pos - 1 = Delay /\ pos \in 1 .. Delay + 1
      BY <1>0, <1>8
    <3> QED
      BY <1>2, <1>3, <3>1 DEF HeaderComes
  <2> QED
    BY <1>0, <1>3, <1>5, <1>8, <2>1
<1>9. CASE pos = Delay + 2
  <2>1. sDataIn.is = "header"
    BY <1>2, <1>3, <1>9 DEF HeaderComes
  <2>2. PICK f \in Frames, q \in 0 .. FrameSize - 1 : Holds(sDataIn, f, q) /\ At(f, q)
    BY <1>2, <1>4, <2>1 DEF IInv, Framed, InFrame, Decoding, Waiting
  <2>3. Words(f) \in Nat /\ q \in Nat
    BY <1>0, <1>2, SetupFacts DEF Types, SensorTypes
  <2>4. q = 0
    BY <2>1, <2>2, <2>3, SectionFacts DEF Holds
  <2>5. dataState = "HeaderSt"
    BY <2>2, <2>3, <2>4 DEF At, AtData
  <2>6. flag' = "header"
    BY <1>5, <2>1, <2>5 DEF Decode, Emit
  <2> QED
    BY <1>0, <1>3, <1>9, <2>6
<1> QED
  BY <1>0, <1>3, <1>6, <1>7, <1>8, <1>9

(* What stands in the FIFO stays there, and a trailer behind a header.     *)
LEMMA FoundKept ==
  ASSUME Types, WriteFifo
  PROVE  (HeaderFound => HeaderFound') /\ (TrailerFound => TrailerFound')
<1>1. /\ Len(fifo) \in Nat /\ DOMAIN fifo = 1 .. Len(fifo) /\ DOMAIN fifo' = 1 .. Len(fifo')
      /\ Len(fifo') \in Nat /\ Len(fifo) <= Len(fifo')
      /\ \A i \in 1 .. Len(fifo) : fifo'[i] = fifo[i]
  <2>1. Len(fifo) \in Nat /\ DOMAIN fifo = 1 .. Len(fifo) /\ DOMAIN fifo' = 1 .. Len(fifo')
    BY WriteFacts
  <2>2. CASE fifo' = fifo
    BY <2>1, <2>2
  <2>3. CASE fifo' # fifo
    <3>1. Len(fifo') = Len(fifo) + 1 /\ \A i \in 1 .. Len(fifo) : fifo'[i] = fifo[i]
      BY <2>3, WriteFacts
    <3> QED
      BY <2>1, <3>1
  <2> QED
    BY <2>2, <2>3
<1>2. ASSUME NEW i \in DOMAIN fifo, fifo[i].is = "header", ~Open(i)
      PROVE  i \in DOMAIN fifo' /\ fifo'[i].is = "header" /\ ~Open(i)'
  <2>1. PICK k \in i + 1 .. Len(fifo) : fifo[k].is = "trailer"
    BY <1>2 DEF Open
  <2>2. k \in 1 .. Len(fifo) /\ k \in i + 1 .. Len(fifo') /\ i \in 1 .. Len(fifo')
    BY <1>1, <1>2, <2>1
  <2>3. fifo'[k].is = "trailer" /\ fifo'[i].is = "header"
    BY <1>1, <1>2, <2>1, <2>2
  <2> QED
    BY <1>1, <2>2, <2>3 DEF Open
<1>3. HeaderFound => HeaderFound'
  <2>1. SUFFICES ASSUME NEW i \in DOMAIN fifo, fifo[i].is = "header" PROVE HeaderFound'
    BY DEF HeaderFound
  <2>2. i \in DOMAIN fifo' /\ fifo'[i].is = "header"
    BY <1>1, <2>1
  <2> QED
    BY <2>2 DEF HeaderFound
<1>4. TrailerFound => TrailerFound'
  BY <1>2 DEF TrailerFound
<1> QED
  BY <1>3, <1>4

(* The header that is written closes the frame of the one before.          *)
LEMMA FoundTick ==
  ASSUME IInv, Recovering, Tick
  PROVE  Found'
<1>1. /\ Types /\ InStep /\ HeaderComes /\ Found /\ WriteFifo /\ from \in Nat
      /\ from' = from /\ sFifoWrEn' = sFifoWrEn /\ full \in BOOLEAN
      /\ Delay' = Delay /\ Delay \in Nat /\ FrameSize > Delay + 4
  <2>1. Delay' = Delay /\ Delay \in Nat /\ FrameSize > Delay + 4
    BY TickParts, SetupFacts DEF IInv, Types, SensorTypes, Delay
  <2> QED
    BY <2>1, TickParts, CleanTick DEF IInv, Types, TopTypes, Recovering, InStep, timerVars
<1>2. SUFFICES ASSUME Undisturbed', ~stale', ~full', sFifoWrEn'
               PROVE  /\ frames' >= from + 3 \/ (frames' = from + 2 /\ pos' >= Delay' + 4) => HeaderFound'
                      /\ frames' >= from + 4 \/ (frames' = from + 3 /\ pos' >= Delay' + 4) => TrailerFound'
  BY <1>1 DEF Found
<1>3. Undisturbed /\ ~stale /\ ~full /\ sFifoWrEn
  <2>1. ~full
    BY <1>1, <1>2, WriteFacts
  <2>2. Undisturbed /\ ~stale
    BY <1>2, CleanTick, TickParts DEF Undisturbed, InStep, timerVars, Recovering
  <2> QED
    BY <1>1, <1>2, <2>1, <2>2
<1>4. /\ frames >= from + 3 \/ (frames = from + 2 /\ pos >= Delay + 4) => HeaderFound
      /\ frames >= from + 4 \/ (frames = from + 3 /\ pos >= Delay + 4) => TrailerFound
  BY <1>3 DEF Recovering, Found
<1>5. /\ pos \in Nat /\ pos' \in Nat /\ frames \in Nat /\ FrameSize \in Nat /\ FrameSize > 4
      /\ pos' > 0 => frames' = frames /\ (pos' = pos + 1 \/ (pos' = pos /\ pos = FrameSize - 1))
      /\ pos' = 0 => frames' = frames + 1 /\ pos = FrameSize - 1
  BY <1>1, PositionBefore
<1>6. CASE pos = Delay + 3 /\ frames >= from + 2
  <2>1. frames >= 2 /\ ~ERR
    <3>1. frames >= 2 /\ pos \in 0 .. Delay + 3
      BY <1>1, <1>5, <1>6
    <3> QED
      BY <1>1, <1>3, <3>1, CountsInStep
  <2>0. flag = "header"
    BY <1>1, <1>3, <1>6, <2>1 DEF HeaderComes
  <2>2. HeaderFound'
    <3>2. Len(fifo) + 1 \in DOMAIN fifo' /\ fifo'[Len(fifo) + 1] = Din
      <4>1. Len(fifo) \in Nat /\ DOMAIN fifo' = 1 .. Len(fifo')
        BY <1>1, WriteFacts
      <4>2. Len(fifo') = Len(fifo) + 1 /\ fifo'[Len(fifo) + 1] = Din
        BY <1>1, <1>2, <1>3, <2>0, WriteFacts
      <4> QED
        BY <4>1, <4>2
    <3>3. Din.is = "header"
      BY <2>0 DEF Din
    <3> QED
      BY <3>2, <3>3 DEF HeaderFound
  <2>3. ASSUME frames' >= from + 3 PROVE TrailerFound'
    <3>1. frames >= from + 3
      BY <1>1, <1>5, <1>6, <2>3
    <3>2. PICK i \in DOMAIN fifo : fifo[i].is = "header"
      BY <1>4, <3>1 DEF HeaderFound
    <3>3. PICK g \in Frames, p \in 0 .. FrameSize - 1 : Output(g, p)
      BY <1>3, <2>0, <2>1 DEF IInv, Framed, InFrame, Written, Undisturbed
    <3>4. p = 0
      <4>1. p \in Nat /\ Words(g) \in Nat
        BY <1>1, <1>5, SetupFacts DEF Types, SensorTypes
      <4>2. flag = Flagged(Section(g, p))
        BY <2>0, <3>3 DEF Output
      <4> QED
        BY <2>0, <4>1, <4>2, SectionFacts DEF Flagged
    <3>5. ~Open(i)
      <4>1. Len(fifo) \in Nat /\ i \in 1 .. Len(fifo)
        BY <1>1, <3>2, WriteFacts
      <4>2. Open(i) => Len(fifo) + 1 - i = 0
        BY <1>3, <3>2, <3>3, <3>4 DEF Output
      <4> QED
        BY <4>1, <4>2
    <3>6. TrailerFound
      BY <3>2, <3>5 DEF TrailerFound
    <3> QED
      BY <1>1, <3>6, FoundKept
  <2> QED
    BY <1>1, <1>5, <2>2, <2>3, <1>6
<1>7. CASE ~(pos = Delay + 3 /\ frames >= from + 2)
  <2>1. (frames' >= from + 3 \/ (frames' = from + 2 /\ pos' >= Delay' + 4)) => HeaderFound
    BY <1>1, <1>4, <1>5, <1>7
  <2>2. (frames' >= from + 4 \/ (frames' = from + 3 /\ pos' >= Delay' + 4)) => TrailerFound
    BY <1>1, <1>4, <1>5, <1>7
  <2> QED
    BY <1>1, <2>1, <2>2, FoundKept
<1> QED
  BY <1>6, <1>7

LEMMA RecoveringInitial == Init => Recovering
<1> SUFFICES ASSUME Init PROVE Recovering
  OBVIOUS
<1>1. /\ from = 0 /\ faults = 0 /\ frames = 0 /\ pos = FrameSize - 1 /\ shiftState = "S1"
      /\ chStState = "CS0" /\ sFifoWrEn = FALSE
  BY DEF Init
<1>2. InStep
  BY <1>1 DEF InStep
<1>3. HeaderComes /\ Found
  BY <1>1 DEF HeaderComes, Found
<1> QED
  BY <1>2, <1>3 DEF Recovering

LEMMA RecoveringInductive == IInv /\ Recovering /\ [Next]_vars => Recovering'
<1> SUFFICES ASSUME IInv, Recovering, [Next]_vars PROVE Recovering'
  OBVIOUS
<1>1. /\ FrameSize \in Nat /\ FrameSize > 4 /\ frames \in Nat /\ pos \in Nat
      /\ chStState \in {"CS0", "CS1", "CS2"} /\ shiftState \in {"S1", "S2", "S3"}
      /\ TimerState /\ Lockstep /\ InStep /\ HeaderComes /\ Found
  BY SetupFacts DEF IInv, Types, SensorTypes, TopTypes, Flow, Recovering
<1>2. CASE Tick
  BY <1>2, InStepTick, HeaderComesTick, FoundTick DEF Recovering
<1>3. CASE Clk160 \/ Strobe \/ Read \/ UNCHANGED vars
  <2>1. /\ UNCHANGED <<setup, frame, pos, frames, faults, shiftState, iFrameCtr, ERR>>
        /\ UNCHANGED <<sDataInDelayed, sDataIn, flag, chStState, sFifoWrEn, fifo, full, stale, from>>
    BY <1>3 DEF Clk160, Strobe, Read, vars, sensorVars, desVars, modVars, timerVars, fifoVars
  <2>2. FrameSize' = FrameSize /\ Delay' = Delay /\ (Undisturbed' <=> Undisturbed)
    BY <2>1 DEF FrameSize, Delay, Undisturbed
  <2>3. InStep'
    BY <1>1, <2>1, <2>2 DEF InStep
  <2>4. HeaderComes'
    BY <1>1, <2>1, <2>2 DEF HeaderComes
  <2>5. (HeaderFound => HeaderFound') /\ (TrailerFound => TrailerFound')
    BY <2>1 DEF HeaderFound, TrailerFound, Open
  <2>6. Found'
    BY <1>1, <2>1, <2>2, <2>5 DEF Found
  <2> QED
    BY <2>3, <2>4, <2>6 DEF Recovering
<1>4. CASE ChipStart
  <2>1. /\ chStState' = "CS1" /\ frames' = 0 /\ pos' = FrameSize - 1 /\ faults' = 0
        /\ from' = from /\ setup' = setup
    BY <1>4 DEF ChipStart
  <2>2. FrameSize' = FrameSize /\ ~Undisturbed'
    BY <2>1 DEF FrameSize, Undisturbed
  <2>3. InStep'
    BY <1>1, <2>1, <2>2 DEF InStep
  <2> QED
    BY <2>2, <2>3 DEF Recovering, HeaderComes, Found
<1>5. CASE ChipStarted
  <2>1. /\ chStState = "CS1" /\ chStState' = "CS2" /\ iFrameCtr = 0
        /\ UNCHANGED <<setup, pos, frames, faults, shiftState, from, sFifoWrEn>>
    BY <1>5 DEF ChipStarted, sensorVars, desVars
  <2>2. FrameSize' = FrameSize /\ shiftState = "S1" /\ frames = 0 /\ pos = FrameSize - 1 /\ ~sFifoWrEn
    BY <1>1, <2>1 DEF FrameSize, Lockstep, TimerState, InStep
  <2>3. InStep'
    BY <1>1, <2>1, <2>2 DEF InStep
  <2>4. HeaderComes' /\ Found'
    BY <2>1, <2>2 DEF HeaderComes, Found
  <2> QED
    BY <2>3, <2>4 DEF Recovering
<1>6. CASE TimerEnds
  <2>1. /\ chStState = "CS2" /\ chStState' = "CS0" /\ from' = frames
        /\ UNCHANGED <<setup, pos, frames, faults, shiftState, iFrameCtr, ERR>>
        /\ UNCHANGED <<sDataInDelayed, sDataIn, flag, stale>>
    BY <1>6 DEF TimerEnds, sensorVars, desVars, modVars
  <2>2. FrameSize' = FrameSize /\ Delay' = Delay /\ (Undisturbed' <=> Undisturbed)
    BY <2>1 DEF FrameSize, Delay, Undisturbed
  <2>3. InStep'
    BY <1>1, <2>1, <2>2 DEF InStep
  <2>4. HeaderComes'
    BY <1>1, <2>1, <2>2 DEF HeaderComes
  <2>5. Found'
    BY <1>1, <2>1 DEF Found
  <2> QED
    BY <2>3, <2>4, <2>5 DEF Recovering
<1> QED
  BY <1>2, <1>3, <1>4, <1>5, <1>6 DEF Next

(* A header with a trailer behind it begins a whole frame.                 *)
LEMMA FoundWhole ==
  ASSUME Types, NEW i \in DOMAIN fifo, fifo[i].is = "header", ~Open(i),
         NEW g \in Frames, Recorded(i, g)
  PROVE  \E j \in DOMAIN fifo : Whole(i, j)
<1> DEFINE n == Len(fifo)
           w == Words(g)
<1>1. n \in Nat /\ DOMAIN fifo = 1 .. n /\ w \in Nat
  BY SetupFacts DEF Types, SensorTypes, TopTypes
<1>2. \A q \in Nat : /\ Section(g, q) = "trailer" <=> q = w + 3
                     /\ Section(g, q) = "header" <=> q = 0
  BY <1>1, SectionFacts
<1>3. \A k \in i .. n : k - i <= w + 3 => fifo[k].is = Section(g, k - i)
  BY DEF Recorded, EntryOf
<1>4. PICK k \in i + 1 .. n : fifo[k].is = "trailer"
  BY DEF Open
<1> HIDE DEF n, w
<1>5. i \in Nat /\ i >= 1 /\ i <= n /\ k \in Nat /\ k - i \in Nat /\ k - i > 0 /\ k \in i .. n
  BY <1>1, <1>4
<1>6. k - i >= w + 3
  <2> SUFFICES ASSUME k - i < w + 3 PROVE FALSE
    BY <1>1, <1>5
  <2>1. Section(g, k - i) = "trailer"
    BY <1>1, <1>3, <1>4, <1>5
  <2> QED
    BY <1>1, <1>2, <1>5, <2>1
<1>7. PICK j : j = i + (w + 3)
  OBVIOUS
<1>8. j \in Nat /\ j - i = w + 3 /\ i < j /\ j \in i .. n /\ j \in 1 .. n
  BY <1>1, <1>5, <1>6, <1>7
<1>9. fifo[j].is = "trailer"
  <2>1. Section(g, w + 3) = "trailer" /\ w + 3 <= w + 3
    BY <1>1, <1>2
  <2> QED
    BY <1>3, <1>8, <2>1
<1>10. ASSUME NEW m \in i + 1 .. j - 1
       PROVE  fifo[m].is \notin {"header", "trailer"}
  <2>1. m \in i .. n /\ m - i \in Nat /\ m - i # 0 /\ m - i <= w + 3 /\ m - i # w + 3
    BY <1>1, <1>5, <1>8
  <2>2. fifo[m].is = Section(g, m - i)
    BY <1>3, <2>1
  <2> QED
    BY <1>2, <2>1, <2>2
<1>11. Whole(i, j)
  BY <1>8, <1>9, <1>10 DEF Whole
<1> QED
  BY <1>1, <1>8, <1>11

(* After every chip start, whatever went wrong before it, the third frame  *)
(* from the one in which writing began finds a whole frame in the FIFO     *)
(* when its header has come through the trigger delay, whatever its value: *)
(* for all phases of the latch clock, the one that loses the first header  *)
(* too, and for any time that the timer takes.                             *)
THEOREM RecoveryCorrect == Spec => []Recovered
<1>1. IInv /\ Recovering => Recovered
  <2> SUFFICES ASSUME IInv, Recovering, faults = 0, ~stale, ~full, sFifoWrEn,
                      frames > from + 3 \/ (frames = from + 3 /\ pos >= Delay + 4)
               PROVE  \E i, j \in DOMAIN fifo : Whole(i, j)
    BY DEF Recovered
  <2>1. Undisturbed /\ frames \in Nat /\ from \in Nat
    BY DEF IInv, Types, TopTypes, SensorTypes, Flow, TimerState, Undisturbed, Recovering, InStep
  <2>2. frames >= from + 4 \/ (frames = from + 3 /\ pos >= Delay + 4)
    BY <2>1
  <2>3. PICK i \in DOMAIN fifo : fifo[i].is = "header" /\ ~Open(i)
    BY <2>1, <2>2 DEF Recovering, Found, TrailerFound
  <2>4. PICK g \in Frames : Recorded(i, g)
    BY <2>3 DEF IInv, Record, FramesRecorded
  <2> QED
    BY <2>3, <2>4, FoundWhole DEF IInv
<1>2. Init => IInv /\ Recovering
  BY Initial, RecoveringInitial
<1>3. (IInv /\ Recovering) /\ [Next]_vars => (IInv /\ Recovering)'
  BY Inductive, RecoveringInductive
<1> QED
  BY <1>1, <1>2, <1>3, PTL DEF Spec
=============================================================================
