--------------------------- MODULE IodelayScanProofs ---------------------------
(* The scan of the input delay, for any even number of settings and any    *)
(* number of statuses read too early: the second loop prints the truth,    *)
(* and the setting chosen is clean when at most half of the settings err.  *)
EXTENDS IodelayScan, SequenceTheorems, TLAPS

(* The setting that is being tried; the status of it can be trusted unless *)
(* the first loop has read one too early.                                  *)
Tried   == IF loop = "scan" THEN 2 * i ELSE i
Trusted == loop = "scan" => early = 0

(* The four commands of a try are on their way, then some of them are      *)
(* executed: the register holds the setting, it is loaded, the chip has    *)
(* started, and the status is the setting's.                               *)
Idle     == link = <<>> /\ answer = <<>>
Asked    == link = <<Tried, load, start, read>> /\ answer = <<>>
Written  == link = <<load, start, read>> /\ answer = <<>> /\ reg = Tried
Loaded   == link = <<start, read>> /\ answer = <<>> /\ delay = Tried
Started  == link = <<read>> /\ answer = <<>> /\ delay = Tried
Answered == /\ link = <<>>
            /\ \E b \in BOOLEAN : answer = <<b>> /\ (Trusted => b = Bad(Tried))

OneTry == /\ Idle \/ Asked \/ Written \/ Loaded \/ Started \/ Answered
          /\ ~Idle => i < Steps

(* The flag falls for a setting without errors only, and a new delay       *)
(* raises it.                                                              *)
FlagHonest == ~sErr => ~Bad(delay)

(* What is printed belongs to the settings tried before this one.          *)
PrintedSoFar == /\ printed \in Seq(BOOLEAN)
                /\ Len(printed) = IF loop = "check" THEN i ELSE 0

ScanTypeOK == /\ loop \in {"scan", "check"} /\ i \in 0 .. Steps
              /\ sErr \in BOOLEAN /\ timer \in BOOLEAN /\ early \in Nat

IInv == ScanTypeOK /\ OneTry /\ FlagHonest /\ PrintedSoFar /\ PrintsTruth
-----------------------------------------------------------------------------
LEMMA TriedIsSetting ==
  ASSUME ScanTypeOK, i < Steps
  PROVE  /\ Tried \in Settings /\ Tried \in Nat
         /\ Tried \notin {load, start, read}
BY ScanAssumption DEF ScanTypeOK, Tried, Settings, load, start, read

LEMMA InitIInv == Init => IInv
<1> SUFFICES ASSUME Init PROVE IInv
  OBVIOUS
<1>1. ScanTypeOK /\ FlagHonest
  <2>1. loop = "scan" /\ i \in 0 .. Steps /\ early \in Nat
    BY ScanAssumption DEF Init
  <2>2. sErr \in BOOLEAN /\ timer \in BOOLEAN /\ FlagHonest
    BY ZenonT(20) DEF Init, FlagHonest
  <2> QED
    BY <2>1, <2>2 DEF ScanTypeOK
<1>2. OneTry
  BY DEF Init, OneTry, Idle
<1>3. PrintedSoFar /\ PrintsTruth
  <2>1. printed = <<>> /\ <<>> \in Seq(BOOLEAN) /\ Len(<<>>) = 0 /\ DOMAIN <<>> = {}
    BY DEF Init
  <2> QED
    BY <2>1 DEF Init, PrintedSoFar, PrintsTruth
<1> QED
  BY <1>1, <1>2, <1>3 DEF IInv
-----------------------------------------------------------------------------
(* The board.                                                              *)

LEMMA BoardKeeps ==
  ASSUME IInv, Board
  PROVE  /\ ScanTypeOK' /\ FlagHonest' /\ OneTry'
         /\ UNCHANGED <<errors, hostVars>> /\ (early = 0 \/ early' # 0)
<1> USE DEF IInv
<1>a. ScanTypeOK /\ UNCHANGED <<errors, hostVars>>
  BY DEF Board, Execute, HeaderFound, TimerEnds
<1>h. /\ errors' = errors /\ loop' = loop /\ i' = i /\ Tried' = Tried
      /\ Bad(Tried)' = Bad(Tried)
  BY <1>a DEF hostVars, Tried, Bad
<1>1. CASE HeaderFound
  <2>1. ScanTypeOK' /\ early' = early
    BY <1>1, <1>h DEF HeaderFound, ScanTypeOK
  <2>2. FlagHonest'
    BY <1>1 DEF HeaderFound, FlagHonest, Bad
  <2>3. OneTry'
    BY <1>1, <1>h DEF HeaderFound, OneTry, Idle, Asked, Written, Loaded, Started,
       Answered, Trusted, load, start, read
  <2> QED
    BY <1>a, <2>1, <2>2, <2>3
<1>2. CASE TimerEnds
  <2>1. ScanTypeOK' /\ early' = early
    BY <1>2, <1>h DEF TimerEnds, ScanTypeOK
  <2>2. FlagHonest'
    BY <1>2 DEF TimerEnds, FlagHonest, Bad
  <2>3. OneTry'
    BY <1>2, <1>h DEF TimerEnds, OneTry, Idle, Asked, Written, Loaded, Started,
       Answered, Trusted, load, start, read
  <2> QED
    BY <1>a, <2>1, <2>2, <2>3
<1>3. CASE Execute
  <2> DEFINE c == Head(link)
  <2>1. link # <<>> /\ link' = Tail(link)
    BY <1>3 DEF Execute
  <2>2. i < Steps /\ i' < Steps /\ Tried \in Nat /\ Tried \in Settings
        /\ Tried \notin {load, start, read}
    BY <2>1, <1>a, <1>h, TriedIsSetting DEF OneTry, Idle
  <2>3. CASE Asked
    <3>1. c = Tried /\ link' = <<load, start, read>>
      BY <2>1, <2>3 DEF Asked
    <3>2. reg' = Tried /\ UNCHANGED <<delay, timer, sErr, early, answer>>
      BY <1>3, <2>2, <3>1 DEF Execute, load, start, read
    <3> QED
      BY <1>a, <1>h, <2>2, <2>3, <3>1, <3>2 DEF Asked, Written, OneTry, ScanTypeOK,
         FlagHonest, Bad
  <2>4. CASE Written
    <3>1. c = load /\ link' = <<start, read>>
      BY <2>1, <2>4 DEF Written
    <3>2. Load /\ UNCHANGED answer
      BY <1>3, <3>1 DEF Execute, load, Settings
    <3> QED
      BY <1>a, <1>h, <2>2, <2>4, <3>1, <3>2 DEF Load, Written, Loaded, OneTry, ScanTypeOK,
         FlagHonest
  <2>5. CASE Loaded
    <3>1. c = start /\ link' = <<read>>
      BY <2>1, <2>5 DEF Loaded
    <3>2. Start /\ UNCHANGED answer
      BY <1>3, <3>1 DEF Execute, start, Settings
    <3> QED
      BY <1>a, <1>h, <2>2, <2>5, <3>1, <3>2 DEF Start, Loaded, Started, OneTry, ScanTypeOK,
         FlagHonest, Bad
  <2>6. CASE Started
    <3>1. c = read /\ link' = <<>>
      BY <2>1, <2>6 DEF Started
    <3>2. ReadStatus
      BY <1>3, <3>1 DEF Execute, read, Settings
    <3>3. Settled => sErr = Bad(Tried)
      BY <2>6, <1>a DEF Settled, FlagHonest, Started, ScanTypeOK, Bad
    <3>4. Settled \/ (~Trusted)'
      BY <3>2, <1>a, <1>h DEF ReadStatus, Trusted, ScanTypeOK
    <3>5. Answered'
      BY <1>a, <1>h, <3>1, <3>2, <3>3, <3>4 DEF Answered, ReadStatus, ScanTypeOK
    <3>6. ScanTypeOK' /\ FlagHonest' /\ (early = 0 \/ early' # 0)
      BY <1>a, <1>h, <3>2 DEF ReadStatus, ScanTypeOK, FlagHonest, Bad
    <3> QED
      BY <1>a, <1>h, <2>2, <3>5, <3>6 DEF OneTry
  <2> QED
    BY <2>1, <2>3, <2>4, <2>5, <2>6 DEF OneTry, Idle, Answered
<1> QED
  BY <1>1, <1>2, <1>3 DEF Board
-----------------------------------------------------------------------------
(* The host.                                                               *)

LEMMA HostKeeps ==
  ASSUME IInv, Scan \/ Note \/ Choose \/ Check \/ Report
  PROVE  IInv'
<1> USE DEF IInv
<1>1. CASE Scan
  <2>1. ~(Waiting) /\ i < Steps /\ Tried = 2 * i
    BY <1>1 DEF Scan, Tried
  <2>2. OneTry'
    BY <1>1, <2>1 DEF Scan, Ask, Waiting, OneTry, Asked, Tried, hostVars, load, start, read
  <2> QED
    BY <1>1, <2>2 DEF Scan, ScanTypeOK, FlagHonest, PrintedSoFar, PrintsTruth, Bad, hostVars,
       boardVars
<1>2. CASE Note
  <2>1. i < Steps /\ link = <<>> /\ answer' = <<>>
    BY <1>2 DEF Note, OneTry, Idle, Asked, Written, Loaded, Started, Answered
  <2>2. ScanTypeOK' /\ OneTry'
    BY <1>2, <2>1, ScanAssumption DEF Note, ScanTypeOK, OneTry, Idle, boardVars
  <2> QED
    BY <1>2, <2>2 DEF Note, ScanTypeOK, FlagHonest, PrintedSoFar, PrintsTruth, Bad, boardVars
<1>3. CASE Choose
  <2>1. Idle
    BY <1>3 DEF Choose, OneTry, ScanTypeOK
  <2>2. ScanTypeOK' /\ OneTry'
    BY <1>3, <2>1, ScanAssumption DEF Choose, ScanTypeOK, OneTry, Idle, boardVars
  <2> QED
    BY <1>3, <2>2 DEF Choose, ScanTypeOK, FlagHonest, PrintedSoFar, PrintsTruth, Bad, boardVars
<1>4. CASE Check
  <2>1. ~(Waiting) /\ i < Steps /\ Tried = i
    BY <1>4 DEF Check, Tried
  <2>2. OneTry'
    BY <1>4, <2>1 DEF Check, Ask, Waiting, OneTry, Asked, Tried, load, start, read
  <2> QED
    BY <1>4, <2>2 DEF Check, ScanTypeOK, FlagHonest, PrintedSoFar, PrintsTruth, Bad, boardVars
<1>5. CASE Report
  <2>1. loop = "check" /\ Answered /\ i < Steps
    BY <1>5 DEF Report, OneTry, Idle, Asked, Written, Loaded, Started
  <2>2. PICK b \in BOOLEAN : answer = <<b>> /\ b = Bad(i)
    BY <2>1 DEF Answered, Trusted, Tried
  <2>3. printed' = Append(printed, b) /\ i' = i + 1 /\ answer' = <<>> /\ loop' = loop
        /\ UNCHANGED <<errors, link, boardVars>>
    BY <1>5, <2>2 DEF Report
  <2>4. /\ printed \in Seq(BOOLEAN) /\ Len(printed) = i /\ i \in Nat
        /\ printed' \in Seq(BOOLEAN) /\ Len(printed') = i + 1 /\ printed'[i + 1] = b
        /\ \A k \in 1 .. i : printed'[k] = printed[k]
    BY <2>1, <2>3, AppendProperties, ScanAssumption DEF PrintedSoFar, ScanTypeOK
  <2>5. PrintedSoFar'
    BY <2>1, <2>3, <2>4 DEF PrintedSoFar
  <2>6. PrintsTruth'
    <3> SUFFICES ASSUME NEW k \in 1 .. (i + 1) PROVE printed'[k] = Bad(k - 1)'
      BY <2>4, LenProperties DEF PrintsTruth
    <3>1. CASE k = i + 1
      <4>1. k - 1 = i /\ printed'[k] = b
        BY <2>4, <3>1
      <4>2. Bad(k - 1)' = Bad(i)
        BY <4>1, <2>3 DEF Bad
      <4> QED
        BY <4>1, <4>2, <2>2, ZenonT(20)
    <3>2. CASE k # i + 1
      <4>1. k \in DOMAIN printed /\ printed'[k] = printed[k]
        BY <2>4, <3>2, LenProperties
      <4>2. Bad(k - 1)' = Bad(k - 1)
        BY <2>3 DEF Bad
      <4>3. printed[k] = Bad(k - 1)
        BY <4>1 DEF PrintsTruth
      <4> QED
        BY <4>1, <4>2, <4>3, ZenonT(20)
    <3> QED
      BY <3>1, <3>2
  <2>7. ScanTypeOK' /\ FlagHonest' /\ OneTry'
    BY <2>1, <2>3, ScanAssumption DEF Answered, ScanTypeOK, FlagHonest, OneTry, Idle, Bad,
       boardVars
  <2> QED
    BY <2>5, <2>6, <2>7
<1> QED
  BY <1>1, <1>2, <1>3, <1>4, <1>5

LEMMA NextIInv == IInv /\ [Next]_vars => IInv'
<1> SUFFICES ASSUME IInv, [Next]_vars PROVE IInv'
  OBVIOUS
<1>1. CASE Board
  <2>1. UNCHANGED <<errors, loop, i, printed>>
    BY <1>1, BoardKeeps DEF hostVars
  <2>2. PrintedSoFar' /\ PrintsTruth'
    BY <2>1 DEF IInv, PrintedSoFar, PrintsTruth, Bad
  <2> QED
    BY <1>1, <2>2, BoardKeeps DEF IInv
<1>2. CASE UNCHANGED vars
  BY <1>2 DEF vars, hostVars, boardVars, IInv, ScanTypeOK, OneTry, FlagHonest, PrintedSoFar,
     PrintsTruth, Bad, Idle, Asked, Written, Loaded, Started, Answered, Trusted, Tried
<1> QED
  BY <1>1, <1>2, HostKeeps DEF Next

(* iodelayscan.py:70: the second loop prints, for each setting, whether    *)
(* that one is bad, whatever the first loop has made of its own statuses:  *)
(* the flag that a reset left up and a start that the timer swallowed are  *)
(* both over when the status is read.                                      *)
THEOREM TruthPrinted == Spec => []PrintsTruth
<1>1. IInv => PrintsTruth
  BY DEF IInv
<1> QED
  BY InitIInv, NextIInv, <1>1, PTL DEF Spec
-----------------------------------------------------------------------------
(* The first loop.  The positions of the tried settings are twice their    *)
(* number, with a gap in the middle of the circle and one at its end.      *)
Mid     == Steps \div 2
Pos(j)  == IF j < Mid THEN 2 * j ELSE 2 * j + Gap

(* How many of a row of top settings, x behind its first, have been tried. *)
Done(x, top) == IF x < 0 THEN 0 ELSE IF x > top THEN top ELSE x

(* What an arc contributes to the sum: its positions, each of which lies   *)
(* behind as many gaps as the row has left behind.                         *)
Low(a)     == IF a < Mid THEN 0 ELSE Gap
High(a, n) == IF a + n < Mid THEN 0 ELSE Gap
Straight(a, n, c) ==
  /\ cnt = c /\ boundary = (IF a = 0 /\ i > 0 THEN 1 ELSE 0)
  /\ sums \in Int
  /\ c * (2 * a + c - 1) + c * Low(a) <= sums
  /\ sums <= c * (2 * a + c - 1) + c * High(a, n)

(* An arc over the end of the circle begins with d settings from 0 on, and *)
(* c settings before 0 follow.                                             *)
Around(a, d, c) ==
  /\ cnt = d + c /\ boundary = (IF i > 0 THEN 1 ELSE 0)
  /\ sums = d * (d - 1) + c * (2 * a + c - 1 + Gap - Circle)

Summed(a, n) ==
  loop = "scan" /\ early = 0 =>
    /\ ioDelayValue_ = Pos(i)
    /\ a + n < Steps => Straight(a, n, Done(i - a, n + 1))
    /\ a + n >= Steps => Around(a, Done(i, a + n - Steps + 1), Done(i - a, Steps - a))

ArcSummed == \E a \in 0 .. (Steps - 1), n \in 0 .. (MaxArc - 1) :
               errors = Arc(a, n) /\ Summed(a, n)

(* At most half of the settings err.                                       *)
HalfClean == 2 * MaxArc <= Steps

CInv == IInv /\ ArcSummed /\ OptimumIsClean
-----------------------------------------------------------------------------
(* Remainders and quotients.                                               *)

LEMMA OneTurn ==
  ASSUME NEW s \in Nat, s > 0, NEW x \in Nat, x < 2 * s
  PROVE  x % s = IF x < s THEN x ELSE x - s
<1>1. PICK q \in Int, r \in Int : q = x \div s /\ r = x % s /\ 0 <= r /\ r < s /\ x = s * q + r
  OBVIOUS
<1>2. CASE q <= -1
  <2>1. s * q <= 0 - s
    BY <1>2
  <2> QED
    BY <1>1, <2>1
<1>3. CASE q = 0
  BY <1>1, <1>3
<1>4. CASE q = 1
  BY <1>1, <1>4
<1>5. CASE q >= 2
  <2>1. s * q >= 2 * s
    BY <1>5
  <2> QED
    BY <1>1, <2>1
<1> QED
  BY <1>2, <1>3, <1>4, <1>5

LEMMA Quotient ==
  ASSUME NEW k \in Nat, k > 0, NEW s \in Int, NEW lo \in Int, NEW hi \in Int,
         k * lo <= s, s <= k * hi
  PROVE  s \div k \in Int /\ lo <= s \div k /\ s \div k <= hi
<1>1. PICK q \in Int, r \in Int : q = s \div k /\ 0 <= r /\ r < k /\ s = k * q + r
  <2>1. s \div k \in Int /\ s % k \in Int /\ s % k >= 0 /\ s % k < k
        /\ s = k * (s \div k) + (s % k)
    OBVIOUS
  <2> QED
    BY <2>1
<1>2. lo <= q
  <2> SUFFICES ASSUME lo >= q + 1 PROVE FALSE
    OBVIOUS
  <2>1. k * lo >= k * q + k
    OBVIOUS
  <2> QED
    BY <1>1, <2>1
<1>3. q <= hi
  <2> SUFFICES ASSUME q >= hi + 1 PROVE FALSE
    OBVIOUS
  <2>1. k * q >= k * hi + k
    OBVIOUS
  <2> QED
    BY <1>1, <2>1
<1> QED
  BY <1>1, <1>2, <1>3

LEMMA TurnBack == ASSUME NEW r \in Nat, r > 0 PROVE (-1) % r = r - 1
<1>1. PICK q \in Int, d \in Int : d = (-1) % r /\ 0 <= d /\ d < r /\ -1 = r * q + d
  <2>1. (-1) \div r \in Int /\ (-1) % r \in Int /\ (-1) % r >= 0 /\ (-1) % r < r
        /\ -1 = r * ((-1) \div r) + ((-1) % r)
    OBVIOUS
  <2> QED
    BY <2>1
<1>2. CASE q >= 0
  <2>1. r * q >= 0
    BY <1>2
  <2> QED
    BY <1>1, <2>1
<1>3. CASE q = -1
  BY <1>1, <1>3
<1>4. CASE q <= -2
  <2>1. r * q <= 0 - 2 * r
    BY <1>4
  <2> QED
    BY <1>1, <2>1
<1> QED
  BY <1>1, <1>2, <1>3, <1>4

(* The measures of the circle.                                             *)
LEMMA Measures ==
  /\ Mid \in Nat /\ Gap \in Nat /\ Steps = 2 * Mid /\ Half = 2 * Mid
  /\ Circle = 4 * Mid + 2 * Gap /\ 2 * Gap <= Mid /\ Mid <= 2 * Gap + 1
  /\ Gap \div 2 \in Nat /\ 2 * (Gap \div 2) <= Gap /\ Gap <= 2 * (Gap \div 2) + 1
BY ScanAssumption DEF Mid, Gap, Half, Circle

LEMMA OnArc ==
  ASSUME NEW a \in 0 .. (Steps - 1), NEW n \in Nat, n < Mid, NEW j \in 0 .. (Steps - 1)
  PROVE  2 * j \in Arc(a, n) <=> (a <= j /\ j <= a + n) \/ j + Steps <= a + n
<1>1. Steps \in Nat /\ Steps > 0 /\ Steps = 2 * Mid /\ Mid \in Nat
  BY Measures, ScanAssumption
<1>2. \A k \in 0 .. n : (a + k) % Steps = IF a + k < Steps THEN a + k ELSE a + k - Steps
  <2> TAKE k \in 0 .. n
  <2>1. a + k \in Nat /\ a + k < 2 * Steps
    BY <1>1
  <2> QED
    BY <1>1, <2>1, OneTurn
<1>3. ASSUME 2 * j \in Arc(a, n) PROVE (a <= j /\ j <= a + n) \/ j + Steps <= a + n
  <2>1. PICK k \in 0 .. n : 2 * j = 2 * ((a + k) % Steps)
    BY <1>3 DEF Arc
  <2> QED
    BY <1>1, <1>2, <2>1
<1>4. ASSUME a <= j, j <= a + n PROVE 2 * j \in Arc(a, n)
  <2>1. j - a \in 0 .. n /\ (a + (j - a)) % Steps = j
    <3>1. j - a \in 0 .. n /\ a + (j - a) = j
      BY <1>4
    <3> QED
      BY <1>1, <1>2, <3>1
  <2> QED
    BY <2>1 DEF Arc
<1>5. ASSUME j + Steps <= a + n PROVE 2 * j \in Arc(a, n)
  <2> DEFINE k == j + Steps - a
  <2>1. k \in 0 .. n /\ a + k = j + Steps
    BY <1>1, <1>5
  <2> HIDE DEF k
  <2>2. (a + k) % Steps = j
    BY <1>1, <1>2, <2>1
  <2> QED
    BY <2>1, <2>2 DEF Arc
<1> QED
  BY <1>3, <1>4, <1>5

(* Every setting of an arc is even.                                        *)
LEMMA ArcEven ==
  ASSUME NEW a \in 0 .. (Steps - 1), NEW n \in Nat, NEW x \in Int, 2 * x - 1 \in Arc(a, n)
  PROVE  FALSE
<1>1. PICK k \in 0 .. n : 2 * x - 1 = 2 * ((a + k) % Steps)
  BY DEF Arc
<1>2. (a + k) % Steps \in Int
  BY ScanAssumption
<1> QED
  BY <1>1, <1>2
-----------------------------------------------------------------------------
(* A status of the first loop and what is noted of it.                     *)

(* The j-th setting of the first loop errs.                                *)
Hit(a, n, j) == (a <= j /\ j <= a + n) \/ j + Steps <= a + n

LEMMA BadOnArc ==
  ASSUME NEW a \in 0 .. (Steps - 1), NEW n \in Nat, n < Mid, errors = Arc(a, n),
         NEW j \in 0 .. (Steps - 1)
  PROVE  Bad(2 * j) <=> Hit(a, n, j)
<1>1. 2 * j \in errors <=> Hit(a, n, j)
  BY OnArc DEF Hit
<1>2. 2 * j - 1 \notin errors
  <2>1. j \in Int
    OBVIOUS
  <2> QED
    BY <2>1, ArcEven
<1> QED
  BY <1>1, <1>2 DEF Bad

LEMMA Products ==
  ASSUME NEW a \in Int, NEW c \in Int, NEW g \in Int
  PROVE  /\ c * (2 * a + c - 1) \in Int /\ c * g \in Int
         /\ (c + 1) * (2 * a + (c + 1) - 1) = c * (2 * a + c - 1) + 2 * (a + c)
         /\ (c + 1) * g = c * g + g
OBVIOUS

(* What Note does, in terms of the arc.                                    *)
LEMMA NoteEffect ==
  ASSUME CInv, Note, early = 0, HalfClean, NEW a \in 0 .. (Steps - 1),
         NEW n \in 0 .. (MaxArc - 1), errors = Arc(a, n)
  PROVE  /\ i \in 0 .. (Steps - 1) /\ i' = i + 1 /\ n < Mid
         /\ UNCHANGED <<errors, loop, early>>
         /\ Hit(a, n, i) =>
              /\ boundary' = (IF i = 0 THEN 1 ELSE boundary)
              /\ sums' = sums + Wrap(boundary') /\ cnt' = cnt + 1
         /\ ~Hit(a, n, i) => UNCHANGED <<boundary, sums, cnt>>
         /\ ioDelayValue_' = NextPosition
<1>1. Answered /\ i < Steps /\ Tried = 2 * i /\ Trusted
  BY DEF CInv, IInv, Note, OneTry, Idle, Asked, Written, Loaded, Started, Tried, Trusted
<1>2. i \in 0 .. (Steps - 1) /\ n < Mid /\ n \in Nat
  BY <1>1, Measures, ScanAssumption DEF CInv, IInv, ScanTypeOK, HalfClean
<1>3. PICK b \in BOOLEAN : answer = <<b>> /\ b = Bad(2 * i)
  BY <1>1 DEF Answered
<1>4. b <=> Hit(a, n, i)
  BY <1>2, <1>3, BadOnArc
<1>5. answer[1] = b
  BY <1>3
<1> QED
  BY <1>2, <1>4, <1>5 DEF Note, boardVars

LEMMA PositionFollows ==
  ASSUME NEW j \in Nat
  PROVE  (IF Pos(j) + 2 = Half THEN Half + Gap ELSE Pos(j) + 2) = Pos(j + 1)
BY Measures DEF Pos

LEMMA NoteStraight ==
  ASSUME CInv, Note, early = 0, HalfClean, NEW a \in 0 .. (Steps - 1),
         NEW n \in 0 .. (MaxArc - 1), errors = Arc(a, n), a + n < Steps,
         ioDelayValue_ = Pos(i), Straight(a, n, Done(i - a, n + 1))
  PROVE  Straight(a, n, Done(i - a, n + 1))'
<1> DEFINE c == Done(i - a, n + 1)
           e == Done(i + 1 - a, n + 1)
<1>1. /\ i \in 0 .. (Steps - 1) /\ i' = i + 1 /\ n < Mid /\ n \in Nat /\ a \in Nat
      /\ Mid \in Nat /\ Gap \in Nat /\ Steps = 2 * Mid /\ Half = 2 * Mid
  BY NoteEffect, Measures, ScanAssumption
<1>2. c \in Nat /\ e \in Nat
  BY <1>1 DEF Done
<1>3. Hit(a, n, i) <=> a <= i /\ i <= a + n
  BY <1>1 DEF Hit
<1>4. /\ Hit(a, n, i) => e = c + 1 /\ a + c = i
      /\ ~Hit(a, n, i) => e = c
  BY <1>1, <1>3 DEF Done
<1> HIDE DEF c, e
<1>5. /\ cnt = c /\ boundary = (IF a = 0 /\ i > 0 THEN 1 ELSE 0) /\ sums \in Int
      /\ c * (2 * a + c - 1) + c * Low(a) <= sums
      /\ sums <= c * (2 * a + c - 1) + c * High(a, n)
  BY DEF Straight, c
<1> SUFFICES /\ cnt' = e /\ boundary' = (IF a = 0 THEN 1 ELSE 0) /\ sums' \in Int
             /\ e * (2 * a + e - 1) + e * Low(a) <= sums'
             /\ sums' <= e * (2 * a + e - 1) + e * High(a, n)
  <2>1. (Done(i - a, n + 1))' = e /\ i' > 0
    BY <1>1 DEF e
  <2> QED
    BY <2>1 DEF Straight, Low, High
<1>6. CASE ~Hit(a, n, i)
  <2>1. i = 0 => a # 0
    BY <1>1, <1>3, <1>6
  <2> QED
    BY <1>1, <1>4, <1>5, <1>6, <2>1, NoteEffect
<1>7. CASE Hit(a, n, i)
  <2>1. boundary' = (IF a = 0 THEN 1 ELSE 0)
    BY <1>1, <1>3, <1>5, <1>7, NoteEffect
  <2>2. Wrap(boundary') = Pos(i)
    BY <1>1, <1>3, <1>7, <2>1 DEF Wrap, Pos
  <2>3. Pos(i) \in Int /\ 2 * i + Low(a) <= Pos(i) /\ Pos(i) <= 2 * i + High(a, n)
    BY <1>1, <1>3, <1>7 DEF Pos, Low, High
  <2>4. Low(a) \in Int /\ High(a, n) \in Int
    BY <1>1 DEF Low, High
  <2> DEFINE A == c * (2 * a + c - 1)
             l == c * Low(a)
             h == c * High(a, n)
  <2>5. /\ A \in Int /\ l \in Int /\ h \in Int
        /\ e * (2 * a + e - 1) = A + 2 * i
        /\ e * Low(a) = l + Low(a) /\ e * High(a, n) = h + High(a, n)
    <3>1. e = c + 1 /\ 2 * (a + c) = 2 * i /\ c \in Int /\ a \in Int
      BY <1>1, <1>2, <1>4, <1>7
    <3>2. A \in Int /\ (c + 1) * (2 * a + (c + 1) - 1) = A + 2 * (a + c)
      BY <3>1, Products
    <3>3. l \in Int /\ (c + 1) * Low(a) = l + Low(a)
      BY <2>4, <3>1, Products
    <3>4. h \in Int /\ (c + 1) * High(a, n) = h + High(a, n)
      BY <2>4, <3>1, Products
    <3> HIDE DEF A, l, h
    <3> QED
      BY <3>1, <3>2, <3>3, <3>4
  <2>6. A + l <= sums /\ sums <= A + h
    BY <1>5
  <2>7. sums' = sums + Pos(i) /\ cnt' = e
    BY <1>4, <1>5, <1>7, <2>2, NoteEffect
  <2> HIDE DEF A, l, h
  <2> QED
    BY <1>1, <1>5, <2>1, <2>3, <2>4, <2>5, <2>6, <2>7
<1> QED
  BY <1>6, <1>7

LEMMA NoteAround ==
  ASSUME CInv, Note, early = 0, HalfClean, NEW a \in 0 .. (Steps - 1),
         NEW n \in 0 .. (MaxArc - 1), errors = Arc(a, n), a + n >= Steps,
         ioDelayValue_ = Pos(i),
         Around(a, Done(i, a + n - Steps + 1), Done(i - a, Steps - a))
  PROVE  Around(a, Done(i, a + n - Steps + 1), Done(i - a, Steps - a))'
<1> DEFINE t  == a + n - Steps + 1
           d  == Done(i, t)
           d2 == Done(i + 1, t)
           c  == Done(i - a, Steps - a)
           c2 == Done(i + 1 - a, Steps - a)
           w  == Gap - Circle
<1>1. /\ i \in 0 .. (Steps - 1) /\ i' = i + 1 /\ n < Mid /\ n \in Nat /\ a \in Nat
      /\ Mid \in Nat /\ Gap \in Nat /\ Steps = 2 * Mid /\ Half = 2 * Mid
      /\ Circle = 4 * Mid + 2 * Gap /\ t \in Nat /\ t > 0 /\ t < Mid /\ a > Mid
  BY NoteEffect, Measures, ScanAssumption
<1>2. d \in Nat /\ d2 \in Nat /\ c \in Nat /\ c2 \in Nat /\ w \in Int
  BY <1>1 DEF Done
<1>3. Hit(a, n, i) <=> i >= a \/ i < t
  BY <1>1 DEF Hit
<1>4. /\ i < t => d = i /\ d2 = i + 1 /\ c = 0 /\ c2 = 0
      /\ i >= a => d = t /\ d2 = t /\ c = i - a /\ c2 = c + 1
      /\ i >= t /\ i < a => d = t /\ d2 = t /\ c = 0 /\ c2 = 0
  BY <1>1 DEF Done
<1> HIDE DEF t, d, d2, c, c2
<1>5. /\ cnt = d + c /\ boundary = (IF i > 0 THEN 1 ELSE 0)
      /\ sums = d * (d - 1) + c * (2 * a + c - 1 + Gap - Circle)
  BY DEF Around, d, c, t
<1> SUFFICES /\ cnt' = d2 + c2 /\ boundary' = 1
             /\ sums' = d2 * (d2 - 1) + c2 * (2 * a + c2 - 1 + Gap - Circle)
  <2>1. /\ (Done(i, a + n - Steps + 1))' = d2 /\ (Done(i - a, Steps - a))' = c2
        /\ i' > 0
    BY <1>1 DEF d2, c2, t
  <2> QED
    BY <2>1 DEF Around, Circle, Gap, Half
<1>6. CASE i < t
  <2>1. boundary' = 1 /\ sums' = sums + Wrap(boundary') /\ cnt' = cnt + 1
    BY <1>1, <1>3, <1>5, <1>6, NoteEffect
  <2>2. Wrap(boundary') = 2 * i
    BY <1>1, <1>6 DEF Wrap, Pos
  <2>3. (i + 1) * ((i + 1) - 1) = i * (i - 1) + 2 * i
    BY <1>1
  <2>4. sums = i * (i - 1) /\ i * (i - 1) \in Int /\ sums' = i * (i - 1) + 2 * i
    BY <1>1, <1>4, <1>5, <1>6, <2>1, <2>2
  <2> QED
    BY <1>1, <1>4, <1>5, <1>6, <2>1, <2>3, <2>4
<1>7. CASE i >= t /\ i < a
  BY <1>1, <1>3, <1>4, <1>5, <1>7, NoteEffect
<1>8. CASE i >= a
  <2>1. boundary' = 1 /\ sums' = sums + Wrap(boundary') /\ cnt' = cnt + 1
    BY <1>1, <1>3, <1>5, <1>8, NoteEffect
  <2>2. Wrap(boundary') = 2 * i + w
    BY <1>1, <1>8, <2>1 DEF Wrap, Pos
  <2> DEFINE D == d * (d - 1)
             A == c * (2 * a + c - 1 + Gap - Circle)
  <2>3. D \in Int /\ A \in Int
    BY <1>1, <1>2
  <2>4. c2 * (2 * a + c2 - 1 + Gap - Circle) = A + 2 * i + w
    <3>1. \A x, v, k \in Int :
            (x + 1) * (2 * v + (x + 1) - 1 + k) = x * (2 * v + x - 1 + k) + 2 * (v + x) + k
      OBVIOUS
    <3>2. 2 * a + c - 1 + Gap - Circle = 2 * a + c - 1 + w
      BY <1>1, <1>2
    <3>3. 2 * a + c2 - 1 + Gap - Circle = 2 * a + (c + 1) - 1 + w
      BY <1>1, <1>2, <1>4, <1>8
    <3>4. a + c = i /\ c2 = c + 1
      BY <1>1, <1>4, <1>8
    <3> HIDE DEF w
    <3> QED
      BY <1>1, <1>2, <3>1, <3>2, <3>3, <3>4
  <2> HIDE DEF w
  <2>5. sums' = D + A + (2 * i + w)
    BY <1>5, <2>1, <2>2
  <2>6. d2 * (d2 - 1) = D
    BY <1>4, <1>8, <1>1
  <2> HIDE DEF A, D
  <2>7. sums' = D + (A + 2 * i + w)
    BY <1>1, <1>2, <2>3, <2>5
  <2>8. cnt' = d2 + c2
    BY <1>1, <1>2, <1>4, <1>5, <1>8, <2>1
  <2> QED
    BY <2>1, <2>4, <2>6, <2>7, <2>8
<1> QED
  BY <1>1, <1>6, <1>7, <1>8
-----------------------------------------------------------------------------
(* The setting opposite to the average.                                    *)

(* The average lies in the middle of the arc, up to the gaps it reaches    *)
(* over; half a circle from there is out of reach of an arc of half of the *)
(* settings.                                                               *)
LEMMA Opposite ==
  ASSUME NEW a \in 0 .. (Steps - 1), NEW n \in Nat, n < Mid, NEW q \in Int,
         a + n < Steps => /\ 2 * a + n + Low(a) <= q
                          /\ q <= 2 * a + n + High(a, n),
         a + n >= Steps => /\ 2 * (a - Steps) + n - Gap <= q
                           /\ q <= 2 * (a - Steps) + n
  PROVE  LET o == ToSetting((q + Half + Gap) % Circle)
         IN  o \in Settings /\ \A k \in -1 .. 1 : (o + k) % (2 * Steps) \notin Arc(a, n)
<1> DEFINE x == (q + Half + Gap) % Circle
           z == q + Half + Gap
           o == ToSetting(x)
           m == Mid
           g == Gap
           h == Gap \div 2
<1>1. /\ m \in Nat /\ g \in Nat /\ Steps = 2 * m /\ Half = 2 * m /\ Circle = 4 * m + 2 * g
      /\ 2 * g <= m /\ m <= 2 * g + 1 /\ h \in Nat /\ 2 * h <= g /\ g <= 2 * h + 1
      /\ m > 0
  BY Measures
<1>2. /\ a + n < 2 * m => /\ IF a < m THEN 2 * a + n <= q ELSE 2 * a + n + g <= q
                          /\ IF a + n < m THEN q <= 2 * a + n ELSE q <= 2 * a + n + g
      /\ a + n >= 2 * m => 2 * (a - 2 * m) + n - g <= q /\ q <= 2 * (a - 2 * m) + n
  BY <1>1 DEF Low, High
<1>3. z = q + 2 * m + g /\ z \in Nat /\ z < 2 * Circle
  BY <1>1, <1>2
<1>4. x = IF z < Circle THEN z ELSE z - Circle
  BY <1>1, <1>3, OneTurn
<1>5. x \in Nat /\ x < 4 * m + 2 * g /\ (x = q + 2 * m + g \/ x = q - 2 * m - g)
  BY <1>1, <1>3, <1>4
<1> HIDE DEF x, z
<1>6. \/ x >= 4 * m + 2 * g - h /\ o = 0
      \/ x >= 4 * m + g /\ x < 4 * m + 2 * g - h /\ o = 4 * m - 1
      \/ x >= 2 * m + g /\ x < 4 * m + g /\ o = x - g
      \/ x >= 2 * m + h /\ x < 2 * m + g /\ o = 2 * m
      \/ x >= 2 * m /\ x < 2 * m + h /\ o = 2 * m - 1
      \/ x < 2 * m /\ o = x
  BY <1>1, <1>5 DEF ToSetting
<1> HIDE DEF o, m, g, h
<1>7. o \in 0 .. (4 * m - 1)
  BY <1>1, <1>5, <1>6
<1>8. ASSUME NEW k \in -1 .. 1, (o + k) % (2 * Steps) \in Arc(a, n)
      PROVE  FALSE
  <2> DEFINE y == (o + k) % (2 * Steps)
  <2>1. y = (IF o + k < 0 THEN 4 * m - 1 ELSE IF o + k >= 4 * m THEN 0 ELSE o + k)
    <3>1. 2 * Steps = 4 * m /\ 4 * m \in Nat /\ 4 * m > 0 /\ o + k \in -1 .. (4 * m)
      BY <1>1, <1>7
    <3> DEFINE s == 4 * m
               p == o + k
    <3>2. p >= 0 => p % s = IF p < s THEN p ELSE p - s
      BY <3>1, OneTurn
    <3>3. p = -1 => p % s = s - 1
      <4>1. \A r \in Nat : r > 0 => (-1) % r = r - 1
        BY TurnBack
      <4> QED
        BY <3>1, <4>1
    <3> HIDE DEF s, p
    <3>4. y = p % s /\ p \in -1 .. s
      BY <3>1 DEF s, p
    <3>5. y = (IF p < 0 THEN s - 1 ELSE IF p >= s THEN 0 ELSE p)
      BY <3>1, <3>2, <3>3, <3>4 DEF s
    <3> QED
      BY <3>5 DEF s, p
  <2>2. PICK l \in 0 .. n : y = 2 * ((a + l) % Steps)
    BY <1>8 DEF Arc
  <2>3. (a + l) % Steps = IF a + l < 2 * m THEN a + l ELSE a + l - 2 * m
    <3>1. a + l \in Nat /\ a + l < 2 * Steps /\ Steps \in Nat /\ Steps > 0
      BY <1>1 DEF m
    <3> QED
      BY <1>1, <3>1, OneTurn
  <2> HIDE DEF y
  <2>4. y = IF a + l < 2 * m THEN 2 * (a + l) ELSE 2 * (a + l - 2 * m)
    BY <2>2, <2>3
  <2>5. n < m /\ a \in 0 .. (2 * m - 1)
    BY <1>1 DEF m
  <2>6. CASE a + n < 2 * m
    <3>1. y = 2 * (a + l)
      BY <1>1, <2>4, <2>6
    <3> QED
      BY <1>1, <1>2, <1>5, <1>6, <2>1, <2>5, <2>6, <3>1, SMTT(60)
  <2>7. CASE a + n >= 2 * m
    BY <1>1, <1>2, <1>5, <1>6, <2>1, <2>4, <2>5, <2>7, SMTT(60)
  <2> QED
    BY <1>1, <2>6, <2>7
<1> QED
  BY <1>1, <1>7, <1>8 DEF o, x, Settings

LEMMA ChosenClean ==
  ASSUME CInv, Choose, early = 0, HalfClean, NEW a \in 0 .. (Steps - 1),
         NEW n \in 0 .. (MaxArc - 1), errors = Arc(a, n), Summed(a, n)
  PROVE  /\ optimum' \in Settings
         /\ \A k \in -1 .. 1 : (optimum' + k) % (2 * Steps) \notin Arc(a, n)
<1> DEFINE p == n + 1
           q == sums \div cnt
<1>1. loop = "scan" /\ i = Steps /\ optimum' = ToSetting((q + Half + Gap) % Circle)
  BY DEF Choose
<1>2. /\ n \in Nat /\ n < Mid /\ Mid \in Nat /\ Gap \in Nat /\ Steps = 2 * Mid
      /\ Circle = 4 * Mid + 2 * Gap /\ p \in Nat /\ p > 0 /\ Low(a) \in Int /\ High(a, n) \in Int
  BY Measures, ScanAssumption DEF HalfClean, Low, High
<1> HIDE DEF p
<1>3. ASSUME a + n < Steps
      PROVE  /\ q \in Int /\ 2 * a + n + Low(a) <= q /\ q <= 2 * a + n + High(a, n)
  <2>1. Done(i - a, n + 1) = p
    BY <1>1, <1>2, <1>3 DEF Done, p
  <2>2. /\ cnt = p /\ sums \in Int
        /\ p * (2 * a + p - 1) + p * Low(a) <= sums
        /\ sums <= p * (2 * a + p - 1) + p * High(a, n)
    BY <1>1, <1>3, <2>1 DEF Summed, Straight
  <2>3. ASSUME NEW v \in Int
        PROVE  p * (2 * a + p - 1) + p * v = p * (2 * a + n + v)
    <3>1. \A c, d, e \in Int : c * d + c * e = c * (d + e)
      OBVIOUS
    <3>2. (2 * a + p - 1) + v = 2 * a + n + v /\ 2 * a + p - 1 \in Int
      BY <1>2 DEF p
    <3> QED
      BY <1>2, <3>1, <3>2
  <2>4. p * (2 * a + n + Low(a)) <= sums /\ sums <= p * (2 * a + n + High(a, n))
    BY <1>2, <2>2, <2>3
  <2> QED
    BY <1>2, <2>2, <2>4, Quotient
<1>4. ASSUME a + n >= Steps
      PROVE  /\ q \in Int /\ 2 * (a - Steps) + n - Gap <= q /\ q <= 2 * (a - Steps) + n
  <2> DEFINE t == a + n - Steps + 1
             c == Steps - a
  <2>1. t \in Nat /\ c \in Nat /\ t + c = p /\ a = Steps - c
        /\ Done(i, a + n - Steps + 1) = t /\ Done(i - a, Steps - a) = c
    BY <1>1, <1>2, <1>4 DEF Done, p
  <2>2. cnt = t + c /\ sums = t * (t - 1) + c * (2 * a + c - 1 + Gap - Circle)
    BY <1>1, <1>4, <2>1 DEF Summed, Around
  <2>3. 2 * a + c - 1 + Gap - Circle = 0 - c - 1 - Gap /\ 2 * (a - Steps) + n = t - c - 1
    BY <1>2, <2>1 DEF p
  <2> HIDE DEF t, c
  <2>4. sums = t * (t - 1) + c * (0 - c - 1 - Gap)
    BY <2>2, <2>3
  <2>5. \A r, s, u \in Int :
          r * (r - 1) + s * (0 - s - 1 - u) = (r + s) * (r - s - 1) - s * u
    OBVIOUS
  <2>6. sums = p * (t - c - 1) - c * Gap
    BY <1>2, <2>1, <2>4, <2>5
  <2>7. \A r, s, u \in Nat : 0 <= s * u /\ s * u <= (r + s) * u
    OBVIOUS
  <2>8. 0 <= c * Gap /\ c * Gap <= p * Gap /\ c * Gap \in Int /\ p * Gap \in Int
    BY <1>2, <2>1, <2>7
  <2>9. p * (t - c - 1 - Gap) = p * (t - c - 1) - p * Gap /\ p * (t - c - 1) \in Int
    BY <1>2, <2>1
  <2>10. sums \in Int /\ p * (t - c - 1 - Gap) <= sums /\ sums <= p * (t - c - 1)
    <3> DEFINE e == p * (t - c - 1)
               f == c * Gap
               k == p * Gap
    <3>1. e \in Int /\ f \in Int /\ k \in Int /\ sums = e - f /\ 0 <= f /\ f <= k
          /\ p * (t - c - 1 - Gap) = e - k
      BY <2>6, <2>8, <2>9
    <3> HIDE DEF e, f, k
    <3>2. sums \in Int /\ p * (t - c - 1 - Gap) <= sums /\ sums <= e
      BY <3>1
    <3> QED
      BY <3>2 DEF e
  <2>11. t - c - 1 - Gap \in Int /\ t - c - 1 \in Int
    BY <1>2, <2>1
  <2>12. q \in Int /\ t - c - 1 - Gap <= q /\ q <= t - c - 1
    BY <1>2, <2>1, <2>2, <2>10, <2>11, Quotient
  <2> HIDE DEF q
  <2>13. 2 * (a - Steps) + n - Gap = t - c - 1 - Gap
    BY <1>2, <2>1, <2>3
  <2> QED
    BY <2>3, <2>12, <2>13
<1> HIDE DEF q
<1>5. q \in Int
  BY <1>2, <1>3, <1>4
<1> QED
  BY <1>1, <1>2, <1>3, <1>4, <1>5, Opposite
-----------------------------------------------------------------------------
LEMMA InitCInv == HalfClean /\ Init => CInv
<1> SUFFICES ASSUME HalfClean, Init PROVE CInv
  OBVIOUS
<1>1. PICK a \in 0 .. (Steps - 1), n \in 0 .. (MaxArc - 1) : errors = Arc(a, n)
  BY DEF Init
<1>2. Summed(a, n)
  <2>1. /\ Mid \in Nat /\ Gap \in Nat /\ Steps = 2 * Mid /\ n \in Nat /\ n < Mid
        /\ Steps \in Nat /\ Circle = 4 * Mid + 2 * Gap
    BY Measures, ScanAssumption DEF HalfClean
  <2>2. /\ i = 0 /\ cnt = 0 /\ sums = 0 /\ boundary = 0 /\ ioDelayValue_ = 0
    BY DEF Init
  <2>3. ioDelayValue_ = Pos(i)
    BY <2>1, <2>2 DEF Pos
  <2>4. Done(i - a, n + 1) = 0 /\ Done(i - a, Steps - a) = 0
    BY <2>1, <2>2 DEF Done
  <2>5. Straight(a, n, 0)
    BY <2>1, <2>2 DEF Straight, Low, High
  <2>6. a + n >= Steps => Done(i, a + n - Steps + 1) = 0
    BY <2>1, <2>2 DEF Done
  <2>7. Around(a, 0, 0)
    BY <2>1, <2>2 DEF Around
  <2> QED
    BY <2>3, <2>4, <2>5, <2>6, <2>7 DEF Summed
<1>3. ArcSummed
  BY <1>1, <1>2 DEF ArcSummed
<1>4. OptimumIsClean
  BY DEF Init, OptimumIsClean
<1> QED
  BY InitIInv, <1>3, <1>4 DEF CInv

LEMMA NextCInv == HalfClean /\ CInv /\ [Next]_vars => CInv'
<1> SUFFICES ASSUME HalfClean, CInv, [Next]_vars PROVE CInv'
  OBVIOUS
<1>1. IInv'
  BY NextIInv DEF CInv
<1>2. PICK a \in 0 .. (Steps - 1), n \in 0 .. (MaxArc - 1) : errors = Arc(a, n) /\ Summed(a, n)
  BY DEF CInv, ArcSummed
<1>3. SUFFICES errors' = Arc(a, n) /\ Summed(a, n)' /\ OptimumIsClean'
  BY <1>1 DEF CInv, ArcSummed, Arc
<1>4. CASE Board \/ UNCHANGED vars
  <2>1. UNCHANGED <<errors, hostVars>> /\ (early' = 0 => early = 0)
    BY <1>4, BoardKeeps DEF CInv, vars, boardVars
  <2>2. Summed(a, n)'
    BY <1>2, <2>1 DEF Summed, Straight, Around, hostVars, Pos, Low, High, Done, Mid, Gap,
       Circle, Half
  <2>3. OptimumIsClean'
    BY <2>1 DEF CInv, OptimumIsClean, hostVars, Settings
  <2> QED
    BY <1>2, <2>1, <2>2, <2>3
<1>5. CASE Scan
  <2>1. UNCHANGED <<errors, hostVars, early>> /\ loop' = "scan"
    BY <1>5 DEF Scan, boardVars, hostVars
  <2>2. Summed(a, n)'
    BY <1>2, <2>1 DEF Summed, Straight, Around, hostVars, Pos, Low, High, Done, Mid, Gap,
       Circle, Half
  <2> QED
    BY <1>2, <2>1, <2>2 DEF OptimumIsClean
<1>6. CASE Note
  <2>1. errors' = errors /\ loop' = "scan" /\ loop = "scan" /\ early' = early
    BY <1>6 DEF Note, boardVars
  <2>2. CASE early = 0
    <3>1. i \in Nat /\ i' = i + 1 /\ ioDelayValue_ = Pos(i) /\ ioDelayValue_' = NextPosition
      BY <1>2, <1>6, <2>1, <2>2, NoteEffect DEF Summed
    <3>2. ioDelayValue_' = Pos(i + 1)
      BY <3>1, PositionFollows DEF NextPosition
    <3>3. (ioDelayValue_ = Pos(i))'
      BY <3>1, <3>2 DEF Pos, Mid, Gap
    <3>4. a + n < Steps => Straight(a, n, Done(i - a, n + 1))'
      BY <1>2, <1>6, <2>1, <2>2, <3>1, NoteStraight DEF Summed
    <3>5. a + n >= Steps => Around(a, Done(i, a + n - Steps + 1), Done(i - a, Steps - a))'
      BY <1>2, <1>6, <2>1, <2>2, <3>1, NoteAround DEF Summed
    <3>6. Summed(a, n)'
      BY <3>3, <3>4, <3>5 DEF Summed
    <3> QED
      BY <1>2, <2>1, <3>6 DEF OptimumIsClean
  <2>3. CASE early # 0
    BY <1>2, <2>1, <2>3 DEF OptimumIsClean, Summed
  <2> QED
    BY <2>2, <2>3
<1>7. CASE Choose
  <2>1. errors' = errors /\ loop' = "check" /\ early' = early
    BY <1>7 DEF Choose, boardVars
  <2>2. OptimumIsClean'
    BY <1>2, <1>7, <2>1, ChosenClean DEF OptimumIsClean, Settings
  <2> QED
    BY <1>2, <2>1, <2>2 DEF Summed
<1>8. CASE Check \/ Report
  <2>1. UNCHANGED <<errors, loop, optimum, early>> /\ loop = "check"
    BY <1>8 DEF Check, Report, boardVars
  <2> QED
    BY <1>2, <2>1 DEF Summed, CInv, OptimumIsClean, Settings
<1> QED
  BY <1>4, <1>5, <1>6, <1>7, <1>8 DEF Next

(* iodelayscan.py:80: the average of the settings that err, and the one    *)
(* opposite to it: wherever the errors lie, over the gap of the positions  *)
(* or over the end of the circle, the choice and both its neighbours are   *)
(* clean as long as no more than half of the settings err.                 *)
THEOREM OptimumFound == ASSUME HalfClean PROVE Spec => []OptimumIsClean
<1>1. Init => CInv
  BY InitCInv
<1>2. CInv /\ [Next]_vars => CInv'
  BY NextCInv
<1>3. CInv => OptimumIsClean
  BY DEF CInv
<1> QED
  BY <1>1, <1>2, <1>3, PTL DEF Spec
=============================================================================
