--------------------------------- MODULE Jtag ---------------------------------
(* The JTAG programmer: jtag.vhd feeds words of a program from a memory to *)
(* jtag_tap.vhd, which drives the TAP controller of the chip and reads it  *)
(* back into a second memory.  The feeder runs on the system clock, the    *)
(* driver on a divided one; they share START, GO, PAUSE and BUSY.  The     *)
(* host writes a program, starts it and sleeps.                            *)
EXTENDS Naturals, Sequences, SequencesExt

CONSTANTS
  Sessions,    \* what the host may run: sequences of programs
  MaxWords,    \* a program is stopped at this word (2500)
  Width,       \* bits of a word (16)
  RegLength,   \* bits of the registers of the chip
  Ratio        \* system clocks per driver clock, at least (2^(DIVIDE + 1))

Kinds   == {"IR", "DR", "SRT", "HRT"}
Words   == {w \in [end : BOOLEAN, kind : Kinds, bits : Seq({0, 1})] : Len(w.bits) \in 1 .. Width}
Blank   == [end |-> FALSE, kind |-> "IR", bits |-> <<0>>]   \* a word of the empty memory

ASSUME JtagAssumption ==
  /\ {MaxWords, Width, RegLength} \subseteq Nat \ {0} /\ Ratio \in Nat /\ Ratio > 1
  /\ \A s \in Sessions :
       /\ s \in Seq(Seq(Words)) /\ s # <<>>
       /\ \A r \in DOMAIN s : Len(s[r]) \in 1 .. (MaxWords + 1)

Address == 0 .. (MaxWords + 1)
LastOf(s, n) == SubSeq(s, Len(s) - n + 1, Len(s))

VARIABLES
  session, runs, hostPc, hostAddr,                 \* the host
  inputMem, outputMem,
  fState, delay_cnt, iWordCnt, input_mem_address,  \* the feeder
  input_address_zero, word, last, TX,
  JTAG_start, JTAG_go, output_mem_in, outputMem_WEN,
  state, hi, col,                                  \* the driver
  sIR_DR, sDataLength, sIR_DR_prev, TX_bitCounter, sTX_data, sRX_data,
  sTCK, sTMS, sTDI, JTAG_busy, PAUSE, RSTB,
  tap, ir, dr, chain, TDO,                         \* the chip
  before,                                          \* the chip at the start (history)
  since,                                           \* system clocks since the driver's (capped)
  ticks                                            \* driver clocks since the start (history)

hostVars   == <<session, runs, hostPc, hostAddr>>
feederVars == <<fState, delay_cnt, iWordCnt, input_mem_address, input_address_zero, word, last,
                TX, JTAG_start, JTAG_go, output_mem_in, outputMem_WEN>>
driverVars == <<state, hi, col, sIR_DR, sDataLength, sIR_DR_prev, TX_bitCounter, sTX_data,
                sRX_data, sTCK, sTMS, sTDI, JTAG_busy, PAUSE, RSTB>>
chipVars   == <<tap, ir, dr, chain, TDO>>
vars == <<hostVars, inputMem, outputMem, feederVars, driverVars, chipVars, before, since, ticks>>

Reset == <<"reset", "DR">>
Idle  == <<"idle", "DR">>
Zeros == [i \in 1 .. RegLength |-> 0]

program == session[runs + 1]     \* the one that is run now

Init ==
  /\ session \in Sessions /\ runs = 0 /\ hostPc = "write" /\ hostAddr = 0
  /\ inputMem = [a \in Address |-> Blank] /\ outputMem = [a \in Address |-> <<>>]
  /\ fState = "wait_for_start" /\ delay_cnt = 0 /\ iWordCnt = 0 /\ input_mem_address = 0
  /\ input_address_zero = FALSE /\ word = Blank /\ last = FALSE /\ TX = Blank
  /\ JTAG_start = FALSE /\ JTAG_go = FALSE /\ output_mem_in = <<>> /\ outputMem_WEN = FALSE
  /\ state = "idle" /\ hi = FALSE /\ col = "DR" /\ sIR_DR = "IR" /\ sDataLength = 0
  /\ sIR_DR_prev = "IR" /\ TX_bitCounter = 0 /\ sTX_data = <<>> /\ sRX_data = <<>>
  /\ sTCK = 0 /\ sTMS = 1 /\ sTDI = 0 /\ JTAG_busy = FALSE /\ PAUSE = FALSE /\ RSTB = 1
  /\ tap \in {Reset, Idle} /\ ir = Zeros /\ dr = Zeros /\ chain = Zeros /\ TDO = 0
  /\ before = [ir |-> Zeros, dr |-> Zeros, rstb |-> FALSE] /\ since = 0 /\ ticks = 0
-----------------------------------------------------------------------------
(* The feeder, one step per system clock.                                  *)

Start == hostPc \in {"start", "reset"} /\ ~JTAG_busy /\ ~PAUSE

WaitForStart ==
  /\ fState = "wait_for_start" /\ iWordCnt' = 0 /\ delay_cnt' = 0 /\ outputMem_WEN' = FALSE
  /\ JTAG_start' = FALSE /\ JTAG_go' = FALSE
  /\ IF Start
       THEN /\ fState' = IF hostPc = "reset" THEN "execute_RSTB" ELSE "get_data"
            /\ input_mem_address' = 0 /\ UNCHANGED inputMem
       ELSE /\ UNCHANGED fState
            /\ input_mem_address' = hostAddr
            /\ inputMem' = IF hostPc = "write" THEN [inputMem EXCEPT ![hostAddr] = program[hostAddr + 1]]
                                               ELSE inputMem
  /\ UNCHANGED <<input_address_zero, word, last, TX, output_mem_in>>

ExecuteRSTB ==
  /\ fState = "execute_RSTB" /\ fState' = "start_jtag_machine"
  /\ JTAG_start' = FALSE /\ JTAG_go' = FALSE /\ last' = FALSE /\ input_address_zero' = TRUE
  /\ TX' = [end |-> FALSE, kind |-> "HRT", bits |-> [i \in 1 .. Width |-> 0]]
  /\ UNCHANGED <<delay_cnt, iWordCnt, input_mem_address, word, output_mem_in, outputMem_WEN, inputMem>>

Forced(n) == n = MaxWords

GetData ==
  /\ fState = "get_data"
  /\ JTAG_start' = FALSE /\ JTAG_go' = FALSE /\ delay_cnt' = delay_cnt + 1
  /\ word' = IF delay_cnt = 3 THEN inputMem[input_mem_address] ELSE word
  /\ IF delay_cnt = 5
       THEN /\ last' = (Forced(iWordCnt) \/ word.end)
            /\ iWordCnt' = IF Forced(iWordCnt) THEN iWordCnt ELSE iWordCnt + 1
            /\ TX' = word /\ input_address_zero' = (input_mem_address = 0)
            /\ fState' = "start_jtag_machine"
       ELSE UNCHANGED <<last, iWordCnt, TX, input_address_zero, fState>>
  /\ UNCHANGED <<input_mem_address, output_mem_in, outputMem_WEN, inputMem>>

(* The first word starts the driver, the others let it go on.              *)
StartJtagMachine ==
  /\ fState = "start_jtag_machine"
  /\ JTAG_start' = (input_address_zero /\ ~JTAG_busy)
  /\ JTAG_go' = (~input_address_zero /\ PAUSE)
  /\ fState' = IF (input_address_zero /\ JTAG_busy) \/ (~input_address_zero /\ ~PAUSE /\ JTAG_go)
                 THEN "check_result" ELSE fState
  /\ UNCHANGED <<delay_cnt, iWordCnt, input_mem_address, input_address_zero, word, last, TX,
                 output_mem_in, outputMem_WEN, inputMem>>

CheckResult ==
  /\ fState = "check_result" /\ output_mem_in' = sRX_data
  /\ outputMem_WEN' = (~outputMem_WEN \/ (JTAG_busy /\ ~PAUSE))
  /\ fState' = CASE ~outputMem_WEN \/ (JTAG_busy /\ ~PAUSE) -> fState
                 [] outputMem_WEN /\ ~JTAG_busy             -> "wait_for_start"
                 [] OTHER                                   -> "get_data"
  /\ IF fState' = "get_data"
       THEN delay_cnt' = 0 /\ input_mem_address' = input_mem_address + 1
       ELSE UNCHANGED <<delay_cnt, input_mem_address>>
  /\ UNCHANGED <<iWordCnt, input_address_zero, word, last, TX, JTAG_start, JTAG_go, inputMem>>

(* The address of the output memory is the host's unless the driver is busy. *)
OutputAddress == IF JTAG_busy THEN input_mem_address ELSE hostAddr
WriteOutput ==
  outputMem' = IF outputMem_WEN THEN [outputMem EXCEPT ![OutputAddress] = output_mem_in] ELSE outputMem

Feeder == WaitForStart \/ ExecuteRSTB \/ GetData \/ StartJtagMachine \/ CheckResult
-----------------------------------------------------------------------------
(* The host: write the words, start, sleep, and run the next program.  The *)
(* sleep is longer than a program takes (see Duration).                    *)

Host ==
  CASE hostPc = "write" ->
         /\ hostAddr' = hostAddr + 1
         /\ hostPc' \in IF hostAddr' = Len(program) THEN {"start", "reset"} ELSE {"write"}
         /\ UNCHANGED <<session, runs>>
    [] hostPc \in {"start", "reset"} ->
         hostPc' = "sleep" /\ UNCHANGED <<session, runs, hostAddr>>
    [] OTHER -> UNCHANGED hostVars

Clk ==
  /\ Feeder /\ WriteOutput /\ Host
  /\ since' = IF since < Ratio THEN since + 1 ELSE since
  /\ IF hostPc \in {"start", "reset"}
       THEN ticks' = 0 /\ before' = [ir |-> ir, dr |-> dr, rstb |-> hostPc = "reset"]
       ELSE UNCHANGED <<ticks, before>>
  /\ UNCHANGED <<driverVars, chipVars>>

Ended == fState = "wait_for_start" /\ hostPc = "sleep" /\ ~outputMem_WEN
NextProgram ==
  /\ Ended /\ runs + 1 < Len(session)
  /\ runs' = runs + 1 /\ hostPc' = "write" /\ hostAddr' = 0
  /\ UNCHANGED <<session, inputMem, outputMem, feederVars, driverVars, chipVars, before, since, ticks>>
-----------------------------------------------------------------------------
(* The driver, one step per divided clock: TCK goes low and TMS is set,    *)
(* then TCK goes high.                                                     *)

Goes(at, c)    == state' = at /\ col' = c /\ hi' = FALSE
Same           == sIR_DR = sIR_DR_prev
LastBitEarly   == TX_bitCounter + 1 >= sDataLength
LastBit        == TX_bitCounter >= sDataLength
ClosesOnLast   == last
Closes         == last /\ Same
One(condition) == IF condition THEN 1 ELSE 0
CountNot       == TX_bitCounter
Count          == TX_bitCounter + 1
TowardsNoReset == col = "DR" /\ sIR_DR = "IR"
TowardsIR      == (col = "DR" /\ sIR_DR = "IR") \/ sIR_DR = "SRT"
Resets         == sIR_DR = "SRT" \/ (col = "DR" /\ sIR_DR = "HRT")
SampledInShift == {"shift"}
Sampled        == {"shift", "exit1"}

Tms == CASE state = "init"      -> 1
         [] state = "select"    -> One(TowardsIR)
         [] state = "shift"     -> One(LastBit)
         [] state = "exit1"     -> One(last)
         [] state = "pause"     -> One(JTAG_go)
         [] state = "exit2"     -> One(~Same)
         [] state = "update"    -> One(~Closes)
         [] state = "logic_reset" -> One(TX_bitCounter # 5)
         [] OTHER               -> 0

Waits == (state = "idle" /\ ~JTAG_start) \/ (state = "pause" /\ ~JTAG_go)
           \/ (state = "logic_reset" /\ TX_bitCounter = 5)

Sample == LastOf(Append(sRX_data, TDO), IF Len(sRX_data) < Width THEN Len(sRX_data) + 1 ELSE Width)

Low ==
  /\ ~hi /\ state # "hard_reset"
  /\ sTCK' = 0 /\ sTMS' = Tms /\ hi' = ~Waits
  /\ IF state = "logic_reset" /\ Waits THEN Goes("idle", "DR") ELSE UNCHANGED <<state, col>>
  /\ JTAG_busy' = ~(Waits /\ state # "pause")
  /\ PAUSE' = (state = "pause") /\ RSTB' = 1
  /\ sIR_DR_prev' = CASE state = "idle" -> "IR" [] state = "exit1" -> sIR_DR [] OTHER -> sIR_DR_prev
  /\ TX_bitCounter' = CASE state = "idle" \/ (state = "select" /\ Resets) -> 0
                        [] state = "logic_reset" /\ ~Waits -> Count
                        [] OTHER -> TX_bitCounter
  /\ sTX_data' = CASE state \in {"idle", "pause"} /\ ~Waits -> TX.bits
                   [] state = "shift" /\ sTX_data # <<>>    -> Tail(sTX_data)
                   [] OTHER -> sTX_data
  /\ sTDI' = IF state = "shift" /\ sTX_data # <<>> THEN Head(sTX_data) ELSE 0
  /\ sRX_data' = IF state \in Sampled THEN Sample ELSE sRX_data

High ==
  /\ hi /\ sTCK' = 1 /\ JTAG_busy' = TRUE /\ PAUSE' = (state = "pause") /\ RSTB' = 1
  /\ CASE state = "idle"   -> Goes("init", "DR")
       [] state = "init"   -> Goes("select", "DR")
       [] state = "select" /\ col = "DR" /\ sIR_DR = "IR" -> Goes("select", "IR")
       [] state = "select" /\ sIR_DR = "SRT"              -> Goes("logic_reset", "DR")
       [] state = "select" /\ col = "DR" /\ sIR_DR = "HRT" -> Goes("hard_reset", "DR")
       [] state = "capture" -> Goes("shift", col)
       [] state = "shift"   -> Goes(IF LastBit THEN "exit1" ELSE "shift", col)
       [] state = "exit1"   -> Goes(IF last THEN "update" ELSE "pause", col)
       [] state = "pause"   -> Goes("exit2", col)
       [] state = "exit2"   -> Goes(IF Same THEN "shift" ELSE "update", col)
       [] state = "update"  -> IF Closes THEN Goes("idle", "DR") ELSE Goes("select", "DR")
       [] state = "logic_reset" -> Goes("logic_reset", "DR")
       [] OTHER             -> Goes("capture", col)
  /\ TX_bitCounter' = CASE state = "shift" /\ ~LastBit -> Count
                        [] state = "shift" /\ LastBit  -> 0
                        [] OTHER                       -> TX_bitCounter
  /\ sTDI' = IF state = "shift" THEN sTDI ELSE 0
  /\ sRX_data' = IF state = "exit1" THEN LastOf(sRX_data, sDataLength + 1) ELSE sRX_data
  /\ UNCHANGED <<sTMS, sIR_DR_prev, sTX_data>>

HardReset ==
  /\ state = "hard_reset" /\ RSTB' = 0 /\ sTMS' = 0 /\ sTDI' = 0
  /\ JTAG_busy' = TRUE /\ PAUSE' = FALSE
  /\ IF LastBit THEN Goes("idle", "DR") /\ UNCHANGED TX_bitCounter
                ELSE TX_bitCounter' = Count /\ UNCHANGED <<state, col, hi>>
  /\ UNCHANGED <<sTCK, sIR_DR_prev, sTX_data, sRX_data>>

Driver == /\ Low \/ High \/ HardReset
          /\ sIR_DR' = TX.kind /\ sDataLength' = Len(TX.bits) - 1
-----------------------------------------------------------------------------
(* The chip: a TAP controller as the standard has it, with one data        *)
(* register, read back when it is captured.                                *)

TapNext(tms) ==
  LET at == tap[1]
      c  == tap[2]
  IN  CASE at = "reset"   -> IF tms = 1 THEN Reset ELSE Idle
        [] at = "idle"    -> IF tms = 1 THEN <<"select", "DR">> ELSE Idle
        [] at = "select"  -> IF tms = 0 THEN <<"capture", c>>
                             ELSE IF c = "DR" THEN <<"select", "IR">> ELSE Reset
        [] at \in {"capture", "shift"} -> <<IF tms = 1 THEN "exit1" ELSE "shift", c>>
        [] at = "exit1"   -> <<IF tms = 1 THEN "update" ELSE "pause", c>>
        [] at = "pause"   -> <<IF tms = 1 THEN "exit2" ELSE "pause", c>>
        [] at = "exit2"   -> <<IF tms = 1 THEN "update" ELSE "shift", c>>
        [] at = "update"  -> IF tms = 1 THEN <<"select", "DR">> ELSE Idle

ChipRises ==
  /\ tap' = TapNext(sTMS')
  /\ chain' = CASE tap[1] = "capture" -> IF tap[2] = "IR" THEN ir ELSE dr
                [] tap[1] = "shift"   -> Append(Tail(chain), sTDI')
                [] OTHER              -> chain
  /\ ir' = IF tap' = Reset THEN Zeros ELSE ir
  /\ UNCHANGED <<dr, TDO>>

ChipFalls ==
  /\ TDO' = IF tap[1] = "shift" THEN Head(chain) ELSE 0
  /\ ir' = IF tap = <<"update", "IR">> THEN chain ELSE ir
  /\ dr' = IF tap = <<"update", "DR">> THEN chain ELSE dr
  /\ UNCHANGED <<tap, chain>>

ChipReset == tap' = Reset /\ ir' = Zeros /\ dr' = Zeros /\ UNCHANGED <<chain, TDO>>

Chip == CASE RSTB' = 0                           -> ChipReset
          [] RSTB' = 1 /\ sTCK = 0 /\ sTCK' = 1 -> ChipRises
          [] RSTB' = 1 /\ sTCK = 1 /\ sTCK' = 0 -> ChipFalls
          [] OTHER                               -> UNCHANGED chipVars

(* Driver clocks for n words; ticks is not counted any further (a bound).  *)
Allowed(n) == 3 + n * (2 * Width + 19)

DividedClk ==
  /\ since = Ratio /\ since' = 0
  /\ Driver /\ Chip
  /\ ticks' = IF fState = "wait_for_start" \/ ticks > Allowed(MaxWords + 1) THEN ticks ELSE ticks + 1
  /\ UNCHANGED <<hostVars, inputMem, outputMem, feederVars, before>>

Next == Clk \/ DividedClk \/ NextProgram
Spec == Init /\ [][Next]_vars

(* Both clocks run.                                                        *)
FairSpec == Spec /\ WF_vars(Clk) /\ WF_vars(DividedClk)
-----------------------------------------------------------------------------
(* What a program does to the chip, without clocks.                        *)

(* The words that are executed: up to a last one, a reset or the limit.    *)
Executed ==
  LET Stops(a) == inputMem[a].end \/ inputMem[a].kind \in {"SRT", "HRT"} \/ a = MaxWords
      stop     == CHOOSE a \in Address : Stops(a) /\ \A b \in 0 .. (a - 1) : ~Stops(b)
  IN  [i \in 1 .. (stop + 1) |-> inputMem[i - 1]]

(* The register of the open scan is loaded when the scan ends.             *)
Closed(s) == CASE s.kind = "IR" -> [s EXCEPT !.ir = s.chain, !.kind = "none"]
               [] s.kind = "DR" -> [s EXCEPT !.dr = s.chain, !.kind = "none"]
               [] OTHER         -> s

Effect(s, w) ==
  LET c    == IF w.kind = s.kind THEN s ELSE Closed(s)
      from == IF w.kind = s.kind THEN s.chain ELSE IF w.kind = "IR" THEN c.ir ELSE c.dr
      all  == from \o w.bits
  IN  CASE w.kind = "SRT" -> [c EXCEPT !.ir = Zeros, !.outs = Append(@, <<>>)]
        [] w.kind = "HRT" -> [c EXCEPT !.ir = Zeros, !.dr = Zeros, !.outs = Append(@, <<>>)]
        [] OTHER -> [c EXCEPT !.kind = w.kind, !.chain = LastOf(all, RegLength),
                              !.outs = Append(@, SubSeq(all, 1, Len(w.bits)))]

Outcome ==
  LET s == [kind |-> "none", ir |-> before.ir, dr |-> before.dr, chain |-> Zeros, outs |-> <<>>]
  IN  IF before.rstb THEN [s EXCEPT !.ir = Zeros, !.dr = Zeros]
      ELSE Closed(FoldLeft(Effect, s, Executed))
-----------------------------------------------------------------------------
(* Between two rising edges of TCK the driver takes the chip's controller  *)
(* to be where it is, in every order of words, ends and resets.            *)
TapFollows ==
  CASE state = "idle"        -> tap \in {Reset, Idle}
    [] state = "init"        -> tap = Idle
    [] state = "logic_reset" -> tap \in {<<"select", "IR">>, Reset}
    [] state = "hard_reset"  -> tap \in {<<"capture", "DR">>, Reset}
    [] OTHER                 -> tap = <<state, col>>

(* When a program has ended, the chip's registers are what its words make  *)
(* of them, scans of several words and resets included, and the output     *)
(* memory holds the bits read back for each word: no word is lost,         *)
(* repeated or cut by the handshake of the two clocks.  The last result is *)
(* written twice, to its own address and to the host's, and to no third.   *)
ProgramRuns ==
  Ended =>
    /\ ir = Outcome.ir /\ dr = Outcome.dr
    /\ \A i \in DOMAIN Outcome.outs :
         i - 1 # hostAddr /\ Outcome.outs[i] # <<>> => outputMem[i - 1] = Outcome.outs[i]
    /\ runs = 0 => \A a \in Address :
         a # hostAddr /\ a >= Len(Outcome.outs) => outputMem[a] = <<>>

(* A program takes at most this many driver clocks for each of its words,  *)
(* so the sleep the host relies on can be compared with it.                *)
Duration == fState # "wait_for_start" => ticks <= Allowed(iWordCnt + 1)

(* A program that has been started ends.                                   *)
ProgramEnds == hostPc \in {"start", "reset"} ~> Ended
=============================================================================
