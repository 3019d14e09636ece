------------------------------- MODULE HitParser -------------------------------
(* The parser of the sensor's frames: data_cal in command.c and its        *)
(* forerunner in dataprocess_t.py.  Both take the stream byte by byte, in  *)
(* buffers that begin and end anywhere in a frame; data_cal forgets        *)
(* everything between two buffers, dataprocess_t.py forgets the rest of a  *)
(* buffer once it has handed out a map.                                    *)
EXTENDS Naturals, Sequences, SequencesExt, FiniteSets

CONSTANTS
  RowNum, ColumnNum,  \* the size of the sensor (928, 960)
  FrameAdd,           \* frames of a map: framadd
  Programs            \* data_cal or its forerunner, in these respects:
                      \*   counterWords: words between a header and its data
                      \*   skip: a word is decoded when counter is above this
                      \*   lastWord: whether the word before a trailer is decoded
                      \*   fresh: whether a buffer starts without the state of the last
                      \*   breaks: whether a map ends the parsing of its buffer
                      \*   payload: data words of the instance
                      \*   maxPayload: data words of a frame (bound)
                      \*   bufferWords: words of a buffer (400000)
                      \*   maxWords: words of the stream (bound)

ASSUME ParserAssumption ==
  /\ {RowNum, ColumnNum, FrameAdd} \subseteq Nat /\ FrameAdd > 0
  /\ Programs \subseteq [counterWords : Nat, skip : Nat, lastWord : BOOLEAN, fresh : BOOLEAN,
                        breaks : BOOLEAN, payload : SUBSET (0 .. 65535), maxPayload : Nat,
                        bufferWords : Nat, maxWords : Nat]

header == 43690   \* 0xaaaa
tailer == 22136   \* 0x5678
ASSUME DataAssumption == \A g \in Programs : g.payload \cap {header, tailer} = {}

IsRow(w)  == (w \div 4096) % 2 = 1
Number(w) == (w \div 4) % 1024
Code(w)   == w % 4
Bytes(words) == FlattenSeq([i \in DOMAIN words |-> <<words[i] % 256, words[i] \div 256>>])

Pixels == (0 .. (RowNum - 1)) \X (0 .. (ColumnNum - 1))
NoHits == [x \in Pixels |-> 0]

VARIABLES
  program,  \* the parser that runs
  stream,   \* words of the stream (history)
  place,    \* where in a frame the sensor is
  begun,    \* words of the stream before the current buffer
  p         \* the parser's variables

vars == <<program, stream, place, begun, p>>
-----------------------------------------------------------------------------
(* The parser: the variables of data_cal are the fields of a record q.     *)

InRange(row, column, code) == column + code < ColumnNum /\ row < RowNum

Decode(q) ==
  LET w == q.pdata_pre2
      column == Number(w)
      Hit(x) == x[1] = q.row /\ x[2] \in column .. (column + Code(w))
  IN  IF IsRow(w) THEN [q EXCEPT !.row = Number(w)]
      ELSE IF ~InRange(q.row, column, Code(w)) THEN q
      ELSE [q EXCEPT !.maps_temp = [x \in Pixels |-> IF Hit(x) THEN @[x] + 1 ELSE @[x]]]

Complete(n)     == n = FrameAdd

EndOfFrame(q) ==
  LET n == [q EXCEPT !.counter = 0, !.tsign = 0, !.fcounter = @ + 1]
  IN  IF ~Complete(n.fcounter) THEN n
      ELSE [n EXCEPT !.fcounter = 0, !.maps = n.maps_temp, !.maps_temp = NoHits,
                     !.stop = program.breaks]

MayDecodeLate(q) == q.counter > program.skip + 1
MayDecode(q)     == q.counter > program.skip

(* A trailer is two words.                                                 *)
Word(q) ==
  IF q.pdata = tailer /\ q.tsign = 1 THEN EndOfFrame(q)
  ELSE LET n == [q EXCEPT !.tsign = IF q.pdata = tailer THEN 1 ELSE 0]
       IN  IF MayDecode(n) /\ (n.tsign = 0 \/ program.lastWord) THEN Decode(n) ELSE n

Byte(q, b) ==
  LET n == [q EXCEPT !.w = <<b>> \o SubSeq(@, 1, 3)]
  IN  CASE q.stop -> q
        [] ~q.stop /\ q.counter = 0 ->
             [n EXCEPT !.odd = 1,
                       !.counter = IF n.w = <<170, 170, 170, 170>> THEN 1 ELSE 0]
        [] ~q.stop /\ q.counter # 0 /\ q.odd = 1 ->
             [n EXCEPT !.pdata = b, !.odd = 0]
        [] OTHER ->
             Word([n EXCEPT !.odd = 1, !.pdata = @ + 256 * b, !.pdata_pre2 = n.pdata_pre1,
                            !.pdata_pre1 = n.pdata + 256 * b, !.counter = @ + 1])

Cleared == [w |-> <<0, 0, 0, 0>>, counter |-> 0, odd |-> 0, tsign |-> 0, pdata |-> 0,
            pdata_pre1 |-> 0, pdata_pre2 |-> 0, row |-> 0, stop |-> FALSE]
Keep(q) == [maps |-> q.maps, maps_temp |-> q.maps_temp, fcounter |-> q.fcounter]

ResumeFresh(q) == Keep(q) @@ Cleared
Resume(q) == IF program.fresh THEN Keep(q) @@ Cleared ELSE [q EXCEPT !.stop = FALSE]
data_cal(q, buffer) == FoldLeft(Byte, Resume(q), Bytes(buffer))
-----------------------------------------------------------------------------
(* The stream: frames of a header, counters, data and a trailer, two words *)
(* of 16 bits at a time; the chip may be anywhere in a frame.              *)
Pairs(S) == {<<a, b>> : a \in S, b \in S}
Send(pair) == stream' = stream \o pair /\ UNCHANGED <<program, begun, p>>

Init ==
  /\ program \in Programs /\ stream = <<>> /\ begun = 0
  /\ place \in {"header", "counter", "data", "trailer"} \ (IF program.counterWords = 0 THEN {"counter"} ELSE {})
  /\ p = [maps |-> NoHits, maps_temp |-> NoHits, fcounter |-> 0] @@ Cleared

Room == Len(stream) < program.maxWords /\ Len(stream) < begun + program.bufferWords

SendHeader ==
  /\ Room /\ place = "header" /\ Send(<<header, header>>)
  /\ place' = IF program.counterWords = 0 THEN "data" ELSE "counter"

(* Two words of frame counter and two of length.                           *)
SendCounter ==
  /\ Room /\ place = "counter" /\ Send(<<0, 0>>)
  /\ place' = IF Len(stream) >= 2 /\ stream[Len(stream)] = 0 THEN "data" ELSE place

DataSent ==
  LET H == {i \in DOMAIN stream : stream[i] = header}
  IN  IF H = {} THEN Len(stream)
      ELSE Len(stream) - (CHOOSE i \in H : \A j \in H : j <= i) - program.counterWords

(* The first word of the data is a row.                                    *)
SendData ==
  /\ Room /\ place = "data" /\ DataSent < program.maxPayload
  /\ \E pair \in Pairs(program.payload) : (DataSent = 0 => IsRow(pair[1])) /\ Send(pair)
  /\ place' \in {"data", "trailer"}

SendTrailer ==
  /\ Room /\ place \in {"data", "trailer"} /\ Send(<<tailer, tailer>>)
  /\ place' = "header"

(* A buffer is full: parse it.                                             *)
Buffer == SubSeq(stream, begun + 1, Len(stream))
ParseBuffer ==
  /\ Len(Buffer) = program.bufferWords
  /\ p' = data_cal(p, Buffer) /\ begun' = Len(stream)
  /\ UNCHANGED <<program, stream, place>>

Next == SendHeader \/ SendCounter \/ SendData \/ SendTrailer \/ ParseBuffer
Spec == Init /\ [][Next]_vars
-----------------------------------------------------------------------------
(* What a sequence of words means, without any state machine.              *)

Headers(s)     == {h \in 1 .. (Len(s) - 1) : s[h] = header /\ s[h + 1] = header}
Trailers(s, h) == {t \in (h + 2) .. (Len(s) - 1) : s[t] = tailer /\ s[t + 1] = tailer}
WholeFrames(s) == {h \in Headers(s) : Trailers(s, h) # {}}
FrameEnd(s, h) == IF h \in WholeFrames(s)
                    THEN CHOOSE t \in Trailers(s, h) : \A u \in Trailers(s, h) : t <= u
                    ELSE Len(s) + 1

(* The data words of a frame: in data_cal's case all but the last one.     *)
Data(s, h) ==
  LET first == h + 2 + program.counterWords
  IN  first .. (FrameEnd(s, h) - (IF program.lastWord /\ h \in WholeFrames(s) THEN 1 ELSE 2))
DataOf(s, H) == UNION {Data(s, h) : h \in H}

RowAt(s, D, i) ==
  LET R == {j \in D : j < i /\ IsRow(s[j])}
  IN  IF R = {} THEN 0 ELSE Number(s[CHOOSE j \in R : \A k \in R : k <= j])

Hits(s, D) ==
  [x \in Pixels |->
     Cardinality({i \in D : /\ ~IsRow(s[i]) /\ RowAt(s, D, i) = x[1]
                            /\ Number(s[i]) + Code(s[i]) < ColumnNum
                            /\ x[2] \in Number(s[i]) .. (Number(s[i]) + Code(s[i]))})]
Plus(f, g) == [x \in Pixels |-> f[x] + g[x]]
-----------------------------------------------------------------------------
(* data_cal: a buffer adds the hits of the frames that begin in it, the    *)
(* last one's too when it does not end in it, and counts those that end;   *)
(* nothing of a frame that began before is taken for a header, a row or a  *)
(* hit; the frame that completes a map takes all hits so far with it.      *)
BufferMeans(b, old, new) ==
  LET whole == WholeFrames(b)
      last  == {h \in whole : Cardinality({g \in whole : g <= h}) = FrameAdd - old.fcounter}
      upto(H) == {h \in Headers(b) : \A g \in H : h <= g}
      all   == Hits(b, DataOf(b, Headers(b)))
      shown == Hits(b, DataOf(b, upto(last)))
  IN  IF last = {}
        THEN /\ new.fcounter = old.fcounter + Cardinality(whole)
             /\ new.maps = old.maps /\ new.maps_temp = Plus(old.maps_temp, all)
        ELSE /\ new.fcounter = Cardinality(whole) - (FrameAdd - old.fcounter)
             /\ new.maps = Plus(old.maps_temp, shown)
             /\ Plus(shown, new.maps_temp) = all
ParsesFrames == [][program.fresh /\ begun' # begun => BufferMeans(Buffer, p, p')]_vars

(* dataprocess_t.py: what it hands out is always the hits of FrameAdd      *)
(* whole frames, whatever buffers they are cut into and however much of a  *)
(* buffer it drops.                                                        *)
ShowsWholeFrames ==
  [][~program.fresh /\ p'.maps # p.maps =>
       \E H \in SUBSET WholeFrames(stream) :
         Cardinality(H) = FrameAdd /\ p'.maps = Hits(stream, DataOf(stream, H))]_vars
=============================================================================
