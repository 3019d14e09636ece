-------------------------- MODULE DaqPipelineProofs --------------------------
(* What holds of the acquisition processes for a ring of any size, any     *)
(* number of buffers and commands, and any set of processes started: the   *)
(* type invariant, that Storage and Dataprocess read whole buffers of the  *)
(* stream, and that one or two buffers are asked for at any time.          *)
EXTENDS DaqPipeline, SequenceTheorems, FiniteSetTheorems, TLAPS

(* An index of the ring is a count modulo its size.                        *)
Slot(n) == n % BufferNum

(* The indices follow the counts, and Storage and Dataprocess never get    *)
(* ahead of what RecvWorker has published.                                 *)
IndexInv ==
  /\ nseq = Slot(received) /\ readnum = Slot(stored) /\ procNum = Slot(seen)
  /\ num_now = Slot(Published)
  /\ recvPc = "publish" => received > 0
  /\ stored <= Published /\ seen <= Published
  /\ storePc = "write" => stored < Published

(* The ring holds the last BufferNum buffers received; only the oldest of  *)
(* them may be torn, and what was never reached is blank.                  *)
Kept(n)  == n < received /\ received <= n + BufferNum
ContentInv ==
  /\ \A n \in Nat : Kept(n) =>
       ring[Slot(n)] = n \/ (received = n + BufferNum /\ ring[Slot(n)] = Torn)
  /\ \A i \in Index : received <= i =>
       ring[i] = Blank \/ (i = received /\ ring[i] = Torn)

(* A buffer that has arrived stands for one request, until SendWorker has  *)
(* put it: as a step of RecvWorker, or as the flag.                        *)
Arriving == IF recvPc \in {"publish", "signal"} THEN 1 ELSE 0
Flagged  == IF sign = 1 /\ sendPc # "clear" THEN 1 ELSE 0
WindowInv ==
  /\ asked + Arriving + Flagged <= received + (IF sendPc = "open" THEN 0 ELSE 2)
  /\ sendPc = "request" => sign = 1

(* A data request that was put is on its way, or a buffer has been         *)
(* delivered for it; SendWorker alone passes requests on, so while it is   *)
(* about to clear the flag the one it has put is still in the queue.       *)
ReadsIn(s) == {i \in 1 .. Len(s) : s[i] = "read"}
Reads(s)   == Cardinality(ReadsIn(s))
FlowInv ==
  /\ received <= arrived /\ (ring[nseq] = Torn => received < arrived)
  /\ asked = arrived + Reads(wire) + Reads(pipe) + Reads(feeder["send"])
  /\ Reads(feeder["server"]) = 0
  /\ sendPc = "open"  => asked = 0
  /\ sendPc = "clear" => Reads(pipe) + Reads(feeder["send"]) > 0
  /\ RequestUnderWay

IInv == TypeOK /\ IndexInv /\ ContentInv /\ WindowInv /\ FlowInv
-----------------------------------------------------------------------------
(* Counting modulo the size of the ring.                                   *)

LEMMA Multiples ==
  ASSUME NEW b \in Nat, b > 0, NEW p \in Int, NEW q \in Int
  PROVE  /\ b * p \in Int
         /\ b * (q - p) = b * q - b * p
         /\ b * (q + 1) = b * q + b
         /\ b * (q - 1) = b * q - b
OBVIOUS

LEMMA MultipleBounds ==
  ASSUME NEW b \in Nat, b > 0, NEW d \in Int
  PROVE  /\ d > 0 => b * d >= b
         /\ d <= 0 => b * d <= 0
         /\ d < 0 => b * d <= 0 - b
OBVIOUS

LEMMA SlotRange ==
  ASSUME NEW n \in Nat
  PROVE  /\ Slot(n) \in Index
         /\ n < BufferNum => Slot(n) = n
         /\ \E q \in Nat : n = BufferNum * q + Slot(n)
<1>1. n \div BufferNum \in Nat /\ n = BufferNum * (n \div BufferNum) + Slot(n)
  BY RingAssumption DEF Slot
<1>2. Slot(n) \in Index
  BY RingAssumption DEF Slot, Index
<1>3. n < BufferNum => Slot(n) = n
  BY RingAssumption DEF Slot
<1> HIDE DEF Slot
<1> QED
  BY <1>1, <1>2, <1>3

LEMMA SlotUnique ==
  ASSUME NEW n \in Nat, NEW q \in Int, NEW r \in Index, n = BufferNum * q + r
  PROVE  Slot(n) = r
<1>1. PICK p \in Nat : n = BufferNum * p + Slot(n)
  BY SlotRange
<1> DEFINE d == q - p
<1>2. d \in Int /\ BufferNum * d = BufferNum * q - BufferNum * p
  BY Multiples, RingAssumption
<1> HIDE DEF d
<1> DEFINE x == BufferNum * p
           y == BufferNum * q
<1>3. x \in Int /\ y \in Int /\ n = x + Slot(n) /\ n = y + r /\ BufferNum * d = y - x
  BY <1>1, <1>2, Multiples, RingAssumption
<1> HIDE DEF x, y
<1>4. BufferNum * d = Slot(n) - r /\ Slot(n) \in Index
  BY <1>3, SlotRange DEF Index
<1>5. d = 0
  BY <1>2, <1>4, MultipleBounds, RingAssumption DEF Index
<1>6. BufferNum * d = 0
  BY <1>5, RingAssumption
<1> QED
  BY <1>4, <1>6, RingAssumption DEF Index

(* The index after that of a count is that of the next count.              *)
LEMMA SlotNext ==
  ASSUME NEW n \in Nat
  PROVE  Slot(n + 1) = Advance(Slot(n))
<1>1. PICK q \in Nat : n = BufferNum * q + Slot(n)
  BY SlotRange
<1>2. Slot(n) \in Index
  BY SlotRange
<1>3. CASE Slot(n) = BufferNum - 1
  <2> DEFINE x == BufferNum * q
  <2>1. x \in Int /\ n = x + Slot(n) /\ BufferNum * (q + 1) = x + BufferNum
    BY <1>1, Multiples, RingAssumption
  <2> HIDE DEF x
  <2> DEFINE q1 == q + 1
  <2>2. q1 \in Int /\ 0 \in Index /\ n + 1 \in Nat /\ n + 1 = BufferNum * q1 + 0
    BY <2>1, <1>3, RingAssumption DEF Index
  <2> HIDE DEF q1
  <2>3. Slot(n + 1) = 0
    BY <2>2, SlotUnique
  <2> QED
    BY <2>3, <1>3 DEF Advance
<1>4. CASE Slot(n) # BufferNum - 1
  <2>1. n + 1 = BufferNum * q + (Slot(n) + 1) /\ Slot(n) + 1 \in Index
    BY <1>1, <1>2, <1>4, Multiples, RingAssumption DEF Index
  <2>2. Slot(n + 1) = Slot(n) + 1
    BY <2>1, SlotUnique
  <2> QED
    BY <2>2, <1>4 DEF Advance
<1> QED
  BY <1>3, <1>4

(* Counts less than a ring apart have different indices.                   *)
LEMMA SlotApart ==
  ASSUME NEW m \in Nat, NEW n \in Nat, m < n, n - m < BufferNum
  PROVE  Slot(m) # Slot(n)
<1> SUFFICES ASSUME Slot(m) = Slot(n) PROVE FALSE
  OBVIOUS
<1>1. PICK p \in Nat : m = BufferNum * p + Slot(m)
  BY SlotRange
<1>2. PICK q \in Nat : n = BufferNum * q + Slot(n)
  BY SlotRange
<1> DEFINE d == q - p
<1>3. d \in Int /\ BufferNum * d = BufferNum * q - BufferNum * p
  BY Multiples, RingAssumption
<1>4. BufferNum * d = n - m
  BY <1>1, <1>2, <1>3, SlotRange, Multiples, RingAssumption DEF Index
<1> HIDE DEF d
<1> QED
  BY <1>3, <1>4, MultipleBounds, RingAssumption

(* A whole ring later the index is the same.                               *)
LEMMA SlotWraps ==
  ASSUME NEW n \in Nat
  PROVE  Slot(n + BufferNum) = Slot(n)
<1>1. PICK q \in Nat : n = BufferNum * q + Slot(n)
  BY SlotRange
<1> DEFINE x  == BufferNum * q
           q1 == q + 1
<1>2. x \in Int /\ n = x + Slot(n) /\ q1 \in Int /\ BufferNum * q1 = x + BufferNum
  BY <1>1, Multiples, RingAssumption
<1>3. Slot(n) \in Index
  BY SlotRange
<1> HIDE DEF x, q1
<1>4. n + BufferNum \in Nat /\ n + BufferNum = BufferNum * q1 + Slot(n)
  BY <1>2, <1>3, RingAssumption DEF Index
<1> QED
  BY <1>2, <1>3, <1>4, SlotUnique

(* The buffer Dataprocess reads, in terms of the count it saw.             *)
LEMMA SlotBehind ==
  ASSUME NEW n \in Nat
  PROVE  Behind(Slot(n)) = IF n < Back THEN n + (BufferNum - Back)
                                       ELSE Slot(n - Back)
<1>1. PICK q \in Nat : n = BufferNum * q + Slot(n)
  BY SlotRange
<1>2. Slot(n) \in Index /\ (n < BufferNum => Slot(n) = n)
  BY SlotRange
<1> DEFINE k == Slot(n) + (BufferNum - Back)
<1>3. k \in Nat /\ Behind(Slot(n)) = Slot(k)
  BY <1>2, RingAssumption DEF Behind, Slot, Index
<1>4. CASE n < Back
  <2>1. k = n + (BufferNum - Back) /\ k < BufferNum
    BY <1>2, <1>4, RingAssumption
  <2>2. Slot(k) = k
    BY <1>3, <2>1, SlotRange
  <2> QED
    BY <1>3, <1>4, <2>1, <2>2
<1>5. CASE n >= Back /\ Slot(n) < Back
  <2> DEFINE x == BufferNum * q
  <2>1. x \in Int /\ n = x + Slot(n) /\ BufferNum * (q - 1) = x - BufferNum
    BY <1>1, Multiples, RingAssumption
  <2> HIDE DEF x
  <2> DEFINE q1 == q - 1
  <2>2. q1 \in Int /\ n - Back = BufferNum * q1 + k /\ k \in Index /\ n - Back \in Nat
    BY <2>1, <1>2, <1>5, RingAssumption DEF Index
  <2>3. Slot(k) = k
    BY <2>2, SlotRange, RingAssumption DEF Index
  <2> HIDE DEF q1, k
  <2>4. Slot(n - Back) = k
    BY <2>2, SlotUnique
  <2> QED
    BY <1>3, <1>5, <2>3, <2>4, RingAssumption
<1>6. CASE n >= Back /\ Slot(n) >= Back
  <2> DEFINE r == Slot(n) - Back
  <2>1. n - Back = BufferNum * q + r /\ r \in Index /\ n - Back \in Nat
    BY <1>1, <1>2, <1>6, Multiples, RingAssumption DEF Index
  <2>2. k = BufferNum * 1 + r
    BY <1>2, RingAssumption DEF Index
  <2> HIDE DEF r
  <2>3. Slot(n - Back) = r
    BY <2>1, SlotUnique
  <2>4. Slot(k) = r
    BY <2>1, <2>2, <1>3, SlotUnique
  <2> QED
    BY <1>3, <1>6, <2>3, <2>4, RingAssumption
<1> QED
  BY <1>2, <1>4, <1>5, <1>6, RingAssumption DEF Index
-----------------------------------------------------------------------------
USE DEF vars, ringSide, flagVars, requestSide, clientSide, recvVars, storeVars,
        procVars, sendVars, queueVars, serverVars, clientVars, boardVars

LEMMA Literals ==
  /\ 0 \in Index
  /\ \A i \in Index : i \in Nat /\ Advance(i) \in Index
  /\ Blank \notin Nat /\ Torn \notin Nat /\ Blank # Torn
  /\ Len(MainOrder) = 5 /\ DOMAIN MainOrder = 1 .. 5
  /\ \A k \in 1 .. 5 : MainOrder[k] \in Workers
BY RingAssumption DEF Index, Advance, Blank, Torn, MainOrder, Workers

LEMMA ReadsNone == Reads(<<>>) = 0
<1>1. ReadsIn(<<>>) = {}
  BY DEF ReadsIn
<1> QED
  BY <1>1, FS_EmptySet DEF Reads

LEMMA InitInvariant == Init => IInv
<1> SUFFICES ASSUME Init PROVE IInv
  OBVIOUS
<1> USE Literals
<1>1. Slot(0) = 0
  BY SlotRange, RingAssumption
<1>2. RingTypeOK
  BY DEF Init, First, RingTypeOK
<1>3. RequestTypeOK
  <2>1. <<>> \in Seq(Items)
    OBVIOUS
  <2>2. feeder \in [{"send", "server"} -> Seq(Items)]
    BY <2>1 DEF Init
  <2>3. /\ sendPc \in {"open", "loop", "sign", "request", "clear", "drain", "done"}
        /\ serverPc \in {"loop", "accept", "inner", "recv", "done"}
    BY DEF Init, First
  <2> QED
    BY <2>1, <2>2, <2>3 DEF Init, RequestTypeOK
<1>4. FlagTypeOK
  BY DEF Init, FlagTypeOK
<1>5. IndexInv
  BY <1>1 DEF Init, First, IndexInv, Published
<1>6. ContentInv
  BY RingAssumption DEF Init, ContentInv, Kept
<1>7. WindowInv
  BY DEF Init, First, WindowInv, Arriving, Flagged
<1>8. FlowInv
  <2>1. ring[nseq] # Torn
    BY DEF Init
  <2> QED
    BY <2>1, ReadsNone DEF Init, First, FlowInv, RequestUnderWay
<1> QED
  BY <1>2, <1>3, <1>4, <1>5, <1>6, <1>7, <1>8 DEF IInv, TypeOK
-----------------------------------------------------------------------------
(* What the steps of the others leave alone.                               *)

LEMMA OtherSteps ==
  ASSUME [Next]_vars
  PROVE  RecvWorker \/ Storage \/ Dataprocess \/ UNCHANGED ringSide
<1>1. CASE SendWorker
  BY <1>1 DEF SendWorker, SendOpen, SendTest, SendSign, SendRequest, SendClear,
              SendDrain, SendDrained
<1>2. CASE CmdServer
  BY <1>2 DEF CmdServer, ServerTest, AcceptTimeout, Accept, ServerInner,
              ServerRecvPart, ServerRecv, ServerEof
<1>3. CASE ClientConnect \/ ClientSend \/ ClientLeave \/ Firmware
  BY <1>3 DEF ClientConnect, ClientSend, ClientLeave, Firmware
<1>4. CASE MainWakes \/ MainStop \/ MainJoin
  BY <1>4 DEF MainWakes, MainStop, MainJoin
<1>5. CASE \E p \in {"send", "server"} : Feed(p)
  BY <1>5 DEF Feed
<1>6. CASE UNCHANGED vars
  BY <1>6
<1> QED
  BY <1>1, <1>2, <1>3, <1>4, <1>5, <1>6 DEF Next
-----------------------------------------------------------------------------
(* The types, one group of variables after the other.                      *)

LEMMA RingTypes ==
  ASSUME RingTypeOK, IndexInv, [Next]_vars
  PROVE  RingTypeOK'
<1> USE Literals DEF RingTypeOK
<1>1. CASE RecvTest \/ RecvTimeout \/ RecvPublish \/ RecvSignal
  BY <1>1 DEF RecvTest, RecvTimeout, RecvPublish, RecvSignal
<1>2. CASE RecvSome
  BY <1>2 DEF RecvSome
<1>3. CASE RecvAll
  BY <1>3 DEF RecvAll
<1>4. CASE Storage
  BY <1>4 DEF Storage, StoreTest, StoreLoad, StoreWrite
<1>5. CASE Dataprocess
  <2>1. Published \in Nat
    BY DEF Published, IndexInv
  <2> QED
    BY <1>5, <2>1 DEF Dataprocess, ProcTest, ProcLoad, ProcParse
<1>6. CASE UNCHANGED ringSide
  BY <1>6
<1> QED
  BY <1>1, <1>2, <1>3, <1>4, <1>5, <1>6, OtherSteps DEF RecvWorker, Next

LEMMA FlagTypes ==
  ASSUME FlagTypeOK, [Next]_vars
  PROVE  FlagTypeOK'
<1> USE Literals DEF FlagTypeOK
<1>1. CASE RecvWorker
  BY <1>1 DEF RecvWorker, RecvTest, RecvSome, RecvAll, RecvTimeout,
              RecvPublish, RecvSignal
<1>2. CASE SendClear \/ SendDrained
  BY <1>2 DEF SendClear, SendDrained, ClearSign, KeepSign
<1>3. CASE MainStop
  BY <1>3 DEF MainStop
<1>4. CASE MainWakes \/ MainJoin
  BY <1>4 DEF MainWakes, MainJoin
<1>5. CASE Storage
  BY <1>5 DEF Storage, StoreTest, StoreLoad, StoreWrite
<1>6. CASE Dataprocess
  BY <1>6 DEF Dataprocess, ProcTest, ProcLoad, ProcParse
<1>7. CASE SendOpen \/ SendTest \/ SendSign \/ SendRequest \/ SendDrain
  BY <1>7 DEF SendOpen, SendTest, SendSign, SendRequest, SendDrain
<1>8. CASE CmdServer
  BY <1>8 DEF CmdServer, ServerTest, AcceptTimeout, Accept, ServerInner,
              ServerRecvPart, ServerRecv, ServerEof
<1>9. CASE ClientConnect \/ ClientSend \/ ClientLeave \/ Firmware
  BY <1>9 DEF ClientConnect, ClientSend, ClientLeave, Firmware
<1>10. CASE \E p \in {"send", "server"} : Feed(p)
  BY <1>10 DEF Feed
<1>11. CASE UNCHANGED vars
  BY <1>11
<1> QED
  BY <1>1, <1>2, <1>3, <1>4, <1>5, <1>6, <1>7, <1>8, <1>9, <1>10, <1>11
     DEF Next, SendWorker

LEMMA RequestTypes ==
  ASSUME RequestTypeOK, [Next]_vars
  PROVE  RequestTypeOK'
<1> USE DEF RequestTypeOK
<1> DEFINE Feeders == [{"send", "server"} -> Seq(Items)]
<1>1. ASSUME NEW p \in {"send", "server"}, NEW s \in Seq(Items)
      PROVE  [feeder EXCEPT ![p] = s] \in Feeders /\ feeder[p] \in Seq(Items)
  BY <1>1
<1>2. CASE RecvWorker
  BY <1>2 DEF RecvWorker, RecvTest, RecvSome, RecvAll, RecvTimeout,
              RecvPublish, RecvSignal
<1>3. CASE Storage
  BY <1>3 DEF Storage, StoreTest, StoreLoad, StoreWrite
<1>4. CASE Dataprocess
  BY <1>4 DEF Dataprocess, ProcTest, ProcLoad, ProcParse
<1>5. CASE SendOpen \/ SendRequest
  <2>1. /\ feeder["send"] \o Opening \in Seq(Items)
        /\ feeder["send"] \o <<"read">> \in Seq(Items)
    BY DEF Opening, Items
  <2>2. feeder' \in Feeders
    BY <1>1, <1>5, <2>1 DEF SendOpen, SendRequest, Put
  <2> QED
    BY <1>5, <2>2 DEF SendOpen, SendRequest
<1>6. CASE SendTest \/ SendSign \/ SendClear \/ SendDrained
  BY <1>6 DEF SendTest, SendSign, SendClear, SendDrained
<1>7. CASE SendDrain
  BY <1>7 DEF SendDrain
<1>8. ASSUME NEW p \in {"send", "server"}, Feed(p) PROVE RequestTypeOK'
  <2>1. feeder[p] \in Seq(Items) /\ feeder[p] # <<>>
    BY <1>8 DEF Feed
  <2>2. Tail(feeder[p]) \in Seq(Items) /\ Append(pipe, Head(feeder[p])) \in Seq(Items)
    BY <2>1
  <2>3. feeder' \in Feeders /\ pipe' \in Seq(Items)
    BY <1>1, <1>8, <2>2 DEF Feed
  <2> QED
    BY <1>8, <2>3 DEF Feed
<1>9. CASE ServerTest \/ AcceptTimeout \/ Accept
  BY <1>9 DEF ServerTest, AcceptTimeout, Accept
<1>20. CASE ServerInner \/ ServerRecvPart \/ ServerEof
  <2>1. CASE ServerInner
    <3>1. /\ partial' = FALSE
          /\ serverPc' \in {"loop", "recv"}
          /\ client' \in {"away", client} /\ inbox' \in {0, inbox}
      BY <2>1 DEF ServerInner
    <3>2. UNCHANGED <<sendPc, asked, feeder, pipe, sent, wire, streaming, arrived>>
      BY <2>1 DEF ServerInner
    <3>3. partial' \in BOOLEAN
      BY <3>1, Zenon
    <3>4. streaming' \in BOOLEAN
      BY <3>2, Zenon
    <3> QED
      BY <3>1, <3>2, <3>3, <3>4
  <2>3. CASE ServerRecvPart
    BY <2>3 DEF ServerRecvPart
  <2>4. CASE ServerEof
    BY <2>4 DEF ServerEof
  <2> QED
    BY <1>20, <2>1, <2>3, <2>4
<1>21. CASE ServerRecv
  <2>1. feeder["server"] \o <<"slow">> \in Seq(Items)
    BY DEF Items
  <2>2. feeder' \in Feeders
    BY <1>1, <1>21, <2>1 DEF ServerRecv, Put
  <2> QED
    BY <1>21, <2>2 DEF ServerRecv
<1>22. CASE ClientConnect \/ ClientSend \/ ClientLeave
  BY <1>22 DEF ClientConnect, ClientSend, ClientLeave
<1>23. CASE Firmware
  <2>1. wire' \in Seq(Items)
    BY <1>23 DEF Firmware
  <2>2. streaming' \in {streaming, TRUE} /\ arrived' \in {arrived, arrived + 1}
    BY <1>23 DEF Firmware
  <2>3. streaming' \in BOOLEAN
    BY <2>2, Zenon
  <2> QED
    BY <1>23, <2>1, <2>2, <2>3 DEF Firmware
<1>24. CASE MainWakes \/ MainStop \/ MainJoin \/ UNCHANGED vars
  BY <1>24 DEF MainWakes, MainStop, MainJoin
<1> QED
  BY <1>2, <1>3, <1>4, <1>5, <1>6, <1>7, <1>8, <1>9, <1>20, <1>21, <1>22,
     <1>23, <1>24 DEF Next, SendWorker, CmdServer
-----------------------------------------------------------------------------
(* The ring.  Only RecvAll moves the window of buffers that are kept; the  *)
(* slot it fills belonged to the oldest of them.                           *)

LEMMA ContentStep ==
  ASSUME RingTypeOK, IndexInv, ContentInv, [Next]_vars
  PROVE  ContentInv'
<1> USE DEF RingTypeOK, IndexInv
<1>1. CASE RecvSome
  <2>1. ring' = [ring EXCEPT ![Slot(received)] = Torn] /\ received' = received
    BY <1>1 DEF RecvSome
  <2>2. ASSUME NEW n \in Nat, Kept(n)
        PROVE  \/ ring'[Slot(n)] = n
               \/ received = n + BufferNum /\ ring'[Slot(n)] = Torn
    <3>1. Slot(n) \in Index /\ Slot(received) \in Index
      BY SlotRange
    <3>2. CASE received = n + BufferNum
      <4>1. Slot(n) = Slot(received)
        BY <3>2, SlotWraps
      <4> QED
        BY <2>1, <3>1, <3>2, <4>1
    <3>3. CASE received # n + BufferNum
      <4>1. Slot(n) # Slot(received)
        BY <2>2, <3>3, SlotApart, RingAssumption DEF Kept
      <4> QED
        BY <2>1, <2>2, <3>1, <3>3, <4>1 DEF ContentInv
    <3> QED
      BY <3>2, <3>3
  <2>3. ASSUME NEW i \in Index, received <= i
        PROVE  ring'[i] = Blank \/ (i = received /\ ring'[i] = Torn)
    <3>1. Slot(received) = received
      BY <2>3, SlotRange, RingAssumption DEF Index
    <3> QED
      BY <2>1, <2>3, <3>1 DEF ContentInv
  <2> QED
    BY <2>1, <2>2, <2>3 DEF ContentInv, Kept
<1>2. CASE RecvAll
  <2>1. /\ ring' = [ring EXCEPT ![Slot(received)] = received]
        /\ received' = received + 1
    BY <1>2 DEF RecvAll
  <2>2. ASSUME NEW n \in Nat, n < received + 1, received + 1 <= n + BufferNum
        PROVE  ring'[Slot(n)] = n
    <3>1. Slot(n) \in Index /\ Slot(received) \in Index
      BY SlotRange
    <3>2. CASE n = received
      BY <2>1, <3>1, <3>2
    <3>3. CASE n # received
      <4>1. Slot(n) # Slot(received)
        BY <2>2, <3>3, SlotApart, RingAssumption
      <4>2. Kept(n) /\ received # n + BufferNum
        BY <2>2, <3>3, RingAssumption DEF Kept
      <4> QED
        BY <2>1, <3>1, <4>1, <4>2 DEF ContentInv
    <3> QED
      BY <3>2, <3>3
  <2>3. ASSUME NEW i \in Index, received + 1 <= i
        PROVE  ring'[i] = Blank
    <3>1. Slot(received) = received /\ i \in Nat
      BY <2>3, SlotRange, RingAssumption DEF Index
    <3> QED
      BY <2>1, <2>3, <3>1 DEF ContentInv
  <2> QED
    BY <2>1, <2>2, <2>3 DEF ContentInv, Kept
<1>3. CASE UNCHANGED <<ring, received>>
  BY <1>3 DEF ContentInv, Kept
<1>4. CASE RecvTest \/ RecvTimeout \/ RecvPublish \/ RecvSignal
  BY <1>3, <1>4 DEF RecvTest, RecvTimeout, RecvPublish, RecvSignal
<1>5. CASE Storage \/ Dataprocess
  BY <1>3, <1>5 DEF Storage, StoreTest, StoreLoad, StoreWrite,
                    Dataprocess, ProcTest, ProcLoad, ProcParse
<1> QED
  BY <1>1, <1>2, <1>3, <1>4, <1>5, OtherSteps DEF RecvWorker

LEMMA IndexStep ==
  ASSUME RingTypeOK, IndexInv, [Next]_vars
  PROVE  IndexInv'
<1> USE DEF RingTypeOK, IndexInv, Published
<1>1. CASE RecvTest \/ RecvSome \/ RecvTimeout \/ RecvPublish \/ RecvSignal
  BY <1>1 DEF RecvTest, RecvSome, RecvTimeout, RecvPublish, RecvSignal
<1>2. CASE RecvAll
  BY <1>2, SlotNext DEF RecvAll
<1>3. CASE StoreTest
  BY <1>3 DEF StoreTest
<1>4. CASE StoreLoad
  BY <1>4 DEF StoreLoad, NothingNew
<1>5. CASE StoreWrite
  BY <1>5, SlotNext DEF StoreWrite
<1>6. CASE Dataprocess
  BY <1>6 DEF Dataprocess, ProcTest, ProcLoad, ProcParse
<1>7. CASE UNCHANGED ringSide
  BY <1>7
<1> QED
  BY <1>1, <1>2, <1>3, <1>4, <1>5, <1>6, <1>7, OtherSteps DEF RecvWorker, Storage
-----------------------------------------------------------------------------
(* The requests.                                                           *)

LEMMA WindowStep ==
  ASSUME TypeOK, WindowInv, [Next]_vars
  PROVE  WindowInv'
<1> USE DEF TypeOK, RingTypeOK, FlagTypeOK, RequestTypeOK, WindowInv, Arriving,
            Flagged
<1>1. CASE RecvWorker
  <2>1. CASE RecvTest \/ RecvSome \/ RecvTimeout
    BY <2>1 DEF RecvTest, RecvSome, RecvTimeout
  <2>2. CASE RecvAll
    BY <2>2 DEF RecvAll
  <2>3. CASE RecvPublish
    BY <2>3 DEF RecvPublish
  <2>4. CASE RecvSignal
    <3>1. Arriving = 1 /\ Arriving' = 0 /\ Flagged' <= 1
      BY <2>4 DEF RecvSignal
    <3>2. sign' = 1 /\ UNCHANGED <<received, sendPc, asked>>
      BY <2>4 DEF RecvSignal
    <3> QED
      BY <3>1, <3>2
  <2> QED
    BY <1>1, <2>1, <2>2, <2>3, <2>4 DEF RecvWorker
<1>2. CASE SendOpen
  BY <1>2 DEF SendOpen
<1>3. CASE SendTest \/ SendSign
  BY <1>3 DEF SendTest, SendSign
<1>4. CASE SendRequest
  BY <1>4 DEF SendRequest
<1>5. CASE SendClear
  BY <1>5 DEF SendClear, ClearSign
<1>6. CASE SendDrain \/ SendDrained
  BY <1>6 DEF SendDrain, SendDrained, KeepSign
<1>7. CASE UNCHANGED <<recvVars, sign, sendVars>>
  BY <1>7
<1>8. CASE Storage \/ Dataprocess
  BY <1>7, <1>8 DEF Storage, StoreTest, StoreLoad, StoreWrite, Dataprocess,
                    ProcTest, ProcLoad, ProcParse
<1>9. CASE CmdServer
  BY <1>7, <1>9 DEF CmdServer, ServerTest, AcceptTimeout, Accept, ServerInner,
                    ServerRecvPart, ServerRecv, ServerEof
<1>10. CASE ClientConnect \/ ClientSend \/ ClientLeave \/ Firmware
  BY <1>7, <1>10 DEF ClientConnect, ClientSend, ClientLeave, Firmware
<1>11. CASE \E p \in {"send", "server"} : Feed(p)
  BY <1>7, <1>11 DEF Feed
<1>12. CASE MainWakes \/ MainStop \/ MainJoin \/ UNCHANGED vars
  BY <1>7, <1>12 DEF MainWakes, MainStop, MainJoin
<1> QED
  BY <1>1, <1>2, <1>3, <1>4, <1>5, <1>6, <1>8, <1>9, <1>10, <1>11, <1>12
     DEF Next, SendWorker
-----------------------------------------------------------------------------
(* The requests on their way, as they are put, fed, sent and answered.     *)

LEMMA ReadsFinite ==
  ASSUME NEW s \in Seq(Items)
  PROVE  IsFiniteSet(ReadsIn(s)) /\ Reads(s) \in Nat
<1>1. IsFiniteSet(1 .. Len(s)) /\ ReadsIn(s) \subseteq 1 .. Len(s)
  BY LenProperties, FS_Interval DEF ReadsIn
<1>2. IsFiniteSet(ReadsIn(s))
  BY <1>1, FS_Subset
<1> QED
  BY <1>2, FS_CardinalityType DEF Reads

LEMMA ReadsAppend ==
  ASSUME NEW s \in Seq(Items), NEW e \in Items
  PROVE  Reads(Append(s, e)) = Reads(s) + (IF e = "read" THEN 1 ELSE 0)
<1> DEFINE t == Append(s, e)
           n == Len(s) + 1
<1>1. /\ Len(s) \in Nat /\ Len(t) = n /\ t[n] = e
      /\ \A i \in 1 .. Len(s) : t[i] = s[i]
  BY AppendProperties, LenProperties
<1>2. IsFiniteSet(ReadsIn(s)) /\ Reads(s) \in Nat
  BY ReadsFinite
<1>6. n \notin ReadsIn(s)
  BY <1>1 DEF ReadsIn
<1> HIDE DEF t
<1>3. ReadsIn(t) = ReadsIn(s) \cup (IF e = "read" THEN {n} ELSE {})
  BY <1>1 DEF ReadsIn
<1>4. CASE e = "read"
  BY <1>2, <1>3, <1>4, <1>6, FS_AddElement DEF Reads, t
<1>5. CASE e # "read"
  <2>1. ReadsIn(t) = ReadsIn(s)
    BY <1>3, <1>5
  <2> QED
    BY <1>2, <1>5, <2>1 DEF Reads, t
<1> QED
  BY <1>4, <1>5

(* The places behind the first are those of the tail, one further on.      *)
LEMMA ReadsTail ==
  ASSUME NEW s \in Seq(Items), s # <<>>
  PROVE  Reads(s) = Reads(Tail(s)) + (IF Head(s) = "read" THEN 1 ELSE 0)
<1> DEFINE t == Tail(s)
           Rest == ReadsIn(s) \ {1}
<1>1. /\ Len(s) \in Nat /\ Len(s) > 0 /\ t \in Seq(Items) /\ Len(t) = Len(s) - 1
      /\ Head(s) = s[1] /\ \A i \in 1 .. Len(t) : t[i] = s[i + 1]
  BY HeadTailProperties, LenProperties
<1> HIDE DEF t
<1>2. /\ IsFiniteSet(ReadsIn(s)) /\ IsFiniteSet(ReadsIn(t))
      /\ Reads(t) \in Nat /\ Reads(s) \in Nat
  BY <1>1, ReadsFinite
<1>3. Cardinality(Rest) = Reads(t)
  <2> DEFINE f == [i \in ReadsIn(t) |-> i + 1]
  <2>1. \A i \in ReadsIn(t) : f[i] \in Rest
    BY <1>1 DEF ReadsIn
  <2>2. \A i, j \in ReadsIn(t) : f[i] = f[j] => i = j
    BY <1>1 DEF ReadsIn
  <2>3. \A k \in Rest : \E i \in ReadsIn(t) : f[i] = k
    <3> SUFFICES ASSUME NEW k \in Rest PROVE k - 1 \in ReadsIn(t) /\ f[k - 1] = k
      OBVIOUS
    <3>1. k \in 2 .. Len(s) /\ s[k] = "read"
      BY <1>1 DEF ReadsIn
    <3>2. k - 1 \in ReadsIn(t)
      BY <1>1, <3>1 DEF ReadsIn
    <3> QED
      BY <3>1, <3>2
  <2>4. f \in [ReadsIn(t) -> Rest]
    BY <2>1
  <2> HIDE DEF f
  <2>5. f \in Bijection(ReadsIn(t), Rest)
    BY <2>2, <2>3, <2>4 DEF Bijection, Injection, Surjection, IsInjective
  <2>6. ExistsBijection(ReadsIn(t), Rest)
    BY <2>5 DEF ExistsBijection
  <2> QED
    BY <1>2, <2>6, FS_Bijection DEF Reads
<1>4. CASE Head(s) = "read"
  <2>1. 1 \in ReadsIn(s)
    BY <1>1, <1>4 DEF ReadsIn
  <2>2. Cardinality(Rest) = Cardinality(ReadsIn(s)) - 1
    BY <1>2, <2>1, FS_RemoveElement
  <2> QED
    BY <1>2, <1>3, <1>4, <2>2 DEF Reads, t
<1>5. CASE Head(s) # "read"
  <2>1. Rest = ReadsIn(s)
    BY <1>1, <1>5 DEF ReadsIn
  <2>2. Reads(s) = Reads(t)
    BY <1>3, <2>1 DEF Reads
  <2> QED
    BY <1>2, <1>5, <2>2 DEF t
<1> QED
  BY <1>4, <1>5

LEMMA ReadsMove ==
  ASSUME NEW s \in Seq(Items)
  PROVE  /\ Reads(s) \in Nat
         /\ \A e \in Items : Reads(Append(s, e)) = Reads(s) + (IF e = "read" THEN 1 ELSE 0)
         /\ s # <<>> => /\ Head(s) \in Items /\ Tail(s) \in Seq(Items)
                        /\ Reads(s) = Reads(Tail(s)) + (IF Head(s) = "read" THEN 1 ELSE 0)
BY ReadsFinite, ReadsAppend, ReadsTail, HeadTailProperties

(* The opening commands hold two requests, the later ones one.             *)
LEMMA ReadsPut ==
  ASSUME NEW s \in Seq(Items)
  PROVE  /\ Reads(s \o Opening) = Reads(s) + 2
         /\ Reads(s \o <<"read">>) = Reads(s) + 1
         /\ Reads(s \o <<"slow">>) = Reads(s)
<1> USE DEF Items
<1>1. PICK s1 : s1 = Append(s, "pulse")
  OBVIOUS
<1>2. s1 \in Seq(Items) /\ Reads(s1) = Reads(s)
  BY <1>1, ReadsMove
<1>3. PICK s2 : s2 = Append(s1, "read")
  OBVIOUS
<1>4. s2 \in Seq(Items) /\ Reads(s2) = Reads(s1) + 1
  BY <1>2, <1>3, ReadsMove
<1>5. Reads(Append(s2, "read")) = Reads(s2) + 1
  BY <1>4, ReadsMove
<1>6. Append(s2, "read") = s \o Opening
  BY <1>1, <1>3 DEF Opening
<1>7. /\ Reads(s) \in Nat /\ Reads(Append(s, "read")) = Reads(s) + 1
      /\ Reads(Append(s, "slow")) = Reads(s)
  BY ReadsMove
<1>8. s \o <<"read">> = Append(s, "read") /\ s \o <<"slow">> = Append(s, "slow")
  OBVIOUS
<1>9. Reads(Append(s2, "read")) = Reads(s) + 2
  BY <1>2, <1>4, <1>5, <1>7
<1> QED
  BY <1>6, <1>7, <1>8, <1>9, Zenon

(* The buffer that comes next has not been begun.                          *)
LEMMA NextSlotClean ==
  ASSUME RingTypeOK, ContentInv
  PROVE  Slot(received + 1) # Slot(received) /\ ring[Slot(received + 1)] # Torn
<1> USE Literals DEF RingTypeOK
<1>1. Slot(received + 1) # Slot(received)
  BY SlotApart, RingAssumption
<1>2. CASE received + 1 < BufferNum
  <2>1. Slot(received + 1) = received + 1 /\ received + 1 \in Index
    BY <1>2, SlotRange DEF Index
  <2> QED
    BY <1>1, <2>1 DEF ContentInv
<1>3. CASE received + 1 >= BufferNum
  <2> DEFINE n == received + 1 - BufferNum
  <2>1. n \in Nat /\ n + BufferNum = received + 1 /\ Kept(n) /\ received # n + BufferNum
    BY <1>3, RingAssumption DEF Kept
  <2>2. Slot(n) = Slot(received + 1)
    BY <2>1, SlotWraps
  <2>3. ring[Slot(n)] = n
    BY <2>1 DEF ContentInv
  <2> QED
    BY <1>1, <2>1, <2>2, <2>3
<1> QED
  BY <1>2, <1>3, RingAssumption

LEMMA FlowStep ==
  ASSUME TypeOK, IndexInv, ContentInv, FlowInv, [Next]_vars
  PROVE  FlowInv'
<1> DEFINE fs == feeder["send"]
           fv == feeder["server"]
<1>0. /\ fs \in Seq(Items) /\ fv \in Seq(Items) /\ pipe \in Seq(Items) /\ wire \in Seq(Items)
      /\ asked \in Nat /\ arrived \in Nat /\ received \in Nat
      /\ DOMAIN feeder = {"send", "server"}
      /\ Reads(fs) \in Nat /\ Reads(fv) \in Nat /\ Reads(pipe) \in Nat /\ Reads(wire) \in Nat
  BY ReadsMove DEF TypeOK, RingTypeOK, RequestTypeOK
<1> USE <1>0 DEF FlowInv, RequestUnderWay
<1>1. CASE RecvWorker
  <2>1. CASE RecvTest \/ RecvTimeout \/ RecvPublish \/ RecvSignal
    BY <2>1 DEF RecvTest, RecvTimeout, RecvPublish, RecvSignal
  <2>2. CASE RecvSome
    BY <2>2 DEF RecvSome
  <2>3. CASE RecvAll
    <3>1. nseq = Slot(received) /\ nseq' = Slot(received + 1)
      BY <2>3, SlotNext DEF RecvAll, IndexInv
    <3>2. Slot(received + 1) # Slot(received) /\ ring[Slot(received + 1)] # Torn
      BY NextSlotClean DEF TypeOK
    <3>3. Slot(received + 1) \in Index /\ ring \in [Index -> Nat \cup {Blank, Torn}]
      <4>1. received + 1 \in Nat
        OBVIOUS
      <4> QED
        BY <4>1, SlotRange DEF TypeOK, RingTypeOK
    <3>4. ring'[nseq'] # Torn
      BY <2>3, <3>1, <3>2, <3>3 DEF RecvAll
    <3> QED
      BY <2>3, <3>4 DEF RecvAll
  <2> QED
    BY <1>1, <2>1, <2>2, <2>3 DEF RecvWorker
<1>2. CASE SendOpen
  <2>1. Reads(feeder'["send"]) = Reads(fs) + 2 /\ feeder'["server"] = fv
    BY <1>2, ReadsPut DEF SendOpen, Put
  <2> QED
    BY <1>2, <2>1 DEF SendOpen
<1>3. CASE SendTest \/ SendSign
  BY <1>3 DEF SendTest, SendSign, TypeOK, FlagTypeOK
<1>4. CASE SendRequest
  <2>1. Reads(feeder'["send"]) = Reads(fs) + 1 /\ feeder'["server"] = fv
    BY <1>4, ReadsPut DEF SendRequest, Put
  <2>2. /\ asked' = asked + 1 /\ sendPc' = "clear"
        /\ UNCHANGED <<ring, nseq, received, arrived, pipe, wire>>
    BY <1>4 DEF SendRequest, ringSide, recvVars, boardVars
  <2>3. asked >= received
    OBVIOUS
  <2>4. asked' # received'
    BY <2>2, <2>3
  <2>5. (received <= arrived /\ (ring[nseq] = Torn => received < arrived))'
    BY <2>2
  <2>6. (asked = arrived + Reads(wire) + Reads(pipe) + Reads(feeder["send"]))'
    BY <2>1, <2>2
  <2>7. (Reads(pipe) + Reads(feeder["send"]) > 0)'
    BY <2>1, <2>2
  <2> QED
    BY <2>1, <2>2, <2>4, <2>5, <2>6, <2>7
<1>5. CASE SendClear
  BY <1>5 DEF SendClear, ClearSign
<1>6. CASE SendDrain
  <2>1. /\ Reads(wire') = Reads(wire) + (IF Head(pipe) = "read" THEN 1 ELSE 0)
        /\ Reads(pipe) = Reads(pipe') + (IF Head(pipe) = "read" THEN 1 ELSE 0)
        /\ pipe' \in Seq(Items)
    BY <1>6, ReadsMove DEF SendDrain
  <2>2. Reads(pipe') \in Nat
    BY <2>1, ReadsMove
  <2> QED
    BY <1>6, <2>1, <2>2 DEF SendDrain
<1>7. CASE SendDrained
  BY <1>7 DEF SendDrained, KeepSign
<1>8. ASSUME NEW p \in {"send", "server"}, Feed(p) PROVE FlowInv'
  <2> DEFINE f == feeder[p]
             r == IF Head(f) = "read" THEN 1 ELSE 0
  <2>1. f \in Seq(Items) /\ f # <<>>
    BY <1>8 DEF Feed
  <2>2. /\ Reads(f) = Reads(Tail(f)) + r /\ Reads(Tail(f)) \in Nat
        /\ Reads(pipe') = Reads(pipe) + r /\ feeder' = [feeder EXCEPT ![p] = Tail(f)]
    <3>1. Head(f) \in Items /\ Tail(f) \in Seq(Items) /\ Reads(f) = Reads(Tail(f)) + r
      BY <2>1, ReadsMove
    <3>2. pipe' = Append(pipe, Head(f)) /\ feeder' = [feeder EXCEPT ![p] = Tail(f)]
      BY <1>8 DEF Feed
    <3>3. Reads(Tail(f)) \in Nat /\ Reads(Append(pipe, Head(f))) = Reads(pipe) + r
      BY <3>1, ReadsMove
    <3> QED
      BY <3>1, <3>2, <3>3
  <2>3. r \in {0, 1}
    OBVIOUS
  <2> HIDE DEF r
  <2>4. UNCHANGED <<ring, nseq, received, arrived, asked, wire, sendPc, recvPc, sign>>
    BY <1>8 DEF Feed, ringSide, recvVars, flagVars, sendVars, boardVars
  <2>5. CASE p = "send"
    <3>1. feeder'["send"] = Tail(f) /\ feeder'["server"] = fv
      BY <2>2, <2>5
    <3>2. Reads(fs) = Reads(feeder'["send"]) + r /\ Reads(feeder'["send"]) \in Nat
      BY <2>2, <2>5, <3>1
    <3>3. (received <= arrived /\ (ring[nseq] = Torn => received < arrived))'
      BY <2>4
    <3>4. Reads(pipe') + Reads(feeder'["send"]) = Reads(pipe) + Reads(fs)
      BY <2>2, <2>3, <3>2
    <3>5. Reads(pipe') \in Nat
      BY <2>2, <2>3
    <3>6. (asked = arrived + Reads(wire) + Reads(pipe) + Reads(feeder["send"]))'
      <4>1. Reads(feeder'["send"]) \in Nat
        BY <3>2
      <4>2. asked = arrived + Reads(wire) + (Reads(pipe) + Reads(fs))
        OBVIOUS
      <4>3. asked = arrived + Reads(wire) + (Reads(pipe') + Reads(feeder'["send"]))
        BY <3>4, <4>2
      <4>4. asked = arrived + Reads(wire) + Reads(pipe') + Reads(feeder'["send"])
        BY <3>5, <4>1, <4>3
      <4> QED
        BY <2>4, <4>4
    <3> QED
      BY <2>4, <3>1, <3>3, <3>4, <3>6
  <2>6. CASE p = "server"
    <3>1. feeder'["server"] = Tail(f) /\ feeder'["send"] = fs
      BY <2>2, <2>6
    <3>2. Reads(fv) = Reads(feeder'["server"]) + r /\ Reads(feeder'["server"]) \in Nat
      BY <2>2, <2>6, <3>1
    <3>3. r = 0 /\ Reads(feeder'["server"]) = 0
      BY <2>3, <3>2
    <3>4. Reads(pipe') = Reads(pipe)
      BY <2>2, <3>3
    <3> QED
      BY <2>4, <3>1, <3>3, <3>4
  <2> QED
    BY <2>5, <2>6
<1>9. CASE ServerRecv
  <2>1. Reads(feeder'["server"]) = Reads(fv) /\ feeder'["send"] = fs
    BY <1>9, ReadsPut DEF ServerRecv, Put
  <2> QED
    BY <1>9, <2>1 DEF ServerRecv
<1>10. CASE Firmware
  <2> DEFINE r == IF Head(wire) = "read" THEN 1 ELSE 0
  <2>1. Reads(wire) = Reads(wire') + r /\ Reads(wire') \in Nat
    <3>1. wire # <<>> /\ wire' = Tail(wire)
      BY <1>10 DEF Firmware
    <3>2. Reads(wire) = Reads(Tail(wire)) + r /\ Tail(wire) \in Seq(Items)
      BY <3>1, ReadsMove
    <3>3. Reads(Tail(wire)) \in Nat
      BY <3>2, ReadsMove
    <3> QED
      BY <3>1, <3>2, <3>3
  <2>2. arrived' = arrived + r
    BY <1>10 DEF Firmware, Take, boardVars
  <2>3. r \in {0, 1}
    OBVIOUS
  <2>4. UNCHANGED <<ring, nseq, received, asked, pipe, feeder, sendPc, recvPc, sign>>
    BY <1>10 DEF Firmware, ringSide, recvVars, flagVars, sendVars, queueVars
  <2>5. arrived' + Reads(wire') = arrived + Reads(wire) /\ arrived' >= arrived
    BY <2>1, <2>2, <2>3
  <2>6. arrived' \in Nat
    BY <2>2, <2>3
  <2>7. (received <= arrived /\ (ring[nseq] = Torn => received < arrived))'
    BY <2>4, <2>5, <2>6
  <2>8. (asked = arrived + Reads(wire) + Reads(pipe) + Reads(feeder["send"]))'
    BY <2>1, <2>4, <2>5, <2>6
  <2> QED
    BY <2>4, <2>7, <2>8
<1>11. CASE UNCHANGED <<ring, recvVars, sign, sendVars, queueVars, wire, arrived>>
  BY <1>11
<1>12. CASE Storage \/ Dataprocess
  BY <1>11, <1>12 DEF Storage, StoreTest, StoreLoad, StoreWrite, Dataprocess,
                      ProcTest, ProcLoad, ProcParse
<1>13. CASE ServerTest \/ AcceptTimeout \/ Accept \/ ServerInner \/ ServerRecvPart \/ ServerEof
  BY <1>11, <1>13 DEF ServerTest, AcceptTimeout, Accept, ServerInner, ServerRecvPart, ServerEof
<1>14. CASE ClientConnect \/ ClientSend \/ ClientLeave
  BY <1>11, <1>14 DEF ClientConnect, ClientSend, ClientLeave
<1>15. CASE MainWakes \/ MainStop \/ MainJoin \/ UNCHANGED vars
  BY <1>11, <1>15 DEF MainWakes, MainStop, MainJoin
<1> QED
  BY <1>1, <1>2, <1>3, <1>4, <1>5, <1>6, <1>7, <1>8, <1>9, <1>10, <1>12, <1>13, <1>14,
     <1>15 DEF Next, SendWorker, CmdServer
-----------------------------------------------------------------------------
LEMMA Invariant == Spec => []IInv
<1>1. Init => IInv
  BY InitInvariant
<1>2. IInv /\ [Next]_vars => IInv'
  BY RingTypes, FlagTypes, RequestTypes, IndexStep, ContentStep, WindowStep,
     FlowStep DEF IInv, TypeOK
<1> QED
  BY <1>1, <1>2, PTL DEF Spec

(* Types hold in every behaviour: no index ever leaves the ring.           *)
THEOREM TypeCorrect == Spec => []TypeOK
<1>1. IInv => TypeOK
  BY DEF IInv
<1> QED
  BY <1>1, Invariant, PTL

(* Storage writes each buffer of the stream once, in order and whole, in a *)
(* ring of any size, unless RecvWorker gets a whole ring ahead of it.      *)
THEOREM StoreInOrder == Spec => []StoresNextBuffer
<1>1. IInv => StoresNextBuffer
  <2> SUFFICES ASSUME IInv, storePc = "write", received - stored < BufferNum
               PROVE  ring[readnum] = stored
    BY DEF StoresNextBuffer
  <2>1. stored \in Nat /\ received \in Nat /\ stored < received
    BY DEF IInv, TypeOK, RingTypeOK, IndexInv, Published
  <2>2. Kept(stored) /\ received # stored + BufferNum
    BY <2>1, RingAssumption DEF Kept
  <2> QED
    BY <2>1, <2>2 DEF IInv, IndexInv, ContentInv
<1> QED
  BY <1>1, Invariant, PTL

(* Dataprocess parses the whole buffer Back behind the newest it saw, in a *)
(* ring of any size, unless RecvWorker reaches it from behind.             *)
THEOREM ParseWhole == Spec => []ParsesWholeBuffer
<1>1. IInv => ParsesWholeBuffer
  <2> SUFFICES ASSUME IInv, received - seen < BufferNum - Back
               PROVE  ring[Behind(procNum)] = IF seen < Back THEN Blank
                                                             ELSE seen - Back
    BY DEF ParsesWholeBuffer
  <2>1. /\ seen \in Nat /\ received \in Nat /\ seen <= received
        /\ procNum = Slot(seen)
    BY DEF IInv, TypeOK, RingTypeOK, IndexInv, Published
  <2>2. CASE seen < Back
    <3> DEFINE i == seen + (BufferNum - Back)
    <3>1. i \in Index /\ received < i
      BY <2>1, <2>2, RingAssumption DEF Index
    <3>2. Behind(procNum) = i
      BY <2>1, <2>2, SlotBehind
    <3> HIDE DEF i
    <3>3. ring[i] = Blank
      BY <2>1, <3>1, RingAssumption DEF IInv, ContentInv, Index
    <3> QED
      BY <2>2, <3>2, <3>3
  <2>3. CASE seen >= Back
    <3> DEFINE n == seen - Back
    <3>1. /\ n \in Nat /\ n < received /\ received < n + BufferNum
      BY <2>1, <2>3, RingAssumption
    <3>2. Behind(procNum) = Slot(n)
      BY <2>1, <2>3, SlotBehind, RingAssumption
    <3>3. ring[Slot(n)] = n
      BY <2>1, <3>1, RingAssumption DEF IInv, ContentInv, Kept
    <3> QED
      BY <2>1, <2>3, <3>2, <3>3, RingAssumption
  <2> QED
    BY <2>1, <2>2, <2>3, RingAssumption
<1> QED
  BY <1>1, Invariant, PTL

(* Never more than two buffers are asked for and not received, however the *)
(* steps of RecvWorker and SendWorker interleave on the flag.              *)
WindowKept == asked <= received + 2
THEOREM WindowBound == Spec => []WindowKept
<1>1. IInv => WindowKept
  BY DEF IInv, TypeOK, RingTypeOK, RequestTypeOK, WindowInv, WindowKept,
         Arriving, Flagged
<1> QED
  BY <1>1, Invariant, PTL

(* While SendWorker runs, a buffer is asked for or about to be, in every   *)
(* interleaving and whatever else the queue carries: SendWorker clears the *)
(* flag of a buffer only after it has put a request that nobody but itself *)
(* can have passed on.                                                     *)
THEOREM RequestKept == Spec => []RequestUnderWay
<1>1. IInv => RequestUnderWay
  BY DEF IInv, FlowInv
<1> QED
  BY <1>1, Invariant, PTL
-----------------------------------------------------------------------------
(* The pipeline implements the stream: an access to something shared is a  *)
(* step of it, or none.                                                    *)

(* Where the receiver is as it reaches the buffer that Storage writes.     *)
LEMMA LappedWhenMet ==
  ASSUME IInv, storePc = "write", readnum = nseq
  PROVE  Stream!Lapped
<1>1. /\ stored \in Nat /\ received \in Nat /\ stored < received
      /\ Slot(stored) = Slot(received) /\ BufferNum \in Nat
  BY RingAssumption DEF IInv, TypeOK, RingTypeOK, IndexInv, Published
<1>2. ~(received - stored < BufferNum)
  BY <1>1, SlotApart
<1> QED
  BY <1>1, <1>2 DEF Stream!Lapped

(* A step that leaves the counts and Storage alone leaves the stream alone, *)
(* unless it writes to the ring.                                           *)
LEMMA Stutters ==
  UNCHANGED <<asked, received, stored, storePc, readnum, ring>> => UNCHANGED Stream!vars
BY DEF Stream!vars, Hand

LEMMA StreamStep == IInv /\ [Next]_vars => [Stream!Next]_(Stream!vars)
<1> SUFFICES ASSUME IInv, [Next]_vars PROVE [Stream!Next]_(Stream!vars)
  OBVIOUS
<1>1. /\ stored \in Nat /\ received \in Nat /\ asked \in Nat /\ arrived \in Nat
      /\ stored <= received /\ (storePc = "write" => stored < received)
      /\ ring \in [Index -> Nat \cup {Blank, Torn}] /\ nseq \in Index /\ readnum \in Index
      /\ BufferNum \in Nat
  BY RingAssumption DEF IInv, TypeOK, RingTypeOK, RequestTypeOK, IndexInv, Published
<1>2. CASE RecvSome
  <2>1. /\ ring' = [ring EXCEPT ![nseq] = Torn]
        /\ UNCHANGED <<asked, received, stored, storePc, readnum>>
    BY <1>2 DEF RecvSome
  <2>2. CASE storePc = "write" /\ readnum = nseq
    <3>1. Hand # {} /\ Hand' # {}
      BY <2>1, <2>2 DEF Hand
    <3>2. Stream!Tear
      BY <2>1, <2>2, <3>1, LappedWhenMet DEF Stream!Tear, Stream!Spoil
    <3> QED
      BY <3>2 DEF Stream!Next
  <2>3. CASE ~(storePc = "write" /\ readnum = nseq)
    <3>1. Hand' = Hand
      BY <1>1, <2>1, <2>3 DEF Hand
    <3> QED
      BY <2>1, <3>1 DEF Stream!vars
  <2> QED
    BY <2>2, <2>3
<1>3. CASE RecvAll
  <2>1. /\ ring' = [ring EXCEPT ![nseq] = received] /\ received' = received + 1
        /\ ring[nseq] = Torn /\ UNCHANGED <<asked, stored, storePc, readnum>>
    BY <1>3 DEF RecvAll
  <2>2. received < asked
    <3>1. received < arrived /\ asked = arrived + Reads(wire) + Reads(pipe) + Reads(feeder["send"])
      BY <2>1 DEF IInv, FlowInv
    <3>2. /\ Reads(wire) \in Nat /\ Reads(pipe) \in Nat /\ Reads(feeder["send"]) \in Nat
      BY ReadsMove DEF IInv, TypeOK, RequestTypeOK
    <3> QED
      BY <1>1, <3>1, <3>2
  <2>3. Stream!Spoil \/ Hand' = Hand
    <3>1. CASE storePc = "write" /\ readnum = nseq
      <4>1. Hand # {} /\ Hand' # {}
        BY <2>1, <3>1 DEF Hand
      <4> QED
        BY <3>1, <4>1, LappedWhenMet DEF Stream!Spoil
    <3>2. CASE ~(storePc = "write" /\ readnum = nseq)
      BY <1>1, <2>1, <3>2 DEF Hand
    <3> QED
      BY <3>1, <3>2
  <2>4. Stream!Receive
    BY <2>1, <2>2, <2>3 DEF Stream!Receive
  <2> QED
    BY <2>4 DEF Stream!Next
<1>4. CASE StoreLoad
  <2>1. /\ storePc = "load" /\ UNCHANGED <<asked, received, stored, readnum, ring>>
        /\ storePc' = IF NothingNew THEN "loop" ELSE "write"
    BY <1>4 DEF StoreLoad
  <2>2. CASE NothingNew
    BY <2>1, <2>2 DEF Stream!vars, Hand
  <2>3. CASE ~NothingNew
    <3>1. Hand = {} /\ Hand' = {ring[readnum]}
      BY <2>1, <2>3 DEF Hand
    <3>2. stored < received
      <4>1. num_now = Slot(Published) /\ readnum = Slot(stored) /\ stored <= Published
        BY DEF IInv, IndexInv
      <4>2. stored # Published
        BY <2>3, <4>1 DEF NothingNew
      <4>3. Published \in Int /\ Published <= received
        BY <1>1 DEF Published
      <4> QED
        BY <1>1, <4>1, <4>2, <4>3
    <3>3. ring[readnum] = stored \/ Stream!Lapped
      <4> SUFFICES ASSUME ~Stream!Lapped PROVE ring[readnum] = stored
        OBVIOUS
      <4>1. received - stored < BufferNum
        BY <1>1 DEF Stream!Lapped
      <4>2. Kept(stored) /\ received # stored + BufferNum
        BY <1>1, <3>2, <4>1 DEF Kept
      <4> QED
        BY <1>1, <4>2 DEF IInv, IndexInv, ContentInv
    <3>4. Hand' = {stored} \/ (Stream!Lapped /\ Hand' # {})
      BY <3>1, <3>3
    <3>5. Stream!Take
      BY <2>1, <3>1, <3>2, <3>4 DEF Stream!Take
    <3> QED
      BY <3>5 DEF Stream!Next
  <2> QED
    BY <2>2, <2>3
<1>5. CASE StoreWrite
  <2>1. /\ storePc = "write" /\ storePc' = "loop" /\ stored' = stored + 1
        /\ UNCHANGED <<asked, received>>
    BY <1>5 DEF StoreWrite
  <2>2. Hand # {} /\ Hand' = {}
    BY <2>1 DEF Hand
  <2>3. Stream!Record
    BY <2>1, <2>2 DEF Stream!Record
  <2> QED
    BY <2>3 DEF Stream!Next
<1>6. CASE SendOpen \/ SendRequest
  <2>1. UNCHANGED <<received, stored, storePc, readnum, ring>>
    BY <1>6 DEF SendOpen, SendRequest
  <2>2. Hand' = Hand
    BY <2>1 DEF Hand
  <2>3. \E n \in 1 .. 2 : asked' = asked + n /\ asked' <= received + 2
    <3>1. CASE SendOpen
      <4>1. asked = 0 /\ asked' = asked + 2
        BY <3>1 DEF SendOpen, IInv, FlowInv
      <4> QED
        BY <1>1, <4>1
    <3>2. CASE SendRequest
      <4>1. sendPc = "request" /\ asked' = asked + 1
        BY <3>2 DEF SendRequest
      <4>2. Flagged = 1 /\ Arriving \in {0, 1} /\ asked + Arriving + Flagged <= received + 2
        BY <4>1 DEF IInv, WindowInv, Flagged, Arriving
      <4> QED
        BY <1>1, <4>1, <4>2
    <3> QED
      BY <1>6, <3>1, <3>2
  <2>4. Stream!Ask
    BY <2>1, <2>2, <2>3 DEF Stream!Ask
  <2> QED
    BY <2>4 DEF Stream!Next
<1>7. CASE UNCHANGED <<asked, received, stored, storePc, readnum, ring>>
  BY <1>7, Stutters
<1>8. CASE RecvTest \/ RecvTimeout \/ RecvPublish \/ RecvSignal \/ Dataprocess
  BY <1>7, <1>8 DEF RecvTest, RecvTimeout, RecvPublish, RecvSignal,
                    Dataprocess, ProcTest, ProcLoad, ProcParse
<1>9. CASE StoreTest
  <2>1. storePc = "loop" /\ storePc' # "write" /\ UNCHANGED <<asked, received, stored>>
    BY <1>9 DEF StoreTest
  <2> QED
    BY <2>1 DEF Stream!vars, Hand
<1>10. CASE SendTest \/ SendSign \/ SendClear \/ SendDrain \/ SendDrained
  BY <1>7, <1>10 DEF SendTest, SendSign, SendClear, SendDrain, SendDrained
<1>11. CASE CmdServer
  BY <1>7, <1>11 DEF CmdServer, ServerTest, AcceptTimeout, Accept, ServerInner,
                     ServerRecvPart, ServerRecv, ServerEof
<1>12. CASE ClientConnect \/ ClientSend \/ ClientLeave \/ Firmware
  BY <1>7, <1>12 DEF ClientConnect, ClientSend, ClientLeave, Firmware
<1>13. CASE \E p \in {"send", "server"} : Feed(p)
  BY <1>7, <1>13 DEF Feed
<1>14. CASE MainWakes \/ MainStop \/ MainJoin \/ UNCHANGED vars
  BY <1>7, <1>14 DEF MainWakes, MainStop, MainJoin
<1> QED
  BY <1>2, <1>3, <1>4, <1>5, <1>6, <1>8, <1>9, <1>10, <1>11, <1>12, <1>13, <1>14
     DEF Next, RecvWorker, Storage, SendWorker

(* The processes, with a ring of any size and whichever of them run, keep  *)
(* the promise of BufferStream: what they ask for, receive and record is   *)
(* one stream of buffers.                                                  *)
THEOREM Refinement == Spec => KeepsStream
<1>1. Init => Stream!Init
  BY DEF Init, First, Stream!Init, Hand
<1>2. IInv /\ [Next]_vars => [Stream!Next]_(Stream!vars)
  BY StreamStep
<1> QED
  BY <1>1, <1>2, Invariant, PTL DEF Spec, KeepsStream, Stream!Spec
=============================================================================
