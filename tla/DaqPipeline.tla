----------------------------- MODULE DaqPipeline -----------------------------
(* The acquisition processes of Software/util (daq_t.py, storage_t.py,     *)
(* datap_t.py) and the shutdown in top.py.  RecvWorker fills a ring of     *)
(* buffers, SendWorker asks the firmware for the next one, CmdServer takes *)
(* slow control commands from a client, Storage and Dataprocess read the   *)
(* ring.  They are processes without a common lock: a step is one access   *)
(* to something shared, and any process may run between two of them.       *)
EXTENDS Integers, Sequences

CONSTANTS
  BufferNum,    \* buffers of the ring (128)
  Back,         \* how far behind num_now Dataprocess reads (4)
  MaxBuffers,   \* bound: buffers the firmware delivers
  MaxCommands,  \* bound: commands the client sends
  Started,      \* the processes that have been started
  TimeOuts      \* whether the socket may be silent for its 5 seconds

ASSUME RingAssumption ==
  /\ BufferNum \in Nat /\ Back \in Nat
  /\ 0 < Back /\ Back < BufferNum
ASSUME BoundAssumption ==
  /\ MaxBuffers \in Nat /\ MaxCommands \in Nat /\ TimeOuts \in BOOLEAN
  /\ Started \subseteq {"store", "proc", "server", "send", "recv"}

Index == 0 .. (BufferNum - 1)
Blank == -1            \* a buffer nothing was received into
Torn  == -2            \* a buffer being received into
Items == {"pulse", "read", "slow"}

(* The processes in the order in which top.py stops and joins them.        *)
MainOrder == <<"store", "proc", "server", "send", "recv">>
Workers   == {"store", "proc", "server", "send", "recv"}

VARIABLES
  ring,       \* data: buffer -> number of the buffer received into it
  num_now,    \* index published by RecvWorker
  sign,       \* "a buffer has arrived", RecvWorker to SendWorker
  stop,       \* the five stop flags (TRUE: stop.value = 0)
  recvPc, nseq,
  received,   \* buffers received whole (history)
  storePc, readnum,
  stored,     \* buffers Storage has written (history)
  procPc, procNum, num_pre,
  seen,       \* buffers published when Dataprocess read num_now (history)
  sendPc,
  asked,      \* data requests SendWorker has put (history)
  feeder,     \* cmdfifo: what a process has put but not yet in the pipe
  pipe,       \* cmdfifo: the pipe SendWorker reads
  serverPc, partial,
  client,     \* the client's connection
  inbox,      \* commands sent by the client and not received
  sent,       \* commands sent by the client (bounded)
  wire,       \* commands on their way to the firmware
  streaming,  \* the firmware has seen the start pulse
  arrived,    \* buffers the firmware has delivered to the socket
  mainAt      \* the process top.py is stopping; 0: it sleeps

recvVars   == <<recvPc, nseq, received>>
storeVars  == <<storePc, readnum, stored>>
procVars   == <<procPc, procNum, num_pre, seen>>
sendVars   == <<sendPc, asked>>
queueVars  == <<feeder, pipe>>
serverVars == <<serverPc, partial>>
clientVars == <<client, inbox, sent>>
boardVars  == <<streaming, arrived>>

flagVars    == <<sign, stop>>
clientSide  == <<serverVars, clientVars>>
ringSide    == <<ring, num_now, recvVars, storeVars, procVars>>
requestSide == <<sendVars, queueVars, clientSide, wire, boardVars>>
vars == <<ringSide, flagVars, requestSide, mainAt>>

First(p, pc) == IF p \in Started THEN pc ELSE "done"

Init ==
  /\ ring = [i \in Index |-> Blank] /\ num_now = 0 /\ sign = 0
  /\ stop = [p \in Workers |-> FALSE]
  /\ recvPc = First("recv", "loop") /\ nseq = 0 /\ received = 0
  /\ storePc = First("store", "loop") /\ readnum = 0 /\ stored = 0
  /\ procPc = First("proc", "loop") /\ procNum = 0 /\ num_pre = 0 /\ seen = 0
  /\ sendPc = First("send", "open") /\ asked = 0
  /\ feeder = [p \in {"send", "server"} |-> <<>>] /\ pipe = <<>>
  /\ serverPc = First("server", "loop") /\ partial = FALSE
  /\ client = "away" /\ inbox = 0 /\ sent = 0
  /\ wire = <<>> /\ streaming = FALSE /\ arrived = 0
  /\ mainAt = 0

(* The index after i, as RecvWorker and Storage compute it.                *)
AdvanceLate(i) == IF i = BufferNum THEN 0 ELSE i + 1
Advance(i)     == IF i = BufferNum - 1 THEN 0 ELSE i + 1

(* The buffer Dataprocess reads when num is published.                     *)
BehindNone(num) == num
Behind(num)     == (num + (BufferNum - Back)) % BufferNum

Put(p, items) == feeder' = [feeder EXCEPT ![p] = @ \o items]
-----------------------------------------------------------------------------
(* RecvWorker.run                                                          *)

RecvTest ==
  /\ recvPc = "loop"
  /\ recvPc' = IF stop["recv"] THEN "done" ELSE "recv"
  /\ UNCHANGED <<ring, num_now, flagVars, nseq, received, storeVars, procVars,
                 requestSide, mainAt>>

RecvSome ==
  /\ recvPc = "recv" /\ received < arrived /\ ring[nseq] # Torn
  /\ ring' = [ring EXCEPT ![nseq] = Torn]
  /\ UNCHANGED <<num_now, flagVars, recvVars, storeVars, procVars, requestSide,
                 mainAt>>

RecvAll ==
  /\ recvPc = "recv" /\ ring[nseq] = Torn
  /\ ring' = [ring EXCEPT ![nseq] = received]
  /\ received' = received + 1 /\ nseq' = Advance(nseq)
  /\ recvPc' = "publish"
  /\ UNCHANGED <<num_now, flagVars, storeVars, procVars, requestSide, mainAt>>

(* socket.timeout: nothing, or not the whole buffer, has come.             *)
RecvTimeout ==
  /\ TimeOuts
  /\ recvPc = "recv" /\ (received = arrived \/ ring[nseq] = Torn)
  /\ stop' = [stop EXCEPT !["recv"] = TRUE] /\ recvPc' = "loop"
  /\ UNCHANGED <<ring, num_now, sign, nseq, received, storeVars, procVars,
                 requestSide, mainAt>>

RecvPublish ==
  /\ recvPc = "publish"
  /\ num_now' = nseq /\ recvPc' = "signal"
  /\ UNCHANGED <<ring, flagVars, nseq, received, storeVars, procVars,
                 requestSide, mainAt>>

RecvSignal ==
  /\ recvPc = "signal"
  /\ sign' = 1 /\ recvPc' = "loop"
  /\ UNCHANGED <<ring, num_now, stop, nseq, received, storeVars, procVars,
                 requestSide, mainAt>>

RecvWorker == RecvTest \/ RecvSome \/ RecvAll \/ RecvTimeout \/ RecvPublish
                \/ RecvSignal
-----------------------------------------------------------------------------
(* Storage.run                                                             *)

StoreTest ==
  /\ storePc = "loop"
  /\ storePc' = IF stop["store"] THEN "done" ELSE "load"
  /\ UNCHANGED <<ring, num_now, flagVars, recvVars, readnum, stored, procVars,
                 requestSide, mainAt>>

NothingNewNever == FALSE
NothingNew      == num_now = readnum

StoreLoad ==
  /\ storePc = "load"
  /\ storePc' = IF NothingNew THEN "loop" ELSE "write"
  /\ UNCHANGED <<ring, num_now, flagVars, recvVars, readnum, stored, procVars,
                 requestSide, mainAt>>

(* f_write.write has run for as long as Storage was at "write".            *)
StoreWrite ==
  /\ storePc = "write"
  /\ readnum' = Advance(readnum) /\ stored' = stored + 1
  /\ storePc' = "loop"
  /\ UNCHANGED <<ring, num_now, flagVars, recvVars, procVars, requestSide,
                 mainAt>>

Storage == StoreTest \/ StoreLoad \/ StoreWrite
-----------------------------------------------------------------------------
(* Dataprocess.run; data_calculate runs while it is at "parse".            *)

Published == IF recvPc = "publish" THEN received - 1 ELSE received

ProcTest ==
  /\ procPc = "loop"
  /\ procPc' = IF stop["proc"] THEN "done" ELSE "load"
  /\ UNCHANGED <<ring, num_now, flagVars, recvVars, storeVars, procNum,
                 num_pre, seen, requestSide, mainAt>>

ProcLoad ==
  /\ procPc = "load"
  /\ procNum' = num_now /\ seen' = Published
  /\ procPc' = IF num_now = num_pre THEN "loop" ELSE "parse"
  /\ UNCHANGED <<ring, num_now, flagVars, recvVars, storeVars, num_pre,
                 requestSide, mainAt>>

ProcParse ==
  /\ procPc = "parse"
  /\ num_pre' = procNum /\ procPc' = "loop"
  /\ UNCHANGED <<ring, num_now, flagVars, recvVars, storeVars, procNum, seen,
                 requestSide, mainAt>>

Dataprocess == ProcTest \/ ProcLoad \/ ProcParse
-----------------------------------------------------------------------------
(* SendWorker.run.  It alone takes from the pipe, so what fifo.empty()     *)
(* says still holds at fifo.get().                                         *)

OpeningReadFirst == <<"read", "pulse", "read">>
Opening          == <<"pulse", "read", "read">>

SendOpen ==
  /\ sendPc = "open"
  /\ Put("send", Opening) /\ asked' = asked + 2
  /\ sendPc' = "loop"
  /\ UNCHANGED <<ringSide, flagVars, pipe, clientSide, wire, boardVars,
                 mainAt>>

SendTest ==
  /\ sendPc = "loop"
  /\ sendPc' = IF stop["send"] THEN "done" ELSE "sign"
  /\ UNCHANGED <<ringSide, flagVars, asked, queueVars, clientSide, wire,
                 boardVars, mainAt>>

SendSign ==
  /\ sendPc = "sign"
  /\ sendPc' = IF sign = 1 THEN "request" ELSE "drain"
  /\ UNCHANGED <<ringSide, flagVars, asked, queueVars, clientSide, wire,
                 boardVars, mainAt>>

SendRequest ==
  /\ sendPc = "request"
  /\ Put("send", <<"read">>) /\ asked' = asked + 1
  /\ sendPc' = "clear"
  /\ UNCHANGED <<ringSide, flagVars, pipe, clientSide, wire, boardVars,
                 mainAt>>

ForgetSign == UNCHANGED sign
ClearSign  == sign' = 0

SendClear ==
  /\ sendPc = "clear"
  /\ ClearSign /\ sendPc' = "drain"
  /\ UNCHANGED <<ringSide, stop, asked, queueVars, clientSide, wire, boardVars,
                 mainAt>>

SendDrain ==
  /\ sendPc = "drain" /\ pipe # <<>>
  /\ pipe' = Tail(pipe) /\ wire' = Append(wire, Head(pipe))
  /\ UNCHANGED <<ringSide, flagVars, sendVars, feeder, clientSide, boardVars,
                 mainAt>>

ClearSignAfterDrain == sign' = 0
KeepSign            == UNCHANGED sign

SendDrained ==
  /\ sendPc = "drain" /\ pipe = <<>>
  /\ KeepSign /\ sendPc' = "loop"
  /\ UNCHANGED <<ringSide, stop, asked, queueVars, clientSide, wire, boardVars,
                 mainAt>>

SendWorker == SendOpen \/ SendTest \/ SendSign \/ SendRequest \/ SendClear
                \/ SendDrain \/ SendDrained

(* The feeder thread of a process moves what it has put into the pipe.     *)
Feed(p) ==
  /\ feeder[p] # <<>>
  /\ pipe' = Append(pipe, Head(feeder[p]))
  /\ feeder' = [feeder EXCEPT ![p] = Tail(@)]
  /\ UNCHANGED <<ringSide, flagVars, sendVars, clientSide, wire, boardVars,
                 mainAt>>
-----------------------------------------------------------------------------
(* CmdServer.run.  accept() gives up after 0.2 seconds; the accepted       *)
(* socket has no timeout, so recv() waits for as long as the client does.  *)

ServerTest ==
  /\ serverPc = "loop"
  /\ serverPc' = IF stop["server"] THEN "done" ELSE "accept"
  /\ UNCHANGED <<ringSide, flagVars, sendVars, queueVars, partial, clientVars,
                 wire, boardVars, mainAt>>

AcceptGivesUpNever == FALSE
AcceptGivesUp      == client # "waiting"

AcceptTimeout ==
  /\ serverPc = "accept" /\ AcceptGivesUp
  /\ serverPc' = "loop"
  /\ UNCHANGED <<ringSide, flagVars, sendVars, queueVars, partial, clientVars,
                 wire, boardVars, mainAt>>

Accept ==
  /\ serverPc = "accept" /\ client = "waiting"
  /\ client' = "talking" /\ serverPc' = "inner"
  /\ UNCHANGED <<ringSide, flagVars, sendVars, queueVars, partial, inbox, sent,
                 wire, boardVars, mainAt>>

(* Leaving the inner loop closes the connection, whoever still uses it.    *)
ServerInner ==
  /\ serverPc = "inner" /\ partial' = FALSE
  /\ IF stop["server"]
       THEN serverPc' = "loop" /\ client' = "away" /\ inbox' = 0
       ELSE serverPc' = "recv" /\ UNCHANGED <<client, inbox>>
  /\ UNCHANGED <<ringSide, flagVars, sendVars, queueVars, sent, wire,
                 boardVars, mainAt>>

(* Less than a whole number of words has come (num % 4 # 0).               *)
ServerRecvPart ==
  /\ serverPc = "recv" /\ inbox > 0 /\ ~partial
  /\ partial' = TRUE
  /\ UNCHANGED <<ringSide, flagVars, sendVars, queueVars, serverPc, clientVars,
                 wire, boardVars, mainAt>>

ServerRecv ==
  /\ serverPc = "recv" /\ inbox > 0
  /\ Put("server", <<"slow">>) /\ inbox' = inbox - 1
  /\ serverPc' = "inner"
  /\ UNCHANGED <<ringSide, flagVars, sendVars, pipe, partial, client, sent,
                 wire, boardVars, mainAt>>

(* The connection ends, perhaps in the middle of a word, which is dropped.  *)
ServerEof ==
  /\ serverPc = "recv" /\ client = "left"
  /\ inbox = 0 \/ (inbox = 1 /\ partial)
  /\ client' = "away" /\ inbox' = 0 /\ serverPc' = "loop"
  /\ UNCHANGED <<ringSide, flagVars, sendVars, queueVars, partial, sent, wire,
                 boardVars, mainAt>>

CmdServer == ServerTest \/ AcceptTimeout \/ Accept \/ ServerInner
               \/ ServerRecvPart \/ ServerRecv \/ ServerEof
-----------------------------------------------------------------------------
(* The slow control client, one connection at a time.                      *)

ClientConnect ==
  /\ client = "away" /\ serverPc # "done" /\ sent < MaxCommands
  /\ client' = "waiting"
  /\ UNCHANGED <<ringSide, flagVars, sendVars, queueVars, serverVars, inbox,
                 sent, wire, boardVars, mainAt>>

ClientSend ==
  /\ client = "talking" /\ sent < MaxCommands
  /\ sent' = sent + 1 /\ inbox' = inbox + 1
  /\ UNCHANGED <<ringSide, flagVars, sendVars, queueVars, serverVars, client,
                 wire, boardVars, mainAt>>

ClientLeave ==
  /\ client = "talking"
  /\ client' = "left"
  /\ UNCHANGED <<ringSide, flagVars, sendVars, queueVars, serverVars, inbox,
                 sent, wire, boardVars, mainAt>>

(* The firmware executes commands in order; a data request waits for the   *)
(* chip to have been started and for the sensor to fill a buffer.          *)

Take == Head(wire)

Firmware ==
  /\ wire # <<>> /\ wire' = Tail(wire)
  /\ \/ /\ Take = "pulse"
        /\ streaming' = TRUE /\ UNCHANGED arrived
     \/ /\ Take = "read" /\ streaming /\ arrived < MaxBuffers
        /\ arrived' = arrived + 1 /\ UNCHANGED streaming
     \/ /\ Take = "slow"
        /\ UNCHANGED boardVars
  /\ UNCHANGED <<ringSide, flagVars, sendVars, queueVars, clientSide, mainAt>>
-----------------------------------------------------------------------------
(* top.py: after six hours, stop and join each process in turn.            *)

Finished(p) == CASE p = "store"  -> storePc  = "done"
                 [] p = "proc"   -> procPc   = "done"
                 [] p = "server" -> serverPc = "done"
                 [] p = "send"   -> sendPc   = "done"
                 [] p = "recv"   -> recvPc   = "done"

MainWakes ==
  /\ mainAt = 0 /\ mainAt' = 1
  /\ UNCHANGED <<ringSide, flagVars, requestSide>>

MainStop ==
  /\ mainAt \in DOMAIN MainOrder
  /\ LET p == MainOrder[mainAt]
     IN  ~Finished(p) /\ ~stop[p] /\ stop' = [stop EXCEPT ![p] = TRUE]
  /\ UNCHANGED <<ringSide, sign, requestSide, mainAt>>

MainJoin ==
  /\ mainAt \in DOMAIN MainOrder /\ Finished(MainOrder[mainAt])
  /\ mainAt' = mainAt + 1
  /\ UNCHANGED <<ringSide, flagVars, requestSide>>

Next ==
  \/ RecvWorker \/ Storage \/ Dataprocess \/ SendWorker \/ CmdServer
  \/ \E p \in {"send", "server"} : Feed(p)
  \/ ClientConnect \/ ClientSend \/ ClientLeave
  \/ Firmware
  \/ MainWakes \/ MainStop \/ MainJoin

Spec == Init /\ [][Next]_vars

(* Every process is scheduled, the sensor streams, and no client stays     *)
(* connected for ever.  top.py may sleep for as long as it likes.          *)
Fairness ==
  /\ WF_vars(RecvWorker) /\ WF_vars(Storage) /\ WF_vars(Dataprocess)
  /\ WF_vars(SendWorker) /\ WF_vars(CmdServer)
  /\ \A p \in {"send", "server"} : WF_vars(Feed(p))
  /\ WF_vars(Firmware) /\ WF_vars(ClientLeave)
  /\ WF_vars(MainStop) /\ WF_vars(MainJoin)

FairSpec == Spec /\ Fairness
-----------------------------------------------------------------------------
(* Types, by the groups of variables above.                                *)
RingTypeOK ==
  /\ ring \in [Index -> Nat \cup {Blank, Torn}] /\ num_now \in Index
  /\ recvPc \in {"loop", "recv", "publish", "signal", "done"}
  /\ nseq \in Index /\ received \in Nat
  /\ storePc \in {"loop", "load", "write", "done"}
  /\ readnum \in Index /\ stored \in Nat
  /\ procPc \in {"loop", "load", "parse", "done"}
  /\ procNum \in Index /\ num_pre \in Index /\ seen \in Nat
RequestTypeOK ==
  /\ sendPc \in {"open", "loop", "sign", "request", "clear", "drain", "done"}
  /\ asked \in Nat
  /\ feeder \in [{"send", "server"} -> Seq(Items)] /\ pipe \in Seq(Items)
  /\ serverPc \in {"loop", "accept", "inner", "recv", "done"}
  /\ partial \in BOOLEAN
  /\ client \in {"away", "waiting", "talking", "left"}
  /\ inbox \in Nat /\ sent \in Nat
  /\ wire \in Seq(Items) /\ streaming \in BOOLEAN /\ arrived \in Nat
FlagTypeOK ==
  /\ sign \in {0, 1} /\ stop \in [Workers -> BOOLEAN]
  /\ mainAt \in 0 .. (Len(MainOrder) + 1)

(* Every shared value and local variable keeps to its type; in particular  *)
(* no index ever leaves the ring.                                          *)
TypeOK == RingTypeOK /\ FlagTypeOK /\ RequestTypeOK

(* While Storage writes a buffer, that buffer is the next one of the       *)
(* stream, whole and untouched, as long as RecvWorker is less than a ring  *)
(* ahead: each buffer is stored once and in order although the two share   *)
(* only an index, and the file is written without a lock.                  *)
StoresNextBuffer ==
  storePc = "write" /\ received - stored < BufferNum => ring[readnum] = stored

(* The buffer Dataprocess parses is the one received Back before the       *)
(* newest, whole, or one nothing was received into yet, as long as         *)
(* RecvWorker stays less than the rest of the ring ahead of it.            *)
ParsesWholeBuffer ==
  procPc = "parse" /\ received - seen < BufferNum - Back =>
    ring[Behind(procNum)] = IF seen < Back THEN Blank ELSE seen - Back

(* The promise: a buffer is in the recorder's hand while Storage writes.    *)
Hand   == IF storePc = "write" THEN {ring[readnum]} ELSE {}
Stream == INSTANCE BufferStream WITH Window <- 2, Ring <- BufferNum, hand <- Hand

(* Requests, receptions and records come as BufferStream says: no step     *)
(* asks for a third buffer, receives one nobody asked for, or records one  *)
(* twice, out of order or half overwritten, unless Storage is lapped.      *)
KeepsStream == Stream!Spec

(* As long as SendWorker runs, a buffer is asked for or is about to be: a  *)
(* buffer that arrives while the flag is still set costs one of the two    *)
(* requests but never the last, or the stream would end.                   *)
RequestUnderWay ==
  asked = received =>
    \/ sendPc \in {"open", "request", "done"}
    \/ recvPc \in {"publish", "signal"}
    \/ sign = 1

(* Unless it is stopped, the pipeline receives every buffer the bound      *)
(* allows, or gives up on one that still comes: requests, flag and queue   *)
(* never wait for each other, and no silence is of their making.           *)
DataFlows ==
  <>(received = MaxBuffers \/ mainAt > 0 \/ (stop["recv"] /\ received < arrived))

(* Once top.py starts to stop the processes it gets to the end, in the     *)
(* order it joins them, whatever each is waiting for.                      *)
ShutdownCompletes == mainAt > 0 ~> mainAt > Len(MainOrder)
=============================================================================
