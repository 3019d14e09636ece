----------------------------- MODULE LegacyReadout -----------------------------
(* The readout before daq_t.py: client.py with two threads, and mainpy.py  *)
(* with the processes of ethernet_t.py and dataprocess_t.py and a queue    *)
(* between them.  The sender clears the flag before it asks, the receiver  *)
(* has one buffer for everything, and the queue takes a buffer by name:    *)
(* its feeder thread copies what the buffer holds when it comes to it.     *)
EXTENDS Integers, Sequences

CONSTANTS
  Programs     \* client.py or mainpy.py, in these respects:
               \*   opening: what SendWorker sends first
               \*   order: the workers, in the order the main program joins them
               \*   queued: whether RecvWorker puts its buffer into the queue
               \*   shared: whether terminate() reaches a worker: a thread, no process
               \*   streaming: whether the chip streams when it starts
               \*   silent: whether the socket may be silent for its 3 seconds
               \*   mapped: whether its buffers complete maps (bound)
               \*   buffers: how many the firmware delivers (bound)

ASSUME ProgramAssumption ==
  Programs \subseteq [opening : Seq({"pulse", "read"}),
                        order : Seq({"proc", "send", "recv", "disp"}),
                        queued : BOOLEAN, shared : BOOLEAN, streaming : BOOLEAN,
                        silent : BOOLEAN, mapped : BOOLEAN, buffers : Nat]

VARIABLES
  program,    \* the program that runs
  sign,       \* "a buffer has arrived"
  running,    \* _running as each worker sees it
  told,       \* the workers whose terminate() the main program has called
  buf,        \* what the receive buffer holds
  recvPc,
  received,   \* buffers received whole (history)
  sendPc, opened,
  wire, streaming, arrived,
  puts,       \* q_the_pro: puts the feeder has not come to
  copy,       \* q_the_pro: what the feeder is writing; <<>>: nothing
  pipe,       \* q_the_pro: whole items
  procPc,
  got,        \* buffers the data processing has taken (history)
  lock,       \* who holds the lock; "free"
  handed,     \* q_pro_dis: puts the feeder has not written whole
  maps,       \* q_pro_dis: whole maps
  dispPc,
  mainAt      \* the worker the main program is joining; 0: it sleeps

recvVars  == <<buf, recvPc, received>>
sendVars  == <<sendPc, opened>>
boardVars == <<wire, streaming, arrived>>
queueVars == <<puts, copy, pipe>>
procVars  == <<procPc, got, lock>>
mapVars   == <<handed, maps>>
flagVars  == <<program, running, told>>
vars == <<sign, flagVars, recvVars, sendVars, boardVars, queueVars, procVars,
          mapVars, dispPc, mainAt>>

Opening    == program.opening
MainOrder  == program.order
MaxBuffers == program.buffers
Workers    == {MainOrder[i] : i \in DOMAIN MainOrder}

Blank == 0    \* nothing was received yet
Torn  == -1   \* being received into
Whole == 1 .. MaxBuffers
First(w, pc) == IF w \in Workers THEN pc ELSE "done"

Init ==
  /\ program \in Programs
  /\ sign = 1 /\ running = [w \in Workers |-> TRUE] /\ told = {}
  /\ buf = Blank /\ recvPc = First("recv", "loop") /\ received = 0
  /\ sendPc = First("send", "open") /\ opened = 1
  /\ wire = <<>> /\ streaming = program.streaming /\ arrived = 0
  /\ puts = 0 /\ copy = <<>> /\ pipe = <<>>
  /\ procPc = First("proc", "loop") /\ got = <<>> /\ lock = "free"
  /\ handed = 0 /\ maps = 0
  /\ dispPc = First("disp", "loop") /\ mainAt = 0
-----------------------------------------------------------------------------
(* RecvWorker.run                                                          *)

RecvTest ==
  /\ recvPc = "loop"
  /\ recvPc' = IF running["recv"] THEN "recv" ELSE "done"
  /\ UNCHANGED <<sign, flagVars, buf, received, sendVars, boardVars, queueVars,
                 procVars, mapVars, dispPc, mainAt>>

RecvSome ==
  /\ recvPc = "recv" /\ received < arrived /\ buf # Torn
  /\ buf' = Torn
  /\ UNCHANGED <<sign, flagVars, recvPc, received, sendVars, boardVars,
                 queueVars, procVars, mapVars, dispPc, mainAt>>

RecvAll ==
  /\ recvPc = "recv" /\ buf = Torn
  /\ received' = received + 1 /\ buf' = received'
  /\ recvPc' = IF program.queued THEN "put" ELSE "signal"
  /\ UNCHANGED <<sign, flagVars, sendVars, boardVars, queueVars, procVars,
                 mapVars, dispPc, mainAt>>

(* fifo.put: the buffer is handed over, not its contents.                  *)
RecvPut ==
  /\ recvPc = "put" /\ lock = "free"
  /\ puts' = puts + 1 /\ recvPc' = "signal"
  /\ UNCHANGED <<sign, flagVars, buf, received, sendVars, boardVars, copy, pipe,
                 procVars, mapVars, dispPc, mainAt>>

RaiseSign == sign' = 1

RecvSignal ==
  /\ recvPc = "signal" /\ lock = "free"
  /\ RaiseSign /\ recvPc' = "loop"
  /\ UNCHANGED <<flagVars, buf, received, sendVars, boardVars, queueVars,
                 procVars, mapVars, dispPc, mainAt>>

(* socket.timeout: the worker terminates itself.                           *)
SilentNever == FALSE
Silent      == program.silent /\ (received = arrived \/ buf = Torn)

RecvTimeout ==
  /\ recvPc = "recv" /\ Silent
  /\ running' = [running EXCEPT !["recv"] = FALSE] /\ recvPc' = "loop"
  /\ UNCHANGED <<sign, program, told, buf, received, sendVars, boardVars, queueVars,
                 procVars, mapVars, dispPc, mainAt>>

RecvWorker == RecvTest \/ RecvSome \/ RecvAll \/ RecvPut \/ RecvSignal
                \/ RecvTimeout
-----------------------------------------------------------------------------
(* SendWorker.run.  Nobody else sends, so a request that goes out in parts *)
(* goes out whole.                                                         *)

SentIfIdle(c) == wire' = IF wire = <<>> THEN <<c>> ELSE wire
Sent(c)       == wire' = Append(wire, c)

SendOpen ==
  /\ sendPc = "open" /\ opened \in DOMAIN Opening
  /\ Sent(Opening[opened]) /\ opened' = opened + 1
  /\ sendPc' = IF opened' \in DOMAIN Opening THEN "open" ELSE "loop"
  /\ UNCHANGED <<sign, flagVars, recvVars, streaming, arrived, queueVars,
                 procVars, mapVars, dispPc, mainAt>>

SendTest ==
  /\ sendPc = "loop"
  /\ sendPc' = IF running["send"] THEN "sign" ELSE "done"
  /\ UNCHANGED <<sign, flagVars, recvVars, opened, boardVars, queueVars,
                 procVars, mapVars, dispPc, mainAt>>

SendSign ==
  /\ sendPc = "sign"
  /\ sendPc' = IF sign = 1 THEN "clear" ELSE "loop"
  /\ UNCHANGED <<sign, flagVars, recvVars, opened, boardVars, queueVars,
                 procVars, mapVars, dispPc, mainAt>>

ClearSign == sign' = 0

SendClear ==
  /\ sendPc = "clear" /\ lock = "free"
  /\ ClearSign /\ sendPc' = "request"
  /\ UNCHANGED <<flagVars, recvVars, opened, boardVars, queueVars,
                 procVars, mapVars, dispPc, mainAt>>

SendRequest ==
  /\ sendPc = "request"
  /\ Sent("read") /\ sendPc' = "loop"
  /\ UNCHANGED <<sign, flagVars, recvVars, opened, streaming, arrived, queueVars,
                 procVars, mapVars, dispPc, mainAt>>

SendWorker == SendOpen \/ SendTest \/ SendSign \/ SendClear \/ SendRequest

(* The firmware executes commands in order; a data request waits for the   *)
(* chip to stream.                                                         *)
Firmware ==
  /\ wire # <<>> /\ wire' = Tail(wire)
  /\ \/ Head(wire) = "pulse" /\ streaming' = TRUE /\ UNCHANGED arrived
     \/ /\ Head(wire) = "read" /\ streaming /\ arrived < MaxBuffers
        /\ arrived' = arrived + 1 /\ UNCHANGED streaming
  /\ UNCHANGED <<sign, flagVars, recvVars, sendVars, queueVars, procVars, mapVars, dispPc,
                 mainAt>>
-----------------------------------------------------------------------------
(* The queue: the feeder thread of the receiving process copies a buffer,  *)
(* then writes the copy to the pipe.                                       *)

FeedCopy ==
  /\ puts > 0 /\ copy = <<>>
  /\ puts' = puts - 1 /\ copy' = <<buf>>
  /\ UNCHANGED <<sign, flagVars, recvVars, sendVars, boardVars, pipe, procVars,
                 mapVars, dispPc, mainAt>>

FeedFront == copy \o pipe
FeedBack  == pipe \o copy

FeedWrite ==
  /\ copy # <<>>
  /\ pipe' = FeedBack /\ copy' = <<>>
  /\ UNCHANGED <<sign, flagVars, recvVars, sendVars, boardVars, puts, procVars,
                 mapVars, dispPc, mainAt>>

Feeder == FeedCopy \/ FeedWrite
-----------------------------------------------------------------------------
(* Dataprocess.run.  fifo.empty() is false as soon as an item is begun;    *)
(* fifo.get() waits for the rest of it with the lock held.                 *)

ProcTest ==
  /\ procPc = "loop"
  /\ procPc' = IF running["proc"] THEN "check" ELSE "done"
  /\ UNCHANGED <<sign, flagVars, recvVars, sendVars, boardVars, queueVars, got,
                 lock, mapVars, dispPc, mainAt>>

CheckNothing == TRUE
CheckItem    == pipe # <<>> \/ copy # <<>>

ProcCheck ==
  /\ procPc = "check" /\ lock = "free"
  /\ procPc' = IF CheckItem THEN "lock" ELSE "loop"
  /\ UNCHANGED <<sign, flagVars, recvVars, sendVars, boardVars, queueVars, got,
                 lock, mapVars, dispPc, mainAt>>

ProcLock ==
  /\ procPc = "lock" /\ lock = "free"
  /\ lock' = "proc" /\ procPc' = "get"
  /\ UNCHANGED <<sign, flagVars, recvVars, sendVars, boardVars, queueVars, got,
                 mapVars, dispPc, mainAt>>

(* A buffer may complete a map.                                            *)
ProcGet ==
  /\ procPc = "get" /\ pipe # <<>>
  /\ got' = Append(got, Head(pipe)) /\ pipe' = Tail(pipe)
  /\ lock' = "free" /\ procPc' \in IF program.mapped THEN {"loop", "hand"} ELSE {"loop"}
  /\ UNCHANGED <<sign, flagVars, recvVars, sendVars, boardVars, puts, copy,
                 mapVars, dispPc, mainAt>>

(* fifomaps.put                                                            *)
ProcHand ==
  /\ procPc = "hand" /\ lock = "free"
  /\ handed' = handed + 1 /\ procPc' = "loop"
  /\ UNCHANGED <<sign, flagVars, recvVars, sendVars, boardVars, queueVars, got,
                 lock, maps, dispPc, mainAt>>

Dataprocess == ProcTest \/ ProcCheck \/ ProcLock \/ ProcGet \/ ProcHand

MapFeeder ==
  /\ handed > 0 /\ handed' = handed - 1 /\ maps' = maps + 1
  /\ UNCHANGED <<sign, flagVars, recvVars, sendVars, boardVars, queueVars,
                 procVars, dispPc, mainAt>>
-----------------------------------------------------------------------------
(* Disper.run: show() returns when the user closes the window.  Meanwhile  *)
(* it calls update, which looks for a map, then takes it, each time with   *)
(* the lock, and waits for the rest of the map with the lock held.  A map  *)
(* that is not whole may be begun, and is found then.                      *)

DispShow ==
  /\ \/ dispPc = "loop" /\ dispPc' = IF running["disp"] THEN "show" ELSE "done"
     \/ dispPc = "show" /\ dispPc' = "loop"
  /\ UNCHANGED <<sign, flagVars, recvVars, sendVars, boardVars, queueVars,
                 procVars, mapVars, mainAt>>

DispCheck ==
  /\ dispPc = "show" /\ lock = "free" /\ (handed > 0 \/ maps > 0)
  /\ dispPc' = "lock"
  /\ UNCHANGED <<sign, flagVars, recvVars, sendVars, boardVars, queueVars,
                 procVars, mapVars, mainAt>>

DispLock ==
  /\ dispPc = "lock" /\ lock = "free"
  /\ lock' = "disp" /\ dispPc' = "get"
  /\ UNCHANGED <<sign, flagVars, recvVars, sendVars, boardVars, queueVars,
                 procPc, got, mapVars, mainAt>>

DispGet ==
  /\ dispPc = "get" /\ maps > 0
  /\ maps' = maps - 1 /\ lock' = "free" /\ dispPc' = "show"
  /\ UNCHANGED <<sign, flagVars, recvVars, sendVars, boardVars, queueVars,
                 procPc, got, handed, mainAt>>

Disper == DispShow \/ DispCheck \/ DispLock \/ DispGet

(* The main program: is_alive, terminate, join, for each worker in turn.   *)
Finished(w) == CASE w = "proc" -> procPc = "done" [] w = "send" -> sendPc = "done"
                 [] w = "recv" -> recvPc = "done" [] w = "disp" -> dispPc = "done"

MainWakes ==
  /\ mainAt = 0 /\ mainAt' = 1
  /\ UNCHANGED <<sign, flagVars, recvVars, sendVars, boardVars, queueVars,
                 procVars, mapVars, dispPc>>

MainTerminate ==
  /\ mainAt \in DOMAIN MainOrder
  /\ LET w == MainOrder[mainAt]
     IN  /\ ~Finished(w) /\ w \notin told /\ told' = told \cup {w}
         /\ running' = IF program.shared THEN [running EXCEPT ![w] = FALSE] ELSE running
  /\ UNCHANGED <<sign, program, recvVars, sendVars, boardVars, queueVars, procVars,
                 mapVars, dispPc, mainAt>>

MainJoin ==
  /\ mainAt \in DOMAIN MainOrder /\ Finished(MainOrder[mainAt])
  /\ mainAt' = mainAt + 1
  /\ UNCHANGED <<sign, flagVars, recvVars, sendVars, boardVars, queueVars,
                 procVars, mapVars, dispPc>>

Next == RecvWorker \/ SendWorker \/ Firmware \/ Feeder \/ Dataprocess
          \/ MapFeeder \/ Disper
          \/ MainWakes \/ MainTerminate \/ MainJoin

Spec == Init /\ [][Next]_vars

(* Every worker is scheduled, the sensor streams and windows get closed.   *)
FairSpec ==
  /\ Spec
  /\ WF_vars(RecvWorker) /\ WF_vars(SendWorker) /\ WF_vars(Firmware)
  /\ WF_vars(Feeder) /\ WF_vars(Dataprocess) /\ WF_vars(MapFeeder) /\ WF_vars(Disper)
  /\ WF_vars(MainTerminate) /\ WF_vars(MainJoin)
-----------------------------------------------------------------------------
(* The queue may hand out a buffer twice or torn, but what it hands out    *)
(* whole never goes back in the stream.                                    *)
NeverBackwards ==
  \A i, j \in DOMAIN got : i < j /\ got[i] # Torn /\ got[j] # Torn => got[i] <= got[j]

(* The lock the data processing or the display takes to wait for an item   *)
(* is given back: the receiver, which needs it to put one, is never shut   *)
(* out for good.                                                           *)
LockGivenBack == lock # "free" ~> lock = "free"

(* All the buffers the bound allows are received, or given up although     *)
(* they still come, unless the workers are being stopped.                  *)
DataFlows ==
  <>(received = MaxBuffers \/ mainAt > 0 \/ (~running["recv"] /\ received < arrived))

(* Once the main program starts to end its workers it comes to the end, if *)
(* they are threads: terminate() does not reach a process.                 *)
ShutdownCompletes == (mainAt > 0 /\ program.shared) ~> mainAt > Len(MainOrder)
=============================================================================
