-------------------------- MODULE LegacyReadoutProofs --------------------------
(* What the queue of the old readout does to the order of the buffers: an  *)
(* item is copied from the one receive buffer at any later time, torn or   *)
(* with newer contents, and still nothing overtakes.                       *)
EXTENDS LegacyReadout, SequenceTheorems, TLAPS

Contents == Nat \cup {Torn}

(* What lies in s was received before what lies in t.                      *)
Ordered(s) ==
  \A i, j \in 1 .. Len(s) : i < j /\ s[i] # Torn /\ s[j] # Torn => s[i] <= s[j]
Before(s, t) ==
  \A i \in 1 .. Len(s), j \in 1 .. Len(t) : s[i] # Torn /\ t[j] # Torn => s[i] <= t[j]
Received(s) == \A i \in 1 .. Len(s) : s[i] # Torn => s[i] <= received

PlacesTyped ==
  /\ received \in Nat /\ buf \in Contents
  /\ got \in Seq(Contents) /\ pipe \in Seq(Contents) /\ copy \in Seq(Contents)

(* The receive buffer holds the newest buffer, if it holds one.            *)
BufferNewest == buf \in {Torn, received}

StagesOrdered ==
  /\ Ordered(got) /\ Ordered(pipe) /\ Ordered(copy)
  /\ Before(got, pipe) /\ Before(got, copy) /\ Before(pipe, copy)

NothingEarly == Received(got) /\ Received(pipe) /\ Received(copy)

IInv == PlacesTyped /\ BufferNewest /\ StagesOrdered /\ NothingEarly
-----------------------------------------------------------------------------
(* Items that leave one stage and enter the next stay in order.            *)

LEMMA EmptyOrdered == Ordered(<<>>) /\ Received(<<>>)
                      /\ \A s : Before(s, <<>>) /\ Before(<<>>, s)
  BY DEF Ordered, Received, Before

LEMMA ConcatStages ==
  ASSUME NEW s \in Seq(Contents), NEW t \in Seq(Contents), NEW r \in Seq(Contents),
         Ordered(s), Ordered(t), Before(s, t), Received(s), Received(t),
         Before(r, s), Before(r, t), received \in Nat
  PROVE  /\ s \o t \in Seq(Contents) /\ Ordered(s \o t) /\ Received(s \o t)
         /\ Before(r, s \o t)
<1> DEFINE u == s \o t
<1>1. /\ u \in Seq(Contents) /\ Len(u) = Len(s) + Len(t)
      /\ Len(s) \in Nat /\ Len(t) \in Nat
      /\ \A i \in 1 .. Len(u) : u[i] = IF i <= Len(s) THEN s[i] ELSE t[i - Len(s)]
  BY ConcatProperties, LenProperties
<1> HIDE DEF u
<1>2. \A i \in 1 .. Len(u) :
        \/ i \in 1 .. Len(s) /\ u[i] = s[i]
        \/ i - Len(s) \in 1 .. Len(t) /\ u[i] = t[i - Len(s)]
  BY <1>1
<1>3. Ordered(u)
  <2> SUFFICES ASSUME NEW i \in 1 .. Len(u), NEW j \in 1 .. Len(u), i < j,
                      u[i] # Torn, u[j] # Torn
               PROVE  u[i] <= u[j]
    BY DEF Ordered
  <2>1. CASE j <= Len(s)
    BY <1>1, <2>1 DEF Ordered
  <2>2. CASE i <= Len(s) /\ j > Len(s)
    <3>1. /\ i \in 1 .. Len(s) /\ u[i] = s[i]
          /\ j - Len(s) \in 1 .. Len(t) /\ u[j] = t[j - Len(s)]
      BY <1>1, <2>2
    <3> QED
      BY <3>1 DEF Before
  <2>3. CASE i > Len(s)
    <3>1. /\ i - Len(s) \in 1 .. Len(t) /\ u[i] = t[i - Len(s)]
          /\ j - Len(s) \in 1 .. Len(t) /\ u[j] = t[j - Len(s)]
          /\ i - Len(s) < j - Len(s)
      BY <1>1, <2>3
    <3> QED
      BY <3>1 DEF Ordered
  <2> QED
    BY <1>1, <2>1, <2>2, <2>3
<1>4. Received(u)
  BY <1>1, <1>2 DEF Received
<1>5. Before(r, u)
  BY <1>1, <1>2 DEF Before
<1> QED
  BY <1>1, <1>3, <1>4, <1>5 DEF u

LEMMA TakeHead ==
  ASSUME NEW s \in Seq(Contents), NEW t \in Seq(Contents), NEW r \in Seq(Contents),
         t # <<>>, Ordered(s), Ordered(t), Before(s, t), Received(s), Received(t),
         Before(s, r), Before(t, r)
  PROVE  LET a == Append(s, Head(t))
         IN  /\ a \in Seq(Contents) /\ Tail(t) \in Seq(Contents)
             /\ Ordered(a) /\ Ordered(Tail(t)) /\ Before(a, Tail(t))
             /\ Received(a) /\ Received(Tail(t)) /\ Before(a, r) /\ Before(Tail(t), r)
<1> DEFINE a == Append(s, Head(t))
           b == Tail(t)
<1>1. /\ Len(t) \in Nat /\ Len(t) > 0 /\ b \in Seq(Contents) /\ Len(b) = Len(t) - 1
      /\ Head(t) = t[1] /\ Head(t) \in Contents
      /\ \A i \in 1 .. Len(b) : b[i] = t[i + 1] /\ i + 1 \in 1 .. Len(t)
  BY HeadTailProperties, LenProperties
<1>2. /\ a \in Seq(Contents) /\ Len(s) \in Nat /\ Len(a) = Len(s) + 1
      /\ a[Len(a)] = t[1] /\ \A i \in 1 .. Len(s) : a[i] = s[i]
  BY <1>1, AppendProperties, LenProperties
<1> HIDE DEF a, b
<1>3. \A i \in 1 .. Len(a) :
        \/ i \in 1 .. Len(s) /\ a[i] = s[i]
        \/ i = Len(a) /\ a[i] = t[1]
  BY <1>2
<1>4. Ordered(a)
  <2> SUFFICES ASSUME NEW i \in 1 .. Len(a), NEW j \in 1 .. Len(a), i < j,
                      a[i] # Torn, a[j] # Torn
               PROVE  a[i] <= a[j]
    BY DEF Ordered
  <2>1. i \in 1 .. Len(s) /\ a[i] = s[i]
    BY <1>2, <1>3
  <2>2. CASE j \in 1 .. Len(s) /\ a[j] = s[j]
    BY <2>1, <2>2 DEF Ordered
  <2>3. CASE a[j] = t[1]
    BY <1>1, <2>1, <2>3 DEF Before
  <2> QED
    BY <1>3, <2>2, <2>3
<1>5. Ordered(b) /\ Received(b) /\ Before(b, r)
  <2>1. Ordered(b)
    BY <1>1 DEF Ordered
  <2>2. Received(b) /\ Before(b, r)
    BY <1>1 DEF Received, Before
  <2> QED
    BY <2>1, <2>2
<1>6. Before(a, b)
  <2> SUFFICES ASSUME NEW i \in 1 .. Len(a), NEW j \in 1 .. Len(b),
                      a[i] # Torn, b[j] # Torn
               PROVE  a[i] <= b[j]
    BY DEF Before
  <2>1. b[j] = t[j + 1] /\ j + 1 \in 1 .. Len(t) /\ 1 \in 1 .. Len(t) /\ 1 < j + 1
    BY <1>1
  <2>2. CASE i \in 1 .. Len(s) /\ a[i] = s[i]
    BY <2>1, <2>2 DEF Before
  <2>3. CASE a[i] = t[1]
    BY <2>1, <2>3 DEF Ordered
  <2> QED
    BY <1>3, <2>2, <2>3
<1>7. Received(a) /\ Before(a, r)
  <2>1. 1 \in 1 .. Len(t)
    BY <1>1
  <2>2. Received(a)
    BY <1>3, <2>1 DEF Received
  <2>3. Before(a, r)
    BY <1>3, <2>1 DEF Before
  <2> QED
    BY <2>2, <2>3
<1> QED
  BY <1>1, <1>2, <1>4, <1>5, <1>6, <1>7 DEF a, b
-----------------------------------------------------------------------------
LEMMA Initially == Init => IInv
  BY EmptyOrdered DEF Init, IInv, PlacesTyped, BufferNewest, StagesOrdered,
     NothingEarly, Contents, Blank, Torn

(* Receiving changes the buffer and the count, and no item that is queued. *)
LEMMA ReceiverStep ==
  ASSUME IInv, RecvSome \/ RecvAll
  PROVE  IInv'
<1>1. received' \in Nat /\ received <= received' /\ buf' \in Contents
      /\ buf' \in {Torn, received'}
  BY DEF IInv, PlacesTyped, RecvSome, RecvAll, Contents, Torn
<1>2. UNCHANGED <<got, pipe, copy>>
  BY DEF RecvSome, RecvAll, procVars, queueVars
<1>3. NothingEarly'
  <2>1. \A n \in Contents : n # Torn /\ n <= received => n <= received'
    BY <1>1 DEF IInv, PlacesTyped, Contents
  <2>2. \A s \in Seq(Contents) : \A i \in 1 .. Len(s) : s[i] \in Contents
    OBVIOUS
  <2> QED
    BY <1>2, <2>1, <2>2 DEF IInv, PlacesTyped, NothingEarly, Received
<1> QED
  BY <1>1, <1>2, <1>3 DEF IInv, PlacesTyped, BufferNewest, StagesOrdered, Ordered, Before

(* The copy is the newest item of all: it is made when there is none.      *)
LEMMA CopyStep ==
  ASSUME IInv, FeedCopy
  PROVE  IInv'
<1>1. copy' = <<buf>> /\ UNCHANGED <<got, pipe, buf, received>>
  BY DEF FeedCopy, procVars, recvVars
<1>2. /\ copy' \in Seq(Contents) /\ Len(copy') = 1 /\ copy'[1] = buf
      /\ buf \in Contents /\ buf \in {Torn, received} /\ received \in Nat
  BY <1>1 DEF IInv, PlacesTyped, BufferNewest
<1>3. Ordered(copy') /\ Before(got, copy') /\ Before(pipe, copy')
  BY <1>2 DEF IInv, NothingEarly, Received, Ordered, Before
<1>4. Received(copy')
  BY <1>2 DEF Received
<1> QED
  BY <1>1, <1>2, <1>3, <1>4
  DEF IInv, PlacesTyped, BufferNewest, StagesOrdered, NothingEarly, Ordered, Before, Received

LEMMA WriteStep ==
  ASSUME IInv, FeedWrite
  PROVE  IInv'
<1>1. pipe' = pipe \o copy /\ copy' = <<>> /\ UNCHANGED <<got, buf, received>>
  BY DEF FeedWrite, FeedBack, procVars, recvVars
<1>2. /\ pipe \o copy \in Seq(Contents) /\ Ordered(pipe \o copy)
      /\ Received(pipe \o copy) /\ Before(got, pipe \o copy)
  BY ConcatStages DEF IInv, PlacesTyped, StagesOrdered, NothingEarly
<1>3. PlacesTyped' /\ BufferNewest'
  BY <1>1, <1>2 DEF IInv, PlacesTyped, BufferNewest
<1>4. StagesOrdered'
  BY <1>1, <1>2, EmptyOrdered DEF IInv, StagesOrdered, Ordered, Before
<1>5. NothingEarly'
  BY <1>1, <1>2, EmptyOrdered DEF IInv, NothingEarly, Received
<1> QED
  BY <1>3, <1>4, <1>5 DEF IInv

LEMMA GetStep ==
  ASSUME IInv, ProcGet
  PROVE  IInv'
<1>1. /\ pipe # <<>> /\ got' = Append(got, Head(pipe)) /\ pipe' = Tail(pipe)
      /\ UNCHANGED <<copy, buf, received>>
  BY DEF ProcGet, recvVars
<1>2. /\ got' \in Seq(Contents) /\ pipe' \in Seq(Contents)
      /\ Ordered(got') /\ Ordered(pipe') /\ Before(got', pipe')
      /\ Received(got') /\ Received(pipe') /\ Before(got', copy) /\ Before(pipe', copy)
  BY <1>1, TakeHead DEF IInv, PlacesTyped, StagesOrdered, NothingEarly
<1>3. PlacesTyped' /\ BufferNewest'
  BY <1>1, <1>2 DEF IInv, PlacesTyped, BufferNewest
<1>4. StagesOrdered'
  BY <1>1, <1>2 DEF IInv, StagesOrdered, Ordered, Before
<1>5. NothingEarly'
  BY <1>1, <1>2 DEF IInv, NothingEarly, Received
<1> QED
  BY <1>3, <1>4, <1>5 DEF IInv

LEMMA OtherStep ==
  ASSUME IInv, UNCHANGED <<buf, received, got, pipe, copy>>
  PROVE  IInv'
  BY DEF IInv, PlacesTyped, BufferNewest, StagesOrdered, NothingEarly, Ordered,
         Before, Received

LEMMA Inductive == IInv /\ [Next]_vars => IInv'
<1> SUFFICES ASSUME IInv, [Next]_vars PROVE IInv'
  OBVIOUS
<1> USE DEF recvVars, procVars, queueVars
<1>1. CASE RecvWorker
  <2>1. CASE RecvSome \/ RecvAll
    BY <2>1, ReceiverStep
  <2>2. CASE RecvTest \/ RecvPut \/ RecvSignal \/ RecvTimeout
    BY <2>2, OtherStep DEF RecvTest, RecvPut, RecvSignal, RecvTimeout
  <2> QED
    BY <1>1, <2>1, <2>2 DEF RecvWorker
<1>2. CASE SendWorker \/ Firmware
  BY <1>2, OtherStep DEF SendWorker, SendOpen, SendTest, SendSign, SendClear,
     SendRequest, Firmware
<1>3. CASE Feeder
  BY <1>3, CopyStep, WriteStep DEF Feeder
<1>4. CASE Dataprocess
  <2>1. CASE ProcGet
    BY <2>1, GetStep
  <2>2. CASE ProcTest \/ ProcCheck \/ ProcLock \/ ProcHand
    BY <2>2, OtherStep DEF ProcTest, ProcCheck, ProcLock, ProcHand
  <2> QED
    BY <1>4, <2>1, <2>2 DEF Dataprocess
<1>5. CASE MapFeeder \/ Disper
  BY <1>5, OtherStep DEF MapFeeder, Disper, DispShow, DispCheck, DispLock, DispGet
<1>6. CASE MainWakes \/ MainTerminate \/ MainJoin \/ UNCHANGED vars
  BY <1>6, OtherStep DEF MainWakes, MainTerminate, MainJoin, vars
<1> QED
  BY <1>1, <1>2, <1>3, <1>4, <1>5, <1>6 DEF Next

LEMMA Invariant == Spec => []IInv
  BY Initially, Inductive, PTL DEF Spec

(* The data processing may get a buffer twice, torn or not at all, but     *)
(* never an older one after a newer one: for every number of buffers and   *)
(* every program, with or without the queue, however its feeder is delayed.*)
THEOREM OrderKept == Spec => []NeverBackwards
<1>1. IInv => NeverBackwards
  BY LenProperties DEF IInv, PlacesTyped, StagesOrdered, Ordered, NeverBackwards
<1> QED
  BY <1>1, Invariant, PTL
=============================================================================
