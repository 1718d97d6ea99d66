--------------------------- MODULE CaptureProofs ---------------------------
(***************************************************************************)
(* Theorems about CaptureStream, the streaming of the camera, and about    *)
(* CaptureDevice, its life around that, for any number of buffers and      *)
(* pictures.                                                               *)
(***************************************************************************)
EXTENDS CaptureDevice, FiniteSetTheorems, TLAPS

-----------------------------------------------------------------------------
(* CaptureStream. *)

\* The sets and sizes the invariants speak about, once and for all.
LEMMA BufferFacts == 0 \in Buffers /\ Buffers \subseteq Nat
  BY BufsAssumption DEF Buffers

LEMMA HeldSize ==
  /\ pc \in {"match", "requeue"} => Held = {cur} /\ Cardinality(Held) = 1
  /\ pc \notin {"match", "requeue"} => Held = {} /\ Cardinality(Held) = 0
  /\ pc' \in {"match", "requeue"} => Held' = {cur'} /\ Cardinality(Held') = 1
  /\ pc' \notin {"match", "requeue"} => Held' = {} /\ Cardinality(Held') = 0
  BY FS_EmptySet, FS_Singleton DEF Held

\* The elements of a sequence that grew at its end or lost its head.
LEMMA GrowSet ==
  ASSUME NEW S, NEW s \in Seq(S), NEW e \in S
  PROVE  ToSet(Append(s, e)) = ToSet(s) \cup {e}
  <1>1. \A i \in 1 .. Len(s) : Append(s, e)[i] = s[i]
    OBVIOUS
  <1>2. DOMAIN Append(s, e) = 1 .. Len(s) + 1 /\ Append(s, e)[Len(s) + 1] = e
    OBVIOUS
  <1>3. DOMAIN s = 1 .. Len(s) /\ Len(s) \in Nat
    OBVIOUS
  <1>4. \A i \in 1 .. Len(s) + 1 : i \in 1 .. Len(s) \/ i = Len(s) + 1
    BY <1>3
  <1>5. \A i \in 1 .. Len(s) : i \in 1 .. Len(s) + 1
    BY <1>3
  <1>6. Len(s) + 1 \in 1 .. Len(s) + 1
    BY <1>3
  <1>7. QED
    BY <1>1, <1>2, <1>3, <1>4, <1>5, <1>6 DEF ToSet

LEMMA TailSet ==
  ASSUME NEW S, NEW s \in Seq(S), s # << >>
  PROVE  /\ ToSet(s) = ToSet(Tail(s)) \cup {Head(s)}
         /\ IsInjective(s) => Head(s) \notin ToSet(Tail(s)) /\ IsInjective(Tail(s))
  <1>1. Len(s) \in Nat \ {0} /\ DOMAIN s = 1 .. Len(s) /\ Head(s) = s[1]
    OBVIOUS
  <1>2. DOMAIN Tail(s) = 1 .. Len(s) - 1 /\ \A i \in 1 .. Len(s) - 1 : Tail(s)[i] = s[i + 1]
    OBVIOUS
  <1>3. \A i \in 1 .. Len(s) : i = 1 \/ (i - 1 \in 1 .. Len(s) - 1 /\ s[i] = Tail(s)[i - 1])
    BY <1>1, <1>2
  <1>4. \A i \in 1 .. Len(s) - 1 : i + 1 \in 1 .. Len(s) /\ i + 1 # 1
    BY <1>1
  <1>5. 1 \in 1 .. Len(s)
    BY <1>1
  <1>6. ToSet(s) = ToSet(Tail(s)) \cup {Head(s)}
    <2>1. \A i \in DOMAIN s : s[i] \in ToSet(Tail(s)) \cup {Head(s)}
      <3>1. \A j \in 1 .. Len(s) - 1 : Tail(s)[j] \in ToSet(Tail(s))
        BY <1>2 DEF ToSet
      <3>2. QED
        BY <3>1, <1>1, <1>3
    <2>2. \A x \in ToSet(Tail(s)) : x \in ToSet(s)
      BY <1>1, <1>2, <1>4 DEF ToSet
    <2>3. Head(s) \in ToSet(s)
      BY <1>1, <1>5 DEF ToSet
    <2>4. \A x \in ToSet(s) : x \in ToSet(Tail(s)) \cup {Head(s)}
      BY <2>1 DEF ToSet
    <2>5. QED
      BY <2>2, <2>3, <2>4
  <1>7. ASSUME IsInjective(s)
        PROVE  Head(s) \notin ToSet(Tail(s)) /\ IsInjective(Tail(s))
    <2>1. Head(s) \notin ToSet(Tail(s))
      BY <1>1, <1>2, <1>4, <1>5, <1>7 DEF ToSet, IsInjective
    <2>2. \A a, b \in 1 .. Len(s) - 1 : Tail(s)[a] = Tail(s)[b] => a + 1 = b + 1
      BY <1>1, <1>2, <1>4, <1>7 DEF IsInjective
    <2>3. \A a, b \in 1 .. Len(s) - 1 : a + 1 = b + 1 => a = b
      BY <1>1
    <2>4. QED
      BY <2>1, <2>2, <2>3, <1>2 DEF IsInjective
  <1>8. QED
    BY <1>6, <1>7

LEMMA GrowInjective ==
  ASSUME NEW S, NEW s \in Seq(S), NEW e \in S, IsInjective(s), e \notin ToSet(s)
  PROVE  IsInjective(Append(s, e))
  <1>1. Len(s) \in Nat /\ DOMAIN s = 1 .. Len(s)
    OBVIOUS
  <1>2. /\ DOMAIN Append(s, e) = 1 .. Len(s) + 1
        /\ Append(s, e)[Len(s) + 1] = e
        /\ \A i \in 1 .. Len(s) : Append(s, e)[i] = s[i]
    OBVIOUS
  <1>3. \A i \in 1 .. Len(s) + 1 : i \in 1 .. Len(s) \/ i = Len(s) + 1
    BY <1>1
  <1>4. \A i \in 1 .. Len(s) : s[i] # e
    BY <1>1 DEF ToSet
  <1>5. ASSUME NEW i \in 1 .. Len(s) + 1, NEW j \in 1 .. Len(s) + 1,
               Append(s, e)[i] = Append(s, e)[j]
        PROVE  i = j
    <2>1. CASE i \in 1 .. Len(s) /\ j \in 1 .. Len(s)
      BY <1>1, <1>2, <1>5, <2>1 DEF IsInjective
    <2>2. CASE i \in 1 .. Len(s) /\ j = Len(s) + 1
      BY <1>2, <1>4, <1>5, <2>2
    <2>3. CASE i = Len(s) + 1 /\ j \in 1 .. Len(s)
      BY <1>2, <1>4, <1>5, <2>3
    <2>4. QED
      BY <1>3, <2>1, <2>2, <2>3
  <1>6. \A i, j \in DOMAIN Append(s, e) : Append(s, e)[i] = Append(s, e)[j] => i = j
    BY <1>2, <1>5
  <1>7. QED
    BY <1>6 DEF IsInjective

-----------------------------------------------------------------------------
(* Type correctness: a picture's length is the driver's until a table may be *)
(* inserted, once.                                                           *)

TypeInv ==
  /\ TypeOK
  /\ pc \in {"requeue", "process"} => length[cur] <= Size

LEMMA InitType == Init => TypeInv
  BY BufferFacts, SizeAssumption, BoundsAssumption DEF Init, TypeInv, TypeOK, AtWork

LEMMA DieType ==
  ASSUME TypeInv, Die
  PROVE  TypeInv'
  BY DEF TypeInv, TypeOK, Die, Goto, driver, bounds

\* The steps that move buffers between the process and the driver's queues.
LEMMA QueueType ==
  ASSUME TypeInv, QueueBuffer \/ Dequeue \/ Requeue
  PROVE  TypeInv'
  <1> USE DEF TypeInv, TypeOK, AtWork, Goto, bounds
  <1>1. CASE QueueBuffer
    <2>1. Len(inq) \in Buffers
      <3>1. Len(inq) \in Nat
        OBVIOUS
      <3>2. Len(inq) < NBufs
        BY <1>1 DEF QueueBuffer
      <3>3. QED
        BY <3>1, <3>2, BufsAssumption DEF Buffers
    <2>2. inq' \in Seq(Buffers)
      BY <1>1, <2>1 DEF QueueBuffer
    <2>3. QED
      BY <1>1, <2>2 DEF QueueBuffer
  <1>2. CASE Dequeue
    <2>1. CASE outq = << >>
      BY <1>2, <2>1 DEF Dequeue
    <2>2. CASE outq # << >>
      <3>1. Head(outq) \in Buffers /\ Tail(outq) \in Seq(Buffers)
        BY <2>2
      <3>2. QED
        BY <1>2, <2>2, <3>1 DEF Dequeue
    <2>3. QED
      BY <2>1, <2>2
  <1>3. CASE Requeue
    BY <1>3 DEF Requeue
  <1>4. QED
    BY <1>1, <1>2, <1>3

LEMMA ServerType ==
  ASSUME TypeInv, Server
  PROVE  TypeInv'
  <1> USE DEF TypeInv, TypeOK, AtWork, Goto, driver, bounds
  <1>1. CASE QueueBuffer \/ Dequeue \/ Requeue
    BY <1>1, QueueType
  <1>2. CASE StreamOn \/ SelectReady \/ FrameSent
    BY <1>2 DEF StreamOn, SelectReady, FrameSent
  <1>3. CASE SelectTimeout \/ CallFails
    BY <1>3, DieType DEF SelectTimeout, CallFails
  <1>4. CASE SelectInterrupted
    BY <1>4, BoundsAssumption DEF SelectInterrupted
  <1>5. CASE Match
    <2>1. CASE Matches(cur)
      <3>1. bytesused[cur] \in 0 .. Size
        OBVIOUS
      <3>2. bytesused[cur] \in 0 .. Size + Dht /\ bytesused[cur] <= Size
        BY <3>1, SizeAssumption
      <3>3. length' = [length EXCEPT ![cur] = bytesused[cur]]
        BY <1>5, <2>1 DEF Match
      <3>4. length' \in [Buffers -> 0 .. Size + Dht] /\ length'[cur] <= Size
        BY <3>2, <3>3
      <3>5. QED
        BY <1>5, <2>1, <3>4 DEF Match
    <2>2. CASE ~Matches(cur)
      BY <1>5, <2>2 DEF Match
    <2>3. QED
      BY <2>1, <2>2
  <1>6. CASE Process
    <2>1. PICK more \in {0, Dht} : length' = [length EXCEPT ![cur] = @ + more]
      BY <1>6 DEF Process
    <2>2. length[cur] \in 0 .. Size
      BY <1>6, SizeAssumption DEF Process
    <2>3. length[cur] + more \in 0 .. Size + Dht
      BY <2>2, SizeAssumption
    <2>4. length' \in [Buffers -> 0 .. Size + Dht]
      BY <2>1, <2>3
    <2>5. copied' \in Seq(0 .. MaxPictures) /\ Len(copied') <= Chunks
      BY <1>6, BoundsAssumption DEF Process
    <2>6. QED
      BY <1>6, <2>4, <2>5 DEF Process
  <1>7. CASE CopyChunk
    <2>1. copied' \in Seq(0 .. MaxPictures) /\ Len(copied') <= Chunks
      BY <1>7, BoundsAssumption DEF CopyChunk
    <2>2. QED
      BY <1>7, <2>1 DEF CopyChunk
  <1>8. QED
    BY <1>1, <1>2, <1>3, <1>4, <1>5, <1>6, <1>7 DEF Server

LEMMA CameraType ==
  ASSUME TypeInv, BeginPicture \/ EndPicture
  PROVE  TypeInv'
  <1> USE BoundsAssumption, SizeAssumption DEF TypeInv, TypeOK, AtWork, Streaming, bounds
  <1>1. CASE BeginPicture
    <2>1. Head(inq) \in Buffers /\ Tail(inq) \in Seq(Buffers)
      BY <1>1 DEF BeginPicture
    <2>2. dma' \in Seq(Buffers) /\ Len(dma') <= 1
      BY <1>1, <2>1 DEF BeginPicture
    <2>3. taken' \in 0 .. MaxPictures /\ pic' \in [Buffers -> 0 .. MaxPictures]
      BY <1>1, <2>1 DEF BeginPicture
    <2>4. QED
      BY <1>1, <2>1, <2>2, <2>3 DEF BeginPicture
  <1>2. CASE EndPicture
    <2>1. dma[1] \in Buffers
      BY <1>2 DEF EndPicture
    <2>2. outq' \in Seq(Buffers) /\ dma' \in Seq(Buffers) /\ Len(dma') <= 1
      BY <1>2, <2>1 DEF EndPicture
    <2>3. bytesused' \in [Buffers -> 0 .. Size]
      BY <1>2, <2>1 DEF EndPicture
    <2>4. QED
      BY <1>2, <2>2, <2>3 DEF EndPicture
  <1>3. QED
    BY <1>1, <1>2

LEMMA TypeStep ==
  ASSUME TypeInv, [Next]_vars
  PROVE  TypeInv'
  <1>1. CASE UNCHANGED vars
    BY <1>1 DEF TypeInv, TypeOK, vars
  <1>2. QED
    BY <1>1, ServerType, CameraType DEF Next

\* The state of the process and of the driver keeps its types: in particular
\* no picture becomes longer than its buffer and one inserted table.
THEOREM TypeCorrect == Spec => []TypeOK
  <1>1. TypeInv => TypeOK
    BY DEF TypeInv
  <1>2. QED
    BY <1>1, InitType, TypeStep, PTL DEF Spec

-----------------------------------------------------------------------------
(* The ring of buffers. *)

\* Until streaming starts the buffers are queued one by one, in order.
RingInv ==
  /\ pc = "queue" =>
       /\ dma = << >>
       /\ outq = << >>
       /\ Len(inq) <= NBufs
       /\ \A i \in 1 .. Len(inq) : inq[i] = i - 1
  /\ EachBufferOnce

LEMMA NoElements ==
  ASSUME NEW S, NEW s \in Seq(S), s = << >>
  PROVE  Len(s) = 0 /\ ToSet(s) = {} /\ IsInjective(s)
  <1>1. Len(s) = 0 /\ DOMAIN s = 1 .. Len(s)
    OBVIOUS
  <1>2. DOMAIN s = {}
    BY <1>1
  <1>3. QED
    BY <1>1, <1>2 DEF IsInjective, ToSet

LEMMA EntryIn ==
  ASSUME NEW S, NEW s \in Seq(S), NEW k \in 1 .. Len(s)
  PROVE  s[k] \in S
  OBVIOUS

\* The buffer the camera writes to, and nothing if it writes to none.
LEMMA DmaSet ==
  ASSUME TypeOK
  PROVE  /\ dma = << >> => Len(dma) = 0 /\ ToSet(dma) = {}
         /\ dma # << >> => /\ Len(dma) = 1
                           /\ dma[1] \in Buffers
                           /\ ToSet(dma) = {dma[1]}
  <1>0. dma \in Seq(Buffers) /\ Len(dma) <= 1
    BY DEF TypeOK
  <1>1. CASE dma = << >>
    BY <1>0, <1>1, NoElements
  <1>2. CASE dma # << >>
    <2>0. Len(dma) \in Nat /\ Len(dma) # 0
      BY <1>0, <1>2
    <2>1. dma \in Seq(Buffers) /\ Len(dma) = 1
      BY <1>0, <2>0
    <2>2. DOMAIN dma = {1} /\ dma[1] \in Buffers
      <3>1. DOMAIN dma = 1 .. 1
        BY <2>1
      <3>2. 1 .. 1 = {1}
        OBVIOUS
      <3>3. 1 \in 1 .. Len(dma)
        BY <2>1
      <3>4. dma[1] \in Buffers
        BY <2>1, <3>3, EntryIn
      <3>5. QED
        BY <3>1, <3>2, <3>4, Zenon
    <2>3. ToSet(dma) = {dma[1]}
      BY <2>2 DEF ToSet
    <2>4. QED
      BY <1>2, <2>1, <2>2, <2>3
  <1>3. QED
    BY <1>1, <1>2

LEMMA InitRing == Init => RingInv
  BY BufsAssumption DEF Init, RingInv, EachBufferOnce, Streaming

\* A step that moves no buffer.
LEMMA QuietRing ==
  ASSUME RingInv, UNCHANGED <<inq, dma, outq>>,
         Streaming' => Streaming /\ Held' = Held,
         pc' # "queue"
  PROVE  RingInv'
  BY DEF RingInv, EachBufferOnce

LEMMA QueueRing ==
  ASSUME TypeOK, RingInv, QueueBuffer
  PROVE  RingInv'
  <1>1. Len(inq) \in Nat /\ Len(inq) < NBufs /\ inq' = Append(inq, Len(inq))
    BY DEF TypeOK, QueueBuffer
  <1>2. Len(inq') = Len(inq) + 1 /\ inq'[Len(inq) + 1] = Len(inq)
    BY <1>1 DEF TypeOK
  <1>3. \A i \in 1 .. Len(inq) : inq'[i] = inq[i]
    BY <1>1 DEF TypeOK
  <1>4. \A i \in 1 .. Len(inq) + 1 : i \in 1 .. Len(inq) \/ i = Len(inq) + 1
    BY <1>1
  <1>5. \A i \in 1 .. Len(inq') : inq'[i] = i - 1
    BY <1>1, <1>2, <1>3, <1>4 DEF RingInv, QueueBuffer
  <1>6. Len(inq') <= NBufs
    BY <1>1, <1>2, BufsAssumption
  <1>7. QED
    BY <1>5, <1>6 DEF RingInv, EachBufferOnce, Streaming, QueueBuffer

LEMMA StreamOnRing ==
  ASSUME TypeOK, RingInv, StreamOn
  PROVE  RingInv'
  <1>1. /\ pc = "queue" /\ pc' = "select" /\ Len(inq) = NBufs
        /\ UNCHANGED <<inq, dma, outq>>
    BY DEF StreamOn, Goto, driver
  <1>2. DOMAIN inq = 1 .. Len(inq) /\ Len(inq) \in Nat
    BY DEF TypeOK
  <1>3. IsInjective(inq)
    BY <1>1, <1>2 DEF RingInv, IsInjective
  <1>4. dma = << >> /\ outq = << >>
    BY <1>1 DEF RingInv
  <1>5. Held' = {} /\ Cardinality(Held') = 0
    BY <1>1, HeldSize
  <1>6. Len(inq) + Len(dma) + Len(outq) + 0 = NBufs
    BY <1>1, <1>2, <1>4
  <1>7. ToSet(dma) = {} /\ ToSet(outq) = {} /\ IsInjective(outq)
    BY <1>4, NoElements DEF TypeOK
  <1>8. QED
    BY <1>1, <1>3, <1>4, <1>5, <1>6, <1>7 DEF RingInv, EachBufferOnce

LEMMA DequeueRing ==
  ASSUME TypeOK, RingInv, Dequeue
  PROVE  RingInv'
  <1>1. pc = "dequeue" /\ UNCHANGED <<inq, dma>>
    BY DEF Dequeue
  <1>2. Held = {} /\ Cardinality(Held) = 0 /\ Streaming
    BY <1>1, HeldSize DEF Streaming
  <1>3. CASE outq = << >>
    <2>1. pc' = "select" /\ outq' = outq
      BY <1>3 DEF Dequeue, Goto
    <2>2. Held' = {}
      BY <2>1, HeldSize
    <2>3. QED
      BY <1>1, <1>2, <2>1, <2>2, QuietRing
  <1>4. CASE outq # << >>
    <2>1. pc' = "match" /\ cur' = Head(outq) /\ outq' = Tail(outq)
      BY <1>4 DEF Dequeue, Goto
    <2>2. Held' = {Head(outq)} /\ Cardinality(Held') = 1
      BY <2>1, HeldSize
    <2>3. outq \in Seq(Buffers)
      BY DEF TypeOK
    <2>4. /\ ToSet(outq) = ToSet(outq') \cup {Head(outq)}
          /\ Head(outq) \notin ToSet(outq')
          /\ IsInjective(outq')
      BY <1>2, <1>4, <2>1, <2>3, TailSet DEF RingInv, EachBufferOnce
    <2>5. Len(outq') = Len(outq) - 1 /\ Len(outq) \in Nat
      BY <1>4, <2>1, <2>3
    <2>6. Len(inq) \in Nat /\ Len(dma) \in Nat
      BY DEF TypeOK
    <2>7. Len(inq) + Len(dma) + Len(outq) + 0 = NBufs
      BY <1>2 DEF RingInv, EachBufferOnce
    <2>8. Len(inq') + Len(dma') + Len(outq') + Cardinality(Held') = NBufs
      BY <1>1, <2>2, <2>5, <2>6, <2>7
    <2>9. QED
      BY <1>1, <1>2, <2>1, <2>2, <2>4, <2>8 DEF RingInv, EachBufferOnce
  <1>5. QED
    BY <1>3, <1>4

LEMMA RequeueRing ==
  ASSUME TypeOK, RingInv, Requeue
  PROVE  RingInv'
  <1>1. /\ pc = "requeue" /\ pc' = "process"
        /\ inq' = Append(inq, cur) /\ UNCHANGED <<dma, outq>>
    BY DEF Requeue, Goto
  <1>2. Held = {cur} /\ Cardinality(Held) = 1 /\ Held' = {} /\ Cardinality(Held') = 0
    BY <1>1, HeldSize
  <1>3. inq \in Seq(Buffers) /\ cur \in Buffers
    BY DEF TypeOK
  <1>4. /\ IsInjective(inq) /\ IsInjective(outq)
        /\ ToSet(inq) \cap ToSet(dma) = {}
        /\ ToSet(inq) \cap ToSet(outq) = {}
        /\ ToSet(dma) \cap ToSet(outq) = {}
        /\ {cur} \cap (ToSet(inq) \cup ToSet(dma) \cup ToSet(outq)) = {}
        /\ Len(inq) + Len(dma) + Len(outq) + 1 = NBufs
    BY <1>1, <1>2 DEF RingInv, EachBufferOnce, Streaming
  <1>5. ToSet(inq') = ToSet(inq) \cup {cur}
    BY <1>1, <1>3, GrowSet
  <1>6. IsInjective(inq')
    BY <1>1, <1>3, <1>4, GrowInjective
  <1>7. Len(inq') = Len(inq) + 1 /\ Len(inq) \in Nat
    BY <1>1, <1>3
  <1>8. Len(dma) \in Nat /\ Len(outq) \in Nat
    BY DEF TypeOK
  <1>9. Len(inq') + Len(dma') + Len(outq') + Cardinality(Held') = NBufs
    BY <1>1, <1>2, <1>4, <1>7, <1>8
  <1>10. QED
    BY <1>1, <1>2, <1>4, <1>5, <1>6, <1>9 DEF RingInv, EachBufferOnce

LEMMA BeginRing ==
  ASSUME TypeOK, RingInv, BeginPicture
  PROVE  RingInv'
  <1>1. /\ Streaming /\ dma = << >> /\ inq # << >>
        /\ dma' = <<Head(inq)>> /\ inq' = Tail(inq) /\ UNCHANGED <<pc, outq, cur>>
    BY DEF BeginPicture
  <1>2. inq \in Seq(Buffers) /\ Len(outq) \in Nat
    BY DEF TypeOK
  <1>3. Held' = Held /\ Cardinality(Held) \in Nat
    <2>1. Held' = Held
      BY <1>1 DEF Held
    <2>2. Cardinality(Held) \in {0, 1}
      BY HeldSize
    <2>3. QED
      BY <2>1, <2>2
  <1>4. Len(dma) = 0 /\ Len(dma') = 1 /\ ToSet(dma') = {Head(inq)}
    BY <1>1 DEF ToSet
  <1>5. /\ ToSet(inq) = ToSet(inq') \cup {Head(inq)}
        /\ Head(inq) \notin ToSet(inq')
        /\ IsInjective(inq')
    BY <1>1, <1>2, TailSet DEF RingInv, EachBufferOnce
  <1>6. Len(inq') = Len(inq) - 1 /\ Len(inq) \in Nat
    BY <1>1, <1>2
  <1>7. Len(inq) + Len(dma) + Len(outq) + Cardinality(Held) = NBufs
    BY <1>1 DEF RingInv, EachBufferOnce
  <1>8. Len(inq') + Len(dma') + Len(outq') + Cardinality(Held') = NBufs
    BY <1>1, <1>2, <1>3, <1>4, <1>6, <1>7
  <1>9. QED
    BY <1>1, <1>3, <1>4, <1>5, <1>8 DEF RingInv, EachBufferOnce, Streaming

LEMMA EndRing ==
  ASSUME TypeOK, RingInv, EndPicture
  PROVE  RingInv'
  <1>1. /\ Streaming /\ dma # << >>
        /\ outq' = Append(outq, dma[1]) /\ dma' = << >> /\ UNCHANGED <<pc, inq, cur>>
    BY DEF EndPicture
  <1>2. Len(dma) = 1 /\ dma[1] \in Buffers /\ ToSet(dma) = {dma[1]}
    BY <1>1, DmaSet
  <1>3. outq \in Seq(Buffers) /\ Len(inq) \in Nat
    BY DEF TypeOK
  <1>4. Held' = Held /\ Cardinality(Held) \in Nat
    <2>1. Held' = Held
      BY <1>1 DEF Held
    <2>2. Cardinality(Held) \in {0, 1}
      BY HeldSize
    <2>3. QED
      BY <2>1, <2>2
  <1>5. dma[1] \notin ToSet(outq) /\ IsInjective(outq)
    BY <1>1, <1>2 DEF RingInv, EachBufferOnce
  <1>6. ToSet(outq') = ToSet(outq) \cup {dma[1]} /\ IsInjective(outq')
    BY <1>1, <1>2, <1>3, <1>5, GrowSet, GrowInjective
  <1>7. Len(outq') = Len(outq) + 1 /\ Len(outq) \in Nat /\ Len(dma') = 0 /\ ToSet(dma') = {}
    <2>1. << >> \in Seq(Buffers)
      OBVIOUS
    <2>2. Len(dma') = 0 /\ ToSet(dma') = {}
      BY <1>1, <2>1, NoElements
    <2>3. QED
      BY <1>1, <1>3, <2>2
  <1>8. Len(inq) + Len(dma) + Len(outq) + Cardinality(Held) = NBufs
    BY <1>1 DEF RingInv, EachBufferOnce
  <1>9. Len(inq') + Len(dma') + Len(outq') + Cardinality(Held') = NBufs
    BY <1>1, <1>2, <1>3, <1>4, <1>7, <1>8
  <1>10. QED
    BY <1>1, <1>2, <1>4, <1>6, <1>7, <1>9 DEF RingInv, EachBufferOnce, Streaming

LEMMA RingStep ==
  ASSUME TypeOK, RingInv, [Next]_vars
  PROVE  RingInv'
  <1>1. CASE UNCHANGED vars
    BY <1>1 DEF RingInv, EachBufferOnce, Streaming, Held, vars
  <1>2. CASE QueueBuffer \/ StreamOn \/ Dequeue \/ Requeue
    BY <1>2, QueueRing, StreamOnRing, DequeueRing, RequeueRing
  <1>3. CASE BeginPicture \/ EndPicture
    BY <1>3, BeginRing, EndRing
  <1>4. CASE SelectReady \/ SelectTimeout \/ SelectInterrupted
    BY <1>4, QuietRing
    DEF SelectReady, SelectTimeout, SelectInterrupted, Die, Goto, driver, Streaming, Held
  <1>5. CASE Match \/ Process
    BY <1>5, QuietRing DEF Match, Process, Goto, driver, Streaming, Held
  <1>6. CASE CopyChunk \/ FrameSent
    BY <1>6, QuietRing DEF CopyChunk, FrameSent, Goto, driver, Streaming, Held
  <1>7. CASE CallFails
    BY <1>7, QuietRing DEF CallFails, Die, Goto, driver, Streaming, Held
  <1>8. QED
    BY <1>1, <1>2, <1>3, <1>4, <1>5, <1>6, <1>7 DEF Next, Server

LEMMA RingCorrect == Spec => []RingInv
  BY InitRing, RingStep, TypeCorrect, PTL DEF Spec

\* However the camera and the sender race, the rotation of any number of
\* buffers loses none and has none twice.
THEOREM BuffersKept == Spec => []EachBufferOnce
  <1>1. RingInv => EachBufferOnce
    BY DEF RingInv
  <1>2. QED
    BY <1>1, RingCorrect, PTL

-----------------------------------------------------------------------------
(* The picture being sent. *)

\* The buffer was queued behind all others, so as long as any is empty it is
\* the last of them, and untouched.
TornInv ==
  /\ pc \in {"match", "requeue"} => pic[cur] = seen
  /\ pc \in {"process", "copy"} =>
       inq = << >> \/ (inq[Len(inq)] = cur /\ pic[cur] = seen)

LEMMA BeginTorn ==
  ASSUME TypeOK, RingInv, TornInv, BeginPicture
  PROVE  TornInv'
  <1>1. /\ Streaming /\ inq # << >> /\ inq' = Tail(inq)
        /\ pic' = [pic EXCEPT ![Head(inq)] = taken + 1]
        /\ UNCHANGED <<pc, cur, seen>>
    BY DEF BeginPicture
  <1>2. inq \in Seq(Buffers) /\ cur \in Buffers /\ pic \in [Buffers -> 0 .. MaxPictures]
    BY DEF TypeOK
  <1>3. Len(inq) \in Nat \ {0} /\ Head(inq) = inq[1] /\ Head(inq) \in Buffers
    BY <1>1, <1>2
  <1>4. DOMAIN inq = 1 .. Len(inq) /\ 1 \in 1 .. Len(inq) /\ Len(inq) \in 1 .. Len(inq)
    BY <1>2, <1>3
  <1>5. \A b \in Buffers : b # Head(inq) => pic'[b] = pic[b]
    BY <1>1, <1>2
  <1>6. ASSUME pc \in {"match", "requeue"}
        PROVE  pic'[cur] = seen
    <2>1. Held = {cur}
      BY <1>6, HeldSize
    <2>2. cur \notin ToSet(inq)
      BY <1>1, <2>1 DEF RingInv, EachBufferOnce
    <2>3. Head(inq) \in ToSet(inq)
      BY <1>3, <1>4 DEF ToSet
    <2>4. QED
      BY <1>2, <1>5, <1>6, <2>2, <2>3 DEF TornInv
  <1>7. ASSUME pc \in {"process", "copy"}, inq' # << >>
        PROVE  inq'[Len(inq')] = cur /\ pic'[cur] = seen
    <2>1. inq[Len(inq)] = cur /\ pic[cur] = seen
      BY <1>1, <1>7 DEF TornInv
    <2>2. Len(inq') = Len(inq) - 1 /\ inq' \in Seq(Buffers)
      BY <1>1, <1>2, <1>3
    <2>3. Len(inq') # 0
      BY <1>7, <2>2
    <2>4. Len(inq) # 1
      BY <2>2, <2>3
    <2>5. inq'[Len(inq')] = inq[Len(inq)]
      BY <1>1, <1>2, <1>3, <2>2, <2>4
    <2>6. inq[1] # inq[Len(inq)]
      BY <1>1, <1>4, <2>4 DEF RingInv, EachBufferOnce, IsInjective
    <2>7. QED
      BY <1>2, <1>3, <1>5, <2>1, <2>5, <2>6
  <1>8. QED
    BY <1>1, <1>6, <1>7 DEF TornInv

LEMMA TornStep ==
  ASSUME TypeOK, RingInv, TornInv, [Next]_vars
  PROVE  TornInv'
  <1> USE DEF TornInv, Goto, driver
  <1>1. CASE UNCHANGED vars
    BY <1>1 DEF vars
  <1>2. CASE BeginPicture
    BY <1>2, BeginTorn
  <1>3. CASE EndPicture
    BY <1>3 DEF EndPicture
  <1>4. CASE Dequeue
    <2>1. CASE outq = << >>
      BY <1>4, <2>1 DEF Dequeue
    <2>2. CASE outq # << >>
      BY <1>4, <2>2 DEF Dequeue
    <2>3. QED
      BY <2>1, <2>2
  <1>5. CASE Requeue
    <2>1. inq \in Seq(Buffers) /\ cur \in Buffers
      BY DEF TypeOK
    <2>2. inq'[Len(inq')] = cur
      BY <1>5, <2>1 DEF Requeue
    <2>3. QED
      BY <1>5, <2>2 DEF Requeue
  <1>6. CASE QueueBuffer \/ StreamOn
    BY <1>6 DEF QueueBuffer, StreamOn
  <1>7. CASE SelectReady \/ SelectTimeout \/ SelectInterrupted \/ CallFails
    BY <1>7 DEF SelectReady, SelectTimeout, SelectInterrupted, CallFails, Die
  <1>8. CASE Match \/ Process
    BY <1>8 DEF Match, Process
  <1>9. CASE CopyChunk \/ FrameSent
    BY <1>9 DEF CopyChunk, FrameSent
  <1>10. QED
    BY <1>1, <1>2, <1>3, <1>4, <1>5, <1>6, <1>7, <1>8, <1>9 DEF Next, Server

\* For any number of buffers: a frame is torn only when all the others are
\* full and waiting, that is when the server is a whole ring behind.
THEOREM TornFrames == Spec => []TornOnlyWhenBehind
  <1>1. Init => TornInv
    BY DEF Init, TornInv
  <1>2. TypeOK /\ RingInv /\ TornInv => TornOnlyWhenBehind
    <2> SUFFICES ASSUME TypeOK, RingInv, TornInv,
                        pc \in {"process", "copy"}, pic[cur] # seen
                 PROVE  Len(outq) >= NBufs - 1
      BY DEF TornOnlyWhenBehind
    <2>1. inq = << >>
      BY DEF TornInv
    <2>2. Len(inq) = 0 /\ Len(dma) \in Nat /\ Len(dma) <= 1 /\ Len(outq) \in Nat
      BY <2>1 DEF TypeOK
    <2>3. Cardinality(Held) = 0
      BY HeldSize
    <2>4. Len(inq) + Len(dma) + Len(outq) + Cardinality(Held) = NBufs
      BY DEF RingInv, EachBufferOnce, Streaming
    <2>5. QED
      BY <2>2, <2>3, <2>4, BufsAssumption
  <1>3. QED
    BY <1>1, <1>2, TornStep, TypeCorrect, RingCorrect, PTL DEF Spec

-----------------------------------------------------------------------------
(* The order of pictures. *)

\* What waits to be dequeued is newer than what was dequeued, and the picture
\* the camera writes is newer than all of it.
OrderInv ==
  /\ seen <= taken
  /\ \A b \in Buffers : pic[b] <= taken
  /\ \A i \in 1 .. Len(outq) : seen < pic[outq[i]]
  /\ \A i, j \in 1 .. Len(outq) : i < j => pic[outq[i]] < pic[outq[j]]
  /\ dma # << >> =>
       /\ seen < pic[dma[1]]
       /\ \A i \in 1 .. Len(outq) : pic[outq[i]] < pic[dma[1]]

LEMMA BeginOrder ==
  ASSUME TypeOK, RingInv, OrderInv, BeginPicture
  PROVE  OrderInv'
  <1>1. /\ Streaming /\ dma = << >> /\ inq # << >> /\ taken' = taken + 1
        /\ dma' = <<Head(inq)>> /\ pic' = [pic EXCEPT ![Head(inq)] = taken + 1]
        /\ UNCHANGED <<outq, seen>>
    BY DEF BeginPicture
  <1>2. /\ inq \in Seq(Buffers) /\ outq \in Seq(Buffers)
        /\ pic \in [Buffers -> 0 .. MaxPictures] /\ seen \in Nat /\ taken \in Nat
    BY BoundsAssumption DEF TypeOK
  <1>3. Head(inq) \in Buffers /\ Head(inq) \in ToSet(inq)
    BY <1>1, <1>2, TailSet
  <1>4. ToSet(inq) \cap ToSet(outq) = {}
    BY <1>1 DEF RingInv, EachBufferOnce
  <1>5. \A i \in 1 .. Len(outq) : outq[i] \in Buffers /\ outq[i] # Head(inq)
    <2>1. DOMAIN outq = 1 .. Len(outq)
      BY <1>2
    <2>2. \A i \in 1 .. Len(outq) : outq[i] \in ToSet(outq)
      BY <2>1 DEF ToSet
    <2>3. \A i \in 1 .. Len(outq) : outq[i] \in Buffers
      BY <1>2
    <2>4. QED
      BY <2>2, <2>3, <1>3, <1>4
  <1>6. \A i \in 1 .. Len(outq) : pic'[outq[i]] = pic[outq[i]]
    BY <1>1, <1>2, <1>5
  <1>7. pic'[dma'[1]] = taken + 1 /\ dma'[1] \in Buffers
    BY <1>1, <1>2, <1>3
  <1>8. \A b \in Buffers : pic[b] \in Nat
    BY <1>2
  <1>9. \A b \in Buffers : pic'[b] <= taken'
    BY <1>1, <1>2, <1>8 DEF OrderInv
  <1>10. seen' <= taken' /\ seen' < taken + 1
    BY <1>1, <1>2 DEF OrderInv
  <1>11. \A i \in 1 .. Len(outq) : seen < pic'[outq[i]] /\ pic'[outq[i]] < taken + 1
    BY <1>2, <1>5, <1>6, <1>8 DEF OrderInv
  <1>12. \A i, j \in 1 .. Len(outq) : i < j => pic'[outq[i]] < pic'[outq[j]]
    BY <1>6 DEF OrderInv
  <1>13. QED
    BY <1>1, <1>7, <1>9, <1>10, <1>11, <1>12 DEF OrderInv

LEMMA EndOrder ==
  ASSUME TypeOK, OrderInv, EndPicture
  PROVE  OrderInv'
  <1>1. /\ dma # << >> /\ outq' = Append(outq, dma[1]) /\ dma' = << >>
        /\ UNCHANGED <<pic, seen, taken>>
    BY DEF EndPicture
  <1>2. outq \in Seq(Buffers) /\ Len(outq) \in Nat /\ dma[1] \in Buffers
    BY <1>1, DmaSet DEF TypeOK
  <1>3. Len(outq') = Len(outq) + 1 /\ outq'[Len(outq) + 1] = dma[1]
    BY <1>1, <1>2
  <1>4. \A i \in 1 .. Len(outq) : outq'[i] = outq[i]
    BY <1>1, <1>2
  <1>5. \A i \in 1 .. Len(outq') : i \in 1 .. Len(outq) \/ i = Len(outq) + 1
    BY <1>2, <1>3
  <1>6. \A i \in 1 .. Len(outq') : seen < pic[outq'[i]]
    BY <1>1, <1>3, <1>4, <1>5 DEF OrderInv
  <1>7. ASSUME NEW i \in 1 .. Len(outq'), NEW j \in 1 .. Len(outq'), i < j
        PROVE  pic[outq'[i]] < pic[outq'[j]]
    <2>1. i \in 1 .. Len(outq)
      BY <1>2, <1>3, <1>7
    <2>2. CASE j \in 1 .. Len(outq)
      BY <1>4, <1>7, <2>1, <2>2 DEF OrderInv
    <2>3. CASE j = Len(outq) + 1
      BY <1>1, <1>3, <1>4, <2>1, <2>3 DEF OrderInv
    <2>4. QED
      BY <1>5, <2>2, <2>3
  <1>8. QED
    BY <1>1, <1>6, <1>7 DEF OrderInv

LEMMA DequeueOrder ==
  ASSUME TypeOK, OrderInv, Dequeue, outq # << >>
  PROVE  OrderInv' /\ seen' > seen
  <1>1. /\ outq' = Tail(outq) /\ seen' = pic[Head(outq)]
        /\ UNCHANGED <<dma, pic, taken>>
    BY DEF Dequeue
  <1>2. /\ outq \in Seq(Buffers) /\ Len(outq) \in Nat \ {0} /\ Head(outq) = outq[1]
        /\ outq[1] \in Buffers /\ 1 \in 1 .. Len(outq)
    BY SMTT(30) DEF TypeOK
  <1>3. Len(outq') = Len(outq) - 1 /\ \A i \in 1 .. Len(outq') : outq'[i] = outq[i + 1]
    BY <1>1, <1>2
  <1>4. \A i \in 1 .. Len(outq') : i \in Nat /\ 1 < i + 1 /\ i + 1 \in 1 .. Len(outq)
    BY <1>2, <1>3
  <1>5. pic \in [Buffers -> 0 .. MaxPictures] /\ seen \in 0 .. MaxPictures /\ taken \in 0 .. MaxPictures
    BY DEF TypeOK
  <1>6. seen < pic[outq[1]] /\ pic[outq[1]] <= taken
    BY <1>2 DEF OrderInv
  <1>7. \A i \in 1 .. Len(outq') : seen' < pic'[outq'[i]]
    BY <1>1, <1>2, <1>3, <1>4 DEF OrderInv
  <1>8. ASSUME NEW i \in 1 .. Len(outq'), NEW j \in 1 .. Len(outq'), i < j
        PROVE  pic'[outq'[i]] < pic'[outq'[j]]
    <2>1. i + 1 < j + 1
      BY <1>4, <1>8
    <2>2. QED
      BY <1>1, <1>3, <1>4, <2>1 DEF OrderInv
  <1>9. dma # << >> =>
          /\ seen' < pic'[dma'[1]]
          /\ \A i \in 1 .. Len(outq') : pic'[outq'[i]] < pic'[dma'[1]]
    BY <1>1, <1>2, <1>3, <1>4 DEF OrderInv
  <1>10. seen' <= taken' /\ \A b \in Buffers : pic'[b] <= taken'
    BY <1>1, <1>2, <1>6 DEF OrderInv
  <1>11. OrderInv'
    BY <1>1, <1>7, <1>8, <1>9, <1>10 DEF OrderInv
  <1>12. seen' > seen
    BY <1>1, <1>2, <1>5, <1>6
  <1>13. QED
    BY <1>11, <1>12

LEMMA OrderStep ==
  ASSUME TypeOK, RingInv, OrderInv, [Next]_vars
  PROVE  OrderInv'
  <1> USE DEF OrderInv, Goto, driver
  <1>1. CASE UNCHANGED vars
    BY <1>1 DEF vars
  <1>2. CASE BeginPicture \/ EndPicture
    BY <1>2, BeginOrder, EndOrder
  <1>3. CASE Dequeue
    <2>1. CASE outq = << >>
      BY <1>3, <2>1 DEF Dequeue
    <2>2. CASE outq # << >>
      BY <1>3, <2>2, DequeueOrder
    <2>3. QED
      BY <2>1, <2>2
  <1>4. CASE QueueBuffer \/ StreamOn \/ Requeue
    BY <1>4 DEF QueueBuffer, StreamOn, Requeue
  <1>5. CASE SelectReady \/ SelectTimeout \/ SelectInterrupted \/ CallFails
    BY <1>5 DEF SelectReady, SelectTimeout, SelectInterrupted, CallFails, Die
  <1>6. CASE Match \/ Process
    BY <1>6 DEF Match, Process
  <1>7. CASE CopyChunk \/ FrameSent
    BY <1>7 DEF CopyChunk, FrameSent
  <1>8. QED
    BY <1>1, <1>2, <1>3, <1>4, <1>5, <1>6, <1>7 DEF Next, Server

LEMMA InitOrder == Init => OrderInv
  BY DEF Init, OrderInv

LEMMA OrderCorrect == Spec => []OrderInv
  BY InitOrder, OrderStep, TypeCorrect, RingCorrect, PTL DEF Spec

\* Only Dequeue takes the process from "dequeue" to "match".
LEMMA MatchStep ==
  ASSUME TypeOK, OrderInv, [Next]_vars, pc = "dequeue", pc' = "match"
  PROVE  seen' > seen
  <1>1. Dequeue
    BY DEF Next, Server, vars, Goto, Die, QueueBuffer, StreamOn, SelectReady, SelectTimeout,
           SelectInterrupted, CallFails, Match, Requeue, Process, CopyChunk, FrameSent,
           BeginPicture, EndPicture
  <1>2. outq # << >>
    BY <1>1 DEF Dequeue, Goto
  <1>3. QED
    BY <1>1, <1>2, DequeueOrder

\* Every frame that is dequeued was taken after the one before it.
THEOREM PicturesOrdered == Spec => PicturesInOrder
  <1>1. TypeOK /\ OrderInv /\ [Next]_vars
          => [pc = "dequeue" /\ pc' = "match" => seen' > seen]_vars
    BY MatchStep
  <1>2. QED
    BY <1>1, TypeCorrect, OrderCorrect, PTL DEF Spec, PicturesInOrder

-----------------------------------------------------------------------------
(* The chunks of a frame. *)

\* The buffer being used holds what was dequeued or something later, and the
\* last chunk was copied from no later picture than the buffer holds now.
ChunkInv ==
  /\ pc \in {"match", "requeue", "process", "copy"} => seen <= pic[cur]
  /\ pc = "copy" =>
       \A i \in 1 .. Len(copied) :
         /\ seen <= copied[i] /\ copied[i] <= pic[cur]
         /\ i > 1 => copied[i - 1] <= copied[i]

LEMMA BeginLater ==
  ASSUME TypeOK, OrderInv, BeginPicture
  PROVE  pic[cur] <= pic'[cur] /\ pic[cur] \in Nat /\ pic'[cur] \in Nat
  <1>1. pic' = [pic EXCEPT ![Head(inq)] = taken + 1]
    BY DEF BeginPicture
  <1>2. /\ pic \in [Buffers -> 0 .. MaxPictures] /\ cur \in Buffers /\ taken \in Nat
        /\ pic[cur] \in Nat
    BY BoundsAssumption DEF TypeOK
  <1>3. pic[cur] <= taken
    BY <1>2 DEF OrderInv
  <1>4. pic'[cur] = pic[cur] \/ pic'[cur] = taken + 1
    BY <1>1, <1>2
  <1>5. QED
    BY <1>2, <1>3, <1>4

LEMMA CopyForward ==
  ASSUME TypeOK, ChunkInv, CopyChunk
  PROVE  ChunkInv'
  <1>1. /\ pc = "copy" /\ copied' = Append(copied, pic[cur])
        /\ UNCHANGED <<pc, pic, cur, seen>>
    BY DEF CopyChunk, driver
  <1>2. /\ copied \in Seq(0 .. MaxPictures) /\ Len(copied) \in Nat /\ cur \in Buffers
        /\ pic[cur] \in 0 .. MaxPictures /\ seen \in Nat /\ pic[cur] \in Nat
    BY BoundsAssumption DEF TypeOK
  <1>3. Len(copied') = Len(copied) + 1 /\ copied'[Len(copied) + 1] = pic[cur]
    BY <1>1, <1>2
  <1>4. \A i \in 1 .. Len(copied) : copied'[i] = copied[i]
    BY <1>1, <1>2
  <1>5. seen <= pic[cur]
    BY <1>1 DEF ChunkInv
  <1>6. ASSUME NEW i \in 1 .. Len(copied')
        PROVE  /\ seen <= copied'[i] /\ copied'[i] <= pic[cur]
               /\ i > 1 => copied'[i - 1] <= copied'[i]
    <2>1. CASE i \in 1 .. Len(copied)
      <3>1. i > 1 => i - 1 \in 1 .. Len(copied)
        BY <1>2, <2>1
      <3>2. QED
        BY <1>1, <1>4, <2>1, <3>1 DEF ChunkInv
    <2>2. CASE i = Len(copied) + 1
      <3>1. i > 1 => i - 1 = Len(copied) /\ i - 1 \in 1 .. Len(copied)
        BY <1>2, <2>2
      <3>2. i > 1 => copied'[i - 1] <= pic[cur]
        BY <1>1, <1>4, <3>1 DEF ChunkInv
      <3>3. QED
        BY <1>2, <1>3, <1>5, <2>2, <3>2
    <2>3. QED
      BY <1>2, <1>3, <2>1, <2>2
  <1>7. QED
    BY <1>1, <1>5, <1>6 DEF ChunkInv

LEMMA ChunkStep ==
  ASSUME TypeOK, OrderInv, ChunkInv, [Next]_vars
  PROVE  ChunkInv'
  <1> USE DEF Goto, driver
  <1>1. CASE UNCHANGED vars
    BY <1>1 DEF vars, ChunkInv
  <1>2. CASE BeginPicture
    <2>1. UNCHANGED <<pc, cur, seen, copied>>
      BY <1>2 DEF BeginPicture
    <2>2. seen \in Nat /\ \A i \in 1 .. Len(copied) : copied[i] \in Nat
      BY BoundsAssumption, SMTT(30) DEF TypeOK
    <2>3. QED
      BY <1>2, <2>1, <2>2, BeginLater DEF ChunkInv
  <1>3. CASE Dequeue
    <2>1. CASE outq = << >>
      BY <1>3, <2>1 DEF Dequeue, ChunkInv
    <2>2. CASE outq # << >>
      <3>1. pc' = "match" /\ seen' = pic'[cur']
        BY <1>3, <2>2 DEF Dequeue
      <3>2. seen' \in Nat
        <4>1. outq \in Seq(Buffers) /\ Head(outq) \in Buffers
          BY <2>2 DEF TypeOK
        <4>2. pic[Head(outq)] \in 0 .. MaxPictures
          BY <4>1 DEF TypeOK
        <4>3. QED
          BY <1>3, <2>2, <4>2, BoundsAssumption DEF Dequeue
      <3>3. QED
        BY <3>1, <3>2 DEF ChunkInv
    <2>3. QED
      BY <2>1, <2>2
  <1>4. CASE CopyChunk
    BY <1>4, CopyForward
  <1>5. CASE Process
    <2>1. /\ pc = "process" /\ copied' = << >> /\ Len(copied') = 0
          /\ UNCHANGED <<pic, cur, seen>>
      BY <1>5 DEF Process
    <2>2. QED
      BY <2>1 DEF ChunkInv
  <1>6. CASE QueueBuffer \/ StreamOn \/ Requeue \/ EndPicture
    BY <1>6 DEF QueueBuffer, StreamOn, Requeue, EndPicture, ChunkInv
  <1>7. CASE SelectReady \/ SelectTimeout \/ SelectInterrupted \/ CallFails
    BY <1>7 DEF SelectReady, SelectTimeout, SelectInterrupted, CallFails, Die, ChunkInv
  <1>8. CASE Match \/ FrameSent
    BY <1>8 DEF Match, FrameSent, ChunkInv
  <1>9. QED
    BY <1>1, <1>2, <1>3, <1>4, <1>5, <1>6, <1>7, <1>8 DEF Next, Server

LEMMA ElementIn ==
  ASSUME NEW S, NEW s \in Seq(S)
  PROVE  \A k \in 1 .. Len(s) : s[k] \in S
  OBVIOUS

\* The chunks of a frame never go back to an earlier picture.
THEOREM ChunksOrdered == Spec => []ChunksForward
  <1>1. Init => ChunkInv
    BY DEF Init, ChunkInv
  <1>2. TypeOK /\ ChunkInv => ChunksForward
    <2>1. SUFFICES ASSUME TypeOK, ChunkInv, pc = "copy", NEW i \in 1 .. Len(copied)
                   PROVE  copied[i] >= seen /\ (i > 1 => copied[i] >= copied[i - 1])
      BY DEF ChunksForward
    <2>2. /\ copied \in Seq(0 .. MaxPictures) /\ Len(copied) \in Nat
          /\ seen \in Nat /\ copied[i] \in Nat
      <3>1. copied \in Seq(0 .. MaxPictures) /\ seen \in 0 .. MaxPictures
        BY <2>1 DEF TypeOK
      <3>2. \A k \in 1 .. Len(copied) : copied[k] \in 0 .. MaxPictures
        BY <3>1, ElementIn
      <3>3. QED
        BY <2>1, <3>1, <3>2, BoundsAssumption
    <2>3. i > 1 => i - 1 \in 1 .. Len(copied)
      BY <2>1, <2>2
    <2>4. i > 1 => copied[i - 1] \in Nat
      BY <2>2, <2>3, BoundsAssumption
    <2>5. QED
      BY <2>1, <2>2, <2>4 DEF ChunkInv
  <1>3. QED
    BY <1>1, <1>2, ChunkStep, TypeCorrect, OrderCorrect, PTL DEF Spec

-----------------------------------------------------------------------------
(* CaptureDevice. *)

\* Before and while frames are taken no buffer is longer than its memory is to be.
Short == \A k \in Buffers : length[k] <= Size

SetUpInv ==
  phase \in SettingUp =>
    /\ Short
    /\ pc = "queue"
    /\ \A k \in Buffers : memory[k] = IF k < n THEN Size ELSE 0
    /\ phase # "map" => n = 0
    /\ phase = "map" => method # "read" /\ n <= NBufs /\ (method = "mmap" => granted = NBufs)

\* What was dequeued last is what its buffer's length says, until a table is added.
RunInv ==
  phase \in Running =>
    /\ Short
    /\ \A k \in Buffers : memory[k] = IF k < LastBuffer THEN Size ELSE 0
    /\ pc \in {"requeue", "process"} => length[cur] = got
    /\ phase # "run" => method = "read"
    /\ method = "read" => pc = "queue"

CloseInv ==
  phase \in {"close", "closed"} =>
    /\ n <= LastBuffer
    /\ phase = "closed" => n = LastBuffer
    /\ \A k \in Buffers :
         /\ k >= n => memory[k] = IF k < LastBuffer THEN Size ELSE 0
         /\ k < n => memory[k] = 0 \/ (method = "mmap" /\ length[k] < Size)

DevInv ==
  /\ TypeInv
  /\ n \in Nat /\ granted \in Int
  /\ memory \in [Buffers -> Int]
  /\ SetUpInv
  /\ RunInv
  /\ CloseInv
  /\ OverrunExplained

LEMMA LastFacts ==
  /\ LastBuffer \in Nat /\ LastBuffer >= 1 /\ LastBuffer <= NBufs /\ NBufs \in Nat
  /\ Size \in Nat /\ Dht \in Nat
  /\ \A k \in Buffers : k \in Nat /\ k < NBufs
  /\ \A k \in 0 .. LastBuffer - 1 : k \in Buffers /\ k < LastBuffer
  BY BufsAssumption, SizeAssumption DEF LastBuffer, Buffers

\* The kinds of phases are apart.
LEMMA PhasesApart ==
  /\ SettingUp \cap Running = {}
  /\ Reading \subseteq Running /\ {"run", "use"} \subseteq Running
  /\ {"dead", "overrun", "close", "closed"} \cap (SettingUp \cup Running) = {}
  BY DEF SettingUp, Running, Reading

LEMMA DevInit == DeviceInit => DevInv
  <1> SUFFICES ASSUME DeviceInit PROVE DevInv
    OBVIOUS
  <1>1. TypeInv
    BY InitType DEF DeviceInit
  <1>2. Size \in Int /\ 0 \in Int
    BY SizeAssumption
  <1>3. SetUpInv
    BY <1>2, LastFacts DEF DeviceInit, Init, SetUpInv, Short
  <1>4. n \in Nat /\ granted \in Int /\ memory \in [Buffers -> Int]
    BY DEF DeviceInit
  <1>5. phase \notin Running
    BY DEF DeviceInit, Running, Reading
  <1>6. QED
    BY <1>1, <1>3, <1>4, <1>5 DEF DeviceInit, DevInv, RunInv, CloseInv, OverrunExplained

LEMMA SetUpStep ==
  ASSUME DevInv, SetUp
  PROVE  DevInv'
  <1>1. phase \in SettingUp /\ UNCHANGED vars /\ UNCHANGED <<method, got>>
    BY DEF SetUp, open_device, check_dev_cap, set_cropping_rect, QueryControl, ListFormat,
           set_image_format, set_fps, init_read_io, init_stream_io, MapBuffer,
           AllocateBuffer, SetUpFails, Passes, SettingUp
  <1>2. TypeInv'
    BY <1>1 DEF DevInv, TypeInv, TypeOK, vars
  <1>3. Short' /\ pc' = "queue" /\ UNCHANGED <<length, pc, cur, LastBuffer, bytesused>>
    BY <1>1 DEF DevInv, SetUpInv, Short, vars, LastBuffer
  <1>4. n \in Nat /\ granted \in Int /\ memory \in [Buffers -> Int] /\ SetUpInv
    BY DEF DevInv
  <1>11. granted' \in Int
    BY <1>4, LastFacts
    DEF SetUp, open_device, check_dev_cap, set_cropping_rect, QueryControl, ListFormat,
        set_image_format, set_fps, init_read_io, init_stream_io, MapBuffer,
        AllocateBuffer, SetUpFails, Passes
  <1> DEFINE Elsewhere == \/ phase' = "dead" /\ UNCHANGED <<n, memory>>
                          \/ phase' \in SettingUp \ {"map"} /\ phase # "map"
                               /\ UNCHANGED <<n, memory>>
  <1>5. ASSUME Elsewhere PROVE DevInv'
    <2>1. CASE phase' = "dead" /\ UNCHANGED <<n, memory>>
      BY <1>2, <1>4, <1>11, <2>1, PhasesApart
      DEF DevInv, SetUpInv, RunInv, CloseInv, OverrunExplained
    <2>2. CASE phase' \in SettingUp \ {"map"} /\ phase # "map" /\ UNCHANGED <<n, memory>>
      <3>1. SetUpInv'
        BY <1>1, <1>3, <1>4, <2>2 DEF SetUpInv
      <3>2. phase' \notin Running \cup {"close", "closed", "overrun"}
        BY <2>2, PhasesApart
      <3>3. QED
        BY <1>2, <1>4, <1>11, <2>2, <3>1, <3>2
        DEF DevInv, RunInv, CloseInv, OverrunExplained
    <2>3. QED
      BY <1>5, <2>1, <2>2
  <1>6. CASE \/ open_device \/ check_dev_cap \/ set_cropping_rect \/ QueryControl
             \/ ListFormat \/ set_image_format \/ set_fps \/ SetUpFails
    <2>1. Elsewhere
      BY <1>6 DEF open_device, check_dev_cap, set_cropping_rect, QueryControl, ListFormat,
                  set_image_format, set_fps, SetUpFails, Passes, SettingUp
    <2>2. QED
      BY <1>5, <2>1
  <1>7. CASE init_read_io
    <2>1. memory' = [memory EXCEPT ![0] = Size] /\ n' = 1 /\ phase' = "poll" /\ method = "read"
      BY <1>7 DEF init_read_io
    <2>2. n = 0 /\ \A k \in Buffers : memory[k] = 0
      BY <1>1, <1>4, <1>7, LastFacts DEF init_read_io, SetUpInv
    <2>3. memory' \in [Buffers -> Int]
      BY <1>4, <2>1, LastFacts
    <2>4. \A k \in Buffers : memory'[k] = IF k < LastBuffer' THEN Size ELSE 0
      BY <1>1, <1>4, <2>1, <2>2, LastFacts DEF LastBuffer
    <2>5. RunInv'
      BY <1>1, <1>3, <2>1, <2>4 DEF RunInv
    <2>6. QED
      BY <1>2, <1>11, <2>1, <2>3, <2>5 DEF DevInv, SetUpInv, CloseInv, OverrunExplained, SettingUp
  <1>8. CASE init_stream_io
    <2>1. phase = "request" /\ UNCHANGED <<n, memory>> /\ method # "read"
      BY <1>8 DEF init_stream_io
    <2>2. phase' = "dead" \/ phase' = "map"
      BY <1>8 DEF init_stream_io
    <2>3. phase' = "map" => (method = "mmap" => granted' = NBufs)
      BY <1>8 DEF init_stream_io
    <2>4. n = 0
      BY <1>4, <2>1 DEF SetUpInv, SettingUp
    <2>5. SetUpInv'
      BY <1>1, <1>3, <1>4, <2>1, <2>2, <2>3, <2>4, LastFacts DEF SetUpInv, SettingUp
    <2>6. QED
      BY <1>2, <1>4, <1>11, <2>1, <2>2, <2>5, PhasesApart
      DEF DevInv, RunInv, CloseInv, OverrunExplained, SettingUp
  <1>9. CASE MapBuffer \/ AllocateBuffer
    <2>1. phase = "map" /\ method # "read" /\ n <= NBufs /\ (method = "mmap" => granted = NBufs)
      BY <1>4, <1>9 DEF MapBuffer, AllocateBuffer, SetUpInv, SettingUp
    <2>2. UNCHANGED granted
      BY <1>9 DEF MapBuffer, AllocateBuffer
    <2>3. CASE n < NBufs /\ n' = n + 1 /\ memory' = [memory EXCEPT ![n] = Size] /\ UNCHANGED phase
      <3>1. n \in Buffers
        BY <1>4, <2>3, LastFacts DEF Buffers
      <3>2. memory' \in [Buffers -> Int]
        BY <1>4, <2>3, <3>1, LastFacts
      <3>3. \A k \in Buffers : memory[k] = IF k < n THEN Size ELSE 0
        BY <1>1, <1>4 DEF SetUpInv
      <3>4. \A k \in Buffers : memory'[k] = IF k < n' THEN Size ELSE 0
        BY <1>4, <2>3, <3>1, <3>3, LastFacts
      <3>5. n' \in Nat /\ n' <= NBufs
        BY <1>4, <2>3, LastFacts
      <3>6. SetUpInv'
        BY <1>1, <1>3, <2>1, <2>2, <2>3, <3>4, <3>5 DEF SetUpInv
      <3>7. QED
        BY <1>2, <1>11, <2>1, <2>3, <3>2, <3>5, <3>6
        DEF DevInv, RunInv, CloseInv, OverrunExplained, Running, Reading
    <2>4. CASE n = NBufs /\ phase' = "run" /\ UNCHANGED <<n, memory>>
      <3>1. LastBuffer' = NBufs
        BY <1>1, <2>1 DEF LastBuffer
      <3>2. \A k \in Buffers : memory'[k] = IF k < LastBuffer' THEN Size ELSE 0
        BY <1>1, <1>4, <2>4, <3>1 DEF SetUpInv
      <3>3. RunInv'
        BY <1>1, <1>3, <2>1, <2>4, <3>2 DEF RunInv
      <3>4. QED
        BY <1>2, <1>4, <1>11, <2>4, <3>3 DEF DevInv, SetUpInv, CloseInv, OverrunExplained, SettingUp
    <2>5. CASE method = "userptr" /\ n < NBufs /\ n >= granted /\ phase' = "overrun"
               /\ UNCHANGED <<n, memory>> /\ granted < NBufs
      BY <1>1, <1>2, <1>4, <1>11, <2>2, <2>5, PhasesApart
      DEF DevInv, SetUpInv, RunInv, CloseInv, OverrunExplained
    <2>6. CASE MapBuffer
      BY <1>4, <2>1, <2>3, <2>4, <2>6, LastFacts DEF MapBuffer
    <2>7. CASE AllocateBuffer
      <3>1. CASE n = NBufs
        BY <2>4, <2>7, <3>1 DEF AllocateBuffer
      <3>2. CASE n < NBufs /\ n >= granted
        BY <1>4, <2>1, <2>5, <2>7, <3>2, LastFacts DEF AllocateBuffer
      <3>3. CASE n < NBufs /\ ~(n >= granted)
        BY <1>4, <2>3, <2>7, <3>3, LastFacts DEF AllocateBuffer
      <3>4. QED
        BY <1>4, <2>1, <3>1, <3>2, <3>3, LastFacts
    <2>8. QED
      BY <1>9, <2>6, <2>7
  <1>10. QED
    BY <1>6, <1>7, <1>8, <1>9 DEF SetUp

LEMMA StreamStep ==
  ASSUME DevInv, Stream
  PROVE  DevInv'
  <1>1. /\ phase = "run" /\ method # "read" /\ Next
        /\ phase' = IF Spilt \/ pc' = "overrun" THEN "overrun" ELSE phase
        /\ got' = IF pc = "match" /\ pc' = "requeue" THEN bytesused[cur] ELSE got
        /\ UNCHANGED <<method, granted, n, memory>>
    BY DEF Stream, Streamed
  <1>2. TypeInv'
    BY <1>1, TypeStep DEF DevInv
  <1>3. /\ Short /\ \A k \in Buffers : memory[k] = Size
        /\ pc \in {"requeue", "process"} => length[cur] = got
    <2>1. LastBuffer = NBufs
      BY <1>1 DEF LastBuffer
    <2>2. QED
      BY <1>1, <2>1, LastFacts, PhasesApart DEF DevInv, RunInv
  <1>4. /\ cur \in Buffers /\ bytesused \in [Buffers -> 0 .. Size]
        /\ length \in [Buffers -> 0 .. Size + Dht]
        /\ length' \in [Buffers -> 0 .. Size + Dht]
    BY <1>2 DEF DevInv, TypeInv, TypeOK
  <1>5. LastBuffer = NBufs /\ LastBuffer' = NBufs
    BY <1>1 DEF LastBuffer
  <1>6. Spilt <=> \E k \in Buffers : length'[k] > Size
    BY <1>3, <1>5 DEF Spilt, Buffers
  <1>7. ~Spilt => Short'
    BY <1>4, <1>6, LastFacts DEF Short
  \* What a step does to the lengths.
  <1> DEFINE Same == length' = length
                     /\ (pc' \in {"requeue", "process"} => pc \in {"requeue", "process"} /\ cur' = cur)
                     /\ ~(pc = "match" /\ pc' = "requeue")
                     /\ pc' # "overrun"
  <1>8. ASSUME Same
        PROVE  ~Spilt /\ pc' # "overrun" /\ (pc' \in {"requeue", "process"} => length'[cur'] = got')
    <2>1. ~Spilt
      BY <1>3, <1>4, <1>6, <1>8, LastFacts DEF Short
    <2>2. got' = got
      BY <1>1, <1>8
    <2>3. QED
      BY <1>3, <1>8, <2>1, <2>2
  <1>9. /\ Spilt => got' + Dht > Size
        /\ pc' = "overrun" => got' < 2
        /\ ~Spilt => (pc' \in {"requeue", "process"} => length'[cur'] = got')
    <2>1. CASE Match
      <3>1. CASE Matches(cur)
        <4>1. /\ length' = [length EXCEPT ![cur] = bytesused[cur]]
              /\ pc = "match" /\ pc' = "requeue" /\ cur' = cur
          BY <2>1, <3>1 DEF Match, Goto
        <4>2. got' = bytesused[cur] /\ length'[cur] = bytesused[cur]
          BY <1>1, <1>4, <4>1
        <4>3. ~Spilt
          BY <1>3, <1>4, <1>6, <4>1, LastFacts DEF Short
        <4>4. QED
          BY <4>1, <4>2, <4>3
      <3>2. CASE ~Matches(cur)
        <4>1. Same
          BY <2>1, <3>2 DEF Match, Goto
        <4>2. QED
          BY <1>8, <4>1
      <3>3. QED
        BY <3>1, <3>2
    <2>2. CASE Process
      <3>1. /\ pc = "process" /\ pc' \in {"copy", "overrun"} /\ cur' = cur
            /\ pc' = "overrun" => length[cur] < 2
        BY <2>2 DEF Process, Goto
      <3>2. PICK m \in {0, Dht} : length' = [length EXCEPT ![cur] = @ + m]
        <4>1. CASE \E m \in {0, Dht} : length' = [length EXCEPT ![cur] = @ + m]
          BY <4>1
        <4>2. CASE length' = length
          <5>1. length' = [length EXCEPT ![cur] = @ + 0]
            BY <1>4, <4>2, LastFacts
          <5>2. QED
            BY <5>1
        <4>3. QED
          BY <2>2, <4>1, <4>2 DEF Process
      <3>3. length[cur] = got /\ got' = got
        BY <1>1, <1>3, <3>1
      <3>4. length'[cur] = got + m /\ \A k \in Buffers \ {cur} : length'[k] = length[k]
        BY <1>4, <3>2, <3>3
      <3>5. got \in Int /\ got <= Size
        BY <1>3, <1>4, <3>3, LastFacts DEF Short
      <3>6. Spilt => got + m > Size
        BY <1>3, <1>4, <1>6, <3>4, LastFacts DEF Short
      <3>7. Spilt => got' + Dht > Size
        BY <3>3, <3>5, <3>6, LastFacts
      <3>8. pc' = "overrun" => got' < 2
        BY <3>1, <3>3
      <3>9. QED
        BY <3>1, <3>7, <3>8
    <2>3. CASE Next /\ ~Match /\ ~Process
      <3>1. ASSUME Dequeue PROVE Same
        <4>1. CASE outq = << >>
          BY <3>1, <4>1 DEF Dequeue, Goto
        <4>2. CASE outq # << >>
          BY <3>1, <4>2 DEF Dequeue, Goto
        <4>3. QED
          BY <4>1, <4>2
      <3>2. ASSUME QueueBuffer \/ StreamOn \/ Requeue \/ CopyChunk \/ FrameSent PROVE Same
        BY <3>2 DEF QueueBuffer, StreamOn, Requeue, CopyChunk, FrameSent, Goto
      <3>3. ASSUME SelectReady \/ SelectTimeout \/ SelectInterrupted \/ CallFails PROVE Same
        BY <3>3 DEF SelectReady, SelectTimeout, SelectInterrupted, CallFails, Die, Goto
      <3>4. ASSUME BeginPicture \/ EndPicture PROVE Same
        BY <3>4 DEF BeginPicture, EndPicture, Streaming
      <3>5. Same
        BY <2>3, <3>1, <3>2, <3>3, <3>4 DEF Next, Server
      <3>6. QED
        BY <1>8, <3>5
    <2>4. QED
      BY <1>1, <2>1, <2>2, <2>3
  <1>10. RunInv'
    BY <1>1, <1>3, <1>5, <1>7, <1>9, LastFacts, PhasesApart DEF RunInv
  <1>11. OverrunExplained'
    BY <1>1, <1>9 DEF OverrunExplained
  <1>12. SetUpInv' /\ CloseInv'
    BY <1>1, PhasesApart DEF SetUpInv, CloseInv
  <1>13. QED
    BY <1>1, <1>2, <1>10, <1>11, <1>12 DEF DevInv

LEMMA ReadStep ==
  ASSUME DevInv, ReadFrame
  PROVE  DevInv'
  <1>1. /\ phase \in Running /\ method = "read"
        /\ length' \in {[length EXCEPT ![0] = @ + more] : more \in {0, Dht}}
        /\ phase' = IF Spilt THEN "overrun" ELSE "use"
        /\ UNCHANGED <<io, pc, driver, cur, seen, copied, interrupts, method, granted, n, memory, got>>
    <2>1. phase \in Running /\ phase # "run"
      BY DEF ReadFrame, Running, Reading
    <2>2. QED
      BY <2>1 DEF ReadFrame, DevInv, RunInv
  <1>2. PICK more \in {0, Dht} : length' = [length EXCEPT ![0] = @ + more]
    BY <1>1
  <1>3. /\ Short /\ \A k \in Buffers : memory[k] = IF k < LastBuffer THEN Size ELSE 0
        /\ length \in [Buffers -> 0 .. Size + Dht] /\ LastBuffer = 1
        /\ cur \in Buffers
    BY <1>1 DEF DevInv, RunInv, TypeInv, TypeOK, LastBuffer
  <1>4. length' \in [Buffers -> 0 .. Size + Dht]
    <2>1. length[0] + more \in 0 .. Size + Dht
      BY <1>2, <1>3, LastFacts, BufferFacts DEF Short
    <2>2. QED
      BY <1>2, <1>3, <2>1
  <1>5. ~Spilt => Short'
    <2>1. memory[0] = Size /\ 0 \in 0 .. LastBuffer - 1
      BY <1>3, BufferFacts
    <2>2. ~Spilt => ~(length'[0] > Size)
      BY <2>1 DEF Spilt
    <2>3. \A k \in Buffers : k # 0 => length'[k] = length[k]
      BY <1>2, <1>3
    <2>4. QED
      BY <1>3, <1>4, <2>2, <2>3, LastFacts, BufferFacts DEF Short
  <1>6. memory' = memory /\ pc = "queue" /\ pc' = pc
    BY <1>1 DEF DevInv, RunInv
  <1>7. TypeInv'
    BY <1>1, <1>4, <1>6 DEF DevInv, TypeInv, TypeOK, driver
  <1>8. RunInv'
    BY <1>1, <1>3, <1>5, <1>6, PhasesApart DEF RunInv, LastBuffer
  <1>9. QED
    BY <1>1, <1>6, <1>7, <1>8, PhasesApart
    DEF DevInv, SetUpInv, CloseInv, OverrunExplained

\* The steps of the read method that leave the buffer alone.
LEMMA ReadRestStep ==
  ASSUME DevInv, ReadReady \/ ReadInterrupted \/ ReadAgain \/ ReadFails \/ PictureUsed
  PROVE  DevInv'
  <1>1. /\ phase \in Running /\ phase # "run"
        /\ phase' \in {"poll", "read", "try", "dead"}
        /\ interrupts' \in {interrupts, interrupts + 1} /\ (interrupts' # interrupts => interrupts < MaxInterrupts)
        /\ UNCHANGED <<io, pc, driver, length, cur, seen, copied, method, granted, n, memory, got>>
    <2>1. CASE ReadReady \/ PictureUsed
      BY <2>1 DEF ReadReady, PictureUsed, Passes, Running, Reading, vars, driver
    <2>2. CASE ReadInterrupted
      BY <2>2 DEF ReadInterrupted, Running, Reading
    <2>3. CASE ReadAgain
      BY <2>3 DEF ReadAgain, Running, Reading
    <2>4. CASE ReadFails
      BY <2>4 DEF ReadFails, Running, Reading, vars, driver
    <2>5. QED
      BY <2>1, <2>2, <2>3, <2>4
  <1>2. TypeInv /\ RunInv
    BY DEF DevInv
  <1>3. interrupts' \in 0 .. MaxInterrupts
    BY <1>1, <1>2, BoundsAssumption DEF TypeInv, TypeOK
  <1>4. TypeInv'
    BY <1>1, <1>2, <1>3 DEF TypeInv, TypeOK, driver
  <1>5. RunInv'
    BY <1>1, <1>2 DEF RunInv, Short, LastBuffer
  <1>6. phase' \notin SettingUp
    BY <1>1 DEF SettingUp
  <1>7. QED
    BY <1>1, <1>4, <1>5, <1>6 DEF DevInv, SetUpInv, CloseInv, OverrunExplained

LEMMA StopStep ==
  ASSUME DevInv, stop_capturing
  PROVE  DevInv'
  <1>1. /\ phase \in {"run", "use"} /\ phase' = "close" /\ n' = 0
        /\ pc' \in {pc, "queue"}
        /\ inq' = << >> /\ dma' = << >> /\ outq' = << >>
        /\ UNCHANGED <<io, pic, bytesused, taken, length, cur, seen, copied, interrupts,
                       method, granted, memory>>
    BY DEF stop_capturing
  <1>2. TypeInv'
    <2>1. TypeInv
      BY DEF DevInv
    <2>2. pc' \in AtWork \cup {"dead", "aborted", "overrun"}
      BY <1>1, <2>1 DEF TypeInv, TypeOK, AtWork
    <2>3. inq' \in Seq(Buffers) /\ outq' \in Seq(Buffers) /\ dma' \in Seq(Buffers) /\ Len(dma') <= 1
      BY <1>1
    <2>4. QED
      BY <1>1, <2>1, <2>2, <2>3 DEF TypeInv, TypeOK
  <1>3. \A k \in Buffers : memory'[k] = IF k < LastBuffer' THEN Size ELSE 0
    BY <1>1, PhasesApart DEF DevInv, RunInv, LastBuffer
  <1>4. CloseInv'
    BY <1>1, <1>3, LastFacts DEF CloseInv, LastBuffer
  <1>5. QED
    BY <1>1, <1>2, <1>4, PhasesApart DEF DevInv, SetUpInv, RunInv, OverrunExplained

LEMMA CloseStep ==
  ASSUME DevInv, CloseBuffer
  PROVE  DevInv'
  <1>1. phase = "close" /\ UNCHANGED vars /\ UNCHANGED <<method, granted, got, LastBuffer, length>>
    BY DEF CloseBuffer, vars, LastBuffer
  <1>2. TypeInv' /\ n \in Nat /\ granted \in Int /\ memory \in [Buffers -> Int]
    BY <1>1 DEF DevInv, TypeInv, TypeOK, vars
  <1>3. /\ n <= LastBuffer
        /\ \A k \in Buffers :
             /\ k >= n => memory[k] = IF k < LastBuffer THEN Size ELSE 0
             /\ k < n => memory[k] = 0 \/ (method = "mmap" /\ length[k] < Size)
    BY <1>1 DEF DevInv, CloseInv
  <1>4. CASE n # LastBuffer
    <2>1. /\ memory' = [memory EXCEPT ![n] = @ - Freed(n)]
          /\ n' = n + 1 /\ phase' = "close"
      BY <1>1, <1>4 DEF CloseBuffer
    <2>2. n < LastBuffer /\ n \in Buffers /\ n' <= LastBuffer /\ n' \in Nat
      BY <1>2, <1>3, <1>4, <2>1, LastFacts DEF Buffers
    <2>3. memory[n] = Size /\ length[n] \in Int
      BY <1>2, <1>3, <2>2, LastFacts DEF DevInv, TypeInv, TypeOK
    <2>4. Freed(n) \in Int /\ (Freed(n) = Size \/ (method = "mmap" /\ length[n] < Size))
      BY <2>3, LastFacts DEF Freed
    <2>5. memory' \in [Buffers -> Int] /\ memory'[n] = Size - Freed(n)
      BY <1>2, <2>1, <2>2, <2>3, <2>4, LastFacts
    <2>6. memory'[n] = 0 \/ (method = "mmap" /\ length[n] < Size)
      BY <2>4, <2>5, LastFacts
    <2>7. \A k \in Buffers : k # n => memory'[k] = memory[k]
      BY <1>2, <2>1
    <2>8. ASSUME NEW k \in Buffers
          PROVE  /\ k >= n' => memory'[k] = IF k < LastBuffer THEN Size ELSE 0
                 /\ k < n' => memory'[k] = 0 \/ (method = "mmap" /\ length[k] < Size)
      <3>1. k \in Nat /\ (k = n \/ k < n \/ k >= n + 1)
        BY <1>2, LastFacts
      <3>2. CASE k = n
        BY <1>2, <2>1, <2>6, <3>2
      <3>3. CASE k < n
        BY <1>2, <1>3, <2>1, <2>7, <3>1, <3>3
      <3>4. CASE k >= n + 1
        BY <1>2, <1>3, <2>1, <2>7, <3>1, <3>4
      <3>5. QED
        BY <3>1, <3>2, <3>3, <3>4
    <2>9. CloseInv'
      BY <1>1, <2>1, <2>2, <2>8 DEF CloseInv
    <2>10. QED
      BY <1>1, <1>2, <2>1, <2>2, <2>5, <2>9, PhasesApart
      DEF DevInv, SetUpInv, RunInv, OverrunExplained
  <1>5. CASE n = LastBuffer
    <2>1. phase' = "closed" /\ UNCHANGED <<n, memory>>
      BY <1>5 DEF CloseBuffer
    <2>2. CloseInv'
      BY <1>1, <1>3, <1>5, <2>1 DEF CloseInv
    <2>3. QED
      BY <1>1, <1>2, <2>1, <2>2, PhasesApart DEF DevInv, SetUpInv, RunInv, OverrunExplained
  <1>6. QED
    BY <1>4, <1>5

LEMMA DevStep == DevInv /\ [DeviceNext]_allVars => DevInv'
  <1> SUFFICES ASSUME DevInv, [DeviceNext]_allVars PROVE DevInv'
    OBVIOUS
  <1>1. CASE SetUp
    BY <1>1, SetUpStep
  <1>2. CASE Stream
    BY <1>2, StreamStep
  <1>3. CASE ReadFrame
    BY <1>3, ReadStep
  <1>4. CASE EndFails
    BY <1>4, PhasesApart DEF EndFails, vars, DevInv, TypeInv, TypeOK, SetUpInv, RunInv, CloseInv,
                OverrunExplained
  <1>9. CASE ReadReady \/ ReadInterrupted \/ ReadAgain \/ ReadFails \/ PictureUsed
    BY <1>9, ReadRestStep
  <1>5. CASE stop_capturing
    BY <1>5, StopStep
  <1>6. CASE CloseBuffer
    BY <1>6, CloseStep
  <1>7. CASE UNCHANGED allVars
    BY <1>7 DEF allVars, devVars, vars, DevInv, TypeInv, TypeOK, SetUpInv, RunInv, CloseInv,
                OverrunExplained, SettingUp, Short, LastBuffer
  <1>8. QED
    BY <1>1, <1>2, <1>3, <1>4, <1>5, <1>6, <1>7, <1>9 DEF DeviceNext, Read

LEMMA DevCorrect == DeviceSpec => []DevInv
  BY DevInit, DevStep, PTL DEF DeviceSpec

\* For any number of buffers: every buffer frames are taken into has its full
\* length behind it, and only short pictures leave memory mapped at the end.
THEOREM MemoryKept == DeviceSpec => []MemoryAccounted
  <1>1. DevInv => MemoryAccounted
    <2> SUFFICES ASSUME DevInv PROVE MemoryAccounted
      OBVIOUS
    <2>1. phase \in Running => \A k \in 0 .. LastBuffer - 1 : memory[k] = Size
      BY LastFacts DEF DevInv, RunInv
    <2>2. ASSUME phase = "closed", NEW k \in Buffers, memory[k] # 0
          PROVE  method = "mmap" /\ length[k] < Size
      <3>1. n = LastBuffer /\ n \in Nat /\ k \in Nat
        BY <2>2, LastFacts DEF DevInv, CloseInv
      <3>2. CASE k >= n
        <4>1. ~(k < LastBuffer)
          BY <3>1, <3>2
        <4>2. QED
          BY <2>2, <3>2, <4>1 DEF DevInv, CloseInv
      <3>3. CASE k < n
        BY <2>2, <3>3 DEF DevInv, CloseInv
      <3>4. QED
        BY <3>1, <3>2, <3>3
    <2>3. QED
      BY <2>1, <2>2 DEF MemoryAccounted
  <1>2. QED
    BY <1>1, DevCorrect, PTL

\* For any sizes: memory is overrun only for one of the four named reasons.
THEOREM OverrunsExplained == DeviceSpec => []OverrunExplained
  BY DevCorrect, PTL DEF DevInv
=============================================================================
