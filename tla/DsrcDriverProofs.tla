--------------------------- MODULE DsrcDriverProofs ---------------------------
(***************************************************************************)
(* Proofs about DsrcDriver, for any packets, clients and numbers of        *)
(* messages, faults and changes of the configuration.                      *)
(***************************************************************************)
EXTENDS DsrcDriver, SequenceTheorems, WellFoundedInduction, TLAPS

(* The parts of TypeOK: the threads, the counters, and the messages. *)
ThreadType ==
    /\ main \in {"pre", "clear", "connect", "spin", "post", "join", "joinConn", "exit", "down",
                "crashed"}
    /\ back \in {"pre", "clear", "spin", "exit"}
    /\ conn \in {"none", "copy", "build", "up", "signal", "done"}
    /\ io \in {"off", "idle", "busy", "ended"}
    /\ connecting \in BOOLEAN /\ running \in BOOLEAN /\ shutdown \in BOOLEAN
    /\ listener \in {"none", "bound", "live", "deaf", "stale"}
    /\ status \in {"OFF", "OPERATIONAL"} /\ bonds \subseteq Client

CountType ==
    /\ epoch \in Nat /\ error \in Nat /\ config \in 0 .. MaxChanges /\ cfg \in 0 .. config
    /\ msgs \in 0 .. MaxMsgs /\ faults \in 0 .. MaxFaults

MessageType ==
    /\ hand \in 0 .. MaxMsgs /\ posted \in Seq(0 .. MaxMsgs)
    /\ queue \in Seq(1 .. MaxMsgs) /\ sent \in Seq(1 .. MaxMsgs)

(* The connect thread is alone with the client: connecting_ is set as long as it lives, it
   finds no connection, and close() has nothing to wait for until it has made one. *)
ConnInv ==
    /\ connecting = (conn # "none")
    /\ conn \in {"copy", "build", "up"} => ~running /\ main # "join"
    /\ ~running /\ main # "join" => posted = <<>>
    /\ ~running /\ main # "join" /\ conn # "up" => io = "off"
    /\ io # "busy" => hand = 0
    /\ main = "join" => back # "pre"

(* An error belongs to the connection that is the last; it is cleared before the next one. *)
ErrorInv ==
    /\ error # 0 => error = epoch
    /\ conn \in {"copy", "build"} => error = 0
    /\ main = "connect" => error = 0 \/ running \/ conn = "up"

(* shutdown() is at work or done. *)
Leaving == main \in {"exit", "down"} \/ (main = "join" /\ back = "exit")

(* The connect thread has been joined and the connection closed by then. *)
ExitInv == (Leaving => conn = "none" /\ ~running) /\ (Leaving \/ main = "joinConn" => shutdown)

(* Every connection but the first was made after a fault or a change of the configuration:
   as long as there is one its error, and otherwise its end, has been paid for. *)
EpochInv ==
    /\ epoch <= 1 + faults + config
    /\ running \/ conn = "up" => epoch + (IF error # 0 THEN 1 ELSE 0) <= 1 + faults + config
    /\ ~running /\ conn # "up" /\ ~Leaving => epoch <= faults + config

(* Messages of the topic are numbered as they come in, and stay in order on their way through
   the queue, the posted sends and the io thread; the sends of the service are 0. *)
OrderInv ==
    /\ hand <= msgs
    /\ \A i \in DOMAIN posted :
         posted[i] # 0 => posted[i] <= msgs /\ hand < posted[i]
    /\ \A i, j \in DOMAIN posted :
         i < j /\ posted[i] # 0 /\ posted[j] # 0 => posted[i] < posted[j]
    /\ \A k \in DOMAIN queue : queue[k] <= msgs /\ hand < queue[k]
    /\ \A k, l \in DOMAIN queue : k < l => queue[k] < queue[l]
    /\ \A i \in DOMAIN posted, k \in DOMAIN queue : posted[i] < queue[k]

(* What went to the radio is in order, and older than all that is still on its way. *)
SentInv ==
    /\ SentInOrder
    /\ \A n \in DOMAIN sent :
         /\ sent[n] <= msgs
         /\ hand # 0 => sent[n] < hand
         /\ \A i \in DOMAIN posted : posted[i] # 0 => sent[n] < posted[i]
         /\ \A k \in DOMAIN queue : sent[n] < queue[k]

IInv == /\ ThreadType /\ CountType /\ MessageType /\ ConnInv /\ ErrorInv /\ ExitInv /\ EpochInv
        /\ OrderInv /\ SentInv /\ PublishedIsFramed

-----------------------------------------------------------------------------
(* Sequences *)

(* Taking the first entry of a sequence of numbers. *)
LEMMA HeadTail ==
    ASSUME NEW S \in SUBSET Nat, NEW q \in Seq(S), q # <<>>
    PROVE  /\ Head(q) = q[1] /\ Head(q) \in S /\ Tail(q) \in Seq(S) /\ 1 \in DOMAIN q
           /\ DOMAIN q = 1 .. Len(q) /\ Len(q) \in Nat \ {0}
           /\ DOMAIN Tail(q) = 1 .. Len(q) - 1
           /\ \A i \in DOMAIN Tail(q) : i + 1 \in DOMAIN q /\ Tail(q)[i] = q[i + 1]
OBVIOUS

(* Appending an entry to a sequence of numbers. *)
LEMMA AppendLast ==
    ASSUME NEW S \in SUBSET Nat, NEW q \in Seq(S), NEW e \in S
    PROVE  /\ Append(q, e) \in Seq(S) /\ Len(q) \in Nat
           /\ DOMAIN q = 1 .. Len(q) /\ DOMAIN Append(q, e) = 1 .. Len(q) + 1
           /\ \A i \in DOMAIN q : Append(q, e)[i] = q[i]
           /\ Append(q, e)[Len(q) + 1] = e
OBVIOUS

(* Every set of natural numbers that is not empty has a least element, which is Min. *)
LEMMA MinProperty ==
    ASSUME NEW S \in SUBSET Nat, S # {}
    PROVE  Min(S) \in S /\ \A y \in S : Min(S) <= y
<1>1. PICK x \in S : \A y \in S : ~(<<y, x>> \in OpToRel(<, Nat))
  BY NatLessThanWellFounded, WFMin
<1>2. \A y \in S : ~(y < x)
  BY <1>1 DEF OpToRel
<1>3. \A y \in S : x <= y
  BY <1>2
<1> QED
  BY <1>3 DEF Min

(* The first byte of a long length field carries six bits of the length. *)
LEMMA ShortForm == \A b \in 1 .. 191 : ~(b < 128) => b % 64 = b - 128
<1> SUFFICES ASSUME NEW b \in 128 .. 191
             PROVE  b % 64 = b - 128
  OBVIOUS
<1>1. b = 64 * 2 + (b - 128) /\ b - 128 \in 0 .. 63
  OBVIOUS
<1> QED
  BY <1>1, Z3

(* What DSRCOBUClient::process cuts out of a packet has the length that its own length field
   announces. *)
LEMMA ProcessFrames ==
    ASSUME NEW p \in Seq(0 .. 255), process(p) # <<>>
    PROVE  Framed(process(p))
<1> DEFINE starts == {i \in 1 .. Len(p) - 3 : Readable(p, i) /\ Fits(p, i)}
           s == Min(starts)
           n == s + 1 + BodyLength(p, s) + LengthBytes(p, s)
<1>1. process(p) = IF starts = {} THEN <<>> ELSE SubSeq(p, s, n)
  BY DEF process
<1>2. starts # {} /\ process(p) = SubSeq(p, s, n)
  BY <1>1
<1>3. s \in starts
  <2>1. starts \in SUBSET Nat
    OBVIOUS
  <2> QED
    BY <1>2, <2>1, MinProperty
<1>4. s \in 1 .. Len(p) - 3 /\ Readable(p, s) /\ Fits(p, s)
  BY <1>3
<1> HIDE DEF starts, s
<1> DEFINE b == p[s + 2]
           c == p[s + 3]
<1>5. /\ s \in Nat /\ s >= 1 /\ s + 3 <= Len(p) /\ Len(p) \in Nat
      /\ b \in 1 .. 191 /\ c \in 0 .. 255
  <2>1. s \in Nat /\ s >= 1 /\ s + 3 <= Len(p) /\ Len(p) \in Nat
    BY <1>4
  <2>2. s + 2 \in 1 .. Len(p) /\ s + 3 \in 1 .. Len(p)
    BY <2>1
  <2>3. b \in 0 .. 255 /\ c \in 0 .. 255
    BY <2>2, ElementOfSeq
  <2>4. b # 0 /\ b < 192
    BY <1>4 DEF Readable
  <2> HIDE DEF b, c
  <2>5. b \in 1 .. 191
    BY <2>3, <2>4
  <2> QED
    BY <2>1, <2>3, <2>5
<1>6. /\ BodyLength(p, s) = IF b < 128 THEN b ELSE (b - 128) * 256 + c
      /\ LengthBytes(p, s) = IF b < 128 THEN 1 ELSE 2
  BY DEF BodyLength, LengthBytes
<1> HIDE DEF b, c
<1>7. n \in Nat /\ n <= Len(p) /\ n >= s + 3
  <2>1. s + BodyLength(p, s) + LengthBytes(p, s) < Len(p)
    BY <1>4 DEF Fits
  <2>2. BodyLength(p, s) \in Nat /\ LengthBytes(p, s) \in Nat /\ BodyLength(p, s) + LengthBytes(p, s) >= 2
    BY <1>5, <1>6
  <2> QED
    BY <1>5, <2>1, <2>2
<1>8. Len(process(p)) = n - s + 1 /\ process(p)[3] = b /\ process(p)[4] = c
  <2>1. s \in 1 .. Len(p) + 1 /\ n \in s - 1 .. Len(p)
    BY <1>5, <1>7
  <2>2. /\ Len(SubSeq(p, s, n)) = n - s + 1
        /\ \A i \in 1 .. n - s + 1 : SubSeq(p, s, n)[i] = p[s + i - 1]
    BY <2>1, SubSeqProperties
  <2>3. 3 \in 1 .. n - s + 1 /\ 4 \in 1 .. n - s + 1
    BY <1>5, <1>7
  <2>4. s + 3 - 1 = s + 2 /\ s + 4 - 1 = s + 3
    BY <1>5
  <2> QED
    BY <1>2, <2>2, <2>3, <2>4 DEF b, c
<1>9. Len(process(p)) = IF b < 128 THEN 3 + b ELSE 4 + (b - 128) * 256 + c
  BY <1>5, <1>6, <1>8
<1>10. ~(b < 128) => b % 64 = b - 128
  BY <1>5, ShortForm
<1> QED
  BY <1>8, <1>9, <1>10 DEF Framed

-----------------------------------------------------------------------------
(* Every part of the invariant is preserved by every step *)

(* Threads keep to their code. *)
LEMMA ThreadStep == IInv /\ [Next]_vars => ThreadType'
<1> SUFFICES ASSUME IInv, [Next]_vars
             PROVE  ThreadType'
  OBVIOUS
<1> USE DEF IInv, mainVars, ioVars, appVars, cfgVars, statistics
<1>1. CASE CloseJoin
  BY <1>1 DEF CloseJoin, setStatus, ThreadType, ConnInv
<1>2. CASE PreSpin
  BY <1>2 DEF PreSpin, close, ThreadType
<1>3. CASE ClearError
  BY <1>3 DEF ClearError, ThreadType
<1>4. CASE StartConnect
  BY <1>4 DEF StartConnect, ThreadType
<1>5. CASE EndSpin
  BY <1>5 DEF EndSpin, ThreadType
<1>6. CASE PostSpin
  BY <1>6 DEF PostSpin, sendDsrcMessage, ThreadType
<1>7. CASE Shutdown
  BY <1>7 DEF Shutdown, close, ThreadType
<1>8. CASE Exit
  BY <1>8 DEF Exit, ThreadType
<1>9. CASE onOutboundMessage
  BY <1>9 DEF onOutboundMessage, ThreadType
<1>10. CASE sendMessageSrv
  BY <1>10 DEF sendMessageSrv, sendDsrcMessage, Service, ThreadType
<1>11. CASE dynReconfigCB
  BY <1>11 DEF dynReconfigCB, close, ThreadType
<1>12. CASE system_alert_cb
  BY <1>12 DEF system_alert_cb, ThreadType
<1>13. ASSUME NEW c \in Client, bind_service_cb(c)
     PROVE  ThreadType'
  BY <1>13 DEF bind_service_cb, ThreadType
<1>14. CASE CopyConfig
  BY <1>14 DEF CopyConfig, ThreadType
<1>15. CASE ConnectRefused
  BY <1>15 DEF ConnectRefused, Fault, ThreadType
<1>16. CASE ConnectFails
  BY <1>16 DEF ConnectFails, Fault, ThreadType
<1>17. CASE ConnectBuild
  BY <1>17 DEF ConnectBuild, ThreadType
<1>18. CASE ConnectUp
  BY <1>18 DEF ConnectUp, ThreadType
<1>19. CASE onConnect
  BY <1>19 DEF onConnect, setStatus, ThreadType
<1>20. CASE ConnectDone
  <2>1. /\ UNCHANGED <<main, back, io, running, shutdown, listener, status, bonds>>
        /\ conn' = "none" /\ connecting' = FALSE
    BY <1>20 DEF ConnectDone
  <2> QED
    BY <2>1, ZenonT(60) DEF ThreadType
<1>21. CASE ConnectCrash
  BY <1>21 DEF ConnectCrash, ThreadType
<1>22. CASE TakeSend
  BY <1>22 DEF TakeSend, Takes, ThreadType
<1>23. CASE SendTo
  BY <1>23 DEF SendTo, Fault, Service, ThreadType
<1>24. CASE RunError
  BY <1>24 DEF RunError, Takes, Fault, ThreadType
<1>25. CASE ListenerError
  BY <1>25 DEF ListenerError, Takes, Fault, ThreadType
<1>26. CASE Receive
  BY <1>26 DEF Receive, ThreadType
<1>27. CASE ReceiveShort
  BY <1>27 DEF ReceiveShort, Takes, ThreadType
<1>28. CASE UNCHANGED vars
  BY <1>28 DEF vars, ThreadType
<1> QED
  BY <1>1, <1>2, <1>3, <1>4, <1>5, <1>6, <1>7, <1>8, <1>9, <1>10, <1>11, <1>12, <1>13, <1>14,
     <1>15, <1>16, <1>17, <1>18, <1>19, <1>20, <1>21, <1>22, <1>23, <1>24, <1>25, <1>26, <1>27,
     <1>28
  DEF Next, Main, Callback, Connect, Io

(* Counters keep their types. *)
LEMMA CountStep == IInv /\ [Next]_vars => CountType'
<1> SUFFICES ASSUME IInv, [Next]_vars
             PROVE  CountType'
  OBVIOUS
<1> USE DsrcAssumption DEF IInv, mainVars, ioVars, appVars, cfgVars, statistics
<1>1. CASE CloseJoin
  BY <1>1 DEF CloseJoin, setStatus, CountType
<1>2. CASE PreSpin
  BY <1>2 DEF PreSpin, close, CountType
<1>3. CASE ClearError
  BY <1>3 DEF ClearError, CountType
<1>4. CASE StartConnect
  BY <1>4 DEF StartConnect, CountType
<1>5. CASE EndSpin
  BY <1>5 DEF EndSpin, CountType
<1>6. CASE PostSpin
  BY <1>6 DEF PostSpin, sendDsrcMessage, CountType
<1>7. CASE Shutdown
  BY <1>7 DEF Shutdown, close, CountType
<1>8. CASE Exit
  BY <1>8 DEF Exit, CountType
<1>9. CASE onOutboundMessage
  BY <1>9 DEF onOutboundMessage, CountType
<1>10. CASE sendMessageSrv
  BY <1>10 DEF sendMessageSrv, sendDsrcMessage, Service, CountType
<1>11. CASE dynReconfigCB
  BY <1>11 DEF dynReconfigCB, close, CountType
<1>12. CASE system_alert_cb
  BY <1>12 DEF system_alert_cb, CountType
<1>13. ASSUME NEW c \in Client, bind_service_cb(c)
     PROVE  CountType'
  BY <1>13 DEF bind_service_cb, CountType
<1>14. CASE CopyConfig
  BY <1>14 DEF CopyConfig, CountType
<1>15. CASE ConnectRefused
  BY <1>15 DEF ConnectRefused, Fault, CountType
<1>16. CASE ConnectFails
  BY <1>16 DEF ConnectFails, Fault, CountType
<1>17. CASE ConnectBuild
  BY <1>17 DEF ConnectBuild, CountType
<1>18. CASE ConnectUp
  BY <1>18 DEF ConnectUp, CountType
<1>19. CASE onConnect
  BY <1>19 DEF onConnect, setStatus, CountType
<1>20. CASE ConnectDone
  BY <1>20 DEF ConnectDone, CountType
<1>21. CASE ConnectCrash
  BY <1>21 DEF ConnectCrash, CountType
<1>22. CASE TakeSend
  BY <1>22 DEF TakeSend, Takes, CountType
<1>23. CASE SendTo
  BY <1>23 DEF SendTo, Fault, Service, CountType
<1>24. CASE RunError
  BY <1>24 DEF RunError, Takes, Fault, CountType
<1>25. CASE ListenerError
  BY <1>25 DEF ListenerError, Takes, Fault, CountType
<1>26. CASE Receive
  BY <1>26 DEF Receive, CountType
<1>27. CASE ReceiveShort
  BY <1>27 DEF ReceiveShort, Takes, CountType
<1>28. CASE UNCHANGED vars
  BY <1>28 DEF vars, CountType
<1> QED
  BY <1>1, <1>2, <1>3, <1>4, <1>5, <1>6, <1>7, <1>8, <1>9, <1>10, <1>11, <1>12, <1>13, <1>14,
     <1>15, <1>16, <1>17, <1>18, <1>19, <1>20, <1>21, <1>22, <1>23, <1>24, <1>25, <1>26, <1>27,
     <1>28
  DEF Next, Main, Callback, Connect, Io

(* Messages keep their types. *)
LEMMA MessageStep == IInv /\ [Next]_vars => MessageType'
<1> SUFFICES ASSUME IInv, [Next]_vars
             PROVE  MessageType'
  OBVIOUS
<1> USE DsrcAssumption DEF IInv, mainVars, ioVars, appVars, cfgVars, statistics
<1>1. CASE CloseJoin
  BY <1>1 DEF CloseJoin, setStatus, MessageType
<1>2. CASE PreSpin
  BY <1>2 DEF PreSpin, close, MessageType
<1>3. CASE ClearError
  BY <1>3 DEF ClearError, MessageType
<1>4. CASE StartConnect
  BY <1>4 DEF StartConnect, MessageType
<1>5. CASE EndSpin
  BY <1>5 DEF EndSpin, MessageType
<1>6. CASE PostSpin
  <2>1. CASE queue = <<>>
    BY <2>1, <1>6 DEF PostSpin, MessageType
  <2>2. CASE queue # <<>>
    <3>1. Head(queue) \in 0 .. MaxMsgs /\ Tail(queue) \in Seq(1 .. MaxMsgs)
      BY <2>2 DEF MessageType
    <3>2. Append(posted, Head(queue)) \in Seq(0 .. MaxMsgs)
      BY <3>1 DEF MessageType
    <3> QED
      BY <2>2, <3>1, <3>2, <1>6 DEF PostSpin, sendDsrcMessage, MessageType
  <2> QED
    BY <2>1, <2>2
<1>7. CASE Shutdown
  BY <1>7 DEF Shutdown, close, MessageType
<1>8. CASE Exit
  BY <1>8 DEF Exit, MessageType
<1>9. CASE onOutboundMessage
  <2>1. msgs + 1 \in 1 .. MaxMsgs
    BY <1>9 DEF onOutboundMessage, CountType
  <2>2. Append(queue, msgs + 1) \in Seq(1 .. MaxMsgs)
    BY <2>1 DEF MessageType
  <2> QED
    BY <2>2, <1>9 DEF onOutboundMessage, MessageType
<1>10. CASE sendMessageSrv
  <2>1. Append(posted, 0) \in Seq(0 .. MaxMsgs)
    BY DEF MessageType
  <2> QED
    BY <2>1, <1>10 DEF sendMessageSrv, sendDsrcMessage, Service, MessageType
<1>11. CASE dynReconfigCB
  BY <1>11 DEF dynReconfigCB, close, MessageType
<1>12. CASE system_alert_cb
  BY <1>12 DEF system_alert_cb, MessageType
<1>13. ASSUME NEW c \in Client, bind_service_cb(c)
     PROVE  MessageType'
  BY <1>13 DEF bind_service_cb, MessageType
<1>14. CASE CopyConfig
  BY <1>14 DEF CopyConfig, MessageType
<1>15. CASE ConnectRefused
  BY <1>15 DEF ConnectRefused, Fault, MessageType
<1>16. CASE ConnectFails
  BY <1>16 DEF ConnectFails, Fault, MessageType
<1>17. CASE ConnectBuild
  BY <1>17 DEF ConnectBuild, MessageType
<1>18. CASE ConnectUp
  BY <1>18 DEF ConnectUp, MessageType
<1>19. CASE onConnect
  BY <1>19 DEF onConnect, setStatus, MessageType
<1>20. CASE ConnectDone
  BY <1>20 DEF ConnectDone, MessageType
<1>21. CASE ConnectCrash
  BY <1>21 DEF ConnectCrash, MessageType
<1>22. CASE TakeSend
  <2>1. Head(posted) \in 0 .. MaxMsgs /\ Tail(posted) \in Seq(0 .. MaxMsgs)
    BY <1>22 DEF TakeSend, MessageType
  <2> QED
    BY <2>1, <1>22 DEF TakeSend, MessageType
<1>23. CASE SendTo
  <2>1. hand # 0 => Append(sent, hand) \in Seq(1 .. MaxMsgs)
    BY DEF MessageType
  <2>2. sent' = sent \/ (hand # 0 /\ sent' = Append(sent, hand))
    BY <1>23 DEF SendTo, Service
  <2>3. sent' \in Seq(1 .. MaxMsgs)
    BY <2>1, <2>2 DEF MessageType
  <2>4. hand' = 0 /\ UNCHANGED <<posted, queue>>
    BY <1>23 DEF SendTo, Service
  <2> QED
    BY <2>3, <2>4 DEF MessageType
<1>24. CASE RunError
  BY <1>24 DEF RunError, Takes, Fault, MessageType
<1>25. CASE ListenerError
  BY <1>25 DEF ListenerError, Takes, Fault, MessageType
<1>26. CASE Receive
  BY <1>26 DEF Receive, MessageType
<1>27. CASE ReceiveShort
  BY <1>27 DEF ReceiveShort, Takes, MessageType
<1>28. CASE UNCHANGED vars
  BY <1>28 DEF vars, MessageType
<1> QED
  BY <1>1, <1>2, <1>3, <1>4, <1>5, <1>6, <1>7, <1>8, <1>9, <1>10, <1>11, <1>12, <1>13, <1>14,
     <1>15, <1>16, <1>17, <1>18, <1>19, <1>20, <1>21, <1>22, <1>23, <1>24, <1>25, <1>26, <1>27,
     <1>28
  DEF Next, Main, Callback, Connect, Io

(* The connect thread is alone with the client. *)
LEMMA ConnStep == IInv /\ [Next]_vars => ConnInv'
<1> SUFFICES ASSUME IInv, [Next]_vars
             PROVE  ConnInv'
  OBVIOUS
<1> USE DsrcAssumption DEF IInv, mainVars, ioVars, appVars, cfgVars, statistics
<1>1. CASE CloseJoin
  BY <1>1 DEF CloseJoin, setStatus, ConnInv, ThreadType
<1>2. CASE PreSpin
  BY <1>2 DEF PreSpin, close, ConnInv, ThreadType
<1>3. CASE ClearError
  BY <1>3 DEF ClearError, ConnInv, ThreadType
<1>4. CASE StartConnect
  BY <1>4 DEF StartConnect, ConnInv, ThreadType
<1>5. CASE EndSpin
  BY <1>5 DEF EndSpin, ConnInv, ThreadType
<1>6. CASE PostSpin
  BY <1>6 DEF PostSpin, sendDsrcMessage, ConnInv, ThreadType
<1>7. CASE Shutdown
  BY <1>7 DEF Shutdown, close, ConnInv, ThreadType
<1>8. CASE Exit
  BY <1>8 DEF Exit, ConnInv, ThreadType
<1>9. CASE onOutboundMessage
  BY <1>9 DEF onOutboundMessage, ConnInv, ThreadType
<1>10. CASE sendMessageSrv
  BY <1>10 DEF sendMessageSrv, sendDsrcMessage, Service, ConnInv, ThreadType
<1>11. CASE dynReconfigCB
  BY <1>11 DEF dynReconfigCB, close, ConnInv, ThreadType
<1>12. CASE system_alert_cb
  BY <1>12 DEF system_alert_cb, ConnInv, ThreadType
<1>13. ASSUME NEW c \in Client, bind_service_cb(c)
     PROVE  ConnInv'
  BY <1>13 DEF bind_service_cb, ConnInv, ThreadType
<1>14. CASE CopyConfig
  BY <1>14 DEF CopyConfig, ConnInv, ThreadType
<1>15. CASE ConnectRefused
  BY <1>15 DEF ConnectRefused, Fault, ConnInv, ThreadType
<1>16. CASE ConnectFails
  BY <1>16 DEF ConnectFails, Fault, ConnInv, ThreadType
<1>17. CASE ConnectBuild
  BY <1>17 DEF ConnectBuild, ConnInv, ThreadType
<1>18. CASE ConnectUp
  BY <1>18 DEF ConnectUp, ConnInv, ThreadType
<1>19. CASE onConnect
  BY <1>19 DEF onConnect, setStatus, ConnInv, ThreadType
<1>20. CASE ConnectDone
  BY <1>20 DEF ConnectDone, ConnInv, ThreadType
<1>21. CASE ConnectCrash
  BY <1>21 DEF ConnectCrash, ConnInv, ThreadType
<1>22. CASE TakeSend
  BY <1>22 DEF TakeSend, Takes, ConnInv, ThreadType
<1>23. CASE SendTo
  BY <1>23 DEF SendTo, Fault, Service, ConnInv, ThreadType
<1>24. CASE RunError
  BY <1>24 DEF RunError, Takes, Fault, ConnInv, ThreadType
<1>25. CASE ListenerError
  BY <1>25 DEF ListenerError, Takes, Fault, ConnInv, ThreadType
<1>26. CASE Receive
  BY <1>26 DEF Receive, ConnInv, ThreadType
<1>27. CASE ReceiveShort
  BY <1>27 DEF ReceiveShort, Takes, ConnInv, ThreadType
<1>28. CASE UNCHANGED vars
  BY <1>28 DEF vars, ConnInv, ThreadType
<1> QED
  BY <1>1, <1>2, <1>3, <1>4, <1>5, <1>6, <1>7, <1>8, <1>9, <1>10, <1>11, <1>12, <1>13, <1>14,
     <1>15, <1>16, <1>17, <1>18, <1>19, <1>20, <1>21, <1>22, <1>23, <1>24, <1>25, <1>26, <1>27,
     <1>28
  DEF Next, Main, Callback, Connect, Io

(* An error is cleared before the next connection is made. *)
LEMMA ErrorStep == IInv /\ [Next]_vars => ErrorInv'
<1> SUFFICES ASSUME IInv, [Next]_vars
             PROVE  ErrorInv'
  OBVIOUS
<1> USE DsrcAssumption DEF IInv, mainVars, ioVars, appVars, cfgVars, statistics
<1>1. CASE CloseJoin
  BY <1>1 DEF CloseJoin, setStatus, ErrorInv, ConnInv, ThreadType, CountType
<1>2. CASE PreSpin
  BY <1>2 DEF PreSpin, close, ErrorInv, ConnInv, ThreadType, CountType
<1>3. CASE ClearError
  BY <1>3 DEF ClearError, ErrorInv, ConnInv, ThreadType, CountType
<1>4. CASE StartConnect
  BY <1>4 DEF StartConnect, ErrorInv, ConnInv, ThreadType, CountType
<1>5. CASE EndSpin
  BY <1>5 DEF EndSpin, ErrorInv, ConnInv, ThreadType, CountType
<1>6. CASE PostSpin
  BY <1>6 DEF PostSpin, sendDsrcMessage, ErrorInv, ConnInv, ThreadType, CountType
<1>7. CASE Shutdown
  BY <1>7 DEF Shutdown, close, ErrorInv, ConnInv, ThreadType, CountType
<1>8. CASE Exit
  BY <1>8 DEF Exit, ErrorInv, ConnInv, ThreadType, CountType
<1>9. CASE onOutboundMessage
  BY <1>9 DEF onOutboundMessage, ErrorInv, ConnInv, ThreadType, CountType
<1>10. CASE sendMessageSrv
  BY <1>10 DEF sendMessageSrv, sendDsrcMessage, Service, ErrorInv, ConnInv, ThreadType, CountType
<1>11. CASE dynReconfigCB
  BY <1>11 DEF dynReconfigCB, close, ErrorInv, ConnInv, ThreadType, CountType
<1>12. CASE system_alert_cb
  BY <1>12 DEF system_alert_cb, ErrorInv, ConnInv, ThreadType, CountType
<1>13. ASSUME NEW c \in Client, bind_service_cb(c)
     PROVE  ErrorInv'
  BY <1>13 DEF bind_service_cb, ErrorInv, ConnInv, ThreadType, CountType
<1>14. CASE CopyConfig
  BY <1>14 DEF CopyConfig, ErrorInv, ConnInv, ThreadType, CountType
<1>15. CASE ConnectRefused
  BY <1>15 DEF ConnectRefused, Fault, ErrorInv, ConnInv, ThreadType, CountType
<1>16. CASE ConnectFails
  BY <1>16 DEF ConnectFails, Fault, ErrorInv, ConnInv, ThreadType, CountType
<1>17. CASE ConnectBuild
  BY <1>17 DEF ConnectBuild, ErrorInv, ConnInv, ThreadType, CountType
<1>18. CASE ConnectUp
  BY <1>18 DEF ConnectUp, ErrorInv, ConnInv, ThreadType, CountType
<1>19. CASE onConnect
  BY <1>19 DEF onConnect, setStatus, ErrorInv, ConnInv, ThreadType, CountType
<1>20. CASE ConnectDone
  BY <1>20 DEF ConnectDone, ErrorInv, ConnInv, ThreadType, CountType
<1>21. CASE ConnectCrash
  BY <1>21 DEF ConnectCrash, ErrorInv, ConnInv, ThreadType, CountType
<1>22. CASE TakeSend
  BY <1>22 DEF TakeSend, Takes, ErrorInv, ConnInv, ThreadType, CountType
<1>23. CASE SendTo
  BY <1>23 DEF SendTo, Fault, Service, ErrorInv, ConnInv, ThreadType, CountType
<1>24. CASE RunError
  BY <1>24 DEF RunError, Takes, Fault, ErrorInv, ConnInv, ThreadType, CountType
<1>25. CASE ListenerError
  BY <1>25 DEF ListenerError, Takes, Fault, ErrorInv, ConnInv, ThreadType, CountType
<1>26. CASE Receive
  BY <1>26 DEF Receive, ErrorInv, ConnInv, ThreadType, CountType
<1>27. CASE ReceiveShort
  BY <1>27 DEF ReceiveShort, Takes, ErrorInv, ConnInv, ThreadType, CountType
<1>28. CASE UNCHANGED vars
  BY <1>28 DEF vars, ErrorInv, ConnInv, ThreadType, CountType
<1> QED
  BY <1>1, <1>2, <1>3, <1>4, <1>5, <1>6, <1>7, <1>8, <1>9, <1>10, <1>11, <1>12, <1>13, <1>14,
     <1>15, <1>16, <1>17, <1>18, <1>19, <1>20, <1>21, <1>22, <1>23, <1>24, <1>25, <1>26, <1>27,
     <1>28
  DEF Next, Main, Callback, Connect, Io

(* shutdown() waits for the connect thread. *)
LEMMA ExitStep == IInv /\ [Next]_vars => ExitInv'
<1> SUFFICES ASSUME IInv, [Next]_vars
             PROVE  ExitInv'
  OBVIOUS
<1> USE DsrcAssumption DEF IInv, mainVars, ioVars, appVars, cfgVars, statistics
<1>1. CASE CloseJoin
  BY <1>1 DEF CloseJoin, setStatus, ExitInv, Leaving, ConnInv, ThreadType
<1>2. CASE PreSpin
  BY <1>2 DEF PreSpin, close, ExitInv, Leaving, ConnInv, ThreadType
<1>3. CASE ClearError
  BY <1>3 DEF ClearError, ExitInv, Leaving, ConnInv, ThreadType
<1>4. CASE StartConnect
  BY <1>4 DEF StartConnect, ExitInv, Leaving, ConnInv, ThreadType
<1>5. CASE EndSpin
  BY <1>5 DEF EndSpin, ExitInv, Leaving, ConnInv, ThreadType
<1>6. CASE PostSpin
  BY <1>6 DEF PostSpin, sendDsrcMessage, ExitInv, Leaving, ConnInv, ThreadType
<1>7. CASE Shutdown
  BY <1>7 DEF Shutdown, close, ExitInv, Leaving, ConnInv, ThreadType
<1>8. CASE Exit
  BY <1>8 DEF Exit, ExitInv, Leaving, ConnInv, ThreadType
<1>9. CASE onOutboundMessage
  BY <1>9 DEF onOutboundMessage, ExitInv, Leaving, ConnInv, ThreadType
<1>10. CASE sendMessageSrv
  BY <1>10 DEF sendMessageSrv, sendDsrcMessage, Service, ExitInv, Leaving, ConnInv, ThreadType
<1>11. CASE dynReconfigCB
  BY <1>11 DEF dynReconfigCB, close, ExitInv, Leaving, ConnInv, ThreadType
<1>12. CASE system_alert_cb
  BY <1>12 DEF system_alert_cb, ExitInv, Leaving, ConnInv, ThreadType
<1>13. ASSUME NEW c \in Client, bind_service_cb(c)
     PROVE  ExitInv'
  BY <1>13 DEF bind_service_cb, ExitInv, Leaving, ConnInv, ThreadType
<1>14. CASE CopyConfig
  BY <1>14 DEF CopyConfig, ExitInv, Leaving, ConnInv, ThreadType
<1>15. CASE ConnectRefused
  BY <1>15 DEF ConnectRefused, Fault, ExitInv, Leaving, ConnInv, ThreadType
<1>16. CASE ConnectFails
  BY <1>16 DEF ConnectFails, Fault, ExitInv, Leaving, ConnInv, ThreadType
<1>17. CASE ConnectBuild
  BY <1>17 DEF ConnectBuild, ExitInv, Leaving, ConnInv, ThreadType
<1>18. CASE ConnectUp
  BY <1>18 DEF ConnectUp, ExitInv, Leaving, ConnInv, ThreadType
<1>19. CASE onConnect
  BY <1>19 DEF onConnect, setStatus, ExitInv, Leaving, ConnInv, ThreadType
<1>20. CASE ConnectDone
  BY <1>20 DEF ConnectDone, ExitInv, Leaving, ConnInv, ThreadType
<1>21. CASE ConnectCrash
  BY <1>21 DEF ConnectCrash, ExitInv, Leaving, ConnInv, ThreadType
<1>22. CASE TakeSend
  BY <1>22 DEF TakeSend, Takes, ExitInv, Leaving, ConnInv, ThreadType
<1>23. CASE SendTo
  BY <1>23 DEF SendTo, Fault, Service, ExitInv, Leaving, ConnInv, ThreadType
<1>24. CASE RunError
  BY <1>24 DEF RunError, Takes, Fault, ExitInv, Leaving, ConnInv, ThreadType
<1>25. CASE ListenerError
  BY <1>25 DEF ListenerError, Takes, Fault, ExitInv, Leaving, ConnInv, ThreadType
<1>26. CASE Receive
  BY <1>26 DEF Receive, ExitInv, Leaving, ConnInv, ThreadType
<1>27. CASE ReceiveShort
  BY <1>27 DEF ReceiveShort, Takes, ExitInv, Leaving, ConnInv, ThreadType
<1>28. CASE UNCHANGED vars
  BY <1>28 DEF vars, ExitInv, Leaving, ConnInv, ThreadType
<1> QED
  BY <1>1, <1>2, <1>3, <1>4, <1>5, <1>6, <1>7, <1>8, <1>9, <1>10, <1>11, <1>12, <1>13, <1>14,
     <1>15, <1>16, <1>17, <1>18, <1>19, <1>20, <1>21, <1>22, <1>23, <1>24, <1>25, <1>26, <1>27,
     <1>28
  DEF Next, Main, Callback, Connect, Io

(* Connections are paid for. *)
LEMMA EpochStep == IInv /\ [Next]_vars => EpochInv'
<1> SUFFICES ASSUME IInv, [Next]_vars
             PROVE  EpochInv'
  OBVIOUS
<1> USE DsrcAssumption DEF IInv, mainVars, ioVars, appVars, cfgVars, statistics
<1>1. CASE CloseJoin
  BY <1>1 DEF CloseJoin, setStatus, EpochInv, Leaving, ErrorInv, ExitInv, ConnInv, ThreadType,
     CountType
<1>2. CASE PreSpin
  BY <1>2 DEF PreSpin, close, EpochInv, Leaving, ErrorInv, ExitInv, ConnInv, ThreadType, CountType
<1>3. CASE ClearError
  BY <1>3 DEF ClearError, EpochInv, Leaving, ErrorInv, ExitInv, ConnInv, ThreadType, CountType
<1>4. CASE StartConnect
  BY <1>4 DEF StartConnect, EpochInv, Leaving, ErrorInv, ExitInv, ConnInv, ThreadType, CountType
<1>5. CASE EndSpin
  BY <1>5 DEF EndSpin, EpochInv, Leaving, ErrorInv, ExitInv, ConnInv, ThreadType, CountType
<1>6. CASE PostSpin
  BY <1>6 DEF PostSpin, sendDsrcMessage, EpochInv, Leaving, ErrorInv, ExitInv, ConnInv,
     ThreadType, CountType
<1>7. CASE Shutdown
  BY <1>7
  DEF Shutdown, close, EpochInv, Leaving, ErrorInv, ExitInv, ConnInv, ThreadType, CountType
<1>8. CASE Exit
  BY <1>8 DEF Exit, EpochInv, Leaving, ErrorInv, ExitInv, ConnInv, ThreadType, CountType
<1>9. CASE onOutboundMessage
  BY <1>9
  DEF onOutboundMessage, EpochInv, Leaving, ErrorInv, ExitInv, ConnInv, ThreadType, CountType
<1>10. CASE sendMessageSrv
  BY <1>10 DEF sendMessageSrv, sendDsrcMessage, Service, EpochInv, Leaving, ErrorInv, ExitInv,
     ConnInv, ThreadType, CountType
<1>11. CASE dynReconfigCB
  BY <1>11 DEF dynReconfigCB, close, EpochInv, Leaving, ErrorInv, ExitInv, ConnInv, ThreadType,
     CountType
<1>12. CASE system_alert_cb
  BY <1>12
  DEF system_alert_cb, EpochInv, Leaving, ErrorInv, ExitInv, ConnInv, ThreadType, CountType
<1>13. ASSUME NEW c \in Client, bind_service_cb(c)
     PROVE  EpochInv'
  BY <1>13
  DEF bind_service_cb, EpochInv, Leaving, ErrorInv, ExitInv, ConnInv, ThreadType, CountType
<1>14. CASE CopyConfig
  BY <1>14 DEF CopyConfig, EpochInv, Leaving, ErrorInv, ExitInv, ConnInv, ThreadType, CountType
<1>15. CASE ConnectRefused
  BY <1>15 DEF ConnectRefused, Fault, EpochInv, Leaving, ErrorInv, ExitInv, ConnInv, ThreadType,
     CountType
<1>16. CASE ConnectFails
  BY <1>16
  DEF ConnectFails, Fault, EpochInv, Leaving, ErrorInv, ExitInv, ConnInv, ThreadType, CountType
<1>17. CASE ConnectBuild
  BY <1>17 DEF ConnectBuild, EpochInv, Leaving, ErrorInv, ExitInv, ConnInv, ThreadType, CountType
<1>18. CASE ConnectUp
  BY <1>18 DEF ConnectUp, EpochInv, Leaving, ErrorInv, ExitInv, ConnInv, ThreadType, CountType
<1>19. CASE onConnect
  BY <1>19 DEF onConnect, setStatus, EpochInv, Leaving, ErrorInv, ExitInv, ConnInv, ThreadType,
     CountType
<1>20. CASE ConnectDone
  BY <1>20 DEF ConnectDone, EpochInv, Leaving, ErrorInv, ExitInv, ConnInv, ThreadType, CountType
<1>21. CASE ConnectCrash
  BY <1>21 DEF ConnectCrash, EpochInv, Leaving, ErrorInv, ExitInv, ConnInv, ThreadType, CountType
<1>22. CASE TakeSend
  BY <1>22
  DEF TakeSend, Takes, EpochInv, Leaving, ErrorInv, ExitInv, ConnInv, ThreadType, CountType
<1>23. CASE SendTo
  BY <1>23 DEF SendTo, Fault, Service, EpochInv, Leaving, ErrorInv, ExitInv, ConnInv, ThreadType,
     CountType
<1>24. CASE RunError
  BY <1>24 DEF RunError, Takes, Fault, EpochInv, Leaving, ErrorInv, ExitInv, ConnInv, ThreadType,
     CountType
<1>25. CASE ListenerError
  BY <1>25 DEF ListenerError, Takes, Fault, EpochInv, Leaving, ErrorInv, ExitInv, ConnInv,
     ThreadType, CountType
<1>26. CASE Receive
  BY <1>26 DEF Receive, EpochInv, Leaving, ErrorInv, ExitInv, ConnInv, ThreadType, CountType
<1>27. CASE ReceiveShort
  BY <1>27
  DEF ReceiveShort, Takes, EpochInv, Leaving, ErrorInv, ExitInv, ConnInv, ThreadType, CountType
<1>28. CASE UNCHANGED vars
  BY <1>28 DEF vars, EpochInv, Leaving, ErrorInv, ExitInv, ConnInv, ThreadType, CountType
<1> QED
  BY <1>1, <1>2, <1>3, <1>4, <1>5, <1>6, <1>7, <1>8, <1>9, <1>10, <1>11, <1>12, <1>13, <1>14,
     <1>15, <1>16, <1>17, <1>18, <1>19, <1>20, <1>21, <1>22, <1>23, <1>24, <1>25, <1>26, <1>27,
     <1>28
  DEF Next, Main, Callback, Connect, Io


(* Messages stay in order. *)
LEMMA OrderStep == IInv /\ [Next]_vars => OrderInv'
<1> SUFFICES ASSUME IInv, [Next]_vars
             PROVE  OrderInv'
  OBVIOUS
<1> USE DsrcAssumption DEF IInv, mainVars, ioVars, appVars, cfgVars, statistics
<1>1. CASE CloseJoin
  BY <1>1 DEF CloseJoin, setStatus, OrderInv, CountType, MessageType
<1>2. CASE PreSpin
  BY <1>2 DEF PreSpin, close, OrderInv, CountType, MessageType
<1>3. CASE ClearError
  BY <1>3 DEF ClearError, OrderInv, CountType, MessageType
<1>4. CASE StartConnect
  BY <1>4 DEF StartConnect, OrderInv, CountType, MessageType
<1>5. CASE EndSpin
  BY <1>5 DEF EndSpin, OrderInv, CountType, MessageType
<1>6. CASE PostSpin
  <2>1. CASE queue = <<>>
    BY <2>1, <1>6 DEF PostSpin, OrderInv
  <2>2. CASE queue # <<>>
    <3>1. /\ Head(queue) = queue[1] /\ Head(queue) \in 1 .. MaxMsgs /\ 1 \in DOMAIN queue
          /\ \A k \in DOMAIN Tail(queue) : /\ k + 1 \in DOMAIN queue /\ k \in Nat \ {0}
                                         /\ Tail(queue)[k] = queue[k + 1]
      <4>1. 1 .. MaxMsgs \in SUBSET Nat /\ queue \in Seq(1 .. MaxMsgs)
        BY DEF MessageType
      <4> QED
        BY <2>2, <4>1, HeadTail
    <3>2. UNCHANGED <<hand, msgs>> /\ queue' = Tail(queue)
      BY <2>2, <1>6 DEF PostSpin
    <3>3. /\ \A k \in DOMAIN queue' : /\ queue'[k] <= msgs /\ hand < queue'[k] /\ Head(queue) < queue'[k]
          /\ \A k, l \in DOMAIN queue' : k < l => queue'[k] < queue'[l]
          /\ \A i \in DOMAIN posted, k \in DOMAIN queue' : posted[i] < queue'[k]
      BY <3>1, <3>2 DEF OrderInv
    <3>4. CASE running
      <4>1. posted' = Append(posted, Head(queue))
        BY <2>2, <3>4, <1>6 DEF PostSpin, sendDsrcMessage
      <4>2. /\ Len(posted) \in Nat /\ DOMAIN posted = 1 .. Len(posted)
            /\ DOMAIN posted' = 1 .. Len(posted) + 1
            /\ \A i \in DOMAIN posted : posted'[i] = posted[i]
            /\ posted'[Len(posted) + 1] = Head(queue)
        <5>1. 0 .. MaxMsgs \in SUBSET Nat /\ posted \in Seq(0 .. MaxMsgs) /\ Head(queue) \in 0 .. MaxMsgs
          BY <3>1 DEF MessageType
        <5> QED
          BY <4>1, <5>1, AppendLast
      <4>3. /\ Head(queue) <= msgs /\ hand < Head(queue)
            /\ \A i \in DOMAIN posted : posted[i] < Head(queue)
        BY <3>1 DEF OrderInv
      <4>4. \A i \in DOMAIN posted' : i \in DOMAIN posted \/ i = Len(posted) + 1
        BY <4>2
      <4>5. \A i \in DOMAIN posted' :
              posted'[i] # 0 => posted'[i] <= msgs /\ hand < posted'[i]
        BY <4>2, <4>3, <4>4 DEF OrderInv
      <4>6. \A i, j \in DOMAIN posted' :
              i < j /\ posted'[i] # 0 /\ posted'[j] # 0 => posted'[i] < posted'[j]
        BY <4>2, <4>3, <4>4 DEF OrderInv
      <4>7. \A i \in DOMAIN posted', k \in DOMAIN queue' : posted'[i] < queue'[k]
        BY <3>3, <4>2, <4>4
      <4> QED
        BY <3>2, <3>3, <4>5, <4>6, <4>7 DEF OrderInv
    <3>5. CASE ~running
      <4>1. posted' = posted
        BY <2>2, <3>5, <1>6 DEF PostSpin, sendDsrcMessage
      <4> QED
        BY <3>2, <3>3, <4>1 DEF OrderInv
    <3> QED
      BY <3>4, <3>5
  <2> QED
    BY <2>1, <2>2
<1>7. CASE Shutdown
  BY <1>7 DEF Shutdown, close, OrderInv, CountType, MessageType
<1>8. CASE Exit
  BY <1>8 DEF Exit, OrderInv, CountType, MessageType
<1>9. CASE onOutboundMessage
  <2>1. msgs' = msgs + 1 /\ msgs \in Nat /\ msgs + 1 \in 1 .. MaxMsgs
        /\ UNCHANGED <<hand, posted>>
    BY <1>9 DEF onOutboundMessage, CountType
  <2>2. CASE queue' = queue
    BY <2>1, <2>2 DEF OrderInv, MessageType
  <2>3. CASE queue' = Append(queue, msgs + 1)
    <3>1. /\ Len(queue) \in Nat /\ DOMAIN queue = 1 .. Len(queue)
          /\ DOMAIN queue' = 1 .. Len(queue) + 1
          /\ \A k \in DOMAIN queue : queue'[k] = queue[k] /\ queue[k] \in Nat
          /\ queue'[Len(queue) + 1] = msgs + 1
      <4>1. 1 .. MaxMsgs \in SUBSET Nat /\ queue \in Seq(1 .. MaxMsgs)
        BY DEF MessageType
      <4> QED
        BY <2>1, <2>3, <4>1, AppendLast
    <3>2. \A k \in DOMAIN queue' : k \in DOMAIN queue \/ k = Len(queue) + 1
      BY <3>1
    <3>3. /\ hand \in Nat /\ hand <= msgs
          /\ \A i \in DOMAIN posted : posted[i] \in Nat /\ posted[i] <= msgs
      BY <2>1 DEF OrderInv, MessageType
    <3>4. \A k \in DOMAIN queue' : queue'[k] <= msgs + 1 /\ hand < queue'[k]
      BY <2>1, <3>1, <3>2, <3>3 DEF OrderInv
    <3>5. \A k, l \in DOMAIN queue' : k < l => queue'[k] < queue'[l]
      BY <2>1, <3>1, <3>2 DEF OrderInv
    <3>6. \A i \in DOMAIN posted, k \in DOMAIN queue' : posted[i] < queue'[k]
      BY <2>1, <3>1, <3>2, <3>3 DEF OrderInv
    <3> QED
      BY <2>1, <3>3, <3>4, <3>5, <3>6 DEF OrderInv
  <2> QED
    BY <2>2, <2>3, <1>9 DEF onOutboundMessage
<1>10. CASE sendMessageSrv
  <2>1. msgs' = msgs + 1 /\ msgs \in Nat /\ UNCHANGED <<hand, queue>>
        /\ (posted' = posted \/ posted' = Append(posted, 0))
    BY <1>10 DEF sendMessageSrv, sendDsrcMessage, Service, CountType
  <2>2. CASE posted' = posted
    BY <2>1, <2>2 DEF OrderInv, MessageType
  <2>3. CASE posted' = Append(posted, 0)
    <3>1. /\ Len(posted) \in Nat /\ DOMAIN posted = 1 .. Len(posted)
          /\ DOMAIN posted' = 1 .. Len(posted) + 1
          /\ \A i \in DOMAIN posted : posted'[i] = posted[i] /\ posted[i] \in Nat
          /\ posted'[Len(posted) + 1] = 0
      <4>1. 0 .. MaxMsgs \in SUBSET Nat /\ posted \in Seq(0 .. MaxMsgs) /\ 0 \in 0 .. MaxMsgs
        BY DEF MessageType
      <4> QED
        BY <2>3, <4>1, AppendLast
    <3>2. \A i \in DOMAIN posted' : i \in DOMAIN posted \/ i = Len(posted) + 1
      BY <3>1
    <3>3. \A k \in DOMAIN queue : queue[k] \in Nat \ {0} /\ queue[k] <= msgs
      BY DEF OrderInv, MessageType
    <3>4. hand \in Nat /\ hand <= msgs + 1
      BY <2>1 DEF OrderInv, MessageType
    <3>5. /\ \A i \in DOMAIN posted' :
               posted'[i] # 0 => posted'[i] <= msgs + 1 /\ hand < posted'[i]
          /\ \A i, j \in DOMAIN posted' :
               i < j /\ posted'[i] # 0 /\ posted'[j] # 0 => posted'[i] < posted'[j]
      BY <2>1, <3>1, <3>2 DEF OrderInv
    <3>6. \A i \in DOMAIN posted', k \in DOMAIN queue : posted'[i] < queue[k]
      BY <3>1, <3>2, <3>3 DEF OrderInv
    <3> QED
      BY <2>1, <3>3, <3>4, <3>5, <3>6 DEF OrderInv
  <2> QED
    BY <2>1, <2>2, <2>3
<1>11. CASE dynReconfigCB
  BY <1>11 DEF dynReconfigCB, close, OrderInv, CountType, MessageType
<1>12. CASE system_alert_cb
  BY <1>12 DEF system_alert_cb, OrderInv, CountType, MessageType
<1>13. ASSUME NEW c \in Client, bind_service_cb(c)
     PROVE  OrderInv'
  BY <1>13 DEF bind_service_cb, OrderInv, CountType, MessageType
<1>14. CASE CopyConfig
  BY <1>14 DEF CopyConfig, OrderInv, CountType, MessageType
<1>15. CASE ConnectRefused
  BY <1>15 DEF ConnectRefused, Fault, OrderInv, CountType, MessageType
<1>16. CASE ConnectFails
  BY <1>16 DEF ConnectFails, Fault, OrderInv, CountType, MessageType
<1>17. CASE ConnectBuild
  BY <1>17 DEF ConnectBuild, OrderInv, CountType, MessageType
<1>18. CASE ConnectUp
  BY <1>18 DEF ConnectUp, OrderInv, CountType, MessageType
<1>19. CASE onConnect
  BY <1>19 DEF onConnect, setStatus, OrderInv, CountType, MessageType
<1>20. CASE ConnectDone
  BY <1>20 DEF ConnectDone, OrderInv, CountType, MessageType
<1>21. CASE ConnectCrash
  BY <1>21 DEF ConnectCrash, OrderInv, CountType, MessageType
<1>22. CASE TakeSend
  <2>1. posted # <<>> /\ hand = 0 /\ hand' = Head(posted) /\ posted' = Tail(posted)
        /\ UNCHANGED <<msgs, queue>>
    BY <1>22 DEF TakeSend, Takes, ConnInv
  <2>2. /\ Head(posted) = posted[1] /\ 1 \in DOMAIN posted /\ posted[1] \in Nat
        /\ \A i \in DOMAIN posted' : /\ i + 1 \in DOMAIN posted /\ i \in Nat \ {0}
                                   /\ posted'[i] = posted[i + 1] /\ posted'[i] \in Nat
    <3>1. 0 .. MaxMsgs \in SUBSET Nat /\ posted \in Seq(0 .. MaxMsgs)
      BY DEF MessageType
    <3> QED
      BY <2>1, <3>1, HeadTail
  <2>3. /\ hand' # 0 => hand' <= msgs
        /\ \A k \in DOMAIN queue : hand' < queue[k]
    BY <2>1, <2>2 DEF OrderInv
  <2>4. \A i \in DOMAIN posted' :
          posted'[i] # 0 => posted'[i] <= msgs /\ hand' < posted'[i]
    BY <2>1, <2>2 DEF OrderInv
  <2>5. \A i, j \in DOMAIN posted' :
          i < j /\ posted'[i] # 0 /\ posted'[j] # 0 => posted'[i] < posted'[j]
    BY <2>1, <2>2 DEF OrderInv
  <2>6. \A i \in DOMAIN posted', k \in DOMAIN queue : posted'[i] < queue[k]
    BY <2>2 DEF OrderInv
  <2>7. hand' <= msgs
    BY <2>3 DEF CountType
  <2> QED
    BY <2>1, <2>3, <2>4, <2>5, <2>6, <2>7 DEF OrderInv
<1>23. CASE SendTo
  BY <1>23 DEF SendTo, Fault, Service, OrderInv, CountType, MessageType
<1>24. CASE RunError
  BY <1>24 DEF RunError, Takes, Fault, OrderInv, CountType, MessageType
<1>25. CASE ListenerError
  BY <1>25 DEF ListenerError, Takes, Fault, OrderInv, CountType, MessageType
<1>26. CASE Receive
  BY <1>26 DEF Receive, OrderInv, CountType, MessageType
<1>27. CASE ReceiveShort
  BY <1>27 DEF ReceiveShort, Takes, OrderInv, CountType, MessageType
<1>28. CASE UNCHANGED vars
  BY <1>28 DEF vars, OrderInv, CountType, MessageType
<1> QED
  BY <1>1, <1>2, <1>3, <1>4, <1>5, <1>6, <1>7, <1>8, <1>9, <1>10, <1>11, <1>12, <1>13, <1>14,
     <1>15, <1>16, <1>17, <1>18, <1>19, <1>20, <1>21, <1>22, <1>23, <1>24, <1>25, <1>26, <1>27,
     <1>28
  DEF Next, Main, Callback, Connect, Io

(* What was sent stays in order and behind. *)
LEMMA SentStep == IInv /\ [Next]_vars => SentInv'
<1> SUFFICES ASSUME IInv, [Next]_vars
             PROVE  SentInv'
  OBVIOUS
<1> USE DsrcAssumption DEF IInv, mainVars, ioVars, appVars, cfgVars, statistics
<1>1. CASE CloseJoin
  BY <1>1 DEF CloseJoin, setStatus, SentInv, SentInOrder
<1>2. CASE PreSpin
  BY <1>2 DEF PreSpin, close, SentInv, SentInOrder
<1>3. CASE ClearError
  BY <1>3 DEF ClearError, SentInv, SentInOrder
<1>4. CASE StartConnect
  BY <1>4 DEF StartConnect, SentInv, SentInOrder
<1>5. CASE EndSpin
  BY <1>5 DEF EndSpin, SentInv, SentInOrder
<1>6. CASE PostSpin
  <2>1. CASE queue = <<>>
    BY <2>1, <1>6 DEF PostSpin, SentInv, SentInOrder
  <2>2. CASE queue # <<>>
    <3>1. /\ Head(queue) = queue[1] /\ Head(queue) \in 0 .. MaxMsgs /\ 1 \in DOMAIN queue
          /\ \A k \in DOMAIN Tail(queue) : k + 1 \in DOMAIN queue /\ Tail(queue)[k] = queue[k + 1]
      <4>1. 1 .. MaxMsgs \in SUBSET Nat /\ queue \in Seq(1 .. MaxMsgs)
        BY DEF MessageType
      <4> QED
        BY <2>2, <4>1, HeadTail
    <3>2. UNCHANGED <<hand, sent, msgs>> /\ queue' = Tail(queue)
      BY <2>2, <1>6 DEF PostSpin
    <3>3. \A i \in DOMAIN posted' : (i \in DOMAIN posted /\ posted'[i] = posted[i]) \/ posted'[i] = queue[1]
      <4>1. CASE running
        <5>1. posted' = Append(posted, queue[1])
          BY <2>2, <3>1, <4>1, <1>6 DEF PostSpin, sendDsrcMessage
        <5>2. 0 .. MaxMsgs \in SUBSET Nat /\ posted \in Seq(0 .. MaxMsgs) /\ queue[1] \in 0 .. MaxMsgs
          BY <3>1 DEF MessageType
        <5>3. /\ Len(posted) \in Nat /\ DOMAIN posted = 1 .. Len(posted)
              /\ DOMAIN posted' = 1 .. Len(posted) + 1
              /\ \A i \in DOMAIN posted : posted'[i] = posted[i]
              /\ posted'[Len(posted) + 1] = queue[1]
          BY <5>1, <5>2, AppendLast
        <5> QED
          BY <5>3
      <4>2. CASE ~running
        BY <2>2, <4>2, <1>6 DEF PostSpin, sendDsrcMessage
      <4> QED
        BY <4>1, <4>2
    <3>4. ASSUME NEW n \in DOMAIN sent'
          PROVE  /\ sent'[n] <= msgs' /\ (hand' # 0 => sent'[n] < hand')
                 /\ \A i \in DOMAIN posted' : posted'[i] # 0 => sent'[n] < posted'[i]
                 /\ \A k \in DOMAIN queue' : sent'[n] < queue'[k]
      <4>1. sent' = sent /\ n \in DOMAIN sent /\ sent[n] < queue[1]
        BY <3>1, <3>2 DEF SentInv
      <4> QED
        BY <3>1, <3>2, <3>3, <4>1 DEF SentInv
    <3> QED
      BY <3>2, <3>4 DEF SentInv, SentInOrder
  <2> QED
    BY <2>1, <2>2
<1>7. CASE Shutdown
  BY <1>7 DEF Shutdown, close, SentInv, SentInOrder
<1>8. CASE Exit
  BY <1>8 DEF Exit, SentInv, SentInOrder
<1>9. CASE onOutboundMessage
  <2>1. msgs' = msgs + 1 /\ msgs \in Nat /\ msgs + 1 \in 1 .. MaxMsgs
        /\ UNCHANGED <<hand, posted, sent>>
    BY <1>9 DEF onOutboundMessage, CountType
  <2>2. \A k \in DOMAIN queue' : (k \in DOMAIN queue /\ queue'[k] = queue[k]) \/ queue'[k] = msgs + 1
    <3>1. CASE queue' = queue
      BY <3>1
    <3>2. CASE queue' = Append(queue, msgs + 1)
      <4>1. 1 .. MaxMsgs \in SUBSET Nat /\ queue \in Seq(1 .. MaxMsgs)
        BY DEF MessageType
      <4>2. /\ Len(queue) \in Nat /\ DOMAIN queue = 1 .. Len(queue)
            /\ DOMAIN queue' = 1 .. Len(queue) + 1
            /\ \A k \in DOMAIN queue : queue'[k] = queue[k]
            /\ queue'[Len(queue) + 1] = msgs + 1
        BY <2>1, <3>2, <4>1, AppendLast
      <4> QED
        BY <4>2
    <3> QED
      BY <3>1, <3>2, <1>9 DEF onOutboundMessage
  <2>3. \A n \in DOMAIN sent : sent[n] \in Nat /\ sent[n] <= msgs
    BY DEF SentInv, MessageType
  <2>4. \A n \in DOMAIN sent : \A k \in DOMAIN queue' : sent[n] < queue'[k]
    BY <2>1, <2>2, <2>3 DEF SentInv
  <2> QED
    BY <2>1, <2>3, <2>4 DEF SentInv, SentInOrder
<1>10. CASE sendMessageSrv
  <2>1. msgs' = msgs + 1 /\ msgs \in Nat /\ UNCHANGED <<hand, queue, sent>>
        /\ (posted' = posted \/ posted' = Append(posted, 0))
    BY <1>10 DEF sendMessageSrv, sendDsrcMessage, Service, CountType
  <2>2. \A i \in DOMAIN posted' : (i \in DOMAIN posted /\ posted'[i] = posted[i]) \/ posted'[i] = 0
    <3>1. CASE posted' = posted
      BY <3>1
    <3>2. CASE posted' = Append(posted, 0)
      <4>1. 0 .. MaxMsgs \in SUBSET Nat /\ posted \in Seq(0 .. MaxMsgs) /\ 0 \in 0 .. MaxMsgs
        BY DEF MessageType
      <4>2. /\ Len(posted) \in Nat /\ DOMAIN posted = 1 .. Len(posted)
            /\ DOMAIN posted' = 1 .. Len(posted) + 1
            /\ \A i \in DOMAIN posted : posted'[i] = posted[i]
            /\ posted'[Len(posted) + 1] = 0
        BY <3>2, <4>1, AppendLast
      <4> QED
        BY <4>2
    <3> QED
      BY <2>1, <3>1, <3>2
  <2>3. \A n \in DOMAIN sent : sent[n] \in Nat /\ sent[n] <= msgs
    BY DEF SentInv, MessageType
  <2>4. \A n \in DOMAIN sent : \A i \in DOMAIN posted' : posted'[i] # 0 => sent[n] < posted'[i]
    BY <2>2 DEF SentInv
  <2> QED
    BY <2>1, <2>3, <2>4 DEF SentInv, SentInOrder
<1>11. CASE dynReconfigCB
  BY <1>11 DEF dynReconfigCB, close, SentInv, SentInOrder
<1>12. CASE system_alert_cb
  BY <1>12 DEF system_alert_cb, SentInv, SentInOrder
<1>13. ASSUME NEW c \in Client, bind_service_cb(c)
     PROVE  SentInv'
  BY <1>13 DEF bind_service_cb, SentInv, SentInOrder
<1>14. CASE CopyConfig
  BY <1>14 DEF CopyConfig, SentInv, SentInOrder
<1>15. CASE ConnectRefused
  BY <1>15 DEF ConnectRefused, Fault, SentInv, SentInOrder
<1>16. CASE ConnectFails
  BY <1>16 DEF ConnectFails, Fault, SentInv, SentInOrder
<1>17. CASE ConnectBuild
  BY <1>17 DEF ConnectBuild, SentInv, SentInOrder
<1>18. CASE ConnectUp
  BY <1>18 DEF ConnectUp, SentInv, SentInOrder
<1>19. CASE onConnect
  BY <1>19 DEF onConnect, setStatus, SentInv, SentInOrder
<1>20. CASE ConnectDone
  BY <1>20 DEF ConnectDone, SentInv, SentInOrder
<1>21. CASE ConnectCrash
  BY <1>21 DEF ConnectCrash, SentInv, SentInOrder
<1>22. CASE TakeSend
  <2>1. posted # <<>> /\ hand' = Head(posted) /\ posted' = Tail(posted)
        /\ UNCHANGED <<msgs, queue, sent>>
    BY <1>22 DEF TakeSend
  <2>2. /\ hand' = posted[1] /\ 1 \in DOMAIN posted
        /\ \A i \in DOMAIN posted' : i + 1 \in DOMAIN posted /\ posted'[i] = posted[i + 1]
    <3>1. 0 .. MaxMsgs \in SUBSET Nat /\ posted \in Seq(0 .. MaxMsgs)
      BY DEF MessageType
    <3> QED
      BY <2>1, <3>1, HeadTail
  <2>3. \A n \in DOMAIN sent : /\ hand' # 0 => sent[n] < hand'
                             /\ \A i \in DOMAIN posted' : posted'[i] # 0 => sent[n] < posted'[i]
    BY <2>2 DEF SentInv
  <2> QED
    BY <2>1, <2>3 DEF SentInv, SentInOrder
<1>23. CASE SendTo
  <2>1. hand' = 0 /\ UNCHANGED <<msgs, queue, posted>>
    BY <1>23 DEF SendTo, Service
  <2>2. CASE sent' = sent
    BY <2>1, <2>2 DEF SentInv, SentInOrder
  <2>3. CASE hand # 0 /\ sent' = Append(sent, hand)
    <3>1. /\ Len(sent) \in Nat /\ DOMAIN sent = 1 .. Len(sent)
          /\ DOMAIN sent' = 1 .. Len(sent) + 1
          /\ \A n \in DOMAIN sent : sent'[n] = sent[n]
          /\ sent'[Len(sent) + 1] = hand
      <4>1. 1 .. MaxMsgs \in SUBSET Nat /\ sent \in Seq(1 .. MaxMsgs) /\ hand \in 1 .. MaxMsgs
        BY <2>3 DEF MessageType
      <4> QED
        BY <2>3, <4>1, AppendLast
    <3>2. \A n \in DOMAIN sent' : n \in DOMAIN sent \/ n = Len(sent) + 1
      BY <3>1
    <3>3. SentInOrder'
      <4> SUFFICES ASSUME NEW m \in DOMAIN sent', NEW n \in DOMAIN sent', m < n
                   PROVE  sent'[m] < sent'[n]
        BY DEF SentInOrder
      <4>1. m \in DOMAIN sent
        BY <3>1
      <4>2. CASE n \in DOMAIN sent
        BY <3>1, <4>1, <4>2 DEF SentInv, SentInOrder
      <4>3. CASE n = Len(sent) + 1
        BY <2>3, <3>1, <4>1, <4>3 DEF SentInv
      <4> QED
        BY <3>2, <4>2, <4>3
    <3>4. ASSUME NEW n \in DOMAIN sent'
          PROVE  /\ sent'[n] <= msgs
                 /\ \A i \in DOMAIN posted : posted[i] # 0 => sent'[n] < posted[i]
                 /\ \A k \in DOMAIN queue : sent'[n] < queue[k]
      <4>1. CASE n \in DOMAIN sent
        BY <3>1, <4>1 DEF SentInv
      <4>2. CASE n = Len(sent) + 1
        BY <3>1, <4>2 DEF OrderInv
      <4> QED
        BY <3>2, <4>1, <4>2
    <3> QED
      BY <2>1, <3>3, <3>4 DEF SentInv
  <2> QED
    BY <2>2, <2>3, <1>23 DEF SendTo, Service
<1>24. CASE RunError
  BY <1>24 DEF RunError, Takes, Fault, SentInv, SentInOrder
<1>25. CASE ListenerError
  BY <1>25 DEF ListenerError, Takes, Fault, SentInv, SentInOrder
<1>26. CASE Receive
  BY <1>26 DEF Receive, SentInv, SentInOrder
<1>27. CASE ReceiveShort
  BY <1>27 DEF ReceiveShort, Takes, SentInv, SentInOrder
<1>28. CASE UNCHANGED vars
  BY <1>28 DEF vars, SentInv, SentInOrder
<1> QED
  BY <1>1, <1>2, <1>3, <1>4, <1>5, <1>6, <1>7, <1>8, <1>9, <1>10, <1>11, <1>12, <1>13, <1>14,
     <1>15, <1>16, <1>17, <1>18, <1>19, <1>20, <1>21, <1>22, <1>23, <1>24, <1>25, <1>26, <1>27,
     <1>28
  DEF Next, Main, Callback, Connect, Io

(* What is published was cut out of a packet. *)
LEMMA FramedStep == IInv /\ [Next]_vars => PublishedIsFramed'
<1> SUFFICES ASSUME IInv, [Next]_vars
             PROVE  PublishedIsFramed'
  OBVIOUS
<1> USE DsrcAssumption DEF IInv, mainVars, ioVars, appVars, cfgVars, statistics
<1>1. CASE CloseJoin
  BY <1>1 DEF CloseJoin, setStatus, PublishedIsFramed, Framed
<1>2. CASE PreSpin
  BY <1>2 DEF PreSpin, close, PublishedIsFramed, Framed
<1>3. CASE ClearError
  BY <1>3 DEF ClearError, PublishedIsFramed, Framed
<1>4. CASE StartConnect
  BY <1>4 DEF StartConnect, PublishedIsFramed, Framed
<1>5. CASE EndSpin
  BY <1>5 DEF EndSpin, PublishedIsFramed, Framed
<1>6. CASE PostSpin
  BY <1>6 DEF PostSpin, sendDsrcMessage, PublishedIsFramed, Framed
<1>7. CASE Shutdown
  BY <1>7 DEF Shutdown, close, PublishedIsFramed, Framed
<1>8. CASE Exit
  BY <1>8 DEF Exit, PublishedIsFramed, Framed
<1>9. CASE onOutboundMessage
  BY <1>9 DEF onOutboundMessage, PublishedIsFramed, Framed
<1>10. CASE sendMessageSrv
  BY <1>10 DEF sendMessageSrv, sendDsrcMessage, Service, PublishedIsFramed, Framed
<1>11. CASE dynReconfigCB
  BY <1>11 DEF dynReconfigCB, close, PublishedIsFramed, Framed
<1>12. CASE system_alert_cb
  BY <1>12 DEF system_alert_cb, PublishedIsFramed, Framed
<1>13. ASSUME NEW c \in Client, bind_service_cb(c)
     PROVE  PublishedIsFramed'
  BY <1>13 DEF bind_service_cb, PublishedIsFramed, Framed
<1>14. CASE CopyConfig
  BY <1>14 DEF CopyConfig, PublishedIsFramed, Framed
<1>15. CASE ConnectRefused
  BY <1>15 DEF ConnectRefused, Fault, PublishedIsFramed, Framed
<1>16. CASE ConnectFails
  BY <1>16 DEF ConnectFails, Fault, PublishedIsFramed, Framed
<1>17. CASE ConnectBuild
  BY <1>17 DEF ConnectBuild, PublishedIsFramed, Framed
<1>18. CASE ConnectUp
  BY <1>18 DEF ConnectUp, PublishedIsFramed, Framed
<1>19. CASE onConnect
  BY <1>19 DEF onConnect, setStatus, PublishedIsFramed, Framed
<1>20. CASE ConnectDone
  BY <1>20 DEF ConnectDone, PublishedIsFramed, Framed
<1>21. CASE ConnectCrash
  BY <1>21 DEF ConnectCrash, PublishedIsFramed, Framed
<1>22. CASE TakeSend
  BY <1>22 DEF TakeSend, Takes, PublishedIsFramed, Framed
<1>23. CASE SendTo
  BY <1>23 DEF SendTo, Fault, Service, PublishedIsFramed, Framed
<1>24. CASE RunError
  BY <1>24 DEF RunError, Takes, Fault, PublishedIsFramed, Framed
<1>25. CASE ListenerError
  BY <1>25 DEF ListenerError, Takes, Fault, PublishedIsFramed, Framed
<1>26. CASE Receive
  <2>1. PICK p \in Packet : published' = IF process(p) = <<>> THEN published ELSE process(p)
    BY <1>26 DEF Receive
  <2>2. CASE process(p) = <<>>
    BY <2>1, <2>2 DEF PublishedIsFramed
  <2>3. CASE process(p) # <<>>
    <3>1. p \in Seq(0 .. 255)
      OBVIOUS
    <3>2. published' = process(p)
      BY <2>1, <2>3
    <3> QED
      BY <2>3, <3>1, <3>2, ProcessFrames DEF PublishedIsFramed
  <2> QED
    BY <2>2, <2>3
<1>27. CASE ReceiveShort
  <2>1. PICK p \in Packet : published' = published \/ (Len(p) = 2 /\ published' = p)
    BY <1>27 DEF ReceiveShort
  <2> QED
    BY <2>1 DEF PublishedIsFramed
<1>28. CASE UNCHANGED vars
  BY <1>28 DEF vars, PublishedIsFramed, Framed
<1> QED
  BY <1>1, <1>2, <1>3, <1>4, <1>5, <1>6, <1>7, <1>8, <1>9, <1>10, <1>11, <1>12, <1>13, <1>14,
     <1>15, <1>16, <1>17, <1>18, <1>19, <1>20, <1>21, <1>22, <1>23, <1>24, <1>25, <1>26, <1>27,
     <1>28
  DEF Next, Main, Callback, Connect, Io

-----------------------------------------------------------------------------
(* The theorems *)

(* In every reachable state all parts of the invariant hold together. *)
THEOREM Invariant == Spec => []IInv
<1>1. Init => IInv
  <2> SUFFICES ASSUME Init
               PROVE  IInv
    OBVIOUS
  <2> USE DEF Init, Service
  <2>0. MaxChanges \in Nat /\ MaxFaults \in Nat /\ MaxMsgs \in Nat
    BY DsrcAssumption
  <2>1. ThreadType /\ CountType
    <3>1. ThreadType
      BY Zenon DEF ThreadType
    <3>2. CountType
      BY <2>0 DEF CountType
    <3> QED
      BY <3>1, <3>2
  <2>2. MessageType
    BY <2>0 DEF MessageType
  <2>3. ConnInv /\ ErrorInv /\ ExitInv /\ EpochInv
    <3>1. ConnInv
      BY DEF ConnInv
    <3>2. ErrorInv
      BY DEF ErrorInv
    <3>3. ExitInv
      BY DEF ExitInv, Leaving
    <3>4. EpochInv
      BY DEF EpochInv
    <3> QED
      BY <3>1, <3>2, <3>3, <3>4
  <2>4. OrderInv /\ SentInv /\ PublishedIsFramed
    BY DEF OrderInv, SentInv, SentInOrder, PublishedIsFramed
  <2> QED
    BY <2>1, <2>2, <2>3, <2>4 DEF IInv
<1>2. IInv /\ [Next]_vars => IInv'
  BY ThreadStep, CountStep, MessageStep, ConnStep, ErrorStep, ExitStep, EpochStep, OrderStep,
     SentStep, FramedStep DEF IInv
<1> QED
  BY <1>1, <1>2, PTL DEF Spec

(* Every thread is always at a place of its own code, and every message that waits somewhere has
   come in. *)
THEOREM DsrcTypeCorrect == Spec => []TypeOK
<1>1. IInv => TypeOK
  <2> SUFFICES ASSUME IInv
               PROVE  TypeOK
    OBVIOUS
  <2> USE DEF IInv
  <2>0. MaxChanges \in Nat /\ MaxFaults \in Nat /\ MaxMsgs \in Nat
    BY DsrcAssumption
  <2>1. msgs \in 0 .. MaxMsgs /\ msgs \in Nat /\ hand \in 0 .. msgs
    BY <2>0 DEF CountType, MessageType, OrderInv
  <2>2. posted \in Seq(0 .. msgs)
    <3>1. posted \in [1 .. Len(posted) -> 0 .. MaxMsgs] /\ Len(posted) \in Nat
      BY LenProperties DEF MessageType
    <3>2. \A i \in 1 .. Len(posted) : posted[i] \in 0 .. msgs
      BY <2>0, <2>1, <3>1 DEF OrderInv
    <3>3. posted \in [1 .. Len(posted) -> 0 .. msgs]
      BY <3>1, <3>2
    <3> QED
      BY <3>1, <3>3, SeqDef
  <2>3. queue \in Seq(1 .. msgs)
    <3>1. queue \in [1 .. Len(queue) -> 1 .. MaxMsgs] /\ Len(queue) \in Nat
      BY LenProperties DEF MessageType
    <3>2. \A k \in 1 .. Len(queue) : queue[k] \in 1 .. msgs
      BY <2>0, <2>1, <3>1 DEF OrderInv
    <3>3. queue \in [1 .. Len(queue) -> 1 .. msgs]
      BY <3>1, <3>2
    <3> QED
      BY <3>1, <3>3, SeqDef
  <2>4. sent \in Seq(1 .. msgs)
    <3>1. sent \in [1 .. Len(sent) -> 1 .. MaxMsgs] /\ Len(sent) \in Nat
      BY LenProperties DEF MessageType
    <3>2. \A n \in 1 .. Len(sent) : sent[n] \in 1 .. msgs
      BY <2>0, <2>1, <3>1 DEF SentInv
    <3>3. sent \in [1 .. Len(sent) -> 1 .. msgs]
      BY <3>1, <3>2
    <3> QED
      BY <3>1, <3>3, SeqDef
  <2>5. /\ epoch \in 0 .. MaxFaults + MaxChanges + 1 /\ error \in 0 .. epoch
        /\ config \in 0 .. MaxChanges /\ cfg \in 0 .. config /\ faults \in 0 .. MaxFaults
    BY <2>0 DEF CountType, ErrorInv, EpochInv
  <2> QED
    BY <2>1, <2>2, <2>3, <2>4, <2>5 DEF TypeOK, ThreadType
<1> QED
  BY <1>1, Invariant, PTL

(* connect() never meets the io thread of an old connection, or another connect thread, whatever
   errors, changes of the configuration and alerts come in between. *)
THEOREM NoThreadIsReplaced == Spec => []ConnectFindsNoThread
<1>1. IInv => ConnectFindsNoThread
  BY DEF IInv, ConnInv, ConnectFindsNoThread
<1> QED
  BY <1>1, Invariant, PTL

(* An error of an old connection never closes a new one. *)
THEOREM ErrorsAreCurrent == Spec => []ErrorIsCurrent
<1>1. IInv => ErrorIsCurrent
  BY DEF IInv, ErrorInv, ErrorIsCurrent
<1> QED
  BY <1>1, Invariant, PTL

(* Every connection after the first was caused by a fault or by a change of the configuration:
   the driver does not reconnect on its own account. *)
THEOREM ConnectionsHaveCauses == Spec => [](epoch <= 1 + faults + config)
<1>1. IInv => epoch <= 1 + faults + config
  BY DEF IInv, EpochInv
<1> QED
  BY <1>1, Invariant, PTL

(* Whatever packets arrive, the empty one included, what is published has the length it
   announces or is a whole packet of two bytes. *)
THEOREM PublishedLength == Spec => []PublishedIsFramed
BY Invariant, PTL DEF IInv

(* The messages of the topic reach the radio in order and once, through two queues and across
   reconnections. *)
THEOREM RadioKeepsOrder == Spec => []SentInOrder
BY Invariant, PTL DEF IInv, SentInv

(* Every step of the driver is a step of a DriverApplication, or changes nothing that one has:
   the safety part of IsDriverApplication. *)
LEMMA AppStep == IInv /\ [Next]_vars => [App!Next]_(App!vars)
<1> SUFFICES ASSUME IInv, [Next]_vars
             PROVE  App!Next \/ UNCHANGED App!vars
  OBVIOUS
<1> USE DEF IInv, App!vars, mainVars, ioVars, appVars, cfgVars, statistics
<1> DEFINE phase == IF main \in {"down", "crashed"} THEN main
                    ELSE IF shutdown THEN "closing" ELSE "spin"
<1>1. CASE CloseJoin
  <2>1. phase' = phase /\ main \notin {"down", "crashed"}
    BY <1>1 DEF CloseJoin, ThreadType, ConnInv
  <2>2. CASE status = "OFF"
    BY <2>1, <2>2, <1>1 DEF CloseJoin, setStatus
  <2>3. CASE status # "OFF"
    <3>1. App!setStatus("OFF")
      BY <2>1, <2>3, <1>1 DEF CloseJoin, setStatus, App!setStatus, App!Running
    <3> QED
      BY <3>1 DEF App!Next, App!Status
  <2> QED
    BY <2>2, <2>3
<1>2. CASE PreSpin
  BY <1>2 DEF PreSpin, close
<1>3. CASE ClearError
  BY <1>3 DEF ClearError
<1>4. CASE StartConnect
  BY <1>4 DEF StartConnect
<1>5. CASE EndSpin
  BY <1>5 DEF EndSpin
<1>6. CASE PostSpin
  BY <1>6 DEF PostSpin, sendDsrcMessage
<1>7. CASE Shutdown
  BY <1>7 DEF Shutdown, close
<1>8. CASE Exit
  <2>1. App!Return
    BY <1>8 DEF Exit, App!Return, ExitInv, Leaving
  <2> QED
    BY <2>1 DEF App!Next
<1>9. CASE onOutboundMessage
  BY <1>9 DEF onOutboundMessage
<1>10. CASE sendMessageSrv
  BY <1>10 DEF sendMessageSrv, sendDsrcMessage, Service
<1>11. CASE dynReconfigCB
  BY <1>11 DEF dynReconfigCB, close
<1>12. CASE system_alert_cb
  <2>1. App!system_alert_cb \/ UNCHANGED App!vars
    BY <1>12 DEF system_alert_cb, App!system_alert_cb
  <2> QED
    BY <2>1 DEF App!Next
<1>13. ASSUME NEW c \in Client, bind_service_cb(c)
     PROVE  App!Next \/ UNCHANGED App!vars
  <2>1. App!bind_service_cb(c)
    BY <1>13 DEF bind_service_cb, App!bind_service_cb, App!Running
  <2> QED
    BY <2>1 DEF App!Next
<1>14. CASE CopyConfig
  BY <1>14 DEF CopyConfig
<1>15. CASE ConnectRefused
  BY <1>15 DEF ConnectRefused, Fault
<1>16. CASE ConnectFails
  BY <1>16 DEF ConnectFails, Fault
<1>17. CASE ConnectBuild
  BY <1>17 DEF ConnectBuild
<1>18. CASE ConnectUp
  BY <1>18 DEF ConnectUp
<1>19. CASE ~Crashed /\ onConnect
  <2>1. phase' = phase /\ main \notin {"down", "crashed"}
    BY <1>19 DEF onConnect, ExitInv, Leaving, Crashed
  <2>2. CASE status = "OPERATIONAL"
    BY <2>1, <2>2, <1>19 DEF onConnect, setStatus
  <2>3. CASE status # "OPERATIONAL"
    <3>1. App!setStatus("OPERATIONAL")
      BY <2>1, <2>3, <1>19 DEF onConnect, setStatus, App!setStatus, App!Running
    <3> QED
      BY <3>1 DEF App!Next, App!Status
  <2> QED
    BY <2>2, <2>3
<1>20. CASE ConnectDone
  BY <1>20 DEF ConnectDone
<1>21. CASE ~Crashed /\ ConnectCrash
  <2>1. App!Crash
    BY <1>21 DEF ConnectCrash, App!Crash, App!Running, ExitInv, Leaving, ThreadType, Crashed
  <2> QED
    BY <2>1 DEF App!Next
<1>22. CASE TakeSend
  BY <1>22 DEF TakeSend, Takes
<1>23. CASE SendTo
  BY <1>23 DEF SendTo, Fault, Service
<1>24. CASE RunError
  BY <1>24 DEF RunError, Takes, Fault
<1>25. CASE ListenerError
  BY <1>25 DEF ListenerError, Takes, Fault
<1>26. CASE Receive
  BY <1>26 DEF Receive
<1>27. CASE ~Crashed /\ ReceiveShort
  <2>1. CASE main' = main
    BY <2>1, <1>27 DEF ReceiveShort
  <2>2. CASE main' = "crashed"
    <3>1. main \notin {"exit", "down", "join", "crashed"}
      BY <1>27 DEF ReceiveShort, Takes, ConnInv, ExitInv, Leaving, Crashed
    <3>2. App!Crash
      BY <2>2, <3>1, <1>27 DEF ReceiveShort, App!Crash, App!Running
    <3> QED
      BY <3>2 DEF App!Next
  <2> QED
    BY <2>1, <2>2, <1>27 DEF ReceiveShort
<1>28. CASE UNCHANGED vars
  BY <1>28 DEF vars
<1> QED
  BY <1>1, <1>2, <1>3, <1>4, <1>5, <1>6, <1>7, <1>8, <1>9, <1>10, <1>11, <1>12, <1>13, <1>14,
     <1>15, <1>16, <1>17, <1>18, <1>19, <1>20, <1>21, <1>22, <1>23, <1>24, <1>25, <1>26, <1>27,
     <1>28
  DEF Next, Main, Callback, Connect, Io

(* A change of status releases every bond, whichever thread makes it, and nothing changes once
   run() has returned, though a connect thread may have been at work when the alert came
   (DriverApplication::run). *)
THEOREM ImplementsDriverApplication == Spec => App!Init /\ [][App!Next]_(App!vars)
<1>1. Init => App!Init
  BY DEF Init, App!Init
<1> QED
  BY <1>1, Invariant, AppStep, PTL DEF Spec
=============================================================================
