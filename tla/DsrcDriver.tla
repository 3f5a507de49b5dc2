----------------------------- MODULE DsrcDriver -----------------------------
(***************************************************************************)
(* The driver of the DSRC radio: DSRCApplication, its DSRCOBUClient and    *)
(* the UDPListener.  Three threads share the client without a lock:        *)
(*   main     the spin loop of DriverApplication, with all ROS callbacks,  *)
(*   conn     the thread pre_spin starts to connect to the radio,          *)
(*   io       the thread of the connection, which runs posted sends and    *)
(*            received packets.                                            *)
(* Each thread has a program counter; a step of a thread is what it does   *)
(* between two accesses to state the others write.                         *)
(***************************************************************************)
EXTENDS Naturals, Sequences, FiniteSetsExt

CONSTANTS Client,     \* ids of the nodes that may bind
          Packet,     \* the UDP packets of the radio, sequences of bytes
          MaxChanges, \* bound: changes of the configuration
          MaxFaults,  \* bound: failures of sockets and of the io service
          MaxMsgs     \* bound: messages to send

ASSUME DsrcAssumption ==
    /\ MaxChanges \in Nat /\ MaxFaults \in Nat /\ MaxMsgs \in Nat
    /\ Packet \subseteq Seq(0 .. 255)

VARIABLES
    main, back,        \* the main thread, and where close() returns to
    conn,              \* the connect thread, "none" when it is absent or has ended
    io, hand,          \* the io thread and the message it sends
    connecting,        \* DSRCApplication.connecting_
    running,           \* DSRCOBUClient.running_
    listener,          \* udp_listener_
    posted,            \* the sends posted to output_strand_
    error,             \* dsrc_client_error_: the connection it came from, or 0
    epoch,             \* number of connections made so far
    config, cfg,       \* config_, and the copy the connection was made with
    queue,             \* send_msg_queue_
    status, bonds,     \* DriverApplication's status_ and bond_map_
    shutdown,          \* DriverApplication.shutdown_
    sent,              \* the messages of the topic that went to the radio
    published,         \* the last message published as inbound_binary_msg
    msgs, faults       \* what has happened, for the bounds

mainVars   == <<main, back>>
ioVars     == <<io, hand, posted>>
appVars    == <<status, bonds>>
cfgVars    == <<config, cfg>>
statistics == <<sent, published, msgs, faults>>
vars == <<mainVars, conn, ioVars, connecting, running, listener, error, epoch, cfgVars, queue,
          appVars, shutdown, statistics>>

Service == 0   \* a message of the send service

Crashed == main = "crashed"

(* DriverApplication.setStatus *)
setStatus(s) ==
    /\ status' = s
    /\ bonds' = IF s = status THEN bonds ELSE {}

Fault == faults < MaxFaults /\ faults' = faults + 1

-----------------------------------------------------------------------------
(* DSRCOBUClient.close().  It is called from three places of the main thread, and it
   waits for the io thread, whose handler in execution is finished. *)

close(label) ==
    IF running THEN running' = FALSE /\ main' = "join" /\ back' = label
               ELSE main' = label /\ UNCHANGED <<running, back>>

CloseJoin ==
    /\ main = "join" /\ io \in {"idle", "ended"}
    /\ io' = "off" /\ posted' = <<>> /\ listener' = "stale"
    /\ setStatus("OFF")
    /\ main' = back /\ back' = "pre"
    /\ UNCHANGED <<conn, hand, connecting, running, error, epoch, cfgVars, queue, shutdown,
                   statistics>>

-----------------------------------------------------------------------------
(* DSRCApplication::pre_spin *)

(* Mutant: the error is cleared before the connection is closed. *)
PreSpin_clearFirst ==
    /\ main = "pre"
    /\ IF error # 0 THEN error' = 0 /\ close("connect")
                    ELSE main' = "connect" /\ UNCHANGED <<running, back, error>>
    /\ UNCHANGED <<conn, ioVars, connecting, listener, epoch, cfgVars, queue, appVars,
                   shutdown, statistics>>

PreSpin ==
    /\ main = "pre"
    /\ IF error # 0 THEN close("clear") ELSE main' = "connect" /\ UNCHANGED <<running, back>>
    /\ UNCHANGED <<conn, ioVars, connecting, listener, error, epoch, cfgVars, queue, appVars,
                   shutdown, statistics>>

ClearError ==
    /\ main = "clear"
    /\ error' = 0 /\ main' = "connect"
    /\ UNCHANGED <<back, conn, ioVars, connecting, running, listener, epoch, cfgVars, queue,
                   appVars, shutdown, statistics>>

(* Mutant: an attempt in progress does not keep the next one from being started. *)
StartConnect_impatient ==
    /\ main = "connect"
    /\ IF ~running THEN connecting' = TRUE /\ conn' = "copy"
                   ELSE UNCHANGED <<connecting, conn>>
    /\ main' = "spin"
    /\ UNCHANGED <<back, ioVars, running, listener, error, epoch, cfgVars, queue, appVars,
                   shutdown, statistics>>

(* The old connect thread is joined; it has nothing left to do but to end. *)
StartConnect ==
    /\ main = "connect"
    /\ IF ~connecting /\ ~running THEN connecting' = TRUE /\ conn' = "copy"
                                  ELSE UNCHANGED <<connecting, conn>>
    /\ main' = "spin"
    /\ UNCHANGED <<back, ioVars, running, listener, error, epoch, cfgVars, queue, appVars,
                   shutdown, statistics>>

-----------------------------------------------------------------------------
(* ros::spinOnce: the callbacks *)

onOutboundMessage ==
    /\ main = "spin" /\ msgs < MaxMsgs
    /\ msgs' = msgs + 1
    /\ queue' = IF running THEN Append(queue, msgs + 1) ELSE queue
    /\ UNCHANGED <<mainVars, conn, ioVars, connecting, running, listener, error, epoch, cfgVars,
                   appVars, shutdown, sent, published, faults>>

(* DSRCOBUClient::sendDsrcMessage posts the message to the io thread. *)
sendDsrcMessage(m) == posted' = IF running THEN Append(posted, m) ELSE posted

sendMessageSrv ==
    /\ main = "spin" /\ msgs < MaxMsgs
    /\ msgs' = msgs + 1
    /\ sendDsrcMessage(Service)
    /\ UNCHANGED <<mainVars, conn, io, hand, connecting, running, listener, error, epoch,
                   cfgVars, queue, appVars, shutdown, sent, published, faults>>

(* The callback holds cfg_mutex_ until it returns: main = "join" and back = "spin". *)
dynReconfigCB ==
    /\ main = "spin" /\ config < MaxChanges
    /\ config' = config + 1
    /\ close("spin")
    /\ UNCHANGED <<conn, ioVars, connecting, listener, error, epoch, cfg, queue, appVars,
                   shutdown, statistics>>

bind_service_cb(c) ==
    /\ main = "spin"
    /\ bonds' = bonds \cup {c}
    /\ UNCHANGED <<mainVars, conn, ioVars, connecting, running, listener, error, epoch, cfgVars,
                   queue, status, shutdown, statistics>>

system_alert_cb ==
    /\ main = "spin"
    /\ shutdown' = TRUE
    /\ UNCHANGED <<mainVars, conn, ioVars, connecting, running, listener, error, epoch, cfgVars,
                   queue, appVars, statistics>>

EndSpin ==
    /\ main = "spin" /\ main' = "post"
    /\ UNCHANGED <<back, conn, ioVars, connecting, running, listener, error, epoch, cfgVars,
                   queue, appVars, shutdown, statistics>>

(* Mutant: the newest message of the queue is sent and taken out. *)
PostSpin_newest ==
    /\ main = "post"
    /\ IF queue = <<>> THEN UNCHANGED <<queue, posted>>
       ELSE /\ sendDsrcMessage(queue[Len(queue)])
            /\ queue' = SubSeq(queue, 1, Len(queue) - 1)
    /\ main' = IF shutdown THEN "joinConn" ELSE "pre"
    /\ UNCHANGED <<back, conn, io, hand, connecting, running, listener, error, epoch, cfgVars,
                   appVars, shutdown, statistics>>

(* Mutant: the message sent stays in the queue. *)
PostSpin_again ==
    /\ main = "post"
    /\ IF queue = <<>> THEN UNCHANGED posted ELSE sendDsrcMessage(Head(queue))
    /\ main' = IF shutdown THEN "joinConn" ELSE "pre"
    /\ UNCHANGED <<back, conn, io, hand, connecting, running, listener, error, epoch, cfgVars,
                   queue, appVars, shutdown, statistics>>

(* post_spin: one message leaves the queue, sent or not; then the loop's condition. *)
PostSpin ==
    /\ main = "post"
    /\ IF queue = <<>> THEN UNCHANGED <<queue, posted>>
       ELSE sendDsrcMessage(Head(queue)) /\ queue' = Tail(queue)
    /\ main' = IF shutdown THEN "joinConn" ELSE "pre"
    /\ UNCHANGED <<back, conn, io, hand, connecting, running, listener, error, epoch, cfgVars,
                   appVars, shutdown, statistics>>

(* Mutant: shutdown() closes the connection without waiting for the connect thread. *)
Shutdown_hasty ==
    /\ main = "joinConn"
    /\ close("exit")
    /\ UNCHANGED <<conn, ioVars, connecting, listener, error, epoch, cfgVars, queue, appVars,
                   shutdown, statistics>>

(* DSRCApplication::shutdown *)
Shutdown ==
    /\ main = "joinConn" /\ conn = "none"
    /\ close("exit")
    /\ UNCHANGED <<conn, ioVars, connecting, listener, error, epoch, cfgVars, queue, appVars,
                   shutdown, statistics>>

(* run() calls ros::shutdown and returns. *)
Exit ==
    /\ main = "exit" /\ main' = "down"
    /\ UNCHANGED <<back, conn, ioVars, connecting, running, listener, error, epoch, cfgVars,
                   queue, appVars, shutdown, statistics>>

Main == \/ PreSpin \/ ClearError \/ StartConnect \/ EndSpin \/ PostSpin \/ Shutdown
        \/ CloseJoin \/ Exit

Callback == \/ onOutboundMessage \/ sendMessageSrv \/ dynReconfigCB \/ system_alert_cb
            \/ \E c \in Client : bind_service_cb(c)

-----------------------------------------------------------------------------
(* The connect thread *)

CopyConfig ==
    /\ conn = "copy" /\ ~(main = "join" /\ back = "spin")
    /\ conn' = "build" /\ cfg' = config
    /\ UNCHANGED <<mainVars, ioVars, connecting, running, listener, error, epoch, config, queue,
                   appVars, shutdown, statistics>>

(* The address is no address (an exception), or the client is connected already. *)
ConnectRefused ==
    /\ conn = "build"
    /\ \/ running /\ UNCHANGED faults
       \/ ~running /\ Fault
    /\ conn' = "done"
    /\ UNCHANGED <<mainVars, ioVars, connecting, running, listener, error, epoch, cfgVars, queue,
                   appVars, shutdown, sent, published, msgs>>

(* io_.reset destroys the old io_service before the old listener, whose socket belongs
   to it: undefined behaviour, with the process killed as one of the outcomes. *)
ConnectCrash ==
    /\ conn = "build" /\ ~running /\ listener # "none"
    /\ main' = "crashed"
    /\ UNCHANGED <<back, conn, ioVars, connecting, running, listener, error, epoch, cfgVars,
                   queue, appVars, shutdown, statistics>>

(* The local port cannot be bound, or the outgoing socket not be opened. *)
ConnectFails ==
    /\ conn = "build" /\ ~running /\ Fault
    /\ listener' \in {"none", "bound"}
    /\ conn' = "done"
    /\ UNCHANGED <<mainVars, ioVars, connecting, running, error, epoch, cfgVars, queue, appVars,
                   shutdown, sent, published, msgs>>

(* Listener, sockets and io thread are made. *)
ConnectBuild ==
    /\ conn = "build" /\ ~running
    /\ listener' = "live" /\ io' = "idle" /\ epoch' = epoch + 1
    /\ conn' = "up"
    /\ UNCHANGED <<mainVars, hand, posted, connecting, running, error, cfgVars, queue, appVars,
                   shutdown, statistics>>

ConnectUp ==
    /\ conn = "up"
    /\ running' = TRUE /\ conn' = "signal"
    /\ UNCHANGED <<mainVars, ioVars, connecting, listener, error, epoch, cfgVars, queue, appVars,
                   shutdown, statistics>>

(* Mutant: the handler forgets to set the status. *)
onConnect_mute ==
    /\ conn = "signal" /\ conn' = "done"
    /\ UNCHANGED <<mainVars, ioVars, connecting, running, listener, error, epoch, cfgVars, queue,
                   appVars, shutdown, statistics>>

(* onConnect: onConnectHandler *)
onConnect ==
    /\ conn = "signal"
    /\ setStatus("OPERATIONAL")
    /\ conn' = "done"
    /\ UNCHANGED <<mainVars, ioVars, connecting, running, listener, error, epoch, cfgVars, queue,
                   shutdown, statistics>>

ConnectDone ==
    /\ conn = "done"
    /\ connecting' = FALSE /\ conn' = "none"
    /\ UNCHANGED <<mainVars, ioVars, running, listener, error, epoch, cfgVars, queue, appVars,
                   shutdown, statistics>>

Connect == \/ CopyConfig \/ ConnectRefused \/ ConnectFails \/ ConnectBuild \/ ConnectUp
           \/ onConnect \/ ConnectDone

-----------------------------------------------------------------------------
(* The io thread.  io_->stop() in close() keeps it from taking another handler. *)

Takes == io = "idle" /\ main # "join"

TakeSend ==
    /\ Takes /\ posted # <<>>
    /\ io' = "busy" /\ hand' = Head(posted) /\ posted' = Tail(posted)
    /\ UNCHANGED <<mainVars, conn, connecting, running, listener, error, epoch, cfgVars, queue,
                   appVars, shutdown, statistics>>

(* send_to succeeds, or fails and onError stores the error. *)
SendTo ==
    /\ io = "busy" /\ io' = "idle" /\ hand' = Service
    /\ \/ /\ sent' = IF hand = Service THEN sent ELSE Append(sent, hand)
          /\ UNCHANGED <<error, faults>>
       \/ Fault /\ error' = epoch /\ UNCHANGED sent
    /\ UNCHANGED <<mainVars, conn, posted, connecting, running, listener, epoch, cfgVars, queue,
                   appVars, shutdown, published, msgs>>

(* io_->run() returns an error, and the thread ends. *)
RunError ==
    /\ Takes /\ Fault
    /\ io' = "ended" /\ error' = epoch
    /\ UNCHANGED <<mainVars, conn, hand, posted, connecting, running, listener, epoch, cfgVars,
                   queue, appVars, shutdown, sent, published, msgs>>

(* Nobody is connected to the listener's onError: it just stops to receive. *)
ListenerError ==
    /\ Takes /\ listener = "live" /\ Fault
    /\ listener' = "deaf"
    /\ UNCHANGED <<mainVars, conn, ioVars, connecting, running, error, epoch, cfgVars, queue,
                   appVars, shutdown, sent, published, msgs>>

(* DSRCOBUClient::process looks for the first place where two bytes of message id and a
   length field fit into the packet.  (i is the code's i + 1.) *)
LengthBytes(p, i) == IF p[i + 2] < 128 THEN 1 ELSE 2
BodyLength(p, i) == IF p[i + 2] < 128 THEN p[i + 2] ELSE (p[i + 2] - 128) * 256 + p[i + 3]
Readable(p, i) == p[i + 2] # 0 /\ p[i + 2] < 192

Fits(p, i) == i + BodyLength(p, i) + LengthBytes(p, i) < Len(p)

(* Mutant: the end of the message is taken for its last byte. *)
process_short(p) ==
    LET starts == {i \in 1 .. Len(p) - 3 : Readable(p, i) /\ Fits(p, i)}
        s == Min(starts)
    IN  IF starts = {} THEN <<>> ELSE SubSeq(p, s, s + BodyLength(p, s) + LengthBytes(p, s))

process(p) ==
    LET starts == {i \in 1 .. Len(p) - 3 : Readable(p, i) /\ Fits(p, i)}
        s == Min(starts)
    IN  IF starts = {} THEN <<>> ELSE SubSeq(p, s, s + 1 + BodyLength(p, s) + LengthBytes(p, s))

Receive ==
    /\ Takes /\ listener = "live"
    /\ \E p \in Packet : /\ Len(p) >= 3
                         /\ published' = IF process(p) = <<>> THEN published ELSE process(p)
    /\ UNCHANGED <<mainVars, conn, ioVars, connecting, running, listener, error, epoch, cfgVars,
                   queue, appVars, shutdown, sent, msgs, faults>>

(* With less than three bytes entry.size() - 3 wraps to a huge number, and process reads on
   behind the packet until it is killed.  Only with two bytes may it stop before: the byte
   behind them, whatever it is, can open a long length field, whose second byte is beyond
   the packet, and a message without length field or body, the packet itself, fits. *)
ReceiveShort ==
    /\ Takes /\ listener = "live"
    /\ \E p \in Packet : /\ Len(p) < 3
                         /\ \/ main' = "crashed" /\ UNCHANGED published
                            \/ Len(p) = 2 /\ published' = p /\ UNCHANGED main
    /\ UNCHANGED <<back, conn, ioVars, connecting, running, listener, error, epoch, cfgVars,
                   queue, appVars, shutdown, sent, msgs, faults>>

Io == TakeSend \/ SendTo \/ RunError \/ ListenerError \/ Receive \/ ReceiveShort

-----------------------------------------------------------------------------
(* run() has made the node and initialize() has returned. *)
Init ==
    /\ main = "pre" /\ back = "pre" /\ conn = "none" /\ io = "off" /\ hand = Service
    /\ connecting = FALSE /\ running = FALSE /\ listener = "none" /\ posted = <<>>
    /\ error = 0 /\ epoch = 0 /\ config = 0 /\ cfg = 0 /\ queue = <<>>
    /\ status = "OFF" /\ bonds = {} /\ shutdown = FALSE
    /\ sent = <<>> /\ published = <<>> /\ msgs = 0 /\ faults = 0

Next == ~Crashed /\ (Main \/ Callback \/ Connect \/ ConnectCrash \/ Io)

(* The operating system runs every thread that can go on. *)
Spec == /\ Init /\ [][Next]_vars
        /\ WF_vars(~Crashed /\ Main) /\ WF_vars(~Crashed /\ Connect)
        /\ WF_vars(~Crashed /\ (TakeSend \/ SendTo))

-----------------------------------------------------------------------------
(* Properties *)

(* The fields have their types and every thread is at a place of its own code. *)
TypeOK ==
    /\ main \in {"pre", "clear", "connect", "spin", "post", "join", "joinConn", "exit", "down",
                "crashed"}
    /\ back \in {"pre", "clear", "spin", "exit"}
    /\ conn \in {"none", "copy", "build", "up", "signal", "done"}
    /\ io \in {"off", "idle", "busy", "ended"} /\ hand \in 0 .. msgs
    /\ connecting \in BOOLEAN /\ running \in BOOLEAN /\ shutdown \in BOOLEAN
    /\ listener \in {"none", "bound", "live", "deaf", "stale"}
    /\ posted \in Seq(0 .. msgs) /\ queue \in Seq(1 .. msgs)
    /\ epoch \in 0 .. MaxFaults + MaxChanges + 1 /\ error \in 0 .. epoch
    /\ config \in 0 .. MaxChanges /\ cfg \in 0 .. config
    /\ status \in {"OFF", "OPERATIONAL"} /\ bonds \subseteq Client
    /\ msgs \in 0 .. MaxMsgs /\ faults \in 0 .. MaxFaults /\ sent \in Seq(1 .. msgs)

(* connect() replaces the io_service and the thread object only when no io thread is left
   that runs the old one (std::thread's assignment would terminate the process), and
   there is at most one connect thread to do it: connecting_, join and close() together
   see to that. *)
ConnectFindsNoThread == conn = "build" /\ ~running => io = "off" /\ posted = <<>>

(* An error never closes the connection after the one it came from: close() waits for
   the io thread before pre_spin clears the error. *)
ErrorIsCurrent == error # 0 /\ running => error = epoch

(* Messages of the topic go to the radio in the order they came in and not twice, also
   when they wait in the queue while the client reconnects. *)
SentInOrder == \A i, j \in DOMAIN sent : i < j => sent[i] < sent[j]

(* A message has the length its length field announces, after two bytes of id: one byte
   below 128, otherwise fourteen bits of two bytes. *)
Framed(m) == Len(m) = IF m[3] < 128 THEN 3 + m[3] ELSE 4 + (m[3] % 64) * 256 + m[4]

(* What is published as inbound is framed, whatever packet it was found in and wherever in
   it; all that process lets through besides are packets of two bytes. *)
PublishedIsFramed ==
    published # <<>> => (published \in Packet /\ Len(published) = 2) \/ Framed(published)

(* The driver is a DriverApplication: a change of status releases the bonds, whichever
   thread makes it; the status does not change after run() has returned, though a
   connect thread may have been at work when the alert came; and run() does return. *)
App == INSTANCE DriverApplication
       WITH phase <- IF main \in {"down", "crashed"} THEN main
                     ELSE IF shutdown THEN "closing" ELSE "spin"

IsDriverApplication == App!Spec

(* A driver that is not told to stop gets connected again after every error and every
   change of the configuration, and says so. *)
Reconnects ==
    ~running ~> ((running /\ status = "OPERATIONAL") \/ shutdown \/ Crashed)

(* DSRCOBUClient::process publishes nothing but valid messages, which "begin with 2 bytes
   message ID and 1 byte length". *)
PublishedIsValid == published # <<>> => Len(published) > 2 /\ Framed(published)

(* OPERATIONAL means that the client is connected, or that close() is just about to
   set the status: DriverStatus.status is the operational state of the device. *)
OperationalIsConnected == status = "OPERATIONAL" => running \/ main = "join"

=============================================================================
