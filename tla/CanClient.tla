----------------------------- MODULE CanClient -----------------------------
(***************************************************************************)
(* How a driver of a CAN device receives: SocketCANInterface, whose io     *)
(* thread pushes every frame into a SynchronizedAsyncProcessQueue, and the *)
(* queue's own thread, which hands the frames to the driver.  The          *)
(* destructor of the client (TruckDBWController) closes the device, joins  *)
(* the io thread, stops the queue and joins its thread.                    *)
(***************************************************************************)
EXTENDS Naturals, Sequences

CONSTANTS MaxQueue,  \* max_size of the queue
          MaxFrames, \* bound: frames the bus delivers
          MaxErrors  \* bound: reads that fail

ASSUME CanAssumption == MaxQueue \in Nat \ {0} /\ MaxFrames \in Nat /\ MaxErrors \in Nat

VARIABLES main,      \* the destructor, "up" before it is called
          open,      \* is_open_
          io,        \* the io thread
          rx,        \* rx_: the number of the last frame read, 0 when there is none
          errors,    \* reads that have failed
          queue,     \* process_q_
          running,   \* the queue's running_
          proc,      \* the queue's thread
          hand,      \* the entry it has taken, 0 when there is none
          handled    \* the last frame given to the driver

ioVars   == <<open, io, rx, errors>>
procVars == <<running, proc, hand, handled>>
canVars  == <<main, ioVars, queue, procVars>>

(* q_mutex_ is held across a step only by a thread about to wait: "park". *)
Unlocked == proc # "park"

(* cv_.notify_all(): a waiting thread locks the mutex and tests the queue again. *)
Notified == IF proc = "wait" THEN "lock" ELSE proc

-----------------------------------------------------------------------------
(* The io thread *)

Read ==
    /\ io = "read" /\ open /\ rx < MaxFrames
    /\ rx' = rx + 1 /\ io' = "push"
    /\ UNCHANGED <<main, open, errors, queue, procVars>>

(* A failed read returns fewer bytes than a frame, so that it is taken for a frame: what
   rx_ still holds is delivered once more. *)
ReadError ==
    /\ io = "read" /\ open /\ errors < MaxErrors
    /\ errors' = errors + 1 /\ io' = "push"
    /\ UNCHANGED <<main, open, rx, queue, procVars>>

(* Closing the descriptor aborts the pending read: the handler runs once more with rx_, or
   the io service is stopped before it. *)
ReadAborted ==
    /\ io = "read" /\ ~open
    /\ io' \in {"lastPush", "ended"}
    /\ UNCHANGED <<main, open, rx, errors, queue, procVars>>

(* The circular buffer overwrites its oldest entry. *)
PushBack(e) ==
    queue' = IF Len(queue) = MaxQueue THEN Append(Tail(queue), e) ELSE Append(queue, e)

(* Mutant: a full queue refuses the new entry. *)
Push_full ==
    /\ io \in {"push", "lastPush"} /\ Unlocked
    /\ queue' = IF Len(queue) = MaxQueue THEN queue ELSE Append(queue, rx)
    /\ proc' = Notified
    /\ io' = IF io = "push" THEN "read" ELSE "ended"
    /\ UNCHANGED <<main, open, rx, errors, running, hand, handled>>

(* frameReceivedHandler *)
Push ==
    /\ io \in {"push", "lastPush"} /\ Unlocked
    /\ PushBack(rx)
    /\ proc' = Notified
    /\ io' = IF io = "push" THEN "read" ELSE "ended"
    /\ UNCHANGED <<main, open, rx, errors, running, hand, handled>>

-----------------------------------------------------------------------------
(* SynchronizedAsyncProcessQueue::process *)

While ==
    /\ proc = "loop"
    /\ proc' = IF running THEN "lock" ELSE "ended"
    /\ UNCHANGED <<main, ioVars, queue, running, hand, handled>>

(* The lock is held: the thread ends, takes an entry, or has found that it must wait. *)
Lock ==
    /\ proc = "lock"
    /\ IF ~running THEN proc' = "ended" /\ UNCHANGED <<queue, hand>>
       ELSE IF queue = <<>> THEN proc' = "park" /\ UNCHANGED <<queue, hand>>
       ELSE proc' = "handle" /\ hand' = Head(queue) /\ queue' = Tail(queue)
    /\ UNCHANGED <<main, ioVars, running, handled>>

(* cv_.wait releases the lock. *)
Wait ==
    /\ proc = "park" /\ proc' = "wait"
    /\ UNCHANGED <<main, ioVars, queue, running, hand, handled>>

(* f_(entry): TruckDBWController::process *)
Handle ==
    /\ proc = "handle"
    /\ handled' = hand /\ hand' = 0 /\ proc' = "loop"
    /\ UNCHANGED <<main, ioVars, queue, running>>

-----------------------------------------------------------------------------
(* ~TruckDBWController *)

(* Mutant: the queue is destroyed before the device is closed. *)
CloseDevice_last ==
    /\ main = "close"
    /\ running' = FALSE /\ proc' = Notified
    /\ main' = "joinProc"
    /\ UNCHANGED <<ioVars, queue, hand, handled>>

(* device_.reset(): SocketCANInterfacePimpl::close() *)
CloseDevice ==
    /\ main = "close"
    /\ open' = FALSE /\ main' = "joinIo"
    /\ UNCHANGED <<io, rx, errors, queue, procVars>>

JoinIo ==
    /\ main = "joinIo" /\ io = "ended"
    /\ main' = "stopQueue"
    /\ UNCHANGED <<ioVars, queue, procVars>>

(* process_q_.reset(): running_ is cleared without the lock. *)
StopQueue ==
    /\ main = "stopQueue"
    /\ running' = FALSE /\ proc' = Notified
    /\ main' = "joinProc"
    /\ UNCHANGED <<ioVars, queue, hand, handled>>

JoinProc ==
    /\ main = "joinProc" /\ proc = "ended"
    /\ main' = "down"
    /\ UNCHANGED <<ioVars, queue, procVars>>

-----------------------------------------------------------------------------
CanInit ==
    /\ main = "up" /\ open = TRUE /\ io = "read" /\ rx = 0 /\ errors = 0
    /\ queue = <<>> /\ running = TRUE /\ proc = "loop" /\ hand = 0 /\ handled = 0

ProcStep == While \/ Lock \/ Wait \/ Handle

CloseStep == CloseDevice \/ JoinIo \/ StopQueue \/ JoinProc

CanStep == Read \/ ReadError \/ ReadAborted \/ Push \/ ProcStep \/ CloseStep

(* The threads run; nothing forces the bus to deliver, or a read to fail. *)
CanFairness ==
    WF_canVars(Push) /\ WF_canVars(ReadAborted) /\ WF_canVars(ProcStep) /\ WF_canVars(CloseStep)

-----------------------------------------------------------------------------
(* The frame the io thread has in hand goes into a queue that exists: once the queue is being
   destroyed, the io thread has ended.  Otherwise frameReceivedHandler would use freed
   memory. *)
QueueOutlivesDevice ==
    main \in {"joinProc", "down"} => io = "ended"

(* The queue loses old frames when it is full, never the latest one: as long as the client
   is not destroyed, the driver gets to see every frame or a later one. *)
LatestIsHandled ==
    \A f \in 1 .. MaxFrames : rx = f ~> (handled >= f \/ main # "up")
=============================================================================
