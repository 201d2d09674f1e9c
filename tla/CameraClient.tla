---------------------------- MODULE CameraClient ----------------------------
(***************************************************************************)
(* The camera client (oi.client.rgbd.libfreenect2): the main thread opens  *)
(* the camera and then repeats Cycle for ever: wait for a frame, queue it  *)
(* (QueueRGBDFrame, in RGBDFrame), give it back to the driver.  SIGUSR1    *)
(* pauses and resumes the camera; its handler interrupts the main thread,  *)
(* or runs on the thread that sends the configuration.                     *)
(* The driver is external: a started camera delivers frames.               *)
(***************************************************************************)
EXTENDS RGBDFrame

CONSTANTS
    Threads,     \* the threads that may run a handler
    Main,        \* the thread of main()
    MaxSignals   \* bound: signals

ASSUME ClientAssumption ==
    /\ Main \in Threads
    /\ MaxSignals \in Nat

VARIABLES
    loop,        \* where the main thread is in main() and Cycle
    started,     \* the camera is started
    ready,       \* the listener has a new set of frames
    lent,        \* how many sets of frames the listener has lent to the client
    paused,      \* freenect_paused
    shutdown,    \* freenect_shutdown
    handler,     \* handler[th]: where thread th is in a handler
    signals      \* how many signals there have been

loopVars == <<loop, ready, lent>>
deviceVars == <<started, paused, shutdown, signals>>
clientVars == <<loopVars, deviceVars, handler>>
allVars == <<vars, clientVars>>

ClientInit ==
    /\ Init
    /\ loop = "open"
    /\ started = FALSE /\ ready = FALSE /\ lent = 0
    /\ paused = FALSE /\ shutdown = FALSE
    /\ handler = [th \in Threads |-> "none"]
    /\ signals = 0

------------------------------------------------------------------------------
(* The main thread.  It stands still while it runs a handler.              *)
InMain == handler[Main] = "none"
Go(from, to) == InMain /\ loop = from /\ loop' = to

\* Starts the camera, then installs the handlers.
OpenDevice ==
    /\ Go("open", "wait")
    /\ started' = TRUE
    /\ UNCHANGED <<vars, ready, lent, paused, shutdown, signals, handler>>

\* Without a camera OpenDevice returns -1, which nobody looks at: Cycle then uses
\* pointers that were never set, and what it does is undefined.
OpenDeviceFails ==
    /\ Go("open", "undefined")
    /\ UNCHANGED <<vars, ready, lent, deviceVars, handler>>

\* A new set of frames; without one Cycle returns -1 after five seconds and is
\* called again.
WaitForNewFrame ==
    /\ Go("wait", "apply")
    /\ ready
    /\ ready' = FALSE
    /\ lent' = lent + 1
    /\ UNCHANGED <<vars, deviceVars, handler>>

Queue ==
    /\ Go("apply", "queue")
    /\ \E t \in Times : QueueRGBDFrame(size.height, size.width, t)
    /\ UNCHANGED <<ready, lent, deviceVars, handler>>

Queueing ==
    /\ Go("queue", "queue")
    /\ Working \/ AwaitBuffer \/ NoBuffer
    /\ UNCHANGED <<ready, lent, deviceVars, handler>>

\* The OIError of an empty pool, which nobody catches.
QueueThrows ==
    /\ Go("queue", "ended")
    /\ AcquisitionThrows
    /\ UNCHANGED <<ready, lent, deviceVars, handler>>

ReleaseOnlySent ==
    /\ pc = "idle"
    /\ Go("queue", "wait")
    /\ lent' = IF result = "-1" THEN lent ELSE lent - 1
    /\ UNCHANGED <<vars, ready, deviceVars, handler>>

\* Whatever QueueRGBDFrame returned, the frames go back to the driver.
ReleaseFrames ==
    /\ pc = "idle"
    /\ Go("queue", "wait")
    /\ lent' = lent - 1
    /\ UNCHANGED <<vars, ready, deviceVars, handler>>

Cycle == WaitForNewFrame \/ Queue \/ Queueing \/ QueueThrows \/ ReleaseFrames

Camera ==
    /\ started
    /\ ~ready
    /\ ready' = TRUE
    /\ UNCHANGED <<vars, loop, lent, deviceVars, handler>>

------------------------------------------------------------------------------
(* Signals.  The handlers are installed when the camera is open.           *)
Running == loop \notin {"open", "undefined", "ended"}
Signal == signals < MaxSignals /\ signals' = signals + 1

\* sigint_handler: sets a flag that nobody reads.
SigInt ==
    /\ Running
    /\ Signal
    /\ shutdown' = TRUE
    /\ UNCHANGED <<vars, loopVars, started, paused, handler>>

\* sigusr1_handler looks at the flag...
SigUsr1(th) ==
    /\ Running
    /\ Signal
    /\ handler[th] = "none"
    /\ handler' = [handler EXCEPT ![th] = IF paused THEN "start" ELSE "stop"]
    /\ UNCHANGED <<vars, loopVars, started, paused, shutdown>>

\* ... starts or stops the camera, not looking whether that succeeds or fails...
StartOrStop(th) ==
    /\ handler[th] \in {"start", "stop"}
    /\ handler' = [handler EXCEPT ![th] = "toggle"]
    /\ started' \in {started, handler[th] = "start"}
    /\ UNCHANGED <<vars, loopVars, paused, shutdown, signals>>

\* ... and turns the flag round, which it reads again.
Toggle(th) ==
    /\ handler[th] = "toggle"
    /\ handler' = [handler EXCEPT ![th] = "none"]
    /\ paused' = ~paused
    /\ UNCHANGED <<vars, loopVars, started, shutdown, signals>>

Handlers == \E th \in Threads : StartOrStop(th) \/ Toggle(th)

------------------------------------------------------------------------------
ClientNext ==
    \/ OpenDevice \/ OpenDeviceFails
    \/ Cycle
    \/ Camera
    \/ SigInt
    \/ loop # "ended" /\ (Handlers \/ \E th \in Threads : SigUsr1(th))

\* The main thread and the handlers go on; nobody owes a frame or a signal, nor, to
\* a thread that sleeps, a buffer or a notification.
ClientFairness ==
    /\ WF_allVars(OpenDevice \/ OpenDeviceFails)
    /\ WF_allVars(Cycle /\ ~asleep)
    /\ WF_allVars(loop # "ended" /\ Handlers)

ClientSpec == ClientInit /\ [][ClientNext]_allVars
FairClientSpec == ClientSpec /\ ClientFairness

------------------------------------------------------------------------------
\* The driver reuses a set of frames only when it is given back, so the client must
\* have given back what it was lent before it waits again, also when a frame
\* was given up half way for want of a buffer.
FramesGivenBack ==
    /\ lent \in {0, 1}
    /\ loop = "wait" => lent = 0

\* However signals interrupt it and however large the image is, the client comes
\* back to waiting for a frame, unless an OIError ends it or it sleeps for ever
\* in an acquisition: the loop over the rows itself always ends.
ClientComesBack ==
    []<>~asleep => ((loop \in {"apply", "queue"}) ~> (loop \in {"wait", "ended"}))

\* "Whether the running application should shut down."  It does not hold: nobody
\* reads the flag (README, section 4).
ShutsDown == shutdown ~> (loop = "ended")

------------------------------------------------------------------------------
(* The inductive invariant of the proofs.                                  *)
ClientTypeOK ==
    /\ size \in [height : Heights, width : Widths]
    /\ loop \in {"open", "undefined", "wait", "apply", "queue", "ended"}
    /\ started \in BOOLEAN /\ paused \in BOOLEAN
    /\ handler \in [Threads -> {"none", "start", "stop", "toggle"}]

\* The client holds one set of frames from WaitForNewFrame to ReleaseFrames.
LentWhileWorking == lent = IF loop \in {"apply", "queue", "ended"} THEN 1 ELSE 0

ClientIInv == ClientTypeOK /\ LentWhileWorking
==============================================================================
