----------------------------- MODULE VideoPath -----------------------------
(***************************************************************************)
(* The way of a video frame through the server: the capture thread         *)
(* (vsource-desktop.cpp) fills the source pipeline, the filter thread      *)
(* (filter-rgb2yuv.cpp) converts from the source into the destination      *)
(* pipeline, and the encoder thread (encoder-video.cpp), which the hub     *)
(* starts and stops with the first and the last client, takes from the     *)
(* destination.  The threads tell one another about new frames with        *)
(* condition variables (wait, timedwait and notify_all of pipeline.cpp).   *)
(*                                                                         *)
(* A pipeline is a sequence of frames here; that its pool of buffers       *)
(* behaves like one is the subject of Pipeline.  storing and notifying are *)
(* two steps, and so are finding a pipeline empty and starting to wait:    *)
(* the mutex around the wait is the waiter's own and orders nothing.       *)
(***************************************************************************)
EXTENDS Integers, Sequences

CONSTANTS PoolSize,     \* buffers in each pipeline (8 in the code)
          MaxFrames,    \* bound: frames captured ...
          Recycle,      \* ... or, if TRUE, the last number is used for ever
          EncodeFails,  \* the encoder may fail
          Spurious,     \* a wait may return without a signal
          NoFrame

Frame == 1..MaxFrames

ASSUME VideoAssumption ==
    /\ PoolSize \in Nat \ {0} /\ MaxFrames \in Nat \ {0}
    /\ {Recycle, EncodeFails, Spurious} \subseteq BOOLEAN
    /\ NoFrame \notin Frame

VARIABLES
    srcq, dstq,       \* the frames stored in each pipeline
    spc, fpc, epc,    \* where the source, the filter and the encoder are
    fhand,            \* the source frame the filter owns
    fout,             \* the destination frame the filter owns
    ehand,            \* the frame the encoder owns
    eout,             \* the picture it has to encode and send
    registered,       \* the threads in the condmaps of the two pipelines
    threadLaunched,   \* the hub's flag
    captured,         \* the number of the last frame captured
    encoded,          \* the number of the last frame sent
    exited            \* "no", or who called exit(-1)

sourceVars  == <<spc, captured>>
filterVars  == <<fpc, fhand, fout>>
encoderVars == <<epc, ehand, eout, encoded>>
vars == <<srcq, dstq, sourceVars, filterVars, encoderVars, registered,
          threadLaunched, exited>>

TypeOK ==
    /\ srcq \in Seq(Frame) /\ dstq \in Seq(Frame)
    /\ spc \in {"check", "capture", "notify"}
    /\ fpc \in {"start", "load", "wait", "waiting", "woken", "allocate", "release",
                "store", "notify"}
    /\ epc \in {"none", "start", "loop", "wait", "waiting", "woken", "have", "send",
                "quit", "done"}
    /\ {fhand, fout, ehand, eout} \subseteq Frame \cup {NoFrame}
    /\ registered \subseteq {"filter", "encoder"}
    /\ threadLaunched \in BOOLEAN
    /\ captured \in 0..MaxFrames /\ encoded \in 0..MaxFrames
    /\ exited \in {"no", "pool", "filter"}

Init ==
    /\ srcq = <<>> /\ dstq = <<>>
    /\ spc = "check" /\ fpc = "start" /\ epc = "none"
    /\ fhand = NoFrame /\ fout = NoFrame /\ ehand = NoFrame /\ eout = NoFrame
    /\ registered = {}
    /\ threadLaunched = FALSE
    /\ captured = 0 /\ encoded = 0
    /\ exited = "no"

Held(x) == IF x = NoFrame THEN 0 ELSE 1

(* allocate_data on a pipeline with queue q of which n buffers are owned:  *)
(* a free buffer if there is one, else the eldest frame's.                 *)
spare_needed(q, n) == n + 1 < PoolSize                               \* mutant
Allocatable(q, n)  == n < PoolSize
evict_newest(q, n) ==                                                \* mutant
    IF Len(q) + n < PoolSize THEN q ELSE SubSeq(q, 1, Len(q) - 1)
AfterAllocate(q, n) == IF Len(q) + n < PoolSize THEN q ELSE Tail(q)

-----------------------------------------------------------------------------
(* The capture thread.                                                     *)

source_allocate ==
    /\ spc = "check"
    /\ threadLaunched                     \* encoder_running()
    /\ captured < MaxFrames \/ Recycle
    /\ IF Allocatable(srcq, Held(fhand))
       THEN /\ srcq' = AfterAllocate(srcq, Held(fhand))
            /\ spc' = "capture"
            /\ UNCHANGED exited
       ELSE /\ exited' = "pool"
            /\ UNCHANGED <<srcq, spc>>
    /\ UNCHANGED <<captured, dstq, filterVars, encoderVars, registered, threadLaunched>>

source_store ==
    /\ spc = "capture"
    /\ captured' = IF captured < MaxFrames THEN captured + 1 ELSE captured
    /\ srcq' = Append(srcq, captured')
    /\ spc' = "notify"
    /\ UNCHANGED <<dstq, filterVars, encoderVars, registered, threadLaunched, exited>>

source_silent ==                        \* mutant: notify_all is missing
    /\ spc = "notify"
    /\ spc' = "check"
    /\ UNCHANGED <<captured, srcq, dstq, filterVars, encoderVars, registered,
                   threadLaunched, exited>>

source_notify ==
    /\ spc = "notify"
    /\ fpc' = IF "filter" \in registered /\ fpc = "waiting" THEN "woken" ELSE fpc
    /\ spc' = "check"
    /\ UNCHANGED <<captured, srcq, dstq, fhand, fout, encoderVars, registered,
                   threadLaunched, exited>>

-----------------------------------------------------------------------------
client_register(t)   == registered' = registered \cup {t}
client_unregister(t) == registered' = registered \ {t}

(* The filter thread.                                                      *)

filter_register ==
    /\ fpc = "start"
    /\ client_register("filter")
    /\ fpc' = "load"
    /\ UNCHANGED <<fhand, fout, srcq, dstq, sourceVars, encoderVars, threadLaunched, exited>>

filter_take ==
    /\ srcq # <<>>
    /\ fhand' = Head(srcq)
    /\ srcq' = Tail(srcq)
    /\ fpc' = "allocate"
    /\ UNCHANGED exited

filter_load ==
    /\ fpc = "load"
    /\ \/ filter_take
       \/ srcq = <<>> /\ fpc' = "wait" /\ UNCHANGED <<fhand, srcq, exited>>
    /\ UNCHANGED <<fout, dstq, sourceVars, encoderVars, registered, threadLaunched>>

filter_wait ==
    /\ fpc = "wait"
    /\ fpc' = "waiting"
    /\ UNCHANGED <<fhand, fout, srcq, dstq, sourceVars, encoderVars, registered,
                   threadLaunched, exited>>

(* After a wait there has to be a frame.                                   *)
filter_reload ==
    /\ fpc = "woken"
    /\ \/ filter_take
       \/ srcq = <<>> /\ exited' = "filter" /\ UNCHANGED <<fpc, fhand, srcq>>
    /\ UNCHANGED <<fout, dstq, sourceVars, encoderVars, registered, threadLaunched>>

filter_allocate ==
    /\ fpc = "allocate"
    /\ IF Allocatable(dstq, Held(ehand))
       THEN /\ dstq' = AfterAllocate(dstq, Held(ehand))
            /\ fout' = fhand
            /\ fpc' = "release"
            /\ UNCHANGED exited
       ELSE /\ exited' = "pool"
            /\ UNCHANGED <<dstq, fout, fpc>>
    /\ UNCHANGED <<fhand, srcq, sourceVars, encoderVars, registered, threadLaunched>>

filter_release ==
    /\ fpc = "release"
    /\ fhand' = NoFrame
    /\ fpc' = "store"
    /\ UNCHANGED <<fout, srcq, dstq, sourceVars, encoderVars, registered,
                   threadLaunched, exited>>

filter_store ==
    /\ fpc = "store"
    /\ dstq' = Append(dstq, fout)
    /\ fout' = NoFrame
    /\ fpc' = "notify"
    /\ UNCHANGED <<fhand, srcq, sourceVars, encoderVars, registered, threadLaunched, exited>>

filter_notify ==
    /\ fpc = "notify"
    /\ epc' = IF "encoder" \in registered /\ epc = "waiting" THEN "woken" ELSE epc
    /\ fpc' = "load"
    /\ UNCHANGED <<fhand, fout, srcq, dstq, sourceVars, ehand, eout, encoded, registered,
                   threadLaunched, exited>>

-----------------------------------------------------------------------------
(* The encoder thread.                                                     *)

encoder_register ==
    /\ epc = "start"
    /\ \/ /\ client_register("encoder")
          /\ epc' = "loop"
       \/ /\ EncodeFails
          /\ epc' = "quit"
          /\ UNCHANGED registered
    /\ UNCHANGED <<ehand, eout, encoded, srcq, dstq, sourceVars, filterVars,
                   threadLaunched, exited>>

take_leaves_frame ==                    \* mutant: the head is not moved on
    /\ dstq # <<>>
    /\ ehand' = Head(dstq)
    /\ epc' = "have"
    /\ UNCHANGED dstq

encoder_take ==
    /\ dstq # <<>>
    /\ ehand' = Head(dstq)
    /\ dstq' = Tail(dstq)
    /\ epc' = "have"

(* The flag is read and then the queue; a flag that changes in between     *)
(* could as well change after.                                             *)
encoder_loop ==
    /\ epc = "loop"
    /\ \/ threadLaunched /\ encoder_take
       \/ threadLaunched /\ dstq = <<>> /\ epc' = "wait" /\ UNCHANGED <<ehand, dstq>>
       \/ ~threadLaunched /\ epc' = "quit" /\ UNCHANGED <<ehand, dstq>>
    /\ UNCHANGED <<eout, encoded, srcq, sourceVars, filterVars, registered,
                   threadLaunched, exited>>

encoder_timedwait ==
    /\ epc = "wait"
    /\ epc' = "waiting"
    /\ UNCHANGED <<ehand, eout, encoded, srcq, dstq, sourceVars, filterVars, registered,
                   threadLaunched, exited>>

waits_for_ever == FALSE /\ UNCHANGED vars            \* mutant: wait, not timedwait
encoder_timeout ==
    /\ epc = "waiting"
    /\ epc' = "loop"
    /\ UNCHANGED <<ehand, eout, encoded, srcq, dstq, sourceVars, filterVars, registered,
                   threadLaunched, exited>>

(* After a wake-up with nothing to load the encoder starts over.           *)
encoder_reload ==
    /\ epc = "woken"
    /\ \/ encoder_take
       \/ dstq = <<>> /\ epc' = "loop" /\ UNCHANGED <<ehand, dstq>>
    /\ UNCHANGED <<eout, encoded, srcq, sourceVars, filterVars, registered,
                   threadLaunched, exited>>

(* The picture is scaled or copied out of the frame, which goes back.      *)
encoder_release ==
    /\ epc = "have"
    /\ ehand' = NoFrame
    /\ \/ eout' = ehand /\ epc' = "send"
       \/ EncodeFails /\ epc' = "quit" /\ UNCHANGED eout   \* mismatched linesizes
    /\ UNCHANGED <<encoded, srcq, dstq, sourceVars, filterVars, registered,
                   threadLaunched, exited>>

(* encoder_send_packet_all fails only once the encoders are told to stop.  *)
encoder_send ==
    /\ epc = "send"
    /\ \/ encoded' = eout /\ epc' = "loop"
       \/ (EncodeFails \/ ~threadLaunched) /\ epc' = "quit" /\ UNCHANGED encoded
    /\ eout' = NoFrame
    /\ UNCHANGED <<ehand, srcq, dstq, sourceVars, filterVars, registered,
                   threadLaunched, exited>>

quit_registered ==                      \* mutant: no client_unregister
    /\ epc = "quit"
    /\ epc' = "done"
    /\ UNCHANGED <<ehand, eout, encoded, srcq, dstq, sourceVars, filterVars, registered,
                   threadLaunched, exited>>

encoder_quit ==
    /\ epc = "quit"
    /\ client_unregister("encoder")
    /\ epc' = "done"
    /\ UNCHANGED <<ehand, eout, encoded, srcq, dstq, sourceVars, filterVars,
                   threadLaunched, exited>>

(* A condition variable may wake its waiter without a signal.              *)
spurious_wakeup ==
    /\ Spurious
    /\ \/ fpc = "waiting" /\ fpc' = "woken" /\ UNCHANGED epc
       \/ epc = "waiting" /\ epc' = "woken" /\ UNCHANGED fpc
    /\ UNCHANGED <<fhand, fout, ehand, eout, encoded, srcq, dstq, sourceVars, registered,
                   threadLaunched, exited>>

-----------------------------------------------------------------------------
(* The hub: encoder_register_client and encoder_unregister_client.         *)

launch ==
    /\ epc = "none" /\ ~threadLaunched
    /\ threadLaunched' = TRUE
    /\ epc' = "start"
    /\ UNCHANGED <<ehand, eout, encoded, srcq, dstq, sourceVars, filterVars, registered, exited>>

stop ==
    /\ threadLaunched
    /\ threadLaunched' = FALSE
    /\ UNCHANGED <<srcq, dstq, sourceVars, filterVars, encoderVars, registered, exited>>

join ==
    /\ ~threadLaunched /\ epc = "done"
    /\ epc' = "none"
    /\ UNCHANGED <<ehand, eout, encoded, srcq, dstq, sourceVars, filterVars, registered,
                   threadLaunched, exited>>

Source == source_allocate \/ source_store \/ source_notify

Filter ==
    \/ filter_register \/ filter_load \/ filter_wait \/ filter_reload
    \/ filter_allocate \/ filter_release \/ filter_store \/ filter_notify

Encoder ==
    \/ encoder_register \/ encoder_loop \/ encoder_timedwait \/ encoder_timeout
    \/ encoder_reload \/ encoder_release \/ encoder_send \/ encoder_quit

Hub == launch \/ stop \/ join

Next ==
    /\ exited = "no"
    /\ Source \/ Filter \/ Encoder \/ spurious_wakeup \/ Hub

Spec == Init /\ [][Next]_vars

(***************************************************************************)
(* The threads run, and a thread that is being joined is joined.  Clients  *)
(* come and go as they like.                                               *)
(***************************************************************************)
Running(A) == exited = "no" /\ A

Fairness ==
    /\ WF_vars(Running(Source)) /\ WF_vars(Running(Filter))
    /\ WF_vars(Running(Encoder)) /\ WF_vars(Running(join))

FairSpec == Spec /\ Fairness

-----------------------------------------------------------------------------
(* Frame y was captured after frame x; where numbers are used up, the last *)
(* one stands for all frames from there on.                                *)
Earlier(x, y) == x < y \/ (Recycle /\ x = MaxFrames /\ y = MaxFrames)

(***************************************************************************)
(* Frames are sent in the order in which they were captured, none of them  *)
(* twice, through two pipelines that drop frames and across sessions: each *)
(* time that the encoder sends a frame, it is a later one than before.     *)
(***************************************************************************)
EncodedInOrder ==
    [][epc = "send" /\ epc' = "loop" => Earlier(encoded, encoded')]_vars

(***************************************************************************)
(* No allocate_data on the way finds all buffers taken: at most two        *)
(* threads own buffers of one pipeline.                                    *)
(***************************************************************************)
PoolNeverExhausted == PoolSize >= 2 => exited # "pool"

(***************************************************************************)
(* The condmap of a pipeline holds no condition variable of a thread that  *)
(* has ended: notify_all would signal a variable on a stack that is gone.  *)
(***************************************************************************)
CondMapLive == "encoder" \in registered => epc \notin {"none", "start", "done"}

(***************************************************************************)
(* Each pipeline is used as the queue that Pipeline is shown to implement. *)
(***************************************************************************)
Src == INSTANCE LossyQueue WITH
        queue <- srcq, taken <- [c \in {"filter"} |-> fhand],
        Consumer <- {"filter"}, MinLoss <- PoolSize - 1

Dst == INSTANCE LossyQueue WITH
        queue <- dstq, taken <- [c \in {"encoder"} |-> ehand],
        Consumer <- {"encoder"}, MinLoss <- PoolSize - 1

PipesAreLossyQueues == Src!LQSpec /\ Dst!LQSpec

(***************************************************************************)
(* An encoder that is told to stop ends, so that the hub's join, which     *)
(* holds encoder_lock, returns, although the source has stopped as well    *)
(* and nobody notifies any more.                                           *)
(***************************************************************************)
EncoderStops == ~threadLaunched ~> epc = "none" \/ threadLaunched \/ exited # "no"

(***************************************************************************)
(* While clients are served pictures keep being sent: a notification that  *)
(* comes before its waiter waits delays the picture and no more.           *)
(***************************************************************************)
VideoFlows ==
    []<>(epc = "send" \/ ~threadLaunched \/ epc \in {"quit", "done"} \/ exited # "no")

(***************************************************************************)
(* filter-rgb2yuv.cpp says "should never be here" (line 205) of the exit   *)
(* it takes when a wait ends with no frame to load.                        *)
(***************************************************************************)
FilterNeverFatal == exited # "filter"
=============================================================================
