----------------------------- MODULE CtrlQueue -----------------------------
(***************************************************************************)
(* The client's side of the controller (core/controller.cpp): a ring       *)
(* buffer of messages between the threads of the user interface, which     *)
(* write an event and signal (ctrl_client_sendmsg), and the control        *)
(* thread, which waits for a signal and then sends until the ring is empty *)
(* (ctrl_client_thread).                                                   *)
(*                                                                         *)
(* Positions are multiples of qunit in the code and units here.  A unit    *)
(* that the control thread is sending from is not locked; what protects it *)
(* is that it leaves the ring only when it has been sent.  The mutex       *)
(* around the wait protects nothing that the writers change.               *)
(***************************************************************************)
EXTENDS Integers, Sequences

CONSTANTS Units,      \* qsize / qunit
          Writer,     \* threads that call ctrl_client_sendmsg
          Msg, NoMsg,
          NoUnit,     \* no unit is being sent
          ConnectFails, SendFails, Spurious

ASSUME QueueAssumption ==
    /\ Units \in Nat \ {0}
    /\ NoMsg \notin Msg
    /\ NoUnit \notin Nat
    /\ {ConnectFails, SendFails, Spurious} \subseteq BOOLEAN

VARIABLES
    qbuffer, qhead, qtail,
    ctrlenabled,     \* cleared when the server cannot be reached
    wpc,             \* writers that have queued a message and not signalled yet
    cpc,             \* where the control thread is
    qm,              \* the unit it is sending
    delivered        \* the message in it, once sent

ring == <<qbuffer, qhead, qtail>>
queueVars == <<ring, ctrlenabled, wpc, cpc, qm, delivered>>

Unit == 0..Units - 1

QueueTypeOK ==
    /\ qbuffer \in [Unit -> Msg \cup {NoMsg}]
    /\ qhead \in Unit /\ qtail \in Unit
    /\ ctrlenabled \in BOOLEAN
    /\ wpc \subseteq Writer
    /\ cpc \in {"init", "wait", "waiting", "drain", "send", "release", "ended", "exited"}
    /\ qm \in Unit \cup {NoUnit}
    /\ delivered \in Msg \cup {NoMsg}

QueueInit ==
    /\ qbuffer = [u \in Unit |-> NoMsg]
    /\ qhead = 0 /\ qtail = 0
    /\ ctrlenabled = TRUE
    /\ wpc = {}
    /\ cpc = "init"
    /\ qm = NoUnit
    /\ delivered = NoMsg

After(u) == IF u + 1 = Units THEN 0 ELSE u + 1

full_when_equal == FALSE                                             \* mutant
Full == After(qtail) = qhead

-----------------------------------------------------------------------------
(* The user interface: ctrl_queue_write_msg, and the signal that follows   *)
(* unless the message was refused.                                         *)

ctrl_queue_write_msg(w, m) ==
    /\ w \notin wpc
    /\ ctrlenabled
    /\ ~Full
    /\ qbuffer' = [qbuffer EXCEPT ![qtail] = m]
    /\ qtail' = After(qtail)
    /\ wpc' = wpc \cup {w}
    /\ UNCHANGED <<qhead, ctrlenabled, cpc, qm, delivered>>

write_silent(w) ==                      \* mutant: pthread_cond_signal is missing
    /\ w \in wpc
    /\ wpc' = wpc \ {w}
    /\ UNCHANGED <<ring, ctrlenabled, cpc, qm, delivered>>

write_signal(w) ==
    /\ w \in wpc
    /\ wpc' = wpc \ {w}
    /\ cpc' = IF cpc = "waiting" THEN "drain" ELSE cpc
    /\ UNCHANGED <<ring, ctrlenabled, qm, delivered>>

-----------------------------------------------------------------------------
(* The control thread.                                                     *)

(* When ctrl_socket_init fails already, events are still queued, and stay  *)
(* in the ring.                                                            *)
ctrl_client_init ==
    /\ cpc = "init"
    /\ \/ cpc' = "wait" /\ UNCHANGED ctrlenabled
       \/ /\ ConnectFails
          /\ ctrlenabled' \in {FALSE, ctrlenabled}
          /\ cpc' = "ended"
    /\ UNCHANGED <<ring, wpc, qm, delivered>>

client_wait ==
    /\ cpc = "wait"
    /\ cpc' = "waiting"
    /\ UNCHANGED <<ring, ctrlenabled, wpc, qm, delivered>>

spurious_wakeup ==
    /\ Spurious /\ cpc = "waiting"
    /\ cpc' = "drain"
    /\ UNCHANGED <<ring, ctrlenabled, wpc, qm, delivered>>

release_early ==                        \* mutant: the unit is released before the send
    /\ cpc = "drain"
    /\ IF qtail = qhead
       THEN cpc' = "wait" /\ UNCHANGED <<qm, qhead>>
       ELSE cpc' = "send" /\ qm' = qhead /\ qhead' = After(qhead)
    /\ UNCHANGED <<qbuffer, qtail, ctrlenabled, wpc, delivered>>

ctrl_queue_read_msg ==
    /\ cpc = "drain"
    /\ IF qtail = qhead
       THEN cpc' = "wait" /\ UNCHANGED qm
       ELSE cpc' = "send" /\ qm' = qhead
    /\ UNCHANGED <<ring, ctrlenabled, wpc, delivered>>

queue_send ==
    /\ cpc = "send"
    /\ \/ delivered' = qbuffer[qm] /\ cpc' = "release"
       \/ SendFails /\ cpc' = "exited" /\ UNCHANGED delivered
    /\ UNCHANGED <<ring, ctrlenabled, wpc, qm>>

ctrl_queue_release_msg ==
    /\ cpc = "release"
    /\ qhead' = IF qhead = qtail THEN qhead ELSE After(qhead)
    /\ qm' = NoUnit
    /\ delivered' = NoMsg
    /\ cpc' = "drain"
    /\ UNCHANGED <<qbuffer, qtail, ctrlenabled, wpc>>

Control ==
    \/ ctrl_client_init \/ client_wait \/ ctrl_queue_read_msg \/ queue_send
    \/ ctrl_queue_release_msg

Write(w) == \E m \in Msg : ctrl_queue_write_msg(w, m)

QueueNext ==
    /\ cpc # "exited"
    /\ \/ \E w \in Writer : Write(w) \/ write_signal(w)
       \/ Control \/ spurious_wakeup

QueueSpec == QueueInit /\ [][QueueNext]_queueVars

(***************************************************************************)
(* The threads run.  Input goes on: the user keeps producing events.       *)
(***************************************************************************)
Running(A) == cpc # "exited" /\ A

FairQueueSpec ==
    /\ QueueSpec
    /\ WF_queueVars(Running(Control))
    /\ \A w \in Writer : WF_queueVars(Running(write_signal(w))) /\ WF_queueVars(Running(Write(w)))

-----------------------------------------------------------------------------
(***************************************************************************)
(* The ring implements the bounded queue: messages are sent in the order   *)
(* in which they were written, each once and as it was written, and one is *)
(* refused only when Units - 1 are in the ring.                            *)
(***************************************************************************)
Count == IF qtail >= qhead THEN qtail - qhead ELSE qtail - qhead + Units

At(i) == IF qhead + i < Units THEN qhead + i ELSE qhead + i - Units

BF == INSTANCE BoundedFifo WITH
        queue <- [i \in 1..Count |-> qbuffer[At(i - 1)]],
        delivered <- delivered, Capacity <- Units - 1

ImplementsBoundedFifo == BF!BFSpec

(***************************************************************************)
(* The unit that is being sent stays the head of the ring, so that what    *)
(* ctrl_queue_release_msg releases is what was sent.                       *)
(***************************************************************************)
ReleasesWhatWasSent == cpc \in {"send", "release"} => qm = qhead /\ qhead # qtail

(***************************************************************************)
(* While the user keeps producing events, a control thread that waits is   *)
(* woken: the signal that it misses, because it is not waiting yet, only   *)
(* delays its message until the next one.  A ring that has filled before   *)
(* the thread waits is the exception: events are refused from then on, an  *)
(* event that is refused does not signal, and the thread waits for ever.   *)
(***************************************************************************)
EventsFlow == cpc = "waiting" /\ ~Full ~> cpc # "waiting"
=============================================================================
