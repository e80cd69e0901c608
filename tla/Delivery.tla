------------------------------ MODULE Delivery ------------------------------
(***************************************************************************)
(* Delivery of envelopes from one endpoint ("src") to another ("dst")      *)
(* through the development link: the sender's outbox and its retry loop,   *)
(* the volatile relay, the receiver's inbox, the acknowledgement on its    *)
(* way back, and the deaths of processes and connections in between.  Both *)
(* directions run the same code; this is one of them.                      *)
(*                                                                         *)
(* Retry times are abstracted: a pending row may be due at any time.       *)
(***************************************************************************)
EXTENDS Integers, FiniteSets, FiniteSetsExt, NodeStore

CONSTANTS
    Messages,
    Expiring,    \* messages with an expires_at
    Capacity,    \* queue_capacity of the link
    MaxFaults,   \* bound of crashes and dropped connections
    NoMessage

Sides == {"src", "dst"}
Frames == {"envelope", "ack"} \X Messages
Destination(f) == IF f[1] = "envelope" THEN "dst" ELSE "src"

ASSUME DeliveryAssumption ==
    /\ IsFiniteSet(Messages)
    /\ NoMessage \notin Messages
    /\ Expiring \subseteq Messages
    /\ Capacity \in Nat \ {0}
    /\ MaxFaults \in Nat

VARIABLES
    outbox,       \* durable, src: ack_state of every row
    expired,      \* messages whose expires_at has passed
    inbox,        \* durable, dst: processing_state of every row
    received_at,  \* durable, dst: order of insertion
    completions,  \* how often the handler's completion was committed
    up,           \* which processes are running
    conn,         \* the endpoints' connections, as the relay sees them
    batch,        \* src: rows send_pending has read and not yet attempted
    pc,           \* dst: where receive_frames, handle() or recover() is
    msg,          \* dst: the message it is about
    left,         \* dst: claims the current call may still make
    relay,        \* up, stalled (its delivery task has died) or down
    queue,        \* copies of each frame the relay holds
    faults

durable == <<outbox, inbox, received_at, completions>>
link == <<relay, queue>>
receiver == <<pc, msg, left>>
vars == <<durable, expired, up, conn, batch, receiver, link, faults>>
-----------------------------------------------------------------------------
\* Every table, queue and place is of its type; in particular the relay never
\* holds more copies of a frame than its capacity.
TypeOK ==
    /\ outbox \in [Messages -> {"ABSENT", "PENDING", "ACKED"}]
    /\ expired \subseteq Expiring
    /\ inbox \in [Messages -> InboxState]
    /\ received_at \in [Messages -> Nat]
    /\ completions \in [Messages -> Nat]
    /\ up \subseteq Sides
    /\ conn \in [Sides -> {"open", "dying", "closed"}]
    /\ batch \subseteq Messages
    /\ pc \in {"idle", "received", "duplicate", "handle", "more", "claimed"}
    /\ msg \in Messages \cup {NoMessage}
    /\ left \in Nat
    /\ relay \in {"up", "stalled", "down"}
    /\ queue \in [Frames -> 0..Capacity]
    /\ faults \in 0..MaxFaults

Init ==
    /\ outbox = [m \in Messages |-> "ABSENT"]
    /\ expired = {}
    /\ inbox = [m \in Messages |-> "ABSENT"]
    /\ received_at = [m \in Messages |-> 0]
    /\ completions = [m \in Messages |-> 0]
    /\ up = Sides
    /\ conn = [d \in Sides |-> "closed"]
    /\ batch = {}
    /\ pc = "idle"
    /\ msg = NoMessage
    /\ left = 0
    /\ relay = "up"
    /\ queue = [f \in Frames |-> 0]
    /\ faults = 0

Fault == faults < MaxFaults /\ faults' = faults + 1
-----------------------------------------------------------------------------
(* The relay.                                                              *)

Load == MapThenSumSet(LAMBDA f : queue[f], Frames)

\* submit: one copy, or two when a duplicate is injected.  Copies beyond the
\* capacity are dropped, and so is an envelope that would arrive expired.
SubmitUnbounded(f) == \E copies \in 1..2 : queue' = [queue EXCEPT ![f] = @ + copies]
Submit(f) ==
    \E copies \in (IF f[1] = "envelope" /\ f[2] \in Expiring THEN 0..2 ELSE 1..2) :
        queue' = [queue EXCEPT ![f] = Min({@ + copies, @ + Capacity - Load})]

Taken(f) == queue' = [queue EXCEPT ![f] = @ - 1]

\* The endpoint's half of a connection ends at once, the relay's only when its
\* handler has run.
Broken(d) == [conn EXCEPT ![d] = IF @ = "open" THEN "dying" ELSE @]

\* _delivery_loop, nobody connected: the frame is dropped.
DropFrame(f) ==
    /\ relay = "up"
    /\ queue[f] > 0
    /\ conn[Destination(f)] = "closed"
    /\ Taken(f)
    /\ UNCHANGED <<durable, expired, up, conn, batch, receiver, relay, faults>>

\* _delivery_loop, a connection that is closed and not yet unregistered: send
\* raises out of the gather and out of the loop; nothing restarts the task.
DeliveryTaskDies(f) ==
    /\ relay = "up"
    /\ queue[f] > 0
    /\ conn[Destination(f)] = "dying"
    /\ Taken(f)
    /\ relay' = "stalled"
    /\ UNCHANGED <<durable, expired, up, conn, batch, receiver, faults>>

\* _handle's finally: the relay forgets the connection.
Unregister(d) ==
    /\ conn[d] = "dying"
    /\ conn' = [conn EXCEPT ![d] = "closed"]
    /\ UNCHANGED <<durable, expired, up, batch, receiver, link, faults>>

\* The link process dies, or someone restarts one that has stalled: its queue
\* and every connection are gone.
LinkGone(next) ==
    /\ relay' = next
    /\ queue' = [f \in Frames |-> 0]
    /\ conn' = [d \in Sides |-> "closed"]
    /\ batch' = {}
    /\ UNCHANGED <<durable, expired, up, receiver>>

LinkCrash == relay # "down" /\ Fault /\ LinkGone("down")

LinkRestart ==
    /\ relay \in {"down", "stalled"}
    /\ LinkGone("up")
    /\ UNCHANGED faults
-----------------------------------------------------------------------------
(* The sender.                                                             *)

Enqueue(m) ==
    /\ "src" \in up
    /\ outbox[m] = "ABSENT"
    /\ outbox' = [outbox EXCEPT ![m] = "PENDING"]
    /\ UNCHANGED <<expired, inbox, received_at, completions, up, conn, batch,
                   receiver, link, faults>>

\* pending_outbox: an expired row stays PENDING and is passed over.
Due == {m \in Messages : outbox[m] = "PENDING" /\ m \notin expired}

ReadPending ==
    /\ conn["src"] = "open"
    /\ batch = {}
    /\ Due # {}
    /\ batch' = Due
    /\ UNCHANGED <<durable, expired, up, conn, receiver, link, faults>>

\* record_attempt and send, one row of the batch after the other; other frames
\* are received while a send is awaited.
SendNext(m) ==
    /\ conn["src"] = "open"
    /\ m \in batch
    /\ outbox[m] = "PENDING"
    /\ batch' = batch \ {m}
    /\ Submit(<<"envelope", m>>)
    /\ UNCHANGED <<durable, expired, up, conn, receiver, relay, faults>>

\* The row was acknowledged after the batch was read: record_attempt raises an
\* error that _connect_forever does not catch, and the process ends.
AttemptRaises(m) ==
    /\ conn["src"] = "open"
    /\ m \in batch
    /\ outbox[m] # "PENDING"
    /\ up' = up \ {"src"}
    /\ conn' = Broken("src")
    /\ batch' = {}
    /\ UNCHANGED <<durable, expired, receiver, link, faults>>

ReceiveAck(m) ==
    /\ relay = "up"
    /\ queue[<<"ack", m>>] > 0
    /\ conn["src"] = "open"
    /\ Taken(<<"ack", m>>)
    /\ outbox' = [outbox EXCEPT ![m] = "ACKED"]
    /\ UNCHANGED <<expired, inbox, received_at, completions, up, conn, batch,
                   receiver, relay, faults>>
-----------------------------------------------------------------------------
(* The receiver.                                                           *)

\* The row is inserted before anything else happens to the frame.
PersistsLater(m) == inbox
Persisted(m) == Receive(inbox, m)

ReceiveFrame(m) ==
    /\ relay = "up"
    /\ queue[<<"envelope", m>>] > 0
    /\ conn["dst"] = "open"
    /\ pc = "idle"
    /\ Taken(<<"envelope", m>>)
    /\ inbox' = Persisted(m)
    /\ received_at' = IF inbox[m] = "ABSENT"
                      THEN [received_at EXCEPT ![m] = Max(
                              {received_at[n] : n \in Messages}) + 1]
                      ELSE received_at
    /\ pc' = IF inbox[m] = "ABSENT" THEN "received" ELSE "duplicate"
    /\ msg' = m
    /\ UNCHANGED <<outbox, completions, expired, up, conn, batch, left, relay,
                   faults>>

\* A duplicate is acknowledged and nothing else.
AcknowledgesNew(m) ==
    IF pc = "received" THEN Submit(<<"ack", m>>) ELSE UNCHANGED queue
Acknowledges(m) == Submit(<<"ack", m>>)

SendAck ==
    /\ pc \in {"received", "duplicate"}
    /\ conn["dst"] = "open"
    /\ Acknowledges(msg)
    /\ IF pc = "received"
       THEN pc' = "handle" /\ UNCHANGED msg
       ELSE pc' = "idle" /\ msg' = NoMessage
    /\ UNCHANGED <<durable, expired, up, conn, batch, left, relay, faults>>

\* The connection is gone: send raises and handle() is not called.
AckFails ==
    /\ pc \in {"received", "duplicate"}
    /\ conn["dst"] # "open"
    /\ pc' = "idle"
    /\ msg' = NoMessage
    /\ UNCHANGED <<durable, expired, up, conn, batch, left, link, faults>>

\* handle(): its own message, if it is still to be had, then one more.
Handle ==
    /\ pc = "handle"
    /\ IF msg \in Claimable(inbox)
       THEN /\ inbox' = Claim(inbox, msg)
            /\ pc' = "claimed"
            /\ left' = 1
            /\ UNCHANGED msg
       ELSE /\ pc' = "idle"
            /\ msg' = NoMessage
            /\ UNCHANGED <<inbox, left>>
    /\ UNCHANGED <<outbox, received_at, completions, expired, up, conn, batch,
                   link, faults>>

\* process_claimed and complete_inbox.
CompleteInbox ==
    /\ pc = "claimed"
    /\ inbox' = Complete(inbox, msg)
    /\ completions' = [completions EXCEPT ![msg] = @ + 1]
    /\ pc' = "more"
    /\ msg' = NoMessage
    /\ UNCHANGED <<outbox, received_at, expired, up, conn, batch, left, link,
                   faults>>

ClaimNext(m) ==
    /\ pc = "more"
    /\ left > 0
    /\ m \in NextInbox(inbox, received_at)
    /\ inbox' = Claim(inbox, m)
    /\ pc' = "claimed"
    /\ msg' = m
    /\ left' = left - 1
    /\ UNCHANGED <<outbox, received_at, completions, expired, up, conn, batch,
                   link, faults>>

Return ==
    /\ pc = "more"
    /\ left = 0 \/ Claimable(inbox) = {}
    /\ pc' = "idle"
    /\ left' = 0
    /\ UNCHANGED <<durable, expired, up, conn, batch, msg, link, faults>>
-----------------------------------------------------------------------------
(* Processes and connections.                                              *)

\* _connect_forever, once the previous connection's task has ended.
Connect(d) ==
    /\ d \in up
    /\ relay # "down"
    /\ conn[d] = "closed"
    /\ d = "dst" => pc = "idle"
    /\ conn' = [conn EXCEPT ![d] = "open"]
    /\ UNCHANGED <<durable, expired, up, batch, receiver, link, faults>>

ConnectionLost(d) ==
    /\ conn[d] = "open"
    /\ Fault
    /\ conn' = Broken(d)
    /\ batch' = IF d = "src" THEN {} ELSE batch
    /\ UNCHANGED <<durable, expired, up, receiver, link>>

CrashSender ==
    /\ "src" \in up
    /\ Fault
    /\ up' = up \ {"src"}
    /\ conn' = Broken("src")
    /\ batch' = {}
    /\ UNCHANGED <<durable, expired, receiver, link>>

CrashReceiver ==
    /\ "dst" \in up
    /\ Fault
    /\ up' = up \ {"dst"}
    /\ conn' = Broken("dst")
    /\ pc' = "idle"
    /\ msg' = NoMessage
    /\ left' = 0
    /\ UNCHANGED <<durable, expired, batch, link>>

StartSender ==
    /\ "src" \notin up
    /\ up' = up \cup {"src"}
    /\ UNCHANGED <<durable, expired, conn, batch, receiver, link, faults>>

\* recover(): what the dead process held is claimable again, and the claimable
\* rows are worked off before the process connects.
StartReceiver ==
    /\ "dst" \notin up
    /\ up' = up \cup {"dst"}
    /\ inbox' = RecoverInterrupted(inbox)
    /\ left' = 2 * Cardinality(Claimable(inbox'))
    /\ pc' = "more"
    /\ UNCHANGED <<outbox, received_at, completions, expired, conn, batch, msg,
                   link, faults>>

Expire(m) ==
    /\ m \in Expiring \ expired
    /\ expired' = expired \cup {m}
    /\ UNCHANGED <<durable, up, conn, batch, receiver, link, faults>>
-----------------------------------------------------------------------------
SenderStep ==
    \/ ReadPending
    \/ \E m \in Messages : SendNext(m) \/ AttemptRaises(m)

ReceiverStep ==
    \/ SendAck \/ AckFails \/ Handle \/ CompleteInbox \/ Return
    \/ \E m \in Messages : ClaimNext(m)

RelayStep == \E f \in Frames : DropFrame(f) \/ DeliveryTaskDies(f)

FaultStep ==
    \/ LinkCrash \/ CrashSender \/ CrashReceiver
    \/ \E d \in Sides : ConnectionLost(d)

Next ==
    \/ SenderStep \/ ReceiverStep \/ RelayStep \/ FaultStep
    \/ LinkRestart \/ StartSender \/ StartReceiver
    \/ \E m \in Messages :
          Enqueue(m) \/ ReceiveAck(m) \/ ReceiveFrame(m) \/ Expire(m)
    \/ \E d \in Sides : Unregister(d) \/ Connect(d)

Spec == Init /\ [][Next]_vars

\* Endpoints run, reconnect and are started again; the relay's handlers end.
\* The link is fair-lossy: a frame that is sent again and again is not dropped
\* for capacity every time, and a frame that is queued again and again is
\* delivered.
Fairness ==
    /\ WF_vars(SenderStep) /\ WF_vars(ReceiverStep) /\ WF_vars(RelayStep)
    /\ WF_vars(StartSender) /\ WF_vars(StartReceiver)
    /\ \A d \in Sides : WF_vars(Unregister(d)) /\ WF_vars(Connect(d))
    /\ SF_vars(SendAck /\ queue' # queue)
    /\ \A m \in Messages :
          /\ SF_vars(SendNext(m) /\ queue' # queue)
          /\ SF_vars(ReceiveFrame(m))
          /\ SF_vars(ReceiveAck(m))

\* Nobody looks after the link unless it has died.
FairSpec == Spec /\ Fairness /\ WF_vars(relay = "down" /\ LinkRestart)

\* Someone also restarts a link that has stopped delivering.
SupervisedSpec == Spec /\ Fairness /\ WF_vars(LinkRestart)
-----------------------------------------------------------------------------
\* A row leaves the retry loop only when the receiver has made it durable:
\* whatever is lost on the way, crashed or duplicated, an acknowledged message
\* is in the inbox, and so is one the receiver is still working on.
AckedIsPersisted ==
    \A m \in Messages :
        outbox[m] = "ACKED" \/ queue[<<"ack", m>>] > 0 \/ msg = m
            => inbox[m] # "ABSENT"

\* A handler's consequences are committed once: neither redelivery nor a crash
\* before the commit, nor the retry of handle() and recover(), completes a
\* message a second time.
CompletedOnce == \A m \in Messages : completions[m] <= 1

\* A message that does not expire is acknowledged in the end, through crashes,
\* dropped connections and a link that loses, repeats and reorders frames.
DeliveryIsEventual ==
    \A m \in Messages \ Expiring : outbox[m] = "PENDING" ~> outbox[m] = "ACKED"
-----------------------------------------------------------------------------
(* Why these hold.                                                         *)

\* The relay holds no more copies in all than its capacity.
WithinCapacity == Load <= Capacity

\* A call is about one message, which it holds while it is claimed; a process
\* that is down is in no call and has no connection that is still open.
InCall ==
    /\ msg # NoMessage <=> pc \in {"received", "duplicate", "handle", "claimed"}
    /\ pc = "claimed" => inbox[msg] = "PROCESSING"
    /\ "dst" \notin up => pc = "idle" /\ conn["dst"] # "open"

\* The consequences of a message are committed with its row, and only then.
CommittedWithRow ==
    \A m \in Messages : completions[m] = IF inbox[m] = "PROCESSED" THEN 1 ELSE 0

\* What is inductive of all that.
DeliveryInv ==
    /\ TypeOK
    /\ WithinCapacity
    /\ InCall
    /\ AckedIsPersisted
    /\ CommittedWithRow
=============================================================================
