------------------------------ MODULE CanDevice ------------------------------
(***************************************************************************)
(* The CAN bus of the analyser as the daemon uses it (node-device-object.c *)
(* with the read and write of node-object.c): every value of every node is *)
(* an entry of the node's object dictionary, read or written by one        *)
(* request that the node answers with one frame.                           *)
(*                                                                         *)
(* The daemon is one GLib main loop and a call blocks it until the answer  *)
(* or the timeout, so there is one call at a time.  What interleaves with  *)
(* the daemon is the bus: nodes that answer, refuse, do not answer, answer *)
(* after the call has timed out, or reset.  A frame says which node sent   *)
(* it; the daemon never looks at the entry the answer is for.              *)
(*                                                                         *)
(* Entries with numbers only: strings, which take several frames, are left *)
(* out.                                                                    *)
(***************************************************************************)
EXTENDS Naturals, Sequences, SequencesExt

CONSTANTS
  Node,        \* the nodes (their numbers are 1 to 123)
  Entry,       \* the entries of all object dictionaries
  NodeOf,      \* the node of each entry
  Value,       \* what an entry can hold
  Default,     \* what it holds after a reset, and the zero bytes of a frame
  Sensed,      \* the entries that change by themselves (inputs)
  LateAnswers, \* whether a node may answer after the timeout
  NodeResets,  \* whether a node may reset
  MaxFrames    \* model-checking bound on requests and frames under way

ASSUME EntryAssumption ==
  NodeOf \in [Entry -> Node] /\ Entry # {} /\ Default \in Value /\ Sensed \subseteq Entry

ASSUME BusAssumption ==
  LateAnswers \in BOOLEAN /\ NodeResets \in BOOLEAN /\ MaxFrames \in Nat

VARIABLES
  store,       \* what the nodes hold
  cache,       \* internal_value of the daemon's object for each entry
  sent,        \* requests sent to each node that it has not dealt with
  rx,          \* frames received and not yet read from the device
  call,        \* the call in progress
  result,      \* what the last call returned
  held,        \* what the entry of the call has held since the call began
  owed,        \* during a call: whether, when it began, its node had not dealt
               \* with an earlier request, or a node has reset since
  unannounced  \* nodes that have reset and whose reset was not signalled

(* held, owed and unannounced are history variables: no guard reads them.  *)
vars == <<store, cache, sent, rx, call, result, held, owed, unannounced>>

Request == [kind : {"read", "write"}, entry : Entry, val : Value]
Frame   == [kind : {"value", "ack", "abort", "reset"}, node : Node, val : Value]
Call    == [kind : {"none", "read", "write"}, entry : Entry, val : Value]

NoCall == [kind |-> "none", entry |-> CHOOSE e \in Entry : TRUE, val |-> Default]
Idle   == call.kind = "none"

TypeOK ==
  /\ store \in [Entry -> Value] /\ cache \in [Entry -> Value]
  /\ sent \in [Node -> Seq(Request)] /\ rx \in Seq(Frame)
  /\ call \in Call /\ result \in BOOLEAN
  /\ held \subseteq Value /\ owed \in BOOLEAN /\ unannounced \subseteq Node

Init ==
  /\ store \in [Entry -> Value] /\ cache = [e \in Entry |-> Default]
  /\ sent = [n \in Node |-> <<>>] /\ rx = <<>>
  /\ call = NoCall /\ result = FALSE /\ held = {} /\ owed = FALSE
  /\ unannounced = {}

-----------------------------------------------------------------------------
(* Calls                                                                   *)

\* Wrong: one reset is signalled, whatever else there is.
DrainOneReset ==
  /\ rx' = <<>>
  /\ unannounced' = unannounced \ (IF rx # <<>> /\ Head(rx).kind = "reset"
                                   THEN {Head(rx).node} ELSE {})

\* node_read_system_message: all frames received so far are read; the resets
\* among them are signalled (broadcast_node_reset), the rest is dropped.
Drain ==
  /\ rx' = <<>>
  /\ unannounced' = {n \in unannounced :
                       \A i \in 1..Len(rx) : rx[i].kind = "reset" => rx[i].node # n}

Return(ok) == call' = NoCall /\ result' = ok /\ held' = {} /\ owed' = FALSE

\* The request is written to the device; when that fails the call returns.
Send(kind, e, v) ==
  \/ /\ sent' = [sent EXCEPT ![NodeOf[e]] =
                   Append(@, [kind |-> kind, entry |-> e, val |-> v])]
     /\ call' = [kind |-> kind, entry |-> e, val |-> v]
     /\ held' = {store[e]} /\ owed' = (sent[NodeOf[e]] # <<>>)
     /\ UNCHANGED result
  \/ Return(FALSE) /\ UNCHANGED sent

\* Wrong: frames that came since the last call are left to this one.
BeginReadUndrained(e) ==
  /\ Idle /\ Len(sent[NodeOf[e]]) < MaxFrames
  /\ Send("read", e, Default)
  /\ UNCHANGED <<store, cache, rx, unannounced>>

\* node_device_object_read_index, up to the loop of read_index
BeginRead(e) ==
  /\ Idle /\ Len(sent[NodeOf[e]]) < MaxFrames
  /\ Drain /\ Send("read", e, Default)
  /\ UNCHANGED <<store, cache>>

\* node_object_write_value and node_device_object_write_index, up to its loop:
\* the daemon's copy has the new value before the node is asked.
BeginWrite(e, v) ==
  /\ Idle /\ Len(sent[NodeOf[e]]) < MaxFrames
  /\ cache' = [cache EXCEPT ![e] = v]
  /\ Drain /\ Send("write", e, v)
  /\ UNCHANGED store

\* Wrong: the timer is not installed.
IdleDrainOff == Idle /\ UNCHANGED vars

\* node_device_read_idle, every 20 seconds
IdleDrain ==
  Idle /\ Drain /\ UNCHANGED <<store, cache, sent, call, result, held, owed>>

\* Wrong: an answer that refuses the request is an answer.
CompletesIfRefused(f) ==
  f.node = NodeOf[call.entry] /\ f.kind \in {"value", "ack", "abort"}

\* node_device_process_index returns PROCESS_INDEX_DONE: only the node is
\* compared, and only a refusal (and any other frame) does not count.
Completes(f) ==
  f.node = NodeOf[call.entry] /\ f.kind \in {"value", "ack"}

\* The loops of read_index and node_device_object_write_index: a frame is
\* read.  A value goes into the entry of the call, whatever it is a value of.
ReceiveAnswer ==
  /\ ~Idle /\ rx # <<>> /\ Completes(Head(rx))
  /\ rx' = Tail(rx)
  /\ cache' = IF Head(rx).kind = "value"
              THEN [cache EXCEPT ![call.entry] = Head(rx).val] ELSE cache
  /\ Return(TRUE)
  /\ UNCHANGED <<store, sent, unannounced>>

\* ... the frame is a reset, of whichever node: signalled, and the call ends
\* as if it had been answered.
ReceiveReset ==
  /\ ~Idle /\ rx # <<>> /\ Head(rx).kind = "reset"
  /\ rx' = Tail(rx)
  /\ unannounced' = unannounced \ {Head(rx).node}
  /\ Return(TRUE)
  /\ UNCHANGED <<store, cache, sent>>

\* ... the frame is a refusal or comes from another node.
ReceiveOther ==
  /\ ~Idle /\ rx # <<>> /\ Head(rx).kind # "reset" /\ ~Completes(Head(rx))
  /\ rx' = Tail(rx)
  /\ UNCHANGED <<store, cache, sent, call, result, held, owed, unannounced>>

Receive == ReceiveAnswer \/ ReceiveReset \/ ReceiveOther

\* Wrong: done is TRUE before there is an answer.
TimeoutIsDone ==
  /\ ~Idle /\ rx = <<>>
  /\ LateAnswers \/ sent[NodeOf[call.entry]] = <<>>
  /\ Return(TRUE)
  /\ UNCHANGED <<store, cache, sent, rx, unannounced>>

\* Wrong: does not give the node the time.
TimeoutAtOnce ==
  /\ ~Idle /\ rx = <<>>
  /\ Return(FALSE)
  /\ UNCHANGED <<store, cache, sent, rx, unannounced>>

\* Wrong: waits for the node to deal with the request, however long.
TimeoutWaitsForNode ==
  /\ ~Idle /\ rx = <<>>
  /\ sent[NodeOf[call.entry]] = <<>>
  /\ Return(FALSE)
  /\ UNCHANGED <<store, cache, sent, rx, unannounced>>

\* ... no frame is there and the time (200 ms to read, 100 ms to write) is
\* over.  Without LateAnswers the node deals with every request before that.
Timeout ==
  /\ ~Idle /\ rx = <<>>
  /\ LateAnswers \/ sent[NodeOf[call.entry]] = <<>>
  /\ Return(FALSE)
  /\ UNCHANGED <<store, cache, sent, rx, unannounced>>

-----------------------------------------------------------------------------
(* The nodes                                                               *)

\* held follows the entry of the call.
Hold == held' = IF Idle THEN held ELSE held \cup {store'[call.entry]}

\* A node reads or writes the entry the request names and answers, unless
\* the answer is lost.
NodeExecutes(n) ==
  /\ sent[n] # <<>> /\ Len(rx) < MaxFrames
  /\ sent' = [sent EXCEPT ![n] = Tail(@)]
  /\ LET r == Head(sent[n])
         answer == IF r.kind = "read"
                   THEN [kind |-> "value", node |-> n, val |-> store[r.entry]]
                   ELSE [kind |-> "ack", node |-> n, val |-> Default]
     IN /\ store' = IF r.kind = "write" THEN [store EXCEPT ![r.entry] = r.val]
                    ELSE store
        /\ \/ rx' = Append(rx, answer)
           \/ UNCHANGED rx
  /\ Hold
  /\ UNCHANGED <<cache, call, result, owed, unannounced>>

\* It refuses the request, or the request does not reach it.
NodeRefuses(n) ==
  /\ sent[n] # <<>> /\ Len(rx) < MaxFrames
  /\ sent' = [sent EXCEPT ![n] = Tail(@)]
  /\ \/ rx' = Append(rx, [kind |-> "abort", node |-> n, val |-> Default])
     \/ UNCHANGED rx
  /\ UNCHANGED <<store, cache, call, result, held, owed, unannounced>>

\* It resets: it has its defaults, knows of no request, and says so.
NodeReset(n) ==
  /\ NodeResets /\ Len(rx) < MaxFrames
  /\ store' = [e \in Entry |-> IF NodeOf[e] = n THEN Default ELSE store[e]]
  /\ sent' = [sent EXCEPT ![n] = <<>>]
  /\ rx' = Append(rx, [kind |-> "reset", node |-> n, val |-> Default])
  /\ unannounced' = unannounced \cup {n}
  /\ Hold /\ owed' = ~Idle
  /\ UNCHANGED <<cache, call, result>>

\* An input changes.
Sense(e, v) ==
  /\ e \in Sensed
  /\ store' = [store EXCEPT ![e] = v]
  /\ Hold
  /\ UNCHANGED <<cache, sent, rx, call, result, owed, unannounced>>

Bus ==
  \/ \E n \in Node : NodeExecutes(n) \/ NodeRefuses(n) \/ NodeReset(n)
  \/ \E e \in Entry, v \in Value : Sense(e, v)

Next ==
  \/ \E e \in Entry : BeginRead(e)
  \/ \E e \in Entry \ Sensed, v \in Value : BeginWrite(e, v)
  \/ IdleDrain \/ Receive \/ Timeout
  \/ Bus

Spec == Init /\ [][Next]_vars

\* The loops of a call run until they return, and GLib runs the idle drain
\* when no call is in progress.  Nothing is assumed of the nodes.
LiveSpec == Spec /\ WF_vars(Receive) /\ WF_vars(Timeout) /\ WF_vars(IdleDrain)

-----------------------------------------------------------------------------
(* What a call promises.                                                   *)

Returns(kind) == call.kind = kind /\ call'.kind = "none" /\ result'

\* While nodes answer in time and do not reset, a call and what is under way
\* on the bus belong together: nothing is under way between two calls, and
\* during a call only its request or one answer to it.  (This is what lets the
\* daemon do without looking at the entry an answer is for.)
AnswersCall(f) ==
  /\ f.node = NodeOf[call.entry]
  /\ \/ f.kind = "abort"
     \/ f.kind = "value" /\ call.kind = "read"  /\ f.val \in held
     \/ f.kind = "ack"   /\ call.kind = "write" /\ call.val \in held

CallIsMatched ==
  /\ \A n \in Node : Idle \/ n # NodeOf[call.entry] => sent[n] = <<>>
  /\ Idle => rx = <<>>
  /\ ~Idle =>
       /\ store[call.entry] \in held
       /\ \/ rx = <<>> /\ sent[NodeOf[call.entry]] \in {<<>>, <<call>>}
          \/ /\ sent[NodeOf[call.entry]] = <<>>
             /\ \E f \in Frame : rx = <<f>> /\ AnswersCall(f)

CanInv == TypeOK /\ CallIsMatched

\* A read that returns TRUE leaves in the daemon's copy a value that the entry
\* has held since the read began: never an earlier value, and never the
\* value of another entry.
ReadIsFresh == [][Returns("read") => cache'[call.entry] \in held]_vars

\* A write that returns TRUE has reached the node: the entry has held the
\* written value since the write began.
WriteIsStored == [][Returns("write") => call.val \in held]_vars

\* However late nodes answer and whenever they reset: a call that returns TRUE
\* has done what it says unless, when it began, its own node had not dealt with
\* an earlier request, or a node has reset during it.  So the late answer to a
\* call that timed out can spoil a call to the same node only, and only one
\* during which it comes: what came before is drained.
CallIsRight ==
  [][ ~owed => /\ Returns("read") => cache'[call.entry] \in held
               /\ Returns("write") => call.val \in held ]_vars

\* The frame of a reset that was not signalled is still there to be read: no
\* loop and no drain reads it for nothing.
ResetIsPending ==
  \A n \in unannounced :
    \E i \in 1..Len(rx) : rx[i].kind = "reset" /\ rx[i].node = n

\* A call, which blocks the whole daemon, returns whatever the nodes do.
CallReturns == ~Idle ~> Idle

\* Every reset is signalled (the measurement service then starts HOLD),
\* whether its frame arrives during a call, between two, or with others.
ResetIsAnnounced == \A n \in Node : n \in unannounced ~> n \notin unannounced

=============================================================================
