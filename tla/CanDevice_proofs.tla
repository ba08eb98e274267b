--------------------------- MODULE CanDevice_proofs ---------------------------
(***************************************************************************)
(* Proofs about CanDevice, for any nodes, entries and values.              *)
(*                                                                         *)
(* With nodes that answer in time and do not reset, CanInv is inductive,   *)
(* and that a successful call did what it says follows from it.            *)
(***************************************************************************)
EXTENDS CanDevice, SequenceTheorems, TLAPS

\* What the timeouts of the daemon presuppose.
Timely == ~LateAnswers /\ ~NodeResets

\* Between two calls there is none.
LEMMA NoCallType == NoCall \in Call /\ NoCall.kind = "none"
  BY EntryAssumption DEF NoCall, Call

-----------------------------------------------------------------------------
(* Types                                                                   *)

\* A call that begins or fails to begin keeps the types.
LEMMA SendType ==
  ASSUME TypeOK, NEW kind \in {"read", "write"}, NEW e \in Entry, NEW v \in Value,
         Send(kind, e, v)
  PROVE  /\ sent' \in [Node -> Seq(Request)] /\ call' \in Call
         /\ result' \in BOOLEAN /\ held' \subseteq Value /\ owed' \in BOOLEAN
<1>1. NodeOf[e] \in Node /\ store[e] \in Value
  BY EntryAssumption DEF TypeOK
<1>2. [kind |-> kind, entry |-> e, val |-> v] \in Request \cap Call
  BY DEF Request, Call
<1>3. CASE Return(FALSE) /\ UNCHANGED sent
  BY <1>3, NoCallType DEF TypeOK, Return
<1>4. CASE /\ sent' = [sent EXCEPT ![NodeOf[e]] =
                   Append(@, [kind |-> kind, entry |-> e, val |-> v])]
           /\ call' = [kind |-> kind, entry |-> e, val |-> v]
           /\ held' = {store[e]} /\ owed' = (sent[NodeOf[e]] # <<>>) /\ UNCHANGED result
  <2>1. Append(sent[NodeOf[e]], [kind |-> kind, entry |-> e, val |-> v]) \in Seq(Request)
    BY <1>1, <1>2 DEF TypeOK
  <2>2. QED
    BY <1>1, <1>2, <1>4, <2>1 DEF TypeOK
<1>5. QED
  BY <1>3, <1>4 DEF Send

\* So does the drain.
LEMMA DrainType ==
  ASSUME TypeOK, Drain
  PROVE  rx' \in Seq(Frame) /\ unannounced' \subseteq Node
  BY DEF Drain, TypeOK

\* Every step keeps the types.
LEMMA TypeStep == TypeOK /\ [Next]_vars => TypeOK'
<1> SUFFICES ASSUME TypeOK, [Next]_vars PROVE TypeOK'
  OBVIOUS
<1> USE DEF TypeOK
<1>1. ASSUME NEW e \in Entry, BeginRead(e) PROVE TypeOK'
  BY <1>1, SendType, DrainType, EntryAssumption DEF BeginRead
<1>2. ASSUME NEW e \in Entry, NEW v \in Value, BeginWrite(e, v) PROVE TypeOK'
  BY <1>2, SendType, DrainType DEF BeginWrite
<1>3. CASE IdleDrain
  BY <1>3, DrainType DEF IdleDrain
<1>4. CASE ReceiveAnswer
  <2>1. Head(rx) \in Frame /\ Tail(rx) \in Seq(Frame)
    BY <1>4 DEF ReceiveAnswer
  <2>2. Head(rx).val \in Value
    BY <2>1 DEF Frame
  <2>3. cache' \in [Entry -> Value]
    BY <1>4, <2>2 DEF ReceiveAnswer
  <2>4. QED
    BY <1>4, <2>1, <2>3, NoCallType DEF ReceiveAnswer, Return
<1>5. CASE ReceiveReset
  <2>1. rx' \in Seq(Frame)
    BY <1>5, HeadTailProperties DEF ReceiveReset
  <2>2. QED
    BY <1>5, <2>1, NoCallType DEF ReceiveReset, Return
<1>6. CASE ReceiveOther
  BY <1>6 DEF ReceiveOther
<1>7. CASE Timeout
  BY <1>7, NoCallType DEF Timeout, Return
<1>8. ASSUME NEW n \in Node, NodeExecutes(n) PROVE TypeOK'
  <2> DEFINE r == Head(sent[n])
  <2>1. r \in Request /\ Tail(sent[n]) \in Seq(Request)
    BY <1>8 DEF NodeExecutes
  <2>2. r.entry \in Entry /\ r.val \in Value
    BY <2>1 DEF Request
  <2>3. store' \in [Entry -> Value]
    BY <1>8, <2>2 DEF NodeExecutes
  <2>4. rx' \in Seq(Frame)
    <3>1. [kind |-> "value", node |-> n, val |-> store[r.entry]] \in Frame
      BY <2>2 DEF Frame
    <3>2. [kind |-> "ack", node |-> n, val |-> Default] \in Frame
      BY EntryAssumption DEF Frame
    <3>3. CASE UNCHANGED rx
      BY <3>3
    <3>4. CASE rx' = Append(rx, [kind |-> "value", node |-> n, val |-> store[r.entry]])
      BY <3>1, <3>4
    <3>5. CASE rx' = Append(rx, [kind |-> "ack", node |-> n, val |-> Default])
      BY <3>2, <3>5
    <3>6. QED
      BY <1>8, <3>3, <3>4, <3>5 DEF NodeExecutes
  <2>5. held' \subseteq Value
    BY <1>8, <2>3 DEF NodeExecutes, Hold, Call
  <2>6. sent' \in [Node -> Seq(Request)]
    BY <1>8, <2>1 DEF NodeExecutes
  <2>7. QED
    BY <1>8, <2>3, <2>4, <2>5, <2>6 DEF NodeExecutes
<1>9. ASSUME NEW n \in Node, NodeRefuses(n) PROVE TypeOK'
  <2>1. [kind |-> "abort", node |-> n, val |-> Default] \in Frame
    BY EntryAssumption DEF Frame
  <2>2. rx' \in Seq(Frame)
    <3>1. CASE UNCHANGED rx
      BY <3>1
    <3>2. CASE rx' = Append(rx, [kind |-> "abort", node |-> n, val |-> Default])
      BY <2>1, <3>2
    <3>3. QED
      BY <1>9, <3>1, <3>2 DEF NodeRefuses
  <2>3. sent' \in [Node -> Seq(Request)]
    BY <1>9 DEF NodeRefuses
  <2>4. QED
    BY <1>9, <2>2, <2>3 DEF NodeRefuses
<1>10. ASSUME NEW n \in Node, NodeReset(n) PROVE TypeOK'
  <2>1. [kind |-> "reset", node |-> n, val |-> Default] \in Frame
    BY EntryAssumption DEF Frame
  <2>2. store' \in [Entry -> Value]
    BY <1>10, EntryAssumption DEF NodeReset
  <2>3. QED
    BY <1>10, <2>1, <2>2 DEF NodeReset, Hold, Call
<1>11. ASSUME NEW e \in Entry, NEW v \in Value, Sense(e, v) PROVE TypeOK'
  BY <1>11 DEF Sense, Hold, Call
<1>12. CASE UNCHANGED vars
  BY <1>12 DEF vars
<1>13. QED
  BY <1>1, <1>2, <1>3, <1>4, <1>5, <1>6, <1>7, <1>8, <1>9, <1>10, <1>11, <1>12
  DEF Next, Receive, Bus

\* The daemon starts with nothing under way.
LEMMA InitType == Init => TypeOK
<1> SUFFICES ASSUME Init PROVE TypeOK
  OBVIOUS
<1>1. cache \in [Entry -> Value]
  BY EntryAssumption DEF Init
<1>2. sent \in [Node -> Seq(Request)] /\ rx \in Seq(Frame)
  BY DEF Init
<1>3. QED
  BY <1>1, <1>2, NoCallType DEF Init, TypeOK

\* The state of the bus and of the daemon keeps its type.
THEOREM BusTypeCorrect == Spec => []TypeOK
  BY InitType, TypeStep, PTL DEF Spec

-----------------------------------------------------------------------------
(* Calls and answers belong together                                       *)

\* Sequences of one element
LEMMA Single ==
  ASSUME NEW x
  PROVE  /\ Head(<<x>>) = x /\ Tail(<<x>>) = <<>> /\ <<x>> # <<>>
         /\ Append(<<>>, x) = <<x>>
  OBVIOUS

\* A frame that is there during a call answers it, and is the only one.
LEMMA FrameAnswers ==
  ASSUME CallIsMatched, ~Idle, rx # <<>>
  PROVE  /\ sent[NodeOf[call.entry]] = <<>> /\ Tail(rx) = <<>>
         /\ Head(rx) \in Frame /\ AnswersCall(Head(rx))
<1>1. PICK f \in Frame : rx = <<f>> /\ AnswersCall(f)
  BY DEF CallIsMatched
<1>2. QED
  BY <1>1, Single DEF CallIsMatched

\* A call begins on an empty bus.
LEMMA SendMatched ==
  ASSUME TypeOK, CallIsMatched, Idle, Drain, UNCHANGED store,
         NEW kind \in {"read", "write"}, NEW e \in Entry, NEW v \in Value,
         Send(kind, e, v)
  PROVE  CallIsMatched'
<1>1. rx' = <<>>
  BY DEF Drain
<1>2. \A n \in Node : sent[n] = <<>>
  BY DEF CallIsMatched
<1>3. CASE Return(FALSE) /\ UNCHANGED sent
  BY <1>1, <1>2, <1>3, NoCallType DEF CallIsMatched, Return, Idle
<1>4. CASE /\ sent' = [sent EXCEPT ![NodeOf[e]] =
                   Append(@, [kind |-> kind, entry |-> e, val |-> v])]
           /\ call' = [kind |-> kind, entry |-> e, val |-> v]
           /\ held' = {store[e]}
  <2>1. NodeOf[e] \in Node
    BY EntryAssumption
  <2>2. sent'[NodeOf[e]] = <<call'>>
    <3>1. sent'[NodeOf[e]] = Append(<<>>, call')
      BY <1>2, <1>4, <2>1 DEF TypeOK
    <3>2. QED
      BY <3>1, Single
  <2>3. \A n \in Node : n # NodeOf[e] => sent'[n] = <<>>
    BY <1>2, <1>4 DEF TypeOK
  <2>4. ~Idle' /\ store'[call'.entry] \in held'
    BY <1>4 DEF Idle
  <2>5. QED
    BY <1>1, <1>4, <2>2, <2>3, <2>4 DEF CallIsMatched
<1>5. QED
  BY <1>3, <1>4 DEF Send

\* The end of a call that leaves nothing under way.
LEMMA ReturnMatched ==
  ASSUME TypeOK, CallIsMatched, ~Idle, NEW ok, Return(ok), UNCHANGED sent,
         sent[NodeOf[call.entry]] = <<>>, rx' = <<>>
  PROVE  CallIsMatched'
  BY NoCallType DEF CallIsMatched, Return, Idle

\* While nodes answer in time and do not reset, every step keeps calls and
\* answers together.
LEMMA MatchedStep ==
  ASSUME Timely, TypeOK, CallIsMatched, [Next]_vars
  PROVE  CallIsMatched'
<1>1. ASSUME NEW e \in Entry, BeginRead(e) PROVE CallIsMatched'
  BY <1>1, SendMatched, EntryAssumption DEF BeginRead
<1>2. ASSUME NEW e \in Entry, NEW v \in Value, BeginWrite(e, v) PROVE CallIsMatched'
  BY <1>2, SendMatched DEF BeginWrite
<1>3. CASE IdleDrain
  BY <1>3 DEF IdleDrain, Drain, CallIsMatched, Idle
<1>4. CASE ReceiveAnswer
  BY <1>4, FrameAnswers, ReturnMatched DEF ReceiveAnswer
<1>5. CASE ReceiveReset
  BY <1>5, FrameAnswers DEF ReceiveReset, AnswersCall
<1>6. CASE ReceiveOther
  BY <1>6, FrameAnswers DEF ReceiveOther, CallIsMatched, Idle
<1>7. CASE Timeout
  BY <1>7, ReturnMatched DEF Timeout, Timely
<1>8. ASSUME NEW n \in Node, NodeExecutes(n) PROVE CallIsMatched'
  <2>1. ~Idle /\ n = NodeOf[call.entry] /\ sent[n] = <<call>> /\ rx = <<>>
    BY <1>8 DEF NodeExecutes, CallIsMatched
  <2>2. call.entry \in Entry /\ call.val \in Value /\ call.kind \in {"read", "write"}
    BY <2>1 DEF TypeOK, Call, Idle
  <2>3. UNCHANGED call /\ ~Idle'
    BY <1>8, <2>1 DEF NodeExecutes, Idle
  <2>4. sent'[n] = <<>> /\ \A m \in Node : m # n => sent'[m] = <<>>
    BY <1>8, <2>1 DEF NodeExecutes, CallIsMatched, TypeOK
  <2>5. store'[call.entry] \in held' /\ held \subseteq held'
    BY <1>8, <2>1 DEF NodeExecutes, Hold
  <2>6. CASE call.kind = "read"
    <3> DEFINE f == [kind |-> "value", node |-> n, val |-> store[call.entry]]
    <3>1. f \in Frame /\ f.val \in held'
      BY <2>1, <2>2, <2>5 DEF Frame, TypeOK, CallIsMatched
    <3>2. rx' = <<>> \/ rx' = <<f>>
      BY <1>8, <2>1, <2>6 DEF NodeExecutes
    <3>3. QED
      BY <2>1, <2>3, <2>4, <2>5, <2>6, <3>1, <3>2 DEF CallIsMatched, AnswersCall
  <2>7. CASE call.kind = "write"
    <3> DEFINE f == [kind |-> "ack", node |-> n, val |-> Default]
    <3>1. store'[call.entry] = call.val
      BY <1>8, <2>1, <2>2, <2>7 DEF NodeExecutes, TypeOK
    <3>2. f \in Frame
      BY EntryAssumption DEF Frame
    <3>3. rx' = <<>> \/ rx' = <<f>>
      BY <1>8, <2>1, <2>7 DEF NodeExecutes
    <3>4. QED
      BY <2>1, <2>3, <2>4, <2>5, <2>7, <3>1, <3>2, <3>3 DEF CallIsMatched, AnswersCall
  <2>8. QED
    BY <2>2, <2>6, <2>7
<1>9. ASSUME NEW n \in Node, NodeRefuses(n) PROVE CallIsMatched'
  <2>1. ~Idle /\ n = NodeOf[call.entry] /\ sent[n] = <<call>> /\ rx = <<>>
    BY <1>9 DEF NodeRefuses, CallIsMatched
  <2>2. UNCHANGED <<call, held, store>> /\ ~Idle'
    BY <1>9, <2>1 DEF NodeRefuses, Idle
  <2>3. sent'[n] = <<>> /\ \A m \in Node : m # n => sent'[m] = <<>>
    BY <1>9, <2>1 DEF NodeRefuses, CallIsMatched, TypeOK
  <2> DEFINE f == [kind |-> "abort", node |-> n, val |-> Default]
  <2>4. f \in Frame
    BY EntryAssumption DEF Frame
  <2>5. rx' = <<>> \/ rx' = <<f>>
    BY <1>9, <2>1 DEF NodeRefuses
  <2>6. QED
    BY <2>1, <2>2, <2>3, <2>4, <2>5 DEF CallIsMatched, AnswersCall
<1>10. ASSUME NEW n \in Node, NodeReset(n) PROVE CallIsMatched'
  BY <1>10 DEF NodeReset, Timely
<1>11. ASSUME NEW e \in Entry, NEW v \in Value, Sense(e, v) PROVE CallIsMatched'
  <2>1. UNCHANGED <<sent, rx, call>> /\ (Idle' <=> Idle)
    BY <1>11 DEF Sense, Idle
  <2>2. ~Idle => store'[call.entry] \in held' /\ held \subseteq held'
    BY <1>11 DEF Sense, Hold
  <2>3. \A f \in Frame : ~Idle /\ AnswersCall(f) => AnswersCall(f)'
    BY <2>1, <2>2 DEF AnswersCall
  <2>4. QED
    BY <2>1, <2>2, <2>3 DEF CallIsMatched
<1>12. CASE UNCHANGED vars
  BY <1>12 DEF vars, CallIsMatched, AnswersCall, Idle
<1>13. QED
  BY <1>1, <1>2, <1>3, <1>4, <1>5, <1>6, <1>7, <1>8, <1>9, <1>10, <1>11, <1>12
  DEF Next, Receive, Bus

\* Nothing is under way between calls, and during a call only what belongs to
\* it.
THEOREM CallsAreMatched == Timely => (Spec => []CanInv)
<1>1. Init => CanInv
  <2>1. Init => TypeOK
    BY InitType
  <2>2. Init => CallIsMatched
    BY NoCallType DEF Init, CallIsMatched, Idle
  <2>3. QED
    BY <2>1, <2>2 DEF CanInv
<1>2. Timely /\ CanInv /\ [Next]_vars => CanInv'
  BY TypeStep, MatchedStep DEF CanInv
<1>3. SUFFICES ASSUME Timely PROVE Spec => []CanInv
  OBVIOUS
<1>4. CanInv /\ [Next]_vars => CanInv'
  BY <1>2, <1>3
<1>5. QED
  BY <1>1, <1>4, PTL DEF Spec

-----------------------------------------------------------------------------
(* A call that succeeds did what it says                                   *)

\* The only step that returns TRUE is the receipt of an answer to the call.
LEMMA ReturnsByAnswer ==
  ASSUME Timely, CanInv, [Next]_vars, call.kind # "none", call'.kind = "none", result'
  PROVE  ReceiveAnswer
<1>1. CASE \E e \in Entry : BeginRead(e)
  BY <1>1 DEF BeginRead, Idle
<1>2. CASE \E e \in Entry, v \in Value : BeginWrite(e, v)
  BY <1>2 DEF BeginWrite, Idle
<1>3. CASE IdleDrain
  BY <1>3 DEF IdleDrain, Idle
<1>4. CASE Receive
  BY <1>4, FrameAnswers DEF Receive, ReceiveReset, ReceiveOther, CanInv, AnswersCall
<1>5. CASE Timeout
  BY <1>5 DEF Timeout, Return
<1>6. CASE Bus
  BY <1>6 DEF Bus, NodeExecutes, NodeRefuses, NodeReset, Sense
<1>7. CASE UNCHANGED vars
  BY <1>7 DEF vars
<1>8. QED
  BY <1>1, <1>2, <1>3, <1>4, <1>5, <1>6, <1>7 DEF Next

\* A read that succeeds leaves a value the entry has held since it began.
LEMMA ReadStep ==
  ASSUME Timely, CanInv, [Next]_vars, Returns("read")
  PROVE  cache'[call.entry] \in held
<1>1. ReceiveAnswer
  BY ReturnsByAnswer DEF Returns
<1>2. Head(rx).kind = "value" /\ Head(rx).val \in held
  BY <1>1, FrameAnswers DEF ReceiveAnswer, Completes, CanInv, AnswersCall, Returns
<1>3. call.entry \in Entry
  BY DEF CanInv, TypeOK, Call
<1>4. QED
  BY <1>1, <1>2, <1>3 DEF ReceiveAnswer, CanInv, TypeOK

\* A write that succeeds has been carried out.
LEMMA WriteStep ==
  ASSUME Timely, CanInv, [Next]_vars, Returns("write")
  PROVE  call.val \in held
<1>1. ReceiveAnswer
  BY ReturnsByAnswer DEF Returns
<1>2. QED
  BY <1>1, FrameAnswers DEF ReceiveAnswer, Completes, CanInv, AnswersCall, Returns

\* With timely nodes a successful read is fresh: no late or foreign answer is
\* ever taken for its answer, although the daemon compares only the node.
THEOREM ReadsAreFresh == Timely => (Spec => ReadIsFresh)
<1>1. SUFFICES ASSUME Timely PROVE Spec => ReadIsFresh
  OBVIOUS
<1>2. Spec => []CanInv
  BY <1>1, CallsAreMatched
<1>3. CanInv /\ [Next]_vars => [Returns("read") => cache'[call.entry] \in held]_vars
  BY <1>1, ReadStep
<1>4. QED
  BY <1>2, <1>3, PTL DEF Spec, ReadIsFresh

\* ... and a successful write has reached its node.
THEOREM WritesAreStored == Timely => (Spec => WriteIsStored)
<1>1. SUFFICES ASSUME Timely PROVE Spec => WriteIsStored
  OBVIOUS
<1>2. Spec => []CanInv
  BY <1>1, CallsAreMatched
<1>3. CanInv /\ [Next]_vars => [Returns("write") => call.val \in held]_vars
  BY <1>1, WriteStep
<1>4. QED
  BY <1>2, <1>3, PTL DEF Spec, WriteIsStored

-----------------------------------------------------------------------------
(* ... and whatever else the nodes do                                      *)

(* With nodes that answer late or reset, CallIsMatched does not hold.  What *)
(* is left of it is about a call whose node owed no answer when it began,  *)
(* as long as no node resets: what comes from the node answers the call.    *)
Unspoiled ==
  ~Idle /\ ~owed =>
    /\ store[call.entry] \in held
    /\ sent[NodeOf[call.entry]] \in {<<>>, <<call>>}
    /\ \A f \in ToSet(rx) :
         /\ f.kind # "reset"
         /\ f.node = NodeOf[call.entry] =>
              sent[NodeOf[call.entry]] = <<>> /\ AnswersCall(f)

\* The frames that are there are frames, and what changes them.
LEMMA FramesOf ==
  ASSUME NEW frames \in Seq(Frame)
  PROVE  /\ ToSet(frames) \subseteq Frame /\ ToSet(<<>>) = {}
         /\ frames # <<>> => /\ Head(frames) \in ToSet(frames)
                             /\ ToSet(Tail(frames)) \subseteq ToSet(frames)
         /\ \A f \in Frame : ToSet(Append(frames, f)) \subseteq ToSet(frames) \cup {f}
<1>1. ToSet(frames) \subseteq Frame /\ ToSet(<<>>) = {}
  BY DEF ToSet
<1>2. ASSUME frames # <<>>
      PROVE  Head(frames) \in ToSet(frames) /\ ToSet(Tail(frames)) \subseteq ToSet(frames)
  <2>1. /\ Len(Tail(frames)) = Len(frames) - 1 /\ Head(frames) = frames[1]
        /\ Tail(frames) \in Seq(Frame) /\ Len(frames) \in Nat \ {0}
        /\ \A k \in 1..Len(frames) - 1 : Tail(frames)[k] = frames[k + 1]
    BY <1>2, HeadTailProperties
  <2>2. DOMAIN Tail(frames) = 1..Len(frames) - 1 /\ DOMAIN frames = 1..Len(frames)
    BY <2>1
  <2>3. QED
    BY <2>1, <2>2 DEF ToSet
<1>3. ASSUME NEW f \in Frame PROVE ToSet(Append(frames, f)) \subseteq ToSet(frames) \cup {f}
  <2>1. /\ Len(Append(frames, f)) = Len(frames) + 1 /\ Len(frames) \in Nat
        /\ Append(frames, f) \in Seq(Frame)
        /\ Append(frames, f)[Len(frames) + 1] = f
        /\ \A i \in 1..Len(frames) : Append(frames, f)[i] = frames[i]
    BY AppendProperties
  <2>2. DOMAIN Append(frames, f) = 1..Len(frames) + 1 /\ DOMAIN frames = 1..Len(frames)
    BY <2>1
  <2>3. QED
    BY <2>1, <2>2 DEF ToSet
<1>4. QED
  BY <1>1, <1>2, <1>3

\* A call to a node that owes nothing begins with nothing to be read.
LEMMA SendUnspoiled ==
  ASSUME TypeOK, Drain, UNCHANGED store,
         NEW kind \in {"read", "write"}, NEW e \in Entry, NEW v \in Value,
         Send(kind, e, v)
  PROVE  Unspoiled'
<1>1. CASE Return(FALSE)
  BY <1>1, NoCallType DEF Return, Unspoiled, Idle
<1>2. CASE /\ sent' = [sent EXCEPT ![NodeOf[e]] =
                   Append(@, [kind |-> kind, entry |-> e, val |-> v])]
           /\ call' = [kind |-> kind, entry |-> e, val |-> v]
           /\ held' = {store[e]} /\ owed' = (sent[NodeOf[e]] # <<>>)
  <2>1. SUFFICES ASSUME sent[NodeOf[e]] = <<>> PROVE Unspoiled'
    BY <1>2 DEF Unspoiled
  <2>2. sent'[NodeOf[e]] = <<call'>>
    <3>1. sent'[NodeOf[e]] = Append(<<>>, call')
      BY <1>2, <2>1, EntryAssumption DEF TypeOK
    <3>2. QED
      BY <3>1, Single
  <2>3. rx' = <<>>
    BY DEF Drain
  <2>4. store'[call'.entry] \in held' /\ call'.entry = e
    BY <1>2
  <2>5. ToSet(rx') = {}
    BY <2>3, FramesOf DEF TypeOK
  <2>6. QED
    BY <2>2, <2>4, <2>5 DEF Unspoiled
<1>3. QED
  BY <1>1, <1>2 DEF Send

\* A frame more, of a node that is not asked or that answers the call.
LEMMA FrameUnspoiled ==
  ASSUME TypeOK, Unspoiled, UNCHANGED <<call, owed>>,
         NEW n \in Node, sent' = [sent EXCEPT ![n] = Tail(@)], sent[n] # <<>>,
         ~Idle => store'[call.entry] \in held' /\ held \subseteq held',
         NEW f \in Frame, f.node = n, f.kind # "reset",
         ~Idle /\ ~owed /\ n = NodeOf[call.entry] => AnswersCall(f)',
         rx' = rx \/ rx' = Append(rx, f)
  PROVE  Unspoiled'
<1>1. SUFFICES ASSUME ~Idle, ~owed PROVE Unspoiled'
  BY DEF Unspoiled, Idle
<1> DEFINE m == NodeOf[call.entry]
<1>2. m \in Node
  BY <1>1, EntryAssumption DEF TypeOK, Call
<1>3. \A g \in ToSet(rx) :
        g.kind # "reset" /\ (g.node = m => sent[m] = <<>> /\ AnswersCall(g))
  BY <1>1 DEF Unspoiled
<1>4. \A g : AnswersCall(g) => AnswersCall(g)'
  BY <1>1 DEF AnswersCall
<1>5. ToSet(rx') \subseteq ToSet(rx) \cup {f}
  BY FramesOf DEF TypeOK
<1>7. call'.entry = call.entry /\ store'[call'.entry] \in held'
  BY <1>1
<1>8. CASE n = m
  <2>1. sent[m] = <<call>> /\ sent'[m] = <<>>
    <3>1. sent[m] = <<call>>
      BY <1>1, <1>8 DEF Unspoiled
    <3>2. sent'[m] = Tail(sent[m])
      BY <1>2, <1>8 DEF TypeOK
    <3>3. QED
      BY <3>1, <3>2, Single
  <2>2. \A g \in ToSet(rx) : g.kind # "reset" /\ g.node # m
    BY <1>3, <2>1, Single
  <2>3. AnswersCall(f)'
    BY <1>1, <1>8
  <2>4. QED
    BY <1>1, <1>5, <1>7, <2>1, <2>2, <2>3 DEF Unspoiled
<1>9. CASE n # m
  <2>1. sent'[m] = sent[m] /\ sent[m] \in {<<>>, <<call>>}
    BY <1>1, <1>2, <1>9 DEF Unspoiled, TypeOK
  <2>2. \A g \in ToSet(rx') :
          /\ g.kind # "reset"
          /\ g.node = m => sent'[m] = <<>> /\ AnswersCall(g)'
    BY <1>3, <1>4, <1>5, <1>9, <2>1
  <2>3. QED
    BY <1>1, <1>7, <2>1, <2>2 DEF Unspoiled
<1>10. QED
  BY <1>8, <1>9

\* Every step keeps a call unspoiled, or ends it, or is a reset.
LEMMA UnspoiledStep ==
  ASSUME TypeOK, Unspoiled, [Next]_vars
  PROVE  Unspoiled'
<1>1. ASSUME NEW e \in Entry, BeginRead(e) PROVE Unspoiled'
  BY <1>1, SendUnspoiled, EntryAssumption DEF BeginRead
<1>2. ASSUME NEW e \in Entry, NEW v \in Value, BeginWrite(e, v) PROVE Unspoiled'
  BY <1>2, SendUnspoiled DEF BeginWrite
<1>3. CASE IdleDrain
  BY <1>3 DEF IdleDrain, Unspoiled, Idle
<1>4. CASE ReceiveAnswer \/ ReceiveReset \/ Timeout
  BY <1>4, NoCallType DEF ReceiveAnswer, ReceiveReset, Timeout, Return, Unspoiled, Idle
<1>5. CASE ReceiveOther
  <2>1. rx # <<>> /\ rx' = Tail(rx) /\ UNCHANGED <<store, sent, call, held, owed>>
    BY <1>5 DEF ReceiveOther
  <2>2. ToSet(rx') \subseteq ToSet(rx)
    BY <2>1, FramesOf DEF TypeOK
  <2>3. \A g : AnswersCall(g) => AnswersCall(g)'
    BY <2>1 DEF AnswersCall
  <2>4. QED
    BY <2>1, <2>2, <2>3 DEF Unspoiled, Idle
<1>6. ASSUME NEW n \in Node, NodeExecutes(n) PROVE Unspoiled'
  <2> DEFINE r == Head(sent[n])
  <2>1. /\ sent[n] # <<>> /\ sent' = [sent EXCEPT ![n] = Tail(@)]
        /\ UNCHANGED <<call, owed>>
    BY <1>6 DEF NodeExecutes
  <2>2. ~Idle => store'[call.entry] \in held' /\ held \subseteq held'
    BY <1>6 DEF NodeExecutes, Hold
  <2>3. r \in Request /\ r.entry \in Entry /\ store[r.entry] \in Value
    <3>1. sent[n] \in Seq(Request)
      BY DEF TypeOK
    <3>2. r \in Request
      BY <2>1, <3>1, HeadTailProperties
    <3>3. QED
      BY <3>2 DEF TypeOK, Request
  <2>4. ~Idle /\ ~owed /\ n = NodeOf[call.entry] => r = call /\ store[call.entry] \in held
    BY <2>1, Single DEF Unspoiled
  <2>5. CASE r.kind = "read"
    <3>1. PICK f \in Frame : f = [kind |-> "value", node |-> n, val |-> store[r.entry]]
      BY <2>3 DEF Frame
    <3>2. rx' = rx \/ rx' = Append(rx, f)
      BY <1>6, <2>5, <3>1 DEF NodeExecutes
    <3>3. ~Idle /\ ~owed /\ n = NodeOf[call.entry] => AnswersCall(f)'
      BY <2>1, <2>2, <2>4, <2>5, <3>1 DEF AnswersCall
    <3> HIDE DEF r
    <3>4. f.node = n /\ f.kind # "reset"
      BY <3>1
    <3>5. QED
      BY <2>1, <2>2, <3>2, <3>3, <3>4, FrameUnspoiled
  <2>6. CASE r.kind = "write"
    <3> DEFINE f == [kind |-> "ack", node |-> n, val |-> Default]
    <3>1. f \in Frame /\ f.node = n /\ f.kind = "ack"
      BY EntryAssumption DEF Frame
    <3>2. rx' = rx \/ rx' = Append(rx, f)
      BY <1>6, <2>6 DEF NodeExecutes
    <3>3. store' = [store EXCEPT ![r.entry] = r.val]
      BY <1>6, <2>6 DEF NodeExecutes
    <3>4. ~Idle /\ ~owed /\ n = NodeOf[call.entry] => AnswersCall(f)'
      BY <2>1, <2>2, <2>3, <2>4, <2>6, <3>3 DEF AnswersCall, TypeOK
    <3> HIDE DEF f, r
    <3>5. QED
      BY <2>1, <2>2, <3>1, <3>2, <3>4, FrameUnspoiled
  <2>7. QED
    BY <2>3, <2>5, <2>6 DEF Request
<1>7. ASSUME NEW n \in Node, NodeRefuses(n) PROVE Unspoiled'
  <2> DEFINE f == [kind |-> "abort", node |-> n, val |-> Default]
  <2>1. /\ sent[n] # <<>> /\ sent' = [sent EXCEPT ![n] = Tail(@)]
        /\ UNCHANGED <<call, owed, store, held>>
    BY <1>7 DEF NodeRefuses
  <2>2. rx' = rx \/ rx' = Append(rx, f)
    BY <1>7 DEF NodeRefuses
  <2>3. f \in Frame /\ f.node = n /\ f.kind = "abort"
    BY EntryAssumption DEF Frame
  <2>4. ~Idle /\ ~owed /\ n = NodeOf[call.entry] => AnswersCall(f)'
    BY <2>1 DEF AnswersCall
  <2>5. CASE ~Idle /\ ~owed
    <3>1. store'[call.entry] \in held' /\ held \subseteq held'
      BY <2>1, <2>5 DEF Unspoiled
    <3> HIDE DEF f
    <3>2. QED
      BY <2>1, <2>2, <2>3, <2>4, <3>1, FrameUnspoiled
  <2>6. QED
    BY <2>1, <2>5 DEF Unspoiled, Idle
<1>8. ASSUME NEW n \in Node, NodeReset(n) PROVE Unspoiled'
  BY <1>8 DEF NodeReset, Unspoiled, Idle
<1>9. ASSUME NEW e \in Entry, NEW v \in Value, Sense(e, v) PROVE Unspoiled'
  <2>1. UNCHANGED <<sent, rx, call, owed>> /\ (Idle' <=> Idle)
    BY <1>9 DEF Sense, Idle
  <2>2. ~Idle => store'[call.entry] \in held' /\ held \subseteq held'
    BY <1>9 DEF Sense, Hold
  <2>3. \A g : ~Idle /\ AnswersCall(g) => AnswersCall(g)'
    BY <2>1, <2>2 DEF AnswersCall
  <2>4. QED
    BY <2>1, <2>2, <2>3 DEF Unspoiled
<1>10. CASE UNCHANGED vars
  BY <1>10 DEF vars, Unspoiled, AnswersCall, Idle
<1>11. QED
  BY <1>1, <1>2, <1>3, <1>4, <1>5, <1>6, <1>7, <1>8, <1>9, <1>10
  DEF Next, Receive, Bus

\* Only an answer to the call ends it with TRUE.
LEMMA UnspoiledReturns ==
  ASSUME TypeOK, Unspoiled, [Next]_vars, ~owed,
         call.kind # "none", call'.kind = "none", result'
  PROVE  ReceiveAnswer /\ AnswersCall(Head(rx))
<1>1. ~Idle
  BY DEF Idle
<1>2. ~Timeout /\ ~(UNCHANGED vars)
  BY DEF Timeout, Return, vars
<1>3. Receive
  BY <1>1, <1>2 DEF Next, BeginRead, BeginWrite, IdleDrain, Bus, NodeExecutes,
                    NodeRefuses, NodeReset, Sense, vars
<1>4. rx # <<>> /\ Head(rx) \in ToSet(rx)
  BY <1>3, FramesOf DEF Receive, ReceiveAnswer, ReceiveReset, ReceiveOther, TypeOK
<1>5. ReceiveAnswer
  BY <1>1, <1>3, <1>4 DEF Receive, ReceiveReset, ReceiveOther, Unspoiled
<1>6. QED
  BY <1>1, <1>4, <1>5 DEF ReceiveAnswer, Completes, Unspoiled

\* Whatever the nodes do, a call that returns TRUE has done what it says unless its
\* node owed an answer when it began or a node reset during it: nothing else that is
\* late, lost, refused or from another node can be taken for its answer.
THEOREM CallsAreRight == Spec => CallIsRight
<1>1. Init => Unspoiled
  BY NoCallType DEF Init, Unspoiled, Idle
<1>2. TypeOK /\ Unspoiled /\ [Next]_vars => Unspoiled'
  BY UnspoiledStep
<1>3. TypeOK /\ Unspoiled /\ [Next]_vars =>
        [~owed => /\ Returns("read") => cache'[call.entry] \in held
                  /\ Returns("write") => call.val \in held]_vars
  <2> SUFFICES ASSUME TypeOK, Unspoiled, [Next]_vars, ~owed,
                      Returns("read") \/ Returns("write")
               PROVE  /\ Returns("read") => cache'[call.entry] \in held
                      /\ Returns("write") => call.val \in held
    OBVIOUS
  <2>1. ReceiveAnswer /\ AnswersCall(Head(rx))
    BY UnspoiledReturns DEF Returns
  <2>2. Head(rx).kind \in {"value", "ack"}
    BY <2>1 DEF ReceiveAnswer, Completes
  <2>3. ASSUME Returns("read") PROVE cache'[call.entry] \in held
    <3>1. Head(rx).kind = "value" /\ Head(rx).val \in held
      BY <2>1, <2>2, <2>3 DEF AnswersCall, Returns
    <3>2. QED
      BY <2>1, <3>1 DEF ReceiveAnswer, TypeOK, Call
  <2>4. ASSUME Returns("write") PROVE call.val \in held
    BY <2>1, <2>2, <2>4 DEF AnswersCall, Returns
  <2>5. QED
    BY <2>3, <2>4
<1>4. QED
  BY <1>1, <1>2, <1>3, BusTypeCorrect, PTL DEF Spec, CallIsRight

-----------------------------------------------------------------------------
(* Resets, whatever the nodes do                                           *)

\* Whether the reset of a node is among the frames.
Reported(n, frames) ==
  \E i \in 1..Len(frames) : frames[i].kind = "reset" /\ frames[i].node = n

\* A frame more hides none.
LEMMA ReportedAppend ==
  ASSUME NEW frames \in Seq(Frame), NEW f \in Frame, NEW n
  PROVE  /\ Reported(n, frames) => Reported(n, Append(frames, f))
         /\ f.kind = "reset" /\ f.node = n => Reported(n, Append(frames, f))
  BY DEF Reported

\* Reading the first frame hides no other.
LEMMA ReportedTail ==
  ASSUME NEW frames \in Seq(Frame), frames # <<>>, NEW n, Reported(n, frames),
         ~(Head(frames).kind = "reset" /\ Head(frames).node = n)
  PROVE  Reported(n, Tail(frames))
<1>1. PICK i \in 1..Len(frames) : frames[i].kind = "reset" /\ frames[i].node = n
  BY DEF Reported
<1>2. i # 1
  BY <1>1
<1>3. i - 1 \in 1..Len(Tail(frames)) /\ Tail(frames)[i - 1] = frames[i]
  BY <1>1, <1>2
<1>4. QED
  BY <1>1, <1>3 DEF Reported

\* A reset stays to be read until it is signalled.
LEMMA PendingStep ==
  ASSUME TypeOK, ResetIsPending, [Next]_vars
  PROVE  ResetIsPending'
<1> USE DEF TypeOK
<1>1. SUFFICES ASSUME NEW n \in unannounced' PROVE Reported(n, rx')
  BY DEF ResetIsPending, Reported
<1>2. n \in unannounced => Reported(n, rx)
  BY DEF ResetIsPending, Reported
<1>3. CASE Drain
  BY <1>1, <1>2, <1>3 DEF Drain, Reported
<1>4. CASE UNCHANGED <<rx, unannounced>>
  BY <1>1, <1>2, <1>4
<1>5. CASE ReceiveAnswer \/ ReceiveOther
  <2>1. rx # <<>> /\ rx' = Tail(rx) /\ Head(rx).kind # "reset" /\ UNCHANGED unannounced
    BY <1>5 DEF ReceiveAnswer, ReceiveOther, Completes
  <2>2. QED
    BY <1>1, <1>2, <2>1, ReportedTail
<1>6. CASE ReceiveReset
  <2>1. rx # <<>> /\ rx' = Tail(rx) /\ n \in unannounced /\ n # Head(rx).node
    BY <1>1, <1>6 DEF ReceiveReset
  <2>2. QED
    BY <1>2, <2>1, ReportedTail
<1>7. ASSUME NEW f \in Frame, rx' = Append(rx, f), UNCHANGED unannounced
      PROVE  Reported(n, rx')
  BY <1>1, <1>2, <1>7, ReportedAppend
<1>8. ASSUME NEW m \in Node, NodeExecutes(m) PROVE Reported(n, rx')
  <2> DEFINE r == Head(sent[m])
  <2>1. [kind |-> "value", node |-> m, val |-> store[r.entry]] \in Frame
    <3>1. r \in Request
      BY <1>8 DEF NodeExecutes
    <3>2. store[r.entry] \in Value
      BY <3>1 DEF Request
    <3>3. QED
      BY <3>2 DEF Frame
  <2>2. [kind |-> "ack", node |-> m, val |-> Default] \in Frame
    BY EntryAssumption DEF Frame
  <2>3. UNCHANGED unannounced /\ (UNCHANGED rx \/ \E f \in Frame : rx' = Append(rx, f))
    BY <1>8, <2>1, <2>2 DEF NodeExecutes
  <2>4. QED
    BY <1>4, <1>7, <2>3
<1>9. ASSUME NEW m \in Node, NodeRefuses(m) PROVE Reported(n, rx')
  <2>1. [kind |-> "abort", node |-> m, val |-> Default] \in Frame
    BY EntryAssumption DEF Frame
  <2>2. UNCHANGED unannounced /\ (UNCHANGED rx \/ \E f \in Frame : rx' = Append(rx, f))
    BY <1>9, <2>1 DEF NodeRefuses
  <2>3. QED
    BY <1>4, <1>7, <2>2
<1>10. ASSUME NEW m \in Node, NodeReset(m) PROVE Reported(n, rx')
  <2> DEFINE f == [kind |-> "reset", node |-> m, val |-> Default]
  <2>1. f \in Frame /\ f.kind = "reset" /\ f.node = m
    BY EntryAssumption DEF Frame
  <2>2. rx' = Append(rx, f) /\ (n = m \/ n \in unannounced)
    BY <1>1, <1>10 DEF NodeReset
  <2>3. QED
    BY <1>2, <2>1, <2>2, ReportedAppend
<1>11. ASSUME NEW e \in Entry, NEW v \in Value, Sense(e, v) PROVE Reported(n, rx')
  BY <1>4, <1>11 DEF Sense
<1>12. QED
  BY <1>3, <1>4, <1>5, <1>6, <1>8, <1>9, <1>10, <1>11
  DEF Next, Receive, Bus, BeginRead, BeginWrite, IdleDrain, Timeout, vars

\* No reset is ever read from the device without being signalled, whether a
\* call, the idle drain or the drain before a call reads it.
THEOREM ResetsStayPending == Spec => []ResetIsPending
<1>1. Init => ResetIsPending
  BY DEF Init, ResetIsPending
<1>2. QED
  BY <1>1, PendingStep, BusTypeCorrect, PTL DEF Spec

=============================================================================
