----------------------- MODULE SequenceService_proofs -----------------------
(***************************************************************************)
(* The runs of the sequences are exclusive, what they have switched on     *)
(* does not stay on without them, X moves with the needle lifted, and the  *)
(* needle enters open ports only.                                          *)
(*                                                                         *)
(* All rests on what the sequences are made of (Good), which each of their *)
(* steps and callbacks keeps.                                              *)
(***************************************************************************)
EXTENDS SequenceService, TLAPS

-----------------------------------------------------------------------------
(* What the sequences are made of                                          *)

\* The programs of the sequences, and what is left of them.
Ops ==
  {<<>>, <<"x">>, <<"lift">>, <<"lift", "x">>, <<"down">>, <<"x", "down">>,
   <<"lift", "x", "down">>, <<"down", "lift">>, <<"x", "down", "lift">>,
   <<"lift", "x", "down", "lift">>, <<"intoFurnace", "down">>, <<"intoTIC", "down">>}

Homing  == {<<>>, <<"x">>, <<"lift", "x">>}
Dipping == {<<"x", "down">>, <<"lift", "x", "down">>, <<"x", "down", "lift">>,
            <<"lift", "x", "down", "lift">>}

Enters(ops, v) == ops = <<Into(v), "down">>
Outside(ops)   == \A v \in Vessel : ~Enters(ops, v)
Crosses(ops)   == ops # <<>> /\ ops[1] = "x"
Ends(ops, o)   == ops # <<>> /\ ops[Len(ops)] = o

GoodStep(s) ==
  /\ s \in Step /\ s.ops \in Ops
  /\ s.do \in {"open", "close", "fill", "wait"} <=> s.ops = <<>>
  /\ s.do \in {"open", "close"} => s.vessel \in Vessel
  /\ s.do = "checked" => s.ops \in Dipping
  /\ s.do = "retried" => s.ops \in Homing
  /\ s.do = "liftIfDown" => s.ops = <<"lift">>

\* b may be the step after a.
Follows(a, b) ==
  /\ b.do = "open" => Ends(a.ops, "down")
  /\ b.do = "close" => a.do = "close" \/ a.ops # <<>>
  /\ a.do = "liftIfDown" => b.do = "close"
  /\ b.do \notin {"retried", "liftIfDown"}
  /\ b.do = "checked" => Crosses(b.ops)
  /\ Ends(a.ops, "x") => b.do = "close" /\ a.ops \in Homing
  /\ \A v \in Vessel : Enters(b.ops, v) => a.do = "open" /\ a.vessel = v
  /\ b.do = "program" /\ Crosses(b.ops) => a.do = "close" \/ Ends(a.ops, "lift")

\* A port is closed before X moves: the needle has been lifted before that.
Prepares(t, i) ==
  t[i].do = "close" /\ t[i - 1].do # "close"
  => \/ Ends(t[i - 1].ops, "lift")
     \/ \A j \in 1..Len(t) : j > i => ~Crosses(t[j].ops)

Good(t) ==
  /\ t \in Seq(Step)
  /\ \A i \in 1..Len(t) : GoodStep(t[i])
  /\ \A i \in 1..Len(t) : i > 1 => Follows(t[i - 1], t[i])
  /\ \A i \in 1..Len(t) : t[i].do = "liftIfDown" => i < Len(t)
  /\ \A i \in 1..Len(t) : i > 1 /\ i < Len(t) => ~Ends(t[i].ops, "x")
  /\ \A i \in 1..Len(t) : i > 1 => Prepares(t, i)

\* What of this can be called next.
Fresh(t) ==
  /\ t # <<>> /\ Good(t)
  /\ t[1].do \in {"checked", "retried"} => Crosses(t[1].ops)

LEMMA OpsTypes == Ops \subseteq Seq(Op) /\ Homing \subseteq Ops /\ Dipping \subseteq Ops
<1>1. {"x", "lift", "down", "intoFurnace", "intoTIC"} \subseteq Op
  BY DEF Op, Place
<1>2. Ops \subseteq Seq(Op)
  BY <1>1 DEF Ops
<1>3. QED
  BY <1>2 DEF Ops, Homing, Dipping

LEMMA SeqEq ==
  ASSUME NEW S, NEW s \in Seq(S), NEW t \in Seq(S), Len(s) = Len(t),
         \A i \in 1..Len(s) : s[i] = t[i]
  PROVE  s = t
  OBVIOUS

LEMMA EmptySeq == ASSUME NEW S, NEW s \in Seq(S), Len(s) = 0 PROVE s = <<>>
  OBVIOUS

\* A sequence and its rest.
LEMMA Rests ==
  ASSUME NEW S, NEW s \in Seq(S), s # <<>>
  PROVE  /\ Head(s) \in S /\ Head(s) = s[1] /\ Len(s) \in Nat \ {0}
         /\ Tail(s) \in Seq(S) /\ Len(Tail(s)) = Len(s) - 1
         /\ \A i \in 1..Len(Tail(s)) : Tail(s)[i] = s[i + 1]
         /\ Len(s) = 1 <=> Tail(s) = <<>>
<1>1. /\ Head(s) \in S /\ Head(s) = s[1] /\ Len(s) \in Nat \ {0}
      /\ Tail(s) \in Seq(S) /\ Len(Tail(s)) = Len(s) - 1
      /\ \A i \in 1..Len(Tail(s)) : Tail(s)[i] = s[i + 1]
  BY EmptySeq
<1>2. Tail(s) # <<>> => Len(Tail(s)) \in Nat \ {0}
  BY <1>1, EmptySeq
<1>3. Tail(s) = <<>> => Len(Tail(s)) = 0
  <2>1. Len(<<>>) = 0
    OBVIOUS
  <2>2. QED
    BY <2>1
<1>4. QED
  BY <1>1, <1>2, <1>3

LEMMA RestsOfOps ==
  ASSUME NEW ops \in Ops, ops # <<>>
  PROVE  /\ Tail(ops) \in Ops
         /\ \A v \in Vessel : ops[1] = Into(v) <=> Enters(ops, v)
         /\ Outside(Tail(ops))
         /\ Crosses(Tail(ops)) => ops[1] = "lift"
         /\ ops \in Homing => Tail(ops) \in Homing
         /\ Tail(ops) = <<"x">> => ops[1] = "lift"
<1> USE DEF Enters, Outside, Crosses, Homing, Vessel, Into
<1>1. CASE ops = <<"x">>
  <2>1. Tail(ops) = <<>> /\ ops[1] = "x"
    BY <1>1
  <2>2. QED
    BY <1>1, <2>1 DEF Ops
<1>2. CASE ops = <<"lift">>
  <2>1. Tail(ops) = <<>> /\ ops[1] = "lift"
    BY <1>2
  <2>2. QED
    BY <1>2, <2>1 DEF Ops
<1>3. CASE ops = <<"down">>
  <2>1. Tail(ops) = <<>> /\ ops[1] = "down"
    BY <1>3
  <2>2. QED
    BY <1>3, <2>1 DEF Ops
<1>4. CASE ops = <<"lift", "x">>
  <2>1. Tail(ops) = <<"x">>
    BY <1>4
  <2>2. QED
    BY <1>4, <2>1 DEF Ops
<1>5. CASE ops = <<"x", "down">>
  <2>1. Tail(ops) = <<"down">>
    BY <1>5
  <2>2. QED
    BY <1>5, <2>1 DEF Ops
<1>6. CASE ops = <<"lift", "x", "down">>
  <2>1. Tail(ops) = <<"x", "down">>
    BY <1>6
  <2>2. QED
    BY <1>6, <2>1 DEF Ops
<1>7. CASE ops = <<"down", "lift">>
  <2>1. Tail(ops) = <<"lift">>
    BY <1>7
  <2>2. QED
    BY <1>7, <2>1 DEF Ops
<1>8. CASE ops = <<"x", "down", "lift">>
  <2>1. Tail(ops) = <<"down", "lift">>
    BY <1>8
  <2>2. QED
    BY <1>8, <2>1 DEF Ops
<1>9. CASE ops = <<"lift", "x", "down", "lift">>
  <2>1. Tail(ops) = <<"x", "down", "lift">>
    BY <1>9
  <2>2. QED
    BY <1>9, <2>1 DEF Ops
<1>10. CASE ops = <<"intoFurnace", "down">>
  <2>1. Tail(ops) = <<"down">>
    BY <1>10
  <2>2. QED
    BY <1>10, <2>1 DEF Ops
<1>11. CASE ops = <<"intoTIC", "down">>
  <2>1. Tail(ops) = <<"down">>
    BY <1>11
  <2>2. QED
    BY <1>11, <2>1 DEF Ops
<1>12. QED
  BY <1>1, <1>2, <1>3, <1>4, <1>5, <1>6, <1>7, <1>8, <1>9, <1>10, <1>11
  DEF Ops

\* The first operation of a program, and the last.
LEMMA FirstOp ==
  ASSUME NEW ops \in Ops, ops # <<>>
  PROVE  /\ Head(ops) \in Op /\ Head(ops) = ops[1] /\ ops \in Seq(Op)
         /\ Len(ops) = 1 <=> Tail(ops) = <<>>
         /\ Len(ops) = 1 => ops[Len(ops)] = Head(ops)
         /\ \A o : Tail(ops) # <<>> => (Ends(Tail(ops), o) <=> Ends(ops, o))
<1>1. ops \in Seq(Op)
  BY OpsTypes
<1>2. /\ Head(ops) \in Op /\ Head(ops) = ops[1] /\ Len(ops) \in Nat \ {0}
      /\ Tail(ops) \in Seq(Op) /\ Len(Tail(ops)) = Len(ops) - 1
      /\ \A i \in 1..Len(Tail(ops)) : Tail(ops)[i] = ops[i + 1]
      /\ (Len(ops) = 1 <=> Tail(ops) = <<>>)
  BY <1>1, Rests
<1>3. Tail(ops) # <<>> => Tail(ops)[Len(Tail(ops))] = ops[Len(ops)]
  BY <1>2
<1>4. QED
  BY <1>1, <1>2, <1>3 DEF Ends

-----------------------------------------------------------------------------
(* The steps of the sequences                                              *)

LEMMA ProgramSteps ==
  ASSUME NEW ops \in Ops
  PROVE  /\ Program(ops) \in Step /\ Checked(ops) \in Step /\ Retried(ops) \in Step
         /\ Program(ops).ops = ops /\ Checked(ops).ops = ops /\ Retried(ops).ops = ops
         /\ Program(ops).do = "program" /\ Checked(ops).do = "checked"
         /\ Retried(ops).do = "retried"
<1>1. ops \in Seq(Op)
  BY OpsTypes
<1>2. QED
  BY <1>1 DEF Program, Checked, Retried, Step

LEMMA OtherSteps ==
  /\ LiftIfDown \in Step /\ LiftIfDown.do = "liftIfDown" /\ LiftIfDown.ops = <<"lift">>
  /\ \A v \in Vessel :
       /\ Open(v) \in Step /\ Open(v).do = "open" /\ Open(v).ops = <<>>
       /\ Open(v).vessel = v
       /\ Close(v) \in Step /\ Close(v).do = "close" /\ Close(v).ops = <<>>
       /\ Close(v).vessel = v
  /\ \A w \in {"fill", "wait"} :
       Timed(w) \in Step /\ Timed(w).do = w /\ Timed(w).ops = <<>>
<1>1. <<>> \in Seq(Op) /\ <<"lift">> \in Seq(Op)
  BY OpsTypes DEF Ops
<1>2. LiftIfDown \in Step /\ LiftIfDown.do = "liftIfDown" /\ LiftIfDown.ops = <<"lift">>
  BY <1>1 DEF LiftIfDown, Program, Step
<1>3. ASSUME NEW v \in Vessel
      PROVE  /\ Open(v) \in Step /\ Open(v).do = "open" /\ Open(v).ops = <<>>
             /\ Open(v).vessel = v
             /\ Close(v) \in Step /\ Close(v).do = "close" /\ Close(v).ops = <<>>
             /\ Close(v).vessel = v
  BY <1>1 DEF Open, Close, Step
<1>4. ASSUME NEW w \in {"fill", "wait"}
      PROVE  Timed(w) \in Step /\ Timed(w).do = w /\ Timed(w).ops = <<>>
  BY <1>1 DEF Timed, Step
<1>5. QED
  BY <1>2, <1>3, <1>4

LEMMA GoodSteps ==
  /\ \A ops \in Ops \ {<<>>} : GoodStep(Program(ops))
  /\ \A ops \in Dipping : GoodStep(Checked(ops))
  /\ GoodStep(Retried(<<"x">>)) /\ GoodStep(LiftIfDown)
  /\ \A v \in Vessel : GoodStep(Open(v)) /\ GoodStep(Close(v))
  /\ GoodStep(Timed("fill")) /\ GoodStep(Timed("wait"))
<1>1. <<>> \in Ops /\ <<"x">> \in Ops /\ <<"x">> \in Homing /\ <<"lift">> \in Ops
  BY DEF Ops, Homing
<1>2. \A ops \in Ops \ {<<>>} : GoodStep(Program(ops))
  BY ProgramSteps DEF GoodStep
<1>10. \A ops \in Dipping : ops # <<>>
  BY DEF Dipping
<1>3. \A ops \in Dipping : ops \in Ops /\ ops # <<>>
  BY <1>10, OpsTypes
<1>4. \A ops \in Dipping : GoodStep(Checked(ops))
  BY <1>3, ProgramSteps DEF GoodStep
<1>5. GoodStep(Retried(<<"x">>))
  BY <1>1, ProgramSteps DEF GoodStep
<1>6. GoodStep(LiftIfDown)
  BY <1>1, OtherSteps DEF GoodStep
<1>7. ASSUME NEW v \in Vessel PROVE GoodStep(Open(v)) /\ GoodStep(Close(v))
  BY <1>1, OtherSteps DEF GoodStep
<1>8. GoodStep(Timed("fill")) /\ GoodStep(Timed("wait"))
  BY <1>1, OtherSteps DEF GoodStep
<1>9. QED
  BY <1>2, <1>4, <1>5, <1>6, <1>7, <1>8

LEMMA Following ==
  /\ Follows(Retried(<<"x">>), Close("furnace"))
  /\ Follows(Close("furnace"), Close("TIC"))
  /\ \A v \in Vessel :
       /\ Follows(Checked(<<"x", "down">>), Open(v))
       /\ Follows(Open(v), Program(<<Into(v), "down">>))
       /\ Follows(Program(<<Into(v), "down">>), Close(v))
       /\ Follows(Close(v), Program(<<"lift", "x">>))
  /\ Follows(LiftIfDown, Close("furnace"))
  /\ Follows(Close("TIC"), Program(<<"x", "down", "lift">>))
  /\ Follows(Timed("fill"), Checked(<<"x", "down", "lift">>))
  /\ Follows(Checked(<<"x", "down", "lift">>), Program(<<"x", "down", "lift">>))
  /\ Follows(Program(<<"x", "down", "lift">>), Timed("wait"))
\* What the programs end and begin with.
<1>1. /\ <<>> \in Ops /\ <<"x">> \in Ops /\ <<"lift">> \in Ops /\ <<"x", "down">> \in Ops
      /\ <<"lift", "x">> \in Ops /\ <<"x", "down", "lift">> \in Ops
      /\ \A v \in Vessel : <<Into(v), "down">> \in Ops
      /\ <<"x">> \in Homing
      /\ "furnace" \in Vessel /\ "TIC" \in Vessel
  BY DEF Ops, Into, Vessel, Homing
<1>2. /\ \A o : ~Ends(<<>>, o)
      /\ \A o : Ends(<<"x">>, o) <=> o = "x"
      /\ \A o : Ends(<<"lift">>, o) <=> o = "lift"
      /\ \A o : Ends(<<"x", "down">>, o) <=> o = "down"
      /\ \A o : Ends(<<"x", "down", "lift">>, o) <=> o = "lift"
      /\ \A v \in Vessel : \A o : Ends(<<Into(v), "down">>, o) <=> o = "down"
  BY DEF Ends
<1>3. /\ Crosses(<<"x", "down", "lift">>) /\ ~Crosses(<<"lift", "x">>)
      /\ \A v \in Vessel : ~Crosses(<<Into(v), "down">>)
  BY DEF Crosses, Into
<1>4. \A v \in Vessel : /\ ~Enters(<<>>, v) /\ ~Enters(<<"lift", "x">>, v)
                        /\ ~Enters(<<"x", "down", "lift">>, v)
                        /\ \A w \in Vessel : Enters(<<Into(v), "down">>, w) => w = v
  BY DEF Enters, Into, Vessel
<1>5. <<"x">> # <<>> /\ <<"lift">> # <<>> /\ \A v \in Vessel : <<Into(v), "down">> # <<>>
  OBVIOUS
<1>6. /\ Retried(<<"x">>).ops = <<"x">> /\ Retried(<<"x">>).do = "retried"
      /\ \A ops \in {<<"x", "down">>, <<"x", "down", "lift">>} :
           Checked(ops).ops = ops /\ Checked(ops).do = "checked"
      /\ \A ops \in {<<"lift", "x">>, <<"x", "down", "lift">>} :
           Program(ops).ops = ops /\ Program(ops).do = "program"
      /\ \A v \in Vessel : /\ Program(<<Into(v), "down">>).ops = <<Into(v), "down">>
                           /\ Program(<<Into(v), "down">>).do = "program"
  BY <1>1, ProgramSteps
<1>7. ASSUME NEW a, NEW v \in Vessel, a.do = "close" \/ a.ops # <<>>,
             Ends(a.ops, "x") => a.ops \in Homing
      PROVE  Follows(a, Close(v))
  <2>1. Close(v).do = "close" /\ Close(v).ops = <<>>
    BY OtherSteps
  <2>2. QED
    BY <1>4, <1>7, <2>1 DEF Follows
<1>8. Follows(Retried(<<"x">>), Close("furnace"))
  BY <1>1, <1>5, <1>6, <1>7
<1>9. Follows(Close("furnace"), Close("TIC"))
  <2>1. Close("furnace").do = "close" /\ Close("furnace").ops = <<>>
    BY <1>1, OtherSteps
  <2>2. QED
    BY <1>1, <1>2, <1>7, <2>1
<1>10. ASSUME NEW v \in Vessel PROVE Follows(Checked(<<"x", "down">>), Open(v))
  BY <1>2, <1>4, <1>6, OtherSteps DEF Follows
<1>11. ASSUME NEW v \in Vessel PROVE Follows(Open(v), Program(<<Into(v), "down">>))
  <2>1. /\ Open(v).do = "open" /\ Open(v).vessel = v /\ Open(v).ops = <<>>
        /\ ~Ends(Open(v).ops, "x")
    BY <1>2, OtherSteps
  <2>2. LET b == Program(<<Into(v), "down">>)
        IN /\ b.do = "program" /\ ~Crosses(b.ops)
           /\ \A w \in Vessel : Enters(b.ops, w) => w = v
    BY <1>3, <1>4, <1>6
  <2>3. QED
    BY <2>1, <2>2 DEF Follows
<1>12. ASSUME NEW v \in Vessel PROVE Follows(Program(<<Into(v), "down">>), Close(v))
  BY <1>2, <1>5, <1>6, <1>7
<1>13. ASSUME NEW v \in Vessel PROVE Follows(Close(v), Program(<<"lift", "x">>))
  <2>1. Close(v).do = "close" /\ ~Ends(Close(v).ops, "x")
    BY <1>2, OtherSteps
  <2>2. LET b == Program(<<"lift", "x">>)
        IN b.do = "program" /\ ~Crosses(b.ops) /\ \A w \in Vessel : ~Enters(b.ops, w)
    BY <1>3, <1>4, <1>6
  <2>3. QED
    BY <2>1, <2>2 DEF Follows
<1>14. Follows(LiftIfDown, Close("furnace"))
  <2>1. LiftIfDown.ops = <<"lift">>
    BY OtherSteps
  <2>2. QED
    BY <1>1, <1>2, <1>5, <1>7, <2>1
<1>15. Follows(Close("TIC"), Program(<<"x", "down", "lift">>))
  <2>1. Close("TIC").do = "close" /\ ~Ends(Close("TIC").ops, "x")
    BY <1>1, <1>2, OtherSteps
  <2>2. LET b == Program(<<"x", "down", "lift">>)
        IN b.do = "program" /\ \A w \in Vessel : ~Enters(b.ops, w)
    BY <1>4, <1>6
  <2>3. QED
    BY <2>1, <2>2 DEF Follows
<1>16. Follows(Timed("fill"), Checked(<<"x", "down", "lift">>))
  <2>1. Timed("fill").do = "fill" /\ ~Ends(Timed("fill").ops, "x")
    BY <1>2, OtherSteps
  <2>2. LET b == Checked(<<"x", "down", "lift">>)
        IN b.do = "checked" /\ Crosses(b.ops) /\ \A w \in Vessel : ~Enters(b.ops, w)
    BY <1>3, <1>4, <1>6
  <2>3. QED
    BY <2>1, <2>2 DEF Follows
<1>17. Follows(Checked(<<"x", "down", "lift">>), Program(<<"x", "down", "lift">>))
  BY <1>2, <1>4, <1>6 DEF Follows
<1>18. Follows(Program(<<"x", "down", "lift">>), Timed("wait"))
  BY <1>2, <1>4, <1>6, OtherSteps DEF Follows
<1>19. QED
  BY <1>8, <1>9, <1>10, <1>11, <1>12, <1>13, <1>14, <1>15, <1>16, <1>17, <1>18

LEMMA GoodChains ==
  ASSUME NEW a, NEW b, NEW c, NEW d, NEW e,
         GoodStep(a), GoodStep(b), GoodStep(c), GoodStep(d), GoodStep(e)
  PROVE  /\ a.do # "liftIfDown" => Good(<<a>>)
         /\ (/\ Follows(a, b) /\ Follows(b, c) /\ ~Ends(b.ops, "x") /\ ~Crosses(c.ops))
            => Good(<<a, b, c>>)
         /\ (/\ Follows(a, b) /\ Follows(b, c) /\ Follows(c, d)
             /\ ~Ends(b.ops, "x") /\ ~Ends(c.ops, "x")
             /\ (\/ b.do = "close" /\ c.do = "close" /\ d.do # "close" /\ Ends(a.ops, "lift")
                 \/ b.do # "close" /\ c.do # "close" /\ d.do # "close"))
            => Good(<<a, b, c, d>>)
         /\ (/\ Follows(a, b) /\ Follows(b, c) /\ Follows(c, d) /\ Follows(d, e)
             /\ ~Ends(b.ops, "x") /\ ~Ends(c.ops, "x") /\ ~Ends(d.ops, "x")
             /\ ~Crosses(c.ops) /\ ~Crosses(d.ops) /\ ~Crosses(e.ops))
            => Good(<<a, b, c, d, e>>)
<1>1. \A s, t : Follows(s, t) => t.do # "liftIfDown"
  BY DEF Follows
<1>2. a \in Step /\ b \in Step /\ c \in Step /\ d \in Step /\ e \in Step
  BY DEF GoodStep
<1> USE <1>1, <1>2 DEF Good, Prepares
<1>3. a.do # "liftIfDown" => Good(<<a>>)
  OBVIOUS
<1>4. (/\ Follows(a, b) /\ Follows(b, c) /\ ~Ends(b.ops, "x") /\ ~Crosses(c.ops))
      => Good(<<a, b, c>>)
  OBVIOUS
<1>5. (/\ Follows(a, b) /\ Follows(b, c) /\ Follows(c, d)
       /\ ~Ends(b.ops, "x") /\ ~Ends(c.ops, "x")
       /\ (\/ b.do = "close" /\ c.do = "close" /\ d.do # "close" /\ Ends(a.ops, "lift")
           \/ b.do # "close" /\ c.do # "close" /\ d.do # "close"))
      => Good(<<a, b, c, d>>)
  OBVIOUS
<1>6. (/\ Follows(a, b) /\ Follows(b, c) /\ Follows(c, d) /\ Follows(d, e)
       /\ ~Ends(b.ops, "x") /\ ~Ends(c.ops, "x") /\ ~Ends(d.ops, "x")
       /\ ~Crosses(c.ops) /\ ~Crosses(d.ops) /\ ~Crosses(e.ops))
      => Good(<<a, b, c, d, e>>)
  OBVIOUS
<1> HIDE <1>1, <1>2 DEF Good, Prepares
<1>7. QED
  BY <1>3, <1>4, <1>5, <1>6

\* Where the programs end, and where they begin.
LEMMA EndsOfSteps ==
  /\ \A v \in Vessel :
       /\ ~Ends(Open(v).ops, "x") /\ ~Ends(Close(v).ops, "x")
       /\ ~Ends(Program(<<Into(v), "down">>).ops, "x")
       /\ ~Crosses(Close(v).ops) /\ ~Crosses(Program(<<Into(v), "down">>).ops)
  /\ ~Ends(Checked(<<"x", "down", "lift">>).ops, "x")
  /\ ~Ends(Program(<<"x", "down", "lift">>).ops, "x")
  /\ ~Crosses(Program(<<"lift", "x">>).ops) /\ Ends(LiftIfDown.ops, "lift")
<1>1. /\ <<"x", "down", "lift">> \in Ops /\ <<"lift", "x">> \in Ops
      /\ \A v \in Vessel : <<Into(v), "down">> \in Ops
  BY DEF Ops, Into, Vessel
<1>2. ~Ends(<<>>, "x") /\ ~Crosses(<<>>)
  BY DEF Ends, Crosses
<1>3. ASSUME NEW v \in Vessel
      PROVE  ~Ends(<<Into(v), "down">>, "x") /\ ~Crosses(<<Into(v), "down">>)
  BY DEF Ends, Crosses, Into
<1>4. ~Ends(<<"x", "down", "lift">>, "x")
  BY DEF Ends
<1>5. ~Crosses(<<"lift", "x">>)
  BY DEF Crosses
<1>6. Ends(<<"lift">>, "lift")
  BY DEF Ends
<1>7. QED
  BY <1>1, <1>2, <1>3, <1>4, <1>5, <1>6, ProgramSteps, OtherSteps

\* What a run starts with.
Starting(t) ==
  /\ Fresh(t) /\ t[1].do \in {"checked", "retried", "liftIfDown", "fill"}

\* The injections, with their port.
LEMMA PortSequence ==
  ASSUME NEW v \in Vessel
  PROVE  Starting(<<Checked(<<"x", "down">>), Open(v), Program(<<Into(v), "down">>),
                    Close(v), Program(<<"lift", "x">>)>>)
<1> DEFINE a == Checked(<<"x", "down">>)
           b == Open(v)
           c == Program(<<Into(v), "down">>)
           d == Close(v)
           e == Program(<<"lift", "x">>)
<1>1. /\ <<"x", "down">> \in Ops /\ <<"x", "down">> \in Dipping
      /\ <<"lift", "x">> \in Ops \ {<<>>} /\ <<Into(v), "down">> \in Ops \ {<<>>}
  BY DEF Ops, Dipping, Into, Vessel
<1>2. GoodStep(a) /\ GoodStep(b) /\ GoodStep(c) /\ GoodStep(d) /\ GoodStep(e)
  BY <1>1, GoodSteps
<1>3. Follows(a, b) /\ Follows(b, c) /\ Follows(c, d) /\ Follows(d, e)
  BY Following
<1>4. /\ ~Ends(b.ops, "x") /\ ~Ends(c.ops, "x") /\ ~Ends(d.ops, "x")
      /\ ~Crosses(c.ops) /\ ~Crosses(d.ops) /\ ~Crosses(e.ops)
  BY EndsOfSteps
<1>5. a.do = "checked" /\ Crosses(a.ops)
  BY <1>1, ProgramSteps DEF Crosses
<1> HIDE DEF a, b, c, d, e
<1>6. Good(<<a, b, c, d, e>>)
  BY <1>2, <1>3, <1>4, GoodChains
<1>7. Starting(<<a, b, c, d, e>>)
  BY <1>5, <1>6 DEF Starting, Fresh
<1>8. QED
  BY <1>7 DEF a, b, c, d, e

LEMMA SamplingSequence == Starting(<<Checked(<<"x", "down", "lift">>)>>)
<1> DEFINE a == Checked(<<"x", "down", "lift">>)
<1>1. <<"x", "down", "lift">> \in Ops /\ <<"x", "down", "lift">> \in Dipping
  BY DEF Ops, Dipping
<1>2. GoodStep(a) /\ a.do = "checked" /\ Crosses(a.ops)
  BY <1>1, GoodSteps, ProgramSteps DEF Crosses
<1> HIDE DEF a
<1>3. Starting(<<a>>)
  BY <1>2, GoodChains DEF Starting, Fresh
<1>4. QED
  BY <1>3 DEF a

LEMMA HomingSequences ==
  /\ Starting(Axishold) /\ Axishold[1].do = "retried"
  /\ Starting(Allhold) /\ Allhold[1].do = "retried"
<1> DEFINE a == Retried(<<"x">>)
           b == Close("furnace")
           c == Close("TIC")
<1>1. <<"x">> \in Ops /\ "furnace" \in Vessel /\ "TIC" \in Vessel
  BY DEF Ops, Vessel
<1>2. GoodStep(a) /\ GoodStep(b) /\ GoodStep(c)
  BY <1>1, GoodSteps
<1>3. Follows(a, b) /\ Follows(b, c) /\ ~Ends(b.ops, "x") /\ ~Crosses(c.ops)
  BY <1>1, Following, EndsOfSteps
<1>4. a.do = "retried" /\ Crosses(a.ops)
  BY <1>1, ProgramSteps DEF Crosses
<1>5. Axishold = <<a>> /\ Allhold = <<a, b, c>>
  BY DEF Axishold, Allhold
<1> HIDE DEF a, b, c
<1>6. Good(<<a>>) /\ Good(<<a, b, c>>)
  BY <1>2, <1>3, <1>4, GoodChains
<1>7. Starting(<<a>>) /\ Starting(<<a, b, c>>)
  BY <1>4, <1>6 DEF Starting, Fresh
<1>8. QED
  BY <1>4, <1>5, <1>7

LEMMA RinsingSequence == Starting(Rinsing)
<1> DEFINE a == LiftIfDown
           b == Close("furnace")
           c == Close("TIC")
           d == Program(<<"x", "down", "lift">>)
<1>1. <<"x", "down", "lift">> \in Ops \ {<<>>} /\ "furnace" \in Vessel /\ "TIC" \in Vessel
  BY DEF Ops, Vessel
<1>2. GoodStep(a) /\ GoodStep(b) /\ GoodStep(c) /\ GoodStep(d)
  BY <1>1, GoodSteps
<1>3. Follows(a, b) /\ Follows(b, c) /\ Follows(c, d)
  BY <1>1, Following
<1>4. ~Ends(b.ops, "x") /\ ~Ends(c.ops, "x") /\ Ends(a.ops, "lift")
  BY <1>1, EndsOfSteps
<1>5. a.do = "liftIfDown" /\ b.do = "close" /\ c.do = "close" /\ d.do = "program"
  BY <1>1, OtherSteps, ProgramSteps
<1>6. Rinsing = <<a, b, c, d>>
  BY DEF Rinsing
<1> HIDE DEF a, b, c, d
<1>7. Good(<<a, b, c, d>>)
  <2>1. (\/ b.do = "close" /\ c.do = "close" /\ d.do # "close" /\ Ends(a.ops, "lift")
         \/ b.do # "close" /\ c.do # "close" /\ d.do # "close")
    BY <1>4, <1>5
  <2>2. QED
    BY <1>2, <1>3, <1>4, <2>1, GoodChains
<1>8. QED
  BY <1>5, <1>6, <1>7 DEF Starting, Fresh

LEMMA DilutionSequence == Starting(Dilution)
<1> DEFINE a == Timed("fill")
           b == Checked(<<"x", "down", "lift">>)
           c == Program(<<"x", "down", "lift">>)
           d == Timed("wait")
<1>1. /\ <<"x", "down", "lift">> \in Ops \ {<<>>} /\ <<"x", "down", "lift">> \in Dipping
  BY DEF Ops, Dipping
<1>2. GoodStep(a) /\ GoodStep(b) /\ GoodStep(c) /\ GoodStep(d)
  BY <1>1, GoodSteps
<1>3. Follows(a, b) /\ Follows(b, c) /\ Follows(c, d)
  BY Following
<1>4. ~Ends(b.ops, "x") /\ ~Ends(c.ops, "x")
  BY EndsOfSteps
<1>5. a.do = "fill" /\ b.do = "checked" /\ c.do = "program" /\ d.do = "wait"
  BY <1>1, OtherSteps, ProgramSteps
<1>6. Dilution = <<a, b, c, d>>
  BY DEF Dilution
<1> HIDE DEF a, b, c, d
<1>7. Good(<<a, b, c, d>>)
  BY <1>2, <1>3, <1>4, <1>5, GoodChains
<1>8. QED
  BY <1>5, <1>6, <1>7 DEF Starting, Fresh

LEMMA FreshSequences ==
  ASSUME NEW k \in Kinds
  PROVE  /\ Starting(Sequence(k))
         /\ Sequence(k)[1].do = "retried" => k \in {"allhold", "axishold"}
<1>1. "furnace" \in Vessel /\ "TIC" \in Vessel /\ Into("furnace") = "intoFurnace"
      /\ Into("TIC") = "intoTIC"
  BY DEF Vessel, Into
<1>2. \A v \in Vessel :
        <<Checked(<<"x", "down">>), Open(v), Program(<<Into(v), "down">>),
          Close(v), Program(<<"lift", "x">>)>>[1].do = "checked"
  <2>1. Checked(<<"x", "down">>).do = "checked"
    BY ProgramSteps DEF Ops
  <2>2. QED
    BY <2>1
<1>3. Injection = Injectioncod
  BY DEF Injection, Injectioncod
<1>4. Starting(Injection) /\ Injection[1].do = "checked"
  BY <1>1, <1>2, PortSequence DEF Injection
<1>5. Starting(Injectiontic) /\ Injectiontic[1].do = "checked"
  BY <1>1, <1>2, PortSequence DEF Injectiontic
<1>6. /\ Starting(Sampling) /\ Sampling[1].do = "checked"
      /\ Starting(Samplingcod) /\ Samplingcod[1].do = "checked"
  <2>1. Checked(<<"x", "down", "lift">>).do = "checked"
    BY ProgramSteps DEF Ops
  <2>2. QED
    BY <2>1, SamplingSequence DEF Sampling, Samplingcod
<1>7. Rinsing[1].do # "retried" /\ Dilution[1].do # "retried"
  <2>1. Rinsing[1] = LiftIfDown /\ Dilution[1] = Timed("fill")
    BY DEF Rinsing, Dilution
  <2>2. QED
    BY <2>1, OtherSteps
<1>8. QED
  BY <1>3, <1>4, <1>5, <1>6, <1>7, HomingSequences, RinsingSequence, DilutionSequence
  DEF Kinds, Sequence

-----------------------------------------------------------------------------
(* A call of the next step                                                 *)

LEMMA HeadTail ==
  ASSUME NEW S, NEW s \in Seq(S), s # <<>>
  PROVE  <<Head(s)>> \o Tail(s) = s
  OBVIOUS

\* The steps after the first one.
LEMMA GoodTail ==
  ASSUME NEW t, Good(t), Len(t) > 1
  PROVE  /\ Fresh(Tail(t)) /\ Tail(t)[1] = t[2] /\ Follows(t[1], t[2])
         /\ GoodStep(t[1]) /\ GoodStep(t[2]) /\ Head(t) = t[1]
         /\ Len(t) > 2 => ~Ends(t[2].ops, "x")
         /\ Prepares(t, 2)
<1>1. t \in Seq(Step) /\ t # <<>>
  BY DEF Good
<1>2. /\ Head(t) = t[1] /\ Len(t) \in Nat
      /\ Tail(t) \in Seq(Step) /\ Len(Tail(t)) = Len(t) - 1
      /\ \A i \in 1..Len(Tail(t)) : Tail(t)[i] = t[i + 1]
      /\ Tail(t) # <<>>
  BY <1>1, Rests
<1>3. /\ Tail(t)[1] = t[2] /\ Follows(t[1], t[2])
      /\ GoodStep(t[1]) /\ GoodStep(t[2])
  BY <1>2 DEF Good
<1>4. ASSUME NEW i \in 1..Len(Tail(t))
      PROVE  /\ GoodStep(Tail(t)[i]) /\ (Tail(t)[i].do = "liftIfDown" => i < Len(Tail(t)))
             /\ i > 1 => Follows(Tail(t)[i - 1], Tail(t)[i])
             /\ i < Len(Tail(t)) => ~Ends(Tail(t)[i].ops, "x")
             /\ i > 1 => Prepares(Tail(t), i)
  <2>1. i + 1 \in 1..Len(t) /\ Tail(t)[i] = t[i + 1]
    BY <1>2
  <2>2. GoodStep(t[i + 1]) /\ (t[i + 1].do = "liftIfDown" => i + 1 < Len(t))
        /\ Follows(t[(i + 1) - 1], t[i + 1])
        /\ (i + 1 < Len(t) => ~Ends(t[i + 1].ops, "x")) /\ Prepares(t, i + 1)
    BY <2>1 DEF Good
  <2>3. i > 1 => Tail(t)[i - 1] = t[i]
    BY <1>2
  <2>4. ASSUME i > 1 PROVE Prepares(Tail(t), i)
    <3>1. \A j \in 1..Len(Tail(t)) : Tail(t)[j] = t[j + 1] /\ j + 1 \in 1..Len(t)
      BY <1>2
    <3>2. (i + 1) - 1 = i
      BY <2>1
    <3>3. QED
      BY <2>1, <2>2, <2>3, <2>4, <3>1, <3>2 DEF Prepares
  <2>5. QED
    BY <1>2, <2>1, <2>2, <2>3, <2>4
<1>5. Good(Tail(t))
  BY <1>2, <1>4 DEF Good
<1>6. QED
  BY <1>2, <1>3, <1>5 DEF Fresh, Follows, Good

LEMMA ConsIs ==
  ASSUME NEW t \in Seq(Step), t # <<>>, NEW n \in Step
  PROVE  LET u == <<n>> \o Tail(t)
         IN /\ u \in Seq(Step) /\ Len(u) = Len(t) /\ u[1] = n /\ u # <<>>
            /\ \A i \in 1..Len(t) : i > 1 => u[i] = t[i]
            /\ Tail(u) = Tail(t)
<1> DEFINE u == <<n>> \o Tail(t)
<1>2. /\ Len(t) \in Nat \ {0}
      /\ Tail(t) \in Seq(Step) /\ Len(Tail(t)) = Len(t) - 1
      /\ \A i \in 1..Len(Tail(t)) : Tail(t)[i] = t[i + 1]
  BY Rests
<1>3. u \in Seq(Step) /\ Len(u) = Len(t) /\ u[1] = n /\ u # <<>>
  BY <1>2
<1>4. ASSUME NEW i \in 1..Len(t), i > 1 PROVE u[i] = t[i]
  <2>1. i - 1 \in 1..Len(Tail(t)) /\ (i - 1) + 1 = i
    BY <1>2, <1>4
  <2>2. u[i] = Tail(t)[i - 1]
    BY <1>2, <2>1
  <2>3. Tail(t)[i - 1] = t[(i - 1) + 1]
    BY <1>2, <2>1
  <2>4. QED
    BY <2>1, <2>2, <2>3
<1>5. Tail(u) = Tail(t)
  BY <1>2
<1>6. QED
  BY <1>3, <1>4, <1>5

LEMMA PreparesCons ==
  ASSUME NEW t, Good(t), Len(t) > 1, NEW n \in Step,
         t[1].do # "close", Ends(t[1].ops, "lift") => Ends(n.ops, "lift")
  PROVE  Prepares(<<n>> \o Tail(t), 2)
<1> DEFINE u == <<n>> \o Tail(t)
<1>1. t \in Seq(Step) /\ t # <<>> /\ Len(t) \in Nat
  BY DEF Good
<1>2. /\ Len(u) = Len(t) /\ u[1] = n
      /\ \A i \in 1..Len(t) : i > 1 => u[i] = t[i]
  BY <1>1, ConsIs
<1>3. Prepares(t, 2)
  BY GoodTail
<1> HIDE DEF u
<1>4. Prepares(u, 2)
  BY <1>1, <1>2, <1>3 DEF Prepares
<1>5. QED
  BY <1>4 DEF u

\* Another first step.
LEMMA GoodCons ==
  ASSUME NEW t, Good(t), t # <<>>, NEW n, GoodStep(n), n.do # "liftIfDown",
         Len(t) > 1 => Follows(n, t[2]) /\ Prepares(<<n>> \o Tail(t), 2)
  PROVE  LET u == <<n>> \o Tail(t)
         IN /\ Good(u) /\ u # <<>> /\ u[1] = n /\ Len(u) = Len(t)
            /\ \A i \in 1..Len(t) : i > 1 => u[i] = t[i]
            /\ Tail(u) = Tail(t)
<1> DEFINE u == <<n>> \o Tail(t)
<1>1. t \in Seq(Step) /\ n \in Step
  BY DEF Good, GoodStep
<1>2. Len(t) \in Nat \ {0}
  BY <1>1, Rests
<1>3. u \in Seq(Step) /\ Len(u) = Len(t) /\ u[1] = n /\ u # <<>>
  BY <1>1, ConsIs
<1>4. \A i \in 1..Len(t) : i > 1 => u[i] = t[i]
  BY <1>1, ConsIs
<1>5. Tail(u) = Tail(t)
  BY <1>1, ConsIs
<1> HIDE DEF u
<1>6. ASSUME NEW i \in 1..Len(u)
      PROVE  /\ GoodStep(u[i]) /\ (u[i].do = "liftIfDown" => i < Len(u))
             /\ i > 1 => Follows(u[i - 1], u[i])
             /\ i > 1 /\ i < Len(u) => ~Ends(u[i].ops, "x")
             /\ i > 1 => Prepares(u, i)
  <2>1. CASE i = 1
    BY <1>3, <2>1
  <2>2. CASE i = 2
    <3>1. Prepares(u, 2)
      BY <1>3, <2>2 DEF u
    <3>2. QED
      BY <1>2, <1>3, <1>4, <2>2, <3>1 DEF Good
  <2>3. CASE i > 2
    <3>1. i - 1 \in 1..Len(t) /\ i - 1 > 1 /\ i \in 1..Len(t)
      BY <1>2, <1>3, <2>3
    <3>2. u[i] = t[i] /\ u[i - 1] = t[i - 1]
      BY <1>4, <2>3, <3>1
    <3>3. Prepares(t, i)
      BY <2>3, <3>1 DEF Good
    <3>4. \A j \in 1..Len(t) : j > i => u[j] = t[j]
      BY <1>2, <1>4, <2>3
    <3>5. Prepares(u, i)
      BY <1>3, <3>2, <3>3, <3>4 DEF Prepares
    <3>6. QED
      BY <1>3, <2>3, <3>1, <3>2, <3>5 DEF Good
  <2>4. QED
    BY <1>3, <2>1, <2>2, <2>3
<1>7. Good(u)
  BY <1>3, <1>6 DEF Good
<1>8. QED
  BY <1>3, <1>4, <1>5, <1>7 DEF u

\* What is called, and what is left to do with it.
Begun(t) == <<Called(Head(Now(t)))>> \o Tail(Now(t))

\* The needle is lifted before it moves.
Lifting(a, b) ==
  /\ a.do \in {"checked", "retried"} /\ ~published
  /\ b = [a EXCEPT !.ops = <<"lift">> \o a.ops]

LEMMA LiftFirst ==
  ASSUME NEW a, GoodStep(a), Crosses(a.ops), NEW b, Lifting(a, b)
  PROVE  /\ GoodStep(b) /\ b.do = a.do /\ b.vessel = a.vessel
         /\ b.ops # <<>> /\ b.ops[1] = "lift" /\ ~Crosses(b.ops)
         /\ \A o : Ends(b.ops, o) <=> Ends(a.ops, o)
         /\ \A c : Follows(a, c) => Follows(b, c)
<1>1. b.do = a.do /\ b.vessel = a.vessel /\ b.ops = <<"lift">> \o a.ops /\ a \in Step
  BY DEF Lifting, Step, GoodStep
<1>2. a.ops \in {<<"x">>, <<"x", "down">>, <<"x", "down", "lift">>}
  BY DEF GoodStep, Lifting, Homing, Dipping, Crosses
<1>3. /\ b.ops # <<>> /\ a.ops # <<>> /\ b.ops[1] = "lift"
      /\ \A o : Ends(b.ops, o) <=> Ends(a.ops, o)
      /\ b.ops \in Ops /\ (a.ops \in Homing => b.ops \in Homing)
      /\ (a.ops \in Dipping => b.ops \in Dipping)
  <2>1. CASE a.ops = <<"x">>
    <3>1. <<"lift">> \o <<"x">> = <<"lift", "x">>
      <4> DEFINE u == <<"lift">> \o <<"x">>
                 w == <<"lift", "x">>
      <4>1. <<"lift">> \in Seq(Op) /\ <<"x">> \in Seq(Op) /\ w \in Seq(Op)
        BY OpsTypes DEF Ops
      <4>2. u \in Seq(Op) /\ Len(u) = 2 /\ u[1] = "lift" /\ u[2] = "x"
        BY <4>1
      <4>3. Len(w) = 2 /\ w[1] = "lift" /\ w[2] = "x"
        OBVIOUS
      <4> HIDE DEF u, w
      <4>4. \A i \in 1..Len(u) : u[i] = w[i]
        BY <4>2, <4>3
      <4>5. QED
        BY <4>1, <4>2, <4>3, <4>4, SeqEq DEF u, w
    <3>2. b.ops = <<"lift", "x">>
      BY <1>1, <2>1, <3>1
    <3>3. b.ops # <<>> /\ a.ops # <<>> /\ b.ops[1] = "lift"
      BY <2>1, <3>2
    <3>4. /\ b.ops[Len(b.ops)] = "x" /\ a.ops[Len(a.ops)] = "x"
      BY <2>1, <3>2
    <3>5. /\ b.ops \in Ops /\ (a.ops \in Homing => b.ops \in Homing)
          /\ (a.ops \in Dipping => b.ops \in Dipping)
      BY <2>1, <3>2 DEF Ops, Homing, Dipping
    <3>6. QED
      BY <3>3, <3>4, <3>5 DEF Ends
  <2>2. CASE a.ops = <<"x", "down">>
    <3>1. <<"lift">> \o <<"x", "down">> = <<"lift", "x", "down">>
      <4> DEFINE u == <<"lift">> \o <<"x", "down">>
                 w == <<"lift", "x", "down">>
      <4>1. <<"lift">> \in Seq(Op) /\ <<"x", "down">> \in Seq(Op) /\ w \in Seq(Op)
        BY OpsTypes DEF Ops
      <4>2. u \in Seq(Op) /\ Len(u) = 3 /\ u[1] = "lift" /\ u[2] = "x" /\ u[3] = "down"
        BY <4>1
      <4>3. Len(w) = 3 /\ w[1] = "lift" /\ w[2] = "x" /\ w[3] = "down"
        OBVIOUS
      <4> HIDE DEF u, w
      <4>4. \A i \in 1..Len(u) : u[i] = w[i]
        BY <4>2, <4>3
      <4>5. QED
        BY <4>1, <4>2, <4>3, <4>4, SeqEq DEF u, w
    <3>2. b.ops = <<"lift", "x", "down">>
      BY <1>1, <2>2, <3>1
    <3>3. b.ops # <<>> /\ a.ops # <<>> /\ b.ops[1] = "lift"
      BY <2>2, <3>2
    <3>4. /\ b.ops[Len(b.ops)] = "down" /\ a.ops[Len(a.ops)] = "down"
      BY <2>2, <3>2
    <3>5. /\ b.ops \in Ops /\ (a.ops \in Homing => b.ops \in Homing)
          /\ (a.ops \in Dipping => b.ops \in Dipping)
      BY <2>2, <3>2 DEF Ops, Homing, Dipping
    <3>6. QED
      BY <3>3, <3>4, <3>5 DEF Ends
  <2>3. CASE a.ops = <<"x", "down", "lift">>
    <3>1. <<"lift">> \o <<"x", "down", "lift">> = <<"lift", "x", "down", "lift">>
      <4> DEFINE u == <<"lift">> \o <<"x", "down", "lift">>
                 w == <<"lift", "x", "down", "lift">>
      <4>1. <<"lift">> \in Seq(Op) /\ <<"x", "down", "lift">> \in Seq(Op) /\ w \in Seq(Op)
        BY OpsTypes DEF Ops
      <4>2. u \in Seq(Op) /\ Len(u) = 4 /\ u[1] = "lift" /\ u[2] = "x" /\ u[3] = "down" /\ u[4] = "lift"
        BY <4>1
      <4>3. Len(w) = 4 /\ w[1] = "lift" /\ w[2] = "x" /\ w[3] = "down" /\ w[4] = "lift"
        OBVIOUS
      <4> HIDE DEF u, w
      <4>4. \A i \in 1..Len(u) : u[i] = w[i]
        BY <4>2, <4>3
      <4>5. QED
        BY <4>1, <4>2, <4>3, <4>4, SeqEq DEF u, w
    <3>2. b.ops = <<"lift", "x", "down", "lift">>
      BY <1>1, <2>3, <3>1
    <3>3. b.ops # <<>> /\ a.ops # <<>> /\ b.ops[1] = "lift"
      BY <2>3, <3>2
    <3>4. /\ b.ops[Len(b.ops)] = "lift" /\ a.ops[Len(a.ops)] = "lift"
      BY <2>3, <3>2
    <3>5. /\ b.ops \in Ops /\ (a.ops \in Homing => b.ops \in Homing)
          /\ (a.ops \in Dipping => b.ops \in Dipping)
      BY <2>3, <3>2 DEF Ops, Homing, Dipping
    <3>6. QED
      BY <3>3, <3>4, <3>5 DEF Ends
  <2>4. QED
    BY <1>2, <2>1, <2>2, <2>3
<1>4. b \in Step
  BY <1>3, <1>1, OpsTypes DEF Lifting, Step
<1>5. GoodStep(b)
  BY <1>1, <1>3, <1>4 DEF GoodStep, Lifting
<1>6. ASSUME NEW c, Follows(a, c) PROVE Follows(b, c)
  BY <1>1, <1>3, <1>6 DEF Follows, Lifting
<1>7. QED
  BY <1>1, <1>3, <1>5, <1>6 DEF Crosses

LEMMA Beginning ==
  ASSUME NEW t, Fresh(t)
  PROVE  LET u == Begun(t)
         IN /\ Good(u) /\ u # <<>>
            /\ \/ u = t /\ ~(t[1].do = "liftIfDown" /\ published)
                  /\ ~(t[1].do \in {"checked", "retried"} /\ ~published)
               \/ Lifting(t[1], u[1]) /\ Crosses(t[1].ops) /\ GoodStep(t[1])
                  /\ Len(u) = Len(t)
               \/ u = Tail(t) /\ Len(t) > 1 /\ t[1].do = "liftIfDown" /\ published
                  /\ t[2].do = "close" /\ u[1] = t[2]
<1>1. t \in Seq(Step) /\ t # <<>> /\ GoodStep(t[1]) /\ Len(t) \in Nat \ {0} /\ Head(t) = t[1]
  BY Rests DEF Fresh, Good
<1>2. CASE t[1].do \in {"checked", "retried"} /\ ~published
  <2> DEFINE n == [t[1] EXCEPT !.ops = <<"lift">> \o t[1].ops]
  <2>1. Now(t) = t /\ Called(t[1]) = n
    BY <1>1, <1>2 DEF Now, Called
  <2>2. Lifting(t[1], n) /\ Crosses(t[1].ops)
    BY <1>2 DEF Lifting, Fresh
  <2>3. GoodStep(n) /\ n.do = t[1].do /\ \A c : Follows(t[1], c) => Follows(n, c)
    BY <1>1, <2>2, LiftFirst
  <2>4. Begun(t) = <<n>> \o Tail(t) /\ \A o : Ends(n.ops, o) <=> Ends(t[1].ops, o)
    BY <1>1, <2>1, <2>2, LiftFirst DEF Begun
  <2> HIDE DEF n
  <2>5. Len(t) > 1 => Follows(n, t[2]) /\ Prepares(<<n>> \o Tail(t), 2)
    <3>1. n \in Step
      BY <2>3 DEF GoodStep
    <3>2. QED
      BY <1>2, <2>3, <2>4, <3>1, GoodTail, PreparesCons DEF Fresh
  <2>6. Good(Begun(t)) /\ Begun(t) # <<>> /\ Begun(t)[1] = n /\ Len(Begun(t)) = Len(t)
    BY <1>1, <1>2, <2>3, <2>4, <2>5, GoodCons DEF Fresh
  <2>7. QED
    BY <1>1, <2>2, <2>6
<1>3. CASE t[1].do = "liftIfDown" /\ published
  <2>1. Len(t) > 1
    BY <1>1, <1>3 DEF Fresh, Good
  <2>2. /\ Fresh(Tail(t)) /\ Tail(t)[1] = t[2] /\ Follows(t[1], t[2])
    BY <2>1, GoodTail DEF Fresh
  <2>3. t[2].do = "close"
    BY <1>3, <2>2 DEF Follows
  <2>4. Tail(t) \in Seq(Step) /\ Tail(t) # <<>> /\ Head(Tail(t)) = t[2]
    BY <2>2, Rests DEF Fresh, Good
  <2>5. Now(t) = Tail(t) /\ Called(t[2]) = t[2]
    BY <1>1, <1>3, <2>3 DEF Now, Called
  <2>6. Begun(t) = Tail(t)
    BY <2>4, <2>5, HeadTail DEF Begun
  <2>7. QED
    BY <1>3, <2>1, <2>2, <2>3, <2>6 DEF Fresh
<1>4. CASE /\ ~(t[1].do = "liftIfDown" /\ published)
           /\ ~(t[1].do \in {"checked", "retried"} /\ ~published)
  <2>1. Now(t) = t /\ Called(t[1]) = t[1]
    BY <1>1, <1>4 DEF Now, Called
  <2>2. Begun(t) = t
    BY <1>1, <2>1, HeadTail DEF Begun
  <2>3. QED
    BY <1>1, <1>4, <2>2 DEF Fresh
<1>5. QED
  BY <1>2, <1>3, <1>4

\* What a call does, in terms of the step that is begun.
LEMMA CallEffect ==
  ASSUME NEW t, Fresh(t), NEW init \in BOOLEAN, Call(t, init)
  PROVE  LET s == Begun(t)[1]
         IN /\ todo' = Begun(t) /\ answer' = "none" /\ GoodStep(s)
            /\ sent' = IF s.ops # <<>> \/ init THEN s.ops ELSE sent
            /\ program' = IF init THEN None
                          ELSE IF s.ops # <<>> THEN Arrived ELSE program
            /\ IF s.do \in {"open", "close"} THEN Tell(s.vessel, s.do)
                                             ELSE UNCHANGED portVars
            /\ strayed' = (strayed \/ (Looks(t[1]) /\ published /\ needle # {"lift"}))
            /\ UNCHANGED <<needle, published>>
<1> DEFINE s == Called(Head(Now(t)))
<1>1. /\ todo' = Begun(t) /\ answer' = "none"
      /\ sent' = IF s.ops # <<>> \/ init THEN s.ops ELSE sent
      /\ program' = IF init THEN None
                    ELSE IF s.ops # <<>> THEN Arrived ELSE program
      /\ IF s.do \in {"open", "close"} THEN Tell(s.vessel, s.do)
                                       ELSE UNCHANGED portVars
      /\ strayed' = (strayed \/ (Looks(Head(t)) /\ published /\ needle # {"lift"}))
      /\ UNCHANGED <<needle, published>>
  BY DEF Call, Begun
<1>2. Good(Begun(t)) /\ Begun(t) # <<>>
  BY Beginning
<1>3. GoodStep(Begun(t)[1]) /\ Len(Begun(t)) \in Nat \ {0}
  BY <1>2, Rests DEF Good
<1>4. Head(t) = t[1]
  BY Rests DEF Fresh, Good
<1>5. t \in Seq(Step) /\ t # <<>> /\ Now(t) \in Seq(Step)
  BY Rests DEF Fresh, Good, Now
<1> HIDE DEF s
<1>6. Tail(Now(t)) \in Seq(Step) \/ Now(t) = <<>>
  BY <1>5, Rests
<1>7. Now(t) # <<>>
  <2>1. CASE Head(t).do = "liftIfDown" /\ published
    BY <1>4, <1>5, <2>1, Rests, GoodTail DEF Now, Fresh, Good
  <2>2. QED
    BY <1>5, <2>1 DEF Now
<1>8. Begun(t)[1] = s
  BY <1>6, <1>7 DEF Begun, s
<1>9. QED
  BY <1>1, <1>2, <1>3, <1>4, <1>8

-----------------------------------------------------------------------------
(* Type correctness                                                        *)

Sound ==
  /\ TypeOK /\ Good(todo)
  /\ answer # "none" => todo # <<>>
  /\ program.ops \in Ops /\ sent \in Ops
  /\ program.stage # "waits" => program.ops # <<>>

LEMMA NoSteps == <<>> \in Seq(Step) /\ Good(<<>>) /\ <<>> \in Seq(Op) /\ <<>> \in Ops
<1>1. <<>> \in Seq(Step)
  OBVIOUS
<1>2. <<>> \in Seq(Op) /\ <<>> \in Ops
  BY OpsTypes DEF Ops
<1>3. Len(<<>>) = 0
  OBVIOUS
<1>4. QED
  BY <1>1, <1>2, <1>3 DEF Good

LEMMA CallSound ==
  ASSUME Sound, NEW t, Fresh(t), NEW init \in BOOLEAN, Call(t, init)
  PROVE  /\ todo' \in Seq(Step) /\ Good(todo') /\ todo' # <<>> /\ answer' = "none"
         /\ sent' \in Ops /\ program'.ops \in Ops
         /\ program'.stage # "waits" => program'.ops # <<>>
         /\ program' \in [ops : Seq(Op), stage : {"waits", "drives", "read"}]
         /\ open' \subseteq Vessel /\ command' \in [Vessel -> {"open", "close", "none"}]
         /\ upset' \in BOOLEAN /\ strayed' \in BOOLEAN
         /\ UNCHANGED <<needle, published>>
<1> DEFINE s == Begun(t)[1]
<1>1. /\ todo' = Begun(t) /\ answer' = "none" /\ GoodStep(s)
      /\ sent' = IF s.ops # <<>> \/ init THEN s.ops ELSE sent
      /\ program' = IF init THEN None
                    ELSE IF s.ops # <<>> THEN Arrived ELSE program
      /\ IF s.do \in {"open", "close"} THEN Tell(s.vessel, s.do)
                                       ELSE UNCHANGED portVars
      /\ strayed' = (strayed \/ (Looks(t[1]) /\ published /\ needle # {"lift"}))
      /\ UNCHANGED <<needle, published>>
  BY CallEffect
<1> HIDE DEF s
<1>2. Good(todo') /\ todo' # <<>> /\ todo' \in Seq(Step)
  BY <1>1, Beginning DEF Good
<1>3. s.ops \in Ops /\ sent \in Seq(Op) /\ <<>> \in Ops /\ <<>> \in Seq(Op)
  BY <1>1, NoSteps DEF GoodStep, Sound, TypeOK
<1>4. /\ program' \in [ops : Seq(Op), stage : {"waits", "drives", "read"}]
      /\ program'.ops \in Ops
      /\ program'.stage # "waits" => program'.ops # <<>>
  <2>1. /\ None \in [ops : Seq(Op), stage : {"waits", "drives", "read"}]
        /\ None.ops = <<>> /\ None.stage = "waits"
    BY <1>3 DEF None
  <2>2. program' = None \/ program' = program \/ program' = [ops |-> sent, stage |-> "waits"]
    BY <1>1 DEF Arrived
  <2>3. QED
    BY <1>3, <2>1, <2>2 DEF Sound, TypeOK
<1>5. sent' \in Ops
  BY <1>1, <1>3 DEF Sound
<1>6. /\ open' \subseteq Vessel /\ command' \in [Vessel -> {"open", "close", "none"}]
      /\ upset' \in BOOLEAN
  <2>1. CASE s.do \in {"open", "close"}
    <3>1. Tell(s.vessel, s.do)
      BY <1>1, <2>1
    <3>2. QED
      BY <2>1, <3>1 DEF Tell, Sound, TypeOK
  <2>2. CASE s.do \notin {"open", "close"}
    BY <1>1, <2>2 DEF portVars, Sound, TypeOK
  <2>3. QED
    BY <2>1, <2>2
<1>7. strayed' \in BOOLEAN
  BY <1>1 DEF Sound, TypeOK
<1>8. QED
  BY <1>1, <1>2, <1>4, <1>5, <1>6, <1>7

\* The second try of allhold and axishold.
Again(t) == <<Program(<<"lift", "x">>)>> \o Tail(t)

LEMMA RetrySteps ==
  ASSUME NEW t, Good(t), t # <<>>, t[1].do = "retried"
  PROVE  /\ Fresh(Again(t)) /\ Again(t)[1] = Program(<<"lift", "x">>)
         /\ Len(Again(t)) = Len(t)
         /\ \A i \in 1..Len(t) : i > 1 => Again(t)[i] = t[i]
<1>1. /\ <<"lift", "x">> \in Ops /\ <<"lift", "x">> # <<>> /\ <<"lift", "x">> \in Homing
      /\ ~Crosses(<<"lift", "x">>) /\ Ends(<<"lift", "x">>, "x")
  BY DEF Ops, Homing, Crosses, Ends
<1> DEFINE n == Program(<<"lift", "x">>)
<1>2. GoodStep(n) /\ n.do = "program" /\ n.ops = <<"lift", "x">>
  BY <1>1, GoodSteps, ProgramSteps
<1> HIDE DEF n
<1>3. Len(t) \in Nat \ {0} /\ GoodStep(t[1])
  BY Rests DEF Good
<1>4. ASSUME Len(t) > 1 PROVE Follows(n, t[2]) /\ Prepares(Again(t), 2)
  <2>1. Follows(t[1], t[2]) /\ GoodStep(t[2])
    BY <1>4, GoodTail
  <2>2. t[1].ops \in {<<"x">>, <<"lift", "x">>}
    BY <1>3 DEF GoodStep, Homing
  <2>3. Ends(t[1].ops, "x") /\ ~Ends(t[1].ops, "lift")
    <3>1. /\ Ends(<<"x">>, "x") /\ Ends(<<"lift", "x">>, "x")
          /\ ~Ends(<<"x">>, "lift") /\ ~Ends(<<"lift", "x">>, "lift")
      BY DEF Ends
    <3>2. QED
      BY <2>2, <3>1
  <2>4. t[2].do = "close" /\ t[2].ops = <<>>
    BY <2>1, <2>3 DEF Follows, GoodStep
  <2>5. \A v \in Vessel : ~Enters(t[2].ops, v)
    BY <2>4 DEF Enters
  <2>6. Follows(n, t[2])
    BY <1>1, <1>2, <2>4, <2>5 DEF Follows
  <2>7. n \in Step
    BY <1>2 DEF GoodStep
  <2>8. Prepares(<<n>> \o Tail(t), 2)
    BY <1>4, <2>3, <2>7, PreparesCons
  <2>9. QED
    BY <2>6, <2>8 DEF Again, n
<1>5. /\ Good(Again(t)) /\ Again(t) # <<>> /\ Again(t)[1] = n /\ Len(Again(t)) = Len(t)
      /\ \A i \in 1..Len(t) : i > 1 => Again(t)[i] = t[i]
  BY <1>2, <1>4, GoodCons DEF Again, n
<1>6. QED
  BY <1>2, <1>5 DEF Fresh, n

LEMMA DoneSound ==
  ASSUME Sound, NEW r \in Run, Done(r)
  PROVE  Sound'
<1>1. kind' \in [Run -> Kinds \cup {"none"}] /\ cancelled' \subseteq Run
  BY DEF Done, Sound, TypeOK
<1>2. /\ current' \in Run \cup {NoRun} /\ todo' \in Seq(Step) /\ Good(todo')
      /\ answer' \in {"none", "ok", "error"} /\ (answer' # "none" => todo' # <<>>)
  BY NoSteps DEF Done, Sound, TypeOK
<1>3. UNCHANGED <<axisVars, portVars>> /\ pump' \in BOOLEAN /\ busy' \in BOOLEAN
  BY DEF Done, Sound, TypeOK
<1>4. QED
  BY <1>1, <1>2, <1>3 DEF Sound, TypeOK, axisVars, portVars

LEMMA SoundStep ==
  ASSUME Sound, [Next]_vars
  PROVE  Sound'
<1> USE SequenceAssumption
<1>1. ASSUME NEW r \in Run, NEW k \in Kind, RunCallback(r, k)
      PROVE  Sound'
  <2>1. k \in Kinds /\ Fresh(Sequence(k))
    BY FreshSequences DEF Starting
  <2>2. /\ kind' \in [Run -> Kinds \cup {"none"}] /\ cancelled' \subseteq Run
        /\ current' \in Run /\ busy' \in BOOLEAN /\ pump' \in BOOLEAN
    BY <1>1, <2>1 DEF RunCallback, CancelCurrent, Sound, TypeOK
  <2>3. PICK init \in BOOLEAN : Call(Sequence(k), init)
    BY <1>1 DEF RunCallback
  <2>4. QED
    BY <2>1, <2>2, <2>3, CallSound, OpsTypes DEF Sound, TypeOK
<1>2. ASSUME NEW r \in Run, NEW k \in Kind, RunFails(r, k)
      PROVE  Sound'
  <2>1. k \in Kinds
    OBVIOUS
  <2>2. /\ kind' \in [Run -> Kinds \cup {"none"}] /\ cancelled' \subseteq Run
        /\ current' \in Run /\ busy' \in BOOLEAN /\ pump' \in BOOLEAN
        /\ todo' = <<>> /\ answer' = "none"
    BY <1>2, <2>1 DEF RunFails, CancelCurrent, Sound, TypeOK
  <2>3. None \in [ops : Seq(Op), stage : {"waits", "drives", "read"}]
        /\ None.ops = <<>> /\ None.stage = "waits"
    BY NoSteps DEF None
  <2>4. /\ sent' \in Ops /\ program' \in [ops : Seq(Op), stage : {"waits", "drives", "read"}]
        /\ program'.ops \in Ops /\ (program'.stage # "waits" => program'.ops # <<>>)
    BY <1>2, <2>3, NoSteps DEF RunFails, Sound, TypeOK
  <2>5. UNCHANGED <<needle, published, strayed, portVars>>
    BY <1>2 DEF RunFails
  <2>6. QED
    BY <2>2, <2>4, <2>5, NoSteps, OpsTypes DEF Sound, TypeOK, portVars
<1>3. ASSUME NEW r \in Run, CancelledReturns(r)
      PROVE  Sound'
  BY <1>3, DoneSound DEF CancelledReturns
<1>4. CASE StopCallback
  BY <1>4, NoSteps DEF StopCallback, CancelCurrent, Sound, TypeOK, axisVars, portVars
<1>5. CASE Callback
  <2>1. current \in Run
    BY <1>5 DEF Callback, Sound, TypeOK
  <2>2. CASE Done(current)
    BY <2>1, <2>2, DoneSound
  <2>3. CASE Answered /\ Len(todo) > 1
    <3>1. CASE Done(current)
      BY <2>1, <3>1, DoneSound
    <3>2. CASE /\ Call(Tail(todo), FALSE)
               /\ pump' = (pump /\ Head(todo).do # "fill")
               /\ UNCHANGED <<kind, current, cancelled, busy>>
      <4>1. Fresh(Tail(todo))
        BY <2>3, GoodTail DEF Sound
      <4>2. QED
        BY <3>2, <4>1, CallSound, OpsTypes DEF Sound, TypeOK
    <3>3. QED
      BY <2>3, <3>1, <3>2 DEF Answered
  <2>4. CASE Retries
    <3>1. todo # <<>> /\ Good(todo) /\ todo[1].do = "retried"
      BY <2>4, Rests DEF Retries, Sound, Good
    <3>2. Fresh(Again(todo)) /\ Call(Again(todo), FALSE)
      BY <2>4, <3>1, RetrySteps DEF Retries, Again
    <3>3. QED
      BY <2>4, <3>2, CallSound, OpsTypes DEF Retries, Sound, TypeOK
  <2>5. QED
    BY <1>5, <2>2, <2>3, <2>4 DEF Callback, Returned, Answered, Fails
<1>6. CASE PtprunArrives
  <2>1. program' = [ops |-> sent, stage |-> "waits"] /\ sent' = <<>>
        /\ UNCHANGED <<runVars, answer, needle, published, strayed, portVars>>
    BY <1>6 DEF PtprunArrives, Arrived
  <2>2. QED
    BY <2>1, NoSteps DEF Sound, TypeOK, runVars, portVars
<1>7. CASE OpBegins
  <2>1. program.ops # <<>> /\ Head(program.ops) \in Op
    BY <1>7, FirstOp DEF OpBegins, Sound
  <2>2. needle' \subseteq Place /\ needle' # {} /\ strayed' \in BOOLEAN
    <3>1. CASE Head(program.ops) = "x"
      BY <1>7, <3>1 DEF OpBegins, Sound, TypeOK
    <3>2. CASE Head(program.ops) # "x"
      <4>1. Head(program.ops) \in Place
        BY <2>1, <3>2 DEF Op
      <4>2. needle' = needle \cup {Head(program.ops)} /\ strayed' = ~WaitsForProgram
        BY <1>7, <3>2 DEF OpBegins
      <4>3. needle' \subseteq Place /\ needle' # {}
        BY <4>1, <4>2 DEF Sound, TypeOK
      <4>4. strayed' \in BOOLEAN
        BY <4>2
      <4>5. QED
        BY <4>3, <4>4
    <3>3. QED
      BY <3>1, <3>2
  <2>3. program' = [program EXCEPT !.stage = "drives"]
        /\ UNCHANGED <<runVars, answer, sent, published, portVars>>
    BY <1>7 DEF OpBegins
  <2>4. QED
    BY <2>1, <2>2, <2>3 DEF Sound, TypeOK, runVars, portVars
<1>8. CASE OpRead
  BY <1>8 DEF OpRead, Sound, TypeOK, runVars, portVars
<1>9. CASE OpEnds
  <2>1. program.ops # <<>> /\ program.ops \in Ops /\ Head(program.ops) \in Op
        /\ Tail(program.ops) \in Ops
    BY <1>9, FirstOp, RestsOfOps DEF OpEnds, Drives, Sound
  <2>2. Tail(program.ops) \in Seq(Op)
    BY <2>1, OpsTypes
  <2>3. needle' \subseteq Place /\ needle' # {} /\ published' \in BOOLEAN
    <3>1. CASE Head(program.ops) = "x"
      BY <1>9, <3>1 DEF OpEnds, Sound, TypeOK
    <3>2. CASE Head(program.ops) # "x"
      <4>1. Head(program.ops) \in Place
        BY <2>1, <3>2 DEF Op
      <4>2. needle' = {Head(program.ops)} /\ published' = (Head(program.ops) = "lift")
        BY <1>9, <3>2 DEF OpEnds
      <4>3. needle' \subseteq Place /\ needle' # {}
        BY <4>1, <4>2
      <4>4. published' \in BOOLEAN
        BY <4>2
      <4>5. QED
        BY <4>3, <4>4
    <3>3. QED
      BY <3>1, <3>2
  <2>4. answer' = answer \/ (answer' = "ok" /\ todo # <<>>)
    BY <1>9 DEF OpEnds, Reply, WaitsForProgram, Waits
  <2>5. program' = [ops |-> Tail(program.ops), stage |-> "waits"]
        /\ UNCHANGED <<runVars, sent, strayed, portVars>>
    BY <1>9 DEF OpEnds
  <2>6. QED
    BY <2>1, <2>2, <2>3, <2>4, <2>5 DEF Sound, TypeOK, runVars, portVars
<1>10. CASE ProgramFails
  <2>1. answer' = answer \/ (answer' = "error" /\ todo # <<>>)
    BY <1>10 DEF ProgramFails, Reply, WaitsForProgram, Waits
  <2>2. QED
    BY <1>10, <2>1, NoSteps DEF ProgramFails, None, Sound, TypeOK, runVars, portVars
<1>11. CASE ProgramTimesOut
  BY <1>11 DEF ProgramTimesOut, WaitsForProgram, Waits, Sound, TypeOK, runVars, axisVars, portVars
<1>12. ASSUME NEW v \in Vessel, PortEnds(v)
       PROVE  Sound'
  <2>1. answer' = answer \/ (answer' \in {"ok", "error"} /\ todo # <<>>)
    BY <1>12 DEF PortEnds, Reply, WaitsForPort, Waits
  <2>2. QED
    BY <1>12, <2>1 DEF PortEnds, Sound, TypeOK, runVars, axisVars
<1>13. CASE TimerEnds
  BY <1>13 DEF TimerEnds, Waits, Sound, TypeOK, runVars, axisVars, portVars
<1>14. CASE UNCHANGED vars
  BY <1>14 DEF vars, Sound, TypeOK, runVars, axisVars, portVars
<1>15. QED
  BY <1>1, <1>2, <1>3, <1>4, <1>5, <1>6, <1>7, <1>8, <1>9, <1>10, <1>11, <1>12,
     <1>13, <1>14 DEF Next, AxisStep

LEMMA SoundInit == Init => Sound
<1>1. ASSUME Init PROVE Sound
  <2>1. None \in [ops : Seq(Op), stage : {"waits", "drives", "read"}]
        /\ None.ops = <<>> /\ None.stage = "waits"
    BY NoSteps DEF None
  <2>2. needle \subseteq Place /\ needle # {} /\ published \in BOOLEAN
    <3>1. needle = {"lift"} \/ needle = {"down"}
      BY <1>1 DEF Init
    <3>2. {"lift"} \subseteq Place /\ {"down"} \subseteq Place
      BY DEF Place
    <3>3. published \in BOOLEAN
      BY <1>1 DEF Init
    <3>4. QED
      BY <3>1, <3>2, <3>3
  <2>3. QED
    BY <1>1, <2>1, <2>2, NoSteps DEF Init, Sound, TypeOK
<1>2. QED
  BY <1>1

LEMMA SoundHolds == Spec => []Sound
  BY SoundInit, SoundStep, PTL DEF Spec

\* Type correctness.
THEOREM TypeCorrect == Spec => []TypeOK
<1>1. Sound => TypeOK
  BY DEF Sound
<1>2. QED
  BY <1>1, SoundHolds, PTL

-----------------------------------------------------------------------------
(* One run at a time                                                       *)

Begins(r, k) ==
  /\ ~Pending(r) /\ CancelCurrent
  /\ kind' = [kind EXCEPT ![r] = k] /\ current' = r /\ busy' = TRUE
  /\ pump' => k = "dilution" \/ pump

Stays == UNCHANGED <<kind, current, cancelled, busy>> /\ (pump' => pump)

LEMMA RunCases ==
  ASSUME Sound, [Next]_vars
  PROVE  \/ \E r \in Run, k \in Kinds : Begins(r, k)
         \/ StopCallback
         \/ \E r \in Run : Done(r) /\ (r = current \/ r \in cancelled)
         \/ Stays
<1> USE SequenceAssumption
<1>1. ASSUME NEW r \in Run, NEW k \in Kind, RunCallback(r, k) \/ RunFails(r, k)
      PROVE  \E r1 \in Run, k1 \in Kinds : Begins(r1, k1)
  <2>1. k \in Kinds
    OBVIOUS
  <2>2. Begins(r, k)
    BY <1>1 DEF RunCallback, RunFails, Begins, Sound, TypeOK
  <2>3. QED
    BY <2>1, <2>2
<1>2. CASE Callback
  <2>1. current \in Run
    BY <1>2 DEF Callback, Sound, TypeOK
  <2>2. Done(current) \/ Stays
    BY <1>2 DEF Callback, Returned, Answered, Retries, Fails, Stays
  <2>3. QED
    BY <2>1, <2>2
<1>3. CASE \/ PtprunArrives \/ OpBegins \/ OpRead \/ OpEnds \/ ProgramFails
           \/ ProgramTimesOut \/ TimerEnds \/ UNCHANGED vars
           \/ \E v \in Vessel : PortEnds(v)
  BY <1>3 DEF PtprunArrives, OpBegins, OpRead, OpEnds, ProgramFails, ProgramTimesOut,
     TimerEnds, PortEnds, vars, runVars, Stays
<1>4. QED
  BY <1>1, <1>2, <1>3 DEF Next, AxisStep, CancelledReturns

\* The runs in progress are the current one and the cancelled ones.
Marked ==
  /\ \A r \in Run : Pending(r) => r = current \/ r \in cancelled
  /\ \A r \in cancelled : Pending(r)
  /\ current # NoRun => Pending(current) /\ current \notin cancelled

LEMMA StepRuns ==
  ASSUME Sound, Marked, [Next]_vars
  PROVE  Marked' /\ [Runs!Next]_(Runs!runVars)
<1> USE SequenceAssumption
<1>1. /\ kind \in [Run -> Kinds \cup {"none"}] /\ current \in Run \cup {NoRun}
      /\ cancelled \subseteq Run /\ "none" \notin Kinds
  BY DEF Sound, TypeOK, Kinds
<1>2. ASSUME NEW r \in Run, NEW k \in Kinds, Begins(r, k)
      PROVE  Marked' /\ [Runs!Next]_(Runs!runVars)
  <2>1. /\ cancelled' = cancelled \cup ({current} \ {NoRun}) /\ current' = r
        /\ r \notin cancelled /\ r # current
    BY <1>2 DEF Begins, CancelCurrent, Marked
  <2>2. kind'[r] = k /\ \A q \in Run \ {r} : kind'[q] = kind[q]
    BY <1>1, <1>2 DEF Begins
  <2>3. Marked'
    BY <1>1, <2>1, <2>2 DEF Marked, Pending
  <2>4. Runs!Start(r)
    BY <2>1 DEF Runs!Start, Runs!Superseded
  <2>5. QED
    BY <2>3, <2>4 DEF Runs!Next
<1>3. CASE StopCallback
  <2>1. /\ cancelled' = cancelled \cup ({current} \ {NoRun}) /\ current' = NoRun
        /\ kind' = kind
    BY <1>3 DEF StopCallback, CancelCurrent
  <2>2. Marked'
    BY <1>1, <2>1 DEF Marked, Pending
  <2>3. Runs!Cancel \/ UNCHANGED Runs!runVars
    BY <2>1 DEF Runs!Cancel, Runs!Superseded, Runs!runVars
  <2>4. QED
    BY <2>2, <2>3 DEF Runs!Next
<1>4. ASSUME NEW r \in Run, Done(r), r = current \/ r \in cancelled
      PROVE  Marked' /\ [Runs!Next]_(Runs!runVars)
  <2>1. /\ cancelled' = cancelled \ {r}
        /\ current' = IF r = current THEN NoRun ELSE current
    BY <1>4 DEF Done
  <2>2. kind'[r] = "none" /\ \A q \in Run \ {r} : kind'[q] = kind[q]
    BY <1>1, <1>4 DEF Done
  <2>3. Marked'
    BY <1>1, <2>1, <2>2 DEF Marked, Pending
  <2>4. Runs!Finish(r)
    BY <1>4, <2>1 DEF Runs!Finish, Runs!Superseded
  <2>5. QED
    BY <2>3, <2>4 DEF Runs!Next
<1>5. CASE Stays
  <2>1. Marked'
    BY <1>5 DEF Stays, Marked, Pending
  <2>2. UNCHANGED Runs!runVars
    BY <1>5 DEF Stays, Runs!runVars
  <2>3. QED
    BY <2>1, <2>2
<1>6. QED
  BY <1>2, <1>3, <1>4, <1>5, RunCases

\* The run at work supersedes the one before, which stays superseded until its
\* task has returned: the service implements ExclusiveRun.
THEOREM RunsExclude == Spec => RunsAreExclusive
<1>1. Init => Runs!Init /\ Marked
  BY DEF Init, Runs!Init, Marked, Pending
<1>2. Sound /\ Marked /\ [Next]_vars => Marked' /\ [Runs!Next]_(Runs!runVars)
  BY StepRuns
<1>3. Marked => \A r \in Run : Pending(r) => r \in Runs!Superseded
  BY SequenceAssumption DEF Marked, Runs!Superseded
<1>4. QED
  BY <1>1, <1>2, <1>3, SoundHolds, PTL DEF Spec, RunsAreExclusive, Runs!Spec

-----------------------------------------------------------------------------
(* What a run has switched on                                              *)

LEMMA NothingLeftOnStep ==
  ASSUME Sound, NothingLeftOn, [Next]_vars
  PROVE  NothingLeftOn'
<1>1. kind \in [Run -> Kinds \cup {"none"}] /\ "none" \notin Kinds /\ "dilution" \in Kinds
  BY DEF Sound, TypeOK, Kinds
<1>2. ASSUME NEW r \in Run, NEW k \in Kinds, Begins(r, k)
      PROVE  NothingLeftOn'
  <2>1. kind'[r] = k /\ \A q \in Run \ {r} : kind'[q] = kind[q]
    BY <1>1, <1>2 DEF Begins
  <2>2. kind[r] = "none"
    BY <1>2 DEF Begins, Pending
  <2>3. pump' => \E q \in Run : kind'[q] = "dilution"
    BY <1>2, <2>1, <2>2 DEF Begins, NothingLeftOn
  <2>4. Pending(r)'
    BY <1>1, <2>1 DEF Pending
  <2>5. QED
    BY <2>3, <2>4 DEF NothingLeftOn
<1>3. CASE StopCallback
  BY <1>3 DEF StopCallback, NothingLeftOn, Pending
<1>4. ASSUME NEW r \in Run, Done(r)
      PROVE  NothingLeftOn'
  <2>1. \A q \in Run \ {r} : kind'[q] = kind[q]
    BY <1>1, <1>4 DEF Done
  <2>2. busy' = FALSE /\ pump' = (pump /\ kind[r] # "dilution")
    BY <1>4 DEF Done
  <2>3. pump' => \E q \in Run : kind'[q] = "dilution"
    BY <2>1, <2>2 DEF NothingLeftOn
  <2>4. QED
    BY <2>2, <2>3 DEF NothingLeftOn
<1>5. CASE Stays
  BY <1>5 DEF Stays, NothingLeftOn, Pending
<1>6. QED
  BY <1>2, <1>3, <1>4, <1>5, RunCases

\* Busy and pump 6 are on only as long as a run that has set them is in progress:
\* also a superseded run cleans up, and no sooner than its task returns.
THEOREM NothingStaysOn == Spec => []NothingLeftOn
<1>1. Init => NothingLeftOn
  BY DEF Init, NothingLeftOn
<1>2. QED
  BY <1>1, NothingLeftOnStep, SoundHolds, PTL DEF Spec

-----------------------------------------------------------------------------
(* The needle and the ports                                                *)

Clear  == \A v \in Vessel : Into(v) \notin needle
Lifted == needle = {"lift"} \/ strayed
Idle   == sent = <<>> /\ program.ops = <<>>
Rest   == IF sent # <<>> THEN sent ELSE program.ops

\* Whoever listens to them: what the programs that are left may do.
ProgramInv ==
  /\ program.stage # "waits" => Crosses(program.ops) \/ Head(program.ops) \in needle
  /\ published => Clear /\ Outside(program.ops) /\ Outside(sent)
  /\ \A v \in Vessel :
       Into(v) \in needle \/ Enters(program.ops, v) \/ Enters(sent, v) => v \in open \/ upset
  /\ Outside(sent) \/ program.ops = <<>>
  /\ Crosses(program.ops) \/ Crosses(sent) => Lifted

\* A port is closed, and some program after that begins with X.
Crossing(t) ==
  t[1].do = "close" /\ \E j \in 1..Len(t) : j > 1 /\ Crosses(t[j].ops)

\* What holds while the current run waits for its step, and once it is answered.
StepInv ==
  todo # <<>> =>
    LET s == todo[1]
    IN /\ s.do = "open" => Idle /\ needle = {"down"} /\ ~published
       /\ s.do = "close" => Clear /\ Outside(program.ops) /\ Outside(sent)
       /\ Crossing(todo) => Lifted
       /\ s.do \in {"open", "close"} /\ answer = "none" => command[s.vessel] = s.do
       /\ s.do = "open" /\ answer = "ok" => s.vessel \in open
       /\ s.ops # <<>> /\ answer = "none"
          => Rest # <<>> /\ \A o : Ends(Rest, o) <=> Ends(s.ops, o)
       /\ s.ops # <<>> /\ answer = "ok"
          => /\ Idle
             /\ \A o \in Op \ {"x"} : Ends(s.ops, o) => needle = {o}
             /\ Ends(s.ops, "down") => ~published
       /\ Ends(s.ops, "x") /\ Len(todo) > 1
          => /\ program.ops \in Homing /\ sent \in Homing
             /\ answer = "ok" \/ Rest = <<"x">> => Clear

\* When the first of these steps may be called.
Ready(t, init) ==
  LET s == t[1]
  IN /\ s.do = "open" => Idle /\ needle = {"down"} /\ ~published
     /\ s.do = "close" => Clear /\ Outside(program.ops) /\ Outside(sent)
     /\ Crossing(t) => Lifted
     /\ \A v \in Vessel : Enters(s.ops, v) => Idle /\ ~published /\ (v \in open \/ upset)
     /\ s.do = "program" /\ Crosses(s.ops) => Lifted
     /\ Ends(s.ops, "x") /\ Len(t) > 1
        => /\ init \/ (program.ops \in Homing /\ sent \in Homing)
           /\ s.do = "retried" \/ s.ops = <<"lift", "x">>

LEMMA FirstOps ==
  ASSUME NEW ops \in Ops, ops # <<>>
  PROVE  /\ Ends(ops, "x") \/ Ends(ops, "lift") \/ Ends(ops, "down")
         /\ \A o1, o2 : Ends(ops, o1) /\ Ends(ops, o2) => o1 = o2
         /\ ops \in Homing => ops[1] \in {"x", "lift"} /\ Ends(ops, "x")
         /\ (ops \in Homing /\ Tail(ops) = <<>>) => ops = <<"x">>
         /\ ops[1] = "lift" => Outside(ops) /\ ~Crosses(ops) /\ ops # <<"x">>
         /\ (ops \in Homing \/ ops \in Dipping) => Outside(ops)
         /\ ops \in Dipping => ~Ends(ops, "x")
<1>1. Ends(ops, "x") \/ Ends(ops, "lift") \/ Ends(ops, "down")
  BY DEF Ops, Ends
<1>2. \A o1, o2 : Ends(ops, o1) /\ Ends(ops, o2) => o1 = o2
  BY DEF Ends
<1>3. ASSUME ops \in Homing
      PROVE  /\ ops[1] \in {"x", "lift"} /\ Ends(ops, "x")
             /\ Tail(ops) = <<>> => ops = <<"x">>
  <2>1. CASE ops = <<"x">>
    BY <2>1 DEF Ends
  <2>2. CASE ops = <<"lift", "x">>
    <3>1. Len(ops) # 1
      BY <2>2
    <3>2. Tail(ops) # <<>>
      <4>1. Len(ops) = 1 <=> Tail(ops) = <<>>
        BY FirstOp
      <4>2. QED
        BY <3>1, <4>1
    <3>3. QED
      BY <2>2, <3>2 DEF Ends
  <2>3. QED
    BY <1>3, <2>1, <2>2 DEF Homing
<1>4. ops[1] = "lift" => Outside(ops) /\ ~Crosses(ops) /\ ops # <<"x">>
  BY DEF Outside, Enters, Into, Crosses
<1>5. (ops \in Homing \/ ops \in Dipping) => Outside(ops)
  BY DEF Homing, Dipping, Outside, Enters, Into
<1>6. ASSUME ops \in Dipping PROVE ~Ends(ops, "x")
  <2>1. CASE ops = <<"x", "down">>
    BY <2>1 DEF Ends
  <2>2. CASE ops = <<"lift", "x", "down">>
    BY <2>2 DEF Ends
  <2>3. CASE ops = <<"x", "down", "lift">>
    BY <2>3 DEF Ends
  <2>4. CASE ops = <<"lift", "x", "down", "lift">>
    BY <2>4 DEF Ends
  <2>5. QED
    BY <1>6, <2>1, <2>2, <2>3, <2>4 DEF Dipping
<1>7. QED
  BY <1>1, <1>2, <1>3, <1>4, <1>5, <1>6

LEMMA NoOps == Outside(<<>>) /\ ~Crosses(<<>>) /\ <<>> \in Homing /\ \A o : ~Ends(<<>>, o)
  BY DEF Outside, Enters, Crosses, Homing, Ends

\* The step that is begun may be begun.
LEMMA BegunIsReady ==
  ASSUME Sound, ProgramInv, NEW t, Fresh(t), NEW init \in BOOLEAN, Ready(t, init),
         Call(t, init)
  PROVE  LET s == Begun(t)[1]
         IN /\ s.do = "open" => Idle /\ needle = {"down"} /\ ~published
            /\ s.do = "close" => Clear /\ Outside(program.ops) /\ Outside(sent)
            /\ Crossing(Begun(t)) => Lifted'
            /\ \A v \in Vessel : Enters(s.ops, v) => Idle /\ ~published /\ (v \in open \/ upset)
            /\ Crosses(s.ops) => Lifted'
            /\ Ends(s.ops, "x") /\ Len(Begun(t)) > 1
               => /\ init \/ (program.ops \in Homing /\ sent \in Homing)
                  /\ s.ops \in Homing /\ (s.ops = <<"x">> => Clear)
            /\ Lifted => Lifted'
<1> DEFINE u == Begun(t)
           s == u[1]
<1>1. /\ GoodStep(s)
      /\ strayed' = (strayed \/ (Looks(t[1]) /\ published /\ needle # {"lift"}))
      /\ UNCHANGED <<needle, published>>
  BY CallEffect
<1>2. /\ Lifted => Lifted'
      /\ Looks(t[1]) /\ published => Lifted'
  BY <1>1 DEF Lifted
<1>3. /\ Good(u) /\ u # <<>>
      /\ \/ u = t /\ ~(t[1].do = "liftIfDown" /\ published)
            /\ ~(t[1].do \in {"checked", "retried"} /\ ~published)
         \/ Lifting(t[1], u[1]) /\ Crosses(t[1].ops) /\ GoodStep(t[1])
            /\ Len(u) = Len(t)
         \/ u = Tail(t) /\ Len(t) > 1 /\ t[1].do = "liftIfDown" /\ published
            /\ t[2].do = "close" /\ u[1] = t[2]
  BY Beginning
<1>4. ASSUME Ends(s.ops, "x"), Len(u) > 1 PROVE s.ops \in Homing
  BY <1>3, <1>4, GoodTail DEF Follows
<1> HIDE DEF u
<1>5. CASE u = t /\ ~(t[1].do = "liftIfDown" /\ published)
           /\ ~(t[1].do \in {"checked", "retried"} /\ ~published)
  <2>1. Crosses(s.ops) => Lifted'
    <3>1. ASSUME Crosses(s.ops) PROVE s.do \in {"program", "checked", "retried", "liftIfDown"}
      BY <1>1, <3>1 DEF GoodStep, Crosses, Step
    <3>2. ASSUME Crosses(s.ops) PROVE s.do # "liftIfDown"
      BY <1>1, <3>2 DEF GoodStep, Crosses
    <3>3. QED
      BY <1>2, <1>5, <3>1, <3>2 DEF Ready, Looks
  <2>2. ASSUME Ends(s.ops, "x"), Len(u) > 1
        PROVE  /\ init \/ (program.ops \in Homing /\ sent \in Homing)
               /\ s.ops = <<"x">> => Clear
    <3>1. s.do = "retried" => Clear
      BY <1>5 DEF ProgramInv
    <3>2. <<"lift", "x">> # <<"x">>
      OBVIOUS
    <3>3. QED
      BY <1>5, <2>2, <3>1, <3>2 DEF Ready
  <2>3. QED
    BY <1>2, <1>4, <1>5, <2>1, <2>2 DEF Ready, u
<1>6. CASE Lifting(t[1], s) /\ Crosses(t[1].ops) /\ GoodStep(t[1]) /\ Len(u) = Len(t)
  <2>1. /\ s.do = t[1].do /\ s.ops # <<>> /\ s.ops[1] = "lift"
        /\ \A o : Ends(s.ops, o) <=> Ends(t[1].ops, o)
    BY <1>6, LiftFirst
  <2>2. s.do \in {"checked", "retried"}
    BY <1>6, <2>1 DEF Lifting
  <2>3. /\ Outside(s.ops) /\ ~Crosses(s.ops) /\ s.ops # <<"x">>
    BY <1>1, <2>1, FirstOps DEF GoodStep
  <2>4. ~Crossing(u)
    BY <2>2 DEF Crossing
  <2>5. ASSUME Ends(s.ops, "x"), Len(u) > 1
        PROVE  init \/ (program.ops \in Homing /\ sent \in Homing)
    BY <1>6, <2>1, <2>5 DEF Ready
  <2>6. QED
    BY <1>2, <1>4, <2>2, <2>3, <2>4, <2>5 DEF Outside, u
<1>7. CASE /\ Len(t) > 1 /\ t[1].do = "liftIfDown" /\ published
           /\ t[2].do = "close" /\ s = t[2]
  <2>1. s.do = "close" /\ s.ops = <<>> /\ Lifted'
    BY <1>1, <1>2, <1>7 DEF GoodStep, Looks
  <2>2. /\ Clear /\ Outside(program.ops) /\ Outside(sent)
    BY <1>7 DEF ProgramInv
  <2>3. QED
    BY <1>2, <2>1, <2>2, NoOps DEF Outside, u
<1>8. QED
  BY <1>3, <1>5, <1>6, <1>7

LEMMA CallSafe ==
  ASSUME Sound, ProgramInv, NEW t, Fresh(t), NEW init \in BOOLEAN, Ready(t, init),
         Call(t, init)
  PROVE  ProgramInv' /\ StepInv'
<1> DEFINE s == Begun(t)[1]
<1>1. /\ todo' = Begun(t) /\ answer' = "none" /\ GoodStep(s)
      /\ sent' = IF s.ops # <<>> \/ init THEN s.ops ELSE sent
      /\ program' = IF init THEN None
                    ELSE IF s.ops # <<>> THEN Arrived ELSE program
      /\ IF s.do \in {"open", "close"} THEN Tell(s.vessel, s.do)
                                       ELSE UNCHANGED portVars
      /\ strayed' = (strayed \/ (Looks(t[1]) /\ published /\ needle # {"lift"}))
      /\ UNCHANGED <<needle, published>>
  BY CallEffect
<1>2. /\ s.do = "open" => Idle /\ needle = {"down"} /\ ~published
      /\ s.do = "close" => Clear /\ Outside(program.ops) /\ Outside(sent)
      /\ Crossing(Begun(t)) => Lifted'
      /\ \A v \in Vessel : Enters(s.ops, v) => Idle /\ ~published /\ (v \in open \/ upset)
      /\ Crosses(s.ops) => Lifted'
      /\ Ends(s.ops, "x") /\ Len(Begun(t)) > 1
         => /\ init \/ (program.ops \in Homing /\ sent \in Homing)
            /\ s.ops \in Homing /\ (s.ops = <<"x">> => Clear)
      /\ Lifted => Lifted'
  BY BegunIsReady
<1> HIDE DEF s
<1>3. s.do \in {"open", "close"} => s.ops = <<>> /\ s.vessel \in Vessel
  BY <1>1 DEF GoodStep
<1>4. None.ops = <<>> /\ None.stage = "waits"
  BY DEF None
\* The programs: the one that was left, the one on its way, or the new one.
<1>5. \/ program' = program
      \/ program'.ops = <<>> /\ program'.stage = "waits"
      \/ program'.ops = sent /\ program'.stage = "waits"
  BY <1>1, <1>4 DEF Arrived
<1>6. sent' = s.ops \/ (sent' = sent /\ s.ops = <<>> /\ ~init)
  BY <1>1
<1>7. ProgramInv'
  <2>1. /\ program'.stage # "waits"
           => Crosses(program'.ops) \/ Head(program'.ops) \in needle'
    BY <1>1, <1>5 DEF ProgramInv
  <2>2. published' => Clear' /\ Outside(program'.ops) /\ Outside(sent')
    <3>1. published => Outside(s.ops)
      BY <1>2 DEF Outside
    <3>2. published' = published /\ (Clear => Clear')
      BY <1>1 DEF Clear
    <3>3. QED
      BY <1>5, <1>6, <3>1, <3>2, NoOps DEF ProgramInv
  <2>3. ASSUME NEW v \in Vessel,
               Into(v) \in needle' \/ Enters(program'.ops, v) \/ Enters(sent', v)
        PROVE  v \in open' \/ upset'
    <3>1. v \in open \/ upset
      BY <1>1, <1>2, <1>5, <1>6, <2>3, NoOps DEF ProgramInv, Outside
    <3>2. CASE s.do \in {"open", "close"}
      <4>1. Clear /\ Outside(program.ops) /\ Outside(sent)
        BY <1>2, <3>2, NoOps DEF Clear, Idle, Into
      <4>2. FALSE
        BY <1>1, <1>3, <1>5, <1>6, <2>3, <3>2, <4>1, NoOps DEF Clear, Outside
      <4>3. QED
        BY <4>2
    <3>3. CASE s.do \notin {"open", "close"}
      BY <1>1, <3>1, <3>3 DEF portVars
    <3>4. QED
      BY <3>2, <3>3
  <2>4. Outside(sent') \/ program'.ops = <<>>
    <3>1. CASE Outside(s.ops) /\ s.ops # <<>>
      BY <1>6, <3>1
    <3>2. CASE s.ops = <<>>
      <4>1. CASE init
        BY <1>1, <1>4, <4>1
      <4>2. CASE ~init
        BY <1>1, <3>2, <4>2 DEF ProgramInv
      <4>3. QED
        BY <4>1, <4>2
    <3>3. CASE ~Outside(s.ops)
      <4>1. Idle
        BY <1>2, <3>3 DEF Outside
      <4>2. QED
        BY <1>5, <4>1 DEF Idle
    <3>4. QED
      BY <3>1, <3>2, <3>3
  <2>5. Crosses(program'.ops) \/ Crosses(sent') => Lifted'
    BY <1>2, <1>5, <1>6, NoOps DEF ProgramInv
  <2>6. QED
    BY <2>1, <2>2, <2>3, <2>4, <2>5 DEF ProgramInv
<1>8. StepInv'
  <2>1. todo'[1] = s /\ answer' = "none"
    BY <1>1 DEF s
  <2>2. s.do = "open" => Idle' /\ needle' = {"down"} /\ ~published'
    <3>1. ASSUME s.do = "open" PROVE Idle'
      BY <1>2, <1>3, <1>5, <1>6, <3>1 DEF Idle
    <3>2. QED
      BY <1>1, <1>2, <3>1
  <2>3. s.do = "close" => Clear' /\ Outside(program'.ops) /\ Outside(sent')
    BY <1>1, <1>2, <1>3, <1>5, <1>6, NoOps DEF Clear
  <2>4. Crossing(todo') => Lifted'
    BY <1>1, <1>2
  <2>5. s.do \in {"open", "close"} => command'[s.vessel] = s.do
    BY <1>1, <1>3 DEF Tell, Sound, TypeOK
  <2>6. s.ops # <<>> => Rest' # <<>> /\ \A o : Ends(Rest', o) <=> Ends(s.ops, o)
    BY <1>1 DEF Rest
  <2>7. ASSUME Ends(s.ops, "x"), Len(todo') > 1
        PROVE  /\ program'.ops \in Homing /\ sent' \in Homing
               /\ Rest' = <<"x">> => Clear'
    <3>1. /\ init \/ (program.ops \in Homing /\ sent \in Homing)
          /\ s.ops \in Homing /\ (s.ops = <<"x">> => Clear) /\ s.ops # <<>>
      BY <1>1, <1>2, <2>7, NoOps
    <3>2. sent' = s.ops /\ Rest' = s.ops
      BY <1>1, <3>1 DEF Rest
    <3>3. program'.ops \in Homing
      BY <1>1, <1>4, <1>5, <3>1, NoOps
    <3>4. QED
      BY <1>1, <3>1, <3>2, <3>3 DEF Clear
  <2>8. QED
    BY <2>1, <2>2, <2>3, <2>4, <2>5, <2>6, <2>7 DEF StepInv
<1>9. QED
  BY <1>7, <1>8

\* The programs and the ports stay as they are, and the run has ended.
LEMMA EndedSafe ==
  ASSUME ProgramInv, UNCHANGED <<axisVars, portVars>>, todo' = <<>>
  PROVE  ProgramInv' /\ StepInv'
  BY DEF ProgramInv, StepInv, Clear, Lifted, axisVars, portVars

LEMMA DoneSafe ==
  ASSUME ProgramInv, StepInv, NEW r \in Run, Done(r)
  PROVE  ProgramInv' /\ StepInv'
<1>1. UNCHANGED <<axisVars, portVars>>
  BY DEF Done
<1>2. CASE r = current
  BY <1>1, <1>2, EndedSafe DEF Done
<1>3. CASE r # current
  <2>1. UNCHANGED <<todo, answer>>
    BY <1>3 DEF Done
  <2>2. ProgramInv'
    BY <1>1 DEF ProgramInv, Clear, Lifted, axisVars, portVars
  <2>3. StepInv'
    BY <1>1, <2>1 DEF StepInv, Clear, Lifted, Idle, Rest, Crossing, axisVars, portVars
  <2>4. QED
    BY <2>2, <2>3
<1>4. QED
  BY <1>2, <1>3

LEMMA RunsSafe ==
  ASSUME Sound, ProgramInv, NEW r \in Run, NEW k \in Kind,
         RunCallback(r, k) \/ RunFails(r, k)
  PROVE  ProgramInv' /\ StepInv'
<1>1. CASE RunCallback(r, k)
  <2>1. k \in Kinds
    BY SequenceAssumption
  <2> DEFINE t == Sequence(k)
  <2>2. Fresh(t) /\ t[1].do \in {"checked", "retried", "liftIfDown", "fill"}
        /\ (t[1].do = "retried" => k \in {"allhold", "axishold"})
    BY <2>1, FreshSequences DEF Starting
  <2>3. PICK init \in BOOLEAN : Call(t, init) /\ (k \in {"allhold", "axishold"} => init)
    BY <1>1 DEF RunCallback
  <2> HIDE DEF t
  <2>4. GoodStep(t[1]) /\ t # <<>>
    BY <2>2, Rests DEF Fresh, Good
  <2>5. Outside(t[1].ops) /\ (Ends(t[1].ops, "x") => t[1].do = "retried")
    <3>1. CASE t[1].do \in {"checked", "retried"}
      <4>1. t[1].ops \in Ops /\ t[1].ops # <<>>
            /\ (t[1].ops \in Homing \/ t[1].ops \in Dipping)
        BY <2>4, <3>1 DEF GoodStep
      <4>2. t[1].do = "checked" => ~Ends(t[1].ops, "x")
        BY <2>4, <4>1, FirstOps DEF GoodStep
      <4>3. QED
        BY <3>1, <4>1, <4>2, FirstOps
    <3>2. CASE t[1].do = "liftIfDown"
      <4>1. t[1].ops = <<"lift">>
        BY <2>4, <3>2 DEF GoodStep
      <4>2. ~Ends(<<"lift">>, "x") /\ Outside(<<"lift">>)
        BY DEF Ends, Outside, Enters
      <4>3. QED
        BY <4>1, <4>2
    <3>3. CASE t[1].do = "fill"
      BY <2>4, <3>3, NoOps DEF GoodStep
    <3>4. QED
      BY <2>2, <3>1, <3>2, <3>3
  <2>6. ~Crossing(t)
    BY <2>2 DEF Crossing
  <2>7. Ready(t, init)
    BY <2>2, <2>3, <2>5, <2>6 DEF Ready, Outside
  <2>8. QED
    BY <2>2, <2>3, <2>7, CallSafe
<1>2. CASE RunFails(r, k)
  <2>1. todo' = <<>> /\ UNCHANGED <<needle, published, strayed, portVars>>
    BY <1>2 DEF RunFails
  <2>2. CASE UNCHANGED <<sent, program>>
    BY <2>1, <2>2, EndedSafe DEF axisVars
  <2>3. CASE sent' = <<>> /\ program' = None
    <3>1. sent' = <<>> /\ program'.ops = <<>> /\ program'.stage = "waits"
      BY <2>3 DEF None
    <3>2. ProgramInv'
      BY <2>1, <3>1, NoOps DEF ProgramInv, Clear, Lifted, Outside, portVars
    <3>3. QED
      BY <2>1, <3>2 DEF StepInv
  <2>4. QED
    BY <1>2, <2>2, <2>3 DEF RunFails
<1>3. QED
  BY <1>1, <1>2

LEMMA AnsweredSafe ==
  ASSUME Sound, ProgramInv, StepInv, answer = "ok", Len(todo) > 1,
         Call(Tail(todo), FALSE)
  PROVE  ProgramInv' /\ StepInv'
<1> DEFINE a == todo[1]
           b == todo[2]
           t == Tail(todo)
<1>1. /\ Good(todo) /\ todo # <<>> /\ todo \in Seq(Step) /\ Len(todo) \in Nat
  BY DEF Sound, Good
<1>2. /\ Fresh(t) /\ t[1] = b /\ Follows(a, b) /\ GoodStep(a) /\ GoodStep(b)
      /\ (Len(todo) > 2 => ~Ends(b.ops, "x")) /\ Prepares(todo, 2)
  BY <1>1, GoodTail
<1>3. /\ Len(t) = Len(todo) - 1
      /\ \A i \in 1..Len(t) : t[i] = todo[i + 1]
  BY <1>1, Rests
<1>4. /\ a.do = "open" => Idle /\ needle = {"down"} /\ ~published /\ a.vessel \in open
      /\ a.do = "close" => Clear /\ Outside(program.ops) /\ Outside(sent)
      /\ Crossing(todo) => Lifted
      /\ a.ops # <<>>
          => /\ Idle
             /\ \A o \in Op \ {"x"} : Ends(a.ops, o) => needle = {o}
             /\ Ends(a.ops, "down") => ~published
      /\ Ends(a.ops, "x") => Clear
  BY <1>1 DEF StepInv
<1>5. /\ Ends(a.ops, "lift") => needle = {"lift"}
      /\ Ends(a.ops, "down") => needle = {"down"}
      /\ \A o : Ends(a.ops, o) => a.ops # <<>>
  BY <1>4 DEF Op, Place, Ends
<1> HIDE DEF a, b, t
<1>6. b.do = "open" => Idle /\ needle = {"down"} /\ ~published
  BY <1>2, <1>4, <1>5 DEF Follows
<1>7. ASSUME b.do = "close" PROVE Clear /\ Outside(program.ops) /\ Outside(sent)
  <2>1. CASE a.do = "close"
    BY <1>4, <2>1
  <2>2. CASE a.ops # <<>>
    <3>1. Idle /\ Outside(program.ops) /\ Outside(sent)
      BY <1>4, <2>2, NoOps DEF Idle
    <3>2. Ends(a.ops, "x") \/ Ends(a.ops, "lift") \/ Ends(a.ops, "down")
      BY <1>2, <2>2, FirstOps DEF GoodStep
    <3>3. needle = {"lift"} \/ needle = {"down"} => Clear
      BY DEF Clear, Into
    <3>4. QED
      BY <1>4, <1>5, <3>1, <3>2, <3>3
  <2>3. QED
    BY <1>2, <1>7, <2>1, <2>2 DEF Follows
<1>8. ASSUME Crossing(t) PROVE Lifted
  <2>1. PICK j \in 1..Len(t) : j > 1 /\ Crosses(t[j].ops)
    BY <1>8 DEF Crossing
  <2>2. b.do = "close"
    BY <1>2, <1>8 DEF Crossing
  <2>3. j + 1 \in 1..Len(todo) /\ j + 1 > 2 /\ Crosses(todo[j + 1].ops)
    BY <1>1, <1>3, <2>1
  <2>4. CASE a.do = "close"
    <3>1. Crossing(todo)
      BY <2>3, <2>4 DEF Crossing, a
    <3>2. QED
      BY <1>4, <3>1
  <2>5. CASE a.do # "close"
    <3>1. Ends(a.ops, "lift")
      BY <1>2, <2>2, <2>3, <2>5 DEF Prepares, a, b
    <3>2. QED
      BY <1>5, <3>1 DEF Lifted
  <2>6. QED
    BY <2>4, <2>5
<1>9. ASSUME NEW v \in Vessel, Enters(b.ops, v)
      PROVE  Idle /\ ~published /\ (v \in open \/ upset)
  BY <1>2, <1>4, <1>9 DEF Follows
<1>10. ASSUME b.do = "program", Crosses(b.ops) PROVE Lifted
  <2>1. CASE a.do = "close"
    <3>1. Crossing(todo)
      BY <1>1, <1>10, <2>1 DEF Crossing, a, b
    <3>2. QED
      BY <1>4, <3>1
  <2>2. CASE Ends(a.ops, "lift")
    BY <1>5, <2>2 DEF Lifted
  <2>3. QED
    BY <1>2, <1>10, <2>1, <2>2 DEF Follows
<1>11. Len(t) > 1 => ~Ends(b.ops, "x")
  BY <1>1, <1>2, <1>3
<1>12. Ready(t, FALSE)
  BY <1>2, <1>6, <1>7, <1>8, <1>9, <1>10, <1>11 DEF Ready
<1>13. QED
  BY <1>2, <1>12, CallSafe DEF t

LEMMA RetriesSafe ==
  ASSUME Sound, ProgramInv, StepInv, Retries
  PROVE  ProgramInv' /\ StepInv'
<1> DEFINE t == Again(todo)
<1>1. todo # <<>> /\ Good(todo) /\ todo[1].do = "retried" /\ GoodStep(todo[1])
  BY Rests DEF Retries, Sound, Good
<1>2. /\ Fresh(t) /\ Call(t, FALSE) /\ t[1] = Program(<<"lift", "x">>) /\ Len(t) = Len(todo)
  BY <1>1, RetrySteps DEF Retries, Again
<1>3. /\ t[1].do = "program" /\ t[1].ops = <<"lift", "x">>
  BY <1>2, ProgramSteps DEF Ops
<1>4. Ends(todo[1].ops, "x")
  BY <1>1, FirstOps DEF GoodStep
<1>5. Len(todo) > 1 => program.ops \in Homing /\ sent \in Homing
  BY <1>1, <1>4 DEF StepInv
<1>6. ~Crosses(t[1].ops) /\ Outside(t[1].ops)
  BY <1>3 DEF Crosses, Outside, Enters, Into
<1>7. Ready(t, FALSE)
  BY <1>2, <1>3, <1>5, <1>6 DEF Ready, Crossing, Outside
<1>8. QED
  BY <1>2, <1>7, CallSafe

\* What the current run waits for, by the kind of its step.
LEMMA StepKinds ==
  ASSUME Sound, todo # <<>>
  PROVE  /\ GoodStep(todo[1]) /\ Head(todo) = todo[1]
         /\ todo[1].do \in {"program", "checked", "retried", "liftIfDown"}
              <=> todo[1].ops # <<>>
         /\ WaitsForProgram <=> (todo[1].ops # <<>> /\ answer = "none" /\ sent = <<>>)
         /\ \A v \in Vessel : WaitsForPort(v) <=>
              (todo[1].do \in {"open", "close"} /\ answer = "none" /\ todo[1].vessel = v)
<1>1. todo \in Seq(Step) /\ Good(todo) /\ Len(todo) \in Nat \ {0} /\ Head(todo) = todo[1]
  BY Rests DEF Sound, Good
<1>2. GoodStep(todo[1])
  BY <1>1 DEF Good
<1>3. todo[1].do \in {"program", "checked", "retried", "liftIfDown"} <=> todo[1].ops # <<>>
  BY <1>2 DEF GoodStep, Step
<1>4. QED
  BY <1>1, <1>2, <1>3 DEF WaitsForProgram, WaitsForPort, Waits

LEMMA ArrivesSafe ==
  ASSUME Sound, ProgramInv, StepInv, PtprunArrives
  PROVE  ProgramInv' /\ StepInv'
<1>1. /\ sent # <<>> /\ sent' = <<>> /\ program'.ops = sent /\ program'.stage = "waits"
      /\ UNCHANGED <<runVars, answer, needle, published, strayed, portVars>>
  BY DEF PtprunArrives, Arrived
<1>2. ProgramInv'
  BY <1>1, NoOps DEF ProgramInv, Clear, Lifted, Outside, portVars
<1>3. ~Idle /\ Rest' = Rest
  BY <1>1 DEF Idle, Rest
<1>4. StepInv'
  BY <1>1, <1>3, NoOps DEF StepInv, Clear, Lifted, Crossing, runVars, portVars
<1>5. QED
  BY <1>2, <1>4

LEMMA BeginsSafe ==
  ASSUME Sound, ProgramInv, StepInv, OpBegins
  PROVE  ProgramInv' /\ StepInv'
<1> DEFINE o == Head(program.ops)
<1>1. /\ program.ops # <<>> /\ program.stage = "waits"
      /\ program'.ops = program.ops /\ program' = [program EXCEPT !.stage = "drives"]
      /\ IF o = "x" THEN UNCHANGED <<needle, strayed>>
         ELSE needle' = needle \cup {o} /\ strayed' = ~WaitsForProgram
      /\ UNCHANGED <<runVars, answer, sent, published, portVars>>
  BY DEF OpBegins, Sound, TypeOK
<1>2. /\ program.ops \in Ops /\ o = program.ops[1]
      /\ \A v \in Vessel : o = Into(v) <=> Enters(program.ops, v)
      /\ program.ops \in Homing => o \in {"x", "lift"}
  BY <1>1, FirstOp, RestsOfOps, FirstOps DEF Sound
<1> HIDE DEF o
<1>3. ~Idle /\ Rest' = Rest
  BY <1>1 DEF Idle, Rest
<1>4. CASE o = "x"
  <2>1. Crosses(program.ops)
    BY <1>1, <1>2, <1>4 DEF Crosses
  <2>2. ProgramInv'
    BY <1>1, <1>4, <2>1 DEF ProgramInv, Clear, Lifted, portVars
  <2>3. StepInv'
    BY <1>1, <1>3, <1>4 DEF StepInv, Clear, Lifted, Idle, Crossing, runVars, portVars
  <2>4. QED
    BY <2>2, <2>3
<1>5. CASE o # "x"
  <2>1. needle' = needle \cup {o} /\ strayed' = ~WaitsForProgram
    BY <1>1, <1>5
  <2>2. ~Crosses(program.ops)
    BY <1>2, <1>5 DEF Crosses
  <2>3. Clear /\ Outside(program.ops) => Clear'
    BY <1>2, <2>1 DEF Clear, Outside
  <2>4. Crosses(sent) => Lifted'
    BY <2>1, NoOps DEF WaitsForProgram, Lifted
  <2>5. ProgramInv'
    <3>1. o \in needle' /\ o = Head(program'.ops)
      BY <1>1, <2>1 DEF o
    <3>2. published' => Clear' /\ Outside(program'.ops) /\ Outside(sent')
      BY <1>1, <2>3 DEF ProgramInv
    <3>3. \A v \in Vessel :
            Into(v) \in needle' \/ Enters(program'.ops, v) \/ Enters(sent', v)
            => v \in open' \/ upset'
      BY <1>1, <1>2, <2>1 DEF ProgramInv, portVars
    <3>4. Outside(sent') \/ program'.ops = <<>>
      BY <1>1 DEF ProgramInv
    <3>5. QED
      BY <1>1, <2>2, <2>4, <3>1, <3>2, <3>3, <3>4 DEF ProgramInv
  <2>6. ASSUME todo # <<>> PROVE StepInv'
    <3>1. /\ GoodStep(todo[1])
          /\ WaitsForProgram => todo[1].ops # <<>>
      BY <2>6, StepKinds
    <3>2. Crossing(todo) => Lifted'
      BY <2>1, <3>1 DEF Crossing, Lifted, GoodStep
    <3>3. todo[1].do = "close" => Clear'
      BY <2>3, <2>6 DEF StepInv
    <3>4. program.ops \in Homing => Outside(program.ops)
      BY <1>1, <1>2, FirstOps
    <3>5. Ends(todo[1].ops, "x") /\ Len(todo) > 1
          => /\ program.ops \in Homing /\ sent \in Homing
             /\ answer = "ok" \/ Rest = <<"x">> => Clear'
      BY <2>3, <2>6, <3>4 DEF StepInv
    <3>6. QED
      BY <1>1, <1>3, <2>6, <3>2, <3>3, <3>5 DEF StepInv, Crossing, runVars, portVars
  <2>7. StepInv'
    BY <1>1, <2>6 DEF StepInv, runVars
  <2>8. QED
    BY <2>5, <2>7
<1>6. QED
  BY <1>4, <1>5

LEMMA ReadSafe ==
  ASSUME Sound, ProgramInv, StepInv, OpRead
  PROVE  ProgramInv' /\ StepInv'
<1>1. /\ program.ops # <<>> /\ program.ops \in Ops /\ Head(program.ops) \in needle
      /\ program'.ops = program.ops /\ published' = (needle = {"lift"})
      /\ UNCHANGED <<runVars, answer, sent, needle, strayed, portVars>>
  BY FirstOp DEF OpRead, Drives, Sound, TypeOK, ProgramInv, Crosses
<1>2. ~Idle /\ Outside(sent)
  BY <1>1 DEF Idle, ProgramInv
<1>3. ASSUME needle = {"lift"} PROVE Clear /\ Outside(program.ops)
  <2>1. program.ops[1] = "lift"
    BY <1>1, <1>3, FirstOp
  <2>2. QED
    BY <1>1, <1>3, <2>1, FirstOps DEF Clear, Into
<1>4. ProgramInv'
  BY <1>1, <1>2, <1>3 DEF ProgramInv, Clear, Lifted, portVars
<1>5. Rest' = Rest /\ ~Idle'
  BY <1>1, <1>2 DEF Rest, Idle
<1>6. StepInv'
  BY <1>1, <1>2, <1>5 DEF StepInv, Clear, Lifted, Crossing, runVars, portVars
<1>7. QED
  BY <1>4, <1>6

LEMMA EndsSafe ==
  ASSUME Sound, ProgramInv, StepInv, OpEnds
  PROVE  ProgramInv' /\ StepInv'
<1> DEFINE o == Head(program.ops)
           tail == Tail(program.ops)
<1>1. /\ program.ops # <<>> /\ program.stage # "waits"
      /\ program'.ops = tail /\ program'.stage = "waits"
      /\ IF o = "x" THEN UNCHANGED <<needle, published>>
         ELSE needle' = {o} /\ published' = (o = "lift")
      /\ Reply(WaitsForProgram /\ Len(program.ops) = 1, "ok")
      /\ UNCHANGED <<runVars, sent, strayed, portVars>>
  BY DEF OpEnds, Drives, Sound
<1>2. /\ program.ops \in Ops /\ o = program.ops[1]
      /\ \A v \in Vessel : o = Into(v) <=> Enters(program.ops, v)
      /\ Len(program.ops) = 1 <=> tail = <<>>
      /\ \A p : tail # <<>> => (Ends(tail, p) <=> Ends(program.ops, p))
      /\ Len(program.ops) = 1 => Ends(program.ops, o)
      /\ Outside(tail) /\ (Crosses(tail) => o = "lift")
      /\ program.ops \in Homing => /\ tail \in Homing /\ o \in {"x", "lift"}
                                   /\ tail = <<>> => program.ops = <<"x">>
      /\ tail = <<"x">> => o = "lift"
      /\ \A p1, p2 : Ends(program.ops, p1) /\ Ends(program.ops, p2) => p1 = p2
  <2>1. program.ops \in Ops
    BY DEF Sound
  <2>2. /\ o = program.ops[1] /\ (Len(program.ops) = 1 <=> tail = <<>>)
        /\ \A p : tail # <<>> => (Ends(tail, p) <=> Ends(program.ops, p))
        /\ Len(program.ops) = 1 => Ends(program.ops, o)
    BY <1>1, <2>1, FirstOp DEF Ends
  <2>3. /\ \A v \in Vessel : program.ops[1] = Into(v) <=> Enters(program.ops, v)
        /\ Outside(tail) /\ (Crosses(tail) => program.ops[1] = "lift")
        /\ program.ops \in Homing => tail \in Homing
        /\ tail = <<"x">> => program.ops[1] = "lift"
    BY <1>1, <2>1, RestsOfOps
  <2>4. /\ program.ops \in Homing => /\ program.ops[1] \in {"x", "lift"}
                                     /\ tail = <<>> => program.ops = <<"x">>
        /\ \A p1, p2 : Ends(program.ops, p1) /\ Ends(program.ops, p2) => p1 = p2
    BY <1>1, <2>1, FirstOps
  <2> HIDE DEF o, tail
  <2>5. QED
    BY <2>1, <2>2, <2>3, <2>4
<1>3. /\ ~Idle /\ Outside(sent)
      /\ o = "x" \/ o \in needle
      /\ published => Clear /\ Outside(program.ops)
  BY <1>1, <1>2 DEF Idle, ProgramInv, Crosses
<1> HIDE DEF o, tail
<1>4. Lifted => Lifted'
  BY <1>1, <1>3 DEF Lifted
<1>5. (Clear /\ Outside(program.ops)) \/ (Clear /\ program.ops \in Homing) => Clear'
  <2>1. program.ops \in Homing => Outside(program.ops)
    BY <1>1, <1>2, FirstOps
  <2>2. QED
    BY <1>1, <1>2, <2>1 DEF Clear, Outside
<1>6. o = "lift" => Clear' /\ Lifted'
  BY <1>1 DEF Clear, Lifted, Into
<1>7. ProgramInv'
  <2>1. published' => Clear' /\ Outside(program'.ops) /\ Outside(sent')
    BY <1>1, <1>2, <1>3, <1>5, <1>6
  <2>2. \A v \in Vessel :
          Into(v) \in needle' \/ Enters(program'.ops, v) \/ Enters(sent', v)
          => v \in open' \/ upset'
    BY <1>1, <1>2, <1>3 DEF ProgramInv, portVars, Outside
  <2>3. Crosses(program'.ops) \/ Crosses(sent') => Lifted'
    BY <1>1, <1>2, <1>4, <1>6 DEF ProgramInv
  <2>4. QED
    BY <1>1, <1>3, <2>1, <2>2, <2>3 DEF ProgramInv
<1>8. ASSUME todo # <<>> PROVE StepInv'
  <2> DEFINE s == todo[1]
  <2>1. /\ GoodStep(s) /\ (WaitsForProgram <=> (s.ops # <<>> /\ answer = "none" /\ sent = <<>>))
    BY <1>8, StepKinds
  <2>2. /\ s.do = "open" => Idle
        /\ s.do = "close" => Clear /\ Outside(program.ops) /\ Outside(sent)
        /\ Crossing(todo) => Lifted
        /\ s.do \in {"open", "close"} /\ answer = "none" => command[s.vessel] = s.do
        /\ s.ops # <<>> /\ answer = "none"
           => Rest # <<>> /\ \A p : Ends(Rest, p) <=> Ends(s.ops, p)
        /\ s.ops # <<>> /\ answer = "ok" => Idle
        /\ Ends(s.ops, "x") /\ Len(todo) > 1
           => /\ program.ops \in Homing /\ sent \in Homing
              /\ answer = "ok" \/ Rest = <<"x">> => Clear
    BY <1>8 DEF StepInv
  <2>3. todo' = todo /\ sent' = sent /\ command' = command /\ open' = open
    BY <1>1 DEF runVars, portVars
  <2> HIDE DEF s
  <2>4. s.do # "open" /\ ~(s.ops # <<>> /\ answer = "ok")
    BY <1>3, <2>2
  <2>5. s.do = "close" => Clear' /\ Outside(program'.ops) /\ Outside(sent')
    BY <1>1, <1>2, <1>5, <2>2, <2>3
  <2>6. Crossing(todo') => Lifted'
    BY <1>4, <2>2, <2>3 DEF Crossing
  <2>7. s.do \in {"open", "close"} /\ answer' = "none" => command'[s.vessel] = s.do
    BY <1>1, <2>2, <2>3 DEF Reply
  <2>8. ASSUME s.ops # <<>>, answer' = "none"
        PROVE  Rest' # <<>> /\ \A p : Ends(Rest', p) <=> Ends(s.ops, p)
    <3>1. answer = "none" /\ ~(WaitsForProgram /\ Len(program.ops) = 1)
      BY <1>1, <2>8 DEF Reply
    <3>2. CASE sent # <<>>
      BY <2>2, <2>3, <2>8, <3>1, <3>2 DEF Rest
    <3>3. CASE sent = <<>>
      <4>1. Rest = program.ops /\ Rest' = tail /\ tail # <<>>
        BY <1>1, <1>2, <2>1, <2>3, <2>8, <3>1, <3>3 DEF Rest
      <4>2. QED
        BY <1>2, <2>2, <2>8, <3>1, <4>1
    <3>4. QED
      BY <3>2, <3>3
  <2>9. ASSUME s.ops # <<>>, answer' = "ok"
        PROVE  /\ sent = <<>> /\ tail = <<>> /\ answer = "none"
               /\ Rest = program.ops /\ Ends(s.ops, o)
               /\ \A p : Ends(s.ops, p) => p = o
    <3>1. WaitsForProgram /\ Len(program.ops) = 1
      BY <1>1, <2>4, <2>9 DEF Reply
    <3>2. sent = <<>> /\ answer = "none" /\ Rest = program.ops /\ tail = <<>>
      BY <1>2, <2>1, <3>1 DEF Rest
    <3>3. \A p : Ends(program.ops, p) <=> Ends(s.ops, p)
      BY <2>2, <2>9, <3>2
    <3>4. QED
      BY <1>2, <3>1, <3>2, <3>3
  <2>10. s.ops # <<>> /\ answer' = "ok"
         => /\ Idle'
            /\ \A p \in Op \ {"x"} : Ends(s.ops, p) => needle' = {p}
            /\ Ends(s.ops, "down") => ~published'
    BY <1>1, <2>3, <2>9 DEF Idle
  <2>11. ASSUME Ends(s.ops, "x"), Len(todo) > 1
         PROVE  /\ program'.ops \in Homing /\ sent' \in Homing
                /\ answer' = "ok" \/ Rest' = <<"x">> => Clear'
    <3>1. s.ops # <<>>
      BY <2>11 DEF Ends
    <3>2. /\ program.ops \in Homing /\ sent \in Homing /\ tail \in Homing
          /\ Rest = <<"x">> => Clear'
      BY <1>2, <1>5, <2>2, <2>11
    <3>3. answer' = "ok" => Clear'
      BY <1>2, <2>9, <3>1, <3>2
    <3>4. Rest' = <<"x">> => Clear'
      <4>1. CASE sent # <<>>
        BY <2>3, <3>2, <4>1 DEF Rest
      <4>2. CASE sent = <<>>
        BY <1>1, <1>2, <1>6, <2>3, <4>2 DEF Rest
      <4>3. QED
        BY <4>1, <4>2
    <3>5. QED
      BY <1>1, <2>3, <3>2, <3>3, <3>4
  <2>12. QED
    BY <2>3, <2>4, <2>5, <2>6, <2>7, <2>8, <2>10, <2>11 DEF StepInv, s
<1>9. todo = <<>> => StepInv'
  BY <1>1 DEF StepInv, runVars
<1>10. QED
  BY <1>7, <1>8, <1>9

LEMMA FailsSafe ==
  ASSUME Sound, ProgramInv, StepInv, ProgramFails \/ ProgramTimesOut
  PROVE  ProgramInv' /\ StepInv'
<1>1. CASE ProgramFails
  <2>1. /\ program.ops # <<>> /\ program'.ops = <<>> /\ program'.stage = "waits"
        /\ Reply(WaitsForProgram, "error")
        /\ UNCHANGED <<runVars, sent, needle, published, strayed, portVars>>
    BY <1>1 DEF ProgramFails, None
  <2>2. ProgramInv'
    BY <2>1, NoOps DEF ProgramInv, Clear, Lifted, Outside, portVars
  <2>3. ~Idle
    BY <2>1 DEF Idle
  <2>4. ASSUME todo # <<>> PROVE StepInv'
    <3>1. WaitsForProgram <=> (todo[1].ops # <<>> /\ answer = "none" /\ sent = <<>>)
      BY <2>4, StepKinds
    <3>2. answer' = (IF WaitsForProgram THEN "error" ELSE answer)
      BY <2>1 DEF Reply
    <3>3. ASSUME todo[1].ops # <<>>, answer' = "none"
          PROVE  sent # <<>> /\ Rest' = Rest /\ answer = "none"
      BY <2>1, <3>1, <3>2, <3>3 DEF Rest
    <3>4. answer' \in {"none", "ok"} => answer' = answer
      BY <3>2
    <3>5. Rest' = <<"x">> => Rest = <<"x">>
      BY <2>1 DEF Rest
    <3>6. todo' = todo /\ command' = command /\ open' = open /\ strayed' = strayed
          /\ needle' = needle /\ published' = published /\ sent' = sent
      BY <2>1 DEF runVars, portVars
    <3>7. (Clear' <=> Clear) /\ (Lifted' <=> Lifted) /\ (Crossing(todo') <=> Crossing(todo))
      BY <3>6 DEF Clear, Lifted, Crossing
    <3>8. QED
      BY <2>1, <2>3, <2>4, <3>3, <3>4, <3>5, <3>6, <3>7, NoOps DEF StepInv
  <2>5. QED
    BY <2>1, <2>2, <2>4 DEF StepInv, runVars
<1>2. CASE ProgramTimesOut
  <2>1. answer' = "error" /\ UNCHANGED <<runVars, axisVars, portVars>>
    BY <1>2 DEF ProgramTimesOut
  <2>2. ProgramInv'
    BY <2>1 DEF ProgramInv, Clear, Lifted, axisVars, portVars
  <2>3. StepInv'
    BY <2>1 DEF StepInv, Clear, Lifted, Idle, Rest, Crossing, runVars, axisVars, portVars
  <2>4. QED
    BY <2>2, <2>3
<1>3. QED
  BY <1>1, <1>2

LEMMA PortSafe ==
  ASSUME Sound, ProgramInv, StepInv, NEW v \in Vessel, PortEnds(v)
  PROVE  ProgramInv' /\ StepInv'
<1>1. /\ command' = [command EXCEPT ![v] = "none"]
      /\ open' = open \/ open' = open \cup {v}
      /\ (command[v] = "open" /\ WaitsForPort(v) /\ answer' = "ok") => open' = open \cup {v}
      /\ answer' = answer \/ (WaitsForPort(v) /\ answer' \in {"ok", "error"})
      /\ WaitsForPort(v) => answer' \in {"ok", "error"}
      /\ UNCHANGED <<runVars, axisVars, upset>>
  BY DEF PortEnds, Reply
<1>2. ProgramInv'
  BY <1>1 DEF ProgramInv, Clear, Lifted, axisVars
<1>3. ASSUME todo # <<>> PROVE StepInv'
  <2>1. /\ GoodStep(todo[1])
        /\ WaitsForPort(v) <=>
             (todo[1].do \in {"open", "close"} /\ answer = "none" /\ todo[1].vessel = v)
    BY <1>3, StepKinds
  <2>2. todo' = todo /\ needle' = needle /\ published' = published /\ sent' = sent
        /\ program' = program /\ strayed' = strayed
    BY <1>1 DEF runVars, axisVars
  <2>3. /\ (Clear' <=> Clear) /\ (Lifted' <=> Lifted) /\ (Crossing(todo') <=> Crossing(todo))
        /\ (Idle' <=> Idle) /\ Rest' = Rest
    BY <2>2 DEF Clear, Lifted, Crossing, Idle, Rest
  <2>4. ASSUME todo[1].do \in {"open", "close"}, answer' = "none"
        PROVE  command'[todo[1].vessel] = todo[1].do
    <3>1. answer = "none" /\ todo[1].vessel # v /\ todo[1].vessel \in Vessel
      BY <1>1, <2>1, <2>4 DEF GoodStep
    <3>2. QED
      BY <1>1, <1>3, <2>4, <3>1 DEF StepInv, Sound, TypeOK
  <2>5. ASSUME todo[1].do = "open", answer' = "ok" PROVE todo[1].vessel \in open'
    <3>1. CASE answer = "ok"
      BY <1>1, <1>3, <2>5, <3>1 DEF StepInv
    <3>2. CASE answer # "ok"
      <4>1. WaitsForPort(v) /\ todo[1].vessel = v /\ answer = "none"
        BY <1>1, <2>1, <2>5, <3>2
      <4>2. command[v] = "open"
        BY <1>3, <2>5, <4>1 DEF StepInv
      <4>3. QED
        BY <1>1, <2>5, <4>1, <4>2
    <3>3. QED
      BY <3>1, <3>2
  <2>6. todo[1].ops # <<>> => answer' = answer
    BY <1>1, <2>1 DEF GoodStep
  <2>7. Ends(todo[1].ops, "x") => todo[1].ops # <<>>
    BY DEF Ends
  <2>8. QED
    BY <1>3, <2>2, <2>3, <2>4, <2>5, <2>6, <2>7 DEF StepInv
<1>4. QED
  BY <1>1, <1>2, <1>3 DEF StepInv, runVars

LEMMA TimerSafe ==
  ASSUME Sound, ProgramInv, StepInv, TimerEnds
  PROVE  ProgramInv' /\ StepInv'
<1>1. /\ todo # <<>> /\ todo[1].do \in {"fill", "wait"} /\ GoodStep(todo[1])
      /\ UNCHANGED <<runVars, axisVars, portVars>>
  BY StepKinds DEF TimerEnds, Waits
<1>2. ProgramInv'
  BY <1>1 DEF ProgramInv, Clear, Lifted, axisVars, portVars
<1>3. todo' = todo /\ todo[1].ops = <<>> /\ ~Crossing(todo)
  BY <1>1 DEF runVars, GoodStep, Crossing
<1>4. StepInv'
  BY <1>1, <1>3, NoOps DEF StepInv, Crossing
<1>5. QED
  BY <1>2, <1>4

LEMMA SafeStep ==
  ASSUME Sound, ProgramInv, StepInv, [Next]_vars
  PROVE  ProgramInv' /\ StepInv'
<1>1. ASSUME NEW r \in Run, NEW k \in Kind, RunCallback(r, k) \/ RunFails(r, k)
      PROVE  ProgramInv' /\ StepInv'
  BY <1>1, RunsSafe
<1>2. ASSUME NEW r \in Run, CancelledReturns(r)
      PROVE  ProgramInv' /\ StepInv'
  BY <1>2, DoneSafe DEF CancelledReturns
<1>3. CASE StopCallback
  BY <1>3, EndedSafe DEF StopCallback
<1>4. CASE Callback
  <2>1. current \in Run
    BY <1>4 DEF Callback, Sound, TypeOK
  <2>2. CASE Done(current)
    BY <2>1, <2>2, DoneSafe
  <2>3. CASE answer = "ok" /\ Len(todo) > 1 /\ Call(Tail(todo), FALSE)
    BY <2>3, AnsweredSafe
  <2>4. CASE Retries
    BY <2>4, RetriesSafe
  <2>5. QED
    BY <1>4, <2>2, <2>3, <2>4 DEF Callback, Returned, Answered, Fails
<1>5. CASE PtprunArrives
  BY <1>5, ArrivesSafe
<1>6. CASE AxisStep \/ ProgramTimesOut
  BY <1>6, BeginsSafe, ReadSafe, EndsSafe, FailsSafe DEF AxisStep
<1>7. ASSUME NEW v \in Vessel, PortEnds(v)
      PROVE  ProgramInv' /\ StepInv'
  BY <1>7, PortSafe
<1>8. CASE TimerEnds
  BY <1>8, TimerSafe
<1>9. CASE UNCHANGED vars
  <2>1. UNCHANGED <<todo, answer, axisVars, portVars>>
    BY <1>9 DEF vars, runVars
  <2>2. QED
    BY <2>1 DEF ProgramInv, StepInv, Clear, Lifted, Idle, Rest, Crossing, axisVars, portVars
<1>10. QED
  BY <1>1, <1>2, <1>3, <1>4, <1>5, <1>6, <1>7, <1>8, <1>9 DEF Next

LEMMA SafeHolds == Spec => [](Sound /\ ProgramInv /\ StepInv)
<1>1. Init => ProgramInv /\ StepInv
  <2>1. ASSUME Init PROVE ProgramInv /\ StepInv
    <3>1. /\ program.ops = <<>> /\ program.stage = "waits" /\ sent = <<>> /\ todo = <<>>
          /\ needle = {"lift"} \/ needle = {"down"}
      BY <2>1 DEF Init, None
    <3>2. Clear
      BY <3>1 DEF Clear, Into
    <3>3. QED
      BY <3>1, <3>2, NoOps DEF ProgramInv, StepInv, Outside, Clear
  <2>2. QED
    BY <2>1
<1>2. Sound /\ ProgramInv /\ StepInv /\ [Next]_vars => ProgramInv' /\ StepInv'
  BY SafeStep
<1>3. QED
  BY <1>1, <1>2, SoundHolds, PTL DEF Spec

\* X moves with the needle lifted, however the programs of superseded, stopped
\* and failed runs end, and whatever is published.
THEOREM NeedleCrossesLifted == Spec => []CrossesLifted
<1>1. Sound /\ ProgramInv => CrossesLifted
  <2>1. ASSUME Sound, ProgramInv, Drives("x") PROVE Lifted
    <3>1. program.ops # <<>> /\ program.ops \in Ops /\ Head(program.ops) = "x"
      BY <2>1 DEF Drives, Sound
    <3>2. Crosses(program.ops)
      BY <3>1, FirstOp DEF Crosses
    <3>3. QED
      BY <2>1, <3>2 DEF ProgramInv
  <2>2. QED
    BY <2>1 DEF CrossesLifted, Lifted
<1>2. QED
  BY <1>1, SafeHolds, PTL

\* The needle enters ports that are open, and no port is closed around it.
THEOREM NeedleEntersOpenPort == Spec => []EntersOpenPort
<1>1. ProgramInv => EntersOpenPort
  BY DEF ProgramInv, EntersOpenPort
<1>2. QED
  BY <1>1, SafeHolds, PTL

-----------------------------------------------------------------------------
(* Progress                                                                *)

\* Nobody at work has nothing to do.
AtRest == current = NoRun => todo = <<>>

\* A step that is called is tried twice only if it was to be: no later one is.
LEMMA LaterSteps ==
  ASSUME NEW t, Good(t), Len(t) > 1
  PROVE  /\ Len(Begun(Tail(t))) = Len(t) - 1
         /\ Begun(Tail(t)) # <<>> /\ Begun(Tail(t))[1].do # "retried"
         /\ t[2].do \in {"open", "close"} => Begun(Tail(t)) = Tail(t)
<1> DEFINE u == Begun(Tail(t))
<1>1. t \in Seq(Step) /\ t # <<>> /\ Len(Tail(t)) = Len(t) - 1
  BY Rests DEF Good
<1>2. /\ Fresh(Tail(t)) /\ Tail(t)[1] = t[2] /\ Follows(t[1], t[2])
  BY <1>1, GoodTail
<1>3. t[2].do \notin {"retried", "liftIfDown"}
  BY <1>2 DEF Follows
<1>4. /\ u # <<>>
      /\ \/ u = Tail(t)
         \/ /\ Lifting(t[2], u[1]) /\ Len(u) = Len(Tail(t))
            /\ GoodStep(t[2]) /\ Crosses(t[2].ops)
  BY <1>2, <1>3, Beginning
<1> HIDE DEF u
<1>5. ASSUME u # Tail(t) PROVE t[2].do \in {"checked", "retried"} /\ u[1].do = t[2].do
  <2>1. u[1].do = t[2].do
    BY <1>4, <1>5, LiftFirst
  <2>2. QED
    BY <1>4, <1>5, <2>1 DEF Lifting
<1>6. u = Tail(t) => u[1].do # "retried"
  BY <1>2, <1>3
<1>7. u[1].do # "retried" /\ (t[2].do \in {"open", "close"} => u = Tail(t))
  BY <1>3, <1>5, <1>6
<1>8. Len(u) = Len(t) - 1
  <2>1. Len(u) = Len(Tail(t))
    BY <1>4, Zenon
  <2>2. QED
    BY <1>1, <2>1
<1>9. QED
  BY <1>4, <1>7, <1>8 DEF u

\* And the second try of the first step is called as it is.
LEMMA SecondTry ==
  ASSUME NEW t, Good(t), t # <<>>, t[1].do = "retried"
  PROVE  /\ Begun(Again(t)) = Again(t) /\ Len(Again(t)) = Len(t)
         /\ Again(t)[1].do = "program" /\ Again(t)[1].ops = <<"lift", "x">>
<1>1. /\ Fresh(Again(t)) /\ Again(t)[1] = Program(<<"lift", "x">>)
      /\ Len(Again(t)) = Len(t)
  BY RetrySteps
<1>2. Again(t)[1].do = "program" /\ Again(t)[1].ops = <<"lift", "x">>
  BY <1>1, ProgramSteps DEF Ops
<1>3. Begun(Again(t)) = Again(t)
  BY <1>1, <1>2, Beginning DEF Lifting
<1>4. QED
  BY <1>1, <1>2, <1>3

\* Where the steps of the run at work come from, if it stays at work.
LEMMA TodoCases ==
  ASSUME Sound, Marked, AtRest, [Next]_vars, current' = current
  PROVE  \/ todo' = todo
         \/ /\ Len(todo) > 1 /\ answer = "ok" /\ Call(Tail(todo), FALSE)
            /\ kind' = kind /\ current \in Run
         \/ Retries /\ todo # <<>> /\ kind' = kind /\ current \in Run
<1> USE SequenceAssumption
<1>1. current \in Run \cup {NoRun}
  BY DEF Sound, TypeOK
<1>2. ASSUME NEW r \in Run, NEW k \in Kind, RunCallback(r, k) \/ RunFails(r, k)
      PROVE  FALSE
  <2>1. current = r /\ ~Pending(r)
    BY <1>2 DEF RunCallback, RunFails
  <2>2. QED
    BY <2>1 DEF Marked
<1>3. ASSUME NEW r \in Run, Done(r)
      PROVE  todo' = todo
  BY <1>3 DEF Done
<1>4. CASE StopCallback
  BY <1>4 DEF StopCallback, AtRest
<1>5. CASE Callback
  <2>1. current \in Run
    BY <1>1, <1>5 DEF Callback
  <2>2. CASE Done(current)
    BY <1>3, <2>1, <2>2
  <2>3. CASE Answered /\ ~Done(current)
    BY <2>1, <2>3 DEF Answered
  <2>4. CASE Retries
    <3>1. todo # <<>>
      BY <2>4 DEF Retries, Sound
    <3>2. QED
      BY <2>1, <2>4, <3>1 DEF Retries
  <2>5. QED
    BY <1>5, <2>2, <2>3, <2>4 DEF Callback, Returned, Fails
<1>6. CASE \/ PtprunArrives \/ OpBegins \/ OpRead \/ OpEnds \/ ProgramFails
           \/ ProgramTimesOut \/ TimerEnds \/ UNCHANGED vars
           \/ \E v \in Vessel : PortEnds(v)
  BY <1>6 DEF PtprunArrives, OpBegins, OpRead, OpEnds, ProgramFails, ProgramTimesOut,
     TimerEnds, PortEnds, vars, runVars
<1>7. QED
  BY <1>2, <1>3, <1>4, <1>5, <1>6 DEF Next, AxisStep, CancelledReturns

LEMMA AtRestStep ==
  ASSUME Sound, Marked, AtRest, [Next]_vars
  PROVE  AtRest'
<1> USE SequenceAssumption
<1>1. ASSUME NEW r \in Run, NEW k \in Kinds, Begins(r, k)
      PROVE  current' # NoRun
  BY <1>1 DEF Begins
<1>2. CASE StopCallback
  BY <1>2 DEF StopCallback, AtRest
<1>3. ASSUME NEW r \in Run, Done(r)
      PROVE  AtRest'
  BY <1>3 DEF Done, AtRest
<1>4. CASE Stays
  <2>1. current' = current
    BY <1>4 DEF Stays
  <2>2. QED
    BY <2>1, TodoCases DEF AtRest
<1>5. QED
  BY <1>1, <1>2, <1>3, <1>4, RunCases DEF AtRest

LEMMA ProgressStep ==
  ASSUME Sound, Marked, AtRest, [Next]_vars, current' = current, todo' # todo
  PROVE  StepsLeft' < StepsLeft
<1>1. Good(todo) /\ todo \in Seq(Step) /\ Len(todo) \in Nat
  BY DEF Sound, Good
<1>2. CASE Len(todo) > 1 /\ Call(Tail(todo), FALSE)
  <2>1. Fresh(Tail(todo))
    BY <1>1, <1>2, GoodTail
  <2>2. todo' = Begun(Tail(todo))
    BY <1>2, <2>1, CallEffect
  <2>3. /\ Len(todo') = Len(todo) - 1
        /\ todo' # <<>> /\ todo'[1].do # "retried" /\ Good(todo')
    BY <1>1, <1>2, <2>1, <2>2, LaterSteps, Beginning
  <2>4. Head(todo').do # "retried"
    BY <2>3, Rests DEF Good
  <2>5. StepsLeft' = 2 * (Len(todo) - 1)
    BY <1>1, <2>3, <2>4 DEF StepsLeft
  <2>6. StepsLeft \in {2 * Len(todo), 2 * Len(todo) + 1}
    BY <1>1 DEF StepsLeft
  <2>7. QED
    BY <1>1, <2>5, <2>6
<1>3. CASE Retries /\ todo # <<>>
  <2>1. todo[1].do = "retried" /\ Head(todo).do = "retried" /\ Call(Again(todo), FALSE)
    BY <1>1, <1>3, Rests DEF Retries, Again
  <2>2. /\ Fresh(Again(todo)) /\ Begun(Again(todo)) = Again(todo)
        /\ Len(Again(todo)) = Len(todo) /\ Again(todo)[1].do = "program"
    BY <1>1, <1>3, <2>1, RetrySteps, SecondTry
  <2>3. todo' = Again(todo)
    BY <2>1, <2>2, CallEffect
  <2>4. Head(todo').do = "program" /\ Len(todo') = Len(todo)
    BY <2>2, <2>3, Rests DEF Fresh, Good
  <2>5. StepsLeft' = 2 * Len(todo) /\ StepsLeft = 2 * Len(todo) + 1
    BY <1>1, <1>3, <2>1, <2>4 DEF StepsLeft
  <2>6. QED
    BY <1>1, <2>5
<1>4. QED
  BY <1>2, <1>3, TodoCases

\* Whatever fails, times out or is superseded: a run waits for what is under way
\* only, and comes to its end after a number of answers that is known beforehand.
THEOREM EveryAnswerProgresses == Spec => RunsProgress
<1>1. Init => Marked /\ AtRest
  BY DEF Init, Marked, Pending, AtRest
<1>2. Sound /\ Marked /\ AtRest /\ [Next]_vars => Marked' /\ AtRest'
  BY StepRuns, AtRestStep
<1>3. Sound /\ StepInv => AnswerIsDue
  <2>1. ASSUME Sound, StepInv, todo # <<>>, answer = "none"
        PROVE  LET s == Head(todo)
               IN /\ s.do \in {"open", "close"} => command[s.vessel] = s.do
                  /\ s.ops # <<>> => sent # <<>> \/ program.ops # <<>>
    <3>1. Head(todo) = todo[1]
      BY <2>1, StepKinds
    <3>2. QED
      BY <2>1, <3>1 DEF StepInv, Rest
  <2>2. QED
    BY <2>1 DEF AnswerIsDue
<1>4. Sound /\ Marked /\ AtRest /\ [Next]_vars
      => [current' = current /\ todo' # todo => StepsLeft' < StepsLeft]_vars
  BY ProgressStep
<1>5. QED
  BY <1>1, <1>2, <1>3, <1>4, SafeHolds, PTL DEF Spec, RunsProgress

-----------------------------------------------------------------------------
(* Hold                                                                    *)

Closes(s, v) == s.do = "close" /\ s.vessel = v /\ s.ops = <<>>
Closing(v)   == v \notin open /\ command[v] \in {"close", "none"}
Closed(v)    == v \notin open /\ command[v] = "none"

\* The three stages of an allhold: its program, tried once or twice, and the ports.
Homes ==
  /\ Len(todo) = 3 /\ todo[1].ops # <<>> /\ todo[1].ops \in Homing
  /\ Closes(todo[2], "furnace") /\ Closes(todo[3], "TIC")
  /\ answer = "ok" => Idle /\ Lifted

ClosesFurnace ==
  /\ Len(todo) = 2 /\ Closes(todo[1], "furnace") /\ Closes(todo[2], "TIC")
  /\ Idle /\ Lifted /\ Closing("furnace")
  /\ answer = "ok" => Closed("furnace")

ClosesTIC ==
  /\ Len(todo) = 1 /\ Closes(todo[1], "TIC")
  /\ Idle /\ Lifted /\ Closed("furnace") /\ Closing("TIC")
  /\ answer = "ok" => Closed("TIC")

Holding == Homes \/ ClosesFurnace \/ ClosesTIC

HoldInv ==
  current # NoRun /\ kind[current] = "allhold" /\ todo # <<>> => Holding

LEMMA AllholdSteps ==
  /\ Fresh(Allhold) /\ Len(Begun(Allhold)) = 3
  /\ Begun(Allhold)[1].ops # <<>> /\ Begun(Allhold)[1].ops \in Homing
  /\ Closes(Begun(Allhold)[2], "furnace") /\ Closes(Begun(Allhold)[3], "TIC")
<1> DEFINE a == Allhold[1]
           n == Called(a)
<1>1. "furnace" \in Vessel /\ "TIC" \in Vessel
  BY DEF Vessel
<1>2. /\ Fresh(Allhold) /\ a.do = "retried" /\ Good(Allhold)
  BY HomingSequences DEF Starting, Fresh
<1>3. /\ Head(Allhold) = a /\ Len(Allhold) = 3 /\ Len(Tail(Allhold)) = 2
      /\ Tail(Allhold)[1] = Close("furnace") /\ Tail(Allhold)[2] = Close("TIC")
      /\ Tail(Allhold) \in Seq(Step)
  BY <1>1, OtherSteps DEF Allhold
<1>4. Now(Allhold) = Allhold /\ Begun(Allhold) = <<n>> \o Tail(Allhold)
  BY <1>2, <1>3 DEF Now, Begun
<1>5. /\ GoodStep(Begun(Allhold)[1]) /\ Begun(Allhold)[1].do = "retried"
  <2>1. /\ Good(Begun(Allhold)) /\ Begun(Allhold) # <<>>
        /\ \/ Begun(Allhold) = Allhold
           \/ /\ Lifting(a, Begun(Allhold)[1]) /\ GoodStep(a) /\ Crosses(a.ops)
    BY <1>2, Beginning
  <2>2. GoodStep(Begun(Allhold)[1])
    BY <2>1, Rests DEF Good
  <2>3. CASE Begun(Allhold) = Allhold
    BY <1>2, <2>2, <2>3
  <2>4. CASE Lifting(a, Begun(Allhold)[1]) /\ GoodStep(a) /\ Crosses(a.ops)
    BY <1>2, <2>2, <2>4, LiftFirst
  <2>5. QED
    BY <2>1, <2>3, <2>4
<1>6. Begun(Allhold)[1].ops # <<>> /\ Begun(Allhold)[1].ops \in Homing
  BY <1>5 DEF GoodStep
<1>7. n \in Step
  <2>1. a \in Step /\ a.ops \in Seq(Op) /\ <<"lift">> \in Seq(Op)
    BY <1>2, <1>3, OpsTypes DEF Good, GoodStep, Step, Ops
  <2>2. <<"lift">> \o a.ops \in Seq(Op)
    BY <2>1
  <2>3. QED
    BY <2>1, <2>2 DEF Called, Step
<1>8. Allhold[2] = Close("furnace") /\ Allhold[3] = Close("TIC")
  BY DEF Allhold
<1> HIDE DEF a, n
<1>9. /\ Len(Begun(Allhold)) = 3
      /\ Begun(Allhold)[2] = Close("furnace") /\ Begun(Allhold)[3] = Close("TIC")
  <2>1. Allhold \in Seq(Step) /\ Allhold # <<>>
    BY <1>2 DEF Good, Fresh
  <2>2. /\ Len(Begun(Allhold)) = Len(Allhold)
        /\ \A i \in 1..Len(Allhold) : i > 1 => Begun(Allhold)[i] = Allhold[i]
    BY <1>4, <1>7, <2>1, ConsIs
  <2>3. QED
    BY <1>3, <1>8, <2>2
<1>10. QED
  BY <1>1, <1>2, <1>6, <1>9, OtherSteps DEF Closes

\* From one stage to the next.
LEMMA HoldAnswered ==
  ASSUME Sound, StepInv, Holding, Len(todo) > 1, answer = "ok", Call(Tail(todo), FALSE)
  PROVE  Holding'
<1>1. Good(todo) /\ todo \in Seq(Step) /\ todo # <<>> /\ Fresh(Tail(todo))
  BY GoodTail DEF Sound, Good
<1> DEFINE t == Tail(todo)
           s == Begun(t)[1]
<1>2. /\ Len(t) = Len(todo) - 1 /\ \A i \in 1..Len(t) : t[i] = todo[i + 1]
  BY <1>1, Rests
<1>3. todo[2].do = "close" /\ (Len(todo) = 2 \/ Len(todo) = 3)
  BY DEF Holding, Homes, ClosesFurnace, ClosesTIC, Closes
<1>4. Begun(t) = t
  BY <1>1, <1>3, LaterSteps
<1>5. s = todo[2]
  BY <1>2, <1>3, <1>4
<1>6. /\ todo' = t /\ answer' = "none"
      /\ sent' = IF s.ops # <<>> THEN s.ops ELSE sent
      /\ program' = IF s.ops # <<>> THEN Arrived ELSE program
      /\ IF s.do \in {"open", "close"} THEN Tell(s.vessel, s.do)
                                       ELSE UNCHANGED portVars
      /\ strayed' = (strayed \/ (Looks(t[1]) /\ published /\ needle # {"lift"}))
      /\ UNCHANGED <<needle, published>>
  BY <1>1, <1>4, CallEffect
<1> HIDE DEF s, t
<1>7. /\ command \in [Vessel -> {"open", "close", "none"}]
      /\ "furnace" \in Vessel /\ "TIC" \in Vessel /\ "furnace" # "TIC"
  BY DEF Sound, TypeOK, Vessel
<1>8. CASE Homes
  <2>1. /\ Closes(s, "furnace") /\ Idle /\ Lifted
        /\ Len(t) = 2 /\ t[1] = todo[2] /\ t[2] = todo[3]
    BY <1>2, <1>5, <1>8 DEF Homes
  <2>2. /\ sent' = sent /\ program' = program /\ Tell("furnace", "close")
    BY <1>6, <2>1 DEF Closes
  <2>3. Idle' /\ Lifted'
    BY <1>6, <2>1, <2>2 DEF Idle, Lifted
  <2>4. Closing("furnace")'
    BY <1>7, <2>2 DEF Closing, Tell
  <2>5. Closes(todo'[1], "furnace") /\ Closes(todo'[2], "TIC") /\ Len(todo') = 2
    BY <1>5, <1>6, <1>8, <2>1 DEF Homes
  <2>6. ClosesFurnace'
    BY <1>6, <2>3, <2>4, <2>5 DEF ClosesFurnace, Closes
  <2>7. QED
    BY <2>6 DEF Holding
<1>9. CASE ClosesFurnace
  <2>1. /\ Closes(s, "TIC") /\ Idle /\ Lifted /\ Closed("furnace")
        /\ Len(t) = 1 /\ t[1] = todo[2]
    BY <1>2, <1>5, <1>9 DEF ClosesFurnace
  <2>2. /\ sent' = sent /\ program' = program /\ Tell("TIC", "close")
    BY <1>6, <2>1 DEF Closes
  <2>3. Idle' /\ Lifted'
    BY <1>6, <2>1, <2>2 DEF Idle, Lifted
  <2>4. Closing("TIC")' /\ Closed("furnace")'
    BY <1>7, <2>1, <2>2 DEF Closing, Closed, Tell
  <2>5. Closes(todo'[1], "TIC") /\ Len(todo') = 1
    BY <1>5, <1>6, <2>1
  <2>6. ClosesTIC'
    BY <1>6, <2>3, <2>4, <2>5 DEF ClosesTIC, Closes
  <2>7. QED
    BY <2>6 DEF Holding
<1>10. ~ClosesTIC
  <2>1. ClosesTIC => Len(todo) = 1
    BY Zenon DEF ClosesTIC
  <2>2. QED
    BY <1>3, <2>1
<1>11. QED
  BY <1>8, <1>9, <1>10 DEF Holding

\* The second try.
LEMMA HoldRetried ==
  ASSUME Sound, StepInv, Holding, Retries
  PROVE  Holding'
<1>1. Good(todo) /\ todo # <<>> /\ Head(todo) = todo[1] /\ todo[1].do = "retried"
  BY Rests DEF Retries, Sound, Good
<1>2. Homes
  BY <1>1 DEF Holding, ClosesFurnace, ClosesTIC, Closes
<1>3. /\ Fresh(Again(todo)) /\ Begun(Again(todo)) = Again(todo)
      /\ Len(Again(todo)) = Len(todo) /\ Again(todo)[1].ops = <<"lift", "x">>
      /\ \A i \in 1..Len(todo) : i > 1 => Again(todo)[i] = todo[i]
  <2>1. /\ Fresh(Again(todo)) /\ \A i \in 1..Len(todo) : i > 1 => Again(todo)[i] = todo[i]
    BY <1>1, RetrySteps
  <2>2. /\ Begun(Again(todo)) = Again(todo)
        /\ Len(Again(todo)) = Len(todo) /\ Again(todo)[1].ops = <<"lift", "x">>
    BY <1>1, SecondTry
  <2>3. QED
    BY <2>1, <2>2
<1>4. todo' = Again(todo) /\ answer' = "none"
  BY <1>3, CallEffect DEF Retries, Again
<1>5. Again(todo)[1].ops # <<>> /\ Again(todo)[1].ops \in Homing
  BY <1>3 DEF Homing
<1>6. Homes'
  BY <1>2, <1>3, <1>4, <1>5 DEF Homes, Closes
<1>7. QED
  BY <1>6 DEF Holding

\* While nobody at work changes his steps: what the programs and the ports do.
LEMMA HoldWaits ==
  ASSUME Sound, ProgramInv, StepInv, Holding, todo' = todo,
         \/ PtprunArrives \/ AxisStep \/ ProgramTimesOut \/ TimerEnds
         \/ \E v \in Vessel : PortEnds(v)
  PROVE  Holding'
<1>1. todo # <<>>
  <2>1. Len(<<>>) = 0
    OBVIOUS
  <2>2. QED
    BY <2>1 DEF Holding, Homes, ClosesFurnace, ClosesTIC
<1>2. /\ GoodStep(todo[1]) /\ Head(todo) = todo[1]
      /\ WaitsForProgram <=> (todo[1].ops # <<>> /\ answer = "none" /\ sent = <<>>)
      /\ \A v \in Vessel : WaitsForPort(v) <=>
           (todo[1].do \in {"open", "close"} /\ answer = "none" /\ todo[1].vessel = v)
  BY <1>1, StepKinds
<1>3. ASSUME answer' = answer \/ answer' = "error", ~Idle,
             UNCHANGED portVars
      PROVE  Holding'
  <2>1. Homes /\ answer # "ok"
    BY <1>3 DEF Holding, Homes, ClosesFurnace, ClosesTIC
  <2>2. Homes'
    BY <1>3, <2>1 DEF Homes, Closes
  <2>3. QED
    BY <2>2 DEF Holding
<1>4. CASE PtprunArrives
  <2>1. ~Idle /\ answer' = answer /\ UNCHANGED portVars
    BY <1>4 DEF PtprunArrives, Idle
  <2>2. QED
    BY <1>3, <2>1
<1>5. CASE OpBegins \/ OpRead \/ ProgramFails
  <2>1. ~Idle
    BY <1>5 DEF OpBegins, OpRead, ProgramFails, Idle, Sound
  <2>2. (answer' = answer \/ answer' = "error") /\ UNCHANGED portVars
    BY <1>5 DEF OpBegins, OpRead, ProgramFails, Reply
  <2>3. QED
    BY <1>3, <2>1, <2>2
<1>6. CASE OpEnds
  <2> DEFINE o == Head(program.ops)
  <2>1. /\ program.ops # <<>> /\ program.ops \in Ops
        /\ program'.ops = Tail(program.ops)
        /\ IF o = "x" THEN needle' = needle ELSE needle' = {o}
        /\ Reply(WaitsForProgram /\ Len(program.ops) = 1, "ok")
        /\ sent' = sent /\ strayed' = strayed
    BY <1>6 DEF OpEnds, Drives, Sound
  <2>2. Homes /\ answer # "ok"
    BY <2>1 DEF Holding, Homes, ClosesFurnace, ClosesTIC, Idle
  <2>3. /\ Len(program.ops) = 1 => Ends(program.ops, o) /\ Tail(program.ops) = <<>>
        /\ o = program.ops[1]
    BY <2>1, FirstOp DEF Ends
  <2>4. ASSUME answer' = "ok" PROVE Idle' /\ Lifted'
    <3>1. WaitsForProgram /\ Len(program.ops) = 1
      BY <2>1, <2>2, <2>4 DEF Reply
    <3>2. sent = <<>> /\ answer = "none" /\ Rest = program.ops
      BY <1>2, <3>1 DEF Rest
    <3>3. Ends(todo[1].ops, "x") => o = "x"
      <4>1. \A p : Ends(program.ops, p) <=> Ends(todo[1].ops, p)
        BY <1>1, <1>2, <3>1, <3>2 DEF StepInv
      <4>2. QED
        BY <2>1, <2>3, <3>1, <4>1, FirstOps
    <3>4. todo[2].do = "close" /\ Len(todo) = 3
      BY <2>2 DEF Homes, Closes
    <3>5. Ends(todo[1].ops, "x")
      BY <2>2, FirstOps, OpsTypes DEF Homes
    <3>6. o = "x" /\ Crosses(program.ops)
      BY <2>1, <2>3, <3>3, <3>5 DEF Crosses
    <3>7. QED
      BY <2>1, <2>3, <3>1, <3>2, <3>6 DEF ProgramInv, Idle, Lifted
  <2>5. Homes'
    BY <2>2, <2>4 DEF Homes, Closes
  <2>6. QED
    BY <2>5 DEF Holding
<1>7. CASE ProgramTimesOut
  <2>1. todo[1].ops # <<>> /\ answer' = "error" /\ UNCHANGED <<axisVars, portVars>>
    BY <1>2, <1>7 DEF ProgramTimesOut
  <2>2. Homes'
    BY <2>1 DEF Holding, Homes, ClosesFurnace, ClosesTIC, Closes
  <2>3. QED
    BY <2>2 DEF Holding
<1>8. CASE TimerEnds
  <2>1. todo[1].do \in {"fill", "wait"} /\ todo[1].ops = <<>>
    BY <1>2, <1>8 DEF TimerEnds, Waits, GoodStep
  <2>2. QED
    BY <2>1 DEF Holding, Homes, ClosesFurnace, ClosesTIC, Closes
<1>9. ASSUME NEW v \in Vessel, PortEnds(v) PROVE Holding'
  <2>1. /\ command[v] # "none" /\ command' = [command EXCEPT ![v] = "none"]
        /\ command \in [Vessel -> {"open", "close", "none"}]
        /\ open' = open \/ (command[v] = "open" /\ open' = open \cup {v})
        /\ answer' = answer \/ (WaitsForPort(v) /\ answer' \in {"ok", "error"})
        /\ UNCHANGED <<runVars, axisVars>>
        /\ Vessel = {"furnace", "TIC"}
    BY <1>9 DEF PortEnds, Reply, Sound, TypeOK, Vessel
  <2>2. (Idle' <=> Idle) /\ (Lifted' <=> Lifted)
    BY <2>1 DEF Idle, Lifted, axisVars
  <2>3. ASSUME NEW w \in Vessel
        PROVE  /\ Closing(w) => Closing(w)' /\ (v = w => Closed(w)')
               /\ Closed(w) => Closed(w)'
    BY <2>1 DEF Closing, Closed
  <2>4. CASE Homes
    <3>1. answer' = answer
      BY <1>2, <2>1, <2>4 DEF Homes, GoodStep
    <3>2. Homes'
      BY <2>2, <2>4, <3>1 DEF Homes, Closes
    <3>3. QED
      BY <3>2 DEF Holding
  <2>5. CASE ClosesFurnace
    <3>1. answer' = answer \/ v = "furnace"
      BY <1>2, <2>1, <2>5 DEF ClosesFurnace, Closes
    <3>2. answer' = "ok" => Closed("furnace")'
      BY <2>1, <2>3, <2>5, <3>1 DEF ClosesFurnace
    <3>3. ClosesFurnace'
      BY <2>1, <2>2, <2>3, <2>5, <3>2 DEF ClosesFurnace, Closes
    <3>4. QED
      BY <3>3 DEF Holding
  <2>6. CASE ClosesTIC
    <3>1. answer' = answer \/ v = "TIC"
      BY <1>2, <2>1, <2>6 DEF ClosesTIC, Closes
    <3>2. answer' = "ok" => Closed("TIC")'
      BY <2>1, <2>3, <2>6, <3>1 DEF ClosesTIC
    <3>3. ClosesTIC'
      BY <2>1, <2>2, <2>3, <2>6, <3>2 DEF ClosesTIC, Closes
    <3>4. QED
      BY <3>3 DEF Holding
  <2>7. QED
    BY <2>4, <2>5, <2>6 DEF Holding
<1>10. QED
  BY <1>4, <1>5, <1>6, <1>7, <1>8, <1>9 DEF AxisStep

LEMMA HoldStep ==
  ASSUME Sound, Marked, AtRest, ProgramInv, StepInv, HoldInv, [Next]_vars
  PROVE  HoldInv'
<1> USE SequenceAssumption
<1>1. ASSUME NEW r \in Run, NEW k \in Kind, RunCallback(r, k) \/ RunFails(r, k)
      PROVE  HoldInv'
  <2>1. /\ kind' = [kind EXCEPT ![r] = k] /\ current' = r /\ kind'[r] = k /\ k \in Kinds
    BY <1>1 DEF RunCallback, RunFails, Sound, TypeOK
  <2>2. CASE RunFails(r, k)
    BY <2>2 DEF RunFails, HoldInv
  <2>3. CASE RunCallback(r, k) /\ k = "allhold"
    <3>1. Call(Allhold, TRUE)
      BY <2>3 DEF RunCallback, Sequence
    <3>2. todo' = Begun(Allhold) /\ answer' = "none"
      BY <3>1, AllholdSteps, CallEffect
    <3>3. Homes'
      BY <3>2, AllholdSteps DEF Homes, Closes
    <3>4. QED
      BY <3>3 DEF HoldInv, Holding
  <2>4. CASE k # "allhold"
    BY <2>1, <2>4 DEF HoldInv
  <2>5. QED
    BY <1>1, <2>2, <2>3, <2>4
<1>2. ASSUME NEW r \in Run, Done(r) PROVE HoldInv'
  <2>1. CASE r = current
    BY <1>2, <2>1 DEF Done, HoldInv
  <2>2. CASE r # current
    <3>1. /\ UNCHANGED <<current, todo, answer, axisVars, portVars>>
          /\ current # NoRun => kind'[current] = kind[current]
      BY <1>2, <2>2 DEF Done, Sound, TypeOK
    <3>2. HoldInv => (current # NoRun /\ kind[current] = "allhold" /\ todo # <<>>
                      => Holding)
      BY DEF HoldInv
    <3>3. Holding => Holding'
      BY <3>1 DEF Holding, Homes, ClosesFurnace, ClosesTIC, Closes, Idle, Lifted,
         Closing, Closed, axisVars, portVars
    <3>4. QED
      BY <3>1, <3>2, <3>3 DEF HoldInv
  <2>3. QED
    BY <2>1, <2>2
<1>3. CASE StopCallback
  BY <1>3 DEF StopCallback, HoldInv
<1>4. CASE Callback
  <2>1. current \in Run /\ current # NoRun
    BY <1>4 DEF Callback, Sound, TypeOK
  <2>2. CASE Done(current)
    BY <1>2, <2>1, <2>2
  <2>3. CASE Answered /\ ~Done(current)
    <3>1. /\ answer = "ok" /\ Len(todo) > 1 /\ Call(Tail(todo), FALSE)
          /\ UNCHANGED <<kind, current>>
      BY <2>3 DEF Answered
    <3>2. todo # <<>>
      BY <3>1 DEF Sound
    <3>3. Holding => Holding'
      BY <3>1, HoldAnswered
    <3>4. QED
      BY <3>1, <3>2, <3>3 DEF HoldInv
  <2>4. CASE Retries
    <3>1. UNCHANGED <<kind, current>> /\ todo # <<>>
      BY <2>4 DEF Retries, Sound
    <3>2. Holding => Holding'
      BY <2>4, HoldRetried
    <3>3. QED
      BY <3>1, <3>2 DEF HoldInv
  <2>5. QED
    BY <1>4, <2>2, <2>3, <2>4 DEF Callback, Returned, Fails
<1>5. CASE \/ PtprunArrives \/ AxisStep \/ ProgramTimesOut \/ TimerEnds
           \/ \E v \in Vessel : PortEnds(v)
  <2>1. UNCHANGED <<kind, current, todo>>
    BY <1>5 DEF PtprunArrives, AxisStep, OpBegins, OpRead, OpEnds, ProgramFails,
       ProgramTimesOut, TimerEnds, PortEnds, runVars
  <2>2. Holding => Holding'
    BY <1>5, <2>1, HoldWaits
  <2>3. QED
    BY <2>1, <2>2 DEF HoldInv
<1>6. CASE UNCHANGED vars
  BY <1>6 DEF vars, runVars, axisVars, portVars, HoldInv, Holding, Homes, ClosesFurnace,
     ClosesTIC, Closes, Idle, Lifted, Closing, Closed
<1>7. QED
  BY <1>1, <1>2, <1>3, <1>4, <1>5, <1>6 DEF Next, CancelledReturns

\* An allhold that ends well has put the analyser in hold: each port was told to
\* close and has answered since, and nothing that was started before is left.
THEOREM AllholdPutsInHold == Spec => AllholdHolds
<1>1. Init => Marked /\ AtRest /\ HoldInv
  BY DEF Init, Marked, Pending, AtRest, HoldInv
<1>2. Sound /\ Marked /\ AtRest /\ ProgramInv /\ StepInv /\ HoldInv /\ [Next]_vars
      => Marked' /\ AtRest' /\ HoldInv'
  BY StepRuns, AtRestStep, HoldStep
<1>3. Sound /\ Marked /\ AtRest /\ HoldInv /\ [Next]_vars
      => [\A r \in Run : kind[r] = "allhold" /\ r = current /\ answer = "ok" /\ ~Pending(r)'
                    => InHold]_vars
  <2>1. ASSUME Sound, Marked, HoldInv, [Next]_vars,
               NEW r \in Run, kind[r] = "allhold", r = current, answer = "ok", ~Pending(r)'
        PROVE  InHold
    <3>1. todo # <<>> /\ Holding
      BY <2>1, SequenceAssumption DEF Sound, HoldInv
    <3>2. kind \in [Run -> Kinds \cup {"none"}] /\ r \notin cancelled /\ "none" \notin Kinds
          /\ Pending(r)
      BY <2>1, SequenceAssumption DEF Sound, TypeOK, Marked, Pending, Kinds
    <3>3. ASSUME NEW q \in Run \ {r}, Done(q) PROVE FALSE
      BY <2>1, <3>2, <3>3 DEF Done, Pending
    <3>4. ASSUME NEW q \in Run, NEW k \in Kind, RunCallback(q, k) \/ RunFails(q, k)
          PROVE  FALSE
      <4>1. q # r /\ kind' = [kind EXCEPT ![q] = k]
        BY <3>2, <3>4 DEF RunCallback, RunFails
      <4>2. QED
        BY <2>1, <3>2, <4>1 DEF Pending
    <3>5. kind' # kind
      BY <2>1, <3>2 DEF Pending
    <3>6. Callback
      BY <2>1, <3>2, <3>3, <3>4, <3>5 DEF Next, CancelledReturns, StopCallback,
         PtprunArrives, AxisStep, OpBegins, OpRead, OpEnds, ProgramFails,
         ProgramTimesOut, TimerEnds, PortEnds, vars, runVars
    <3>7. Len(todo) = 1
      BY <2>1, <3>1, <3>5, <3>6 DEF Callback, Returned, Answered, Retries, Fails
    <3>8. ClosesTIC
      BY <3>1, <3>7 DEF Holding, Homes, ClosesFurnace
    <3>9. open = {}
      BY <2>1, <3>8 DEF ClosesTIC, Closed, Sound, TypeOK, Vessel
    <3>10. QED
      BY <2>1, <3>8, <3>9 DEF InHold, ClosesTIC, Closed, Idle, Lifted, Vessel
  <2>2. QED
    BY <2>1
<1>4. QED
  BY <1>1, <1>2, <1>3, SafeHolds, PTL DEF Spec, AllholdHolds

=============================================================================
