----------------------------- MODULE TcpProofs -----------------------------
(***************************************************************************)
(* Proofs about TcpTransport, for any number of packs, senders, hosts,     *)
(* faults and cypher changes and any capacities: the types, that the       *)
(* writer always belongs to the current connection, and that with          *)
(* fail-over no accepted pack disappears without one of the losses the     *)
(* code accepts.                                                           *)
(***************************************************************************)
EXTENDS TcpTransport, SeqFacts

-----------------------------------------------------------------------------
(* What the helpers of the actions return. *)

(* TcpQueue.Put1 and Put2 keep the type of the queue. *)
LEMMA PutType ==
  ASSUME NEW S, NEW q \in Seq(S), NEW cap \in Nat, NEW p \in S
  PROVE  Put(q, cap, p) \in Seq(S) /\ Range(Put(q, cap, p)) \subseteq Range(q) \cup {p}
                                  /\ Range(q) \subseteq Range(Put(q, cap, p))
  BY RangeAppend DEF Put

(* The overflow notice is only ever added to queue 1. *)
LEMMA TooBigType ==
  ASSUME TypeOK, NEW p
  PROVE  TooBig(p) \in Seq(Item) /\ Range(q1) \subseteq Range(TooBig(p))
<1>1. CASE p \in BigPacks
  <2>1. q1 \in Seq(Item) /\ Queue1Cap \in Nat /\ Overflow \in Item
    BY ConstantsAssumption DEF TypeOK, WriterState, Item
  <2> QED BY <1>1, <2>1, PutType DEF TooBig
<1>2. CASE p \notin BigPacks
  BY <1>2 DEF TooBig, TypeOK, Item
<1> QED BY <1>1, <1>2

(* RequestQueue.PutForce keeps the bound and loses only the evicted pack. *)
LEMMA PutForceFacts ==
  ASSUME NEW S, NEW q \in Seq(S), Len(q) <= RetryCap, NEW p \in S
  PROVE  /\ PutForce(q, p) \in Seq(S) /\ Len(PutForce(q, p)) <= RetryCap
         /\ p \in Range(PutForce(q, p))
         /\ Range(q) \subseteq Range(PutForce(q, p)) \cup Evicted(q)
         /\ Range(PutForce(q, p)) \subseteq Range(q) \cup {p}
         /\ Evicted(q) \subseteq S
<1>0. RetryCap \in Nat \ {0} /\ Len(q) \in Nat
  BY ConstantsAssumption
<1>1. CASE Len(q) < RetryCap
  <2>1. PutForce(q, p) = Append(q, p) /\ Evicted(q) = {}
    BY <1>1 DEF PutForce, Evicted
  <2>2. Append(q, p) \in Seq(S) /\ Len(Append(q, p)) = Len(q) + 1
    OBVIOUS
  <2> QED BY <2>1, <2>2, <1>0, <1>1, RangeAppend
<1>2. CASE ~(Len(q) < RetryCap)
  <2>1. PutForce(q, p) = Append(Tail(q), p) /\ Evicted(q) = {Head(q)}
    BY <1>2 DEF PutForce, Evicted
  <2>2. q # <<>> /\ Len(q) = RetryCap
    BY <1>0, <1>2
  <2>3. /\ Tail(q) \in Seq(S) /\ Len(Tail(q)) = Len(q) - 1 /\ Head(q) \in S
        /\ Range(q) = {Head(q)} \cup Range(Tail(q))
    BY <2>2, RangeTail
  <2>4. Append(Tail(q), p) \in Seq(S) /\ Len(Append(Tail(q), p)) = Len(q)
    BY <2>3, <1>0
  <2>5. Range(Append(Tail(q), p)) = Range(Tail(q)) \cup {p}
    <3> DEFINE t == Tail(q)
    <3>1. t \in Seq(S)
      BY <2>3
    <3> HIDE DEF t
    <3>2. Range(Append(t, p)) = Range(t) \cup {p}
      BY <3>1, RangeAppend
    <3> QED BY <3>2 DEF t
  <2> QED BY <2>1, <2>2, <2>3, <2>4, <2>5
<1> QED BY <1>1, <1>2

(* Writing a pack through bufio keeps it, with all that was buffered, in   *)
(* the buffer or on the socket.                                            *)
LEMMA BufferFacts ==
  ASSUME TypeOK, NEW p \in Item, Buffer(p)
  PROVE  /\ wr'.buf \in Seq(Item) /\ Len(wr'.buf) <= WrCap
         /\ wr' = [conn |-> wr.conn, buf |-> wr'.buf, state |-> wr.state]
         /\ handed' \in Seq(Item)
         /\ Range(handed') \cup Range(wr'.buf)
              = Range(handed) \cup Range(wr.buf) \cup {p}
         /\ Range(handed) \subseteq Range(handed')
<1>0. /\ WrCap \in Nat \ {0} /\ wr.buf \in Seq(Item) /\ handed \in Seq(Item)
      /\ Len(wr.buf) <= WrCap /\ Len(wr.buf) \in Nat
      /\ wr = [conn |-> wr.conn, buf |-> wr.buf, state |-> wr.state]
  BY ConstantsAssumption DEF TypeOK, WriterState, Item
<1>1. CASE Spills
  <2>1. wr'.buf = <<p>> /\ handed' = handed \o wr.buf
        /\ wr' = [conn |-> wr.conn, buf |-> <<p>>, state |-> wr.state]
    BY <1>0, <1>1 DEF Buffer
  <2>2. <<p>> \in Seq(Item) /\ Len(<<p>>) = 1 /\ Range(<<p>>) = {p}
    BY RangeOne
  <2>3. handed \o wr.buf \in Seq(Item)
        /\ Range(handed \o wr.buf) = Range(handed) \cup Range(wr.buf)
    BY <1>0, RangeConcat
  <2> QED BY <1>0, <2>1, <2>2, <2>3
<1>2. CASE ~Spills
  <2>1. wr'.buf = Append(wr.buf, p) /\ handed' = handed
        /\ wr' = [conn |-> wr.conn, buf |-> Append(wr.buf, p), state |-> wr.state]
    BY <1>0, <1>2 DEF Buffer
  <2>2. Append(wr.buf, p) \in Seq(Item) /\ Len(Append(wr.buf, p)) = Len(wr.buf) + 1
    BY <1>0
  <2>3. Len(wr.buf) < WrCap
    BY <1>0, <1>2 DEF Spills
  <2>4. Range(Append(wr.buf, p)) = Range(wr.buf) \cup {p}
    BY <1>0, RangeAppend
  <2> QED BY <1>0, <2>1, <2>2, <2>3, <2>4
<1> QED BY <1>1, <1>2

(* A flush hands over the whole buffer. *)
LEMMA FlushFacts ==
  ASSUME TypeOK
  PROVE  /\ handed \o wr.buf \in Seq(Item)
         /\ Range(handed \o wr.buf) = Range(handed) \cup Range(wr.buf)
         /\ [wr EXCEPT !.buf = <<>>] = [conn |-> wr.conn, buf |-> <<>>, state |-> wr.state]
         /\ [wr EXCEPT !.state = "failed"] = [conn |-> wr.conn, buf |-> wr.buf, state |-> "failed"]
<1>1. wr.buf \in Seq(Item) /\ handed \in Seq(Item)
      /\ wr = [conn |-> wr.conn, buf |-> wr.buf, state |-> wr.state]
  BY DEF TypeOK, WriterState, Item
<1>2. handed \o wr.buf \in Seq(Item)
      /\ Range(handed \o wr.buf) = Range(handed) \cup Range(wr.buf)
  BY <1>1, RangeConcat
<1>3. [wr EXCEPT !.buf = <<>>] = [conn |-> wr.conn, buf |-> <<>>, state |-> wr.state]
  BY <1>1
<1>4. [wr EXCEPT !.state = "failed"] = [conn |-> wr.conn, buf |-> wr.buf, state |-> "failed"]
  BY <1>1
<1> QED BY <1>2, <1>3, <1>4

-----------------------------------------------------------------------------
(* The inductive invariant. *)

(* The record of runSend's iteration: idle means that lock is free. *)
SenderShape ==
  /\ sender.holder = None <=> sender.pc = "idle"
  /\ sender.pc = "idle" => sender = Idle
  /\ sender.pc # "idle" => sender.pack \in Item
  /\ sender.pc \in {"idle", "wait", "put"} => sender.item = "pack"

(* Which connection wr writes to. *)
WriterShape ==
  /\ mgr.pc \in {"closed", "failover", "clear", "assign"} => client = 0
  /\ mgr.pc \in {"failover", "clear", "assign"} => wr.conn = mgr.conn
  /\ mgr.pc = "open" /\ client # 0 => wr.conn = client
  /\ mgr.pc \in {"open", "closed"} /\ client = 0 => wr.conn \notin alive
  /\ mgr.pc = "exit" => wr.conn = 0

Shape == SenderShape /\ WriterShape

(* The pack that is in RetryQueue but not yet in the writer. *)
InHand ==
  IF sender.item = "pack" /\ sender.pc \in {"check", "write"}
  THEN {sender.pack} ELSE {}

(* RetryQueue and the writer cover each other. *)
Cover ==
  /\ mgr.pc \in {"failover", "clear", "assign"} => sender.pc \in {"idle", "wait"}
  /\ mgr.pc = "failover" => Len(retry) <= mgr.sz
  /\ mgr.pc = "clear" => Range(retry) \subseteq unprotected
  /\ mgr.pc = "assign" => retry = <<>>
  /\ mgr.pc \in {"clear", "assign"} => Range(wr.buf) \subseteq unprotected
  /\ sender.item = "pack" /\ sender.pc \in {"check", "write", "flush", "clear"}
       => sender.pack \in Range(retry) \cup unprotected
  /\ mgr.pc = "open" /\ wr.conn \in alive
       => Range(retry) \subseteq Range(handed) \cup unprotected
                                   \cup Range(wr.buf) \cup InHand
  /\ sender.pc = "clear"
       => /\ Range(retry) \subseteq Range(handed) \cup unprotected
          /\ wr.buf = <<>>

CoverInv == Failover /\ Prompt => Cover /\ BufferCovered /\ Accounted

IInv == TypeOK /\ Shape /\ CoverInv

-----------------------------------------------------------------------------
(* Types and Shape. *)

(* The initial state has the types and the shape. *)
LEMMA InitTypes == Init => TypeOK /\ Shape
<1> SUFFICES ASSUME Init PROVE TypeOK /\ Shape
  OBVIOUS
<1> USE ConstantsAssumption DEF Init, Idle, NewWriter
<1>1. wr \in WriterState /\ Len(wr.buf) <= WrCap /\ Len(retry) <= RetryCap
  BY DEF WriterState
<1>2. sender \in SenderState /\ mgr \in ManagerState
  BY DEF SenderState, ManagerState
<1>3. level \in [Senders -> Nat] /\ dest \in Hosts /\ up \subseteq Hosts
  BY DEF Hosts
<1>6. shutdown \in BOOLEAN
  OBVIOUS
<1>4. TypeOK
  BY <1>1, <1>2, <1>3, <1>6 DEF TypeOK
<1>5. Shape
  BY DEF Shape, SenderShape, WriterShape
<1> QED BY <1>4, <1>5

(* What Send's return does to the sender and to queue 1. *)
LEMMA ReturnFacts ==
  ASSUME TypeOK, SenderShape, sender.pc # "idle", Return
  PROVE  /\ q1' \in Seq(Item) /\ Range(q1) \subseteq Range(q1')
         /\ sender' \in SenderState /\ SenderShape'
         /\ \/ sender.item = "pack" /\ sender' = Idle
            \/ /\ sender.item = "sync" /\ sender'.pc = "put"
               /\ sender'.item = "pack" /\ sender'.pack = sender.pack
<1> USE ConstantsAssumption DEF SenderState
<1>1. CASE sender.item = "sync"
  <2>1. sender' = [sender EXCEPT !.item = "pack", !.pc = "put"] /\ q1' = q1
    BY <1>1 DEF Return
  <2> QED BY <1>1, <2>1 DEF TypeOK, SenderShape, Idle
<1>2. CASE sender.item # "sync"
  <2>1. sender' = Idle /\ q1' = TooBig(sender.pack)
    BY <1>2 DEF Return
  <2>2. q1' \in Seq(Item) /\ Range(q1) \subseteq Range(q1')
    BY <2>1, TooBigType
  <2>3. sender' \in SenderState /\ SenderShape'
    BY <2>1 DEF Idle, SenderShape
  <2>4. sender.item = "pack"
    BY <1>2 DEF TypeOK
  <2> QED BY <2>1, <2>2, <2>3, <2>4
<1> QED BY <1>1, <1>2

(* What Close does, whoever calls it. *)
LEMMA CloseFacts ==
  ASSUME TypeOK, WriterShape, Close
  PROVE  /\ client' = 0 /\ lastConnectedTime' = 0
         /\ alive' \subseteq alive /\ alive' \subseteq Nat \ {0}
         /\ mgr.pc \in {"open", "closed"} => wr.conn \notin alive'
  BY DEF TypeOK, WriterShape, Close

(* What a failing SendFailover leaves unprotected are packs. *)
LEMMA FailoverItems ==
  ASSUME TypeOK
  PROVE  unprotected \cup Range(retry) \cup Range(wr.buf) \subseteq Item
<1>1. /\ retry \in Seq(Item) /\ wr.buf \in Seq(Item)
      /\ unprotected \subseteq Item
  BY DEF TypeOK, WriterState
<1> QED BY <1>1 DEF Range

(* SendFailover's loop counts down from the size it read. *)
LEMMA Countdown ==
  ASSUME TypeOK, mgr.pc = "failover", mgr.sz > 0, mgr' = [mgr EXCEPT !.sz = @ - 1]
  PROVE  /\ mgr' \in ManagerState /\ mgr'.pc = "failover"
         /\ mgr'.conn = mgr.conn /\ mgr'.sz = mgr.sz - 1
<1>1. mgr \in [pc : {"closed", "failover", "clear", "assign", "open", "exit"},
              conn : Nat, sz : Nat]
  BY DEF TypeOK, ManagerState
<1>2. mgr.conn \in Nat /\ mgr.sz \in Nat
  BY <1>1
<1>3. mgr.sz - 1 \in Nat
  BY <1>2
<1>4. mgr' = [pc |-> "failover", conn |-> mgr.conn, sz |-> mgr.sz - 1]
  BY <1>1
<1>5. mgr' \in ManagerState
  BY <1>2, <1>3, <1>4 DEF ManagerState
<1> QED BY <1>4, <1>5

(* The application threads keep the types and the shape. *)
LEMMA AppTypes ==
  ASSUME TypeOK, Shape, NEW p \in Packs, Send(p) \/ SendProfile(p)
  PROVE  TypeOK' /\ Shape'
<1> USE ConstantsAssumption DEF linkVars, mgrVars, cfgVars, envVars
<1>1. CASE Send(p)
  <2>1. Put(q1, Queue1Cap, p) \in Seq(Item)
    BY PutType DEF TypeOK, Item
  <2>2. TypeOK'
    BY <1>1, <2>1 DEF Send, TypeOK, Packs
  <2> QED BY <1>1, <2>2 DEF Send, Shape, SenderShape, WriterShape
<1>2. CASE SendProfile(p)
  <2>1. Put(q2, Queue2Cap, p) \in Seq(Packs)
    BY PutType DEF TypeOK
  <2>2. TypeOK'
    BY <1>2, <2>1 DEF SendProfile, TypeOK, Packs
  <2> QED BY <1>2, <2>2 DEF SendProfile, Shape, SenderShape, WriterShape
<1> QED BY <1>1, <1>2

(* The senders keep the types and the shape. *)
LEMMA SenderTypes ==
  ASSUME TypeOK, Shape, NEW s \in Senders,
         \/ Dequeue(s) \/ CypherChanged(s) \/ SessionOpen(s) \/ RetryPut(s)
         \/ SendCheck(s) \/ SendWrite(s) \/ SendFlush(s) \/ SendClear(s)
  PROVE  TypeOK' /\ Shape'
<1> USE ConstantsAssumption DEF queueVars, linkVars, mgrVars, cfgVars, envVars
<1>0. s # None /\ SenderShape /\ WriterShape
  BY DEF Shape
<1>1. CASE Dequeue(s)
  <2>1. CASE q1 # <<>> /\ sender' = [holder |-> s, pc |-> "wait", pack |-> Head(q1), item |-> "pack"]
             /\ q1' = Tail(q1) /\ UNCHANGED q2
    <3>1. Head(q1) \in Item /\ Tail(q1) \in Seq(Item)
      BY <2>1, RangeTail DEF TypeOK
    <3>2. sender' \in SenderState /\ SenderShape'
      BY <2>1, <3>1, <1>0 DEF SenderState, SenderShape
    <3> QED BY <1>1, <2>1, <3>1, <3>2 DEF Dequeue, TypeOK, Shape, WriterShape
  <2>2. CASE q2 # <<>> /\ sender' = [holder |-> s, pc |-> "wait", pack |-> Head(q2), item |-> "pack"]
             /\ q2' = Tail(q2) /\ UNCHANGED q1
    <3>1. Head(q2) \in Packs /\ Tail(q2) \in Seq(Packs)
      BY <2>2, RangeTail DEF TypeOK
    <3>2. sender' \in SenderState /\ SenderShape'
      BY <2>2, <3>1, <1>0 DEF SenderState, SenderShape, Item
    <3> QED BY <1>1, <2>2, <3>1, <3>2 DEF Dequeue, TypeOK, Shape, WriterShape
  <2> QED BY <1>1, <2>1, <2>2 DEF Dequeue
<1>2. CASE CypherChanged(s)
  <2>1. sender' \in SenderState /\ SenderShape'
    BY <1>2 DEF CypherChanged, Idle, SenderState, SenderShape
  <2>2. level' \in [Senders -> Nat] /\ unprotected' \subseteq Item
    BY <1>2, <1>0 DEF CypherChanged, TypeOK, SenderShape
  <2>3. Close
    BY <1>2 DEF CypherChanged
  <2>4. TypeOK'
    BY <1>2, <2>1, <2>2, <2>3, <1>0, CloseFacts DEF CypherChanged, TypeOK
  <2>5. WriterShape'
    BY <1>2, <2>3, <1>0, CloseFacts DEF CypherChanged, WriterShape
  <2> QED BY <2>1, <2>4, <2>5 DEF Shape
<1>3. CASE SessionOpen(s)
  <2>1. sender' \in SenderState /\ SenderShape'
    BY <1>3, <1>0 DEF SessionOpen, TypeOK, SenderState, SenderShape
  <2>2. TypeOK'
    BY <1>3, <2>1 DEF SessionOpen, TypeOK
  <2> QED BY <1>3, <2>1, <2>2, <1>0 DEF SessionOpen, Shape, WriterShape
<1>4. CASE RetryPut(s)
  <2>1. sender' \in SenderState /\ SenderShape' /\ sender.pack \in Item
    BY <1>4, <1>0 DEF RetryPut, TypeOK, SenderState, SenderShape
  <2>2. /\ retry' \in Seq(Item) /\ Len(retry') <= RetryCap
        /\ unprotected' \subseteq Item
    <3>1. retry \in Seq(Item) /\ Len(retry) <= RetryCap /\ unprotected \subseteq Item
      BY DEF TypeOK
    <3>2. CASE Failover
      <4>1. /\ PutForce(retry, sender.pack) \in Seq(Item)
            /\ Len(PutForce(retry, sender.pack)) <= RetryCap
            /\ Evicted(retry) \subseteq Item
        BY <3>1, <2>1, PutForceFacts
      <4> QED BY <1>4, <3>1, <3>2, <4>1 DEF RetryPut
    <3>3. CASE ~Failover
      BY <1>4, <3>1, <3>3 DEF RetryPut
    <3> QED BY <3>2, <3>3
  <2>3. TypeOK'
    BY <1>4, <2>1, <2>2 DEF RetryPut, TypeOK
  <2> QED BY <1>4, <2>1, <2>3, <1>0 DEF RetryPut, Shape, WriterShape
<1>5. CASE SendCheck(s)
  <2>1. q1' \in Seq(Item) /\ sender' \in SenderState /\ SenderShape'
    <3>1. CASE client = 0
      BY <1>5, <3>1, <1>0, ReturnFacts DEF SendCheck
    <3>2. CASE client # 0
      BY <1>5, <3>2, <1>0 DEF SendCheck, TypeOK, SenderState, SenderShape
    <3> QED BY <3>1, <3>2
  <2>2. TypeOK'
    BY <1>5, <2>1 DEF SendCheck, TypeOK
  <2> QED BY <1>5, <2>1, <2>2, <1>0 DEF SendCheck, Shape, WriterShape
<1>6. CASE SendWrite(s)
  <2>0. sender.pc # "idle" /\ sender.pack \in Item
    BY <1>6, <1>0 DEF SendWrite, SenderShape
  <2>1. CASE CanWrite
    <3>1. /\ IF sender.item = "pack" THEN Buffer(sender.pack) ELSE UNCHANGED <<wr, handed>>
          /\ IF sender.item = "sync" \/ Flushes(sender.pack)
             THEN sender' = [sender EXCEPT !.pc = "flush"] /\ UNCHANGED q1
             ELSE Return
          /\ UNCHANGED linkVars
      BY <1>6, <2>1 DEF SendWrite
    <3>2. q1' \in Seq(Item) /\ sender' \in SenderState /\ SenderShape'
      <4>1. CASE sender' = [sender EXCEPT !.pc = "flush"] /\ UNCHANGED q1
        BY <4>1, <1>0, <1>6 DEF SendWrite, TypeOK, SenderState, SenderShape
      <4>2. CASE Return
        BY <4>2, <1>0, <2>0, ReturnFacts
      <4> QED BY <3>1, <4>1, <4>2
    <3>3. /\ wr' \in WriterState /\ Len(wr'.buf) <= WrCap /\ wr'.conn = wr.conn
          /\ handed' \in Seq(Item)
      <4>1. CASE Buffer(sender.pack)
        <5>1. /\ wr'.buf \in Seq(Item) /\ Len(wr'.buf) <= WrCap
              /\ wr' = [conn |-> wr.conn, buf |-> wr'.buf, state |-> wr.state]
              /\ handed' \in Seq(Item)
          BY <4>1, <2>0, BufferFacts
        <5> QED BY <5>1 DEF TypeOK, WriterState
      <4>2. CASE UNCHANGED <<wr, handed>>
        BY <4>2 DEF TypeOK
      <4> QED BY <3>1, <4>1, <4>2
    <3>4. TypeOK'
      BY <1>6, <3>1, <3>2, <3>3 DEF SendWrite, TypeOK
    <3> QED BY <1>6, <3>1, <3>2, <3>3, <3>4, <1>0 DEF SendWrite, Shape, WriterShape
  <2>2. CASE ~CanWrite
    <3>1. wr' = [wr EXCEPT !.state = "failed"] /\ Close /\ Return /\ UNCHANGED handed
      BY <1>6, <2>2 DEF SendWrite
    <3>2. wr' \in WriterState /\ Len(wr'.buf) <= WrCap /\ wr'.conn = wr.conn
      BY <3>1 DEF TypeOK, WriterState
    <3>3. TypeOK'
      <4>1. q1' \in Seq(Item) /\ sender' \in SenderState
        BY <3>1, <1>0, <2>0, ReturnFacts
      <4>2. client' = 0 /\ lastConnectedTime' = 0 /\ alive' \subseteq Nat \ {0}
        BY <3>1, <1>0, CloseFacts
      <4> QED BY <1>6, <3>1, <3>2, <4>1, <4>2 DEF SendWrite, TypeOK
    <3>4. WriterShape'
      BY <1>6, <3>1, <3>2, <1>0, CloseFacts DEF SendWrite, WriterShape
    <3> QED BY <3>1, <3>3, <3>4, <1>0, <2>0, ReturnFacts DEF Shape
  <2> QED BY <2>1, <2>2
<1>7. CASE SendFlush(s)
  <2>0. sender.pc # "idle" /\ sender.pack \in Item
    BY <1>7, <1>0 DEF SendFlush, SenderShape
  <2>1. CASE CanFlush
    <3>1. /\ handed' = handed \o wr.buf
          /\ wr' = [wr EXCEPT !.buf = <<>>]
          /\ sender' = [sender EXCEPT !.pc = "clear"]
          /\ UNCHANGED <<q1, linkVars>>
      BY <1>7, <2>1 DEF SendFlush
    <3>2. sender' \in SenderState /\ SenderShape'
      BY <3>1, <1>0, <1>7 DEF SendFlush, TypeOK, SenderState, SenderShape
    <3>3. /\ wr' \in WriterState /\ Len(wr'.buf) <= WrCap /\ wr'.conn = wr.conn
          /\ handed' \in Seq(Item)
      <4>1. /\ wr' = [conn |-> wr.conn, buf |-> <<>>, state |-> wr.state]
            /\ handed' \in Seq(Item)
        BY <3>1, FlushFacts
      <4> QED BY <4>1 DEF TypeOK, WriterState
    <3>4. TypeOK'
      BY <1>7, <3>1, <3>2, <3>3 DEF SendFlush, TypeOK
    <3> QED BY <1>7, <3>1, <3>2, <3>3, <3>4, <1>0 DEF SendFlush, Shape, WriterShape
  <2>2. CASE ~CanFlush
    <3>1. wr' = [wr EXCEPT !.state = "failed"] /\ Close /\ Return /\ UNCHANGED handed
      BY <1>7, <2>2 DEF SendFlush
    <3>2. wr' \in WriterState /\ Len(wr'.buf) <= WrCap /\ wr'.conn = wr.conn
      BY <3>1 DEF TypeOK, WriterState
    <3>3. TypeOK'
      <4>1. q1' \in Seq(Item) /\ sender' \in SenderState
        BY <3>1, <1>0, <2>0, ReturnFacts
      <4>2. client' = 0 /\ lastConnectedTime' = 0 /\ alive' \subseteq Nat \ {0}
        BY <3>1, <1>0, CloseFacts
      <4> QED BY <1>7, <3>1, <3>2, <4>1, <4>2 DEF SendFlush, TypeOK
    <3>4. WriterShape'
      BY <1>7, <3>1, <3>2, <1>0, CloseFacts DEF SendFlush, WriterShape
    <3> QED BY <3>1, <3>3, <3>4, <1>0, <2>0, ReturnFacts DEF Shape
  <2> QED BY <2>1, <2>2
<1>8. CASE SendClear(s)
  <2>1. Return /\ sender.pc # "idle" /\ retry' = <<>>
    BY <1>8 DEF SendClear
  <2>2. TypeOK'
    BY <1>8, <2>1, <1>0, ReturnFacts DEF SendClear, TypeOK
  <2> QED BY <1>8, <2>1, <2>2, <1>0, ReturnFacts DEF SendClear, Shape, WriterShape
<1> QED BY <1>1, <1>2, <1>3, <1>4, <1>5, <1>6, <1>7, <1>8

(* The manager keeps the types and the shape. *)
LEMMA ManagerTypes ==
  ASSUME TypeOK, Shape,
         \/ OpenFail \/ Dial \/ FailoverWrite \/ FailoverFlush \/ OpenClear
         \/ Assign \/ SeeClosed \/ ManagerExit
  PROVE  TypeOK' /\ Shape'
<1> USE ConstantsAssumption DEF queueVars, linkVars, mgrVars, cfgVars, envVars
<1>0. SenderShape /\ WriterShape
  BY DEF Shape
<1>1. CASE OpenFail
  <2>1. Close /\ UNCHANGED <<sender, mgr, wr>> /\ mgr.pc = "closed" /\ dest' = NextDest
    BY <1>1 DEF OpenFail, MayOpen
  <2>2. client' = 0 /\ lastConnectedTime' = 0 /\ alive' \subseteq Nat \ {0}
        /\ wr.conn \notin alive'
    BY <2>1, <1>0, CloseFacts
  <2>3. dest' \in Hosts /\ faults' \in Nat
    BY <1>1, <2>1 DEF OpenFail, NextDest, Hosts, TypeOK
  <2>4. TypeOK'
    BY <1>1, <2>2, <2>3 DEF OpenFail, TypeOK
  <2> QED BY <2>1, <2>2, <2>4, <1>0 DEF Shape, SenderShape, WriterShape
<1>2. CASE Dial
  <2>1. /\ wr' = [conn |-> conns + 1, buf |-> <<>>, state |-> "ok"]
        /\ mgr' = [pc |-> AfterConnect, conn |-> conns + 1, sz |-> Len(retry)]
        /\ dest' = NextDest /\ mgr.pc = "closed" /\ UNCHANGED <<client, sender>>
    BY <1>2 DEF Dial, OpenWriter, NewWriter, MayOpen
  <2>2. AfterConnect \in {"failover", "clear"}
    BY DEF AfterConnect
  <2>3. wr' \in WriterState /\ Len(wr'.buf) <= WrCap
    BY <2>1 DEF TypeOK, WriterState
  <2>4. mgr' \in ManagerState
    BY <2>1, <2>2 DEF TypeOK, ManagerState
  <2>5. dest' \in Hosts
    BY <2>1 DEF NextDest, Hosts, TypeOK
  <2>7. conns' \in Nat /\ alive' \subseteq Nat \ {0} /\ lastConnectedTime' \in Nat
    <3>1. conns' = conns + 1 /\ alive' = alive \cup {conns + 1} /\ lastConnectedTime' = 1
      BY <1>2 DEF Dial
    <3>2. conns \in Nat /\ alive \subseteq Nat \ {0}
      BY DEF TypeOK
    <3> HIDE ConstantsAssumption
    <3>3. conns + 1 \in Nat \ {0}
      BY <3>2
    <3> QED BY <3>1, <3>2, <3>3
  <2>8. UNCHANGED <<queueVars, cfgVars, envVars, retry, client, sender, reading,
                    handed, unprotected>>
    BY <1>2 DEF Dial
  <2>6. TypeOK'
    BY <2>8, <2>3, <2>4, <2>5, <2>7 DEF TypeOK
  <2> QED BY <2>1, <2>2, <2>6, <1>0 DEF Shape, SenderShape, WriterShape
<1>3. CASE FailoverWrite
  <2>0. /\ mgr.pc = "failover" /\ mgr.sz \in Nat /\ mgr.sz > 0
        /\ mgr = [pc |-> mgr.pc, conn |-> mgr.conn, sz |-> mgr.sz]
        /\ UNCHANGED <<q2, offered, accepted, linkVars, cfgVars, envVars, dest,
                       conns, sender, reading>>
    BY <1>3 DEF FailoverWrite, TypeOK, ManagerState
  <2>1. CASE retry = <<>>
    <3>1. mgr' = [mgr EXCEPT !.sz = @ - 1] /\ UNCHANGED <<q1, retry, wr, handed, unprotected>>
      BY <1>3, <2>1 DEF FailoverWrite
    <3>2. mgr' \in ManagerState /\ mgr'.pc = "failover" /\ mgr'.conn = mgr.conn
      BY <3>1, <2>0, Countdown
    <3>3. TypeOK'
      BY <2>0, <3>1, <3>2 DEF TypeOK
    <3> QED BY <2>0, <3>1, <3>2, <3>3, <1>0 DEF Shape, SenderShape, WriterShape
  <2>2. CASE retry # <<>>
    <3>1. retry' = Tail(retry) /\ q1' = TooBig(Head(retry))
      BY <1>3, <2>2 DEF FailoverWrite
    <3>2. Head(retry) \in Item /\ Tail(retry) \in Seq(Item) /\ Len(Tail(retry)) <= RetryCap
      <4>1. retry \in Seq(Item) /\ Len(retry) \in Nat /\ Len(retry) <= RetryCap
        BY DEF TypeOK
      <4>2. Head(retry) \in Item /\ Tail(retry) \in Seq(Item) /\ Len(Tail(retry)) = Len(retry) - 1
        BY <4>1, <2>2, RangeTail
      <4> QED BY <4>1, <4>2
    <3>3. q1' \in Seq(Item)
      BY <3>1, TooBigType
    <3>4. CASE CanWrite
      <4>1. Buffer(Head(retry)) /\ mgr' = [mgr EXCEPT !.sz = @ - 1] /\ UNCHANGED unprotected
        BY <1>3, <2>2, <3>4 DEF FailoverWrite
      <4>2. /\ wr'.buf \in Seq(Item) /\ Len(wr'.buf) <= WrCap
            /\ wr' = [conn |-> wr.conn, buf |-> wr'.buf, state |-> wr.state]
            /\ handed' \in Seq(Item)
        BY <4>1, <3>2, BufferFacts
      <4>3. wr' \in WriterState /\ wr'.conn = wr.conn
        BY <4>2 DEF TypeOK, WriterState
      <4>4. mgr' \in ManagerState /\ mgr'.pc = "failover" /\ mgr'.conn = mgr.conn
        BY <4>1, <2>0, Countdown
      <4>5. TypeOK'
        BY <2>0, <3>1, <3>2, <3>3, <4>1, <4>2, <4>3, <4>4 DEF TypeOK
      <4> QED BY <2>0, <4>3, <4>4, <4>5, <1>0 DEF Shape, SenderShape, WriterShape
    <3>5. CASE ~CanWrite
      <4>1. FailoverFails /\ UNCHANGED handed
        BY <1>3, <2>2, <3>5 DEF FailoverWrite
      <4>2. wr' \in WriterState /\ Len(wr'.buf) <= WrCap /\ wr'.conn = wr.conn
        BY <4>1 DEF FailoverFails, TypeOK, WriterState
      <4>3. mgr' \in ManagerState /\ mgr'.pc = "clear" /\ mgr'.conn = mgr.conn
        BY <4>1, <2>0 DEF FailoverFails, TypeOK, ManagerState
      <4>4. unprotected' \subseteq Item
        BY <4>1, FailoverItems DEF FailoverFails
      <4>5. TypeOK'
        BY <2>0, <3>1, <3>2, <3>3, <4>1, <4>2, <4>3, <4>4 DEF TypeOK
      <4> QED BY <2>0, <4>2, <4>3, <4>5, <1>0 DEF Shape, SenderShape, WriterShape
    <3> QED BY <3>4, <3>5
  <2> QED BY <2>1, <2>2
<1>4. CASE FailoverFlush
  <2>0. /\ mgr.pc = "failover"
        /\ UNCHANGED <<queueVars, linkVars, cfgVars, envVars, dest, conns, retry,
                       sender, reading>>
    BY <1>4 DEF FailoverFlush
  <2>1. CASE CanFlush
    <3>1. /\ handed' = handed \o wr.buf /\ wr' = [wr EXCEPT !.buf = <<>>]
          /\ mgr' = [mgr EXCEPT !.pc = "clear"] /\ UNCHANGED unprotected
      BY <1>4, <2>1 DEF FailoverFlush
    <3>2. wr' = [conn |-> wr.conn, buf |-> <<>>, state |-> wr.state] /\ handed' \in Seq(Item)
      BY <3>1, FlushFacts
    <3>3. wr' \in WriterState /\ Len(wr'.buf) <= WrCap /\ wr'.conn = wr.conn
      BY <3>2 DEF TypeOK, WriterState
    <3>4. mgr' \in ManagerState /\ mgr'.pc = "clear" /\ mgr'.conn = mgr.conn
      BY <3>1 DEF TypeOK, ManagerState
    <3>5. TypeOK'
      BY <2>0, <3>1, <3>2, <3>3, <3>4 DEF TypeOK
    <3> QED BY <2>0, <3>3, <3>4, <3>5, <1>0 DEF Shape, SenderShape, WriterShape
  <2>2. CASE ~CanFlush
    <3>1. FailoverFails /\ UNCHANGED handed
      BY <1>4, <2>2 DEF FailoverFlush
    <3>2. wr' \in WriterState /\ Len(wr'.buf) <= WrCap /\ wr'.conn = wr.conn
      BY <3>1 DEF FailoverFails, TypeOK, WriterState
    <3>3. mgr' \in ManagerState /\ mgr'.pc = "clear" /\ mgr'.conn = mgr.conn
      BY <3>1 DEF FailoverFails, TypeOK, ManagerState
    <3>4. unprotected' \subseteq Item
      BY <3>1, FailoverItems DEF FailoverFails
    <3>5. TypeOK'
      BY <2>0, <3>1, <3>2, <3>3, <3>4 DEF TypeOK
    <3> QED BY <2>0, <3>2, <3>3, <3>5, <1>0 DEF Shape, SenderShape, WriterShape
  <2> QED BY <2>1, <2>2
<1>5. CASE OpenClear
  <2>1. mgr' \in ManagerState /\ mgr'.pc = "assign" /\ mgr'.conn = mgr.conn
    BY <1>5 DEF OpenClear, TypeOK, ManagerState
  <2>2. retry' \in Seq(Item) /\ Len(retry') <= RetryCap
    BY <1>5 DEF OpenClear
  <2>3. TypeOK'
    BY <1>5, <2>1, <2>2 DEF OpenClear, TypeOK
  <2> QED BY <1>5, <2>1, <2>3, <1>0 DEF OpenClear, Shape, SenderShape, WriterShape
<1>6. CASE Assign
  <2>1. mgr' \in ManagerState /\ mgr'.pc = "open" /\ client' = mgr.conn /\ mgr.conn \in Nat
    BY <1>6 DEF Assign, TypeOK, ManagerState
  <2>2. TypeOK'
    BY <1>6, <2>1 DEF Assign, TypeOK
  <2> QED BY <1>6, <2>1, <2>2, <1>0 DEF Assign, Shape, SenderShape, WriterShape, TypeOK
<1>7. CASE SeeClosed
  <2>1. mgr' \in ManagerState /\ mgr'.pc = "closed"
    BY <1>7 DEF SeeClosed, TypeOK, ManagerState
  <2>2. TypeOK'
    BY <1>7, <2>1 DEF SeeClosed, TypeOK
  <2> QED BY <1>7, <2>1, <2>2, <1>0 DEF SeeClosed, Shape, SenderShape, WriterShape
<1>8. CASE ManagerExit
  <2>1. mgr' \in ManagerState /\ mgr'.pc = "exit"
    BY <1>8 DEF ManagerExit, TypeOK, ManagerState
  <2>2. wr' \in WriterState /\ Len(wr'.buf) <= WrCap /\ wr'.conn = 0
    BY <1>8 DEF ManagerExit, NewWriter, WriterState
  <2>3. TypeOK'
    BY <1>8, <2>1, <2>2 DEF ManagerExit, TypeOK
  <2> QED BY <1>8, <2>1, <2>2, <2>3, <1>0 DEF ManagerExit, Shape, SenderShape, WriterShape
<1> QED BY <1>1, <1>2, <1>3, <1>4, <1>5, <1>6, <1>7, <1>8

(* The receiver, the configuration and the environment keep them too. *)
LEMMA EnvTypes ==
  ASSUME TypeOK, Shape,
         \/ ReadStart \/ ReadFail \/ (\E c \in alive : ConnectionBreaks(c))
         \/ ChangeCypherLevel \/ Shutdown \/ SenderExit
  PROVE  TypeOK' /\ Shape'
<1> USE ConstantsAssumption DEF queueVars, linkVars, mgrVars, cfgVars, envVars
<1>0. SenderShape /\ WriterShape
  BY DEF Shape
<1>1. CASE ReadStart
  <2>1. reading' \in Nat
    BY <1>1 DEF ReadStart, TypeOK, WriterState
  <2>2. TypeOK'
    BY <1>1, <2>1 DEF ReadStart, TypeOK
  <2> QED BY <1>1, <2>2, <1>0 DEF ReadStart, Shape, SenderShape, WriterShape
<1>2. CASE ReadFail
  <2>1. Close /\ reading' = 0 /\ faults' \in Nat
    BY <1>2 DEF ReadFail, TypeOK
  <2>2. client' = 0 /\ lastConnectedTime' = 0 /\ alive' \subseteq Nat \ {0}
        /\ (mgr.pc \in {"open", "closed"} => wr.conn \notin alive')
    BY <2>1, <1>0, CloseFacts
  <2>3. TypeOK'
    BY <1>2, <2>1, <2>2 DEF ReadFail, TypeOK
  <2> QED BY <1>2, <2>2, <2>3, <1>0 DEF ReadFail, Shape, SenderShape, WriterShape
<1>3. CASE \E c \in alive : ConnectionBreaks(c)
  <2>1. TypeOK'
    BY <1>3 DEF ConnectionBreaks, TypeOK
  <2> QED BY <1>3, <2>1, <1>0 DEF ConnectionBreaks, Shape, SenderShape, WriterShape
<1>4. CASE ChangeCypherLevel
  <2>1. TypeOK'
    BY <1>4 DEF ChangeCypherLevel, TypeOK
  <2> QED BY <1>4, <2>1, <1>0 DEF ChangeCypherLevel, Shape, SenderShape, WriterShape
<1>5. CASE Shutdown
  <2>1. TypeOK'
    BY <1>5 DEF Shutdown, TypeOK
  <2> QED BY <1>5, <2>1, <1>0 DEF Shutdown, Shape, SenderShape, WriterShape
<1>6. CASE SenderExit
  <2>1. TypeOK'
    BY <1>6 DEF SenderExit, TypeOK
  <2> QED BY <1>6, <2>1, <1>0 DEF SenderExit, Shape, SenderShape, WriterShape
<1> QED BY <1>1, <1>2, <1>3, <1>4, <1>5, <1>6

(* Every step keeps the types and the shape. *)
LEMMA TypesStep == TypeOK /\ Shape /\ [Next]_vars => TypeOK' /\ Shape'
<1> SUFFICES ASSUME TypeOK, Shape, [Next]_vars PROVE TypeOK' /\ Shape'
  OBVIOUS
<1>1. CASE UNCHANGED vars
  BY <1>1 DEF vars, TypeOK, Shape, SenderShape, WriterShape
<1>2. CASE Next
  BY <1>2, AppTypes, SenderTypes, ManagerTypes, EnvTypes DEF Next
<1> QED BY <1>1, <1>2

(* TcpTransport's variables keep their types; RetryQueue stays within its  *)
(* capacity and the writer within its buffer.                              *)
THEOREM TypeCorrect == Spec => []TypeOK
<1>1. Init => TypeOK /\ Shape
  BY InitTypes
<1>2. TypeOK /\ Shape /\ [Next]_vars => (TypeOK /\ Shape)'
  BY TypesStep
<1> QED BY <1>1, <1>2, PTL DEF Spec

(* The writer belongs to the connection Close would close, whatever the    *)
(* interleaving of sender, receiver and manager.                           *)
THEOREM WriterCorrect == Spec => []WriterMatchesClient
<1>1. Init => TypeOK /\ Shape
  BY InitTypes
<1>2. TypeOK /\ Shape /\ [Next]_vars => (TypeOK /\ Shape)'
  BY TypesStep
<1>3. TypeOK /\ Shape => WriterMatchesClient
  BY DEF TypeOK, ManagerState, Shape, WriterShape, WriterMatchesClient
<1> QED BY <1>1, <1>2, <1>3, PTL DEF Spec
=============================================================================
