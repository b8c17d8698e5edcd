--------------------------- MODULE TcpCoverProofs ---------------------------
(***************************************************************************)
(* With fail-over on, RetryQueue and the bufio.Writer cover each other:    *)
(* what sits unflushed in the writer is still in RetryQueue, and no pack   *)
(* TcpQueue took disappears without one of the losses the code accepts.    *)
(* Proved for every value of TcpTransport's constants.                     *)
(***************************************************************************)
EXTENDS TcpProofs

(* The initial state satisfies the inductive invariant. *)
LEMMA InitCover == Init => IInv
<1> SUFFICES ASSUME Init PROVE IInv
  OBVIOUS
<1>1. TypeOK /\ Shape
  BY InitTypes
<1>2. Cover /\ BufferCovered /\ Accounted
  BY RangeEmpty DEF Init, Idle, NewWriter, Cover, BufferCovered, Accounted, InHand
<1> QED BY <1>1, <1>2 DEF IInv, CoverInv

(* A new pack in TcpQueue disturbs nothing downstream. *)
LEMMA AppCover ==
  ASSUME IInv, Failover, Prompt,
         \E p \in Packs : Send(p) \/ SendProfile(p)
  PROVE  Cover' /\ BufferCovered' /\ Accounted'
<1> USE ConstantsAssumption DEF queueVars, linkVars, mgrVars, cfgVars, envVars
<1>0. TypeOK /\ Cover /\ BufferCovered /\ Accounted
  BY DEF IInv, CoverInv
<1>1. PICK p \in Packs : Send(p) \/ SendProfile(p)
  OBVIOUS
<1>2. Cover' /\ BufferCovered'
  BY <1>0, <1>1 DEF Send, SendProfile, Cover, BufferCovered, InHand
<1>3. CASE Send(p)
  <2>1. q1 \in Seq(Item) /\ p \in Item /\ Queue1Cap \in Nat /\ Len(q1) \in Nat
    BY <1>0, <1>3 DEF TypeOK, Send, Item, Packs
  <2>2. Range(q1) \subseteq Range(Put(q1, Queue1Cap, p))
    BY <2>1, PutType
  <2>3. Len(q1) < Queue1Cap => p \in Range(Put(q1, Queue1Cap, p))
    BY <2>1, RangeAppend DEF Put
  <2>4. Range(q1) \subseteq Range(q1') /\ accepted' \subseteq accepted \cup Range(q1')
    BY <1>3, <2>2, <2>3 DEF Send
  <2> QED BY <1>0, <1>2, <1>3, <2>4 DEF Send, Accounted
<1>4. CASE SendProfile(p)
  <2>1. q2 \in Seq(Packs) /\ Queue2Cap \in Nat /\ Len(q2) \in Nat
    BY <1>0 DEF TypeOK
  <2>2. Range(q2) \subseteq Range(Put(q2, Queue2Cap, p))
    BY <2>1, PutType
  <2>3. Len(q2) < Queue2Cap => p \in Range(Put(q2, Queue2Cap, p))
    BY <2>1, RangeAppend DEF Put
  <2>4. Range(q2) \subseteq Range(q2') /\ accepted' \subseteq accepted \cup Range(q2')
    BY <1>4, <2>2, <2>3 DEF SendProfile
  <2> QED BY <1>0, <1>2, <1>4, <2>4 DEF SendProfile, Accounted
<1> QED BY <1>1, <1>3, <1>4

(* A sender that takes a pack, waits for the session, finds the cypher     *)
(* level changed or puts its pack in RetryQueue.                           *)
LEMMA TakeCover ==
  ASSUME IInv, Failover, Prompt, NEW s \in Senders,
         Dequeue(s) \/ CypherChanged(s) \/ SessionOpen(s) \/ RetryPut(s)
  PROVE  Cover' /\ BufferCovered' /\ Accounted'
<1> USE ConstantsAssumption DEF queueVars, linkVars, mgrVars, cfgVars, envVars
<1>0. /\ TypeOK /\ Shape /\ SenderShape /\ WriterShape
      /\ Cover /\ BufferCovered /\ Accounted
  BY DEF IInv, CoverInv, Shape
<1>1. CASE Dequeue(s)
  <2>1. sender.pc = "idle" /\ sender.pack = None /\ sender'.pc = "wait"
        /\ sender'.item = "pack"
    BY <1>0, <1>1 DEF Dequeue, SenderShape, Idle
  <2>2. Range(q1) \cup Range(q2) \subseteq Range(q1') \cup Range(q2') \cup {sender'.pack}
    <3>1. q1 \in Seq(Item) /\ q2 \in Seq(Packs)
      BY <1>0 DEF TypeOK
    <3>2. q1 # <<>> => Range(q1) = {Head(q1)} \cup Range(Tail(q1))
      BY <3>1, RangeTail
    <3>3. q2 # <<>> => Range(q2) = {Head(q2)} \cup Range(Tail(q2))
      BY <3>1, RangeTail
    <3>4. CASE q1 # <<>>
      <4>1. sender'.pack = Head(q1) /\ q1' = Tail(q1) /\ q2' = q2
        BY <1>1, <3>4 DEF Dequeue
      <4> QED BY <3>2, <3>4, <4>1
    <3>5. CASE q1 = <<>>
      <4>1. sender'.pack = Head(q2) /\ q2' = Tail(q2) /\ q1' = q1 /\ q2 # <<>>
        BY <1>1, <3>5 DEF Dequeue
      <4> QED BY <3>3, <4>1
    <3> QED BY <3>4, <3>5
  <2>3. None \notin accepted
    BY <1>0 DEF TypeOK
  <2>4. UNCHANGED <<linkVars, mgrVars, cfgVars, envVars, offered, accepted,
                    retry, wr, reading, handed, unprotected>>
    BY <1>1 DEF Dequeue
  <2>5. Cover' /\ BufferCovered'
    BY <1>0, <2>1, <2>4 DEF Cover, BufferCovered, InHand
  <2>6. Accounted'
    BY <1>0, <2>1, <2>2, <2>3, <2>4 DEF Accounted
  <2> QED BY <2>5, <2>6
<1>2. CASE CypherChanged(s)
  <2>1. /\ Close /\ sender' = Idle /\ unprotected' = unprotected \cup {sender.pack}
        /\ sender.pc = "wait" /\ client # 0
        /\ UNCHANGED <<queueVars, mgrVars, envVars, retry, wr, confLevel, reading, handed>>
    BY <1>2 DEF CypherChanged
  <2>2. client' = 0 /\ alive' \subseteq alive
    BY <1>0, <2>1, CloseFacts
  <2>3. Cover' /\ BufferCovered'
    BY <1>0, <2>1, <2>2 DEF Cover, BufferCovered, InHand, Idle
  <2>4. Accounted'
    BY <1>0, <2>1 DEF Accounted
  <2> QED BY <2>3, <2>4
<1>3. CASE SessionOpen(s)
  <2>1. /\ sender.pc = "wait" /\ client # 0 /\ sender'.pack = sender.pack
        /\ (sender'.pc = "check" /\ sender'.item = "sync") \/ sender'.pc = "put"
        /\ UNCHANGED <<queueVars, linkVars, mgrVars, cfgVars, envVars, retry, wr,
                       reading, handed, unprotected>>
    BY <1>0, <1>3 DEF SessionOpen, TypeOK, SenderState
  <2>2. mgr.pc \notin {"failover", "clear", "assign"}
    BY <1>0, <2>1 DEF WriterShape
  <2>3. Cover' /\ BufferCovered'
    BY <1>0, <2>1, <2>2 DEF Cover, BufferCovered, InHand
  <2>4. Accounted'
    BY <1>0, <2>1 DEF Accounted
  <2> QED BY <2>3, <2>4
<1>4. CASE RetryPut(s)
  <2>1. /\ sender.pc = "put" /\ sender'.pc = "check" /\ sender'.pack = sender.pack
        /\ sender'.item = "pack" /\ sender.item = "pack" /\ sender.pack \in Item
        /\ retry' = PutForce(retry, sender.pack)
        /\ unprotected' = unprotected \cup Evicted(retry)
        /\ UNCHANGED <<queueVars, linkVars, mgrVars, cfgVars, envVars, wr, reading, handed>>
    BY <1>0, <1>4 DEF RetryPut, TypeOK, SenderState, SenderShape
  <2>2. /\ sender.pack \in Range(retry')
        /\ Range(retry) \subseteq Range(retry') \cup unprotected'
        /\ Range(retry') \subseteq Range(retry) \cup {sender.pack}
    <3>1. retry \in Seq(Item) /\ Len(retry) <= RetryCap
      BY <1>0 DEF TypeOK
    <3>2. /\ sender.pack \in Range(PutForce(retry, sender.pack))
          /\ Range(retry) \subseteq Range(PutForce(retry, sender.pack)) \cup Evicted(retry)
          /\ Range(PutForce(retry, sender.pack)) \subseteq Range(retry) \cup {sender.pack}
      BY <2>1, <3>1, PutForceFacts
    <3> QED BY <2>1, <3>2
  <2>3. mgr.pc \notin {"failover", "clear", "assign"}
    BY <1>0, <2>1 DEF Cover
  <2>4. InHand' = {sender.pack} /\ InHand = {} /\ unprotected \subseteq unprotected'
    BY <2>1 DEF InHand
  <2>5. Cover'
    BY <1>0, <2>1, <2>2, <2>3, <2>4 DEF Cover
  <2>6. BufferCovered' /\ Accounted'
    BY <1>0, <2>1, <2>2, <2>3, <2>4 DEF BufferCovered, Accounted
  <2> QED BY <2>5, <2>6
<1> QED BY <1>1, <1>2, <1>3, <1>4

(* The buffer after a write holds the pack and at most what it held. *)
LEMMA BufferRange ==
  ASSUME TypeOK, NEW p \in Item, Buffer(p)
  PROVE  Range(wr'.buf) \subseteq Range(wr.buf) \cup {p}
<1>1. wr.buf \in Seq(Item) /\ wr \in WriterState
  BY DEF TypeOK, WriterState
<1>2. wr'.buf = <<p>> \/ wr'.buf = Append(wr.buf, p)
  BY <1>1 DEF Buffer, WriterState
<1>3. Range(<<p>>) = {p} /\ Range(Append(wr.buf, p)) = Range(wr.buf) \cup {p}
  BY <1>1, RangeOne, RangeAppend
<1> QED BY <1>2, <1>3

(* A Send that fails closes the connection: RetryQueue keeps its packs. *)
LEMMA AbortCover ==
  ASSUME TypeOK, Shape, Cover, mgr.pc \notin {"failover", "clear", "assign"},
         sender.pc \in {"write", "flush"}, mgr' = mgr, unprotected' = unprotected,
         retry' = retry, wr' = [wr EXCEPT !.state = "failed"], Close,
         sender'.pc \in {"idle", "put"}, sender'.item = "pack"
  PROVE  Cover' /\ BufferCovered'
<1>1. client' = 0 /\ (mgr.pc \in {"open", "closed"} => wr.conn \notin alive')
  BY CloseFacts DEF Shape
<1>2. wr'.conn = wr.conn
  BY DEF TypeOK, WriterState
<1> QED BY <1>1, <1>2 DEF Cover, BufferCovered

(* Send: the nil check, the write, the flush and the clear after it. *)
LEMMA SendCover ==
  ASSUME IInv, Failover, Prompt, NEW s \in Senders,
         SendCheck(s) \/ SendWrite(s) \/ SendFlush(s) \/ SendClear(s)
  PROVE  Cover' /\ BufferCovered' /\ Accounted'
<1> USE ConstantsAssumption DEF queueVars, linkVars, mgrVars, cfgVars, envVars
<1>0. /\ TypeOK /\ Shape /\ SenderShape /\ WriterShape
      /\ Cover /\ BufferCovered /\ Accounted
  BY DEF IInv, CoverInv, Shape
<1>a. /\ UNCHANGED <<q2, offered, accepted, mgrVars, cfgVars, envVars, reading, unprotected>>
      /\ sender.pc \in {"check", "write", "flush", "clear"}
  BY DEF SendCheck, SendWrite, SendFlush, SendClear
<1>b. mgr.pc \notin {"failover", "clear", "assign"} /\ sender.pack \in Item
  BY <1>0, <1>a DEF Cover, SenderShape
<1>c. ASSUME Return
      PROVE  /\ Range(q1) \subseteq Range(q1') /\ InHand' = {}
             /\ sender'.pc \in {"idle", "put"}
             /\ sender.item = "pack" \/ sender'.pack = sender.pack
             /\ sender'.item = "pack"
  BY <1>0, <1>a, <1>c, ReturnFacts DEF InHand, Idle
<1>d. ASSUME Return, Range(retry') = Range(retry), Range(handed) \subseteq Range(handed')
      PROVE  Accounted'
  <2>1. sender.pack \in Range(retry) \cup unprotected \/ sender'.pack = sender.pack
    BY <1>0, <1>a, <1>c, <1>d DEF Cover
  <2> QED BY <1>0, <1>a, <1>b, <1>c, <1>d, <2>1 DEF Accounted
<1>1. CASE SendCheck(s)
  <2>1. UNCHANGED <<linkVars, retry, wr, handed>> /\ sender.pc = "check"
    BY <1>1 DEF SendCheck
  <2>2. CASE client = 0
    <3>1. Return
      BY <1>1, <2>2 DEF SendCheck
    <3>2. mgr.pc = "open" => wr.conn \notin alive
      BY <1>0, <2>2 DEF WriterShape
    <3>3. Cover' /\ BufferCovered'
      BY <1>0, <1>a, <1>b, <1>c, <2>1, <2>2, <3>1, <3>2 DEF Cover, BufferCovered
    <3> QED BY <1>d, <2>1, <3>1, <3>3
  <2>3. CASE client # 0
    <3>1. sender'.pc = "write" /\ sender'.pack = sender.pack /\ sender'.item = sender.item
          /\ q1' = q1
      BY <1>0, <1>1, <2>3 DEF SendCheck, TypeOK, SenderState
    <3>2. InHand' = InHand
      BY <2>1, <3>1 DEF InHand
    <3> QED BY <1>0, <1>a, <1>b, <2>1, <3>1, <3>2 DEF Cover, BufferCovered, Accounted
  <2> QED BY <2>2, <2>3
<1>2. CASE SendWrite(s)
  <2>1. retry' = retry /\ sender.pc = "write"
    BY <1>2 DEF SendWrite
  <2>2. CASE CanWrite
    <3>1. /\ IF sender.item = "pack" THEN Buffer(sender.pack)
             ELSE UNCHANGED <<wr, handed>>
          /\ IF sender.item = "sync" \/ Flushes(sender.pack)
             THEN sender' = [sender EXCEPT !.pc = "flush"] /\ UNCHANGED q1
             ELSE Return
          /\ UNCHANGED <<client, lastConnectedTime, alive>>
      BY <1>2, <2>2 DEF SendWrite
    <3>2. /\ Range(handed) \subseteq Range(handed') /\ wr'.conn = wr.conn
          /\ Range(wr'.buf) \subseteq Range(handed) \cup Range(wr.buf) \cup InHand
          /\ Range(handed) \cup Range(wr.buf) \cup InHand
               \subseteq Range(handed') \cup Range(wr'.buf)
          /\ Range(wr'.buf) \subseteq Range(wr.buf) \cup InHand
      <4>1. CASE sender.item = "pack"
        <5>1. Buffer(sender.pack) /\ InHand = {sender.pack}
          BY <3>1, <4>1, <2>1 DEF InHand
        <5>2. /\ wr' = [conn |-> wr.conn, buf |-> wr'.buf, state |-> wr.state]
              /\ Range(handed') \cup Range(wr'.buf)
                   = Range(handed) \cup Range(wr.buf) \cup {sender.pack}
              /\ Range(handed) \subseteq Range(handed')
          BY <1>0, <1>b, <5>1, BufferFacts
        <5>3. Range(wr'.buf) \subseteq Range(wr.buf) \cup {sender.pack}
          BY <1>0, <1>b, <5>1, BufferRange
        <5>4. wr'.conn = wr.conn
          BY <5>2
        <5> QED BY <5>1, <5>2, <5>3, <5>4
      <4>2. CASE sender.item # "pack"
        BY <3>1, <4>2 DEF InHand
      <4> QED BY <4>1, <4>2
    <3>3. InHand \subseteq Range(retry) \cup unprotected
      BY <1>0, <2>1 DEF Cover, InHand
    <3>4. \/ Return
          \/ /\ sender'.pc = "flush" /\ sender'.pack = sender.pack
             /\ sender'.item = sender.item /\ q1' = q1
      BY <1>0, <3>1 DEF TypeOK, SenderState
    <3>5. InHand' = {}
      BY <3>4, <1>c DEF InHand
    <3>6. Cover'
      BY <1>0, <1>a, <1>b, <1>c, <2>1, <3>1, <3>2, <3>4, <3>5 DEF Cover
    <3>7. BufferCovered'
      BY <1>0, <1>a, <2>1, <3>1, <3>2, <3>3 DEF BufferCovered
    <3>8. Accounted'
      <4>1. CASE Return
        BY <4>1, <1>d, <2>1, <3>2
      <4>2. CASE sender'.pack = sender.pack /\ q1' = q1
        BY <1>0, <1>a, <1>b, <2>1, <3>2, <4>2 DEF Accounted
      <4> QED BY <3>4, <4>1, <4>2
    <3> QED BY <3>6, <3>7, <3>8
  <2>3. CASE ~CanWrite
    <3>1. wr' = [wr EXCEPT !.state = "failed"] /\ Close /\ Return /\ handed' = handed
      BY <1>2, <2>3 DEF SendWrite
    <3> QED BY <1>0, <1>a, <1>b, <1>c, <1>d, <2>1, <3>1, AbortCover
  <2> QED BY <2>2, <2>3
<1>3. CASE SendFlush(s)
  <2>1. retry' = retry /\ sender.pc = "flush"
    BY <1>3 DEF SendFlush
  <2>2. CASE CanFlush
    <3>1. /\ handed' = handed \o wr.buf /\ wr' = [wr EXCEPT !.buf = <<>>]
          /\ sender' = [sender EXCEPT !.pc = "clear"]
          /\ UNCHANGED <<q1, client, lastConnectedTime, alive>>
      BY <1>3, <2>2 DEF SendFlush
    <3>2. /\ Range(handed') = Range(handed) \cup Range(wr.buf)
          /\ wr' = [conn |-> wr.conn, buf |-> <<>>, state |-> wr.state]
      BY <1>0, <3>1, FlushFacts
    <3>3. sender'.pc = "clear" /\ sender'.pack = sender.pack /\ sender'.item = sender.item
      BY <1>0, <3>1 DEF TypeOK, SenderState
    <3>4. mgr.pc = "open" /\ wr.conn \in alive
      <4>1. wr.conn # 0 /\ wr.conn \in alive
        BY <2>2 DEF CanFlush
      <4>2. mgr.pc \in {"open", "closed", "exit"}
        BY <1>0, <1>b DEF TypeOK, ManagerState
      <4> QED BY <1>0, <4>1, <4>2 DEF WriterShape
    <3>5. InHand = {} /\ InHand' = {}
      BY <2>1, <3>3 DEF InHand
    <3>6. Range(retry) \subseteq Range(handed') \cup unprotected
      BY <1>0, <3>2, <3>4, <3>5 DEF Cover
    <3>7. wr'.buf = <<>> /\ Range(wr'.buf) = {} /\ wr'.conn = wr.conn
      BY <3>2, RangeEmpty
    <3>8. Cover'
      BY <1>0, <1>a, <1>b, <2>1, <3>1, <3>3, <3>4, <3>5, <3>6, <3>7 DEF Cover
    <3>9. BufferCovered' /\ Accounted'
      BY <1>0, <1>a, <1>b, <2>1, <3>1, <3>2, <3>3, <3>7 DEF BufferCovered, Accounted
    <3> QED BY <3>8, <3>9
  <2>3. CASE ~CanFlush
    <3>1. wr' = [wr EXCEPT !.state = "failed"] /\ Close /\ Return /\ handed' = handed
      BY <1>3, <2>3 DEF SendFlush
    <3> QED BY <1>0, <1>a, <1>b, <1>c, <1>d, <2>1, <3>1, AbortCover
  <2> QED BY <2>2, <2>3
<1>4. CASE SendClear(s)
  <2>1. retry' = <<>> /\ Return /\ UNCHANGED <<linkVars, wr, handed>> /\ sender.pc = "clear"
    BY <1>4 DEF SendClear
  <2>2. Range(retry') = {} /\ Range(wr.buf) = {}
        /\ Range(retry) \subseteq Range(handed) \cup unprotected
    BY <1>0, <2>1, RangeEmpty DEF Cover
  <2>3. Cover'
    BY <1>0, <1>a, <1>b, <1>c, <2>1, <2>2 DEF Cover
  <2>4. BufferCovered'
    BY <2>1, <2>2 DEF BufferCovered
  <2>5. Accounted'
    <3>1. sender.pack \in Range(handed) \cup unprotected \/ sender'.pack = sender.pack
      BY <1>0, <1>c, <2>1, <2>2 DEF Cover
    <3> QED BY <1>0, <1>a, <1>b, <1>c, <2>1, <2>2, <3>1 DEF Accounted
  <2> QED BY <2>3, <2>4, <2>5
<1> QED BY <1>1, <1>2, <1>3, <1>4

(* SendFailover: packs move from RetryQueue through the writer to the      *)
(* socket, or become unprotected when it gives up.                         *)
LEMMA FailoverCover ==
  ASSUME IInv, Failover, Prompt, FailoverWrite \/ FailoverFlush
  PROVE  Cover' /\ BufferCovered' /\ Accounted'
<1> USE ConstantsAssumption DEF queueVars, linkVars, mgrVars, cfgVars, envVars
<1>0. /\ TypeOK /\ Shape /\ SenderShape /\ WriterShape
      /\ Cover /\ BufferCovered /\ Accounted
  BY DEF IInv, CoverInv, Shape
<1>a. /\ mgr.pc = "failover" /\ sender.pc \in {"idle", "wait"} /\ client = 0
      /\ UNCHANGED <<q2, offered, accepted, linkVars, cfgVars, envVars, sender, reading>>
  BY <1>0 DEF FailoverWrite, FailoverFlush, Cover, WriterShape
<1>b. /\ retry \in Seq(Item) /\ Len(retry) \in Nat /\ mgr.sz \in Nat
      /\ Len(retry) <= mgr.sz
  BY <1>0, <1>a DEF TypeOK, ManagerState, Cover
<1>c. BufferCovered'
  BY <1>a DEF BufferCovered
<1>d. ASSUME FailoverFails
      PROVE  /\ mgr'.pc = "clear" /\ wr'.buf = wr.buf /\ unprotected \subseteq unprotected'
             /\ Range(retry) \cup Range(wr.buf) \subseteq unprotected'
  BY <1>0, <1>d DEF FailoverFails, TypeOK, ManagerState, WriterState
<1>1. CASE FailoverWrite
  <2>0. mgr.sz > 0
    BY <1>1 DEF FailoverWrite
  <2>1. CASE retry = <<>>
    <3>1. mgr' = [mgr EXCEPT !.sz = @ - 1] /\ UNCHANGED <<q1, retry, wr, handed, unprotected>>
      BY <1>1, <2>1 DEF FailoverWrite
    <3>2. mgr'.pc = "failover" /\ mgr'.sz = mgr.sz - 1
      BY <1>0, <1>a, <2>0, <3>1, Countdown
    <3>3. Len(retry') <= mgr'.sz
      BY <1>b, <2>0, <2>1, <3>1, <3>2
    <3> QED BY <1>0, <1>a, <1>c, <3>1, <3>2, <3>3 DEF Cover, Accounted
  <2>2. CASE retry # <<>>
    <3>1. retry' = Tail(retry) /\ q1' = TooBig(Head(retry))
      BY <1>1, <2>2 DEF FailoverWrite
    <3>2. /\ Range(retry) = {Head(retry)} \cup Range(Tail(retry))
          /\ Head(retry) \in Item /\ Len(Tail(retry)) = Len(retry) - 1
      BY <1>b, <2>2, RangeTail
    <3>3. Range(q1) \subseteq Range(q1')
      BY <1>0, <3>1, TooBigType
    <3>4. CASE CanWrite
      <4>1. Buffer(Head(retry)) /\ mgr' = [mgr EXCEPT !.sz = @ - 1] /\ UNCHANGED unprotected
        BY <1>1, <2>2, <3>4 DEF FailoverWrite
      <4>2. mgr'.pc = "failover" /\ mgr'.sz = mgr.sz - 1
        BY <1>0, <1>a, <2>0, <4>1, Countdown
      <4>3. Range(handed') \cup Range(wr'.buf)
              = Range(handed) \cup Range(wr.buf) \cup {Head(retry)}
        BY <1>0, <3>2, <4>1, BufferFacts
      <4>4. Len(retry') <= mgr'.sz
        BY <1>b, <3>1, <3>2, <4>2
      <4>5. Cover'
        BY <1>0, <1>a, <4>2, <4>4 DEF Cover
      <4>6. Accounted'
        BY <1>0, <1>a, <3>1, <3>2, <3>3, <4>1, <4>2, <4>3 DEF Accounted
      <4> QED BY <1>c, <4>5, <4>6
    <3>5. CASE ~CanWrite
      <4>1. FailoverFails /\ UNCHANGED handed
        BY <1>1, <2>2, <3>5 DEF FailoverWrite
      <4>2. Cover'
        BY <1>0, <1>a, <1>d, <3>1, <3>2, <4>1 DEF Cover
      <4>3. Accounted'
        BY <1>0, <1>a, <1>d, <3>1, <3>2, <3>3, <4>1 DEF Accounted
      <4> QED BY <1>c, <4>2, <4>3
    <3> QED BY <3>4, <3>5
  <2> QED BY <2>1, <2>2
<1>2. CASE FailoverFlush
  <2>0. mgr.sz = 0 /\ retry' = retry /\ q1' = q1
    BY <1>2 DEF FailoverFlush
  <2>1. retry = <<>> /\ Range(retry) = {}
    BY <1>b, <2>0, RangeEmpty
  <2>2. CASE CanFlush
    <3>1. /\ handed' = handed \o wr.buf /\ wr' = [wr EXCEPT !.buf = <<>>]
          /\ mgr' = [mgr EXCEPT !.pc = "clear"] /\ UNCHANGED unprotected
      BY <1>2, <2>2 DEF FailoverFlush
    <3>2. mgr'.pc = "clear"
      BY <1>0, <3>1 DEF TypeOK, ManagerState
    <3>3. Range(handed') = Range(handed) \cup Range(wr.buf) /\ wr'.buf = <<>>
      BY <1>0, <3>1, FlushFacts
    <3>4. Range(wr'.buf) = {}
      BY <3>3, RangeEmpty
    <3>5. Cover'
      BY <1>0, <1>a, <2>0, <2>1, <3>1, <3>2, <3>4 DEF Cover
    <3>6. Accounted'
      BY <1>0, <1>a, <2>0, <3>1, <3>2, <3>3 DEF Accounted
    <3> QED BY <1>c, <3>5, <3>6
  <2>3. CASE ~CanFlush
    <3>1. FailoverFails /\ UNCHANGED handed
      BY <1>2, <2>3 DEF FailoverFlush
    <3>2. Cover'
      BY <1>0, <1>a, <1>d, <2>0, <3>1 DEF Cover
    <3>3. Accounted'
      BY <1>0, <1>a, <1>d, <2>0, <3>1 DEF Accounted
    <3> QED BY <1>c, <3>2, <3>3
  <2> QED BY <2>2, <2>3
<1> QED BY <1>1, <1>2

(* The rest of open, and the poll that sees the session closed. *)
LEMMA OpenCover ==
  ASSUME IInv, Failover, Prompt,
         OpenFail \/ Dial \/ OpenClear \/ Assign \/ SeeClosed \/ ManagerExit
  PROVE  Cover' /\ BufferCovered' /\ Accounted'
<1> USE ConstantsAssumption DEF queueVars, linkVars, mgrVars, cfgVars, envVars
<1>0. /\ TypeOK /\ Shape /\ SenderShape /\ WriterShape
      /\ Cover /\ BufferCovered /\ Accounted
  BY DEF IInv, CoverInv, Shape
<1>1. CASE OpenFail
  <2>1. /\ Close /\ mgr.pc = "closed"
        /\ UNCHANGED <<queueVars, retry, wr, sender, mgr, handed, unprotected, shutdown>>
    BY <1>1 DEF OpenFail, MayOpen
  <2>2. client' = 0
    BY <1>0, <2>1, CloseFacts
  <2> QED BY <1>0, <2>1, <2>2 DEF Cover, BufferCovered, Accounted, InHand
<1>2. CASE Dial
  <2>1. /\ mgr' = [pc |-> AfterConnect, conn |-> conns + 1, sz |-> Len(retry)]
        /\ wr' = [conn |-> conns + 1, buf |-> <<>>, state |-> "ok"]
        /\ mgr.pc = "closed" /\ sender.pc \in {"idle", "wait"}
        /\ UNCHANGED <<queueVars, envVars, retry, client, sender, handed, unprotected>>
    BY <1>2 DEF Dial, OpenWriter, NewWriter, MayOpen
  <2>2. mgr'.sz = Len(retry) /\ Len(retry) \in Nat /\ client = 0
    BY <1>0, <2>1 DEF TypeOK, WriterShape
  <2>3. wr'.buf = <<>> /\ Range(wr'.buf) = {}
    BY <2>1, RangeEmpty
  <2>4. mgr'.pc = "failover" \/ (mgr'.pc = "clear" /\ Range(retry) = {})
    BY <2>1, RangeEmpty DEF AfterConnect
  <2>5. Cover'
    BY <1>0, <2>1, <2>2, <2>3, <2>4 DEF Cover
  <2>6. BufferCovered' /\ Accounted'
    BY <1>0, <2>1, <2>2, <2>3, <2>4 DEF BufferCovered, Accounted
  <2> QED BY <2>5, <2>6
<1>3. CASE OpenClear
  <2>1. /\ mgr.pc = "clear" /\ mgr'.pc = "assign" /\ retry' = <<>> /\ client = 0
        /\ UNCHANGED <<queueVars, linkVars, envVars, wr, sender, handed, unprotected>>
    BY <1>0, <1>3 DEF OpenClear, TypeOK, ManagerState, WriterShape
  <2>2. Range(retry) \subseteq unprotected /\ Range(wr.buf) \subseteq unprotected
        /\ sender.pc \in {"idle", "wait"}
    BY <1>0, <2>1 DEF Cover
  <2>3. Cover'
    BY <1>0, <2>1, <2>2 DEF Cover
  <2>4. BufferCovered' /\ Accounted'
    BY <1>0, <2>1, <2>2 DEF BufferCovered, Accounted
  <2> QED BY <2>3, <2>4
<1>4. CASE Assign
  <2>1. /\ mgr.pc = "assign" /\ mgr'.pc = "open"
        /\ UNCHANGED <<queueVars, envVars, retry, wr, alive, sender, handed, unprotected>>
    BY <1>0, <1>4 DEF Assign, TypeOK, ManagerState
  <2>2. Range(retry) = {} /\ Range(wr.buf) \subseteq unprotected
        /\ sender.pc \in {"idle", "wait"}
    BY <1>0, <2>1, RangeEmpty DEF Cover
  <2>3. Cover'
    BY <1>0, <2>1, <2>2 DEF Cover
  <2>4. BufferCovered' /\ Accounted'
    BY <1>0, <2>1, <2>2 DEF BufferCovered, Accounted
  <2> QED BY <2>3, <2>4
<1>5. CASE SeeClosed
  <2>1. /\ mgr.pc = "open" /\ mgr'.pc = "closed"
        /\ UNCHANGED <<queueVars, linkVars, envVars, retry, wr, sender, handed, unprotected>>
    BY <1>0, <1>5 DEF SeeClosed, TypeOK, ManagerState
  <2> QED BY <1>0, <2>1 DEF Cover, BufferCovered, Accounted
<1>6. CASE ManagerExit
  <2>1. /\ mgr'.pc = "exit" /\ mgr.pc \in {"closed", "open"} /\ shutdown' /\ wr'.buf = <<>>
        /\ UNCHANGED <<retry, sender, handed, unprotected>>
    BY <1>0, <1>6 DEF ManagerExit, TypeOK, ManagerState, NewWriter
  <2>2. Range(wr'.buf) = {}
    BY <2>1, RangeEmpty
  <2>3. Cover'
    BY <1>0, <2>1 DEF Cover
  <2>4. BufferCovered' /\ Accounted'
    BY <2>1, <2>2 DEF BufferCovered, Accounted
  <2> QED BY <2>3, <2>4
<1> QED BY <1>1, <1>2, <1>3, <1>4, <1>5, <1>6

(* The receiver, the configuration and the environment. *)
LEMMA EnvCover ==
  ASSUME IInv, Failover, Prompt,
         \/ ReadStart \/ ReadFail \/ (\E c \in alive : ConnectionBreaks(c))
         \/ ChangeCypherLevel \/ Shutdown \/ SenderExit
  PROVE  Cover' /\ BufferCovered' /\ Accounted'
<1> USE ConstantsAssumption DEF queueVars, linkVars, mgrVars, cfgVars, envVars
<1>0. /\ TypeOK /\ Shape /\ SenderShape /\ WriterShape
      /\ Cover /\ BufferCovered /\ Accounted
  BY DEF IInv, CoverInv, Shape
<1>1. UNCHANGED <<retry, wr, mgr, sender, handed, unprotected>>
  BY DEF ReadStart, ReadFail, ConnectionBreaks, ChangeCypherLevel, Shutdown, SenderExit
<1>2. alive' \subseteq alive /\ (client' = client \/ client' = 0)
  BY DEF ReadStart, ReadFail, ConnectionBreaks, ChangeCypherLevel, Shutdown, SenderExit, Close
<1>3. Cover' /\ BufferCovered'
  BY <1>0, <1>1, <1>2 DEF Cover, BufferCovered, InHand
<1>4. shutdown' \/ (shutdown' = shutdown /\ UNCHANGED <<q1, q2, accepted>>)
  BY DEF ReadStart, ReadFail, ConnectionBreaks, ChangeCypherLevel, Shutdown, SenderExit
<1>5. Accounted'
  BY <1>0, <1>1, <1>4 DEF Accounted
<1> QED BY <1>3, <1>5

(* Every step keeps the inductive invariant. *)
LEMMA CoverStep == IInv /\ [Next]_vars => IInv'
<1> SUFFICES ASSUME IInv, [Next]_vars PROVE IInv'
  OBVIOUS
<1>1. TypeOK' /\ Shape'
  BY TypesStep DEF IInv
<1>2. ASSUME Failover, Prompt PROVE Cover' /\ BufferCovered' /\ Accounted'
  <2>1. CASE UNCHANGED vars
    BY <1>2, <2>1 DEF IInv, CoverInv, vars, Cover, BufferCovered, Accounted, InHand
  <2>2. CASE Next
    BY <1>2, <2>2, AppCover, TakeCover, SendCover, FailoverCover, OpenCover, EnvCover
       DEF Next
  <2> QED BY <2>1, <2>2
<1> QED BY <1>1, <1>2 DEF IInv, CoverInv

(* What runSend wrote to the open session but did not flush is still in    *)
(* RetryQueue, whatever fails and whoever closes the connection.           *)
THEOREM BufferAlwaysCovered == Spec => []BufferCovered
<1>1. IInv => BufferCovered
  BY DEF IInv, CoverInv, BufferCovered
<1> QED BY <1>1, InitCover, CoverStep, PTL DEF Spec

(* With fail-over on, no pack TcpQueue took disappears, except through the *)
(* losses the code accepts.                                                *)
THEOREM NothingDisappears == Spec => []Accounted
<1>1. IInv => Accounted
  BY DEF IInv, CoverInv, Accounted
<1> QED BY <1>1, InitCover, CoverStep, PTL DEF Spec
=============================================================================
