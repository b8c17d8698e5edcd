---------------------------- MODULE TcpTransport ----------------------------
(***************************************************************************)
(* The network half of the agent (agent/net): the two-priority TcpQueue,   *)
(* the sender goroutines (Sender.go, runSend), the session manager         *)
(* goroutine that opens the connection (TcpSession.go, GetTcpSession and   *)
(* open), the receiver goroutine whose failed Read closes it               *)
(* (Receiver.go, run), and the RetryQueue that re-sends, after a           *)
(* reconnect, what was written but not flushed.                            *)
(*                                                                         *)
(* A pack is "handed" when a socket accepted its bytes: what TCP does with *)
(* it afterwards is outside the program.  bufio.Writer is modelled by what *)
(* it does: it keeps whole packs until it is full or flushed, and its      *)
(* first error is sticky.                                                  *)
(***************************************************************************)
EXTENDS Naturals, Sequences, Functions

CONSTANTS
  High,        \* packs sent with Send (queue 1)
  Low,         \* packs sent with SendProfile (queue 2)
  FlushPacks,  \* packs whose flush flag is set
  BigPacks,    \* packs longer than net_send_max_bytes
  Overflow,    \* the "Too big data" LogSinkPack sent after one
  Senders,     \* queue_tcp_sender_thread_count goroutines
  HostCount,   \* len(conf.WhatapHost)
  Queue1Cap, Queue2Cap,
  RetryCap,    \* capacity of RetryQueue (256)
  WrCap,       \* packs that fit in the bufio.Writer
  Failover,    \* net_failover_retry_send_data_enabled
  Prompt,      \* the manager's 3 s / 5 s polls outlast an aborted Send or Read
  MaxFaults,   \* bound: connection faults
  MaxLevel,    \* bound: changes of cypher_level
  None

Packs == High \cup Low
Item == Packs \cup {Overflow}
Hosts == 0 .. HostCount - 1

ASSUME ConstantsAssumption ==
  /\ HostCount \in Nat \ {0}
  /\ Queue1Cap \in Nat /\ Queue2Cap \in Nat
  /\ RetryCap \in Nat \ {0} /\ WrCap \in Nat \ {0}
  /\ Failover \in BOOLEAN /\ Prompt \in BOOLEAN
  /\ MaxFaults \in Nat /\ MaxLevel \in Nat
  /\ FlushPacks \subseteq Packs /\ BigPacks \subseteq Packs
  /\ None \notin Packs \cup Senders \cup {Overflow}
  /\ Overflow \notin Packs

VARIABLES
  q1, q2,      \* TcpQueue
  offered,     \* packs the application has passed to Send or SendProfile
  accepted,    \* those TcpQueue took
  retry,       \* TcpSession.RetryQueue
  client,      \* TcpSession.client: a connection number, 0 for nil
  wr,          \* TcpSession.wr: connection (0: nil), buffer, sticky error
  lastConnectedTime, \* 0: none, 1: set by open
  dest,        \* TcpSession.dest
  conns,       \* number of connections dialled so far
  alive,       \* connections whose socket still accepts bytes
  up,          \* hosts that answer
  sender,      \* the iteration of runSend under lock: holder, pc, pack, item
  level,       \* cypher_level local to each sender goroutine
  confLevel,   \* conf.CypherLevel
  mgr,         \* the manager goroutine: pc, its new connection, sz - i
  reading,     \* connection the receiver is blocked on, 0 for none
  handed,      \* packs accepted by sockets, in order
  unprotected, \* packs that left RetryQueue other than through a flush
  faults, shutdown

queueVars == <<q1, q2, offered, accepted>>
linkVars == <<client, lastConnectedTime, alive>>
mgrVars == <<dest, conns, mgr>>
cfgVars == <<level, confLevel>>
envVars == <<up, faults, shutdown>>
vars == <<q1, q2, offered, accepted, retry, client, wr, lastConnectedTime, dest,
          conns, alive, up, sender, level, confLevel, mgr, reading, handed,
          unprotected, faults, shutdown>>

Idle == [holder |-> None, pc |-> "idle", pack |-> None, item |-> "pack"]

NewWriter(c) == [conn |-> c, buf |-> <<>>, state |-> "ok"]

Init ==
  /\ q1 = <<>> /\ q2 = <<>>
  /\ offered = {} /\ accepted = {}
  /\ retry = <<>>
  /\ client = 0 /\ wr = NewWriter(0) /\ lastConnectedTime = 0
  /\ dest = 0 /\ conns = 0 /\ alive = {}
  /\ up \in (SUBSET Hosts) \ {{}}
  /\ sender = Idle
  /\ confLevel = 0 /\ level = [s \in Senders |-> 0]
  /\ mgr = [pc |-> "closed", conn |-> 0, sz |-> 0]
  /\ reading = 0
  /\ handed = <<>> /\ unprotected = {}
  /\ faults = 0 /\ shutdown = FALSE

-----------------------------------------------------------------------------
(* Application threads. *)

Put(q, cap, p) == IF Len(q) < cap THEN Append(q, p) ELSE q

(* Packs are numbered in the order each queue receives them. *)
InOrder(p, S) == \A r \in S : r < p => r \in offered

Send(p) ==
  /\ p \in High \ offered /\ InOrder(p, High)
  /\ offered' = offered \cup {p}
  /\ q1' = Put(q1, Queue1Cap, p)
  /\ accepted' = IF Len(q1) < Queue1Cap THEN accepted \cup {p} ELSE accepted
  /\ UNCHANGED <<linkVars, mgrVars, cfgVars, envVars, q2, retry, wr, sender,
                 reading, handed, unprotected>>

SendProfile(p) ==
  /\ p \in Low \ offered /\ InOrder(p, Low)
  /\ offered' = offered \cup {p}
  /\ q2' = Put(q2, Queue2Cap, p)
  /\ accepted' = IF Len(q2) < Queue2Cap THEN accepted \cup {p} ELSE accepted
  /\ UNCHANGED <<linkVars, mgrVars, cfgVars, envVars, q1, retry, wr, sender,
                 reading, handed, unprotected>>

-----------------------------------------------------------------------------
(* TcpSession.Close: whatever connection is current is closed locally. *)

CloseKeepsClient ==  \* mutant: client is not set to nil
  /\ UNCHANGED client
  /\ alive' = alive \ {client}
  /\ lastConnectedTime' = 0

Close ==
  /\ client' = 0
  /\ alive' = alive \ {client}
  /\ lastConnectedTime' = 0

(* What is queued for a pack that is too long. *)
TooBig(p) == IF p \in BigPacks THEN Put(q1, Queue1Cap, Overflow) ELSE q1

(* Send returns; after a time sync runSend goes on with the pack, after    *)
(* the pack the iteration ends and lock is released.                       *)
Return ==
  IF sender.item = "sync"
  THEN /\ sender' = [sender EXCEPT !.item = "pack", !.pc = "put"]
       /\ UNCHANGED q1
  ELSE /\ sender' = Idle
       /\ q1' = TooBig(sender.pack)

-----------------------------------------------------------------------------
(* Sender goroutines: one iteration of runSend, under lock. *)

(* GetTimeout: queue 1 first.  An empty queue ends the iteration. *)
Dequeue(s) ==
  /\ sender.holder = None /\ ~shutdown
  /\ \/ /\ q1 # <<>>
        /\ sender' = [holder |-> s, pc |-> "wait", pack |-> Head(q1), item |-> "pack"]
        /\ q1' = Tail(q1) /\ UNCHANGED q2
     \/ /\ q1 = <<>> /\ q2 # <<>>
        /\ sender' = [holder |-> s, pc |-> "wait", pack |-> Head(q2), item |-> "pack"]
        /\ q2' = Tail(q2) /\ UNCHANGED q1
  /\ UNCHANGED <<linkVars, mgrVars, cfgVars, envVars, offered, accepted,
                 retry, wr, reading, handed, unprotected>>

(* The session is open but cypher_level changed: the connection is closed  *)
(* and the iteration returns with the pack it had taken.                   *)
CypherChanged(s) ==
  /\ sender.holder = s /\ sender.pc = "wait" /\ client # 0
  /\ level[s] # confLevel
  /\ level' = [level EXCEPT ![s] = confLevel]
  /\ Close
  /\ sender' = Idle
  /\ unprotected' = unprotected \cup {sender.pack}
  /\ UNCHANGED <<queueVars, mgrVars, envVars, retry, wr, confLevel, reading,
                 handed>>

(* The session is open: a time sync is due and sent first, or it is not. *)
SessionOpen(s) ==
  /\ sender.holder = s /\ sender.pc = "wait" /\ client # 0
  /\ level[s] = confLevel
  /\ \/ sender' = [sender EXCEPT !.pc = "check", !.item = "sync"]
     \/ sender' = [sender EXCEPT !.pc = "put"]
  /\ UNCHANGED <<queueVars, linkVars, mgrVars, cfgVars, envVars, retry, wr,
                 reading, handed, unprotected>>

(* RequestQueue.PutForce: the oldest entry makes room. *)
PutForceUnbounded(q, p) == Append(q, p)  \* mutant: no eviction
PutForceRejects(q, p) == IF Len(q) < RetryCap THEN Append(q, p) ELSE q  \* mutant: Put
PutForceFront(q, p) ==  \* mutant: newest first
  <<p>> \o (IF Len(q) < RetryCap THEN q ELSE Tail(q))

PutForce(q, p) == IF Len(q) < RetryCap THEN Append(q, p) ELSE Append(Tail(q), p)
Evicted(q) == IF Len(q) < RetryCap THEN {} ELSE {Head(q)}

RetryPut(s) ==
  /\ sender.holder = s /\ sender.pc = "put"
  /\ sender' = [sender EXCEPT !.pc = "check"]
  /\ IF Failover
     THEN /\ retry' = PutForce(retry, sender.pack)
          /\ unprotected' = unprotected \cup Evicted(retry)
     ELSE UNCHANGED <<retry, unprotected>>
  /\ UNCHANGED <<queueVars, linkVars, mgrVars, cfgVars, envVars, wr, reading,
                 handed>>

(* TcpSession.Send, up to the write deadline: a nil client fails it. *)
SendCheck(s) ==
  /\ sender.holder = s /\ sender.pc = "check"
  /\ IF client = 0 THEN Return
     ELSE sender' = [sender EXCEPT !.pc = "write"] /\ UNCHANGED q1
  /\ UNCHANGED <<q2, offered, accepted, linkVars, mgrVars, cfgVars, envVars, retry, wr,
                 reading, handed, unprotected>>

(* bufio.Writer.Write of one pack: a full buffer is first written out. *)
Spills == Len(wr.buf) = WrCap
CanWrite == wr.conn # 0 /\ wr.state = "ok" /\ (Spills => wr.conn \in alive)

BufferKeeps(p) ==  \* mutant: the buffer is not emptied when it spills
  /\ wr' = [wr EXCEPT !.buf = IF Spills THEN @ ELSE Append(@, p)]
  /\ handed' = IF Spills THEN handed \o wr.buf ELSE handed

Buffer(p) ==
  /\ wr' = [wr EXCEPT !.buf = IF Spills THEN <<p>> ELSE Append(@, p)]
  /\ handed' = IF Spills THEN handed \o wr.buf ELSE handed

Flushes(p) == p \in FlushPacks \cup {Overflow}

SendWrite(s) ==
  /\ sender.holder = s /\ sender.pc = "write"
  /\ \/ /\ CanWrite
        /\ IF sender.item = "pack" THEN Buffer(sender.pack)
           ELSE UNCHANGED <<wr, handed>>
        /\ IF sender.item = "sync" \/ Flushes(sender.pack)
           THEN sender' = [sender EXCEPT !.pc = "flush"] /\ UNCHANGED q1
           ELSE Return
        /\ UNCHANGED <<client, lastConnectedTime, alive>>
     \/ /\ ~CanWrite
        /\ wr' = [wr EXCEPT !.state = "failed"]
        /\ Close /\ Return
        /\ UNCHANGED handed
  /\ UNCHANGED <<q2, offered, accepted, mgrVars, cfgVars, envVars, retry, reading,
                 unprotected>>

CanFlush == wr.conn # 0 /\ wr.state = "ok" /\ wr.conn \in alive

SendFlush(s) ==
  /\ sender.holder = s /\ sender.pc = "flush"
  /\ \/ /\ CanFlush
        /\ handed' = handed \o wr.buf
        /\ wr' = [wr EXCEPT !.buf = <<>>]
        /\ sender' = [sender EXCEPT !.pc = "clear"]
        /\ UNCHANGED <<q1, client, lastConnectedTime, alive>>
     \/ /\ ~CanFlush
        /\ wr' = [wr EXCEPT !.state = "failed"]
        /\ Close /\ Return
        /\ UNCHANGED handed
  /\ UNCHANGED <<q2, offered, accepted, mgrVars, cfgVars, envVars, retry, reading,
                 unprotected>>

(* RetryQueue.Clear after a successful flush. *)
SendClear(s) ==
  /\ sender.holder = s /\ sender.pc = "clear"
  /\ retry' = <<>>
  /\ Return
  /\ UNCHANGED <<q2, offered, accepted, linkVars, mgrVars, cfgVars, envVars, wr, reading,
                 handed, unprotected>>

-----------------------------------------------------------------------------
(* The manager goroutine: open, with sessionLock held. *)

NextDestNoWrap ==  \* mutant: the last host is never left
  IF dest + 1 >= HostCount THEN dest ELSE dest + 1

NextDest == IF dest + 1 >= HostCount THEN 0 ELSE dest + 1

(* With Prompt, an aborted Send or Read has returned by the next poll. *)
MayOpen ==
  /\ mgr.pc = "closed" /\ ~shutdown
  /\ Prompt => /\ sender.pc \in {"idle", "wait"}
               /\ reading \in alive \cup {0}

(* The host does not answer, or the key exchange fails. *)
OpenFail ==
  /\ MayOpen
  /\ dest' = NextDest
  /\ \/ NextDest \notin up /\ UNCHANGED faults
     \/ faults < MaxFaults /\ faults' = faults + 1
  /\ Close
  /\ UNCHANGED <<queueVars, cfgVars, retry, wr, conns, up, sender, mgr,
                 reading, handed, unprotected, shutdown>>

OpenWriterOnce ==  \* mutant: an existing writer is kept
  IF wr.conn = 0 THEN NewWriter(conns + 1) ELSE wr

OpenWriter == NewWriter(conns + 1)

AfterConnectClear == "clear"  \* mutant: no SendFailover

AfterConnect == IF Failover /\ retry # <<>> THEN "failover" ELSE "clear"

(* Dial and key exchange succeed: new writer, LastConnectedTime set, and   *)
(* SendFailover reads the size of RetryQueue.                              *)
Dial ==
  /\ MayOpen
  /\ NextDest \in up
  /\ dest' = NextDest
  /\ conns' = conns + 1
  /\ alive' = alive \cup {conns + 1}
  /\ wr' = OpenWriter
  /\ lastConnectedTime' = 1
  /\ mgr' = [pc |-> AfterConnect, conn |-> conns + 1, sz |-> Len(retry)]
  /\ UNCHANGED <<queueVars, cfgVars, envVars, retry, client, sender, reading,
                 handed, unprotected>>

(* SendFailover gives up: what it took and what is left will be cleared. *)
FailoverFails ==
  /\ wr' = [wr EXCEPT !.state = "failed"]
  /\ mgr' = [mgr EXCEPT !.pc = "clear"]
  /\ unprotected' = unprotected \cup Range(retry) \cup Range(wr.buf)

(* One round of SendFailover's loop: GetNoWait and Write. *)
FailoverWrite ==
  /\ mgr.pc = "failover" /\ mgr.sz > 0
  /\ \/ retry = <<>> /\ mgr' = [mgr EXCEPT !.sz = @ - 1]
        /\ UNCHANGED <<q1, retry, wr, handed, unprotected>>
     \/ /\ retry # <<>> /\ CanWrite
        /\ retry' = Tail(retry) /\ q1' = TooBig(Head(retry))
        /\ Buffer(Head(retry))
        /\ mgr' = [mgr EXCEPT !.sz = @ - 1]
        /\ UNCHANGED unprotected
     \/ /\ retry # <<>> /\ ~CanWrite
        /\ retry' = Tail(retry) /\ q1' = TooBig(Head(retry))
        /\ FailoverFails
        /\ UNCHANGED handed
  /\ UNCHANGED <<q2, offered, accepted, linkVars, cfgVars, envVars, dest, conns, sender,
                 reading>>

FailoverFlush ==
  /\ mgr.pc = "failover" /\ mgr.sz = 0
  /\ \/ /\ CanFlush
        /\ handed' = handed \o wr.buf
        /\ wr' = [wr EXCEPT !.buf = <<>>]
        /\ mgr' = [mgr EXCEPT !.pc = "clear"]
        /\ UNCHANGED unprotected
     \/ ~CanFlush /\ FailoverFails /\ UNCHANGED handed
  /\ UNCHANGED <<queueVars, linkVars, cfgVars, envVars, retry, dest, conns,
                 sender, reading>>

OpenClear ==
  /\ mgr.pc = "clear"
  /\ retry' = <<>>
  /\ mgr' = [mgr EXCEPT !.pc = "assign"]
  /\ UNCHANGED <<queueVars, linkVars, cfgVars, envVars, wr, dest, conns,
                 sender, reading, handed, unprotected>>

Assign ==
  /\ mgr.pc = "assign"
  /\ client' = mgr.conn
  /\ mgr' = [mgr EXCEPT !.pc = "open"]
  /\ UNCHANGED <<queueVars, cfgVars, envVars, retry, wr, lastConnectedTime, dest,
                 conns, alive, sender, reading, handed, unprotected>>

(* for session.isOpen() { sleep }: the poll sees a nil client. *)
SeeClosed ==
  /\ mgr.pc = "open" /\ client = 0 /\ ~shutdown
  /\ mgr' = [mgr EXCEPT !.pc = "closed"]
  /\ UNCHANGED <<queueVars, linkVars, cfgVars, envVars, retry, wr, dest,
                 conns, sender, reading, handed, unprotected>>

-----------------------------------------------------------------------------
(* The receiver goroutine, and the environment. *)

ReadStart ==
  /\ reading = 0 /\ client # 0 /\ ~shutdown
  /\ reading' = wr.conn
  /\ UNCHANGED <<queueVars, linkVars, mgrVars, cfgVars, envVars, retry, wr,
                 sender, handed, unprotected>>

(* Read panics on EOF or on its deadline, and recovers with Close. *)
ReadFail ==
  /\ reading # 0
  /\ \/ reading \notin alive /\ UNCHANGED faults
     \/ reading \in alive /\ faults < MaxFaults /\ faults' = faults + 1
  /\ reading' = 0
  /\ Close
  /\ UNCHANGED <<queueVars, mgrVars, cfgVars, retry, wr, up, sender, handed,
                 unprotected, shutdown>>

ConnectionBreaks(c) ==
  /\ c \in alive /\ faults < MaxFaults
  /\ alive' = alive \ {c}
  /\ faults' = faults + 1
  /\ UNCHANGED <<queueVars, mgrVars, cfgVars, retry, client, wr, lastConnectedTime,
                 up, sender, reading, handed, unprotected, shutdown>>

ChangeCypherLevel ==
  /\ confLevel < MaxLevel
  /\ confLevel' = confLevel + 1
  /\ UNCHANGED <<queueVars, linkVars, mgrVars, envVars, retry, wr, sender,
                 level, reading, handed, unprotected>>

(* config.Shutdown: each goroutine leaves at its next look at the flag; a  *)
(* sender waiting for the session to open does not look.                   *)
Shutdown ==
  /\ ~shutdown
  /\ shutdown' = TRUE
  /\ UNCHANGED <<queueVars, linkVars, mgrVars, cfgVars, retry, wr, up, sender,
                 reading, handed, unprotected, faults>>

SenderExit ==
  /\ shutdown /\ sender.holder = None
  /\ q1' = <<>> /\ q2' = <<>>
  /\ UNCHANGED <<offered, accepted, linkVars, mgrVars, cfgVars, envVars, retry,
                 wr, sender, reading, handed, unprotected>>

ManagerExit ==
  /\ shutdown /\ mgr.pc \in {"closed", "open"}
  /\ mgr' = [mgr EXCEPT !.pc = "exit"]
  /\ wr' = NewWriter(0)
  /\ UNCHANGED <<queueVars, linkVars, cfgVars, envVars, dest, conns, retry,
                 sender, reading, handed, unprotected>>

Next ==
  \/ \E p \in Packs : Send(p) \/ SendProfile(p)
  \/ \E s \in Senders : \/ Dequeue(s) \/ CypherChanged(s) \/ SessionOpen(s)
                        \/ RetryPut(s) \/ SendCheck(s) \/ SendWrite(s)
                        \/ SendFlush(s) \/ SendClear(s)
  \/ OpenFail \/ Dial \/ FailoverWrite \/ FailoverFlush \/ OpenClear \/ Assign
  \/ SeeClosed
  \/ ReadStart \/ ReadFail
  \/ \E c \in alive : ConnectionBreaks(c)
  \/ ChangeCypherLevel
  \/ Shutdown \/ SenderExit \/ ManagerExit

Spec == Init /\ [][Next]_vars

(* Every goroutine keeps being scheduled; a Read on a broken connection    *)
(* fails.  Nothing is assumed of the application or of the network.        *)
Fairness ==
  /\ \A s \in Senders :
       WF_vars(\/ Dequeue(s) \/ CypherChanged(s) \/ SessionOpen(s) \/ RetryPut(s)
               \/ SendCheck(s) \/ SendWrite(s) \/ SendFlush(s) \/ SendClear(s))
  /\ WF_vars(\/ OpenFail \/ Dial \/ FailoverWrite \/ FailoverFlush \/ OpenClear
             \/ Assign \/ SeeClosed)
  /\ WF_vars(ReadStart) /\ WF_vars(reading \notin alive /\ ReadFail)

FairSpec == Spec /\ Fairness

-----------------------------------------------------------------------------
(* Properties. *)

SenderState ==
  [holder : Senders \cup {None},
   pc : {"idle", "wait", "put", "check", "write", "flush", "clear"},
   pack : Item \cup {None}, item : {"pack", "sync"}]

ManagerState ==
  [pc : {"closed", "failover", "clear", "assign", "open", "exit"},
   conn : Nat, sz : Nat]

WriterState == [conn : Nat, buf : Seq(Item), state : {"ok", "failed"}]

(* RetryQueue and the writer keep within their capacities. *)
TypeOK ==
  /\ q1 \in Seq(Item) /\ q2 \in Seq(Packs)
  /\ offered \subseteq Packs /\ accepted \subseteq offered
  /\ retry \in Seq(Item) /\ Len(retry) <= RetryCap
  /\ client \in Nat /\ conns \in Nat /\ alive \subseteq Nat \ {0}
  /\ wr \in WriterState /\ Len(wr.buf) <= WrCap
  /\ lastConnectedTime \in Nat
  /\ dest \in Hosts /\ up \subseteq Hosts
  /\ sender \in SenderState
  /\ confLevel \in Nat /\ level \in [Senders -> Nat]
  /\ mgr \in ManagerState
  /\ reading \in Nat
  /\ handed \in Seq(Item) /\ unprotected \subseteq Item
  /\ faults \in Nat /\ shutdown \in BOOLEAN

(* With fail-over on, no pack that TcpQueue took disappears without one of *)
(* the losses the code accepts (eviction from a full RetryQueue, a failed  *)
(* SendFailover, the pack in hand at a cypher change): it is queued, in    *)
(* the sender's hand, in RetryQueue, being re-sent, or handed to a socket. *)
Accounted ==
  Failover /\ Prompt /\ ~shutdown =>
    accepted \subseteq
      Range(q1) \cup Range(q2) \cup {sender.pack} \cup Range(retry)
        \cup Range(handed) \cup unprotected
        \cup (IF mgr.pc = "failover" THEN Range(wr.buf) ELSE {})

(* What sits unflushed in the bufio.Writer of the open session is also in  *)
(* RetryQueue: losing the connection now loses nothing but evicted packs.  *)
BufferCovered ==
  Failover /\ Prompt /\ client # 0 =>
    Range(wr.buf) \subseteq Range(retry) \cup unprotected

(* Sends go to the connection that Close would close: wr belongs to client *)
(* whatever stale Close a sender or the receiver issues during open.       *)
WriterMatchesClient == client # 0 /\ mgr.pc # "exit" => wr.conn = client

(* An open session has LastConnectedTime > 0, on which DataText waits      *)
(* before it sends buffered texts.                                         *)
ConnectedWhenOpen == Prompt /\ client # 0 => lastConnectedTime > 0

(* Re-sending does not overtake: when a pack reaches a socket every older  *)
(* pack of its queue has reached one before, unless it left RetryQueue     *)
(* unprotected.                                                            *)
HandedInOrder ==
  Failover /\ Prompt =>
    \A i \in DOMAIN handed : \A S \in {High, Low} :
      handed[i] \in S =>
        \A r \in S \cap accepted :
          r < handed[i] => r \in unprotected \/ \E j \in 1 .. i : handed[j] = r

(* Without fail-over a pack is never sent twice, whatever connection fails *)
(* under it and whoever closes it.                                         *)
AtMostOnce ==
  ~Failover => \A i, j \in DOMAIN handed : handed[i] = handed[j] => i = j

(* While some host answers, a closed session is opened again: dest visits  *)
(* every host.                                                             *)
Reconnects == mgr.pc = "closed" ~> (client # 0 \/ shutdown)

(* Every pack TcpQueue took reaches the writer of a connection or a socket *)
(* unless it is one of the accepted losses.                                *)
Drains ==
  \A p \in Packs :
    p \in accepted ~> p \in Range(handed) \cup Range(wr.buf) \cup unprotected
                      \/ shutdown
=============================================================================
