---------------------------- MODULE TxLifecycle -----------------------------
(***************************************************************************)
(* The life of a transaction: trace.Start and trace.End in the goroutines  *)
(* of the application, the goroutine-id table and the pool of TraceCtx     *)
(* (trace/), the table and the pool of the agent's TraceContext, the       *)
(* profile queue and its worker (agent/agent/trace), and the sweep that    *)
(* ends transactions whose End never came (TaskActiveTranCount).           *)
(*                                                                         *)
(* Both context objects are pooled: a pointer kept after CloseTraceContext *)
(* may denote another transaction's object.  Objects are numbered in the   *)
(* order sync.Pool creates them; Get returns a pooled object or a new one. *)
(* GetTraceContext reads the object that a context.Context carries, or the *)
(* goroutine's entry of the goroutine-id table.                            *)
(***************************************************************************)
EXTENDS Naturals, Sequences, FiniteSets, Functions

CONSTANTS
  Goroutines,
  Helpers,    \* goroutines that get the parent's ctx explicitly
  MaxTx,      \* bound: transactions started
  MaxObj,     \* bound: context objects of each pool
  GidMax,     \* tx_max_count, for the goroutine-id table
  TableMax,   \* tx_max_count, for ctxTable
  QueueCap,   \* queue_profile_size
  Kinds,      \* subset of {"normal", "static", "ignored"}
  Joined,     \* a transaction ends only after its helpers
  Late,       \* a transaction may outlast the lost time and then end
  Nested,     \* middleware and handler both call Start and End
  None

ASSUME ConstantsAssumption ==
  /\ MaxTx \in Nat /\ MaxObj \in Nat
  /\ GidMax \in Nat \ {0} /\ TableMax \in Nat \ {0} /\ QueueCap \in Nat \ {0}
  /\ Kinds \subseteq {"normal", "static", "ignored"}
  /\ {Joined, Late, Nested} \subseteq BOOLEAN
  /\ None \notin Goroutines \cup Nat

Tx == 1 .. MaxTx
Obj == 1 .. MaxObj

VARIABLES
  pub,       \* trace.TraceCtx objects: Txid, GID, Ctx
  pubPool,   \* how often each is in its pool
  agt,       \* agent TraceContext objects: Txid, ProfileSeq, kind, steps
  agtPool,
  made,      \* objects made by each pool
  gidTable,  \* goroutine-id table: linked map, oldest first
  ctxTable,  \* agent table by Txid: linked map, oldest first
  queue,     \* profileQueue
  worker,    \* process: the object it holds
  sweep,     \* TaskActiveTranCount: the ProfileSeq it is about to end
  gor,       \* goroutines: open calls of Start, and where they are in End
  helper,    \* helper goroutines
  txs,       \* transactions started so far
  kind,      \* kind of each transaction
  sent,      \* how often each Txid was sent (0: a cleared object)
  swept,     \* transactions ended by the sweep
  dropped    \* pushed out of ctxTable or profileQueue

objVars == <<pub, pubPool, agt, agtPool, made>>
txVars == <<txs, kind>>
outVars == <<sent, swept, dropped>>
vars == <<pub, pubPool, agt, agtPool, made, gidTable, ctxTable, queue, worker,
          sweep, gor, helper, txs, kind, sent, swept, dropped>>

NoPub == [txid |-> 0, gid |-> None, ctx |-> 0]
NoAgt == [txid |-> 0, seq |-> 0, kind |-> "normal", steps |-> {}]
Resting == [pc |-> "idle", calls |-> <<>>, o |-> 0, a |-> 0]

Init ==
  /\ pub = [o \in Obj |-> NoPub] /\ pubPool = [o \in Obj |-> 0]
  /\ agt = [a \in Obj |-> NoAgt] /\ agtPool = [a \in Obj |-> 0]
  /\ made = [pub |-> 0, agt |-> 0]
  /\ gidTable = <<>> /\ ctxTable = <<>> /\ queue = <<>>
  /\ worker = [pc |-> "idle", a |-> 0]
  /\ sweep = 0
  /\ gor = [g \in Goroutines |-> Resting]
  /\ helper = [h \in Helpers |-> [pc |-> "idle", o |-> 0, a |-> 0, tx |-> 0]]
  /\ txs = 0 /\ kind = [t \in Tx |-> "normal"]
  /\ sent = [t \in 0 .. MaxTx |-> 0] /\ swept = {} /\ dropped = {}

-----------------------------------------------------------------------------
(* hmap.LongKeyLinkedMap with SetMax: a new key pushes out the oldest. *)

Keys(m) == {m[i][1] : i \in DOMAIN m}
Lookup(m, k, default) ==
  IF k \in Keys(m)
  THEN m[CHOOSE i \in DOMAIN m : m[i][1] = k][2] ELSE default
Without(m, k) == SelectSeq(m, LAMBDA e : e[1] # k)
PutLastEager(m, k, v, max) ==  \* mutant: off by one
  Append(IF Len(m) + 1 >= max THEN Tail(m) ELSE m, <<k, v>>)
PutLast(m, k, v, max) ==
  IF k \in Keys(m)
  THEN [i \in DOMAIN m |-> IF m[i][1] = k THEN <<k, v>> ELSE m[i]]
  ELSE Append(IF Len(m) >= max THEN Tail(m) ELSE m, <<k, v>>)
PushedOut(m, k, max) ==
  IF k \notin Keys(m) /\ Len(m) >= max THEN {Head(m)[1]} ELSE {}

(* sync.Pool.Get: some pooled object, or a new one. *)
FromPool(pool, n) ==
  {o \in Obj : pool[o] > 0} \cup (IF n < MaxObj THEN {n + 1} ELSE {})
Taken(pool, o) == [pool EXCEPT ![o] = IF @ > 0 THEN @ - 1 ELSE @]
MoreMade(n, o) == IF o > n THEN o ELSE n

SendTransactionUnbounded(a) ==  \* mutant: the queue grows
  queue' = Append(queue, a) /\ UNCHANGED dropped

(* profileQueue.PutForce, in SendTransaction. *)
SendTransaction(a) ==
  IF Len(queue) < QueueCap
  THEN queue' = Append(queue, a) /\ UNCHANGED dropped
  ELSE /\ queue' = Append(Tail(queue), a)
       /\ dropped' = dropped \cup {agt[Head(queue)].txid}

(* GetTraceContext in goroutine g, with ctx value c (0: no ctx value). *)
GetTraceContext(g, c) == IF c # 0 THEN c ELSE Lookup(gidTable, g, 0)

-----------------------------------------------------------------------------
(* trace.Start *)

DuplicateIgnoresTxid(g, c) == FALSE  \* mutant: no look at the existing one

(* An active transaction exists: it is not created twice. *)
Duplicate(g, c) ==
  LET o == GetTraceContext(g, c) IN o # 0 /\ pub[o].txid # 0

(* The innermost open Start of g: the ctx it returned, and the transaction *)
(* of the request it belongs to.                                           *)
Top(g) == IF gor[g].calls = <<>> THEN [cx |-> 0, tx |-> 0] ELSE Head(gor[g].calls)

(* The ctx values g may pass: its own, or none. *)
Given(g) == {Top(g).cx, 0}

MayStart(g) ==
  /\ gor[g].pc \in {"idle", "run"}
  /\ Len(gor[g].calls) < (IF Nested THEN 2 ELSE 1)

StartDuplicate(g) ==
  /\ MayStart(g)
  /\ \E c \in Given(g) :
       /\ Duplicate(g, c)
       /\ gor' = [gor EXCEPT ![g].pc = "run",
                             ![g].calls = <<[cx |-> c, tx |-> Top(g).tx]>> \o @]
  /\ UNCHANGED <<objVars, txVars, outVars, gidTable, ctxTable, queue, worker,
                 sweep, helper>>

ClearedPubKeepsCtx(o) ==  \* mutant: Clear forgets Ctx
  [pub EXCEPT ![o] = [txid |-> 0, gid |-> pub[o].gid, ctx |-> pub[o].ctx]]

(* TraceCtx.Clear: GID stays. *)
ClearedPub(o) ==
  [pub EXCEPT ![o] = [txid |-> 0, gid |-> pub[o].gid, ctx |-> 0]]

(* NewTraceContext: two objects, a Txid, and the goroutine's entry. *)
NewTraceContext(g) ==
  /\ MayStart(g) /\ txs < MaxTx
  /\ \E c \in Given(g) : ~Duplicate(g, c)
  /\ txs' = txs + 1
  /\ \E o \in FromPool(pubPool, made.pub), a \in FromPool(agtPool, made.agt),
        k \in Kinds :
       /\ pub' = [pub EXCEPT ![o] = [txid |-> txs + 1, gid |-> g, ctx |-> a]]
       /\ pubPool' = Taken(pubPool, o)
       /\ agt' = [agt EXCEPT ![a].txid = txs + 1, ![a].kind = k]
       /\ agtPool' = Taken(agtPool, a)
       /\ made' = [pub |-> MoreMade(made.pub, o), agt |-> MoreMade(made.agt, a)]
       /\ gidTable' = PutLast(gidTable, g, o, GidMax)
       /\ kind' = [kind EXCEPT ![txs + 1] = k]
       /\ gor' = [gor EXCEPT ![g] =
                    [pc |-> "start", o |-> o, a |-> a,
                     calls |-> <<[cx |-> o, tx |-> txs + 1]>> \o gor[g].calls]]
  /\ UNCHANGED <<outVars, ctxTable, queue, worker, sweep, helper>>

(* api.StartTx: an ignored method returns before ProfileSeq and PutContext *)
StartTx(g) ==
  LET a == gor[g].a IN
  /\ gor[g].pc = "start"
  /\ IF agt[a].kind = "ignored" THEN UNCHANGED <<agt, ctxTable, dropped>>
     ELSE /\ agt' = [agt EXCEPT ![a].seq = agt[a].txid]
          /\ ctxTable' = PutLast(ctxTable, agt[a].txid, a, TableMax)
          /\ dropped' = dropped \cup PushedOut(ctxTable, agt[a].txid, TableMax)
  /\ gor' = [gor EXCEPT ![g].pc = "run", ![g].o = 0, ![g].a = 0]
  /\ UNCHANGED <<txVars, pub, pubPool, agtPool, made, gidTable, queue, worker,
                 sweep, helper, sent, swept>>

-----------------------------------------------------------------------------
(* Steps: the agent object is read from the TraceCtx and written to. *)

Record(a, t) == agt' = [agt EXCEPT ![a].steps = @ \cup {t}]

(* A step of the transaction's own goroutine. *)
Step(g) ==
  /\ gor[g].pc = "run"
  /\ \E c \in Given(g) :
       LET o == GetTraceContext(g, c) IN
       /\ o # 0 /\ pub[o].ctx # 0
       /\ Record(pub[o].ctx, Top(g).tx)
  /\ UNCHANGED <<txVars, outVars, pub, pubPool, agtPool, made, gidTable,
                 ctxTable, queue, worker, sweep, gor, helper>>

(* A helper is started with the parent's ctx. *)
Spawn(g, h) ==
  /\ gor[g].pc = "run" /\ helper[h].pc = "idle" /\ Top(g).cx # 0
  /\ helper' = [helper EXCEPT ![h] = [pc |-> "run", o |-> Top(g).cx, a |-> 0,
                                      tx |-> Top(g).tx]]
  /\ UNCHANGED <<objVars, txVars, outVars, gidTable, ctxTable, queue, worker,
                 sweep, gor>>

(* The helper's step: the pointer is read, then the step is added. *)
HelperRead(h) ==
  /\ helper[h].pc = "run"
  /\ helper' = [helper EXCEPT ![h].pc = "add", ![h].a = pub[helper[h].o].ctx]
  /\ UNCHANGED <<objVars, txVars, outVars, gidTable, ctxTable, queue, worker,
                 sweep, gor>>

HelperAdd(h) ==
  /\ helper[h].pc = "add"
  /\ IF helper[h].a = 0 THEN UNCHANGED agt
     ELSE Record(helper[h].a, helper[h].tx)
  /\ helper' = [helper EXCEPT ![h] = [pc |-> "idle", o |-> 0, a |-> 0, tx |-> 0]]
  /\ UNCHANGED <<txVars, outVars, pub, pubPool, agtPool, made, gidTable,
                 ctxTable, queue, worker, sweep, gor>>

-----------------------------------------------------------------------------
(* trace.End *)

(* What g does when a call of End has returned. *)
Returned(g) ==
  gor' = [gor EXCEPT ![g] = [pc |-> IF Len(gor[g].calls) > 1 THEN "run" ELSE "idle",
                             calls |-> Tail(gor[g].calls), o |-> 0, a |-> 0]]

(* With Joined no part of a transaction goes on after it ends or hangs. *)
HelpersDone(g) ==
  Joined =>
    \A h \in Helpers : helper[h].pc # "idle" => helper[h].tx # Top(g).tx

(* The context is looked up; fields of TraceCtx are copied to the agent's. *)
EndLookup(g) ==
  /\ gor[g].pc = "run" /\ HelpersDone(g)
  /\ \E c \in Given(g) :
       LET o == GetTraceContext(g, c) IN
       \/ /\ o = 0
          /\ Returned(g) /\ UNCHANGED <<agt, gidTable>>
       \/ /\ o # 0 /\ pub[o].ctx = 0
          /\ gidTable' = Without(gidTable, pub[o].gid)
          /\ Returned(g) /\ UNCHANGED agt
       \/ /\ o # 0 /\ pub[o].ctx # 0
          /\ Record(pub[o].ctx, Top(g).tx)
          /\ gor' = [gor EXCEPT ![g].pc = "remove", ![g].o = o,
                                ![g].a = pub[o].ctx]
          /\ UNCHANGED gidTable
  /\ UNCHANGED <<txVars, outVars, pub, pubPool, agtPool, made, ctxTable,
                 queue, worker, sweep, helper>>

EndRemoveKeeps(g) ==  \* mutant: the context stays in ctxTable
  LET a == gor[g].a IN
  /\ gor[g].pc = "remove"
  /\ gor' = [gor EXCEPT ![g].pc = IF agt[a].kind = "static" THEN "gid" ELSE "send"]
  /\ UNCHANGED <<objVars, txVars, outVars, gidTable, ctxTable, queue, worker,
                 sweep, helper>>

(* api.EndTx: RemoveContext, whose result is not looked at. *)
EndRemove(g) ==
  LET a == gor[g].a IN
  /\ gor[g].pc = "remove"
  /\ ctxTable' = Without(ctxTable, agt[a].txid)
  /\ gor' = [gor EXCEPT ![g].pc = IF agt[a].kind = "static" THEN "gid" ELSE "send"]
  /\ UNCHANGED <<objVars, txVars, outVars, gidTable, queue, worker, sweep,
                 helper>>

EndSend(g) ==
  /\ gor[g].pc = "send"
  /\ SendTransaction(gor[g].a)
  /\ gor' = [gor EXCEPT ![g].pc = "gid"]
  /\ UNCHANGED <<objVars, txVars, gidTable, ctxTable, worker, sweep, helper,
                 sent, swept>>

EndGid(g) ==
  /\ gor[g].pc = "gid"
  /\ gidTable' = Without(gidTable, pub[gor[g].o].gid)
  /\ gor' = [gor EXCEPT ![g].pc = "close"]
  /\ UNCHANGED <<objVars, txVars, outVars, ctxTable, queue, worker, sweep,
                 helper>>

(* CloseTraceContext: Clear, then back to the pool. *)
EndClose(g) ==
  LET o == gor[g].o IN
  /\ gor[g].pc = "close"
  /\ pub' = ClearedPub(o)
  /\ pubPool' = [pubPool EXCEPT ![o] = @ + 1]
  /\ Returned(g)
  /\ UNCHANGED <<txVars, outVars, agt, agtPool, made, gidTable, ctxTable, queue,
                 worker, sweep, helper>>

(* The handler never returns. *)
Hang(g) ==
  /\ gor[g].pc = "run" /\ Len(gor[g].calls) = 1 /\ HelpersDone(g)
  /\ gor' = [gor EXCEPT ![g].pc = "hung"]
  /\ UNCHANGED <<objVars, txVars, outVars, gidTable, ctxTable, queue, worker,
                 sweep, helper>>

-----------------------------------------------------------------------------
(* TraceMain.process, one worker goroutine. *)

WorkerTake ==
  /\ worker.pc = "idle" /\ queue # <<>>
  /\ queue' = Tail(queue)
  /\ worker' = IF agt[Head(queue)].kind = "static" THEN worker
               ELSE [pc |-> "send", a |-> Head(queue)]
  /\ UNCHANGED <<objVars, txVars, outVars, gidTable, ctxTable, sweep, gor, helper>>

WorkerSend ==
  /\ worker.pc = "send"
  /\ sent' = [sent EXCEPT ![agt[worker.a].txid] = @ + 1]
  /\ worker' = [worker EXCEPT !.pc = "close"]
  /\ UNCHANGED <<objVars, txVars, gidTable, ctxTable, queue, sweep, gor, helper,
                 swept, dropped>>

WorkerCloseKeepsSteps ==  \* mutant: Clear keeps the profile
  /\ worker.pc = "close"
  /\ agt' = [agt EXCEPT ![worker.a] = [NoAgt EXCEPT !.steps = agt[worker.a].steps]]
  /\ agtPool' = [agtPool EXCEPT ![worker.a] = @ + 1]
  /\ worker' = [pc |-> "idle", a |-> 0]
  /\ UNCHANGED <<txVars, outVars, pub, pubPool, made, gidTable, ctxTable, queue,
                 sweep, gor, helper>>

WorkerClose ==
  /\ worker.pc = "close"
  /\ agt' = [agt EXCEPT ![worker.a] = NoAgt]
  /\ agtPool' = [agtPool EXCEPT ![worker.a] = @ + 1]
  /\ worker' = [pc |-> "idle", a |-> 0]
  /\ UNCHANGED <<txVars, outVars, pub, pubPool, made, gidTable, ctxTable, queue,
                 sweep, gor, helper>>

-----------------------------------------------------------------------------
(* TaskActiveTranCount.process: an entry older than the lost time. *)

StillRunning(t) ==
  \E g \in Goroutines : /\ gor[g].pc # "hung"
                         /\ \E i \in DOMAIN gor[g].calls : gor[g].calls[i].tx = t

SweepPickYoung ==  \* mutant: the lost time is not compared
  /\ sweep = 0
  /\ \E t \in Keys(ctxTable) : sweep' = agt[Lookup(ctxTable, t, 0)].seq
  /\ UNCHANGED <<objVars, txVars, outVars, gidTable, ctxTable, queue, worker,
                 gor, helper>>

SweepPick ==
  /\ sweep = 0
  /\ \E t \in Keys(ctxTable) :
       /\ Late \/ ~StillRunning(t)
       /\ sweep' = agt[Lookup(ctxTable, t, 0)].seq
  /\ UNCHANGED <<objVars, txVars, outVars, gidTable, ctxTable, queue, worker,
                 gor, helper>>

SweepEndNoSend ==  \* mutant: a lost transaction is removed and not sent
  /\ sweep # 0
  /\ sweep' = 0
  /\ ctxTable' = Without(ctxTable, sweep)
  /\ UNCHANGED <<objVars, txVars, outVars, gidTable, queue, worker, gor, helper>>

(* RemoveLostContext: the message step and endTx, which ignores a          *)
(* transaction that is no longer in ctxTable.                              *)
SweepEnd ==
  /\ sweep # 0
  /\ sweep' = 0
  /\ LET a == Lookup(ctxTable, sweep, 0) IN
     IF a = 0 THEN UNCHANGED <<ctxTable, swept, queue, dropped>>
     ELSE /\ ctxTable' = Without(ctxTable, sweep)
          /\ swept' = swept \cup {sweep}
          /\ IF agt[a].kind = "static" THEN UNCHANGED <<queue, dropped>>
             ELSE SendTransaction(a)
  /\ UNCHANGED <<objVars, txVars, gidTable, worker, gor, helper, sent>>

Next ==
  \/ \E g \in Goroutines :
       \/ StartDuplicate(g) \/ NewTraceContext(g) \/ StartTx(g) \/ Step(g)
       \/ EndLookup(g) \/ EndRemove(g) \/ EndSend(g) \/ EndGid(g) \/ EndClose(g)
       \/ Hang(g)
       \/ \E h \in Helpers : Spawn(g, h)
  \/ \E h \in Helpers : HelperRead(h) \/ HelperAdd(h)
  \/ WorkerTake \/ WorkerSend \/ WorkerClose
  \/ SweepPick \/ SweepEnd

Spec == Init /\ [][Next]_vars

(* The goroutines run; a handler returns or hangs.  The worker and the     *)
(* counter task run for ever.                                              *)
Fairness ==
  /\ \A g \in Goroutines :
       WF_vars(\/ StartTx(g) \/ EndLookup(g) \/ EndRemove(g) \/ EndSend(g)
               \/ EndGid(g) \/ EndClose(g) \/ Hang(g))
  /\ \A h \in Helpers : WF_vars(HelperRead(h) \/ HelperAdd(h))
  /\ WF_vars(WorkerTake \/ WorkerSend \/ WorkerClose)
  /\ WF_vars(SweepPick \/ SweepEnd)

FairSpec == Spec /\ Fairness

-----------------------------------------------------------------------------
(* Properties. *)

TypeOK ==
  /\ pub \in [Obj -> [txid : 0 .. MaxTx, gid : Goroutines \cup {None},
                      ctx : 0 .. MaxObj]]
  /\ agt \in [Obj -> [txid : 0 .. MaxTx, seq : 0 .. MaxTx,
                      kind : {"normal", "static", "ignored"}, steps : SUBSET (0 .. MaxTx)]]
  /\ Len(gidTable) <= GidMax /\ Len(ctxTable) <= TableMax /\ Len(queue) <= QueueCap
  /\ Keys(gidTable) \subseteq Goroutines /\ Keys(ctxTable) \subseteq Tx
  /\ worker.pc \in {"idle", "send", "close"}
  /\ \A g \in Goroutines : Len(gor[g].calls) <= 2 /\ Top(g).tx \in 0 .. MaxTx

(* Goroutines inside a transaction that End has not begun to end. *)
Running(g) == gor[g].pc \in {"start", "run"} /\ Top(g).cx # 0

(* A running transaction owns its two pooled objects: neither is in a pool *)
(* or carries another transaction's id.                                    *)
Exclusive ==
  \A g \in Goroutines : Running(g) =>
    LET o == Top(g).cx IN
    /\ pub[o].txid = Top(g).tx /\ pubPool[o] = 0
    /\ pub[o].ctx # 0 /\ agtPool[pub[o].ctx] = 0
    /\ agt[pub[o].ctx].txid = Top(g).tx

(* An object is never twice in its pool, where two Gets would return it,   *)
(* and a pooled agent object is neither queued nor in ctxTable.            *)
PoolOnce ==
  \A o \in Obj :
    /\ pubPool[o] <= 1 /\ agtPool[o] <= 1
    /\ agtPool[o] = 1 =>
         /\ o \notin Range(queue)
         /\ \A i \in DOMAIN ctxTable : ctxTable[i][2] # o

(* Every step in a profile was recorded by the transaction it is sent for. *)
StepsOwn == \A a \in Obj : agt[a].steps \subseteq {agt[a].txid}

(* A transaction is sent at most once, and never after it was cleared. *)
SentOnce == sent[0] = 0 /\ \A t \in Tx : sent[t] <= 1

(* "passing nil is safe within the same goroutine": while fewer goroutines *)
(* than tx_max_count are in transactions, the goroutine id finds the       *)
(* transaction that its goroutine started.                                 *)
NilCtxFindsOwn ==
  GidMax >= Cardinality(Goroutines) =>
    \A g \in Goroutines :
      Running(g) => GetTraceContext(g, 0) = Top(g).cx

(* Middleware and handler that both call Start share one transaction. *)
OneTxPerRequest ==
  GidMax >= Cardinality(Goroutines) =>
    \A g \in Goroutines :
      LET calls == gor[g].calls IN
      \A i, j \in DOMAIN calls :
        i < j /\ calls[j].cx # 0 /\ pub[calls[j].cx].txid = calls[j].tx
          => calls[i].tx = calls[j].tx

(* Every collected transaction is sent in the end, even if its handler     *)
(* hangs or its End does not find it, unless a bounded table drops it.     *)
EventuallySent ==
  \A t \in Tx :
    (t <= txs /\ kind[t] = "normal") ~> (sent[t] > 0 \/ t \in dropped)

(* "lost connection ... end alone is not processed": the End of a          *)
(* transaction that the sweep has ended does not send it again.            *)
LateEndIgnored ==
  \A g \in Goroutines : gor[g].pc = "send" => Top(g).tx \notin swept

(* With nested Start and End, an End only ends the transaction of its own  *)
(* request.                                                                *)
EndsOwn ==
  \A g \in Goroutines :
    gor[g].pc \in {"remove", "send"} => agt[gor[g].a].txid = Top(g).tx
=============================================================================
