------------------------------ MODULE LlmStep -------------------------------
(***************************************************************************)
(* The LLM step (llm/, agent/agent/llm/) over HTTP calls (httpc/) within   *)
(* transactions (trace/).  A step is an LLMState: opened by llm.Start and  *)
(* found by httpc.Start on the context, or attached to a call by its URL   *)
(* ("auto"), or bound to a call by llm.Bind ("bound").  Publish counts it  *)
(* in the meters, adds it to the LlmTxStatus of its transaction and hands  *)
(* it to LlmSenderThread.  The LlmTxStatus hangs on a slot of the pooled   *)
(* TraceCtx, which the state points to (txSlot) from httpc.End on; it is   *)
(* sent, and the slot cleared, when the transaction ends.                  *)
(***************************************************************************)
EXTENDS Naturals, Sequences, FiniteSets, Functions

CONSTANTS
  Txs,        \* transactions
  Objs,       \* TraceCtx objects of the pool
  Steps,      \* LLMStates
  MaxCalls,   \* bound: HTTP calls with the context of one step
  MaxFlips,   \* bound: changes of llm_enabled
  QueueSize,  \* logsink_queue_size
  Parallel,   \* steps of a transaction run in several goroutines
  Outlive,    \* steps may end after their transaction
  None

ASSUME ConstantsAssumption ==
  /\ MaxCalls \in Nat /\ MaxFlips \in Nat /\ QueueSize \in Nat \ {0}
  /\ {Parallel, Outlive} \subseteq BOOLEAN
  /\ Cardinality(Objs) >= Cardinality(Txs)
  /\ None \notin Txs \cup Objs

VARIABLES
  LLMMode, flips,
  tx,       \* per transaction: st ("new", "run", "ended") and its TraceCtx
  obj,      \* per TraceCtx: its transaction, and the index of LLMTx or None
  status,   \* the LlmTxStatus objects: Txid and the steps accumulated
  txSent,   \* what DispatchTxStatus sent
  step,     \* the LLMStates
  meter,    \* how often each step was counted
  queue, processed, dropped  \* of LlmSenderThread

outVars == <<queue, processed, dropped>>
vars == <<LLMMode, flips, tx, obj, status, txSent, step, meter, outVars>>

NewStep == [st |-> "new", kind |-> None, tx |-> None, pending |-> None, in |-> None, calls |-> 0,
            slot |-> None, txid |-> None, code |-> 0, err |-> FALSE,
            pub |-> "no", into |-> None]
ClearObj == [tx |-> None, llm |-> None]

Init ==
  /\ LLMMode = TRUE /\ flips = 0
  /\ tx = [t \in Txs |-> [st |-> "new", obj |-> None]]
  /\ obj = [o \in Objs |-> ClearObj]
  /\ status = <<>> /\ txSent = {}
  /\ step = [s \in Steps |-> NewStep]
  /\ meter = [s \in Steps |-> 0]
  /\ queue = <<>> /\ processed = {} /\ dropped = {}

Of(t) == {s \in Steps : step[s].tx = t}
Publishing(s) == step[s].pub \notin {"no", "done"}

(* A goroutine is in one call at a time. *)
Free(t) == Parallel \/ \A s \in Of(t) : ~Publishing(s) /\ step[s].in = None

-----------------------------------------------------------------------------
(* Transactions: trace.Start and trace.End as far as LLM is concerned. *)

TraceStart(t, o) ==
  /\ tx[t].st = "new" /\ \A u \in Txs : tx[u].obj # o
  /\ tx' = [tx EXCEPT ![t] = [st |-> "run", obj |-> o]]
  /\ obj' = [obj EXCEPT ![o].tx = t]
  /\ UNCHANGED <<LLMMode, flips, status, txSent, step, meter, outVars>>

ClearedKeepsLLMTx(o) == [obj[o] EXCEPT !.tx = None]  \* mutant

(* TraceCtx.Clear *)
Cleared(o) == ClearObj

(* DispatchTraceTxStatus, then the TraceCtx goes back to its pool. *)
TraceEnd(t) ==
  LET o == tx[t].obj
      i == obj[o].llm
  IN
  /\ tx[t].st = "run" /\ Free(t)
  /\ Outlive \/ \A s \in Of(t) : step[s].st = "closed" /\ ~Publishing(s)
  /\ txSent' = IF i # None /\ LLMMode /\ status[i].steps # {}
               THEN txSent \cup {[tx |-> IF status[i].tx = None THEN t
                                         ELSE status[i].tx,
                                  steps |-> status[i].steps]}
               ELSE txSent
  /\ obj' = [obj EXCEPT ![o] = Cleared(o)]
  /\ tx' = [tx EXCEPT ![t] = [st |-> "ended", obj |-> None]]
  /\ UNCHANGED <<LLMMode, flips, status, step, meter, outVars>>

-----------------------------------------------------------------------------
(* Steps and their HTTP calls. *)

(* llm.Start with the context of the transaction, or with the context an   *)
(* earlier llm.Start returned (p): the first state stays the pending one   *)
(* (RegisterPending).                                                      *)
LlmStart(s, t, p) ==
  /\ LLMMode /\ step[s].st = "new" /\ tx[t].st = "run" /\ Free(t)
  /\ p # s => step[p].kind = "start" /\ step[p].tx = t
  /\ step' = [step EXCEPT ![s].st = "open", ![s].kind = "start", ![s].tx = t,
                          ![s].pending = IF p = s THEN s ELSE step[p].pending]
  /\ UNCHANGED <<LLMMode, flips, tx, obj, status, txSent, meter, outVars>>

(* httpc.Start with the context of an open step: the call takes the state  *)
(* that is pending there, and leaves it there (TakePending).               *)
HttpcStart(s) ==
  LET w == step[s].pending IN
  /\ step[s].st = "open" /\ step[s].kind = "start"
  /\ step[w].in = None /\ step[w].calls < MaxCalls /\ ~Publishing(w)
  /\ tx[step[s].tx].st = "run" /\ Free(step[s].tx)
  /\ step' = [step EXCEPT ![w].in = tx[step[s].tx].obj, ![w].calls = @ + 1]
  /\ UNCHANGED <<LLMMode, flips, tx, obj, status, txSent, meter, outVars>>

(* httpc.Start of an LLM URL (MaybeAttachAuto), through an adapter's       *)
(* transport (AttachForced), or followed by llm.Bind.                      *)
HttpcAttach(s, t, kind) ==
  /\ LLMMode /\ step[s].st = "new" /\ tx[t].st = "run" /\ Free(t)
  /\ step' = [step EXCEPT ![s].st = "open", ![s].kind = kind, ![s].tx = t,
                          ![s].in = tx[t].obj, ![s].calls = 1]
  /\ UNCHANGED <<LLMMode, flips, tx, obj, status, txSent, meter, outVars>>

ManualPublish(s) == step[s].kind \in {"start", "bound"}

(* httpc.End with HandleHttpcEnd: the first status and the first error     *)
(* stay; an auto step is published.                                        *)
HttpcEnd(s, code) ==
  LET x == step[s]
      handled == [x EXCEPT !.in = None, !.slot = x.in, !.txid = x.tx,
                           !.code = IF @ = 0 THEN code ELSE @,
                           !.err = @ \/ code >= 400]
  IN
  /\ x.in # None /\ ~Publishing(s)
  /\ step' = [step EXCEPT ![s] =
       IF ~LLMMode THEN [x EXCEPT !.in = None,
                                  !.st = IF x.kind = "start" THEN @ ELSE "closed"]
       ELSE IF ManualPublish(s)
            THEN [handled EXCEPT !.st = IF x.kind = "start" THEN @ ELSE "closed"]
            ELSE [handled EXCEPT !.st = "closed",
                                 !.pub = IF @ = "no" THEN "meters" ELSE @]]
  /\ UNCHANGED <<LLMMode, flips, tx, obj, status, txSent, meter, outVars>>

(* SetError by the caller. *)
SetError(s) ==
  /\ step[s].st = "open" /\ step[s].kind = "start" /\ ~step[s].err
  /\ step' = [step EXCEPT ![s].err = TRUE]
  /\ UNCHANGED <<LLMMode, flips, tx, obj, status, txSent, meter, outVars>>

StepEndAgain(s) ==  \* mutant: no endOnce
  /\ step[s].st \in {"open", "closed"} /\ step[s].kind = "start"
  /\ step[s].in = None /\ ~Publishing(s) /\ meter[s] < 2
  /\ step' = [step EXCEPT ![s].st = "closed", ![s].pub = "meters"]
  /\ UNCHANGED <<LLMMode, flips, tx, obj, status, txSent, meter, outVars>>

(* Step.End, once or more: Publish under endOnce. *)
StepEnd(s) ==
  /\ step[s].st \in {"open", "closed"} /\ step[s].kind = "start"
  /\ step[s].in = None /\ step[s].pub = "no" /\ Free(step[s].tx)
  /\ step' = [step EXCEPT ![s].st = "closed", ![s].pub = "meters"]
  /\ UNCHANGED <<LLMMode, flips, tx, obj, status, txSent, meter, outVars>>

-----------------------------------------------------------------------------
(* Publish *)

PublishMeters(s) ==
  /\ step[s].pub = "meters"
  /\ meter' = [meter EXCEPT ![s] = @ + 1]
  /\ step' = [step EXCEPT ![s].into = step[s].slot,
                          ![s].pub = IF step[s].slot = None THEN "dispatch"
                                     ELSE "check"]
  /\ UNCHANGED <<LLMMode, flips, tx, obj, status, txSent, outVars>>

PublishCheckAlways(s) ==  \* mutant: the slot is replaced without the nil check
  /\ step[s].pub = "check"
  /\ step' = [step EXCEPT ![s].pub = "alloc"]
  /\ UNCHANGED <<LLMMode, flips, tx, obj, status, txSent, meter, outVars>>

(* if *txSlot == nil *)
PublishCheck(s) ==
  /\ step[s].pub = "check"
  /\ step' = [step EXCEPT ![s].pub =
                IF obj[step[s].slot].llm = None THEN "alloc" ELSE "add"]
  /\ UNCHANGED <<LLMMode, flips, tx, obj, status, txSent, meter, outVars>>

(* *txSlot = NewLlmTxStatus() *)
PublishAlloc(s) ==
  /\ step[s].pub = "alloc"
  /\ status' = Append(status, [tx |-> None, steps |-> {}])
  /\ obj' = [obj EXCEPT ![step[s].slot].llm = Len(status) + 1]
  /\ step' = [step EXCEPT ![s].pub = "add"]
  /\ UNCHANGED <<LLMMode, flips, tx, txSent, meter, outVars>>

(* The slot is read again; Accumulate locks the status. *)
PublishAdd(s) ==
  LET i == obj[step[s].slot].llm IN
  /\ step[s].pub = "add"
  /\ status' = IF i = None THEN status
               ELSE [status EXCEPT ![i] =
                       [tx |-> IF @.tx = None THEN step[s].txid ELSE @.tx,
                        steps |-> @.steps \cup {s}]]
  /\ step' = [step EXCEPT ![s].pub = "dispatch"]
  /\ UNCHANGED <<LLMMode, flips, tx, obj, txSent, meter, outVars>>

DispatchStepUnbounded(s) ==  \* mutant: the queue has no capacity
  /\ step[s].pub = "dispatch"
  /\ step' = [step EXCEPT ![s].pub = "done"]
  /\ queue' = Append(queue, s)
  /\ UNCHANGED <<LLMMode, flips, tx, obj, status, txSent, meter, processed, dropped>>

(* DispatchStep: the queue refuses when it is full. *)
DispatchStep(s) ==
  /\ step[s].pub = "dispatch"
  /\ step' = [step EXCEPT ![s].pub = "done"]
  /\ IF LLMMode /\ Len(queue) < QueueSize
     THEN queue' = Append(queue, s) /\ UNCHANGED dropped
     ELSE dropped' = dropped \cup {s} /\ UNCHANGED queue
  /\ UNCHANGED <<LLMMode, flips, tx, obj, status, txSent, meter, processed>>

(* LlmSenderThread.run: processStep. *)
SenderRunStops == FALSE /\ UNCHANGED vars  \* mutant: the thread has returned

SenderRun ==
  /\ queue # <<>>
  /\ queue' = Tail(queue) /\ processed' = processed \cup {Head(queue)}
  /\ UNCHANGED <<LLMMode, flips, tx, obj, status, txSent, step, meter, dropped>>

ChangeMode ==
  /\ flips < MaxFlips /\ flips' = flips + 1 /\ LLMMode' = ~LLMMode
  /\ UNCHANGED <<tx, obj, status, txSent, step, meter, outVars>>

Publish(s) == \/ PublishMeters(s) \/ PublishCheck(s) \/ PublishAlloc(s)
              \/ PublishAdd(s) \/ DispatchStep(s)

Next ==
  \/ \E t \in Txs : TraceEnd(t) \/ \E o \in Objs : TraceStart(t, o)
  \/ \E s \in Steps :
       \/ \E t \in Txs :
            \/ \E p \in Steps : LlmStart(s, t, p)
            \/ \E k \in {"auto", "bound"} : HttpcAttach(s, t, k)
       \/ HttpcStart(s) \/ \E c \in {200, 500} : HttpcEnd(s, c)
       \/ SetError(s) \/ StepEnd(s) \/ Publish(s)
  \/ SenderRun \/ ChangeMode

Spec == Init /\ [][Next]_vars

(* Goroutines run on; calls return, and a step begun is ended by its       *)
(* deferred End.                                                           *)
Fairness ==
  /\ \A s \in Steps : /\ WF_vars(Publish(s)) /\ WF_vars(StepEnd(s))
                      /\ WF_vars(\E c \in {200, 500} : HttpcEnd(s, c))
  /\ WF_vars(SenderRun)

FairSpec == Spec /\ Fairness

-----------------------------------------------------------------------------
(* Properties. *)

TypeOK ==
  /\ LLMMode \in BOOLEAN /\ flips \in 0 .. MaxFlips
  /\ \A t \in Txs : tx[t].st \in {"new", "run", "ended"}
  /\ \A o \in Objs : obj[o].llm \in 1 .. Len(status) \cup {None}
  /\ \A s \in Steps :
       /\ step[s].st \in {"new", "open", "closed"}
       /\ step[s].pub \in {"no", "meters", "check", "alloc", "add", "dispatch", "done"}
       /\ step[s].slot \in Objs \cup {None}
  /\ Len(queue) <= QueueSize /\ Range(queue) \subseteq Steps

(* Publish is "Idempotent (endOnce)": a step is counted once and handed to *)
(* the sender once, however often and wherever End is called.              *)
PublishedOnce ==
  \A s \in Steps :
    /\ meter[s] <= 1
    /\ Cardinality({i \in DOMAIN queue : queue[i] = s})
         + Cardinality({s} \cap processed) + Cardinality({s} \cap dropped) <= 1

(* A step is accumulated "into the same trace's tx_status slot": no status *)
(* sent, and none on a TraceCtx in use, has a step of another transaction. *)
OwnStatus ==
  /\ \A r \in txSent : \A s \in r.steps : step[s].tx = r.tx
  /\ \A o \in Objs : obj[o].tx # None /\ obj[o].llm # None =>
       \A s \in status[obj[o].llm].steps : step[s].tx = obj[o].tx

(* LlmTxStatus aggregates its transaction: once the transaction has ended, *)
(* each step published in it after its httpc.End is in a status sent for   *)
(* it.  (llm_enabled may be switched off: then nothing is sent.)  *)
StatusComplete ==
  flips = 0 => \A s \in Steps :
    step[s].pub = "done" /\ step[s].into # None /\ tx[step[s].tx].st = "ended"
      => \E r \in txSent : r.tx = step[s].tx /\ s \in r.steps

(* A step that is ended reaches the sender, unless its queue is full or    *)
(* llm_enabled is off.                                                     *)
EndedIsProcessed ==
  \A s \in Steps : step[s].st = "closed" /\ step[s].kind # "bound" ~>
    s \in processed \cup dropped \/ flips > 0
=============================================================================
