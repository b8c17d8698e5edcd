-------------------------- MODULE ProfilePipeline ---------------------------
(***************************************************************************)
(* From the steps of a transaction to the network queue (agent/agent/trace *)
(* Profile*Collector.go, Profile*Thread.go, ZipProfileThread.go, the end   *)
(* of SendProfile in TraceMain.go).  A collector keeps the steps that a    *)
(* transaction's goroutines add, each under the collector's lock.  It is   *)
(* one of four kinds:                                                      *)
(*   normal    bounded; room is kept back for slow and for error steps     *)
(*   circular  the last BUFFER_LEN steps                                   *)
(*   large     full buffers leave, through ProfileStepThread, as splits    *)
(*   split     full buffers leave, through ProfileVirtualTxThread, as      *)
(*             virtual transactions, each named by a step of the parent    *)
(* SendProfile takes what is left, and ZipProfileThread batches all packs. *)
(***************************************************************************)
EXTENDS Naturals, Sequences, FiniteSets, Functions, SequencesExt

CONSTANTS
  Txs,
  Modes,       \* the collecting modes to examine
  NormalLen, HeavyLen, BufferLen, \* profile_step_{normal,heavy,max}_count
  BUFFER_LEN,  \* profile_step_max_count of the circular kind
  BUFFER_MAX,  \* profile_step_max_count of the large and the split kind
  SplitQueueSize, \* trace_txsplit_queue_size
  ZipQueueSize,   \* profile_zip_queue_size
  TcpQueueSize,   \* net_send_queue2_size
  ZipMax, ZipMin, \* profile_zip_max_buffer_size, min_size, in packs
  MaxSteps,       \* bound: steps offered in all
  MaxKept         \* bound: the same in the kinds that keep all until the end

ASSUME ConstantsAssumption ==
  /\ {NormalLen, HeavyLen, BufferLen, BUFFER_LEN, BUFFER_MAX, SplitQueueSize,
     ZipQueueSize, TcpQueueSize, ZipMax, ZipMin} \subseteq Nat \ {0}
  /\ NormalLen <= HeavyLen /\ HeavyLen <= BufferLen  \* ConfTrace.Apply
  /\ Modes \subseteq {"normal", "circular", "large", "split"}

VARIABLES
  mode,
  col,       \* per transaction: its collector
  offered,   \* per transaction: the steps handed to its collector
  tx,        \* per transaction: "run", "ended", "sent" or "skipped"
  profiled,  \* StatTranx: the service was profiled in this interval
  stepQ,     \* of ProfileStepThread
  virtQ,     \* of the ProfileVirtualTxThread of each collector
  dropped,   \* transactions of which a full queue dropped a part
  zipQ, zip, \* of ZipProfileThread
  tcpQ,      \* packs handed to the network, not yet encoded
  wire,      \* packs encoded and sent
  refused    \* types and transactions of packs that a full TcpQueue refused

zipVars == <<zipQ, zip, tcpQ, wire, refused>>
vars == <<mode, col, offered, tx, profiled, stepQ, virtQ, dropped, zipVars>>

EmptyCollector ==
  [buf |-> <<>>, pos |-> 0, loop |-> 0, next |-> 0,
   child |-> <<>>, childNum |-> 1, splits |-> 0]

EmptyZip == [arr |-> <<>>, len |-> 0, packCount |-> 0, first |-> FALSE]

Init ==
  /\ mode \in Modes
  /\ col = [t \in Txs |-> EmptyCollector]
  /\ offered = [t \in Txs |-> <<>>]
  /\ tx = [t \in Txs |-> "run"]
  /\ profiled \in BOOLEAN
  /\ stepQ = <<>> /\ virtQ = [t \in Txs |-> <<>>] /\ dropped = {}
  /\ zipQ = <<>> /\ zip = EmptyZip /\ tcpQ = <<>> /\ wire = {} /\ refused = {}

-----------------------------------------------------------------------------
(* The collectors: the collector after a step st, and the packs it sends.  *)

NormalTakesLight(c, st) ==  \* mutant: light steps fill up to the heavy count
  c.pos < IF st.what \in {"light", "slow"} THEN HeavyLen ELSE BufferLen

NormalTakes(c, st) ==
  CASE st.what = "light" -> c.pos < NormalLen
    [] st.what = "slow" -> c.pos < NormalLen \/ c.pos < HeavyLen
    [] st.what = "error" -> c.pos < BufferLen
    [] st.what = "tail" -> c.pos < BufferLen  \* cap(buffer)

NormalAdd(c, st) ==
  IF NormalTakes(c, st)
  THEN [c EXCEPT !.buf = Append(@, [st EXCEPT !.idx = c.pos]), !.pos = @ + 1]
  ELSE c

CircularAdd(c, st) ==
  LET wrap == c.pos >= BUFFER_LEN
      p == IF wrap THEN 0 ELSE c.pos
      s == [st EXCEPT !.idx = c.next]
  IN [c EXCEPT !.loop = IF wrap THEN @ + 1 ELSE @,
               !.buf = IF p < Len(@) THEN [@ EXCEPT ![p + 1] = s] ELSE Append(@, s),
               !.pos = p + 1, !.next = @ + 1]

(* The caller sends the full buffer as split number c.splits. *)
LargeAdd(c, st) ==
  LET full == Len(c.buf) >= BUFFER_MAX IN
  [c EXCEPT !.buf = Append(IF full THEN <<>> ELSE @, [st EXCEPT !.idx = c.next]),
            !.splits = IF full THEN @ + 1 ELSE @, !.next = @ + 1]

(* The step of the parent that names a virtual transaction. *)
VirtualTxStep(num) == [n |-> 0, child |-> num]

SplitTxAddOverwrites(c, st) ==  \* mutant: a full parent buffer starts again unsent
  LET full == Len(c.child) >= BUFFER_MAX IN
  [c EXCEPT !.buf = IF full THEN Append(IF Len(@) >= BUFFER_MAX THEN <<>> ELSE @,
                                        VirtualTxStep(c.childNum))
                    ELSE @,
            !.child = Append(IF full THEN <<>> ELSE @, [st EXCEPT !.idx = c.next]),
            !.childNum = IF full THEN @ + 1 ELSE @, !.next = @ + 1]

(* The full child buffer leaves as a virtual transaction; the parent's     *)
(* buffer, when full, as a split.                                          *)
SplitTxAdd(c, st) ==
  LET full == Len(c.child) >= BUFFER_MAX
      parentFull == full /\ Len(c.buf) >= BUFFER_MAX
  IN [c EXCEPT !.buf = IF full THEN Append(IF parentFull THEN <<>> ELSE @,
                                           VirtualTxStep(c.childNum))
                       ELSE @,
               !.splits = IF parentFull THEN @ + 1 ELSE @,
               !.child = Append(IF full THEN <<>> ELSE @, [st EXCEPT !.idx = c.next]),
               !.childNum = IF full THEN @ + 1 ELSE @, !.next = @ + 1]

Added(c, st) == CASE mode = "normal" -> NormalAdd(c, st)
                  [] mode = "circular" -> CircularAdd(c, st)
                  [] mode = "large" -> LargeAdd(c, st)
                  [] mode = "split" -> SplitTxAdd(c, st)

(* RequestQueue.Put: refused when full, which these callers ignore. *)
PutUnbounded(q, x) == Append(q, x)  \* mutant

Put(q, x) == IF Len(q) < SplitQueueSize THEN Append(q, x) ELSE q

(* Add of a light or a slow step (heavy_time), AddHeavy of an error step,  *)
(* AddTail of an active stack: one body in all kinds but the normal one.   *)
(* A step is added when it ends, so a slow one has started earlier.        *)
AddStep(t, what) ==
  LET c == col[t]
      st == [n |-> Len(offered[t]) + 1, idx |-> 0, what |-> what,
             start |-> IF what = "slow" THEN 1 ELSE 2]
      d == Added(c, st)
      split == IF d.splits > c.splits
               THEN <<[tx |-> t, inx |-> c.splits, steps |-> c.buf]>> ELSE <<>>
      virtual == IF d.childNum > c.childNum
                 THEN <<[tx |-> t, num |-> c.childNum, steps |-> c.child]>> ELSE <<>>
  IN
  /\ tx[t] \in {"run", "ended"}
  /\ FoldFunction(LAMBDA s, k : Len(s) + k, 0, offered)
       < IF mode \in {"normal", "circular"} THEN MaxKept ELSE MaxSteps
  /\ mode # "normal" => what = "light"
  /\ offered' = [offered EXCEPT ![t] = Append(@, st)]
  /\ col' = [col EXCEPT ![t] = d]
  /\ stepQ' = IF split = <<>> THEN stepQ ELSE Put(stepQ, split[1])
  /\ virtQ' = IF virtual = <<>> THEN virtQ
              ELSE [virtQ EXCEPT ![t] = Put(@, virtual[1])]
  /\ dropped' = IF \/ split # <<>> /\ Len(stepQ) >= SplitQueueSize
                   \/ virtual # <<>> /\ Len(virtQ[t]) >= SplitQueueSize
                THEN dropped \cup {t} ELSE dropped
  /\ UNCHANGED <<mode, tx, profiled, zipVars>>

-----------------------------------------------------------------------------
(* GetSteps *)

SortedByStart(s) == \A i, j \in DOMAIN s : i < j => s[i].start <= s[j].start

(* sort.Slice is not stable: any sorted order; the index is set again. *)
NormalSteps(c) ==
  {[i \in DOMAIN c.buf |-> [s[i] EXCEPT !.idx = i - 1]] :
     s \in {p \in SetToSeqs(Range(c.buf)) : SortedByStart(p)}}

CircularStepsUnrotated(c) == c.buf  \* mutant: the buffer as it lies

CircularSteps(c) ==
  IF c.loop = 0 THEN c.buf
  ELSE SubSeq(c.buf, c.pos + 1, BUFFER_LEN) \o SubSeq(c.buf, 1, c.pos)

GetSteps(c) == CASE mode = "normal" -> NormalSteps(c)
                 [] mode = "circular" -> {CircularSteps(c)}
                 [] mode = "large" -> {c.buf}
                 [] mode = "split" -> {c.buf \o c.child}

-----------------------------------------------------------------------------
(* ZipProfileThread *)

(* net.Send or SendProfile: TcpQueue keeps the pack itself, encoded later. *)
ToTcp(p) ==
  \/ /\ Len(tcpQ) < TcpQueueSize
     /\ tcpQ' = Append(tcpQ, p) /\ UNCHANGED refused
  \/ /\ Len(tcpQ) >= TcpQueueSize /\ UNCHANGED tcpQ
     /\ refused' = refused \cup {<<x.type, x.tx>> : x \in Range(p.batch)}

Plain(p) == [kind |-> "plain", count |-> 1, recs |-> <<p>>, batch |-> <<p>>]

(* Add: when the queue is full the pack is sent as it is. *)
ZipAdd(p) ==
  /\ IF Len(zipQ) < ZipQueueSize
     THEN zipQ' = Append(zipQ, p) /\ UNCHANGED <<tcpQ, refused>>
     ELSE ToTcp(Plain(p)) /\ UNCHANGED zipQ
  /\ UNCHANGED <<zip, wire>>

(* doZip: compression copies the records; a small batch stays a view of    *)
(* the bytes.Buffer (kind "view"), which the thread goes on writing to.    *)
DoZip(z) ==
  [kind |-> IF z.len < ZipMin THEN "view" ELSE "zip", count |-> z.packCount,
   recs |-> SubSeq(z.arr, 1, z.len), batch |-> SubSeq(z.arr, 1, z.len)]

ClearedZipKeepsCount(z) == [z EXCEPT !.len = 0, !.first = FALSE]  \* mutant

ClearedZipKeepsBuffer(z) == [z EXCEPT !.first = FALSE, !.packCount = 0]  \* mutant

ClearedZip(z) == [z EXCEPT !.len = 0, !.first = FALSE, !.packCount = 0]

(* sendAndClear on a non-empty buffer *)
SendAndClear(z) == ToTcp(DoZip(z)) /\ zip' = ClearedZip(z)

(* append: the batch leaves when it is large, or old by its packs' times.  *)
ZipAppend(p) ==
  LET z == [zip EXCEPT !.arr = IF zip.len < Len(@) THEN [@ EXCEPT ![zip.len + 1] = p]
                               ELSE Append(@, p),
                       !.len = @ + 1, !.packCount = @ + 1, !.first = TRUE]
  IN \/ z.len >= ZipMax /\ SendAndClear(z)
     \/ z.len < ZipMax /\ zip.first /\ SendAndClear(z)  \* old
     \/ z.len < ZipMax /\ zip' = z /\ UNCHANGED <<tcpQ, refused>>

ZipRunNoTimeout ==  \* mutant: only a further pack makes a batch leave
  /\ zipQ # <<>>
  /\ zipQ' = Tail(zipQ) /\ ZipAppend(Head(zipQ))
  /\ UNCHANGED <<mode, col, offered, tx, profiled, stepQ, virtQ, dropped, wire>>

ZipRun ==
  /\ \/ zipQ # <<>> /\ zipQ' = Tail(zipQ) /\ ZipAppend(Head(zipQ))
     \/ zipQ = <<>> /\ zip.len > 0 /\ SendAndClear(zip) /\ UNCHANGED zipQ  \* timeout
  /\ UNCHANGED <<mode, col, offered, tx, profiled, stepQ, virtQ, dropped, wire>>

(* The sender encodes the pack; a view shows what the buffer holds now. *)
TcpSend ==
  LET p == Head(tcpQ) IN
  /\ tcpQ # <<>> /\ tcpQ' = Tail(tcpQ)
  /\ wire' = wire \cup {[p EXCEPT !.recs = IF p.kind = "view"
                                           THEN SubSeq(zip.arr, 1, Len(@)) ELSE @]}
  /\ UNCHANGED <<mode, col, offered, tx, profiled, stepQ, virtQ, dropped, zipQ, zip,
                 refused>>

-----------------------------------------------------------------------------
(* The threads of splits and virtual transactions, and SendProfile. *)

StepRun ==
  /\ stepQ # <<>> /\ stepQ' = Tail(stepQ)
  /\ LET s == Head(stepQ) IN
     ZipAdd([type |-> "split", tx |-> s.tx, inx |-> s.inx, steps |-> s.steps])
  /\ UNCHANGED <<mode, col, offered, tx, profiled, virtQ, dropped>>

VirtualRun(t) ==
  /\ virtQ[t] # <<>> /\ virtQ' = [virtQ EXCEPT ![t] = Tail(@)]
  /\ LET s == Head(virtQ[t]) IN
     ZipAdd([type |-> "virtual", tx |-> t, inx |-> s.num, steps |-> s.steps])
  /\ UNCHANGED <<mode, col, offered, tx, profiled, stepQ, dropped>>

EndTx(t) ==
  /\ tx[t] = "run" /\ tx' = [tx EXCEPT ![t] = "ended"]
  /\ UNCHANGED <<mode, col, offered, profiled, stepQ, virtQ, dropped, zipVars>>

(* A short transaction without error of a service that was profiled before *)
(* is not sent, unless its stack was dumped (ProfileActive).               *)
SkipProfile(t) ==
  /\ tx[t] = "ended" /\ profiled
  /\ \A i \in DOMAIN offered[t] : offered[t][i].what # "tail"
  /\ tx' = [tx EXCEPT ![t] = "skipped"]
  /\ UNCHANGED <<mode, col, offered, profiled, stepQ, virtQ, dropped, zipVars>>

(* StepSplitCount (inx) goes with the steps that are left. *)
SendProfile(t) ==
  /\ tx[t] = "ended"
  /\ tx' = [tx EXCEPT ![t] = "sent"] /\ profiled' = TRUE
  /\ \E steps \in GetSteps(col[t]) :
       LET p == [type |-> "profile", tx |-> t, inx |-> col[t].splits, steps |-> steps]
       IN \/ ZipAdd(p)
          \/ ToTcp(Plain(p)) /\ UNCHANGED <<zipQ, zip, wire>>  \* no profile_zip
  /\ UNCHANGED <<mode, col, offered, stepQ, virtQ, dropped>>

(* StatTranx starts a new interval. *)
NewInterval ==
  /\ profiled /\ profiled' = FALSE
  /\ UNCHANGED <<mode, col, offered, tx, stepQ, virtQ, dropped, zipVars>>

Next ==
  \/ \E t \in Txs :
       \/ \E what \in {"light", "slow", "error", "tail"} : AddStep(t, what)
       \/ EndTx(t) \/ SkipProfile(t) \/ SendProfile(t) \/ VirtualRun(t)
  \/ StepRun \/ ZipRun \/ TcpSend \/ NewInterval

Spec == Init /\ [][Next]_vars

(* The threads of the agent run for ever. *)
Fairness ==
  /\ WF_vars(StepRun) /\ WF_vars(ZipRun) /\ WF_vars(TcpSend)
  /\ \A t \in Txs : WF_vars(VirtualRun(t))

FairSpec == Spec /\ Fairness
-----------------------------------------------------------------------------
(* Properties. *)

Queues == zipQ \o SubSeq(zip.arr, 1, zip.len)
Batches(q) == FlattenSeq([i \in DOMAIN q |-> q[i].batch])
Sent == UNION {Range(p.batch) : p \in wire}

TypeOK ==
  /\ mode \in Modes
  /\ \A t \in Txs :
       /\ Len(col[t].buf) <= CASE mode = "normal" -> BufferLen
                                 [] mode = "circular" -> BUFFER_LEN
                                 [] OTHER -> BUFFER_MAX
       /\ Len(col[t].child) <= BUFFER_MAX /\ Len(virtQ[t]) <= SplitQueueSize
       /\ tx[t] \in {"run", "ended", "sent", "skipped"}
  /\ Len(stepQ) <= SplitQueueSize /\ Len(zipQ) <= ZipQueueSize
  /\ zip.len \in 0 .. ZipMax - 1
  /\ \A i \in DOMAIN tcpQ : tcpQ[i].kind \in {"plain", "zip", "view"}

(* Nothing of t is in a queue any more, and no full queue lost a part. *)
Arrived(t) ==
  /\ t \notin dropped /\ virtQ[t] = <<>>
  /\ \A i \in DOMAIN stepQ : stepQ[i].tx # t
  /\ \A p \in Range(Queues \o Batches(tcpQ)) : p.tx # t
  /\ \A r \in refused : r[2] # t

Of(type, t) == {p \in Sent : p.type = type /\ p.tx = t}
Part(type, t, inx) == CHOOSE p \in Of(type, t) : p.inx = inx

(* The reader's view: the splits in order, then the profile's own steps,   *)
(* a step that names a virtual transaction standing for its steps.         *)
Reassembled(t) ==
  LET profile == CHOOSE p \in Of("profile", t) : TRUE
      own == FlattenSeq([i \in 1 .. profile.inx |-> Part("split", t, i - 1).steps])
               \o profile.steps
  IN FlattenSeq([i \in DOMAIN own |->
                   IF own[i].n = 0 THEN Part("virtual", t, own[i].child).steps
                   ELSE <<own[i]>>])

Indexed(s) == [i \in DOMAIN s |-> [s[i] EXCEPT !.idx = i - 1]]

(* The large and the split collector lose nothing: from the packs of a     *)
(* transaction, which ProfileStepThread, ProfileVirtualTxThread and the    *)
(* worker send in any order, every step is recovered, in the order of Add  *)
(* and with its index.                                                     *)
Reassembles ==
  mode \in {"large", "split"} =>
    \A t \in Txs : tx[t] = "sent" /\ Arrived(t) => Reassembled(t) = Indexed(offered[t])

(* The circular collector keeps the last BUFFER_LEN steps, in order. *)
CircularKeepsLast ==
  mode = "circular" => \A t \in Txs :
    LET n == Len(offered[t]) IN
    CircularSteps(col[t]) =
      SubSeq(Indexed(offered[t]), IF n > BUFFER_LEN THEN n - BUFFER_LEN + 1 ELSE 1, n)

(* Room is kept back in the normal collector: however many light steps     *)
(* come first, as many error steps (AddHeavy, AddTail) as lie between the  *)
(* heavy and the maximal count are kept, and as many slow steps as lie     *)
(* between the normal and the heavy count.                                 *)
RoomKeptBack ==
  mode = "normal" => \A t \in Txs :
    LET kept == {col[t].buf[i].n : i \in DOMAIN col[t].buf}
        Errors == {n \in DOMAIN offered[t] : offered[t][n].what \in {"error", "tail"}}
        Slow == {n \in DOMAIN offered[t] : offered[t][n].what = "slow"}
    IN /\ Cardinality(Errors) <= BufferLen - HeavyLen => Errors \subseteq kept
       /\ Cardinality(Errors \cup Slow) <= HeavyLen - NormalLen => Slow \subseteq kept

(* RecordCount of a batch is the number of packs in it. *)
CountAgrees == \A i \in DOMAIN tcpQ : tcpQ[i].count = Len(tcpQ[i].batch)

(* No pack is sent twice, in two batches or in a batch and by itself. *)
BatchedOnce ==
  /\ IsInjective(Queues \o Batches(tcpQ))
  /\ Range(Queues \o Batches(tcpQ)) \cap Sent = {}
  /\ \A p, q \in wire : p # q => Range(p.batch) \cap Range(q.batch) = {}

(* Every profile that SendProfile lets pass reaches the network, with no   *)
(* further traffic to push it, unless TcpQueue refuses it.                 *)
ProfileLeaves ==
  \A t \in Txs : tx[t] = "sent" ~>
    Of("profile", t) # {} \/ <<"profile", t>> \in refused
=============================================================================
