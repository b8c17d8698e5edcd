------------------------------ MODULE DataText ------------------------------
(***************************************************************************)
(* The text dictionary (agent/agent/data/DataText.go).  Packs carry hashes *)
(* of names; the text of a hash is sent once, by SendHashText, which       *)
(* remembers it in the bounded cache of its kind (div), and again after a  *)
(* reset.  Texts pass through textQueue to one goroutine, process, which   *)
(* gathers them in a TextPack and hands the pack to the network queue.     *)
(*                                                                         *)
(* SendHashText runs in application goroutines, without process's lock: it *)
(* is two steps, the cache and the queue.  reset clears the caches one by  *)
(* one.  The five second timer of process may expire at any iteration.     *)
(***************************************************************************)
EXTENDS Naturals, Sequences, Functions

CONSTANTS
  Callers,      \* application goroutines in SendHashText
  Divs,         \* kinds of text, each with its cache
  Hashes,
  Empty,        \* hashes of texts of length 0
  CacheMax,     \* SetMax of each cache
  QueueTextSize,
  BUFFERED_MAX, \* in texts
  Hours,        \* bound: hours of the modelled clock, which then wraps
  MaxUses,      \* bound: calls of SendHashText
  MaxReset,     \* bound: changes of text_reset and ResetHash
  None

ASSUME ConstantsAssumption ==
  /\ {CacheMax, QueueTextSize, BUFFERED_MAX, Hours} \subseteq Nat \ {0}
  /\ MaxUses \in Nat /\ MaxReset \in Nat
  /\ Empty \subseteq Hashes
  /\ None \notin Divs \X Hashes

VARIABLES
  cache,     \* per div: remembered hashes, oldest first
  caller,    \* what each caller has put in the cache but not in the queue
  textQueue,
  buffer,    \* bufferPack and bufferedLength
  process,   \* where the goroutine is in process
  clearing,  \* divs that the resets under way have still to clear
  clock,     \* hour, lastDate; connected: LastConnectedTime > 0
  conf,      \* conf.TextReset and DataText.textReset
  uses, resets,
  delivered, lost,  \* texts in packs that TcpQueue took, or refused
  queued, forgotten \* how often each text was queued, left its cache

recVars == <<queued, forgotten>>
vars == <<cache, caller, textQueue, buffer, process, clearing, clock, conf, uses,
          resets, delivered, lost, queued, forgotten>>

Recs == Divs \X Hashes
EmptyPack == [texts |-> <<>>, len |-> 0]

Init ==
  /\ cache = [d \in Divs |-> <<>>]
  /\ caller = [c \in Callers |-> None]
  /\ textQueue = <<>> /\ buffer = EmptyPack
  /\ process = "get" /\ clearing = [process |-> {}, control |-> {}]
  /\ clock = [hour |-> 0, lastDate |-> 0, connected |-> FALSE]
  /\ conf = [current |-> 0, seen |-> 0]
  /\ uses = 0 /\ resets = 0
  /\ delivered = {} /\ lost = {}
  /\ queued = [r \in Recs |-> 0] /\ forgotten = [r \in Recs |-> 0]

-----------------------------------------------------------------------------
(* hmap.IntLinkedSet: Put pushes the oldest out of a full set. *)
LinkedPutUnbounded(s, h) == Append(s, h)  \* mutant: SetMax is forgotten

LinkedPut(s, h) == Append(IF Len(s) >= CacheMax THEN Tail(s) ELSE s, h)
PushedOut(s) == IF Len(s) >= CacheMax THEN {Head(s)} ELSE {}
LinkedRemove(s, h) == SelectSeq(s, LAMBDA x : x # h)

Forget(S) == [r \in Recs |-> IF r \in S THEN forgotten[r] + 1 ELSE forgotten[r]]

SendHashTextUnchecked(c, d, h) ==  \* mutant: the cache is not consulted
  /\ caller[c] = None /\ uses < MaxUses
  /\ uses' = uses + 1
  /\ cache' = [cache EXCEPT ![d] = IF h \in Range(@) THEN @ ELSE LinkedPut(@, h)]
  /\ caller' = [caller EXCEPT ![c] = <<d, h>>]
  /\ UNCHANGED <<textQueue, buffer, process, clearing, clock, conf, resets,
                 delivered, lost, recVars>>

(* The hash is put in the cache of its div; a known hash ends the call. *)
SendHashText(c, d, h) ==
  /\ caller[c] = None /\ uses < MaxUses
  /\ uses' = uses + 1
  /\ \/ /\ h \in Range(cache[d])
        /\ UNCHANGED <<cache, caller, forgotten>>
     \/ /\ h \notin Range(cache[d])
        /\ cache' = [cache EXCEPT ![d] = LinkedPut(@, h)]
        /\ forgotten' = Forget({d} \X PushedOut(cache[d]))
        /\ caller' = [caller EXCEPT ![c] = <<d, h>>]
  /\ UNCHANGED <<textQueue, buffer, process, clearing, clock, conf, resets,
                 delivered, lost, queued>>

AddHashTextKeeps(c) ==  \* mutant: a refused text stays in the cache
  /\ caller[c] # None
  /\ caller' = [caller EXCEPT ![c] = None]
  /\ textQueue' = IF Len(textQueue) < QueueTextSize THEN Append(textQueue, caller[c])
                  ELSE textQueue
  /\ UNCHANGED <<cache, buffer, process, clearing, clock, conf, uses, resets,
                 delivered, lost, recVars>>

(* textQueue.Put; a full queue takes the hash out of the cache again. *)
AddHashText(c) ==
  LET r == caller[c] IN
  /\ r # None
  /\ caller' = [caller EXCEPT ![c] = None]
  /\ \/ /\ Len(textQueue) < QueueTextSize
        /\ textQueue' = Append(textQueue, r)
        /\ queued' = [queued EXCEPT ![r] = @ + 1]
        /\ UNCHANGED <<cache, forgotten>>
     \/ /\ Len(textQueue) >= QueueTextSize
        /\ cache' = [cache EXCEPT ![r[1]] = LinkedRemove(@, r[2])]
        /\ forgotten' = Forget({r})
        /\ UNCHANGED <<textQueue, queued>>
  /\ UNCHANGED <<buffer, process, clearing, clock, conf, uses, resets, delivered,
                 lost>>

-----------------------------------------------------------------------------
(* process *)

SendPackKeeps(pack) ==  \* mutant: bufferedLength is reset, the pack is kept
  /\ \/ delivered' = delivered \cup Range(pack.texts) /\ UNCHANGED lost
     \/ lost' = lost \cup Range(pack.texts) /\ UNCHANGED delivered
  /\ buffer' = [pack EXCEPT !.len = 0]

(* send: the pack goes to TcpQueue, which may be full. *)
SendPack(pack) ==
  /\ \/ delivered' = delivered \cup Range(pack.texts) /\ UNCHANGED lost
     \/ lost' = lost \cup Range(pack.texts) /\ UNCHANGED delivered
  /\ buffer' = EmptyPack

(* GetTimeout, and a send when the buffer is long. *)
ProcessGet ==
  /\ process = "get" /\ process' = "timed"
  /\ \/ /\ textQueue = <<>>
        /\ UNCHANGED <<textQueue, buffer, delivered, lost>>
     \/ /\ textQueue # <<>>
        /\ textQueue' = Tail(textQueue)
        /\ LET r == Head(textQueue)
               pack == [texts |-> Append(buffer.texts, r),
                        len |-> buffer.len + IF r[2] \in Empty THEN 0 ELSE 1]
           IN IF pack.len >= BUFFERED_MAX THEN SendPack(pack)
              ELSE buffer' = pack /\ UNCHANGED <<delivered, lost>>
  /\ UNCHANGED <<cache, caller, clearing, clock, conf, uses, resets, recVars>>

(* Five seconds after the last send, on a connected session. *)
ProcessTimed ==
  /\ process = "timed" /\ process' = "date"
  /\ \/ UNCHANGED <<buffer, delivered, lost>>
     \/ clock.connected /\ buffer.len > 0 /\ SendPack(buffer)
  /\ UNCHANGED <<cache, caller, textQueue, clearing, clock, conf, uses, resets,
                 recVars>>

GetDateFixed(hour) == 0  \* mutant: the date never changes

(* Now() / MILLIS_PER_HOUR *)
GetDate(hour) == hour

(* A new date, or a new text_reset: what is buffered is sent, then reset. *)
ProcessDate ==
  /\ process = "date"
  /\ \/ /\ clock.lastDate = GetDate(clock.hour) /\ conf.seen = conf.current
        /\ process' = "get"
        /\ UNCHANGED <<buffer, clearing, clock, conf, delivered, lost>>
     \/ /\ clock.lastDate # GetDate(clock.hour) \/ conf.seen # conf.current
        /\ clock' = [clock EXCEPT !.lastDate = GetDate(clock.hour)]
        /\ conf' = [conf EXCEPT !.seen = conf.current]
        /\ IF buffer.len > 0 THEN SendPack(buffer)
           ELSE UNCHANGED <<buffer, delivered, lost>>
        /\ clearing' = [clearing EXCEPT !.process = Divs]
        /\ process' = "reset"
  /\ UNCHANGED <<cache, caller, textQueue, uses, resets, recVars>>

(* reset: one cache after the other, for process or for ResetHash. *)
ClearCache(who, d) ==
  /\ d \in clearing[who]
  /\ clearing' = [clearing EXCEPT ![who] = @ \ {d}]
  /\ cache' = [cache EXCEPT ![d] = <<>>]
  /\ forgotten' = Forget({d} \X Range(cache[d]))
  /\ UNCHANGED <<caller, textQueue, buffer, process, clock, conf, uses, resets,
                 delivered, lost, queued>>

ResetDone ==
  /\ process = "reset" /\ clearing.process = {}
  /\ process' = "get"
  /\ UNCHANGED <<cache, caller, textQueue, buffer, clearing, clock, conf, uses,
                 resets, delivered, lost, recVars>>

-----------------------------------------------------------------------------
(* ResetHash by a control command, the configuration, time, the network. *)

ResetHash ==
  /\ resets < MaxReset /\ clearing.control = {}
  /\ resets' = resets + 1
  /\ clearing' = [clearing EXCEPT !.control = Divs]
  /\ UNCHANGED <<cache, caller, textQueue, buffer, process, clock, conf, uses,
                 delivered, lost, recVars>>

ChangeTextReset ==
  /\ resets < MaxReset
  /\ resets' = resets + 1
  /\ conf' = [conf EXCEPT !.current = @ + 1]
  /\ UNCHANGED <<cache, caller, textQueue, buffer, process, clearing, clock, uses,
                 delivered, lost, recVars>>

(* process iterates every second or so: it meets every hour. *)
HourPasses ==
  /\ clock.lastDate = GetDate(clock.hour)
  /\ clock' = [clock EXCEPT !.hour = (@ + 1) % Hours]
  /\ UNCHANGED <<cache, caller, textQueue, buffer, process, clearing, conf, uses,
                 resets, delivered, lost, recVars>>

Connection ==
  /\ clock' = [clock EXCEPT !.connected = ~@]
  /\ UNCHANGED <<cache, caller, textQueue, buffer, process, clearing, conf, uses,
                 resets, delivered, lost, recVars>>

Next ==
  \/ \E c \in Callers :
       \/ \E d \in Divs, h \in Hashes : SendHashText(c, d, h)
       \/ AddHashText(c)
  \/ ProcessGet \/ ProcessTimed \/ ProcessDate \/ ResetDone
  \/ \E who \in DOMAIN clearing, d \in Divs : ClearCache(who, d)
  \/ ResetHash \/ ChangeTextReset \/ HourPasses \/ Connection

Spec == Init /\ [][Next]_vars

(* Goroutines are scheduled and the hours pass; the network may stay down. *)
Fairness ==
  /\ WF_vars(ProcessGet \/ ProcessTimed \/ ProcessDate \/ ResetDone)
  /\ \A who \in {"process", "control"} : WF_vars(\E d \in Divs : ClearCache(who, d))
  /\ \A c \in Callers : WF_vars(AddHashText(c))
  /\ WF_vars(HourPasses)

FairSpec == Spec /\ Fairness

-----------------------------------------------------------------------------
(* Properties. *)

TypeOK ==
  /\ \A d \in Divs : cache[d] \in Seq(Hashes) /\ Len(cache[d]) <= CacheMax
  /\ caller \in [Callers -> Recs \cup {None}]
  /\ textQueue \in Seq(Recs) /\ Len(textQueue) <= QueueTextSize
  /\ buffer.texts \in Seq(Recs) /\ buffer.len \in 0 .. BUFFERED_MAX - 1
  /\ process \in {"get", "timed", "date", "reset"}
  /\ delivered \subseteq Recs /\ lost \subseteq Recs

(* A hash stays in its cache only while its text is on its way: otherwise  *)
(* SendHashText would suppress a text the server never gets.  A pack that  *)
(* TcpQueue refuses is the one loss.                                       *)
CachedIsOnItsWay ==
  \A d \in Divs : \A h \in Range(cache[d]) :
    <<d, h>> \in Range(caller) \cup Range(textQueue) \cup Range(buffer.texts)
                 \cup delivered \cup lost

(* Concurrent callers queue a text once per stay in its cache. *)
NoRedundantText == \A r \in Recs : queued[r] <= forgotten[r] + 1

(* Buffered text leaves with the next send, connected or not: within an    *)
(* hour at the latest.                                                     *)
BufferDrains == buffer.len > 0 ~> buffer.len = 0

(* bufferedLength and the pack agree: no text waits in a pack that process *)
(* takes for empty, but a text of length 0.                                *)
LengthAgrees ==
  buffer.len = Len(SelectSeq(buffer.texts, LAMBDA r : r[2] \notin Empty))
=============================================================================
