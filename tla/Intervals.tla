------------------------------ MODULE Intervals ------------------------------
(***************************************************************************)
(* The aggregates of the agent: tables of statistics (agent/agent/stat),   *)
(* which TimingSender sends every five minutes, and meters                 *)
(* (agent/agent/counter/meter), which the tasks of CounterManager put into *)
(* the counter pack every five seconds.  Goroutines record events (a       *)
(* transaction, a query, a call) in an aggregate while another goroutine   *)
(* takes what has gathered and starts afresh.  Hardly any aggregate has a  *)
(* lock around both, so the questions are which events a take may lose,    *)
(* count twice or tear, and which it may not.                              *)
(*                                                                         *)
(* The aggregates differ in a few respects only, each a field of a policy: *)
(*   find    how a recorder gets at the record of a key:                   *)
(*           "contains" ContainsKey, then Get; "get" one Get; "bucket" a   *)
(*           single record behind a pointer that every statement reads     *)
(*           anew; "add" one call on a map of plain counters               *)
(*   gone    what it does when that Get finds nothing after all            *)
(*   full    a full table refuses a new key or evicts its oldest entry     *)
(*   take    "copy" read the records, then Clear; "list" collect the       *)
(*           records, Clear, then read them; "keyed" walk over the keys,   *)
(*           Get each, then put a new map; "swap" put a new map or bucket  *)
(*           first, then read the old; "swapclear" the same, and clear     *)
(*           both; "ship" put a new map and send the old one itself        *)
(*   lock    who holds the aggregate's mutex: nobody, "add" the recorder,  *)
(*           "entry" the recorder while it looks for its record, "both"    *)
(*           the recorder for the whole of it and the taker                *)
(*   exact   the mutex is there for events to be counted exactly           *)
(*   carrier the values leave in a "pack" of their own or in the one       *)
(*           "counter" pack CounterManager shares with its tasks           *)
(*   fields  how many fields of a record an event adds to, one or several  *)
(*   max     the entries a table holds, given by the configuration         *)
(* One behaviour is about one aggregate, whichever Init chooses: no code   *)
(* relates two of them.                                                    *)
(***************************************************************************)
EXTENDS Integers, Sequences, FiniteSets, SequencesExt, FiniteSetsExt

CONSTANTS
  Events,      \* the events recorded: 1 .. n, in the order they are begun
  Keys,        \* keys of a table: urls, hosts, callers, models
  Recorders,   \* goroutines that record
  TableMaxes,  \* values of SetMax, StatIPURLMaxCount: 107, 307, 500 .. in the code
  TakeMax,     \* entries a "keyed" task looks at: 100 or 300 in the code
  MaxToggles,  \* bound: how often stat_enabled / counter_enabled changes
  None

ASSUME AggregateAssumption ==
  /\ Events = 1 .. Cardinality(Events)
  /\ TableMaxes \subseteq Nat \ {0} /\ TableMaxes # {}
  /\ TakeMax \in Nat \ {0}
  /\ None \notin Recorders

VARIABLES
  kind,     \* the policy of the aggregate
  enabled,  \* conf.StatEnabled, conf.CounterEnabled
  toggles,
  table,    \* the current map, oldest entry first: per key, the events added
            \* to the first field of its record, and to a later one
  rc,       \* the recorders
  taker,    \* TimingSender, or the task of CounterManager
  lock,     \* who holds the mutex
  packs,    \* what was sent: per pack and key, the events of both fields
  fate,     \* of each event: new, adding, done
  quiet,    \* history: events whose recording nothing disturbed
  dropped   \* history: events refused, evicted, cut off or cleared

vars == <<kind, enabled, toggles, table, rc, taker, lock, packs, fate, quiet, dropped>>

-----------------------------------------------------------------------------
(* The policies.                                                           *)

Stat(find, full, take, fields) ==
  [find |-> find, gone |-> "panic", full |-> full, take |-> take, lock |-> "none",
   exact |-> FALSE, carrier |-> "pack", fields |-> fields, max |-> 0]

Meter(find, gone, take, locked) ==
  [find |-> find, gone |-> gone, full |-> "evict", take |-> take, lock |-> locked,
   exact |-> FALSE, carrier |-> "counter", fields |-> 2, max |-> 0]

StatTranx == Stat("contains", "refuse", "copy", 2)
StatSql == Stat("contains", "refuse", "list", 2)
StatHttpc == Stat("contains", "refuse", "copy", 2)
StatError == Stat("get", "evict", "copy", 1)
StatTranxDomain == Stat("get", "evict", "copy", 2)
StatTranxLogin == Stat("get", "evict", "copy", 2)
StatTranxReferer == Stat("get", "evict", "copy", 2)
StatTranxMtCaller == Stat("get", "evict", "copy", 2)
StatRemoteIPURL == Stat("get", "refuse", "swapclear", 2)
StatRemoteIp == Stat("add", "refuse", "ship", 1)
StatUserAgent == Stat("add", "refuse", "ship", 1)

MeterService == Meter("bucket", "put", "swap", "none")
MeterServiceByCaller == Meter("contains", "put", "keyed", "none")
MeterHTTPC == Meter("bucket", "put", "swap", "add")
MeterHTTPCByHost == Meter("contains", "panic", "keyed", "add")
MeterSQL == Meter("bucket", "put", "swap", "none")
MeterSQLByDbc == Meter("contains", "put", "keyed", "none")

\* The lock of the meter is not taken by GetBucketReset.
MeterLLMUnlockedTake ==
  [find |-> "get", gone |-> "put", full |-> "evict", take |-> "swap", lock |-> "add",
   exact |-> TRUE, carrier |-> "pack", fields |-> 2, max |-> 0]

\* Features, tokens and status codes are added under the lock.
MeterLLM ==
  [find |-> "get", gone |-> "put", full |-> "evict", take |-> "swap", lock |-> "both",
   exact |-> TRUE, carrier |-> "pack", fields |-> 2, max |-> 0]

\* AddPerf and AddApiError find the entry under the lock and add to it after.
MeterLLMEntry == [MeterLLM EXCEPT !.lock = "entry", !.exact = FALSE]

Kinds ==
  {StatTranx, StatSql, StatHttpc, StatError, StatTranxDomain, StatTranxLogin,
   StatTranxReferer, StatTranxMtCaller, StatRemoteIPURL, StatRemoteIp, StatUserAgent,
   MeterService, MeterServiceByCaller, MeterHTTPC, MeterHTTPCByHost, MeterSQL,
   MeterSQLByDbc, MeterLLM, MeterLLMEntry}

-----------------------------------------------------------------------------
(* Records and tables.  A record is known to a recorder by where it is: in *)
(* the current map ("table"), with the taker ("old"), or nowhere any more. *)

EmptyRec == [first |-> {}, later |-> {}]
EmptyPack == [k \in Keys |-> EmptyRec]
Idle == [pc |-> "idle", ev |-> 0, key |-> None, from |-> "none"]
IdleTaker ==
  [pc |-> "idle", old |-> <<>>, seen |-> {}, listed |-> {}, n |-> 0, key |-> None,
   pack |-> EmptyPack, sent |-> FALSE]

Entry(k) == [key |-> k, first |-> {}, later |-> {}]
KeysOf(t) == {t[i].key : i \in DOMAIN t}
At(t, k) == t[CHOOSE i \in DOMAIN t : t[i].key = k]
EventsIn(t) == UNION {t[i].first \cup t[i].later : i \in DOMAIN t}

\* Event e is added to the fields F of the record of k.
AddTo(t, k, F, e) ==
  [i \in DOMAIN t |->
     IF t[i].key # k THEN t[i]
     ELSE [t[i] EXCEPT !.first = IF "first" \in F THEN @ \cup {e} ELSE @,
                       !.later = IF "later" \in F THEN @ \cup {e} ELSE @]]

PackEvents(p, f) == UNION {p[k][f] : k \in Keys}
Sent(f) == UNION {PackEvents(packs[i], f) : i \in DOMAIN packs}

\* A bucket is a table with one entry that is always there.
TheKey == CHOOSE k \in Keys : TRUE
NewTable == IF kind.find = "bucket" THEN <<Entry(TheKey)>> ELSE <<>>

Active(g) == rc[g].pc # "idle"

\* The taker is between its first look at the live table and the reset.
Reading ==
  taker.pc \in {"next", "get", "reset"} /\ kind.take \in {"copy", "list", "keyed", "swapclear"}

Init ==
  /\ kind \in {[p EXCEPT !.max = m] : p \in Kinds, m \in TableMaxes}
  /\ kind.find = "bucket" => kind.max = Min(TableMaxes)
  /\ enabled = TRUE /\ toggles = 0
  /\ table = IF kind.find = "bucket" THEN <<Entry(TheKey)>> ELSE <<>>
  /\ rc = [g \in Recorders |-> Idle]
  /\ taker = IdleTaker
  /\ lock = None
  /\ packs = <<>>
  /\ fate = [e \in Events |-> "new"]
  /\ quiet = {} /\ dropped = {}

-----------------------------------------------------------------------------
(* Recorders: the profile worker (SendProfile), or a goroutine of the      *)
(* application (EndSql, EndHttpc, ProfileError, LLMState.Publish).         *)

\* Two recordings at once can take updates from each other.
Racing == kind.lock \in {"none", "entry"}

FirstStep ==
  CASE kind.find = "bucket" -> "first"
    [] kind.find = "add" -> "load"
    [] OTHER -> "find"

\* A recorder sets out.  It disturbs recordings in progress, and is disturbed
\* by them and by a take that is reading the table.
Begin(g, k) ==
  LET e == Min({x \in Events : fate[x] = "new"})
      disturbed == IF Racing /\ ~kind.exact THEN {rc[h].ev : h \in {h \in Recorders : Active(h)}}
                                            ELSE {}
  IN /\ ~Active(g)
     /\ \E x \in Events : fate[x] = "new"
     /\ kind.find = "bucket" => k = TheKey
     /\ kind.lock # "none" => lock = None
     /\ lock' = IF kind.lock = "none" THEN lock ELSE g
     /\ rc' = [rc EXCEPT ![g] =
                 [pc |-> FirstStep, ev |-> e, key |-> k,
                  from |-> IF kind.find = "bucket" THEN "table" ELSE "none"]]
     /\ fate' = [fate EXCEPT ![e] = "adding"]
     /\ quiet' = (IF disturbed = {} /\ (kind.exact \/ ~Reading) THEN quiet \cup {e} ELSE quiet)
                   \ disturbed
     /\ UNCHANGED <<kind, enabled, toggles, table, taker, packs, dropped>>

\* The recorder returns; deferred functions release the mutex.
Finish(g) ==
  /\ rc' = [rc EXCEPT ![g] = Idle]
  /\ fate' = [fate EXCEPT ![rc[g].ev] = "done"]
  /\ lock' = IF lock = g THEN None ELSE lock

\* It has its record; "entry" locking ends here.
Unlocked(g) == lock' = IF kind.lock = "entry" /\ lock = g THEN None ELSE lock

Holding(g) ==
  /\ rc' = [rc EXCEPT ![g].pc = "first", ![g].from = "table"]
  /\ Unlocked(g)
  /\ UNCHANGED fate

AtStep(g, pc) ==
  /\ rc' = [rc EXCEPT ![g].pc = pc]
  /\ UNCHANGED <<lock, fate>>

Full(t) == Len(t) >= kind.max
Refused(t) == kind.full = "refuse" /\ Full(t)

\* ContainsKey, or Get: the record is found, the table is full and refuses,
\* or a record has to be made.
Find(g) ==
  /\ rc[g].pc = "find"
  /\ \/ /\ rc[g].key \in KeysOf(table)
        /\ IF kind.find = "contains" THEN AtStep(g, "get") ELSE Holding(g)
        /\ UNCHANGED dropped
     \/ /\ rc[g].key \notin KeysOf(table) /\ Refused(table)
        /\ Finish(g)
        /\ dropped' = dropped \cup {rc[g].ev}
     \/ /\ rc[g].key \notin KeysOf(table) /\ ~Refused(table)
        /\ AtStep(g, "put")
        /\ UNCHANGED dropped
  /\ UNCHANGED <<kind, enabled, toggles, table, taker, packs, quiet>>

\* The Get after ContainsKey.  The entry may be gone: a type assertion on nil
\* panics, which ends the recording, or the code makes a record after all.
Get(g) ==
  /\ rc[g].pc = "get"
  /\ \/ /\ rc[g].key \in KeysOf(table)
        /\ Holding(g)
        /\ UNCHANGED dropped
     \/ /\ rc[g].key \notin KeysOf(table) /\ kind.gone = "put"
        /\ AtStep(g, "put")
        /\ UNCHANGED dropped
     \/ /\ rc[g].key \notin KeysOf(table) /\ kind.gone = "panic"
        /\ Finish(g)
        /\ dropped' = dropped \cup {rc[g].ev}
  /\ UNCHANGED <<kind, enabled, toggles, table, taker, packs, quiet>>

PutUnbounded(t, k) ==
  IF k \in KeysOf(t) THEN [i \in DOMAIN t |-> IF t[i].key = k THEN Entry(k) ELSE t[i]]
                     ELSE Append(t, Entry(k))

\* Put of a linked map: it replaces the record of a key it has, and makes room
\* for another key by dropping the oldest entry.  The map StatRemoteIPURL.Send
\* puts in has no maximum.
MapPut(t, k) ==
  IF k \notin KeysOf(t) /\ Full(t) /\ kind.take # "swapclear"
    THEN Append(Tail(t), Entry(k))
    ELSE PutUnbounded(t, k)

\* A new record is put into the table.  The record it replaces or evicts stays
\* in the list of a taker that has it, and is otherwise forgotten.
PutRec(g) ==
  LET k == rc[g].key
      t == MapPut(table, k)
      out == SelectSeq(table, LAMBDA x : x.key = k \/ x.key \notin KeysOf(t))
      gone == KeysOf(out)
  IN /\ rc[g].pc = "put"
     /\ table' = t
     /\ dropped' = dropped \cup EventsIn(SelectSeq(out, LAMBDA x : x.key \notin taker.listed))
     /\ taker' = [taker EXCEPT !.seen = @ \ (gone \ {k}), !.listed = @ \ gone,
                               !.old = @ \o SelectSeq(out, LAMBDA x : x.key \in taker.listed)]
     /\ rc' = [h \in Recorders |->
                 IF h = g THEN [rc[g] EXCEPT !.pc = "first", !.from = "table"]
                 ELSE IF rc[h].from = "table" /\ rc[h].key \in gone
                   THEN [rc[h] EXCEPT !.from = IF rc[h].key \in taker.listed THEN "old" ELSE "gone"]
                 ELSE rc[h]]
     /\ Unlocked(g)
     /\ UNCHANGED <<kind, enabled, toggles, packs, fate, quiet>>

\* this.table is read before AddNoOver is called on it.
Load(g) ==
  /\ rc[g].pc = "load"
  /\ rc' = [rc EXCEPT ![g].pc = "add", ![g].from = "table"]
  /\ UNCHANGED <<kind, enabled, toggles, table, taker, lock, packs, fate, quiet, dropped>>

\* AddNoOver on the map read before, which may have been shipped meanwhile.
AddNoOver(g) ==
  LET k == rc[g].key
      Added(t) == AddTo(IF k \in KeysOf(t) THEN t ELSE Append(t, Entry(k)), k,
                        {"first", "later"}, rc[g].ev)
      Over(t) == k \notin KeysOf(t) /\ Full(t)
  IN /\ rc[g].pc = "add"
     /\ \/ /\ rc[g].from = "table" /\ ~Over(table)
           /\ table' = Added(table)
           /\ UNCHANGED <<taker, dropped>>
        \/ /\ rc[g].from = "old" /\ ~Over(taker.old)
           /\ taker' = [taker EXCEPT !.old = Added(@)]
           /\ UNCHANGED <<table, dropped>>
        \/ /\ \/ rc[g].from = "gone"
              \/ rc[g].from = "table" /\ Over(table)
              \/ rc[g].from = "old" /\ Over(taker.old)
           /\ dropped' = dropped \cup {rc[g].ev}
           /\ UNCHANGED <<table, taker>>
     /\ Finish(g)
     /\ UNCHANGED <<kind, enabled, toggles, packs, quiet>>

\* Where a statement that adds to a field of the record may write.  A bucket is
\* reached through the meter each time: only a pointer read just before a swap
\* leads to the old one.  An unprotected "+=" of another recorder can undo the
\* addition.
Targets(g) ==
  {rc[g].from} \cup (IF kind.find = "bucket" THEN {"table"} ELSE {})
    \cup (IF Racing /\ \E h \in Recorders \ {g} : Active(h) THEN {"gone"} ELSE {})

Write(g, F) ==
  \E w \in Targets(g) :
    /\ table' = IF w = "table" THEN AddTo(table, rc[g].key, F, rc[g].ev) ELSE table
    /\ taker' = IF w = "old" THEN [taker EXCEPT !.old = AddTo(@, rc[g].key, F, rc[g].ev)]
                             ELSE taker

\* Count++, the first field an event adds to, and the only one of an ErrorRec.
AddFirst(g) ==
  /\ rc[g].pc = "first"
  /\ IF kind.fields = 1
       THEN /\ Write(g, {"first", "later"})
            /\ Finish(g)
       ELSE /\ Write(g, {"first"})
            /\ rc' = [rc EXCEPT ![g].pc = "later",
                                ![g].from = IF kind.find = "bucket" THEN "table" ELSE @]
            /\ UNCHANGED <<fate, lock>>
  /\ UNCHANGED <<kind, enabled, toggles, packs, quiet, dropped>>

\* Time += elapsed, Error++ and the rest.
AddLater(g) ==
  /\ rc[g].pc = "later"
  /\ Write(g, {"later"})
  /\ Finish(g)
  /\ UNCHANGED <<kind, enabled, toggles, packs, quiet, dropped>>

Record(g) ==
  Find(g) \/ Get(g) \/ PutRec(g) \/ Load(g) \/ AddNoOver(g) \/ AddFirst(g) \/ AddLater(g)

-----------------------------------------------------------------------------
(* The taker.                                                              *)

\* A reset ends the peace of the recordings in progress, unless a mutex keeps
\* it out.
Disturb == quiet' = IF kind.exact THEN quiet ELSE quiet \ {rc[g].ev : g \in Recorders}

\* Records in the hands of recorders change their place.
Moved(to(_, _)) ==
  rc' = [g \in Recorders |-> [rc[g] EXCEPT !.from = to(@, rc[g].key)]]

Swaps == kind.take \in {"swap", "swapclear", "ship"}

GatheringOffByOne == Len(table) > 1

\* An empty table is left alone; so is, here, an empty bucket nobody writes to.
Gathering ==
  /\ table # <<>>
  /\ kind.find = "bucket" => EventsIn(table) # {} \/ \E g \in Recorders : Active(g)

\* The five-minute unit or the interval has changed: Send, or process.
TakeStart ==
  /\ taker.pc = "idle" /\ enabled
  /\ kind.lock = "both" => lock = None
  /\ Gathering
  /\ table' = IF Swaps THEN NewTable ELSE table
  /\ Moved(LAMBDA w, k : IF Swaps /\ w = "table" THEN "old" ELSE w)
  /\ taker' = [IdleTaker EXCEPT !.pc = IF kind.take = "ship" THEN "send" ELSE "next",
                                !.old = IF Swaps THEN table ELSE <<>>]
  /\ Disturb
  /\ UNCHANGED <<kind, enabled, toggles, lock, packs, fate, dropped>>

\* The entries the taker has not come to; a "keyed" task looks at TakeMax.
Unseen ==
  SelectSeq(IF Swaps THEN taker.old ELSE table, LAMBDA x : x.key \notin taker.seen)
WalkOverEarly == Unseen = <<>> \/ (Len(Unseen) = 1 /\ taker.seen # {})
WalkOver == Unseen = <<>> \/ (kind.take = "keyed" /\ taker.n = TakeMax)

\* The values of a record, as they are now, go into the pack.
Packed(p, x) ==
  LET v == [first |-> x.first, later |-> x.later]
  IN [p EXCEPT ![x.key] = IF kind.take = "keyed" THEN v
                          ELSE [first |-> @.first \cup v.first, later |-> @.later \cup v.later]]

\* The next entry of the walk: its values are read, its record is put into a
\* list, or only its key is noted.
Walk ==
  /\ taker.pc = "next"
  /\ \/ /\ WalkOver
        /\ taker' = [taker EXCEPT !.pc = "reset"]
     \/ /\ ~WalkOver
        /\ LET x == Head(Unseen)
               t == [taker EXCEPT !.seen = @ \cup {x.key}]
           IN taker' = CASE kind.take = "keyed" -> [t EXCEPT !.pc = "get", !.key = x.key, !.n = @ + 1]
                         [] kind.take = "list" -> [t EXCEPT !.listed = @ \cup {x.key}]
                         [] OTHER -> [t EXCEPT !.pack = Packed(@, x)]
  /\ UNCHANGED <<kind, enabled, toggles, table, rc, lock, packs, fate, quiet, dropped>>

Shipped(p) == packs' = IF taker.sent \/ p = EmptyPack THEN packs ELSE Append(packs, p)

\* Stat.Get(key).(*Bucket).  When the entry has been evicted meanwhile the task
\* panics: process recovers, what it has read stays in the counter pack, and
\* the map is not reset.
GetByKey ==
  /\ taker.pc = "get"
  /\ \/ /\ taker.key \in KeysOf(table)
        /\ taker' = [taker EXCEPT !.pc = "next", !.key = None,
                                  !.pack = Packed(@, At(table, taker.key))]
        /\ UNCHANGED packs
     \/ /\ taker.key \notin KeysOf(table)
        /\ taker' = IdleTaker
        /\ Shipped(taker.pack)
  /\ UNCHANGED <<kind, enabled, toggles, table, rc, lock, fate, quiet, dropped>>

ResetForgets ==
  /\ taker.pc = "reset"
  /\ taker' = [taker EXCEPT !.pc = "send"]
  /\ UNCHANGED <<kind, enabled, toggles, table, rc, lock, packs, fate, quiet, dropped>>

\* table.Clear(), ResetStat(), or both Clears of StatRemoteIPURL.Send.  The
\* records in the list of StatSql.Send live on there.  What a "keyed" task did
\* not get round to is gone.
Reset ==
  /\ taker.pc = "reset"
  /\ IF kind.take = "swap"
       THEN /\ taker' = [taker EXCEPT !.pc = "send"]
            /\ UNCHANGED <<table, rc>>
       ELSE /\ table' = <<>>
            /\ taker' = [taker EXCEPT
                           !.pc = "send",
                           !.old = IF kind.take = "swapclear" THEN <<>>
                                   ELSE @ \o SelectSeq(table, LAMBDA x : x.key \in taker.listed)]
            /\ Moved(LAMBDA w, k : CASE w = "table" -> IF k \in taker.listed THEN "old" ELSE "gone"
                                     [] w = "old" -> IF kind.take = "list" THEN "old" ELSE "gone"
                                     [] OTHER -> w)
  /\ dropped' = IF kind.take = "keyed" /\ taker.n = TakeMax
                  THEN dropped \cup EventsIn(SelectSeq(table, LAMBDA x : x.key \notin taker.seen))
                  ELSE dropped
  /\ UNCHANGED <<kind, enabled, toggles, lock, packs, fate, quiet>>

\* The pack leaves.  A list of records is read only now, and so is a map that
\* is itself the pack.  After a timeout the counter pack has left already.
Send ==
  LET p == IF kind.take \in {"list", "ship"}
             THEN FoldSeq(LAMBDA x, acc : Packed(acc, x), EmptyPack, taker.old)
             ELSE taker.pack
      all == PackEvents(p, "first") \cup PackEvents(p, "later")
  IN /\ taker.pc = "send"
     /\ Shipped(p)
     /\ dropped' = IF taker.sent THEN dropped \cup (all \ (Sent("first") \cup Sent("later")))
                                 ELSE dropped
     /\ taker' = IdleTaker
     /\ Moved(LAMBDA w, k : IF w = "old" THEN "gone" ELSE w)
     /\ UNCHANGED <<kind, enabled, toggles, table, lock, fate, quiet>>

\* ExecuteTasks takes longer than CounterTimeout: CounterManager sends the pack
\* as it is, and it is written out at this moment.  The task goes on and fills
\* in a pack nobody will look at.
CounterTimeout ==
  /\ kind.carrier = "counter"
  /\ taker.pc \in {"next", "get", "reset", "send"} /\ ~taker.sent
  /\ Shipped(taker.pack)
  /\ taker' = [taker EXCEPT !.sent = TRUE]
  /\ UNCHANGED <<kind, enabled, toggles, table, rc, lock, fate, quiet, dropped>>

IsStat == kind.carrier = "pack" /\ kind.lock = "none"

\* Clear of every statistic when the unit changes and stat_enabled is off.
ClearDisabled ==
  /\ IsStat /\ ~enabled /\ taker.pc = "idle" /\ table # <<>>
  /\ table' = <<>>
  /\ Moved(LAMBDA w, k : IF w = "table" /\ kind.find # "add" THEN "gone" ELSE w)
  /\ dropped' = dropped \cup EventsIn(table)
  /\ Disturb
  /\ UNCHANGED <<kind, enabled, toggles, taker, lock, packs, fate>>

\* The configuration is read again.
SetEnabled ==
  /\ toggles < MaxToggles
  /\ toggles' = toggles + 1
  /\ enabled' = ~enabled
  /\ UNCHANGED <<kind, table, rc, taker, lock, packs, fate, quiet, dropped>>

\* conf.Shutdown: TimingSender clears the statistics and CounterManager the
\* meters, except MeterLLM, and their loops end.
Shutdown ==
  /\ taker.pc = "idle"
  /\ taker' = [taker EXCEPT !.pc = "stopped"]
  /\ IF [kind EXCEPT !.max = 0] \in {MeterLLM, MeterLLMEntry}
       THEN UNCHANGED <<table, rc, dropped, quiet>>
       ELSE /\ table' = NewTable
            /\ Moved(LAMBDA w, k : IF w = "table" /\ kind.find # "add" THEN "gone" ELSE w)
            /\ dropped' = dropped \cup EventsIn(table)
            /\ Disturb
  /\ UNCHANGED <<kind, enabled, toggles, lock, packs, fate>>

Take == TakeStart \/ Walk \/ GetByKey \/ Reset \/ Send

Next ==
  \/ \E g \in Recorders, k \in Keys : Begin(g, k)
  \/ \E g \in Recorders : Record(g)
  \/ Take
  \/ CounterTimeout
  \/ ClearDisabled
  \/ SetEnabled
  \/ Shutdown

\* Go's scheduler runs every goroutine that can run, and the two loops sleep
\* for bounded times; that events come, that a task takes long, that the
\* configuration changes or the agent is shut down is not promised.
Fairness ==
  /\ \A g \in Recorders : WF_vars(Record(g))
  /\ WF_vars(Take)
  /\ WF_vars(ClearDisabled)

Spec == Init /\ [][Next]_vars /\ Fairness

-----------------------------------------------------------------------------
(* Properties.                                                             *)

Values == [first : SUBSET Events, later : SUBSET Events]

\* Types; and a table holds no key twice and at most max entries, except
\* that recorders which found room in StatRemoteIPURL at the same time can each
\* put an entry.
TypeOK ==
  /\ [kind EXCEPT !.max = 0] \in Kinds /\ enabled \in BOOLEAN /\ toggles \in 0 .. MaxToggles
  /\ table \in Seq([key : Keys, first : SUBSET Events, later : SUBSET Events])
  /\ \A i, j \in DOMAIN table : table[i].key = table[j].key => i = j
  /\ Len(table) <= kind.max + (IF kind.take = "swapclear" THEN Cardinality(Recorders) - 1 ELSE 0)
  /\ \A g \in Recorders :
       /\ rc[g].pc \in {"idle", "find", "get", "put", "load", "add", "first", "later"}
       /\ rc[g].from \in {"none", "table", "old", "gone"}
       /\ rc[g].from = "table" /\ rc[g].pc # "add" => rc[g].key \in KeysOf(table)
       /\ rc[g].from = "old" /\ rc[g].pc # "add" => rc[g].key \in KeysOf(taker.old)
  /\ taker.pc \in {"idle", "next", "get", "reset", "send", "stopped"}
  /\ lock \in Recorders \cup {None}
  /\ packs \in Seq([Keys -> Values])
  /\ fate \in [Events -> {"new", "adding", "done"}]

\* No event is counted in two packs, in any field, however recorders and takes
\* interleave; not even when a "keyed" task dies on an evicted entry and leaves
\* what it has read both in its pack and in the table: the walk and evictions
\* both start from the oldest entry.
CountedOnce ==
  \A i, j \in DOMAIN packs : \A f \in {"first", "later"} :
    i # j => PackEvents(packs[i], f) \cap PackEvents(packs[j], f) = {}

\* The fields of a pack speak of the same events: a count and a time, whose
\* quotient is the average the server shows, agree on every event whose
\* recording neither another recording nor a reset overlapped, and always in
\* the tables of MeterLLM that are filled and taken under its lock.
FieldsAgree ==
  \A e \in quiet \ dropped : \A i \in DOMAIN packs :
    e \in PackEvents(packs[i], "first") <=> e \in PackEvents(packs[i], "later")

Gathered(f) ==
  Sent(f) \cup PackEvents(taker.pack, f) \cup UNION {table[i][f] : i \in DOMAIN table}
    \cup UNION {taker.old[i][f] : i \in DOMAIN taker.old}

\* Nothing gets lost between two intervals: an event that was recorded in peace
\* is in the current table, with the taker, or in a pack, in every field;
\* unless the table was full, or cleared on purpose, or the task was late.
EventsAccounted ==
  \A e \in quiet \ dropped :
    fate[e] = "done" => e \in Gathered("first") \cap Gathered("later")

\* An event recorded in peace is sent at the end of the interval, as long as
\* the aggregate is enabled and the agent is not shut down.
Reported ==
  \A e \in Events :
    (fate[e] = "done" /\ e \in quiet)
      ~> (e \in Sent("first") \cup dropped \/ ~enabled \/ taker.pc = "stopped")
=============================================================================
