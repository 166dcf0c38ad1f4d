----------------------------- MODULE MessageLog -----------------------------
(***************************************************************************)
(* The log of one user's messages.  A message has two entries, 'log' when  *)
(* it is pushed and 'processed' when it is pulled; workers take the        *)
(* entries from a queue and write them to one document with upserts that   *)
(* nobody waits for (lib/log_worker.js, models/message_log.js).  A cron    *)
(* job removes what is too old or too much (bin/cron_worker.js,            *)
(* repository/message_log.js).                                             *)
(***************************************************************************)
EXTENDS Naturals, FiniteSets

CONSTANTS MaxLogged,   \* messages are numbered in the order they are pushed
          LogBuffer,   \* most entries that a worker processes at once
          Passes,      \* passes of the cron job, numbered in the order they start
          ClearLimit,  \* most documents that one query of a pass yields
          MaxLogCount  \* documents that the quota allows

ASSUME LogAssumption ==
  /\ MaxLogged \in Nat /\ LogBuffer \in Nat \ {0} /\ Passes \in Nat
  /\ ClearLimit \in Nat \ {0} /\ MaxLogCount \in Nat

Logged == 1..MaxLogged
EntryTypes == {"log", "processed"}
PassIds == 1..Passes

VARIABLES entry,   \* message, type -> how far its entry is
          logDoc,  \* message -> the types that its document has, if there is one
          uses,    \* updates of a token's last_used under way, by their date
          lastUsed, \* last_used of the token
          pass,    \* pass -> where it is and what it has found
          cleared, \* message -> why its document was removed (history)
          overlapped \* two passes were in progress at once (history)

logVars == <<entry, logDoc, uses, lastUsed, pass, cleared, overlapped>>

\* queued: in the queue of entries.  sent: the upsert is under way.  insert: it has
\* found no document.  lost: it met a document that was inserted meanwhile, and the
\* error was swallowed.
EntryStates == {"none", "queued", "sent", "insert", "done", "lost"}

LogTypeOK ==
  /\ entry \in [Logged -> [EntryTypes -> EntryStates]]
  /\ logDoc \in [Logged -> [there: BOOLEAN, has: SUBSET EntryTypes]]
  /\ uses \subseteq Logged /\ lastUsed \in Logged \cup {0}
  /\ pass \in [PassIds -> [pc: {"idle", "expired", "count", "excess", "remove", "done"},
                           found: SUBSET Logged, limit: 0..ClearLimit]]
  /\ cleared \in [Logged -> {"no", "time", "count"}]
  /\ overlapped \in BOOLEAN

NoLog == [there |-> FALSE, has |-> {}]

LogInit ==
  /\ entry = [m \in Logged |-> [t \in EntryTypes |-> "none"]]
  /\ logDoc = [m \in Logged |-> NoLog]
  /\ uses = {} /\ lastUsed = 0
  /\ pass = [p \in PassIds |-> [pc |-> "idle", found |-> {}, limit |-> 0]]
  /\ cleared = [m \in Logged |-> "no"]
  /\ overlapped = FALSE

documents == <<logDoc, cleared>>
tokenUse == <<uses, lastUsed>>
cron == <<pass, overlapped>>

-----------------------------------------------------------------------------
(* Entries. *)

EntryBecomes(m, t, s) == entry' = [entry EXCEPT ![m][t] = s]

\* addLog runs before the message is pushed, messages one after the other.
AddLog(m) ==
  /\ entry[m]["log"] = "none"
  /\ \A n \in Logged : n < m => entry[n]["log"] # "none"
  /\ EntryBecomes(m, "log", "queued")
  /\ UNCHANGED documents /\ UNCHANGED tokenUse /\ UNCHANGED cron

\* setMessageProcessed runs after the message was pulled.
SetMessageProcessed(m) ==
  /\ entry[m]["log"] # "none" /\ entry[m]["processed"] = "none"
  /\ EntryBecomes(m, "processed", "queued")
  /\ UNCHANGED documents /\ UNCHANGED tokenUse /\ UNCHANGED cron

\* A worker processes a buffer, which holds entries of the queue in any order: all
\* upserts are sent, and one update with the date of the first entry.
ProcessBuffer(buffer, first) ==
  /\ first \in buffer /\ Cardinality(buffer) <= LogBuffer
  /\ \A e \in buffer : entry[e[1]][e[2]] = "queued"
  /\ entry' = [m \in Logged |-> [t \in EntryTypes |->
                 IF <<m, t>> \in buffer THEN "sent" ELSE entry[m][t]]]
  /\ uses' = uses \cup {first[1]}
  /\ UNCHANGED lastUsed /\ UNCHANGED documents /\ UNCHANGED cron

UpdateToken(m) ==
  /\ m \in uses
  /\ uses' = uses \ {m}
  /\ lastUsed' = m
  /\ UNCHANGED entry /\ UNCHANGED documents /\ UNCHANGED cron

Sets(m, t) == logDoc' = [logDoc EXCEPT ![m] = [there |-> TRUE, has |-> @.has \cup {t}]]

\* Mutant of Upsert: 'processed' only updates.
UpdateProcessed(m, t) ==
  /\ entry[m][t] = "sent"
  /\ IF logDoc[m].there THEN Sets(m, t) /\ EntryBecomes(m, t, "done")
     ELSE EntryBecomes(m, t, IF t = "log" THEN "insert" ELSE "done") /\ UNCHANGED logDoc
  /\ UNCHANGED cleared /\ UNCHANGED tokenUse /\ UNCHANGED cron

\* An upsert looks for the document of the _id ...
Upsert(m, t) ==
  /\ entry[m][t] = "sent"
  /\ IF logDoc[m].there THEN Sets(m, t) /\ EntryBecomes(m, t, "done")
     ELSE EntryBecomes(m, t, "insert") /\ UNCHANGED logDoc
  /\ UNCHANGED cleared /\ UNCHANGED tokenUse /\ UNCHANGED cron

\* ... and inserts it when there is none.  When the other entry of the message was
\* faster, the server tries again or the error goes to a callback that ignores it.
UpsertInserts(m, t) ==
  /\ entry[m][t] = "insert"
  /\ \/ ~ logDoc[m].there /\ Sets(m, t) /\ EntryBecomes(m, t, "done")
     \/ logDoc[m].there /\ EntryBecomes(m, t, "sent") /\ UNCHANGED logDoc
     \/ logDoc[m].there /\ EntryBecomes(m, t, "lost") /\ UNCHANGED logDoc
  /\ UNCHANGED cleared /\ UNCHANGED tokenUse /\ UNCHANGED cron

-----------------------------------------------------------------------------
(* The cron job.  Its queries see the documents that have a queue: those that *)
(* the entry 'log' has reached.                                             *)

OfQueues == {m \in Logged : logDoc[m].there /\ "log" \in logDoc[m].has}

PassMoves(p, r) == pass' = [pass EXCEPT ![p] = r]
PassAt(p, l) == pass[p].pc = l
Entries == <<entry, uses, lastUsed>>

\* A pass starts every minute, whether or not the last one has ended.  Which of the
\* processed messages are old enough is a matter of time.
StartPass(p) ==
  /\ PassAt(p, "idle")
  /\ \A q \in PassIds : q < p => ~ PassAt(q, "idle")
  /\ \E old \in SUBSET {m \in OfQueues : "processed" \in logDoc[m].has} :
       /\ Cardinality(old) <= ClearLimit
       /\ PassMoves(p, [pc |-> "expired", found |-> old, limit |-> ClearLimit])
  /\ overlapped' = (overlapped \/ \E q \in PassIds : pass[q].pc \notin {"idle", "done"})
  /\ UNCHANGED Entries /\ UNCHANGED documents

\* deleteMany of what was found.
Clears(p, why) ==
  /\ logDoc' = [m \in Logged |-> IF m \in pass[p].found THEN NoLog ELSE logDoc[m]]
  /\ cleared' = [m \in Logged |-> IF m \in pass[p].found /\ logDoc[m].there THEN why
                                  ELSE cleared[m]]

RemoveExpired(p) ==
  /\ PassAt(p, "expired")
  /\ Clears(p, "time")
  /\ PassMoves(p, [pass[p] EXCEPT !.pc = "count", !.found = {}])
  /\ UNCHANGED overlapped /\ UNCHANGED Entries

\* Mutant of CountDocuments: one more is removed than there is too much.
CountOneMore(p) ==
  LET c == Cardinality(OfQueues) IN
  /\ PassAt(p, "count")
  /\ PassMoves(p, IF MaxLogCount < c
                  THEN [pass[p] EXCEPT !.pc = "excess",
                          !.limit = IF @ < c - MaxLogCount + 1 THEN @ ELSE c - MaxLogCount + 1]
                  ELSE [pass[p] EXCEPT !.pc = "done"])
  /\ UNCHANGED overlapped /\ UNCHANGED Entries /\ UNCHANGED documents

CountDocuments(p) ==
  LET c == Cardinality(OfQueues) IN
  /\ PassAt(p, "count")
  /\ PassMoves(p, IF MaxLogCount < c
                  THEN [pass[p] EXCEPT !.pc = "excess",
                          !.limit = IF @ < c - MaxLogCount THEN @ ELSE c - MaxLogCount]
                  ELSE [pass[p] EXCEPT !.pc = "done"])
  /\ UNCHANGED overlapped /\ UNCHANGED Entries /\ UNCHANGED documents

\* The oldest documents, up to the limit.
Oldest(n) == {m \in OfQueues : Cardinality({o \in OfQueues : o < m}) < n}

FindExcess(p) ==
  /\ PassAt(p, "excess")
  /\ PassMoves(p, [pass[p] EXCEPT !.pc = "remove", !.found = Oldest(pass[p].limit)])
  /\ UNCHANGED overlapped /\ UNCHANGED Entries /\ UNCHANGED documents

RemoveExcess(p) ==
  /\ PassAt(p, "remove")
  /\ Clears(p, "count")
  /\ PassMoves(p, [pass[p] EXCEPT !.pc = "done", !.found = {}])
  /\ UNCHANGED overlapped /\ UNCHANGED Entries

-----------------------------------------------------------------------------
LogWrites == \E m \in Logged, t \in EntryTypes : Upsert(m, t) \/ UpsertInserts(m, t)

LogNext ==
  \/ \E m \in Logged : AddLog(m) \/ SetMessageProcessed(m) \/ UpdateToken(m)
  \/ \E buffer \in SUBSET (Logged \X EntryTypes), first \in Logged \X EntryTypes :
       ProcessBuffer(buffer, first)
  \/ LogWrites
  \/ \E p \in PassIds :
       \/ StartPass(p) \/ RemoveExpired(p) \/ CountDocuments(p) \/ FindExcess(p)
       \/ RemoveExcess(p)

LogSpec == LogInit /\ [][LogNext]_logVars

-----------------------------------------------------------------------------
\* Whatever the order of the upserts, what an entry has written is in the document
\* of its message until the cron job removes it, and an entry is lost only to the
\* other one of the same message.  A document without a queue, which no query
\* finds and no pass removes, is left only by such a loss or by an entry that comes
\* after the removal.
EntriesExplained ==
  \A m \in Logged, t \in EntryTypes :
    /\ entry[m][t] = "done" => t \in logDoc[m].has \/ cleared[m] # "no"
    /\ entry[m][t] = "lost" => \A u \in EntryTypes \ {t} : entry[m][u] = "done"

\* When passes do not overlap, a document is removed for the count only while at
\* least max_log_count newer messages were logged.
NewestKept ==
  ~ overlapped => \A m \in Logged : cleared[m] = "count" =>
    Cardinality({n \in Logged : n > m /\ entry[n]["log"] = "done"}) >= MaxLogCount

LogSound == EntriesExplained /\ NewestKept
=============================================================================
