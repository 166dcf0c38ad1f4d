---------------------------- MODULE Notifications ----------------------------
(***************************************************************************)
(* The alarm of a queue that holds too many messages                       *)
(* (raiseNotificationForMessagesInQueue and stepDown... of                 *)
(* repository/queue.js).  A pass aggregates, reads the documents it has    *)
(* found and saves them, while the statistics worker counts messages,      *)
(* calls that create the queue save its threshold with the copies they     *)
(* have loaded, and other passes run.  Only tests start passes: the cron   *)
(* job's calls are commented out.                                          *)
(***************************************************************************)
EXTENDS Calls

CONSTANTS NotifyPasses, \* number of passes, in the order they start
          MaxCounted,   \* most messages the queue holds
          Thresholds    \* thresholds that a user may set

ASSUME NotifyAssumption ==
  NotifyPasses \in Nat /\ MaxCounted \in Nat /\ Thresholds \subseteq Nat

VARIABLES alarm,   \* messages_in_queue_notification of the document
          counted, \* messages_in_queue of the document, 0 if it is not stored
          stored,  \* the counters are stored in the document
          copies,  \* stored, in the copies that creating the queue has loaded
          npass,   \* pass -> where it is, and active of the copy it has read
          peak,    \* most messages since active was last written FALSE (history)
          crossed  \* the alarm was written during a pass that found the queue (history)

notifyVars == <<alarm, counted, stored, copies, npass, peak, crossed>>

NotifyPassIds == 1..NotifyPasses

NotifyTypeOK ==
  /\ alarm \in [threshold: Thresholds \cup {0}, active: BOOLEAN]
  /\ counted \in 0..MaxCounted /\ peak \in 0..MaxCounted /\ crossed \in BOOLEAN
  /\ stored \in BOOLEAN /\ copies \subseteq BOOLEAN
  /\ npass \in [NotifyPassIds ->
       [op: {"none", "raise", "stepDown"}, pc: {"idle", "load", "save", "done"},
        active: BOOLEAN, answer: {"none", "ok", "failed"}]]

\* The document of a queue has no threshold until a user sets one.
NotifyInit ==
  /\ alarm = [threshold |-> 0, active |-> FALSE]
  /\ counted = 0 /\ peak = 0 /\ crossed = FALSE
  /\ stored = FALSE /\ copies = {}
  /\ npass = [p \in NotifyPassIds |->
                [op |-> "none", pc |-> "idle", active |-> FALSE, answer |-> "none"]]

\* A write of the alarm crosses the passes, other than p, that have found the queue.
Crosses(p) == crossed' = (crossed \/ \E q \in Ongoing(npass) : q # p)
Counts(n) == counted' = n /\ peak' = IF peak < n THEN n ELSE peak

\* The worker adds what was pushed and subtracts what was pulled; a purge, or a save
\* of the settings, writes 0.  A counter below 0 raises nothing and is left out.
CountChanges(n) ==
  /\ Counts(n) /\ stored' = TRUE
  /\ UNCHANGED <<alarm, npass, crossed, copies>>

\* Creating the queue, again or not, loads its document before the backend's create,
\* the statistics event and the route go on with the copy.
LoadQueue ==
  /\ copies' = copies \cup {stored}
  /\ UNCHANGED <<alarm, counted, stored, npass, peak, crossed>>

\* The route saves the threshold with its copy.  That writes the alarm as a whole, and 0
\* for counters that were not stored at the load.  Any number of calls may have
\* loaded the same copy.
SetThreshold(t, loaded) ==
  /\ loaded \in copies
  /\ alarm' = [threshold |-> t, active |-> FALSE]
  /\ counted' = IF loaded THEN counted ELSE 0
  /\ peak' = counted'
  /\ stored' = TRUE
  /\ Crosses(0)
  /\ UNCHANGED <<npass, copies>>

\* A pass that finds the queue goes on to load it, any other is over.
Searches(p, o, found) ==
  /\ IsNext(npass, p)
  /\ npass' = [npass EXCEPT ![p] =
       IF found THEN [@ EXCEPT !.op = o, !.pc = "load"] ELSE Ends([@ EXCEPT !.op = o], "ok")]
  /\ UNCHANGED <<alarm, counted, stored, copies, peak, crossed>>

\* Mutant of RaiseFinds: a queue without a threshold is found.
RaiseFindsAny(p) ==
  Searches(p, "raise", ~ alarm.active /\ alarm.threshold <= counted)

RaiseFinds(p) ==
  Searches(p, "raise", alarm.threshold > 0 /\ ~ alarm.active /\ alarm.threshold <= counted)

StepDownFinds(p) ==
  Searches(p, "stepDown", alarm.threshold > 0 /\ alarm.active /\ alarm.threshold >= counted)

\* The document is read again.  With a callback nothing is saved: its argument is a
\* variable that does not exist.
NotifyLoads(p) ==
  /\ npass[p].pc = "load"
  /\ \/ npass' = [npass EXCEPT ![p].pc = "save", ![p].active = alarm.active]
     \/ npass' = [npass EXCEPT ![p] = Ends(@, "failed")]
  /\ UNCHANGED <<alarm, counted, stored, copies, peak, crossed>>

\* active is written if it differs from what was read.
NotifySaves(p) ==
  LET new == npass[p].op = "raise" IN
  /\ npass[p].pc = "save"
  /\ npass' = [npass EXCEPT ![p] = Ends([@ EXCEPT !.active = FALSE], "ok")]
  /\ IF npass[p].active = new THEN UNCHANGED <<alarm, peak, crossed>>
     ELSE /\ alarm' = [alarm EXCEPT !.active = new]
          /\ peak' = IF new THEN peak ELSE counted
          /\ Crosses(p)
  /\ UNCHANGED <<counted, stored, copies>>

NotifyNext ==
  \/ \E n \in 0..MaxCounted : CountChanges(n)
  \/ LoadQueue
  \/ \E t \in Thresholds, loaded \in BOOLEAN : SetThreshold(t, loaded)
  \/ \E p \in NotifyPassIds :
       RaiseFinds(p) \/ StepDownFinds(p) \/ NotifyLoads(p) \/ NotifySaves(p)

NotifySpec == NotifyInit /\ [][NotifyNext]_notifyVars

-----------------------------------------------------------------------------
\* An alarm is up only when the queue has reached its threshold since the alarm was
\* last down, unless passes, or a pass and a new threshold, have crossed: then a pass
\* raises the alarm for what it has found before.
AlarmIsDue ==
  ~ crossed /\ alarm.active => alarm.threshold > 0 /\ peak >= alarm.threshold
=============================================================================
