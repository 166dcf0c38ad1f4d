---------------------------- MODULE MessageQueue ----------------------------
(***************************************************************************)
(* What a backend driver promises its callers (lib/queue_backend):         *)
(* push puts a message in the queue, a pull takes messages out for one     *)
(* caller and acknowledges them at once, so a message is delivered at most *)
(* once.  A message is lost only when something destroys it: a purge, a    *)
(* deletion, or a process that dies with a call in progress.               *)
(***************************************************************************)

CONSTANTS Messages,  \* a message is pushed by one call
          Consumers, \* the processes that pull
          Lossy      \* whether purges, deletions or crashes happen

VARIABLES fresh,     \* messages not pushed yet
          queued,    \* messages in the queue
          taken,     \* consumer -> what its pull in progress has taken
          delivered  \* consumer -> what its pulls have returned

vars == <<fresh, queued, taken, delivered>>

TypeOK ==
  /\ fresh \subseteq Messages
  /\ queued \subseteq Messages
  /\ taken \in [Consumers -> SUBSET Messages]
  /\ delivered \in [Consumers -> SUBSET Messages]

Init ==
  /\ fresh = Messages
  /\ queued = {}
  /\ taken = [c \in Consumers |-> {}]
  /\ delivered = [c \in Consumers |-> {}]

Put(m) ==
  /\ m \in fresh
  /\ fresh' = fresh \ {m}
  /\ queued' = queued \cup {m}
  /\ UNCHANGED <<taken, delivered>>

Take(c, m) ==
  /\ m \in queued
  /\ queued' = queued \ {m}
  /\ taken' = [taken EXCEPT ![c] = @ \cup {m}]
  /\ UNCHANGED <<fresh, delivered>>

\* A pull returns everything it took.
Return(c) ==
  /\ delivered' = [delivered EXCEPT ![c] = @ \cup taken[c]]
  /\ taken' = [taken EXCEPT ![c] = {}]
  /\ UNCHANGED <<fresh, queued>>

\* Messages that no caller has been given yet disappear.
Lose ==
  /\ Lossy
  /\ fresh' \subseteq fresh
  /\ queued' \subseteq queued
  /\ taken' \in [Consumers -> SUBSET Messages]
  /\ \A c \in Consumers : taken'[c] \subseteq taken[c]
  /\ UNCHANGED delivered

Next == \/ \E m \in Messages : Put(m)
        \/ \E c \in Consumers, m \in Messages : Take(c, m)
        \/ \E c \in Consumers : Return(c)
        \/ Lose

Spec == Init /\ [][Next]_vars

\* A message that a consumer took or was given is nowhere else: not in the queue,
\* not with another consumer, and not in another pull of the same one.
AtMostOnce ==
  /\ fresh \cap queued = {}
  /\ \A c \in Consumers :
       /\ taken[c] \cap delivered[c] = {}
       /\ (taken[c] \cup delivered[c]) \cap (fresh \cup queued) = {}
       /\ \A d \in Consumers \ {c} :
            (taken[c] \cup delivered[c]) \cap (taken[d] \cup delivered[d]) = {}
=============================================================================
