------------------------------- MODULE Calls -------------------------------
(***************************************************************************)
(* Calls that a process of the service has accepted and not yet answered.  *)
(* A table of calls is a function from 1..n to records with the fields op  *)
(* (what is called), pc (where the code of the call is) and answer.  The   *)
(* calls come in the order of their numbers: which of them begins first    *)
(* makes no difference, and every interleaving of their steps is left.     *)
(***************************************************************************)
EXTENDS Naturals

IsNext(calls, c) == /\ calls[c].pc = "idle"
                    /\ \A d \in DOMAIN calls : d < c => calls[d].pc # "idle"

InProgress(calls, c, o, l) == calls[c].op = o /\ calls[c].pc = l

Ongoing(calls) == {c \in DOMAIN calls : calls[c].pc \notin {"idle", "done"}}

\* The record of a call that goes on at l, and that of one that is answered.
GoesTo(call, l) == [call EXCEPT !.pc = l]
Ends(call, a) == [call EXCEPT !.pc = "done", !.answer = a]
=============================================================================
