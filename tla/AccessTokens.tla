---------------------------- MODULE AccessTokens ----------------------------
(***************************************************************************)
(* Access tokens of a user: how they are created, edited and removed       *)
(* (routes/restricted/access_token.js), and what a push, a pull or a       *)
(* stream of the core API may do with one (routes/middleware/core.js,      *)
(* routes/core.js, proto/server.js, prePushAction and prePullAction of     *)
(* repository/queue.js).                                                   *)
(*                                                                         *)
(* A request works on the copy of the token that it has read.  Whether the *)
(* queue is there, and what the quota says, is left to QueueService.       *)
(***************************************************************************)
EXTENDS Calls

CONSTANTS TokenCalls, \* number of requests, in the order they arrive
          MaxTokens,  \* bound on the tokens that are ever created
          Forms       \* the rights that an edit may ask for

\* "queue": the list of queues is empty or has the queue of the calls in it.
Rights == {"active", "push", "pull", "create", "queue"}

\* What a call may ask of a token: its rights, and that it is there at all.
Needs == Rights \cup {"known"}

ASSUME TokensAssumption ==
  TokenCalls \in Nat /\ MaxTokens \in Nat /\ Forms \subseteq SUBSET Rights

VARIABLES token,  \* _id -> its document
          tcall,  \* request -> what it does, where it is, what it has read
          revoked \* pairs of a token and what was taken from it (history)

tokenVars == <<token, tcall, revoked>>

TokenCallers == 1..TokenCalls
TokenIds == 1..MaxTokens

TokenDocs == [state: {"unused", "stored", "removed"}, rights: SUBSET Rights]

TokenOps == {"create", "edit", "delete", "show", "list", "push", "pull", "subscribe"}

\* read: what the copy has.  form: what an edit asks for.  rival: rights that
\* another edit was giving meanwhile.  late: what was revoked before.
TokenCallStates ==
  [op: TokenOps \cup {"none"},
   pc: {"idle", "save", "remove", "user", "gate", "find", "open", "stream", "done"},
   id: TokenIds \cup {0}, read: SUBSET Needs, form: SUBSET Rights,
   rival: SUBSET Rights, late: SUBSET Needs, used: SUBSET Needs,
   answer: {"none", "ok", "failed", "unanswered", "admitted"}]

TokensTypeOK ==
  /\ token \in [TokenIds -> TokenDocs]
  /\ tcall \in [TokenCallers -> TokenCallStates]
  /\ revoked \subseteq TokenIds \X Needs

\* A user comes with a number of tokens of any rights.
TokensInit ==
  /\ \E n \in 0..MaxTokens, rights \in [TokenIds -> Forms] :
       token = [t \in TokenIds |->
                  IF t \in 1..n THEN [state |-> "stored", rights |-> rights[t]]
                  ELSE [state |-> "unused", rights |-> {}]]
  /\ tcall = [c \in TokenCallers |->
                [op |-> "none", pc |-> "idle", id |-> 0, read |-> {}, form |-> {},
                 rival |-> {}, late |-> {}, used |-> {}, answer |-> "none"]]
  /\ revoked = {}

TokenStored(t) == token[t].state = "stored"
TokenStep(c, r) == tcall' = [tcall EXCEPT ![c] = r]
\* A request that is answered forgets its copy.
Forgets(call) == [call EXCEPT !.id = 0, !.read = {}, !.form = {}, !.rival = {}]
TokenEnds(c, a) ==
  TokenStep(c, Ends([Forgets(tcall[c]) EXCEPT !.late = {}, !.used = {}], a))

TokenArrives(c, r) == IsNext(tcall, c) /\ TokenStep(c, r)
TokenOp(c, o, t) == [tcall[c] EXCEPT !.op = o, !.id = t]

-----------------------------------------------------------------------------
(* Administration. *)

\* The edits of token t that are giving rights it did not have when they read it.
Gives(call) == IF call.op = "edit" /\ call.pc = "save" THEN call.form \ call.read ELSE {}
Giving(t) == UNION {Gives(tcall[d]) : d \in {e \in TokenCallers : tcall[e].id = t}}

CreateTokenBegin(c, form) ==
  /\ TokenArrives(c, [TokenOp(c, "create", 0) EXCEPT !.pc = "save", !.form = form])
  /\ UNCHANGED <<token, revoked>>

CreateTokenSave(c) ==
  /\ InProgress(tcall, c, "create", "save")
  /\ \E t \in TokenIds :
       /\ token[t].state = "unused" /\ \A s \in TokenIds : s < t => token[s].state # "unused"
       /\ token' = [token EXCEPT ![t] = [state |-> "stored", rights |-> tcall[c].form]]
  /\ TokenEnds(c, "ok")
  /\ UNCHANGED revoked

\* The fields of the form are set in the copy; without a token that throws.  An
\* edit that begins to give a right takes part in every edit that is under way.
EditBegin(c, t, form) ==
  /\ IsNext(tcall, c)
  /\ IF TokenStored(t)
     THEN LET gives == form \ token[t].rights IN
          /\ tcall' = [d \in TokenCallers |->
               IF d = c THEN [TokenOp(c, "edit", t) EXCEPT !.pc = "save", !.form = form,
                                !.read = token[t].rights, !.rival = Giving(t)]
               ELSE IF tcall[d].id = t THEN [tcall[d] EXCEPT !.rival = @ \cup gives]
               ELSE tcall[d]]
          /\ revoked' = revoked \ ({t} \X gives)
     ELSE TokenStep(c, Ends(TokenOp(c, "edit", t), "unanswered")) /\ UNCHANGED revoked
  /\ UNCHANGED token

\* Mutant of Edited: the whole form is written.
EditedWhole(rights, read, form) == form

\* A save writes the fields that differ from what was read.
Edited(rights, read, form) == (rights \ (read \ form)) \cup (form \ read)

\* It never brings back a token that was removed since; whether it throws then
\* depends on the version of mongoose.
EditSave(c) ==
  LET call == tcall[c] IN
  /\ InProgress(tcall, c, "edit", "save")
  /\ \/ /\ TokenStored(call.id)
        /\ token' = [token EXCEPT ![call.id].rights = Edited(@, call.read, call.form)]
        /\ revoked' = revoked \cup ({call.id} \X (Rights \ (call.form \cup call.rival)))
        /\ TokenEnds(c, "ok")
     \/ /\ ~ TokenStored(call.id)
        /\ TokenEnds(c, "ok") \/ TokenEnds(c, "unanswered")
        /\ UNCHANGED <<token, revoked>>

DeleteTokenBegin(c, t) ==
  /\ TokenArrives(c, IF TokenStored(t) THEN GoesTo(TokenOp(c, "delete", t), "remove")
                     ELSE Ends(TokenOp(c, "delete", t), "unanswered"))
  /\ UNCHANGED <<token, revoked>>

DeleteTokenRemove(c) ==
  /\ InProgress(tcall, c, "delete", "remove")
  /\ token' = [token EXCEPT ![tcall[c].id].state = "removed"]
  /\ revoked' = revoked \cup ({tcall[c].id} \X Needs)
  /\ TokenEnds(c, "ok")

\* show throws for a token that is not there.
ShowToken(c, t) ==
  /\ TokenArrives(c, Ends(TokenOp(c, "show", t), IF TokenStored(t) THEN "ok" ELSE "unanswered"))
  /\ UNCHANGED <<token, revoked>>

ListTokens(c) ==
  /\ TokenArrives(c, Ends(TokenOp(c, "list", 0), "ok"))
  /\ UNCHANGED <<token, revoked>>

-----------------------------------------------------------------------------
(* The core API. *)

Held(t) == token[t].rights \cup {"known"}
LateRights(t) == {r \in Needs : <<t, r>> \in revoked}

\* The middleware, or the service of gRPC, finds the token by its value.  The
\* middleware goes on with the quota of the user, a unary call of gRPC with the
\* checks, a stream with its queue.
CoreBegin(c, o, t, l) ==
  /\ TokenArrives(c, IF TokenStored(t)
                     THEN [TokenOp(c, o, t) EXCEPT !.pc = l, !.read = Held(t),
                                                   !.late = LateRights(t)]
                     ELSE Ends(TokenOp(c, o, t), "failed"))
  /\ UNCHANGED <<token, revoked>>

HttpBegin(c, o, t) == CoreBegin(c, o, t, "user")
GrpcBegin(c, o, t) == CoreBegin(c, o, t, "gate")
SubscribeBegin(c, t) == CoreBegin(c, "subscribe", t, "open")

HttpUser(c) ==
  /\ tcall[c].pc = "user"
  /\ TokenStep(c, GoesTo(tcall[c], "gate"))
  /\ UNCHANGED <<token, revoked>>

\* A push may also be refused because its body is empty.
Gate(c) ==
  /\ tcall[c].pc = "gate"
  /\ \/ /\ {"active", tcall[c].op} \subseteq tcall[c].read
        /\ TokenStep(c, [tcall[c] EXCEPT !.pc = "find",
                                         !.used = {"known", "active", tcall[c].op}])
     \/ /\ tcall[c].op = "push" \/ ~ {"active", tcall[c].op} \subseteq tcall[c].read
        /\ TokenEnds(c, "failed")
  /\ UNCHANGED <<token, revoked>>

\* The queue is there or not.  A pull of none passes and finds nothing later; a
\* push needs the right to create one.  Quota and size may refuse a push as well.
GateQueue(c) ==
  /\ tcall[c].pc = "find"
  /\ \E r \in {"queue", "create"} :
       LET needs == IF r = "create" /\ tcall[c].op = "pull" THEN {} ELSE {r} IN
       \/ /\ needs \subseteq tcall[c].read
          /\ TokenStep(c, Ends([Forgets(tcall[c]) EXCEPT !.used = @ \cup needs], "admitted"))
       \/ /\ tcall[c].op = "push" \/ ~ needs \subseteq tcall[c].read
          /\ TokenEnds(c, "failed")
  /\ UNCHANGED <<token, revoked>>

\* setup of a subscriber looks for the queue, and for nothing in the token.
OpenStream(c) ==
  /\ tcall[c].pc = "open"
  /\ \/ TokenStep(c, [tcall[c] EXCEPT !.pc = "stream", !.used = {"known"}])
     \/ TokenEnds(c, "unanswered")
  /\ UNCHANGED <<token, revoked>>

\* Every pull of a stream is made with the copies of its setup, whatever became of
\* the token, until the stream is stopped, its queue is gone or a pull throws.
StreamPull(c) ==
  /\ tcall[c].pc = "stream"
  /\ TokenStep(c, [tcall[c] EXCEPT !.answer = "admitted"]) \/ TokenEnds(c, "ok")
  /\ UNCHANGED <<token, revoked>>

-----------------------------------------------------------------------------
TokensNext ==
  \/ \E c \in TokenCallers, t \in TokenIds, form \in Forms : EditBegin(c, t, form)
  \/ \E c \in TokenCallers, form \in Forms : CreateTokenBegin(c, form)
  \/ \E c \in TokenCallers, t \in TokenIds :
       DeleteTokenBegin(c, t) \/ ShowToken(c, t) \/ SubscribeBegin(c, t)
  \/ \E c \in TokenCallers, t \in TokenIds, o \in {"push", "pull"} :
       HttpBegin(c, o, t) \/ GrpcBegin(c, o, t)
  \/ \E c \in TokenCallers :
       \/ CreateTokenSave(c) \/ EditSave(c) \/ DeleteTokenRemove(c) \/ ListTokens(c)
       \/ HttpUser(c) \/ Gate(c) \/ GateQueue(c) \/ OpenStream(c) \/ StreamPull(c)

TokensSpec == TokensInit /\ [][TokensNext]_tokenVars

-----------------------------------------------------------------------------
\* Once a request that takes a right from a token, or removes the token, is
\* answered, no push or pull that begins later is admitted by that right: no other
\* edit whose copy still had the right gives it back, unless it asks for a right
\* that its copy did not have.  A stream asks for no right, only for the token: a
\* removed token opens none.  One that was opened before is not ended by anything
\* that is revoked later, and each of its pulls belongs to the call that opened it.
RevokedIsRefused ==
  \A c \in TokenCallers : tcall[c].answer = "admitted" => tcall[c].used \cap tcall[c].late = {}
=============================================================================
