------------------------------ MODULE Accounts ------------------------------
(***************************************************************************)
(* The users of the service: registration and login by e-mail or by a      *)
(* social network, passwords, reset codes, e-mail addresses, and the       *)
(* messages that the quota has left (models/user.js, repository/user.js,   *)
(* routes/public.js, routes/restricted.js, routes/passport.js).            *)
(*                                                                         *)
(* A request loads a document, works on the copy and saves it: other       *)
(* requests, and the statistics worker, write in between.                  *)
(***************************************************************************)
EXTENDS Calls, Integers

CONSTANTS AccountCalls, \* number of requests, in the order they arrive
          MaxAccounts,  \* bound on the users
          Emails, NoEmail,
          GoogleIds, PassportIds, NoSocial,
          Words,        \* passwords that are long enough
          ShortWord,    \* and one that is not
          NoWord,       \* a user of a social network has none
          FreeQuota,    \* messages that come with a registration
          Grants,       \* messages that a request adds to the quota
          MaxCharges    \* bound on the charges of the statistics worker

ASSUME AccountsAssumption ==
  /\ AccountCalls \in Nat /\ MaxAccounts \in Nat
  /\ FreeQuota \in Nat /\ Grants \subseteq 0..9 /\ MaxCharges \in Nat
  /\ NoEmail \notin Emails /\ NoSocial \notin GoogleIds \cup PassportIds
  /\ NoWord \notin Words /\ ShortWord \notin Words \cup {NoWord}
  /\ Emails # {} /\ Words # {}

VARIABLES account,  \* _id -> document of the user
          acall,    \* request -> what it does, where it is, what it has read
          coded,    \* users that were mailed a reset code that may be valid
          charges,  \* how often the worker has charged a message
          lastWord, \* _id -> the last password that was saved (history)
          due,      \* _id -> what was given and added, less what was charged (history)
          muddled   \* users whose quota was written between the read and the save
                    \* of a top-up, or topped up by a form (history)

accountVars == <<account, acall, coded, charges, lastWord, due, muddled>>

AccountCallers == 1..AccountCalls
AccountIds == 1..MaxAccounts
SocialIds == GoogleIds \cup PassportIds

\* password: the word, and how often it went through the hash.
AccountDocs == [stored: BOOLEAN, email: Emails \cup {NoEmail}, social: SocialIds \cup {NoSocial},
                password: [word: Words \cup {NoWord, ShortWord}, hashed: Nat], quota: Int]

NoAccount == [stored |-> FALSE, email |-> NoEmail, social |-> NoSocial,
              password |-> [word |-> NoWord, hashed |-> 0], quota |-> 0]

AccountOps == {"register", "google", "passport", "login", "remind", "reset", "password",
               "email", "topUp"}

\* read: the document as it was read, with the changes of the request.
AccountCallStates ==
  [op: AccountOps \cup {"none"}, pc: {"idle", "find", "insert", "stamp", "mail", "save", "done"},
   id: AccountIds \cup {0}, read: AccountDocs, amount: Nat, form: BOOLEAN,
   answer: {"none", "ok", "failed", "unanswered"}]

NoRequest == [op |-> "none", pc |-> "idle", id |-> 0, read |-> NoAccount, amount |-> 0,
              form |-> FALSE, answer |-> "none"]

AccountsTypeOK ==
  /\ account \in [AccountIds -> AccountDocs]
  /\ acall \in [AccountCallers -> AccountCallStates]
  /\ coded \subseteq AccountIds
  /\ charges \in 0..MaxCharges
  /\ lastWord \in [AccountIds -> Words \cup {NoWord, ShortWord}]
  /\ due \in [AccountIds -> Int]
  /\ muddled \subseteq AccountIds

Hash(password) == [password EXCEPT !.hashed = @ + 1]
Plain(w) == [word |-> w, hashed |-> 0]
Registered(e, w) == [NoAccount EXCEPT !.stored = TRUE, !.email = e, !.password = Plain(w),
                                      !.quota = FreeQuota]

\* There may be a user already, whose address and word make no difference.
AccountsInit ==
  /\ \/ /\ account = [u \in AccountIds |-> NoAccount]
        /\ lastWord = [u \in AccountIds |-> NoWord]
        /\ due = [u \in AccountIds |-> 0]
     \/ LET e == CHOOSE e \in Emails : TRUE
            w == CHOOSE w \in Words : TRUE IN
          /\ account = [u \in AccountIds |->
                          IF u = 1 THEN [Registered(e, w) EXCEPT !.password = Hash(@)]
                          ELSE NoAccount]
          /\ lastWord = [u \in AccountIds |-> IF u = 1 THEN w ELSE NoWord]
          /\ due = [u \in AccountIds |-> IF u = 1 THEN FreeQuota ELSE 0]
  /\ acall = [c \in AccountCallers |-> NoRequest]
  /\ coded = {} /\ charges = 0 /\ muddled = {}

-----------------------------------------------------------------------------
(* The collection of users. *)

HasEmail(e) == {u \in AccountIds : account[u].stored /\ account[u].email = e}
HasSocial(s) == {u \in AccountIds : account[u].stored /\ account[u].social = s}

\* The sparse unique indexes refuse a value that another user has.
Duplicate(doc) == \/ doc.email # NoEmail /\ HasEmail(doc.email) # {}
                  \/ doc.social # NoSocial /\ HasSocial(doc.social) # {}

NextAccount(u) == /\ ~ account[u].stored
                  /\ \A v \in AccountIds : v < u => account[v].stored

\* The hook before a save hashes a password that was set.
Inserted(u, doc) ==
  [account EXCEPT ![u] = IF doc.password.word = NoWord THEN doc
                         ELSE [doc EXCEPT !.password = Hash(@)]]

\* Mutant of SavedPaths: the whole copy is written.
SavedWhole(u, doc, paths) ==
  [account EXCEPT ![u] = IF "password" \in paths THEN [doc EXCEPT !.password = Hash(@)]
                         ELSE doc]

\* A save writes the paths that were changed since the document was read.
SavedPaths(u, doc, paths) ==
  [account EXCEPT
     ![u].email = IF "email" \in paths THEN doc.email ELSE @,
     ![u].password = IF "password" \in paths THEN Hash(doc.password) ELSE @,
     ![u].quota = IF "quota" \in paths THEN doc.quota ELSE @]

Recalls(c, r) == acall' = [acall EXCEPT ![c] = r]
Request(o) == [NoRequest EXCEPT !.op = o]

\* Of a request that is over only the answer is kept.
Outcome(a) == Ends(NoRequest, a)
Over(c, a) == Recalls(c, Outcome(a))

\* A request with what it read in its first step, or answered by it.
Requests(c, r) == IsNext(acall, c) /\ Recalls(c, r)
Rejects(c) == Requests(c, Outcome("failed"))
Loads(c, o, l, u) == Requests(c, [Request(o) EXCEPT !.pc = l, !.id = u, !.read = account[u]])

NoQuotaWritten == UNCHANGED <<charges, due, muddled>>
OnlyCalls == UNCHANGED <<account, coded, lastWord>> /\ NoQuotaWritten

-----------------------------------------------------------------------------
(* New users. *)

InsertsNext(c, doc) == Requests(c, [Request("register") EXCEPT !.pc = "insert", !.read = doc])

\* The validator of the route refuses a short password.
RegisterBegin(c, e, w) ==
  /\ IF w = ShortWord \/ HasEmail(e) # {} THEN Rejects(c)
     ELSE InsertsNext(c, Registered(e, w))
  /\ OnlyCalls

\* Whatever Google sends back about a token passes for a valid one, unless it is
\* empty; without an answer the check throws.
TokenChecks == {"ok", "failed", "unanswered"}

GoogleBegin(c, e, s) ==
  /\ \E check \in TokenChecks :
       IF check # "ok" THEN Requests(c, Outcome(check))
       ELSE IF HasSocial(s) # {} THEN Requests(c, Outcome("ok"))
       ELSE Requests(c, [Request("google") EXCEPT !.pc = "insert",
              !.read = [NoAccount EXCEPT !.stored = TRUE, !.email = e, !.social = s]])
  /\ OnlyCalls

PassportBegin(c, s) ==
  /\ IF HasSocial(s) # {} THEN Requests(c, Outcome("ok"))
     ELSE Requests(c, [Request("passport") EXCEPT !.pc = "insert",
            !.read = [NoAccount EXCEPT !.stored = TRUE, !.social = s, !.quota = FreeQuota]])
  /\ OnlyCalls

\* The index refuses what another request has inserted since: no route catches that.
Insert(c) ==
  /\ acall[c].pc = "insert"
  /\ \/ /\ Duplicate(acall[c].read)
        /\ Over(c, "unanswered")
        /\ UNCHANGED <<account, lastWord, due>>
     \/ \E u \in AccountIds :
          /\ ~ Duplicate(acall[c].read)
          /\ NextAccount(u)
          /\ account' = Inserted(u, acall[c].read)
          /\ lastWord' = [lastWord EXCEPT ![u] = acall[c].read.password.word]
          /\ due' = [due EXCEPT ![u] = acall[c].read.quota]
          /\ Over(c, "ok")
  /\ UNCHANGED <<coded, charges, muddled>>

-----------------------------------------------------------------------------
(* Login, and what a user may see. *)

PasswordIs(u, w) == account[u].password = Hash(Plain(w))

\* The route answers while the date of the login is being saved.
LoginBegin(c, e, w) ==
  /\ \/ \E u \in HasEmail(e) : PasswordIs(u, w) /\ Loads(c, "login", "stamp", u)
     \/ /\ \A u \in HasEmail(e) : ~ PasswordIs(u, w)
        /\ Rejects(c)
  /\ OnlyCalls

LoginStamp(c) ==
  /\ InProgress(acall, c, "login", "stamp")
  /\ account' = SavedPaths(acall[c].id, acall[c].read, {"last_login"})
  /\ Over(c, "ok")
  /\ UNCHANGED <<coded, lastWord>> /\ NoQuotaWritten

Looks(c, a) == Requests(c, Outcome(a)) /\ OnlyCalls

CheckEmail(c, e) == Looks(c, IF HasEmail(e) # {} THEN "ok" ELSE "failed")

\* Logs in a user that Google and the service know.
CheckAccessToken(c, s) ==
  \E check \in TokenChecks :
    Looks(c, IF check = "ok" /\ HasSocial(s) = {} THEN "failed" ELSE check)

\* The status and the counters of a user who is logged in.
ShowAccount(c, u) == Looks(c, IF account[u].stored THEN "ok" ELSE "failed")

-----------------------------------------------------------------------------
(* Passwords and e-mail addresses. *)

\* The middleware of these routes decodes the _id of the user and looks it up.
Authorized(u) == account[u].stored

RemindBegin(c, e) ==
  /\ \/ \E u \in HasEmail(e) :
          account[u].social = NoSocial /\ Loads(c, "remind", "mail", u)
     \/ /\ \A u \in HasEmail(e) : account[u].social # NoSocial
        /\ Rejects(c)
  /\ OnlyCalls

\* A mail is sent; or there is no user of the mail server, or it refuses; or the
\* template cannot be read, which the route does not catch.
MailOutcomes == {"ok", "failed", "unanswered"}

RemindMail(c) ==
  /\ InProgress(acall, c, "remind", "mail")
  /\ \E outcome \in MailOutcomes :
       /\ Over(c, outcome)
       /\ coded' = IF outcome = "ok" THEN coded \cup {acall[c].id} ELSE coded
  /\ UNCHANGED <<account, lastWord>> /\ NoQuotaWritten

\* A code holds for a day and for any number of resets.
CodeExpires(u) ==
  /\ u \in coded
  /\ coded' = coded \ {u}
  /\ UNCHANGED <<account, acall, lastWord>> /\ NoQuotaWritten

ResetBegin(c, u, w) ==
  /\ IF u \in coded
     THEN Requests(c, [Request("reset") EXCEPT !.pc = "save", !.id = u,
                         !.read = [account[u] EXCEPT !.password = Plain(w)]])
     ELSE Rejects(c)
  /\ OnlyCalls

\* changePassword reads the document again.
PasswordBegin(c, u, w) ==
  /\ IF Authorized(u)
     THEN Requests(c, [Request("password") EXCEPT !.pc = "save", !.id = u,
                         !.read = [account[u] EXCEPT !.password = Plain(w)]])
     ELSE Rejects(c)
  /\ OnlyCalls

\* The schema refuses a short password: reset says so, changePassword throws.
PasswordSave(c) ==
  /\ acall[c].op \in {"reset", "password"} /\ acall[c].pc = "save"
  /\ IF acall[c].read.password.word = ShortWord
     THEN /\ Over(c, IF acall[c].op = "reset" THEN "failed" ELSE "unanswered")
          /\ UNCHANGED <<account, lastWord>>
     ELSE /\ account' = SavedPaths(acall[c].id, acall[c].read, {"password"})
          /\ lastWord' = [lastWord EXCEPT ![acall[c].id] = acall[c].read.password.word]
          /\ Over(c, "ok")
  /\ UNCHANGED coded /\ NoQuotaWritten

\* The middleware has read the user; the address itself follows in the next step.
EmailBegin(c, u, e) ==
  /\ IF Authorized(u)
     THEN Requests(c, [Request("email") EXCEPT !.pc = "find", !.id = u,
                         !.read = [account[u] EXCEPT !.email = e],
                         !.form = (account[u].email # e)])
     ELSE Rejects(c)
  /\ OnlyCalls

\* The comparison of _ids compares objects: an address is taken whosever it is.
EmailFind(c) ==
  /\ InProgress(acall, c, "email", "find")
  /\ IF HasEmail(acall[c].read.email) # {} THEN Over(c, "failed")
     ELSE Recalls(c, GoesTo(acall[c], "save"))
  /\ OnlyCalls

\* form says whether the address was changed in the copy.
EmailSave(c) ==
  /\ InProgress(acall, c, "email", "save")
  /\ IF acall[c].form /\ HasEmail(acall[c].read.email) \ {acall[c].id} # {}
     THEN Over(c, "failed") /\ UNCHANGED account
     ELSE /\ account' = SavedPaths(acall[c].id, acall[c].read,
                                   IF acall[c].form THEN {"email"} ELSE {})
          /\ Over(c, "ok")
  /\ UNCHANGED <<coded, lastWord>> /\ NoQuotaWritten

-----------------------------------------------------------------------------
(* The quota. *)

\* A number is added; the text of a form is appended to the digits.
Topped(quota, n, form) ==
  IF n = 0 THEN quota
  ELSE IF ~ form THEN quota + n
  ELSE IF quota < 0 THEN 10 * quota - n ELSE 10 * quota + n

TopUpBegin(c, u, n, form) ==
  /\ IF Authorized(u)
     THEN Requests(c, [Request("topUp") EXCEPT !.pc = "save", !.id = u, !.amount = n,
                         !.form = form,
                         !.read = [account[u] EXCEPT !.quota = Topped(@, n, form)]])
     ELSE Rejects(c)
  /\ OnlyCalls

\* The quota of u is written while another top-up holds a copy of it.
HeldByOthers(u, c) == \E d \in AccountCallers \ {c} :
                        InProgress(acall, d, "topUp", "save") /\ acall[d].id = u

Muddles(u, doing) == muddled' = IF doing THEN muddled \cup {u} ELSE muddled

\* Mutant of TopUpSave: the amount replaces what was left.
TopUpReplaces(c) ==
  LET u == acall[c].id IN
  /\ InProgress(acall, c, "topUp", "save")
  /\ account' = SavedPaths(u, [acall[c].read EXCEPT !.quota = acall[c].amount], {"quota"})
  /\ due' = [due EXCEPT ![u] = @ + acall[c].amount]
  /\ Muddles(u, acall[c].amount # 0 /\ (acall[c].form \/ HeldByOthers(u, c)))
  /\ Over(c, "ok")
  /\ UNCHANGED <<coded, charges, lastWord>>

TopUpSave(c) ==
  LET u == acall[c].id IN
  /\ InProgress(acall, c, "topUp", "save")
  /\ account' = SavedPaths(u, acall[c].read,
                           IF acall[c].amount = 0 THEN {} ELSE {"quota"})
  /\ due' = [due EXCEPT ![u] = @ + acall[c].amount]
  /\ Muddles(u, acall[c].amount # 0 /\ (acall[c].form \/ HeldByOthers(u, c)))
  /\ Over(c, "ok")
  /\ UNCHANGED <<coded, charges, lastWord>>

\* The worker subtracts in the database.
Charge(u) ==
  /\ account[u].stored /\ charges < MaxCharges
  /\ account' = [account EXCEPT ![u].quota = @ - 1]
  /\ due' = [due EXCEPT ![u] = @ - 1]
  /\ Muddles(u, HeldByOthers(u, 0))
  /\ charges' = charges + 1
  /\ UNCHANGED <<acall, coded, lastWord>>

-----------------------------------------------------------------------------
AccountsNext ==
  \/ \E c \in AccountCallers, e \in Emails, w \in Words \cup {ShortWord} :
       RegisterBegin(c, e, w) \/ LoginBegin(c, e, w)
  \/ \E c \in AccountCallers, s \in GoogleIds, e \in Emails \cup {NoEmail} : GoogleBegin(c, e, s)
  \/ \E c \in AccountCallers, s \in PassportIds : PassportBegin(c, s)
  \/ \E c \in AccountCallers, e \in Emails : CheckEmail(c, e) \/ RemindBegin(c, e)
  \/ \E c \in AccountCallers, s \in GoogleIds : CheckAccessToken(c, s)
  \/ \E c \in AccountCallers, u \in AccountIds : ShowAccount(c, u)
  \/ \E c \in AccountCallers, u \in AccountIds, w \in Words \cup {ShortWord} :
       ResetBegin(c, u, w) \/ PasswordBegin(c, u, w)
  \/ \E c \in AccountCallers, u \in AccountIds, e \in Emails : EmailBegin(c, u, e)
  \/ \E c \in AccountCallers, u \in AccountIds, n \in Grants, form \in BOOLEAN :
       TopUpBegin(c, u, n, form)
  \/ \E c \in AccountCallers :
       \/ Insert(c) \/ LoginStamp(c) \/ RemindMail(c) \/ PasswordSave(c)
       \/ EmailFind(c) \/ EmailSave(c) \/ TopUpSave(c)
  \/ \E u \in AccountIds : CodeExpires(u) \/ Charge(u)

AccountsSpec == AccountsInit /\ [][AccountsNext]_accountVars

-----------------------------------------------------------------------------
\* A user logs in with the last password that was saved: it went through the hash
\* once, and no save of something else (a login's date, an address, a quota) that
\* started from an older copy brings the old one back.
PasswordIsTheLast ==
  \A u \in AccountIds : account[u].stored =>
    /\ account[u].password.word = lastWord[u]
    /\ account[u].password.hashed = IF lastWord[u] = NoWord THEN 0 ELSE 1

\* However registrations and changes of addresses overlap, no two users share an
\* address or an identity of a social network.
IdentitiesDiffer ==
  \A u, v \in AccountIds : account[u].stored /\ account[v].stored /\ u # v =>
    /\ account[u].email = account[v].email => account[u].email = NoEmail
    /\ account[u].social = account[v].social => account[u].social = NoSocial

CredentialsSound == PasswordIsTheLast /\ IdentitiesDiffer

\* What a user has left is what was given and added less what was charged, unless
\* a top-up came as a form, whose text is appended to the digits, or the quota
\* was written between the read and the save of a top-up.  Saves of other paths
\* do not touch it, whatever copy they hold.
QuotaAddsUp ==
  \A u \in AccountIds \ muddled : account[u].stored => account[u].quota = due[u]
=============================================================================
