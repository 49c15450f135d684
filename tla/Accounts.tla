------------------------------ MODULE Accounts ------------------------------
(***************************************************************************)
(* Users, sessions and who may see which job (app/auth.py, app/security.py *)
(* and the handlers of app/jobs.py).  The handlers are ordinary functions, *)
(* so FastAPI runs each request in a thread of its own: between the query  *)
(* of register and its insert, and between get_current_user and the        *)
(* handler that depends on it, other requests run.                         *)
(*                                                                         *)
(* A user, a session and a job are known by the call that creates them; a  *)
(* session's token is worth as much as its hash.                           *)
(*                                                                         *)
(* call[c].pc:                                                             *)
(*   idle      not made yet                reply  served, not yet answered *)
(*   begun     on its way                  done   answered, or lost        *)
(*   admitted  its first query has been answered                           *)
(***************************************************************************)
EXTENDS FiniteSets

CONSTANTS
  Calls,      \* requests, each made once
  Spellings,  \* what people type for an address
  Normal,     \* [Spellings -> its lower-case form without blanks, or None]
  None        \* no address (it has no "@" and "."), no token, SQL NULL

Session == [user: Calls, revoked: BOOLEAN, expired: BOOLEAN]

ASSUME NoneAssumption == None \notin Calls \cup Spellings \cup Session
ASSUME NormalAssumption ==
  /\ Normal \in [Spellings -> Spellings \cup {None}]
  /\ \A s \in Spellings : Normal[s] # None => Normal[Normal[s]] = Normal[s]

VARIABLES
  users,     \* [Calls -> email of the user row, or None]
  sessions,  \* [Calls -> the session row, or None]
  jobs,      \* [Calls -> owner of the job row, or None]
  call

tables == <<users, sessions, jobs>>
vars == <<tables, call>>

Entry == {"register", "login"}
Protected == {"logout", "create", "list", "get"}

Call == [op: {"none"} \cup Entry \cup Protected,
         pc: {"idle", "begun", "admitted", "reply", "done"},
         email: Spellings \cup {None},   \* as typed
         token: Calls \cup {None},       \* the session cookie
         csrf: BOOLEAN,                  \* header and cookie agree
         job: Calls \cup {None},         \* in the path
         user: Calls \cup {None},        \* found by the first query
         shown: SUBSET Calls,            \* jobs in the answer
         late: BOOLEAN,                  \* (an observer: Registered or Out)
         answer: {"none", "ok", "401", "403", "404", "409", "422",
                  "integrity", "error", "lost"}]

NoCall == [op |-> "none", pc |-> "idle", email |-> None, token |-> None,
           csrf |-> FALSE, job |-> None, user |-> None, shown |-> {},
           late |-> FALSE, answer |-> "none"]

Init ==
  /\ users = [c \in Calls |-> None]
  /\ sessions = [c \in Calls |-> None]
  /\ jobs = [c \in Calls |-> None]
  /\ call = [c \in Calls |-> NoCall]

Answer(c, a) == call' = [call EXCEPT ![c] = [@ EXCEPT !.pc = "done", !.answer = a]]

\* Variant: addresses are stored and compared as they are typed.
StoredAsTyped(s) == IF Normal[s] = None THEN None ELSE s

\* normalize_email, and None for what EMAIL_PATTERN does not match.
Stored(s) == Normal[s]

HasEmail(u, s) == users[u] # None /\ users[u] = Stored(s)

-----------------------------------------------------------------------------
\* Observers, what clients may know when they make a call: a registration of
\* the address was answered well; the session has expired, or its logout was
\* answered well.
Registered(s) ==
  \E d \in Calls :
    call[d].op = "register" /\ call[d].answer = "ok" /\ Normal[call[d].email] = Normal[s]
Out(t) ==
  t # None =>
    \/ sessions[t].expired
    \/ \E d \in Calls : call[d].op = "logout" /\ call[d].token = t /\ call[d].answer = "ok"

\* A registration is sent.
BeginRegister(c, s) ==
  /\ call[c].pc = "idle"
  /\ call' = [call EXCEPT ![c] = [NoCall EXCEPT !.op = "register", !.pc = "begun",
                                                 !.email = s, !.late = Registered(s)]]
  /\ UNCHANGED tables

\* The tokens clients have are the ones they were answered.
Tokens == {t \in Calls : call[t].op \in Entry /\ call[t].answer = "ok"}

-----------------------------------------------------------------------------
\* Variant: the query is for the address as it was typed.
FindAddressAsTyped(c) ==
  /\ call[c].op = "register" /\ call[c].pc = "begun"
  /\ IF Stored(call[c].email) = None THEN Answer(c, "422")
     ELSE IF \E u \in Calls : users[u] = call[c].email THEN Answer(c, "409")
     ELSE call' = [call EXCEPT ![c].pc = "admitted"]
  /\ UNCHANGED tables

\* register up to its query.
FindAddress(c) ==
  /\ call[c].op = "register" /\ call[c].pc = "begun"
  /\ IF Stored(call[c].email) = None THEN Answer(c, "422")
     ELSE IF \E u \in Calls : HasEmail(u, call[c].email) THEN Answer(c, "409")
     ELSE call' = [call EXCEPT ![c].pc = "admitted"]
  /\ UNCHANGED tables

NewSession(u) == [user |-> u, revoked |-> FALSE, expired |-> FALSE]

\* Variant: the user is committed before its session is made.
InsertUserFirst(c) ==
  /\ call[c].op = "register" /\ call[c].pc = "admitted"
  /\ ~\E u \in Calls : HasEmail(u, call[c].email)
  /\ users' = [users EXCEPT ![c] = Stored(call[c].email)]
  /\ sessions' \in {sessions, [sessions EXCEPT ![c] = NewSession(c)]}
  /\ IF sessions' = sessions THEN Answer(c, "error")
     ELSE call' = [call EXCEPT ![c].pc = "reply"]
  /\ UNCHANGED jobs

\* User and session in one commit; the unique index stops a second user of the
\* address, and nobody catches its IntegrityError (500).
InsertUser(c) ==
  /\ call[c].op = "register" /\ call[c].pc = "admitted"
  /\ IF \E u \in Calls : HasEmail(u, call[c].email)
     THEN Answer(c, "integrity") /\ UNCHANGED <<users, sessions>>
     ELSE /\ users' = [users EXCEPT ![c] = Stored(call[c].email)]
          /\ sessions' = [sessions EXCEPT ![c] = NewSession(c)]
          /\ call' = [call EXCEPT ![c].pc = "reply"]
  /\ UNCHANGED jobs

\* login up to the verification of the password, which may be wrong.
FindUser(c, s) ==
  /\ call[c].pc = "idle"
  /\ LET request == [NoCall EXCEPT !.op = "login", !.email = s]
         refused(a) == [request EXCEPT !.pc = "done", !.answer = a]
     IN  \/ Stored(s) = None /\ call' = [call EXCEPT ![c] = refused("422")]
         \/ Stored(s) # None /\ call' = [call EXCEPT ![c] = refused("401")]
         \/ \E u \in Calls :
              /\ HasEmail(u, s)
              /\ call' = [call EXCEPT ![c] = [request EXCEPT !.pc = "admitted", !.user = u]]
  /\ UNCHANGED tables

OpenSession(c) ==
  /\ call[c].op = "login" /\ call[c].pc = "admitted"
  /\ sessions' = [sessions EXCEPT ![c] = NewSession(call[c].user)]
  /\ call' = [call EXCEPT ![c].pc = "reply"]
  /\ UNCHANGED <<users, jobs>>

-----------------------------------------------------------------------------
\* get_current_user on the session of the cookie.
Valid(t) == t # None /\ ~sessions[t].revoked /\ ~sessions[t].expired

\* A request for op with the cookie t, to the job j or none. The dependencies
\* come in this order: create_job checks CSRF before the session, logout after
\* it, the reading handlers not at all.
Admit(c, op, t, csrf, j) ==
  /\ call[c].pc = "idle" /\ op \in Protected
  /\ t \in Tokens \cup {None}
  /\ csrf => op \in {"create", "logout"}
  /\ IF op = "get" THEN j # None /\ jobs[j] # None ELSE j = None
  /\ LET request == [NoCall EXCEPT !.op = op, !.token = t, !.csrf = csrf, !.job = j,
                                   !.late = Out(t)]
         refused(a) == [request EXCEPT !.pc = "done", !.answer = a]
         admitted == [request EXCEPT !.pc = "admitted", !.user = sessions[t].user]
     IN  call' = [call EXCEPT ![c] =
                    IF op = "create" /\ ~csrf THEN refused("403")
                    ELSE IF ~Valid(t) THEN refused("401")
                    ELSE IF op = "logout" /\ ~csrf THEN refused("403")
                    ELSE admitted]
  /\ UNCHANGED tables

\* Variant: the end of the session is assigned but not committed.
LogOutUncommitted(c) ==
  /\ call[c].op = "logout" /\ call[c].pc = "admitted"
  /\ call' = [call EXCEPT ![c].pc = "reply"]
  /\ UNCHANGED tables

\* Variant: a logout ends all sessions of its user.
LogOutEverywhere(c) ==
  /\ call[c].op = "logout" /\ call[c].pc = "admitted"
  /\ sessions' = [t \in Calls |-> IF sessions[t] # None /\ sessions[t].user = call[c].user
                                  THEN [sessions[t] EXCEPT !.revoked = TRUE] ELSE sessions[t]]
  /\ call' = [call EXCEPT ![c].pc = "reply"]
  /\ UNCHANGED <<users, jobs>>

LogOut(c) ==
  /\ call[c].op = "logout" /\ call[c].pc = "admitted"
  /\ sessions' = [sessions EXCEPT ![call[c].token].revoked = TRUE]
  /\ call' = [call EXCEPT ![c].pc = "reply"]
  /\ UNCHANGED <<users, jobs>>

\* create_job up to its commit; what follows is in JobBackend.
CreateJob(c) ==
  /\ call[c].op = "create" /\ call[c].pc = "admitted"
  /\ jobs' = [jobs EXCEPT ![c] = call[c].user]
  /\ call' = [call EXCEPT ![c].pc = "reply"]
  /\ UNCHANGED <<users, sessions>>

OwnedBy(u) == {j \in Calls : jobs[j] # None /\ jobs[j] = u}

Show(c, js) ==
  /\ call' = [call EXCEPT ![c] = [@ EXCEPT !.pc = "reply", !.shown = js]]
  /\ UNCHANGED tables

ListJobs(c) ==
  /\ call[c].op = "list" /\ call[c].pc = "admitted"
  /\ Show(c, OwnedBy(call[c].user))

\* Variant: a job is looked up by its id alone.
GetAnyJob(c) ==
  /\ call[c].op = "get" /\ call[c].pc = "admitted"
  /\ jobs[call[c].job] # None /\ Show(c, {call[c].job})

\* get_job, and get_job_result: a result that the drive service cannot deliver
\* is 404, like a job of somebody else.
GetJob(c) ==
  /\ call[c].op = "get" /\ call[c].pc = "admitted"
  /\ \/ call[c].job \in OwnedBy(call[c].user) /\ Show(c, {call[c].job})
     \/ Answer(c, "404") /\ UNCHANGED tables

-----------------------------------------------------------------------------
Reply(c) ==
  /\ call[c].pc = "reply"
  /\ Answer(c, "ok")
  /\ UNCHANGED tables

\* A database call fails (500) and its transaction is rolled back; so may the
\* refresh of create_job, whose row is committed by then. (A first query that
\* fails leaves nothing to look at.)
DatabaseFails(c) ==
  /\ \/ call[c].pc = "admitted"
     \/ call[c].op = "create" /\ call[c].pc = "reply"
  /\ Answer(c, "error")
  /\ UNCHANGED tables

\* The process dies or the connection breaks after the commit; the client learns
\* nothing. (Before it, nothing is stored, as when the database fails.)
Lose(c) ==
  /\ call[c].pc = "reply"
  /\ Answer(c, "lost")
  /\ UNCHANGED tables

\* session_ttl_seconds have passed.
Expire(t) ==
  /\ sessions[t] # None
  /\ sessions' = [sessions EXCEPT ![t].expired = TRUE]
  /\ UNCHANGED <<users, jobs, call>>

Next ==
  \E c \in Calls :
    \/ \E s \in Spellings : BeginRegister(c, s) \/ FindUser(c, s)
    \/ \E op \in Protected, t, j \in Calls \cup {None}, csrf \in BOOLEAN : Admit(c, op, t, csrf, j)
    \/ FindAddress(c) \/ InsertUser(c) \/ OpenSession(c)
    \/ LogOut(c) \/ CreateJob(c) \/ ListJobs(c) \/ GetJob(c)
    \/ Reply(c) \/ DatabaseFails(c) \/ Lose(c) \/ Expire(c)

Spec == Init /\ [][Next]_vars

-----------------------------------------------------------------------------
TypeOK ==
  /\ users \in [Calls -> Spellings \cup {None}]
  /\ sessions \in [Calls -> Session \cup {None}]
  /\ jobs \in [Calls -> Calls \cup {None}]
  /\ call \in [Calls -> Call]

\* However people spell it and however registrations overlap, an address has
\* one user.
OneUserPerAddress ==
  \A u, v \in Calls :
    users[u] # None /\ users[v] # None /\ Normal[users[u]] = Normal[users[v]] => u = v

\* What a client was answered is what the tables hold: no account without its
\* session, all of a call that was answered well, and nothing of one that was
\* refused, however its requests overlap with others. A registration or login
\* that failed (500) has left nothing either; a create that failed may have left
\* its job, since the refresh comes after the commit.
AnsweredIsStored ==
  \A c \in Calls :
    LET end == call[c].answer
    IN  /\ call[c].op = "register" =>
             /\ users[c] # None <=> sessions[c] # None
             /\ end \notin {"none", "lost"} => (end = "ok" <=> users[c] # None)
        /\ call[c].op = "login" =>
             (end \notin {"none", "lost"} => (end = "ok" <=> sessions[c] # None))
        /\ call[c].op = "create" =>
             (end \notin {"none", "lost", "error"} => (end = "ok" <=> jobs[c] # None))
        /\ call[c].op = "logout" /\ end = "ok" => sessions[call[c].token].revoked

\* A registration made after another of the address was answered well gets 409,
\* in whatever spelling it comes; only one that was under way at that time may
\* end with the error of the unique index.
TakenIsConflict ==
  \A c \in Calls :
    call[c].op = "register" /\ call[c].late =>
      call[c].answer \in {"none", "409"}

\* A request that begins after its session has expired, or after a logout was
\* answered, gets nothing and changes nothing; one that was under way may.
LoggedOutStaysOut ==
  \A c \in Calls :
    call[c].op \in Protected /\ call[c].late =>
      /\ call[c].answer \notin {"ok", "404"}
      /\ call[c].shown = {} /\ jobs[c] = None

\* A session is ended by its own logout and by time only: not by another
\* session of the same user, and not by a logout that was refused.
SessionsAreApart ==
  \A c \in Calls :
    call[c].op \in Protected /\ call[c].answer = "401" /\ call[c].token # None =>
      \/ sessions[call[c].token].expired
      \/ \E d \in Calls : /\ call[d].op = "logout" /\ call[d].token = call[c].token
                          /\ call[d].user # None

\* Whoever sees a job has logged in with the address of the one who created it.
OwnJobsOnly ==
  \A c \in Calls : \A j \in call[c].shown :
    LET AddressOf(d) == Normal[call[call[d].token].email]
    IN  AddressOf(c) = AddressOf(j)
=============================================================================
