--------------------------- MODULE AccountsProofs ---------------------------
(***************************************************************************)
(* Theorems about Accounts, for any number of requests and any spellings.  *)
(*                                                                         *)
(* The rows are tied to the calls that have inserted them (UserRows,       *)
(* SessionRows, JobRows), a revocation to its logout (Revocations), and    *)
(* each request to the rows it has seen (Registering, LoggingIn, Serving). *)
(***************************************************************************)
EXTENDS Accounts, TLAPS

\* A user row is of the registration that has inserted it; its email is stable.
UserRows ==
  \A u \in Calls : users[u] # None =>
    /\ call[u].op = "register" /\ call[u].pc \in {"reply", "done"}
    /\ users[u] = Normal[call[u].email] /\ Normal[users[u]] = users[u]

Unique ==
  \A u, v \in Calls : users[u] # None /\ users[u] = users[v] => u = v

\* A session row is of a call that named the address of the session's user.
SessionRows ==
  \A t \in Calls : sessions[t] # None =>
    /\ call[t].op \in Entry /\ call[t].pc \in {"reply", "done"}
    /\ users[sessions[t].user] # None
    /\ users[sessions[t].user] = Normal[call[t].email]

LoggedOut(t) ==
  \E d \in Calls : call[d].op = "logout" /\ call[d].token = t /\ call[d].user # None

Revocations ==
  \A t \in Calls : sessions[t] # None => (sessions[t].revoked => LoggedOut(t))

JobRows ==
  \A j \in Calls : jobs[j] # None =>
    call[j].op = "create" /\ call[j].pc \in {"reply", "done"} /\ jobs[j] = call[j].user

Registering(c) ==
  call[c].op = "register" =>
    /\ call[c].pc # "idle" /\ call[c].email # None
    /\ call[c].pc \in {"admitted", "reply"} => Normal[call[c].email] # None
    /\ users[c] # None <=> sessions[c] # None
    /\ call[c].answer = "none" <=> call[c].pc # "done"
    /\ call[c].pc \in {"begun", "admitted"} => users[c] = None
    /\ call[c].pc = "reply" => users[c] # None
    /\ call[c].pc = "done" /\ call[c].answer # "lost" =>
         (call[c].answer = "ok" <=> users[c] # None)
    /\ call[c].late =>
         /\ call[c].pc \in {"begun", "done"} /\ call[c].answer \in {"none", "409"}
         /\ \E u \in Calls : HasEmail(u, call[c].email)

LoggingIn(c) ==
  call[c].op = "login" =>
    /\ call[c].pc \in {"admitted", "reply", "done"} /\ call[c].email # None
    /\ call[c].answer = "none" <=> call[c].pc # "done"
    /\ call[c].pc = "admitted" =>
         sessions[c] = None /\ call[c].user # None /\ HasEmail(call[c].user, call[c].email)
    /\ call[c].pc = "reply" => sessions[c] # None
    /\ call[c].pc = "done" /\ call[c].answer # "lost" =>
         (call[c].answer = "ok" <=> sessions[c] # None)

Serving(c) ==
  /\ call[c].shown # {} => call[c].op \in Protected
  /\ call[c].op \in Protected =>
       /\ call[c].pc \in {"admitted", "reply", "done"}
       /\ call[c].answer = "none" <=> call[c].pc # "done"
       /\ call[c].user = None => call[c].pc = "done" /\ call[c].answer \in {"401", "403"}
       /\ call[c].user # None =>
            /\ call[c].token # None /\ sessions[call[c].token] # None
            /\ call[c].user = sessions[call[c].token].user
       /\ call[c].shown \subseteq OwnedBy(call[c].user)
       /\ call[c].op = "create" /\ (call[c].pc = "reply" \/ call[c].answer = "ok") => jobs[c] # None
       /\ call[c].op = "create" /\ call[c].answer \notin {"none", "ok", "error", "lost"} =>
            call[c].user = None
       /\ call[c].op = "logout" /\ (call[c].pc = "reply" \/ call[c].answer = "ok") =>
            sessions[call[c].token].revoked
       /\ call[c].late => call[c].user = None
       /\ call[c].answer = "401" /\ call[c].token # None =>
            /\ sessions[call[c].token] # None
            /\ sessions[call[c].token].expired \/ LoggedOut(call[c].token)

Idle(c) == call[c].pc = "idle" <=> call[c].op = "none"

Requests == \A c \in Calls : Registering(c) /\ LoggingIn(c) /\ Serving(c) /\ Idle(c)

AccountsInv ==
  /\ TypeOK /\ UserRows /\ Unique /\ SessionRows /\ Revocations /\ JobRows /\ Requests


-----------------------------------------------------------------------------
LEMMA AccountsInit == Init => AccountsInv
BY NoneAssumption DEF Init, AccountsInv, TypeOK, UserRows, Unique, SessionRows, Revocations, JobRows,
   Requests, Registering, LoggingIn, Serving, Idle, NoCall, Call, Entry, Protected

Others(c) == \A d \in Calls : d # c => call'[d] = call[d]

\* The parts of a request that rows and other requests look at.
Same(c) ==
  /\ call'[c].op = call[c].op /\ call'[c].email = call[c].email
  /\ call'[c].token = call[c].token /\ call'[c].user = call[c].user
  /\ call'[c].late = call[c].late /\ call'[c].job = call[c].job

\* Rows only come and sessions only end: other requests are not disturbed.
Grows ==
  /\ \A u \in Calls : users[u] # None => users'[u] = users[u]
  /\ \A t \in Calls : sessions[t] # None =>
       /\ sessions'[t] # None /\ sessions'[t].user = sessions[t].user
       /\ sessions[t].revoked => sessions'[t].revoked
       /\ sessions[t].expired => sessions'[t].expired
  /\ \A j \in Calls : jobs[j] # None => jobs'[j] = jobs[j]
  /\ \A t \in Calls : LoggedOut(t) => LoggedOut(t)'

LEMMA OtherKeeps ==
  ASSUME AccountsInv, Grows, NEW d \in Calls, call'[d] = call[d],
         users'[d] = users[d], sessions'[d] # None <=> sessions[d] # None
  PROVE  Registering(d)' /\ LoggingIn(d)' /\ Serving(d)' /\ Idle(d)'
<1> USE NoneAssumption DEF AccountsInv, Grows
<1>1. call[d] \in Call
  BY DEF TypeOK
<1>2. \A s : \A u \in Calls : HasEmail(u, s) => HasEmail(u, s)'
  BY DEF HasEmail, Stored
<1>3. Registering(d)' /\ Idle(d)'
  BY <1>1, <1>2 DEF Requests, Registering, Idle
<1>4. LoggingIn(d)'
  BY <1>1, <1>2 DEF Requests, LoggingIn, Call
<1>5. Serving(d)'
  <2>1. Serving(d)
    BY DEF Requests
  <2>2. call[d].shown \subseteq OwnedBy(call[d].user) => call[d].shown \subseteq OwnedBy(call[d].user)'
    BY DEF OwnedBy
  <2> QED
    BY <1>1, <2>1, <2>2 DEF Serving, Call
<1> QED
  BY <1>3, <1>4, <1>5

\* A step of one request that leaves the tables alone and ends as that request
\* should: nothing else is disturbed.
LEMMA QuietStep ==
  ASSUME AccountsInv, NEW c \in Calls, UNCHANGED tables, call' \in [Calls -> Call],
         Others(c), call[c].pc = "idle" \/ Same(c),
         call[c].pc \in {"reply", "done"} => call'[c].pc \in {"reply", "done"},
         Registering(c)', LoggingIn(c)', Serving(c)', Idle(c)'
  PROVE  AccountsInv'
<1> USE DEF AccountsInv, tables
<1>1. \A d \in Calls : call[d].op # "none" =>
        /\ call'[d].op = call[d].op /\ call'[d].email = call[d].email
        /\ call'[d].token = call[d].token /\ call'[d].user = call[d].user
        /\ call[d].pc \in {"reply", "done"} => call'[d].pc \in {"reply", "done"}
  BY DEF Requests, Idle, Others, Same
<1>2. Grows
  BY <1>1 DEF Grows, LoggedOut
<1>3. UserRows' /\ Unique'
  BY <1>1 DEF UserRows, Unique
<1>4. SessionRows'
  BY <1>1 DEF SessionRows, Entry
<1>5. Revocations' /\ JobRows'
  BY <1>1, <1>2 DEF Revocations, JobRows, Grows
<1>6. ASSUME NEW d \in Calls, d # c
      PROVE  Registering(d)' /\ LoggingIn(d)' /\ Serving(d)' /\ Idle(d)'
  BY <1>2, <1>6, OtherKeeps DEF Others
<1>7. TypeOK'
  BY DEF TypeOK
<1> QED
  BY <1>3, <1>4, <1>5, <1>6, <1>7 DEF Requests

\* What the three forms of a change of one request come to.
LEMMA NewEffect ==
  ASSUME TypeOK, NEW c \in Calls, NEW new \in Call, call' = [call EXCEPT ![c] = new]
  PROVE  call' \in [Calls -> Call] /\ Others(c) /\ call'[c] = new
BY DEF TypeOK, Others

LEMMA AnswerEffect ==
  ASSUME TypeOK, NEW c \in Calls, NEW a, Answer(c, a),
         a \in {"ok", "401", "403", "404", "409", "422", "integrity", "error", "lost"}
  PROVE  /\ call' \in [Calls -> Call] /\ Others(c) /\ Same(c)
         /\ call'[c].pc = "done" /\ call'[c].answer = a /\ call'[c].shown = call[c].shown
<1> DEFINE new == [call[c] EXCEPT !.pc = "done", !.answer = a]
<1>1. call[c] \in Call /\ call \in [Calls -> Call]
  BY DEF TypeOK
<1>2. /\ new.pc = "done" /\ new.answer = a
      /\ new.op = call[c].op /\ new.email = call[c].email /\ new.token = call[c].token
      /\ new.user = call[c].user /\ new.late = call[c].late /\ new.job = call[c].job
      /\ new.shown = call[c].shown
  BY <1>1 DEF Call
<1>3. new \in Call
  BY <1>1 DEF Call
<1>4. call' = [call EXCEPT ![c] = new]
  BY DEF Answer
<1> HIDE DEF new
<1> QED
  BY <1>1, <1>2, <1>3, <1>4 DEF Others, Same

LEMMA MoveEffect ==
  ASSUME TypeOK, NEW c \in Calls, NEW p \in {"admitted", "reply"},
         call' = [call EXCEPT ![c].pc = p]
  PROVE  /\ call' \in [Calls -> Call] /\ Others(c) /\ Same(c)
         /\ call'[c].pc = p /\ call'[c].answer = call[c].answer /\ call'[c].shown = call[c].shown
BY DEF TypeOK, Call, Others, Same

LEMMA ShowEffect ==
  ASSUME TypeOK, NEW c \in Calls, NEW js \in SUBSET Calls, Show(c, js)
  PROVE  /\ call' \in [Calls -> Call] /\ Others(c) /\ Same(c) /\ UNCHANGED tables
         /\ call'[c].pc = "reply" /\ call'[c].answer = call[c].answer /\ call'[c].shown = js
<1> DEFINE new == [call[c] EXCEPT !.pc = "reply", !.shown = js]
<1>1. call[c] \in Call /\ call \in [Calls -> Call]
  BY DEF TypeOK
<1>2. /\ new.pc = "reply" /\ new.answer = call[c].answer
      /\ new.op = call[c].op /\ new.email = call[c].email /\ new.token = call[c].token
      /\ new.user = call[c].user /\ new.late = call[c].late /\ new.job = call[c].job
      /\ new.shown = js
  BY <1>1 DEF Call
<1>3. new \in Call
  BY <1>1 DEF Call
<1>4. call' = [call EXCEPT ![c] = new] /\ UNCHANGED tables
  BY DEF Show
<1> HIDE DEF new
<1> QED
  BY <1>1, <1>2, <1>3, <1>4 DEF Others, Same

-----------------------------------------------------------------------------
LEMMA ReplyKeeps ==
  ASSUME AccountsInv, NEW c \in Calls, Reply(c)
  PROVE  AccountsInv'
<1> USE NoneAssumption DEF AccountsInv
<1>1. /\ call' \in [Calls -> Call] /\ Others(c) /\ Same(c) /\ UNCHANGED tables
      /\ call'[c].pc = "done" /\ call'[c].answer = "ok" /\ call'[c].shown = call[c].shown
  BY AnswerEffect DEF Reply
<1>2. /\ Registering(c) /\ LoggingIn(c) /\ Serving(c) /\ Idle(c)
      /\ call[c].pc = "reply"
  BY DEF Reply, Requests
<1>3. Registering(c)' /\ LoggingIn(c)' /\ Idle(c)'
  BY <1>1, <1>2 DEF Same, tables, Registering, LoggingIn, Idle, HasEmail, Stored
<1>4. Serving(c)'
  BY <1>1, <1>2 DEF Same, tables, Serving, OwnedBy, LoggedOut
<1> QED
  BY <1>1, <1>2, <1>3, <1>4, QuietStep

LEMMA DatabaseFailsKeeps ==
  ASSUME AccountsInv, NEW c \in Calls, DatabaseFails(c)
  PROVE  AccountsInv'
<1> USE NoneAssumption DEF AccountsInv
<1>1. /\ call' \in [Calls -> Call] /\ Others(c) /\ Same(c) /\ UNCHANGED tables
      /\ call'[c].pc = "done" /\ call'[c].answer = "error" /\ call'[c].shown = call[c].shown
  BY AnswerEffect DEF DatabaseFails
<1>2. /\ Registering(c) /\ LoggingIn(c) /\ Serving(c) /\ Idle(c)
      /\ call[c].pc = "admitted" \/ (call[c].op = "create" /\ call[c].pc = "reply")
  BY DEF DatabaseFails, Requests
<1>3. Registering(c)' /\ LoggingIn(c)' /\ Idle(c)'
  BY <1>1, <1>2 DEF Same, tables, Registering, LoggingIn, Idle, HasEmail, Stored
<1>4. Serving(c)'
  BY <1>1, <1>2 DEF Same, tables, Serving, OwnedBy, LoggedOut
<1> QED
  BY <1>1, <1>2, <1>3, <1>4, QuietStep

LEMMA LoseKeeps ==
  ASSUME AccountsInv, NEW c \in Calls, Lose(c)
  PROVE  AccountsInv'
<1> USE NoneAssumption DEF AccountsInv
<1>1. /\ call' \in [Calls -> Call] /\ Others(c) /\ Same(c) /\ UNCHANGED tables
      /\ call'[c].pc = "done" /\ call'[c].answer = "lost" /\ call'[c].shown = call[c].shown
  BY AnswerEffect DEF Lose
<1>2. /\ Registering(c) /\ LoggingIn(c) /\ Serving(c) /\ Idle(c)
      /\ call[c].pc = "reply"
  BY DEF Lose, Requests
<1>3. Registering(c)' /\ LoggingIn(c)' /\ Idle(c)'
  BY <1>1, <1>2 DEF Same, tables, Registering, LoggingIn, Idle, HasEmail, Stored
<1>4. Serving(c)'
  BY <1>1, <1>2 DEF Same, tables, Serving, OwnedBy, LoggedOut
<1> QED
  BY <1>1, <1>2, <1>3, <1>4, QuietStep

LEMMA FindAddressKeeps ==
  ASSUME AccountsInv, NEW c \in Calls, FindAddress(c)
  PROVE  AccountsInv'
<1> USE NoneAssumption DEF AccountsInv
<1>1. /\ call' \in [Calls -> Call] /\ Others(c) /\ Same(c) /\ UNCHANGED tables
      /\ call'[c].shown = call[c].shown
      /\ \/ /\ call'[c].pc = "done" /\ call'[c].answer = "422" /\ Stored(call[c].email) = None
         \/ call'[c].pc = "done" /\ call'[c].answer = "409"
         \/ /\ call'[c].pc = "admitted" /\ call'[c].answer = call[c].answer
            /\ Stored(call[c].email) # None /\ ~\E u \in Calls : HasEmail(u, call[c].email)
  BY AnswerEffect, MoveEffect DEF FindAddress
<1>2. /\ Registering(c) /\ LoggingIn(c) /\ Serving(c) /\ Idle(c)
      /\ call[c].op = "register" /\ call[c].pc = "begun"
  BY DEF FindAddress, Requests
<1>3. LoggingIn(c)' /\ Serving(c)' /\ Idle(c)'
  BY <1>1, <1>2 DEF Same, LoggingIn, Serving, Idle, Protected
<1>4. Registering(c)'
  BY <1>1, <1>2 DEF Same, tables, Registering, HasEmail, Stored
<1> QED
  BY <1>1, <1>2, <1>3, <1>4, QuietStep

LEMMA ListJobsKeeps ==
  ASSUME AccountsInv, NEW c \in Calls, ListJobs(c)
  PROVE  AccountsInv'
<1> USE NoneAssumption DEF AccountsInv
<1>1. /\ call' \in [Calls -> Call] /\ Others(c) /\ Same(c) /\ UNCHANGED tables
      /\ call'[c].pc = "reply" /\ call'[c].answer = call[c].answer
      /\ call'[c].shown = OwnedBy(call[c].user)
  BY ShowEffect DEF ListJobs, OwnedBy
<1>2. /\ Serving(c) /\ Idle(c) /\ call[c].op = "list" /\ call[c].pc = "admitted"
  BY DEF ListJobs, Requests
<1>3. Registering(c)' /\ LoggingIn(c)' /\ Idle(c)'
  BY <1>1, <1>2 DEF Same, Registering, LoggingIn, Idle
<1>4. Serving(c)'
  BY <1>1, <1>2 DEF Same, tables, Serving, OwnedBy, LoggedOut, Protected
<1> QED
  BY <1>1, <1>2, <1>3, <1>4, QuietStep

LEMMA GetJobKeeps ==
  ASSUME AccountsInv, NEW c \in Calls, GetJob(c)
  PROVE  AccountsInv'
<1> USE NoneAssumption DEF AccountsInv
<1>1. /\ call' \in [Calls -> Call] /\ Others(c) /\ Same(c) /\ UNCHANGED tables
      /\ \/ /\ call'[c].pc = "reply" /\ call'[c].answer = call[c].answer
            /\ call'[c].shown \subseteq OwnedBy(call[c].user)
         \/ call'[c].pc = "done" /\ call'[c].answer = "404" /\ call'[c].shown = call[c].shown
  <2>1. CASE call[c].job \in OwnedBy(call[c].user) /\ Show(c, {call[c].job})
    <3>1. {call[c].job} \in SUBSET Calls
      BY <2>1 DEF OwnedBy
    <3> QED
      BY <2>1, <3>1, ShowEffect
  <2>2. CASE Answer(c, "404") /\ UNCHANGED tables
    BY <2>2, AnswerEffect
  <2> QED
    BY <2>1, <2>2 DEF GetJob
<1>2. /\ Serving(c) /\ Idle(c) /\ call[c].op = "get" /\ call[c].pc = "admitted"
  BY DEF GetJob, Requests
<1>3. Registering(c)' /\ LoggingIn(c)' /\ Idle(c)'
  BY <1>1, <1>2 DEF Same, Registering, LoggingIn, Idle
<1>4. Serving(c)'
  BY <1>1, <1>2 DEF Same, tables, Serving, OwnedBy, LoggedOut, Protected
<1> QED
  BY <1>1, <1>2, <1>3, <1>4, QuietStep

LEMMA BeginRegisterKeeps ==
  ASSUME AccountsInv, NEW c \in Calls, NEW s \in Spellings, BeginRegister(c, s)
  PROVE  AccountsInv'
<1> USE NoneAssumption DEF AccountsInv
<1> DEFINE new == [NoCall EXCEPT !.op = "register", !.pc = "begun",
                                 !.email = s, !.late = Registered(s)]
<1>1. /\ new \in Call /\ new.op = "register" /\ new.pc = "begun" /\ new.email = s
      /\ new.late = Registered(s) /\ new.answer = "none" /\ new.shown = {}
  <2>1. Registered(s) \in BOOLEAN
    BY DEF Registered
  <2> QED
    BY <2>1 DEF NoCall, Call, Entry
<1>2. call' = [call EXCEPT ![c] = new] /\ call[c].pc = "idle" /\ UNCHANGED tables
  BY DEF BeginRegister
<1> HIDE DEF new
<1>3. call' \in [Calls -> Call] /\ Others(c) /\ call'[c] = new
  BY <1>1, <1>2, NewEffect
<1>4. users[c] = None /\ sessions[c] = None
  BY <1>2 DEF Requests, Idle, UserRows, SessionRows, Entry
<1>5. Registered(s) => \E u \in Calls : HasEmail(u, s)
  <2> SUFFICES ASSUME NEW d \in Calls, call[d].op = "register", call[d].answer = "ok",
                      Normal[call[d].email] = Normal[s]
               PROVE  HasEmail(d, s)
    BY DEF Registered
  <2>1. users[d] # None
    BY DEF Requests, Registering
  <2> QED
    BY <2>1 DEF UserRows, HasEmail, Stored
<1>6. Registering(c)'
  BY <1>1, <1>2, <1>3, <1>4, <1>5 DEF tables, Registering, HasEmail, Stored
<1>7. LoggingIn(c)' /\ Serving(c)' /\ Idle(c)'
  BY <1>1, <1>3 DEF LoggingIn, Serving, Idle, Protected
<1> QED
  BY <1>1, <1>2, <1>3, <1>6, <1>7, QuietStep

LEMMA FindUserKeeps ==
  ASSUME AccountsInv, NEW c \in Calls, NEW s \in Spellings, FindUser(c, s)
  PROVE  AccountsInv'
<1> USE NoneAssumption DEF AccountsInv
<1>1. PICK new \in Call :
        /\ call' = [call EXCEPT ![c] = new]
        /\ new.op = "login" /\ new.email = s /\ new.shown = {}
        /\ \/ new.pc = "done" /\ new.answer \in {"401", "422"}
           \/ /\ new.pc = "admitted" /\ new.answer = "none"
              /\ new.user \in Calls /\ HasEmail(new.user, s)
  <2> DEFINE request == [NoCall EXCEPT !.op = "login", !.email = s]
  <2> DEFINE refused(a) == [request EXCEPT !.pc = "done", !.answer = a]
  <2>1. /\ request \in Call /\ request.op = "login" /\ request.email = s
        /\ request.answer = "none" /\ request.shown = {}
    BY DEF NoCall, Call, Entry
  <2>2. CASE \E a \in {"401", "422"} : call' = [call EXCEPT ![c] = refused(a)]
    <3>1. PICK a \in {"401", "422"} : call' = [call EXCEPT ![c] = refused(a)]
      BY <2>2
    <3>2. /\ refused(a) \in Call /\ refused(a).op = "login" /\ refused(a).email = s
          /\ refused(a).pc = "done" /\ refused(a).answer = a /\ refused(a).shown = {}
      <4> HIDE DEF request
      <4> QED
        BY <2>1 DEF Call
    <3> QED
      BY <3>1, <3>2
  <2>3. CASE \E u \in Calls :
               /\ HasEmail(u, s)
               /\ call' = [call EXCEPT ![c] = [request EXCEPT !.pc = "admitted", !.user = u]]
    <3>1. PICK u \in Calls :
            /\ HasEmail(u, s)
            /\ call' = [call EXCEPT ![c] = [request EXCEPT !.pc = "admitted", !.user = u]]
      BY <2>3
    <3> DEFINE found == [request EXCEPT !.pc = "admitted", !.user = u]
    <3>2. /\ found \in Call /\ found.op = "login" /\ found.email = s /\ found.pc = "admitted"
          /\ found.answer = "none" /\ found.user = u /\ found.shown = {}
      <4> HIDE DEF request
      <4> QED
        BY <2>1 DEF Call
    <3> QED
      BY <3>1, <3>2
  <2> QED
    BY <2>2, <2>3 DEF FindUser
<1>2. call[c].pc = "idle" /\ UNCHANGED tables
  BY DEF FindUser
<1>3. call' \in [Calls -> Call] /\ Others(c) /\ call'[c] = new
  BY <1>1, NewEffect
<1>4. sessions[c] = None
  BY <1>2 DEF Requests, Idle, SessionRows, Entry
<1>5. Registering(c)' /\ Serving(c)' /\ Idle(c)'
  BY <1>1, <1>3 DEF Registering, Serving, Idle, Protected
<1>6. LoggingIn(c)'
  BY <1>1, <1>2, <1>3, <1>4 DEF tables, LoggingIn, HasEmail, Stored
<1> QED
  BY <1>1, <1>2, <1>3, <1>5, <1>6, QuietStep

\* A request that finds its session neither revoked nor expired did not begin
\* after its end.
LEMMA ValidNotOut ==
  ASSUME AccountsInv, NEW t \in Tokens, Valid(t)
  PROVE  ~Out(t)
<1> USE NoneAssumption DEF AccountsInv
<1> SUFFICES ASSUME NEW d \in Calls, call[d].op = "logout", call[d].token = t,
                    call[d].answer = "ok"
             PROVE  FALSE
  BY DEF Out, Valid
<1>1. sessions[t].revoked
  BY DEF Requests, Serving, Protected
<1> QED
  BY <1>1 DEF Valid

LEMMA AdmitKeeps ==
  ASSUME AccountsInv, NEW c \in Calls, NEW op \in Protected, NEW t \in Calls \cup {None},
         NEW csrf \in BOOLEAN, NEW j \in Calls \cup {None}, Admit(c, op, t, csrf, j)
  PROVE  AccountsInv'
<1> USE NoneAssumption DEF AccountsInv
<1>1. t # None => sessions[t] # None /\ t \in Calls
  <2> SUFFICES ASSUME t # None
               PROVE  sessions[t] # None
    OBVIOUS
  <2>1. t \in Tokens
    BY DEF Admit
  <2>2. call[t].op \in Entry /\ call[t].answer = "ok" /\ t \in Calls
    BY <2>1 DEF Tokens
  <2> QED
    BY <2>2 DEF Requests, Registering, LoggingIn, Entry
<1>2. PICK new \in Call :
        /\ call' = [call EXCEPT ![c] = new]
        /\ new.op = op /\ new.token = t /\ new.late = Out(t) /\ new.shown = {}
        /\ \/ new.pc = "done" /\ new.answer = "403" /\ new.user = None
           \/ new.pc = "done" /\ new.answer = "401" /\ new.user = None /\ ~Valid(t)
           \/ /\ new.pc = "admitted" /\ new.answer = "none"
              /\ Valid(t) /\ new.user = sessions[t].user
  <2> DEFINE request == [NoCall EXCEPT !.op = op, !.token = t, !.csrf = csrf, !.job = j,
                                       !.late = Out(t)]
  <2> DEFINE refused(a) == [request EXCEPT !.pc = "done", !.answer = a]
  <2> DEFINE admitted == [request EXCEPT !.pc = "admitted", !.user = sessions[t].user]
  <2>1. /\ request \in Call /\ request.op = op /\ request.token = t /\ request.late = Out(t)
        /\ request.shown = {} /\ request.user = None /\ request.answer = "none"
    <3>1. Out(t) \in BOOLEAN
      BY DEF Out
    <3> QED
      BY <3>1 DEF NoCall, Call
  <2>2. call' = [call EXCEPT ![c] =
                   IF op = "create" /\ ~csrf THEN refused("403")
                   ELSE IF ~Valid(t) THEN refused("401")
                   ELSE IF op = "logout" /\ ~csrf THEN refused("403")
                   ELSE admitted]
    BY DEF Admit
  <2>3. \A a \in {"401", "403"} :
          /\ refused(a) \in Call /\ refused(a).op = op /\ refused(a).token = t
          /\ refused(a).late = Out(t) /\ refused(a).shown = {} /\ refused(a).user = None
          /\ refused(a).pc = "done" /\ refused(a).answer = a
    <3> HIDE DEF request
    <3> QED
      BY <2>1 DEF Call
  <2>4. Valid(t) =>
          /\ admitted \in Call /\ admitted.op = op /\ admitted.token = t
          /\ admitted.late = Out(t) /\ admitted.shown = {} /\ admitted.user = sessions[t].user
          /\ admitted.pc = "admitted" /\ admitted.answer = "none"
    <3> HIDE DEF request
    <3>1. Valid(t) => sessions[t].user \in Calls
      BY <1>1 DEF Valid, TypeOK, Session
    <3> QED
      BY <2>1, <3>1 DEF Call
  <2>5. CASE call' = [call EXCEPT ![c] = refused("403")]
    BY <2>3, <2>5
  <2>6. CASE call' = [call EXCEPT ![c] = refused("401")] /\ ~Valid(t)
    BY <2>3, <2>6
  <2>7. CASE call' = [call EXCEPT ![c] = admitted] /\ Valid(t)
    BY <2>4, <2>7
  <2> HIDE DEF refused, admitted
  <2> QED
    BY <2>2, <2>5, <2>6, <2>7
<1>3. call[c].pc = "idle" /\ UNCHANGED tables
  BY DEF Admit
<1>4. call' \in [Calls -> Call] /\ Others(c) /\ call'[c] = new
  BY <1>2, NewEffect
<1>5. Registering(c)' /\ LoggingIn(c)' /\ Idle(c)'
  BY <1>2, <1>4 DEF Registering, LoggingIn, Idle, Protected
<1>6. \A u \in Calls : LoggedOut(u) => LoggedOut(u)'
  BY <1>3, <1>4 DEF LoggedOut, Requests, Idle, Others
<1>7. new.answer = "401" /\ t # None => sessions[t].expired \/ LoggedOut(t)'
  <2> SUFFICES ASSUME t # None, ~Valid(t), sessions[t].revoked
               PROVE  LoggedOut(t)'
    BY <1>2 DEF Valid
  <2> QED
    BY <1>1, <1>6 DEF Revocations
<1>8. new.user # None => ~Out(t)
  <2> SUFFICES ASSUME new.user # None
               PROVE  ~Out(t)
    OBVIOUS
  <2>1. Valid(t) /\ t \in Tokens
    BY <1>2 DEF Admit, Valid
  <2> QED
    BY <2>1, ValidNotOut
<1>9. new.user # None => t # None /\ new.user = sessions[t].user
  BY <1>2 DEF Valid
<1>10. Serving(c)'
  <2>1. call'[c].shown = {}
    BY <1>2, <1>4
  <2>2. call'[c].user = None => call'[c].pc = "done" /\ call'[c].answer \in {"401", "403"}
    <3>1. Valid(t) => sessions[t].user # None
      BY <1>1 DEF Valid, TypeOK, Session
    <3> QED
      BY <1>2, <1>4, <3>1
  <2>3. sessions' = sessions
    BY <1>3 DEF tables
  <2> QED
    BY <1>1, <1>2, <1>4, <1>7, <1>8, <1>9, <2>1, <2>2, <2>3 DEF Serving
<1> QED
  BY <1>2, <1>3, <1>4, <1>5, <1>10, QuietStep

-----------------------------------------------------------------------------
\* A step of one request that inserts or changes rows.
LEMMA TableStep ==
  ASSUME AccountsInv, NEW c \in Calls, TypeOK', Others(c), Grows,
         \A d \in Calls : d # c =>
           users'[d] = users[d] /\ (sessions'[d] # None <=> sessions[d] # None),
         UserRows', Unique', SessionRows', Revocations', JobRows',
         Registering(c)', LoggingIn(c)', Serving(c)', Idle(c)'
  PROVE  AccountsInv'
<1>1. ASSUME NEW d \in Calls, d # c
      PROVE  Registering(d)' /\ LoggingIn(d)' /\ Serving(d)' /\ Idle(d)'
  BY <1>1, OtherKeeps DEF Others
<1> QED
  BY <1>1 DEF AccountsInv, Requests

LEMMA InsertUserKeeps ==
  ASSUME AccountsInv, NEW c \in Calls, InsertUser(c)
  PROVE  AccountsInv'
<1> USE NoneAssumption, NormalAssumption DEF AccountsInv
<1>1. /\ Registering(c) /\ Serving(c) /\ Idle(c)
      /\ call[c].op = "register" /\ call[c].pc = "admitted"
      /\ call[c] \in Call
  BY DEF InsertUser, Requests, TypeOK
<1>2. CASE \E u \in Calls : HasEmail(u, call[c].email)
  <2>1. Answer(c, "integrity") /\ UNCHANGED tables
    BY <1>2 DEF InsertUser, tables
  <2>2. /\ call' \in [Calls -> Call] /\ Others(c) /\ Same(c)
        /\ call'[c].pc = "done" /\ call'[c].answer = "integrity"
        /\ call'[c].shown = call[c].shown
    BY <2>1, AnswerEffect
  <2>3. Registering(c)' /\ LoggingIn(c)' /\ Serving(c)' /\ Idle(c)'
    BY <1>1, <2>1, <2>2
    DEF Same, tables, Registering, LoggingIn, Serving, Idle, Protected, HasEmail, Stored
  <2> QED
    BY <2>1, <2>2, <2>3, QuietStep
<1>3. CASE ~\E u \in Calls : HasEmail(u, call[c].email)
  <2> DEFINE email == Normal[call[c].email]
  <2>1. /\ users' = [users EXCEPT ![c] = email]
        /\ sessions' = [sessions EXCEPT ![c] = [user |-> c, revoked |-> FALSE, expired |-> FALSE]]
        /\ call' = [call EXCEPT ![c].pc = "reply"]
        /\ jobs' = jobs
    BY <1>3 DEF InsertUser, Stored, NewSession
  <2>2. email \in Spellings /\ Normal[email] = email /\ users[c] = None /\ sessions[c] = None
    BY <1>1 DEF Registering, Call
  <2>3. /\ call' \in [Calls -> Call] /\ Others(c) /\ Same(c)
        /\ call'[c].pc = "reply" /\ call'[c].answer = call[c].answer
        /\ call'[c].shown = call[c].shown
    BY <2>1, MoveEffect
  <2>4. /\ users' \in [Calls -> Spellings \cup {None}] /\ users'[c] = email
        /\ sessions' \in [Calls -> Session \cup {None}]
        /\ sessions'[c] = [user |-> c, revoked |-> FALSE, expired |-> FALSE]
        /\ \A d \in Calls : d # c => users'[d] = users[d] /\ sessions'[d] = sessions[d]
    BY <2>1, <2>2 DEF TypeOK, Session
  <2> HIDE DEF email
  <2>5. TypeOK'
    BY <2>1, <2>3, <2>4 DEF TypeOK
  <2>6. \A d \in Calls : /\ call'[d].op = call[d].op /\ call'[d].token = call[d].token
                         /\ call'[d].user = call[d].user /\ call'[d].email = call[d].email
                         /\ call[d].pc \in {"reply", "done"} => call'[d].pc \in {"reply", "done"}
    BY <2>3 DEF Others, Same
  <2>7. Grows
    BY <2>1, <2>2, <2>4, <2>6 DEF Grows, LoggedOut
  <2>8. email = Normal[call[c].email]
    BY DEF email
  <2>9. UserRows'
    BY <1>1, <2>2, <2>3, <2>4, <2>6, <2>8 DEF UserRows
  <2>10. Unique'
    <3>1. \A u \in Calls : users[u] # None => users[u] # email
      BY <1>3, <2>8 DEF HasEmail, Stored
    <3> QED
      BY <2>2, <2>4, <3>1 DEF Unique
  <2>11. SessionRows'
    <3>1. \A t \in Calls : sessions[t] # None => sessions[t].user # c
      BY <2>2 DEF SessionRows
    <3>2. \A t \in Calls : sessions[t] # None => sessions[t].user \in Calls
      BY DEF TypeOK, Session
    <3> QED
      BY <1>1, <2>2, <2>3, <2>4, <2>6, <2>8, <3>1, <3>2 DEF SessionRows, Entry
  <2>12. Revocations' /\ JobRows'
    <3>1. ~sessions'[c].revoked
      BY <2>4
    <3>2. \A t \in Calls : LoggedOut(t) => LoggedOut(t)'
      BY <2>7 DEF Grows
    <3>3. Revocations'
      BY <2>4, <3>1, <3>2 DEF Revocations
    <3>4. JobRows'
      BY <2>1, <2>6 DEF JobRows
    <3> QED
      BY <3>3, <3>4
  <2>13. Registering(c)'
    <3>1. sessions'[c] \in Session
      BY <2>4 DEF Session
    <3>2. sessions'[c] # None
      BY <3>1
    <3> QED
      BY <1>1, <2>2, <2>3, <2>4, <2>8, <3>2 DEF Registering, Same
  <2>14. LoggingIn(c)' /\ Serving(c)' /\ Idle(c)'
    BY <1>1, <2>3 DEF Same, LoggingIn, Serving, Idle, Protected
  <2> QED
    BY <2>4, <2>5, <2>7, <2>9, <2>10, <2>11, <2>12, <2>13, <2>14, <2>3, TableStep
<1> QED
  BY <1>2, <1>3

LEMMA OpenSessionKeeps ==
  ASSUME AccountsInv, NEW c \in Calls, OpenSession(c)
  PROVE  AccountsInv'
<1> USE NoneAssumption DEF AccountsInv
<1> DEFINE row == [user |-> call[c].user, revoked |-> FALSE, expired |-> FALSE]
<1>1. /\ LoggingIn(c) /\ Serving(c) /\ Idle(c)
      /\ call[c].op = "login" /\ call[c].pc = "admitted"
      /\ call[c] \in Call
  BY DEF OpenSession, Requests, TypeOK
<1>2. /\ sessions' = [sessions EXCEPT ![c] = row]
      /\ call' = [call EXCEPT ![c].pc = "reply"]
      /\ users' = users /\ jobs' = jobs
  BY DEF OpenSession, NewSession
<1>3. sessions[c] = None /\ call[c].user \in Calls /\ HasEmail(call[c].user, call[c].email)
  BY <1>1 DEF LoggingIn, Call
<1>4. /\ call' \in [Calls -> Call] /\ Others(c) /\ Same(c)
      /\ call'[c].pc = "reply" /\ call'[c].answer = call[c].answer
      /\ call'[c].shown = call[c].shown
  BY <1>2, MoveEffect
<1>5. /\ sessions' \in [Calls -> Session \cup {None}] /\ sessions'[c] = row
      /\ \A d \in Calls : d # c => sessions'[d] = sessions[d]
  BY <1>2, <1>3 DEF TypeOK, Session
<1>6. /\ row.user = call[c].user /\ ~row.revoked /\ row # None
  <2>1. row \in Session /\ row.user = call[c].user /\ ~row.revoked
    BY <1>3 DEF Session
  <2> HIDE DEF row
  <2> QED
    BY <2>1
<1> HIDE DEF row
<1>7. TypeOK'
  BY <1>2, <1>4, <1>5 DEF TypeOK
<1>8. \A d \in Calls : /\ call'[d].op = call[d].op /\ call'[d].token = call[d].token
                       /\ call'[d].user = call[d].user /\ call'[d].email = call[d].email
                       /\ call[d].pc \in {"reply", "done"} => call'[d].pc \in {"reply", "done"}
  BY <1>4 DEF Others, Same
<1>9. Grows
  BY <1>2, <1>3, <1>5, <1>8 DEF Grows, LoggedOut
<1>10. UserRows' /\ Unique'
  BY <1>2, <1>8 DEF UserRows, Unique
<1>11. SessionRows'
  BY <1>1, <1>2, <1>3, <1>4, <1>5, <1>6, <1>8 DEF SessionRows, Entry, HasEmail, Stored
<1>12. Revocations' /\ JobRows'
  BY <1>2, <1>5, <1>6, <1>8, <1>9 DEF Revocations, JobRows, Grows
<1>13. LoggingIn(c)'
  BY <1>1, <1>4, <1>5, <1>6 DEF LoggingIn, Same
<1>14. Registering(c)' /\ Serving(c)' /\ Idle(c)'
  BY <1>1, <1>4 DEF Same, Registering, Serving, Idle, Protected
<1> QED
  BY <1>2, <1>4, <1>5, <1>7, <1>9, <1>10, <1>11, <1>12, <1>13, <1>14, TableStep

LEMMA LogOutKeeps ==
  ASSUME AccountsInv, NEW c \in Calls, LogOut(c)
  PROVE  AccountsInv'
<1> USE NoneAssumption DEF AccountsInv
<1> DEFINE t == call[c].token
<1>1. /\ Serving(c) /\ Idle(c) /\ call[c].op = "logout" /\ call[c].pc = "admitted"
      /\ call[c] \in Call
  BY DEF LogOut, Requests, TypeOK
<1>2. /\ sessions' = [sessions EXCEPT ![t].revoked = TRUE]
      /\ call' = [call EXCEPT ![c].pc = "reply"]
      /\ users' = users /\ jobs' = jobs
  BY DEF LogOut
<1>3. t \in Calls /\ sessions[t] # None /\ call[c].user # None
  BY <1>1 DEF Serving, Call, Protected
<1>4. /\ call' \in [Calls -> Call] /\ Others(c) /\ Same(c)
      /\ call'[c].pc = "reply" /\ call'[c].answer = call[c].answer
      /\ call'[c].shown = call[c].shown
  BY <1>2, MoveEffect
<1>5. /\ sessions' \in [Calls -> Session \cup {None}]
      /\ sessions'[t] # None /\ sessions'[t].revoked
      /\ sessions'[t].user = sessions[t].user /\ sessions'[t].expired = sessions[t].expired
      /\ \A d \in Calls : d # t => sessions'[d] = sessions[d]
  <2>1. sessions[t] \in Session
    BY <1>3 DEF TypeOK
  <2> DEFINE row == [sessions[t] EXCEPT !.revoked = TRUE]
  <2>2. /\ row \in Session /\ row.revoked /\ row.user = sessions[t].user
        /\ row.expired = sessions[t].expired
    BY <2>1 DEF Session
  <2>3. sessions' = [sessions EXCEPT ![t] = row]
    BY <1>2
  <2>4. row # None
    BY <2>2
  <2> HIDE DEF row
  <2> QED
    BY <1>3, <2>2, <2>3, <2>4 DEF TypeOK
<1>6. \A d \in Calls : /\ call'[d].op = call[d].op /\ call'[d].token = call[d].token
                       /\ call'[d].user = call[d].user /\ call'[d].email = call[d].email
                       /\ call[d].pc \in {"reply", "done"} => call'[d].pc \in {"reply", "done"}
  BY <1>4 DEF Others, Same
<1>7. TypeOK'
  BY <1>2, <1>4, <1>5 DEF TypeOK
<1>8. Grows
  BY <1>2, <1>5, <1>6 DEF Grows, LoggedOut
<1>9. UserRows' /\ Unique'
  BY <1>2, <1>6 DEF UserRows, Unique
<1>10. SessionRows'
  BY <1>2, <1>3, <1>5, <1>6 DEF SessionRows
<1>11. LoggedOut(t)'
  BY <1>1, <1>3, <1>6 DEF LoggedOut
<1>12. Revocations' /\ JobRows'
  BY <1>2, <1>5, <1>6, <1>8, <1>11 DEF Revocations, JobRows, Grows
<1>13. Registering(c)' /\ LoggingIn(c)' /\ Idle(c)'
  BY <1>1, <1>4 DEF Same, Registering, LoggingIn, Idle
<1>14. Serving(c)'
  BY <1>1, <1>2, <1>3, <1>4, <1>5 DEF Same, Serving, OwnedBy, Protected
<1> QED
  BY <1>2, <1>3, <1>4, <1>5, <1>7, <1>8, <1>9, <1>10, <1>12, <1>13, <1>14, TableStep

LEMMA CreateJobKeeps ==
  ASSUME AccountsInv, NEW c \in Calls, CreateJob(c)
  PROVE  AccountsInv'
<1> USE NoneAssumption DEF AccountsInv
<1>1. /\ Serving(c) /\ Idle(c) /\ call[c].op = "create" /\ call[c].pc = "admitted"
      /\ call[c] \in Call
  BY DEF CreateJob, Requests, TypeOK
<1>2. /\ jobs' = [jobs EXCEPT ![c] = call[c].user]
      /\ call' = [call EXCEPT ![c].pc = "reply"]
      /\ users' = users /\ sessions' = sessions
  BY DEF CreateJob
<1>3. call[c].user \in Calls /\ jobs[c] = None
  BY <1>1 DEF Serving, Call, Protected, JobRows
<1>4. /\ call' \in [Calls -> Call] /\ Others(c) /\ Same(c)
      /\ call'[c].pc = "reply" /\ call'[c].answer = call[c].answer
      /\ call'[c].shown = call[c].shown
  BY <1>2, MoveEffect
<1>5. /\ jobs' \in [Calls -> Calls \cup {None}] /\ jobs'[c] = call[c].user
      /\ \A d \in Calls : d # c => jobs'[d] = jobs[d]
  BY <1>2, <1>3 DEF TypeOK
<1>6. \A d \in Calls : /\ call'[d].op = call[d].op /\ call'[d].token = call[d].token
                       /\ call'[d].user = call[d].user /\ call'[d].email = call[d].email
                       /\ call[d].pc \in {"reply", "done"} => call'[d].pc \in {"reply", "done"}
  BY <1>4 DEF Others, Same
<1>7. TypeOK'
  BY <1>2, <1>4, <1>5 DEF TypeOK
<1>8. Grows
  BY <1>2, <1>3, <1>5, <1>6 DEF Grows, LoggedOut
<1>9. UserRows' /\ Unique' /\ SessionRows'
  BY <1>2, <1>6 DEF UserRows, Unique, SessionRows
<1>10. Revocations' /\ JobRows'
  BY <1>1, <1>2, <1>4, <1>5, <1>6, <1>8 DEF Revocations, JobRows, Grows
<1>11. Registering(c)' /\ LoggingIn(c)' /\ Idle(c)'
  BY <1>1, <1>4 DEF Same, Registering, LoggingIn, Idle
<1>12. Serving(c)'
  BY <1>1, <1>2, <1>3, <1>4, <1>5, <1>8 DEF Same, Serving, OwnedBy, Protected, Grows
<1> QED
  BY <1>2, <1>4, <1>7, <1>8, <1>9, <1>10, <1>11, <1>12, TableStep

LEMMA ExpireKeeps ==
  ASSUME AccountsInv, NEW t \in Calls, Expire(t)
  PROVE  AccountsInv'
<1> USE NoneAssumption DEF AccountsInv
<1>1. /\ sessions' \in [Calls -> Session \cup {None}]
      /\ sessions'[t] # None /\ sessions'[t].expired
      /\ sessions'[t].user = sessions[t].user /\ sessions'[t].revoked = sessions[t].revoked
      /\ \A d \in Calls : d # t => sessions'[d] = sessions[d]
  <2>1. sessions[t] \in Session
    BY DEF Expire, TypeOK
  <2> DEFINE row == [sessions[t] EXCEPT !.expired = TRUE]
  <2>2. /\ row \in Session /\ row.expired /\ row.user = sessions[t].user
        /\ row.revoked = sessions[t].revoked
    BY <2>1 DEF Session
  <2>3. sessions' = [sessions EXCEPT ![t] = row]
    BY DEF Expire
  <2>4. row # None
    BY <2>2
  <2> HIDE DEF row
  <2> QED
    BY <2>2, <2>3, <2>4 DEF TypeOK
<1>2. sessions[t] # None /\ users' = users /\ jobs' = jobs /\ call' = call
  BY DEF Expire
<1>3. Grows
  BY <1>1, <1>2 DEF Grows, LoggedOut
<1>4. TypeOK'
  BY <1>1, <1>2 DEF TypeOK
<1>5. UserRows' /\ Unique' /\ SessionRows' /\ Revocations' /\ JobRows'
  BY <1>1, <1>2, <1>3 DEF UserRows, Unique, SessionRows, Revocations, JobRows, Grows
<1>6. ASSUME NEW d \in Calls
      PROVE  Registering(d)' /\ LoggingIn(d)' /\ Serving(d)' /\ Idle(d)'
  BY <1>1, <1>2, <1>3, OtherKeeps
<1> QED
  BY <1>4, <1>5, <1>6 DEF Requests

LEMMA StutterKeeps ==
  ASSUME AccountsInv, UNCHANGED vars
  PROVE  AccountsInv'
<1>1. Grows
  BY DEF vars, tables, Grows, LoggedOut
<1>2. TypeOK' /\ UserRows' /\ Unique' /\ SessionRows' /\ Revocations' /\ JobRows'
  BY <1>1 DEF AccountsInv, vars, tables, TypeOK, UserRows, Unique, SessionRows, Revocations,
     JobRows, Grows
<1>3. ASSUME NEW d \in Calls
      PROVE  Registering(d)' /\ LoggingIn(d)' /\ Serving(d)' /\ Idle(d)'
  BY <1>1, OtherKeeps DEF vars, tables
<1> QED
  BY <1>2, <1>3 DEF AccountsInv, Requests

LEMMA AccountsStep ==
  ASSUME AccountsInv, [Next]_vars
  PROVE  AccountsInv'
<1>1. CASE UNCHANGED vars
  BY <1>1, StutterKeeps
<1>2. ASSUME NEW c \in Calls, NEW s \in Spellings, BeginRegister(c, s) \/ FindUser(c, s)
      PROVE  AccountsInv'
  BY <1>2, BeginRegisterKeeps, FindUserKeeps
<1>3. ASSUME NEW c \in Calls, NEW op \in Protected, NEW t \in Calls \cup {None},
             NEW j \in Calls \cup {None}, NEW csrf \in BOOLEAN, Admit(c, op, t, csrf, j)
      PROVE  AccountsInv'
  BY <1>3, AdmitKeeps
<1>4. ASSUME NEW c \in Calls, FindAddress(c) \/ InsertUser(c) \/ OpenSession(c)
      PROVE  AccountsInv'
  BY <1>4, FindAddressKeeps, InsertUserKeeps, OpenSessionKeeps
<1>5. ASSUME NEW c \in Calls, LogOut(c) \/ CreateJob(c) \/ ListJobs(c) \/ GetJob(c)
      PROVE  AccountsInv'
  BY <1>5, LogOutKeeps, CreateJobKeeps, ListJobsKeeps, GetJobKeeps
<1>6. ASSUME NEW c \in Calls, Reply(c) \/ DatabaseFails(c) \/ Lose(c) \/ Expire(c)
      PROVE  AccountsInv'
  BY <1>6, ReplyKeeps, DatabaseFailsKeeps, LoseKeeps, ExpireKeeps
<1> QED
  BY <1>1, <1>2, <1>3, <1>4, <1>5, <1>6 DEF Next

-----------------------------------------------------------------------------
\* The rows and the requests are always as described: the inductive invariant.
THEOREM AccountsInvariant == Spec => []AccountsInv
<1>1. Init => AccountsInv
  BY AccountsInit
<1>2. AccountsInv /\ [Next]_vars => AccountsInv'
  BY AccountsStep
<1> QED
  BY <1>1, <1>2, PTL DEF Spec

\* However register calls overlap (auth.py:116-123), an address has one user.
THEOREM AddressesAreUnique == Spec => []OneUserPerAddress
<1>1. AccountsInv => OneUserPerAddress
  BY DEF AccountsInv, UserRows, Unique, OneUserPerAddress
<1> QED
  BY <1>1, AccountsInvariant, PTL

\* What register, login, logout and create_job answered is what is stored.
THEOREM AnswersAreStored == Spec => []AnsweredIsStored
<1>1. AccountsInv => AnsweredIsStored
  <2> SUFFICES ASSUME AccountsInv, NEW c \in Calls
               PROVE  LET end == call[c].answer
                      IN  /\ call[c].op = "register" =>
                               /\ users[c] # None <=> sessions[c] # None
                               /\ end \notin {"none", "lost"} => (end = "ok" <=> users[c] # None)
                          /\ call[c].op = "login" =>
                               (end \notin {"none", "lost"} => (end = "ok" <=> sessions[c] # None))
                          /\ call[c].op = "create" =>
                               (end \notin {"none", "lost", "error"} => (end = "ok" <=> jobs[c] # None))
                          /\ call[c].op = "logout" /\ end = "ok" => sessions[call[c].token].revoked
    BY DEF AnsweredIsStored
  <2>1. Registering(c) /\ LoggingIn(c) /\ Serving(c)
    BY DEF AccountsInv, Requests
  <2>2. ASSUME call[c].op = "create", call[c].answer \notin {"none", "lost", "error", "ok"}
        PROVE  jobs[c] = None
    <3>1. call[c].user = None
      BY <2>1, <2>2 DEF Serving, Protected
    <3> QED
      BY <3>1 DEF AccountsInv, JobRows
  <2>3. call[c].op = "create" /\ call[c].answer = "ok" => jobs[c] # None
    BY <2>1 DEF Serving, Protected
  <2>4. call[c].op = "logout" /\ call[c].answer = "ok" => sessions[call[c].token].revoked
    BY <2>1 DEF Serving, Protected
  <2> QED
    BY <2>1, <2>2, <2>3, <2>4 DEF Registering, LoggingIn
<1> QED
  BY <1>1, AccountsInvariant, PTL

\* Only overlapping registrations run into the unique index.
THEOREM TakenAddressesConflict == Spec => []TakenIsConflict
<1>1. AccountsInv => TakenIsConflict
  BY DEF AccountsInv, Requests, Registering, TakenIsConflict
<1> QED
  BY <1>1, AccountsInvariant, PTL

\* The commit of logout is seen by each get_current_user after its answer.
THEOREM LogoutIsFinal == Spec => []LoggedOutStaysOut
<1>1. AccountsInv => LoggedOutStaysOut
  <2> SUFFICES ASSUME AccountsInv, NEW c \in Calls, call[c].op \in Protected, call[c].late
               PROVE  /\ call[c].answer \notin {"ok", "404"}
                      /\ call[c].shown = {} /\ jobs[c] = None
    BY DEF LoggedOutStaysOut
  <2>1. /\ call[c].user = None /\ call[c].shown \subseteq OwnedBy(None)
        /\ call[c].pc = "done" /\ call[c].answer \in {"401", "403"}
    BY DEF AccountsInv, Requests, Serving
  <2>2. OwnedBy(None) = {}
    BY DEF OwnedBy
  <2>3. jobs[c] = None
    BY <2>1 DEF AccountsInv, JobRows
  <2> QED
    BY <2>1, <2>2, <2>3
<1> QED
  BY <1>1, AccountsInvariant, PTL

\* logout revokes the row of its own cookie, no other.
THEOREM SessionsEndAlone == Spec => []SessionsAreApart
<1>1. AccountsInv => SessionsAreApart
  BY DEF AccountsInv, Requests, Serving, LoggedOut, SessionsAreApart
<1> QED
  BY <1>1, AccountsInvariant, PTL

\* The filters on user_id in list_jobs, get_job and get_job_result.
THEOREM JobsStayWithTheirOwner == Spec => []OwnJobsOnly
<1>1. AccountsInv => OwnJobsOnly
  <2> SUFFICES ASSUME AccountsInv, NEW c \in Calls, NEW j \in call[c].shown
               PROVE  Normal[call[call[c].token].email] = Normal[call[call[j].token].email]
    BY DEF OwnJobsOnly
  <2> USE NoneAssumption DEF AccountsInv
  <2>1. call[c].op \in Protected /\ j \in OwnedBy(call[c].user)
    BY DEF Requests, Serving
  <2>2. /\ j \in Calls /\ call[j].op \in Protected /\ call[j].user = call[c].user
        /\ call[j].user # None
    BY <2>1 DEF OwnedBy, JobRows, Protected
  <2>3. ASSUME NEW d \in Calls, call[d].op \in Protected, call[d].user # None
        PROVE  Normal[call[call[d].token].email] = users[call[d].user]
    <3>1. /\ call[d].token \in Calls /\ sessions[call[d].token] # None
          /\ call[d].user = sessions[call[d].token].user
      BY <2>3 DEF Requests, Serving, TypeOK, Call
    <3> QED
      BY <3>1 DEF SessionRows
  <2> QED
    BY <2>1, <2>2, <2>3
<1> QED
  BY <1>1, AccountsInvariant, PTL
=============================================================================
