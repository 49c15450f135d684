--------------------------- MODULE EarthdataLogin ---------------------------
(***************************************************************************)
(* How the GOFF worker (scripts/sarguardian_worker.py) gets into           *)
(* Earthdata: login_earthdata_with_retry first asks whether the service    *)
(* can be reached at all, then submits the credentials, both with a bound  *)
(* on the attempts.  An error is known by the statuses and the words found *)
(* in the chain of its causes, from which classify_earthdata_error makes a *)
(* kind; log holds, for each attempt, the line it prints.                  *)
(***************************************************************************)
EXTENDS Integers, Sequences

CONSTANTS
  PreflightAttempts,   \* one more than EARTHDATA_PREFLIGHT_DELAYS (2, 5)
  LoginAttempts        \* one more than EARTHDATA_LOGIN_DELAYS (5, 15, 30)

ASSUME AttemptsAssumption ==
  PreflightAttempts \in Nat \ {0} /\ LoginAttempts \in Nat \ {0}

VARIABLES
  stage,     \* preflight, login, granted or denied
  attempt,   \* number of the current attempt in the stage
  log,       \* <<stage, answer>> of every attempt so far
  code,      \* the code of the EarthdataLoginError, if denied
  rejected   \* (an observer: the credentials have been rejected)

access == <<stage, attempt, log, code, rejected>>

Kinds == {"authentication", "timeout", "dns", "network", "unknown"}
Transient == {"timeout", "dns", "network"}

\* What can be told of an exception: HTTP statuses (denied: 401, 403; busy: 408,
\* 429, 5xx) and, by the words markers stand for, what its text says.
Errors == [statuses: SUBSET {"denied", "busy"},
           says: SUBSET {"authentication", "timeout", "dns", "network"}]

\* Credentials that are refused tell so by a status or in words.
Refusal(e) == "denied" \in e.statuses \/ "authentication" \in e.says

\* Variant: words about time come before everything else.
ClassifyTimeoutsFirst(e) ==
  IF "timeout" \in e.says THEN "timeout"
  ELSE IF Refusal(e) THEN "authentication"
  ELSE IF "dns" \in e.says THEN "dns"
  ELSE IF "network" \in e.says THEN "network"
  ELSE IF "busy" \in e.statuses THEN "timeout" ELSE "unknown"

\* classify_earthdata_error: the first that fits, in this order.
Classify(e) ==
  IF "denied" \in e.statuses \/ "authentication" \in e.says THEN "authentication"
  ELSE IF "timeout" \in e.says THEN "timeout"
  ELSE IF "dns" \in e.says THEN "dns"
  ELSE IF "network" \in e.says THEN "network"
  ELSE IF "busy" \in e.statuses THEN "timeout" ELSE "unknown"

Codes == {"none", "AUTH_FAILED", "SERVICE_TIMEOUT", "NETWORK_UNAVAILABLE", "LOGIN_FAILED"}

\* _earthdata_error_code.
ErrorCode(kind) ==
  CASE kind = "authentication" -> "AUTH_FAILED"
    [] kind = "timeout" -> "SERVICE_TIMEOUT"
    [] kind \in {"dns", "network"} -> "NETWORK_UNAVAILABLE"
    [] kind = "unknown" -> "LOGIN_FAILED"

AccessTypeOK ==
  /\ stage \in {"preflight", "login", "granted", "denied"}
  /\ attempt \in 1 .. PreflightAttempts \/ attempt \in 1 .. LoginAttempts
  /\ log \in Seq({"preflight", "login"} \X ({"reachable", "granted"} \cup Kinds))
  /\ code \in Codes
  /\ rejected \in BOOLEAN

AccessInit ==
  /\ stage = "preflight" /\ attempt = 1 /\ log = <<>>
  /\ code = "none" /\ rejected = FALSE

Note(answer) == log' = Append(log, <<stage, answer>>)

Deny(c) == stage' = "denied" /\ code' = c /\ UNCHANGED attempt

-----------------------------------------------------------------------------
\* The endpoint answers; an HTTP error is an answer as well.
Reachable ==
  /\ stage = "preflight"
  /\ Note("reachable")
  /\ stage' = "login" /\ attempt' = 1 /\ UNCHANGED <<code, rejected>>

\* A name that does not resolve is "dns" or "network"; a request that fails is
\* of any kind, also "authentication", when the text of the error says so. The
\* last attempt names the code.
Unreachable(kind) ==
  /\ stage = "preflight"
  /\ Note(kind)
  /\ IF attempt < PreflightAttempts THEN attempt' = attempt + 1 /\ UNCHANGED <<stage, code>>
     ELSE Deny(ErrorCode(kind))
  /\ UNCHANGED rejected

Granted ==
  /\ stage = "login"
  /\ Note("granted")
  /\ stage' = "granted" /\ UNCHANGED <<attempt, code, rejected>>

\* Credentials that are rejected (an exception; or no session, which is an
\* exception here that says so), or an error of unknown kind, end the login.
Rejected(e) ==
  /\ stage = "login" /\ Classify(e) \notin Transient
  /\ Note(Classify(e))
  /\ Deny(ErrorCode(Classify(e)))
  /\ rejected' = Refusal(e)

\* Variant: a login that runs out of attempts repeats the last code only.
TroubledLast(e) ==
  /\ stage = "login" /\ Classify(e) \in Transient
  /\ Note(Classify(e))
  /\ IF attempt < LoginAttempts THEN attempt' = attempt + 1 /\ UNCHANGED <<stage, code>>
     ELSE Deny("AUTH_FAILED")
  /\ rejected' = Refusal(e)

\* A timeout or a network error is retried; when the attempts run out it is a
\* service timeout, whatever the last error was.
Troubled(e) ==
  /\ stage = "login" /\ Classify(e) \in Transient
  /\ Note(Classify(e))
  /\ IF attempt < LoginAttempts THEN attempt' = attempt + 1 /\ UNCHANGED <<stage, code>>
     ELSE Deny("SERVICE_TIMEOUT")
  /\ rejected' = Refusal(e)

AccessStep ==
  \/ Reachable
  \/ Granted
  \/ \E e \in Errors : Unreachable(Classify(e)) \/ Rejected(e) \/ Troubled(e)

AccessSpec == AccessInit /\ [][AccessStep]_access

-----------------------------------------------------------------------------
Answers(s) == {log[i][2] : i \in {n \in DOMAIN log : log[n][1] = s}}

\* Rejected credentials are never submitted a second time, whatever else the
\* exception says (a 401 that speaks of a timeout, a rejection wrapped in a
\* connection error), and they are what the code names; nothing but a transient
\* error leads to another login.
RejectionIsFinal ==
  /\ rejected => stage = "denied" /\ code = "AUTH_FAILED"
  /\ \A i \in DOMAIN log : log[i][1] = "login" /\ i < Len(log) => log[i][2] \in Transient

\* What the code of a failed login says has happened: a rejection for
\* AUTH_FAILED (by a proxy, if no login was made), a whole series of transient
\* errors for the others.
CodeTellsWhy ==
  stage = "denied" =>
    LET last == log[Len(log)]
    IN  CASE code = "AUTH_FAILED" -> last[2] = "authentication"
          [] code = "LOGIN_FAILED" -> last[2] = "unknown"
          [] code = "NETWORK_UNAVAILABLE" ->
               Answers("login") = {} /\ Len(log) = PreflightAttempts
          [] code = "SERVICE_TIMEOUT" ->
               \/ last = <<"preflight", "timeout">> /\ Len(log) = PreflightAttempts
               \/ /\ Answers("login") \subseteq Transient
                  /\ \E i \in DOMAIN log :
                       log[i] = <<"preflight", "reachable">> /\ Len(log) = i + LoginAttempts
=============================================================================
