----------------------------- MODULE HttpClient -----------------------------
(***************************************************************************)
(* httpsRequest (httpclient.cpp): every thread keeps one connection alive  *)
(* to the host it last talked to; a request that fails on the way is sent  *)
(* once more when its caller calls it idempotent.  The host is a setting   *)
(* and may change between two requests; a connection may be closed by the  *)
(* server while it is idle, and a request may be carried out by a server   *)
(* whose answer is lost.                                                   *)
(***************************************************************************)
EXTENDS Integers, FiniteSets

CONSTANTS
    Hosts,          \* hosts the settings may name
    NoHost,         \* no connection
    MaxBody,        \* the caller's limit on the body, in chunks
    HttpRequests    \* bound: requests of a thread

ASSUME HttpAssumption == NoHost \notin Hosts /\ Hosts # {} /\ {MaxBody, HttpRequests} \subseteq Nat

VARIABLES
    t_conn,     \* the host of the thread's connection
    hcAt,       \* where the thread is
    hcReq,      \* the request: host, idempotent, attempts left
    hcDone,     \* history: who carried the request out, and how often
    hcBody,     \* chunks received of the answer's
    hcCount     \* requests so far

hcVars == <<t_conn, hcAt, hcReq, hcDone, hcBody, hcCount>>

HttpAsk == [host : Hosts, idempotent : BOOLEAN, left : 0..2]

hcTypeOK ==
    /\ t_conn \in Hosts \cup {NoHost}
    /\ hcAt \in {"idle", "connect", "send", "read", "failed"}
    /\ hcReq \in HttpAsk
    /\ hcDone \in [by : SUBSET Hosts, times : 0..2]
    /\ hcBody \in [got : 0..MaxBody, of : 0..MaxBody + 1]
    /\ hcCount \in 0..HttpRequests

hcInit ==
    /\ t_conn = NoHost /\ hcAt = "idle" /\ hcCount = 0
    /\ hcReq = [host |-> CHOOSE h \in Hosts : TRUE, idempotent |-> TRUE, left |-> 0]
    /\ hcDone = [by |-> {}, times |-> 0] /\ hcBody = [got |-> 0, of |-> 0]

\* A plausible slip: every request gets a second attempt.
AttemptsAlways(idempotent) == 2

Attempts(idempotent) == IF idempotent THEN 2 ELSE 1

\* httpsRequest begins.
httpsRequest(h, idempotent) ==
    /\ hcAt = "idle" /\ hcCount < HttpRequests /\ hcCount' = hcCount + 1
    /\ hcReq' = [host |-> h, idempotent |-> idempotent, left |-> Attempts(idempotent) - 1]
    /\ hcDone' = [by |-> {}, times |-> 0]
    /\ hcAt' = "connect"
    /\ UNCHANGED <<t_conn, hcBody>>

\* Connection::ensure: the connection to another host is dropped.
ensure(ok) ==
    IF t_conn = hcReq.host THEN ok /\ t_conn' = t_conn
    ELSE t_conn' = IF ok THEN hcReq.host ELSE NoHost

\* requestOnce: connection and request handle; a handle that cannot be had
\* drops the connection.
OpenRequest ==
    /\ hcAt = "connect"
    /\ \/ /\ \E ok \in BOOLEAN : ensure(ok)
          /\ hcAt' = IF t_conn' = NoHost THEN "failed" ELSE "send"
       \/ t_conn' = NoHost /\ hcAt' = "failed"
    /\ UNCHANGED <<hcReq, hcDone, hcBody, hcCount>>

\* Sent and answered, or not; the server may have carried it out in both cases.
SendRequest ==
    /\ hcAt = "send"
    /\ \E carried, answered \in BOOLEAN :
        /\ answered => carried
        /\ hcDone' = IF carried THEN [by |-> hcDone.by \cup {t_conn}, times |-> hcDone.times + 1] ELSE hcDone
        /\ IF answered THEN hcAt' = "read" /\ UNCHANGED t_conn
                       ELSE hcAt' = "failed" /\ t_conn' = NoHost
        /\ hcBody' \in [got : {0}, of : IF answered THEN 0..MaxBody + 1 ELSE {0}]
    /\ UNCHANGED <<hcReq, hcCount>>

\* The body is read up to the limit, or to the chunk that fails: the request
\* has its status either way and counts as answered.
ReadBody ==
    /\ hcAt = "read"
    /\ \/ /\ hcBody.got < hcBody.of /\ hcBody.got < MaxBody
          /\ hcBody' = [hcBody EXCEPT !.got = @ + 1] /\ UNCHANGED hcAt
       \/ hcAt' = "idle" /\ UNCHANGED hcBody
    /\ UNCHANGED <<t_conn, hcReq, hcDone, hcCount>>

\* An attempt failed.
RetryOrGiveUp ==
    /\ hcAt = "failed"
    /\ IF hcReq.left > 0 THEN hcAt' = "connect" /\ hcReq' = [hcReq EXCEPT !.left = @ - 1]
                         ELSE hcAt' = "idle" /\ UNCHANGED hcReq
    /\ UNCHANGED <<t_conn, hcDone, hcBody, hcCount>>

hcNext ==
    \/ \E h \in Hosts, i \in BOOLEAN : httpsRequest(h, i)
    \/ OpenRequest \/ SendRequest \/ ReadBody \/ RetryOrGiveUp

-----------------------------------------------------------------------------
\* A request that may not be repeated is carried out at most once, also when
\* its answer is lost, and the connection kept from before never takes it to
\* the host the settings named earlier (httpsRequest, Connection::ensure).
CarriedOutAsAsked ==
    /\ ~hcReq.idempotent => hcDone.times <= 1
    /\ hcDone.by \subseteq {hcReq.host}
=============================================================================
