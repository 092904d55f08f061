------------------------------ MODULE UrlQuery ------------------------------
(***************************************************************************)
(* The query for a session's stream URL: stream_url_query on the server's  *)
(* thread makes a query node and hands it to an HTTP request on the event  *)
(* loop of bll_http_base.c; that loop's thread connects, retries, talks to *)
(* the server and calls back with the answer.                              *)
(*                                                                         *)
(* The caller goes on using the node after it has made the request, while  *)
(* the HTTP thread frees it with the answer: touched collects the queries  *)
(* where the caller came second.  Callbacks of the HTTP thread are single  *)
(* steps, since one thread runs them all.  What the network does is a free *)
(* choice in every state of the connection.  attempts is a history         *)
(* variable.                                                               *)
(***************************************************************************)
EXTENDS Integers

CONSTANTS
  Queries,
  RetryMax,        (* evcon->retry_max: the retry of tima_http_post, 3       *)
  MaxContinues     (* bound: 100 Continue answers to one request             *)

(* tima_http_handle asks for one retry at least.                           *)
ASSUME BoundAssumption == RetryMax \in Nat \ {0} /\ MaxContinues \in Nat

VARIABLES
  hbase,           (* ctx->hbase is set: the loop of bll_hbase_thread runs   *)
  caller,          (* where stream_url_query is                              *)
  node,            (* the query node and its PrivInfo                        *)
  request,         (* tima_http_t with its HttpClient                        *)
  evcon,           (* evcon->state, and "retrying" while retry_ev is armed   *)
  retry_cnt,       (* evcon->retry_cnt                                       *)
  code,            (* req->response_code, by what it leads to                *)
  body,            (* how the end of the body is told                        *)
  continues,       (* 100 Continue answers so far                            *)
  outcome,         (* what has become of the query                           *)
  calls,           (* calls of pfncb                                         *)
  reply,           (* the reply parsed, for an answer with code 200          *)
  attempts,        (* history: connections tried                             *)
  touched          (* queries whose node was used after it was freed         *)

exchangeVars == <<code, body, continues>>
conVars == <<evcon, retry_cnt, exchangeVars>>
answerVars == <<node, request, outcome, calls, reply>>
vars == <<hbase, caller, node, request, evcon, retry_cnt, code, body, continues,
          outcome, calls, reply, attempts, touched>>

Exchanging == {"writing", "firstline", "headers", "body", "trailer"}
Active == Exchanging \cup {"connecting", "retrying"}

(* A reply's JSON: whether playAddress is usable, and what its property    *)
(* field is: absent, no string, not JSON or without one of the two types,  *)
(* or a pair of types whose video type is 98 or another.                   *)
Replies == [address: BOOLEAN, property: {"absent", "nostring", "broken", "h264", "other"}]
NoReply == [address |-> FALSE, property |-> "absent"]

TypeOK ==
  /\ hbase \in BOOLEAN
  /\ caller \in [Queries -> {"idle", "posting", "posted", "left"}]
  /\ node \in [Queries -> {"none", "live", "freed"}]
  /\ request \in [Queries -> {"none", "live", "freed"}]
  /\ evcon \in [Queries -> Active \cup {"none", "freed"}]
  /\ retry_cnt \in [Queries -> 0..RetryMax]
  /\ code \in [Queries -> {"none", "continue", "ok", "empty", "error"}]
  /\ body \in [Queries -> {"none", "length", "chunked", "close"}]
  /\ continues \in [Queries -> 0..MaxContinues]
  /\ outcome \in [Queries -> {"none", "pending", "lost", "ok", "failed"}]
  /\ calls \in [Queries -> 0..1]
  /\ reply \in [Queries -> Replies]
  /\ attempts \in [Queries -> Nat]
  /\ touched \subseteq Queries

Init ==
  /\ hbase = FALSE
  /\ caller = [q \in Queries |-> "idle"]
  /\ node = [q \in Queries |-> "none"]
  /\ request = [q \in Queries |-> "none"]
  /\ evcon = [q \in Queries |-> "none"]
  /\ retry_cnt = [q \in Queries |-> 0]
  /\ code = [q \in Queries |-> "none"]
  /\ body = [q \in Queries |-> "none"]
  /\ continues = [q \in Queries |-> 0]
  /\ outcome = [q \in Queries |-> "none"]
  /\ calls = [q \in Queries |-> 0]
  /\ reply = [q \in Queries |-> NoReply]
  /\ attempts = [q \in Queries |-> 0]
  /\ touched = {}

-----------------------------------------------------------------------------
(* bll_hbase_thread; its loop has a persistent timer and never ends.       *)
HbaseStarts ==
  /\ ~hbase /\ hbase' = TRUE
  /\ UNCHANGED <<caller, conVars, answerVars, attempts, touched>>

(* stream_url_query up to tima_http_post.                                  *)
Query(q) ==
  /\ caller[q] = "idle"
  /\ caller' = [caller EXCEPT ![q] = "posting"]
  /\ node' = [node EXCEPT ![q] = "live"]
  /\ UNCHANGED <<hbase, request, conVars, outcome, calls, reply,
                 attempts, touched>>

(* tima_http_post without an event loop or without memory.  The caller     *)
(* does not look at the result, and nobody calls back.                     *)
PostFails(q) ==
  /\ caller[q] = "posting"
  /\ caller' = [caller EXCEPT ![q] = "posted"]
  /\ outcome' = [outcome EXCEPT ![q] = "lost"]
  /\ UNCHANGED <<hbase, node, request, conVars, calls, reply,
                 attempts, touched>>

(* The error path of tima_http_handle frees the connection if it was made; *)
(* the request stays behind.                                               *)
HandleFails(q) ==
  /\ caller[q] = "posting" /\ hbase
  /\ caller' = [caller EXCEPT ![q] = "posted"]
  /\ request' = [request EXCEPT ![q] = "live"]
  /\ \E c \in {"none", "freed"} : evcon' = [evcon EXCEPT ![q] = c]
  /\ outcome' = [outcome EXCEPT ![q] = "lost"]
  /\ UNCHANGED <<hbase, node, retry_cnt, exchangeVars, calls, reply, attempts, touched>>

(* evhttp_make_request connects at once, on the caller's thread.           *)
MakeRequest(q) ==
  /\ caller[q] = "posting" /\ hbase
  /\ caller' = [caller EXCEPT ![q] = "posted"]
  /\ request' = [request EXCEPT ![q] = "live"]
  /\ evcon' = [evcon EXCEPT ![q] = "connecting"]
  /\ attempts' = [attempts EXCEPT ![q] = 1]
  /\ outcome' = [outcome EXCEPT ![q] = "pending"]
  /\ UNCHANGED <<hbase, node, retry_cnt, exchangeVars, calls, reply, touched>>

(* The socket cannot even start to connect: evhttp_connection_cb_cleanup   *)
(* on the caller's thread, where retry_cnt is 0.                           *)
MakeRequestRefused(q) ==
  /\ caller[q] = "posting" /\ hbase
  /\ caller' = [caller EXCEPT ![q] = "posted"]
  /\ request' = [request EXCEPT ![q] = "live"]
  /\ evcon' = [evcon EXCEPT ![q] = "retrying"]
  /\ retry_cnt' = [retry_cnt EXCEPT ![q] = 1]
  /\ attempts' = [attempts EXCEPT ![q] = 1]
  /\ outcome' = [outcome EXCEPT ![q] = "pending"]
  /\ UNCHANGED <<hbase, node, exchangeVars, calls, reply, touched>>

(* tima_get_property_json_free reads p->private whatever has happened.     *)
FreePostData(q) ==
  /\ caller[q] = "posted"
  /\ caller' = [caller EXCEPT ![q] = "left"]
  /\ touched' = IF node[q] = "freed" THEN touched \cup {q} ELSE touched
  /\ UNCHANGED <<hbase, conVars, answerVars, attempts>>

-----------------------------------------------------------------------------
(* tima_get_property_json_parse with tima_json_property_parse.  A property *)
(* that is no string parses and leaves video_type 0.                       *)
JsonParse(r) == r.address /\ r.property \in {"nostring", "h264", "other"}
VideoType98(r) == r.address /\ r.property = "h264"

(* tima_get_property_callback, for status 200.                             *)
Usable(r) == JsonParse(r) /\ VideoType98(r)

(* evhttp_connection_free, with the evhttp_request and what was read.      *)
FreeConnection(q) ==
  /\ evcon' = [evcon EXCEPT ![q] = "freed"]
  /\ retry_cnt' = [retry_cnt EXCEPT ![q] = 0]
  /\ code' = [code EXCEPT ![q] = "none"]
  /\ body' = [body EXCEPT ![q] = "none"]
  /\ continues' = [continues EXCEPT ![q] = 0]

(* Mutant of Callback: the node's owner is left to delete it.              *)
CallbackKeepsNode(q, r) ==
  /\ calls' = [calls EXCEPT ![q] = @ + 1]
  /\ outcome' = [outcome EXCEPT ![q] = IF Usable(r) THEN "ok" ELSE "failed"]
  /\ reply' = [reply EXCEPT ![q] = r]
  /\ request' = [request EXCEPT ![q] = "freed"]
  /\ FreeConnection(q)
  /\ UNCHANGED node

(* http_request_done: feed the callback, which deletes the node, then      *)
(* http_request_free.  A failure has no reply.                             *)
Callback(q, r) ==
  /\ calls' = [calls EXCEPT ![q] = @ + 1]
  /\ outcome' = [outcome EXCEPT ![q] = IF Usable(r) THEN "ok" ELSE "failed"]
  /\ reply' = [reply EXCEPT ![q] = r]
  /\ node' = [node EXCEPT ![q] = "freed"]
  /\ request' = [request EXCEPT ![q] = "freed"]
  /\ FreeConnection(q)

(* evhttp_connection_fail_: the callback with no request.                  *)
Fail(q) == Callback(q, NoReply)

(* evhttp_connection_done.                                                 *)
Done(q) ==
  \E r \in Replies : (code[q] # "ok" => r = NoReply) /\ Callback(q, r)

(* Mutant of Cleanup: the callbacks run although the retry is armed.       *)
CleanupFallsThrough(q) ==
  /\ calls' = [calls EXCEPT ![q] = @ + 1]
  /\ outcome' = [outcome EXCEPT ![q] = "failed"]
  /\ \/ /\ retry_cnt[q] < RetryMax
        /\ evcon' = [evcon EXCEPT ![q] = "retrying"]
        /\ retry_cnt' = [retry_cnt EXCEPT ![q] = @ + 1]
        /\ UNCHANGED <<node, request, reply, exchangeVars>>
     \/ /\ retry_cnt[q] >= RetryMax
        /\ Fail(q)

(* Mutant of Cleanup: the retry timer is not armed.                        *)
CleanupUnarmed(q) ==
  \/ /\ retry_cnt[q] < RetryMax
     /\ evcon' = [evcon EXCEPT ![q] = "none"]
     /\ retry_cnt' = [retry_cnt EXCEPT ![q] = @ + 1]
     /\ UNCHANGED <<exchangeVars, answerVars>>
  \/ /\ retry_cnt[q] >= RetryMax
     /\ Fail(q)

(* evhttp_connection_cb_cleanup: arm the retry timer, or answer with code  *)
(* 0 when the retries are used up.                                         *)
Cleanup(q) ==
  \/ /\ retry_cnt[q] < RetryMax
     /\ evcon' = [evcon EXCEPT ![q] = "retrying"]
     /\ retry_cnt' = [retry_cnt EXCEPT ![q] = @ + 1]
     /\ UNCHANGED <<exchangeVars, answerVars>>
  \/ /\ retry_cnt[q] >= RetryMax
     /\ Fail(q)

-----------------------------------------------------------------------------
(* Callbacks of the HTTP thread.                                           *)

(* evhttp_connection_cb: connected; the request is dispatched.             *)
Connected(q) ==
  /\ evcon[q] = "connecting"
  /\ evcon' = [evcon EXCEPT ![q] = "writing"]
  /\ retry_cnt' = [retry_cnt EXCEPT ![q] = 0]
  /\ UNCHANGED <<hbase, caller, exchangeVars, answerVars, attempts, touched>>

(* Refused, or timed out after 21 seconds: evhttp_connection_cb_cleanup.   *)
ConnectRefused(q) ==
  /\ evcon[q] = "connecting"
  /\ Cleanup(q)
  /\ UNCHANGED <<hbase, caller, attempts, touched>>

(* Any other error while connecting is not retried: evhttp_error_cb falls  *)
(* through to evhttp_connection_fail_.                                     *)
ConnectError(q) ==
  /\ evcon[q] = "connecting"
  /\ Fail(q)
  /\ UNCHANGED <<hbase, caller, attempts, touched>>

(* evhttp_connection_retry.                                                *)
Retry(q) ==
  /\ evcon[q] = "retrying"
  /\ evcon' = [evcon EXCEPT ![q] = "connecting"]
  /\ attempts' = [attempts EXCEPT ![q] = @ + 1]
  /\ UNCHANGED <<hbase, caller, retry_cnt, exchangeVars, answerVars, touched>>

(* ... whose bufferevent_socket_connect_hostname fails at once.            *)
RetryRefused(q) ==
  /\ evcon[q] = "retrying"
  /\ Cleanup(q)
  /\ attempts' = [attempts EXCEPT ![q] = @ + 1]
  /\ UNCHANGED <<hbase, caller, touched>>

(* evhttp_write_connectioncb once the output is empty.                     *)
Written(q) ==
  /\ evcon[q] = "writing"
  /\ evcon' = [evcon EXCEPT ![q] = "firstline"]
  /\ UNCHANGED <<hbase, caller, retry_cnt, exchangeVars, answerVars, attempts, touched>>

(* evhttp_read_firstline.                                                  *)
ReadFirstline(q) ==
  /\ evcon[q] = "firstline"
  /\ \E c \in {"continue", "ok", "empty", "error"} :
       /\ c = "continue" => continues[q] < MaxContinues
       /\ continues' = [continues EXCEPT ![q] = IF c = "continue" THEN @ + 1 ELSE @]
       /\ code' = [code EXCEPT ![q] = c]
  /\ evcon' = [evcon EXCEPT ![q] = "headers"]
  /\ UNCHANGED <<hbase, caller, retry_cnt, body, answerVars, attempts, touched>>

(* evhttp_read_header after 100 Continue: evhttp_start_write_, with an     *)
(* output that is empty, so that the answer is read again.                 *)
ReadContinue(q) ==
  /\ evcon[q] = "headers" /\ code[q] = "continue"
  /\ evcon' = [evcon EXCEPT ![q] = "writing"]
  /\ UNCHANGED <<hbase, caller, retry_cnt, exchangeVars, answerVars, attempts, touched>>

(* evhttp_read_header for a code without a body.                           *)
ReadNoBody(q) ==
  /\ evcon[q] = "headers" /\ code[q] = "empty"
  /\ Done(q)
  /\ UNCHANGED <<hbase, caller, attempts, touched>>

(* evhttp_read_header, evhttp_get_body: how the body will end.             *)
ReadHeader(q) ==
  /\ evcon[q] = "headers" /\ code[q] \in {"ok", "error"}
  /\ \E b \in {"length", "chunked", "close"} : body' = [body EXCEPT ![q] = b]
  /\ evcon' = [evcon EXCEPT ![q] = "body"]
  /\ UNCHANGED <<hbase, caller, retry_cnt, code, continues, answerVars, attempts, touched>>

(* evhttp_read_body: Content-Length bytes have come.                       *)
ReadBody(q) ==
  /\ evcon[q] = "body" /\ body[q] = "length"
  /\ Done(q)
  /\ UNCHANGED <<hbase, caller, attempts, touched>>

(* evhttp_read_body: the last chunk has come.                              *)
ReadLastChunk(q) ==
  /\ evcon[q] = "body" /\ body[q] = "chunked"
  /\ evcon' = [evcon EXCEPT ![q] = "trailer"]
  /\ UNCHANGED <<hbase, caller, retry_cnt, exchangeVars, answerVars, attempts, touched>>

(* evhttp_read_trailer.                                                    *)
ReadTrailer(q) ==
  /\ evcon[q] = "trailer"
  /\ Done(q)
  /\ UNCHANGED <<hbase, caller, attempts, touched>>

(* evhttp_error_cb: the end of the connection ends a body of unknown       *)
(* length.                                                                 *)
ReadToClose(q) ==
  /\ evcon[q] = "body" /\ body[q] = "close"
  /\ Done(q)
  /\ UNCHANGED <<hbase, caller, attempts, touched>>

(* evhttp_error_cb for a timeout, the end of the connection or an error,   *)
(* and the readers' own failures on a malformed answer.                    *)
ExchangeFails(q) ==
  /\ evcon[q] \in Exchanging
  /\ Fail(q)
  /\ UNCHANGED <<hbase, caller, attempts, touched>>

-----------------------------------------------------------------------------
CallerStep(q) ==
  Query(q) \/ PostFails(q) \/ HandleFails(q) \/ MakeRequest(q) \/ MakeRequestRefused(q)
  \/ FreePostData(q)

HttpStep(q) ==
  Connected(q) \/ ConnectRefused(q) \/ ConnectError(q) \/ Retry(q) \/ RetryRefused(q)
  \/ Written(q) \/ ReadFirstline(q) \/ ReadContinue(q) \/ ReadNoBody(q) \/ ReadHeader(q)
  \/ ReadBody(q) \/ ReadLastChunk(q) \/ ReadTrailer(q) \/ ReadToClose(q) \/ ExchangeFails(q)

Next == HbaseStarts \/ \E q \in Queries : CallerStep(q) \/ HttpStep(q)

Spec == Init /\ [][Next]_vars

-----------------------------------------------------------------------------
(* The node, the request and the connection live exactly as long as the    *)
(* query is pending, and the callback has run exactly when it is answered; *)
(* a lost query keeps its node for good and no connection works for it.    *)
(* This is about every path to http_request_done and about the error path  *)
(* of tima_http_handle.                                                    *)
FreedWithAnswer ==
  \A q \in Queries :
    /\ outcome[q] \in {"ok", "failed"} =>
         calls[q] = 1 /\ node[q] = "freed" /\ request[q] = "freed" /\ evcon[q] = "freed"
    /\ outcome[q] = "pending" =>
         calls[q] = 0 /\ node[q] = "live" /\ request[q] = "live" /\ evcon[q] \in Active
    /\ outcome[q] \in {"none", "lost"} =>
         calls[q] = 0 /\ node[q] # "freed" /\ evcon[q] \notin Active

(* tima_get_property_start can use its node after it is freed only when    *)
(* the HTTP thread answered between evhttp_make_request and                *)
(* tima_get_property_json_free: never for a query that was dropped or is   *)
(* still pending.                                                          *)
TouchedOnlyAnswered ==
  \A q \in touched : outcome[q] \in {"ok", "failed"} /\ caller[q] = "left"

(* So a query's node is freed once, with its answer, and used no longer    *)
(* but for that one race.                                                  *)
NodeLifetime == FreedWithAnswer /\ TouchedOnlyAnswered

(* evhttp_connection_cb_cleanup counts right: the connection is tried at   *)
(* most RetryMax + 1 times, and a query is given up while connecting only  *)
(* after all of them or after an error that is not retried.                *)
AttemptsBounded ==
  \A q \in Queries :
    /\ attempts[q] <= RetryMax + 1
    /\ evcon[q] = "retrying" => attempts[q] = retry_cnt[q]
    /\ evcon[q] = "connecting" => attempts[q] = retry_cnt[q] + 1

(* url_query_callback gets NODE_SUCCESS only for a reply with an address   *)
(* and H.264 video, whichever part of the JSON is missing or malformed.    *)
SuccessIsH264 ==
  \A q \in Queries :
    outcome[q] = "ok" => reply[q].address /\ reply[q].property = "h264"

(* tima_get_property and what it rests on implement the query service      *)
(* whose values StreamSession's query takes.                               *)
Service == INSTANCE QueryService
ServiceSpec == Service!Spec
=============================================================================
