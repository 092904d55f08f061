------------------------- MODULE StreamStartProofs -------------------------
(***************************************************************************)
(* The URL query's invariants and its refinement of QueryService, and that *)
(* only an answered query for H.264 opens a socket, for any sessions and   *)
(* any number of retries.  The query's invariant adds to the checked ones  *)
(* what the caller's position says about a query (CallerAgrees).           *)
(***************************************************************************)
EXTENDS StreamStart, TLAPS

(* Before the request is made there is nothing but the node, and after     *)
(* that the query has an outcome.                                          *)
CallerAgrees ==
  \A q \in Queries :
    /\ caller[q] \in {"idle", "posting"} =>
         outcome[q] = "none" /\ evcon[q] = "none" /\ retry_cnt[q] = 0
    /\ caller[q] = "posting" => node[q] = "live"
    /\ caller[q] \in {"posted", "left"} => outcome[q] # "none"

IInv ==
  /\ TypeOK /\ FreedWithAnswer /\ CallerAgrees
  /\ AttemptsBounded /\ TouchedOnlyAnswered /\ SuccessIsH264

(* A request that failed has a reply, too.                                 *)
LEMMA NoReplyReply == NoReply \in Replies
  BY DEF NoReply, Replies

(* Before the first query there are no nodes.                              *)
LEMMA InitIInv == Init => IInv
  <1> SUFFICES ASSUME Init PROVE IInv
    OBVIOUS
  <1> USE BoundAssumption
  <1>1. TypeOK
    <2>1. reply \in [Queries -> Replies] BY NoReplyReply DEF Init
    <2>2. retry_cnt \in [Queries -> 0..RetryMax] /\ continues \in [Queries -> 0..MaxContinues]
      BY DEF Init
    <2>3. touched \subseteq Queries /\ attempts \in [Queries -> Nat] /\ calls \in [Queries -> 0..1]
      BY DEF Init
    <2>6. hbase \in BOOLEAN BY DEF Init
    <2>4. /\ caller \in [Queries -> {"idle", "posting", "posted", "left"}]
          /\ node \in [Queries -> {"none", "live", "freed"}]
          /\ request \in [Queries -> {"none", "live", "freed"}]
          /\ evcon \in [Queries -> Active \cup {"none", "freed"}]
      BY DEF Init
    <2>5. /\ code \in [Queries -> {"none", "continue", "ok", "empty", "error"}]
          /\ body \in [Queries -> {"none", "length", "chunked", "close"}]
          /\ outcome \in [Queries -> {"none", "pending", "lost", "ok", "failed"}]
      BY DEF Init
    <2> QED BY <2>1, <2>2, <2>3, <2>4, <2>5, <2>6 DEF TypeOK
  <1>2. FreedWithAnswer /\ CallerAgrees
    BY DEF Init, FreedWithAnswer, CallerAgrees, Active, Exchanging
  <1>3. AttemptsBounded /\ TouchedOnlyAnswered /\ SuccessIsH264
    BY DEF Init, AttemptsBounded, TouchedOnlyAnswered, SuccessIsH264
  <1> QED BY <1>1, <1>2, <1>3 DEF IInv

(* Only a pending query has a connection at work.                          *)
LEMMA ActivePending ==
  ASSUME IInv, NEW q \in Queries, evcon[q] \in Active
  PROVE  /\ outcome[q] = "pending" /\ calls[q] = 0
         /\ caller[q] \in {"posted", "left"} /\ q \notin touched
  BY DEF IInv, TypeOK, FreedWithAnswer, CallerAgrees, TouchedOnlyAnswered, Active, Exchanging

(* A usable reply is one for H.264.                                        *)
LEMMA UsableH264 ==
  ASSUME NEW r \in Replies, Usable(r)
  PROVE  r.address /\ r.property = "h264"
  BY DEF Usable, JsonParse, VideoType98

(* The callback, from whatever step of the HTTP thread: it frees all there *)
(* is and gives the outcome.  att is attempts after the step.              *)
LEMMA CallbackKeeps ==
  ASSUME IInv, NEW q \in Queries, NEW r \in Replies, evcon[q] \in Active,
         Callback(q, r), UNCHANGED <<hbase, caller, touched>>,
         attempts' \in [Queries -> Nat],
         \A p \in Queries : p # q => attempts'[p] = attempts[p],
         attempts'[q] <= RetryMax + 1
  PROVE  IInv'
  <1> USE BoundAssumption
  <1>1. outcome[q] = "pending" /\ calls[q] = 0
        /\ caller[q] \in {"posted", "left"} /\ q \notin touched
    BY ActivePending
  <1>2. TypeOK'
    <2>1. /\ retry_cnt' \in [Queries -> 0..RetryMax]
          /\ continues' \in [Queries -> 0..MaxContinues]
          /\ calls' \in [Queries -> 0..1]
      BY <1>1 DEF IInv, TypeOK, Callback, FreeConnection
    <2>2. reply' \in [Queries -> Replies]
      BY DEF IInv, TypeOK, Callback
    <2>3. outcome' \in [Queries -> {"none", "pending", "lost", "ok", "failed"}]
      BY DEF IInv, TypeOK, Callback
    <2> QED BY <2>1, <2>2, <2>3 DEF IInv, TypeOK, Callback, FreeConnection
  <1>3. FreedWithAnswer'
    BY <1>1 DEF IInv, TypeOK, FreedWithAnswer, Callback, FreeConnection
  <1>4. CallerAgrees'
    BY <1>1 DEF IInv, TypeOK, CallerAgrees, Callback, FreeConnection
  <1>5. AttemptsBounded'
    BY <1>1 DEF IInv, TypeOK, AttemptsBounded, Callback, FreeConnection
  <1>6. TouchedOnlyAnswered'
    BY <1>1 DEF IInv, TypeOK, TouchedOnlyAnswered, Callback
  <1>7. SuccessIsH264'
    BY <1>1, UsableH264 DEF IInv, TypeOK, SuccessIsH264, Callback
  <1> QED BY <1>2, <1>3, <1>4, <1>5, <1>6, <1>7 DEF IInv

(* evhttp_connection_done answers the query and frees what it held.        *)
LEMMA DoneKeeps ==
  ASSUME IInv, NEW q \in Queries, evcon[q] \in Active,
         Done(q), UNCHANGED <<hbase, caller, touched, attempts>>
  PROVE  IInv'
  <1>1. PICK r \in Replies : Callback(q, r)
    BY DEF Done
  <1>2. attempts \in [Queries -> Nat] /\ attempts[q] <= RetryMax + 1
    BY DEF IInv, TypeOK, AttemptsBounded
  <1> QED BY <1>1, <1>2, CallbackKeeps

(* evhttp_connection_fail_ answers the query without a request.            *)
LEMMA FailKeeps ==
  ASSUME IInv, NEW q \in Queries, evcon[q] \in Active,
         Fail(q), UNCHANGED <<hbase, caller, touched, attempts>>
  PROVE  IInv'
  <1>1. attempts \in [Queries -> Nat] /\ attempts[q] <= RetryMax + 1
    BY DEF IInv, TypeOK, AttemptsBounded
  <1> QED BY <1>1, CallbackKeeps, NoReplyReply DEF Fail

(* A failed connection, tried att times before: the retry is armed, or the *)
(* query is given up.                                                      *)
LEMMA CleanupKeeps ==
  ASSUME IInv, NEW q \in Queries, evcon[q] \in {"connecting", "retrying"},
         Cleanup(q), UNCHANGED <<hbase, caller, touched>>,
         attempts' = IF evcon[q] = "retrying"
                     THEN [attempts EXCEPT ![q] = @ + 1] ELSE attempts
  PROVE  IInv'
  <1> USE BoundAssumption
  <1>1. evcon[q] \in Active
    BY DEF Active
  <1>2. /\ attempts \in [Queries -> Nat] /\ retry_cnt \in [Queries -> 0..RetryMax]
        /\ attempts'[q] = retry_cnt[q] + 1
        /\ attempts' \in [Queries -> Nat]
        /\ \A p \in Queries : p # q => attempts'[p] = attempts[p]
    BY DEF IInv, TypeOK, AttemptsBounded
  <1>3. CASE retry_cnt[q] >= RetryMax /\ Fail(q)
    BY <1>1, <1>2, <1>3, CallbackKeeps, NoReplyReply DEF Fail
  <1>4. CASE /\ retry_cnt[q] < RetryMax
             /\ evcon' = [evcon EXCEPT ![q] = "retrying"]
             /\ retry_cnt' = [retry_cnt EXCEPT ![q] = @ + 1]
             /\ UNCHANGED <<exchangeVars, answerVars>>
    <2> USE <1>4 DEF exchangeVars, answerVars
    <2>1. outcome[q] = "pending" /\ caller[q] \in {"posted", "left"}
      BY <1>1, ActivePending
    <2>2. TypeOK' BY <1>2 DEF IInv, TypeOK, Active
    <2>3. FreedWithAnswer' /\ CallerAgrees'
      BY <2>1, <1>1 DEF IInv, TypeOK, FreedWithAnswer, CallerAgrees, Active
    <2>4. AttemptsBounded' BY <1>2 DEF IInv, TypeOK, AttemptsBounded
    <2>5. TouchedOnlyAnswered' /\ SuccessIsH264'
      BY DEF IInv, TouchedOnlyAnswered, SuccessIsH264
    <2> QED BY <2>2, <2>3, <2>4, <2>5 DEF IInv
  <1> QED BY <1>3, <1>4 DEF Cleanup

(* A step of the HTTP thread from one state of the connection to another.  *)
LEMMA MoveKeeps ==
  ASSUME IInv, NEW q \in Queries, evcon[q] \in Active \ {"retrying"},
         NEW to \in Exchanging, evcon' = [evcon EXCEPT ![q] = to],
         UNCHANGED <<hbase, caller, answerVars, attempts, touched>>,
         retry_cnt' = retry_cnt \/ retry_cnt' = [retry_cnt EXCEPT ![q] = 0],
         code' \in [Queries -> {"none", "continue", "ok", "empty", "error"}],
         body' \in [Queries -> {"none", "length", "chunked", "close"}],
         continues' \in [Queries -> 0..MaxContinues]
  PROVE  IInv'
  <1> USE BoundAssumption DEF answerVars
  <1>1. outcome[q] = "pending" /\ caller[q] \in {"posted", "left"}
    BY ActivePending
  <1>2. TypeOK'
    <2>1. evcon' \in [Queries -> Active \cup {"none", "freed"}]
      BY DEF IInv, TypeOK, Active
    <2>2. retry_cnt' \in [Queries -> 0..RetryMax]
      BY DEF IInv, TypeOK
    <2> QED BY <2>1, <2>2 DEF IInv, TypeOK
  <1>3. FreedWithAnswer' /\ CallerAgrees'
    BY <1>1 DEF IInv, TypeOK, FreedWithAnswer, CallerAgrees, Active
  <1>4. AttemptsBounded' BY DEF IInv, TypeOK, AttemptsBounded, Exchanging
  <1>5. TouchedOnlyAnswered' /\ SuccessIsH264'
    BY DEF IInv, TouchedOnlyAnswered, SuccessIsH264
  <1> QED BY <1>2, <1>3, <1>4, <1>5 DEF IInv

(* Every step of the HTTP thread keeps the invariant.                      *)
LEMMA HttpStepKeeps ==
  ASSUME IInv, NEW q \in Queries, HttpStep(q)
  PROVE  IInv'
  <1> USE DEF Active, Exchanging
  <1>0. /\ code \in [Queries -> {"none", "continue", "ok", "empty", "error"}]
        /\ body \in [Queries -> {"none", "length", "chunked", "close"}]
        /\ continues \in [Queries -> 0..MaxContinues]
    BY DEF IInv, TypeOK
  <1>1. CASE Connected(q) BY <1>0, <1>1, MoveKeeps DEF Connected, exchangeVars
  <1>2. CASE ConnectRefused(q) BY <1>2, CleanupKeeps DEF ConnectRefused
  <1>3. CASE ConnectError(q) BY <1>3, FailKeeps DEF ConnectError
  <1>4. CASE Retry(q)
    <2> USE <1>4, BoundAssumption DEF Retry, answerVars, exchangeVars
    <2>1. outcome[q] = "pending" /\ caller[q] \in {"posted", "left"}
      BY ActivePending
    <2>2. TypeOK' BY DEF IInv, TypeOK
    <2>3. FreedWithAnswer' /\ CallerAgrees'
      BY <2>1 DEF IInv, TypeOK, FreedWithAnswer, CallerAgrees
    <2>4. AttemptsBounded' BY DEF IInv, TypeOK, AttemptsBounded
    <2>5. TouchedOnlyAnswered' /\ SuccessIsH264'
      BY DEF IInv, TouchedOnlyAnswered, SuccessIsH264
    <2> QED BY <2>2, <2>3, <2>4, <2>5 DEF IInv
  <1>5. CASE RetryRefused(q) BY <1>5, CleanupKeeps DEF RetryRefused
  <1>6. CASE Written(q) BY <1>0, <1>6, MoveKeeps DEF Written, exchangeVars
  <1>7. CASE ReadFirstline(q)
    <2>1. /\ continues' \in [Queries -> 0..MaxContinues]
          /\ code' \in [Queries -> {"none", "continue", "ok", "empty", "error"}]
      BY <1>0, <1>7, BoundAssumption DEF ReadFirstline
    <2>2. /\ body' = body /\ retry_cnt' = retry_cnt
          /\ evcon[q] = "firstline" /\ evcon' = [evcon EXCEPT ![q] = "headers"]
          /\ UNCHANGED <<hbase, caller, answerVars, attempts, touched>>
      BY <1>7 DEF ReadFirstline
    <2> QED BY <1>0, <2>1, <2>2, MoveKeeps
  <1>8. CASE ReadContinue(q) BY <1>0, <1>8, MoveKeeps DEF ReadContinue, exchangeVars
  <1>9. CASE ReadNoBody(q) BY <1>9, DoneKeeps DEF ReadNoBody
  <1>10. CASE ReadHeader(q)
    <2>1. body' \in [Queries -> {"none", "length", "chunked", "close"}]
      BY <1>0, <1>10 DEF ReadHeader
    <2>2. /\ code' = code /\ continues' = continues /\ retry_cnt' = retry_cnt
          /\ evcon[q] = "headers" /\ evcon' = [evcon EXCEPT ![q] = "body"]
          /\ UNCHANGED <<hbase, caller, answerVars, attempts, touched>>
      BY <1>10 DEF ReadHeader
    <2> QED BY <1>0, <2>1, <2>2, MoveKeeps
  <1>11. CASE ReadBody(q) BY <1>11, DoneKeeps DEF ReadBody
  <1>12. CASE ReadLastChunk(q) BY <1>0, <1>12, MoveKeeps DEF ReadLastChunk, exchangeVars
  <1>13. CASE ReadTrailer(q) BY <1>13, DoneKeeps DEF ReadTrailer
  <1>14. CASE ReadToClose(q) BY <1>14, DoneKeeps DEF ReadToClose
  <1>15. CASE ExchangeFails(q) BY <1>15, FailKeeps DEF ExchangeFails
  <1> QED
    BY <1>1, <1>2, <1>3, <1>4, <1>5, <1>6, <1>7, <1>8, <1>9, <1>10, <1>11, <1>12, <1>13,
       <1>14, <1>15 DEF HttpStep

(* What the three ways to start a request have in common.                  *)
LEMMA PostKeeps ==
  ASSUME IInv, NEW q \in Queries, caller[q] = "posting",
         caller' = [caller EXCEPT ![q] = "posted"],
         UNCHANGED <<hbase, node, exchangeVars, calls, reply, touched>>,
         \/ /\ outcome' = [outcome EXCEPT ![q] = "lost"]
            /\ request' \in [Queries -> {"none", "live", "freed"}]
            /\ \A p \in Queries : p # q => request'[p] = request[p]
            /\ \E c \in {"none", "freed"} : evcon' = [evcon EXCEPT ![q] = c]
            /\ UNCHANGED <<attempts, retry_cnt>>
         \/ /\ outcome' = [outcome EXCEPT ![q] = "pending"]
            /\ request' = [request EXCEPT ![q] = "live"]
            /\ attempts' = [attempts EXCEPT ![q] = 1]
            /\ \/ /\ evcon' = [evcon EXCEPT ![q] = "connecting"]
                  /\ UNCHANGED retry_cnt
               \/ /\ evcon' = [evcon EXCEPT ![q] = "retrying"]
                  /\ retry_cnt' = [retry_cnt EXCEPT ![q] = 1]
  PROVE  IInv'
  <1> USE BoundAssumption DEF exchangeVars, Active, Exchanging
  <1>1. /\ outcome[q] = "none" /\ evcon[q] = "none" /\ retry_cnt[q] = 0
        /\ node[q] = "live" /\ calls[q] = 0 /\ q \notin touched
    BY DEF IInv, TypeOK, CallerAgrees, FreedWithAnswer, TouchedOnlyAnswered
  <1>2. TypeOK' BY DEF IInv, TypeOK
  <1>3. FreedWithAnswer' BY <1>1 DEF IInv, TypeOK, FreedWithAnswer
  <1>4. CallerAgrees' BY <1>1 DEF IInv, TypeOK, CallerAgrees
  <1>5. AttemptsBounded' BY <1>1 DEF IInv, TypeOK, AttemptsBounded
  <1>6. TouchedOnlyAnswered' /\ SuccessIsH264'
    BY <1>1 DEF IInv, TypeOK, TouchedOnlyAnswered, SuccessIsH264
  <1> QED BY <1>2, <1>3, <1>4, <1>5, <1>6 DEF IInv

(* Every step of stream_url_query's thread keeps the invariant.            *)
LEMMA CallerStepKeeps ==
  ASSUME IInv, NEW q \in Queries, CallerStep(q)
  PROVE  IInv'
  <1>0. evcon \in [Queries -> Active \cup {"none", "freed"}]
        /\ request \in [Queries -> {"none", "live", "freed"}]
    BY DEF IInv, TypeOK
  <1>1. CASE Query(q)
    <2> USE <1>1 DEF Query, conVars, exchangeVars
    <2>1. TypeOK' BY DEF IInv, TypeOK
    <2>2. FreedWithAnswer' /\ CallerAgrees'
      BY DEF IInv, TypeOK, FreedWithAnswer, CallerAgrees, Active, Exchanging
    <2>3. AttemptsBounded' /\ SuccessIsH264' BY DEF IInv, AttemptsBounded, SuccessIsH264
    <2>4. TouchedOnlyAnswered' BY DEF IInv, TypeOK, TouchedOnlyAnswered
    <2> QED BY <2>1, <2>2, <2>3, <2>4 DEF IInv
  <1>2. CASE PostFails(q)
    <2>1. evcon[q] = "none"
      BY <1>2 DEF IInv, TypeOK, CallerAgrees, PostFails
    <2>2. evcon' = [evcon EXCEPT ![q] = "none"]
      BY <1>0, <1>2, <2>1 DEF PostFails, conVars
    <2> QED BY <1>0, <1>2, <2>2, PostKeeps DEF PostFails, conVars
  <1>3. CASE HandleFails(q)
    <2>1. /\ request' \in [Queries -> {"none", "live", "freed"}]
          /\ \A p \in Queries : p # q => request'[p] = request[p]
      BY <1>0, <1>3 DEF HandleFails
    <2> QED BY <1>3, <2>1, PostKeeps DEF HandleFails
  <1>4. CASE MakeRequest(q) BY <1>4, PostKeeps DEF MakeRequest
  <1>5. CASE MakeRequestRefused(q) BY <1>5, PostKeeps DEF MakeRequestRefused
  <1>6. CASE FreePostData(q)
    <2> USE <1>6 DEF FreePostData, conVars, exchangeVars, answerVars
    <2>1. node[q] = "freed" => outcome[q] \in {"ok", "failed"}
      BY DEF IInv, TypeOK, FreedWithAnswer
    <2>2. TypeOK' BY DEF IInv, TypeOK
    <2>3. FreedWithAnswer' /\ CallerAgrees'
      BY DEF IInv, TypeOK, FreedWithAnswer, CallerAgrees
    <2>4. AttemptsBounded' /\ SuccessIsH264' BY DEF IInv, AttemptsBounded, SuccessIsH264
    <2>5. TouchedOnlyAnswered' BY <2>1 DEF IInv, TypeOK, TouchedOnlyAnswered
    <2> QED BY <2>2, <2>3, <2>4, <2>5 DEF IInv
  <1> QED BY <1>1, <1>2, <1>3, <1>4, <1>5, <1>6 DEF CallerStep

(* Every step keeps the invariant.                                         *)
LEMMA NextIInv == IInv /\ [Next]_vars => IInv'
  <1> SUFFICES ASSUME IInv, [Next]_vars PROVE IInv'
    OBVIOUS
  <1> USE DEF conVars, exchangeVars, answerVars
  <1>1. CASE UNCHANGED vars
    BY <1>1 DEF vars, IInv, TypeOK, FreedWithAnswer, CallerAgrees, AttemptsBounded,
                TouchedOnlyAnswered, SuccessIsH264
  <1>2. CASE HbaseStarts
    BY <1>2 DEF HbaseStarts, IInv, TypeOK, FreedWithAnswer, CallerAgrees, AttemptsBounded,
                TouchedOnlyAnswered, SuccessIsH264
  <1>3. ASSUME NEW q \in Queries, CallerStep(q) \/ HttpStep(q) PROVE IInv'
    BY <1>3, CallerStepKeeps, HttpStepKeeps
  <1> QED BY <1>1, <1>2, <1>3 DEF Next

(* The inductive invariant holds in every state of the query.              *)
THEOREM InvCorrect == Spec => []IInv
  BY InitIInv, NextIInv, PTL DEF Spec

(* The query's state has its type: no callback runs twice, and retry_cnt   *)
(* stays within retry_max.                                                 *)
THEOREM TypeCorrect == Spec => []TypeOK
  BY InvCorrect, PTL DEF IInv

(* Node, request and connection are freed exactly with the one answer, for *)
(* every number of queries, and the node is used after it is freed for     *)
(* answered queries only.                                                  *)
THEOREM NodeCorrect == Spec => []NodeLifetime
<1>1. IInv => NodeLifetime
  BY DEF IInv, NodeLifetime
<1> QED
  BY InvCorrect, <1>1, PTL

(* A query tries at most retry_max + 1 connections.                        *)
THEOREM AttemptsCorrect == Spec => []AttemptsBounded
  BY InvCorrect, PTL DEF IInv

(* NODE_SUCCESS means an address and H.264 video.                          *)
THEOREM SuccessCorrect == Spec => []SuccessIsH264
  BY InvCorrect, PTL DEF IInv

-----------------------------------------------------------------------------
(* Refinement: a step that gives a query its outcome is one of the service,*)
(* and every other step leaves the outcomes alone.                         *)

(* The callback is the answer of the abstract service.                     *)
LEMMA CallbackAnswers ==
  ASSUME IInv, NEW q \in Queries, evcon[q] \in Active, NEW r, Callback(q, r)
  PROVE  Service!Next
  <1>1. outcome[q] = "pending"
    BY ActivePending
  <1>2. \E o \in {"ok", "failed"} : outcome' = [outcome EXCEPT ![q] = o]
    BY DEF Callback
  <1> QED BY <1>1, <1>2 DEF Service!Next, Service!Answer

(* evhttp_connection_cb_cleanup answers, or arms a retry and stutters.     *)
LEMMA CleanupAnswers ==
  ASSUME IInv, NEW q \in Queries, evcon[q] \in Active, Cleanup(q)
  PROVE  Service!Next \/ UNCHANGED outcome
  BY CallbackAnswers DEF Cleanup, Fail, answerVars

(* A step of the HTTP thread is an answer or a stutter.                    *)
LEMMA HttpStepService ==
  ASSUME IInv, NEW q \in Queries, HttpStep(q)
  PROVE  Service!Next \/ UNCHANGED outcome
  <1> USE DEF Active, Exchanging
  <1>1. CASE ConnectRefused(q) \/ RetryRefused(q)
    BY <1>1, CleanupAnswers DEF ConnectRefused, RetryRefused
  <1>2. CASE ConnectError(q) \/ ExchangeFails(q)
    BY <1>2, CallbackAnswers DEF ConnectError, ExchangeFails, Fail
  <1>3. CASE ReadNoBody(q) \/ ReadBody(q) \/ ReadTrailer(q) \/ ReadToClose(q)
    BY <1>3, CallbackAnswers DEF ReadNoBody, ReadBody, ReadTrailer, ReadToClose, Done
  <1>4. CASE Connected(q) \/ Retry(q) \/ Written(q) \/ ReadFirstline(q) \/ ReadContinue(q)
             \/ ReadHeader(q) \/ ReadLastChunk(q)
    BY <1>4 DEF Connected, Retry, Written, ReadFirstline, ReadContinue, ReadHeader,
                ReadLastChunk, answerVars
  <1> QED BY <1>1, <1>2, <1>3, <1>4 DEF HttpStep

(* A step of the caller's thread begins a query or stutters.               *)
LEMMA CallerStepService ==
  ASSUME IInv, NEW q \in Queries, CallerStep(q)
  PROVE  Service!Next \/ UNCHANGED outcome
  <1>1. CASE Query(q) \/ FreePostData(q)
    BY <1>1 DEF Query, FreePostData, answerVars
  <1>2. CASE PostFails(q) \/ HandleFails(q) \/ MakeRequest(q) \/ MakeRequestRefused(q)
    <2>1. outcome[q] = "none"
      BY <1>2 DEF IInv, CallerAgrees, PostFails, HandleFails, MakeRequest, MakeRequestRefused
    <2>2. \E o \in {"pending", "lost"} : outcome' = [outcome EXCEPT ![q] = o]
      BY <1>2 DEF PostFails, HandleFails, MakeRequest, MakeRequestRefused
    <2> QED BY <2>1, <2>2 DEF Service!Next, Service!Begin
  <1> QED BY <1>1, <1>2 DEF CallerStep

(* Every step is a step of the abstract service or a stutter.              *)
LEMMA NextService ==
  ASSUME IInv, [Next]_vars
  PROVE  Service!Next \/ UNCHANGED outcome
  <1>1. CASE UNCHANGED vars \/ HbaseStarts
    BY <1>1 DEF vars, HbaseStarts, answerVars
  <1>2. ASSUME NEW q \in Queries, CallerStep(q) \/ HttpStep(q)
        PROVE Service!Next \/ UNCHANGED outcome
    BY <1>2, CallerStepService, HttpStepService
  <1> QED BY <1>1, <1>2 DEF Next

(* tima_get_property with the HTTP client and event loop implements the    *)
(* query service: at most one answer, and none to a dropped query.         *)
THEOREM ServiceCorrect == Spec => ServiceSpec
  <1>1. Init => Service!Init
    BY DEF Init, Service!Init
  <1>2. IInv /\ [Next]_vars => [Service!Next]_outcome
    BY NextService
  <1> QED BY <1>1, <1>2, InvCorrect, PTL DEF Spec, ServiceSpec, Service!Spec

-----------------------------------------------------------------------------
(* The query with the publisher its answer starts.                         *)

(* A step of the composition is a step of the query or a stutter.          *)
LEMMA StartNextIsNext == [StartNext]_startVars => [Next]_vars
  BY DEF StartNext, startVars, Caller, Http, Publisher, Next, vars, HbaseStarts

(* The query keeps its own promises whatever the publishers do: what is    *)
(* proved of Spec holds of StartSpec.                                      *)
THEOREM StartIsQuery == StartSpec => Spec
<1>1. StartInit => Init
  BY DEF StartInit
<1> QED
  BY <1>1, StartNextIsNext, PTL DEF StartSpec, Spec

Labels ==
  {"none", "slot", "create", "setup", "connect", "stream",
   "loop", "list", "wait", "woken", "ended"}

PubTypes ==
  /\ pc \in [Nodes -> Labels]
  /\ connected \in [Nodes -> BOOLEAN] /\ sent \in [Nodes -> BOOLEAN]
  /\ sockets \subseteq Nodes

(* A publisher that was started, sent or has its socket belongs to a query *)
(* with NODE_SUCCESS.                                                      *)
StartedAnswered ==
  \A q \in Queries : pc[q] # "none" \/ sent[q] \/ q \in sockets => outcome[q] = "ok"

SInv == IInv /\ PubTypes /\ StartedAnswered /\ SocketsOwned

(* An answer is final.                                                     *)
LEMMA OkStays ==
  ASSUME IInv, [Next]_vars, NEW q \in Queries, outcome[q] = "ok"
  PROVE  outcome'[q] = "ok"
  <1>1. outcome \in [Queries -> {"none", "pending", "lost", "ok", "failed"}]
    BY DEF IInv, TypeOK
  <1> QED BY <1>1, NextService DEF Service!Next, Service!Begin, Service!Answer

(* Before the first query there are no publishers.                         *)
LEMMA StartSInv == StartInit => SInv
  <1> SUFFICES ASSUME StartInit PROVE SInv
    OBVIOUS
  <1>1. IInv BY InitIInv DEF StartInit
  <1>2. PubTypes BY DEF StartInit, PubInit, PubTypes, Labels
  <1>3. StartedAnswered BY SessionAssumption DEF StartInit, PubInit, StartedAnswered
  <1>4. SocketsOwned BY DEF StartInit, PubInit, SocketsOwned
  <1> QED BY <1>1, <1>2, <1>3, <1>4 DEF SInv

(* A publisher's step moves only its own publisher, and only once that was *)
(* started.                                                                *)
LEMMA PublisherMoves ==
  ASSUME PubTypes, NEW q \in Nodes, PubStep(q)
  PROVE  /\ pc[q] # "none" \/ UNCHANGED <<pc, connected, sockets, sent>>
         /\ PubTypes' /\ sockets' \subseteq sockets \cup {q}
         /\ \A p \in Nodes : p # q =>
              pc'[p] = pc[p] /\ connected'[p] = connected[p] /\ sent'[p] = sent[p]
  <1> USE DEF PubTypes, Labels, Goto
  <1>1. CASE TakeUp(q) \/ Set(q) \/ Broadcast(q) \/ Wakeup(q)
    <2>1. UNCHANGED <<sockets, connected, sent>>
      BY <1>1 DEF TakeUp, Set, Broadcast, Wakeup
    <2>3. pc[q] # "none" \/ pc' = pc
      BY <1>1 DEF TakeUp, Set, Broadcast, Wakeup, Running
    <2>2. pc' \in [Nodes -> Labels] /\ \A p \in Nodes : p # q => pc'[p] = pc[p]
      BY <1>1 DEF TakeUp, Set, Broadcast, Wakeup
    <2> QED BY <2>1, <2>2, <2>3
  <1>2. CASE Create(q) \/ Setup(q) \/ Traverse(q) \/ CondWait(q) \/ ListEmpty(q)
    BY <1>2 DEF Create, Setup, Traverse, CondWait, ListEmpty
  <1>3. CASE Connect(q) \/ ConnectStream(q)
    BY <1>3 DEF Connect, ConnectStream
  <1>4. CASE Send(q) \/ SendFails(q)
    BY <1>4 DEF Send, SendFails
  <1>5. CASE Release(q)
    BY <1>5 DEF Release, Disconnect
  <1> QED BY <1>1, <1>2, <1>3, <1>4, <1>5 DEF PubStep, ThreadStep

(* A socket is opened by a thread at "stream", kept only by one that is    *)
(* connected, and closed when the loop is left.                            *)
LEMMA PublisherOwns ==
  ASSUME PubTypes, SocketsOwned, NEW q \in Nodes, PubStep(q)
  PROVE  SocketsOwned'
  <1> USE DEF PubTypes, Labels, Goto
  <1>1. \A p \in Nodes : p # q => pc'[p] = pc[p] /\ connected'[p] = connected[p]
    BY PublisherMoves
  <1>2. sockets' \subseteq sockets \cup {q}
    BY PublisherMoves
  <1>3. q \in sockets' => \/ pc'[q] = "stream"
                          \/ connected'[q] /\ pc'[q] \in {"loop", "list", "wait", "woken"}
    <2>1. CASE TakeUp(q) \/ Set(q) \/ Broadcast(q) \/ Wakeup(q)
      BY <2>1 DEF TakeUp, Set, Broadcast, Wakeup, SocketsOwned
    <2>2. CASE Create(q) \/ Setup(q) \/ Traverse(q) \/ CondWait(q) \/ ListEmpty(q)
      BY <2>2 DEF Create, Setup, Traverse, CondWait, ListEmpty, SocketsOwned
    <2>3. CASE Connect(q) \/ ConnectStream(q)
      BY <2>3 DEF Connect, ConnectStream, SocketsOwned
    <2>4. CASE Send(q) \/ SendFails(q)
      BY <2>4 DEF Send, SendFails, SocketsOwned
    <2>5. CASE Release(q)
      BY <2>5 DEF Release, Disconnect, SocketsOwned
    <2> QED BY <2>1, <2>2, <2>3, <2>4, <2>5 DEF PubStep, ThreadStep
  <1> QED BY <1>1, <1>2, <1>3 DEF SocketsOwned

(* Whatever a publisher opens or sends, it was started.                    *)
LEMMA PublisherKeeps ==
  ASSUME SInv, NEW q \in Queries, Publisher(q)
  PROVE  PubTypes' /\ StartedAnswered' /\ SocketsOwned'
  <1> USE SessionAssumption DEF SInv
  <1>0. q \in Nodes /\ PubStep(q) /\ outcome' = outcome
    BY DEF Publisher, vars
  <1>1. /\ pc[q] # "none" \/ UNCHANGED <<pc, connected, sockets, sent>>
        /\ PubTypes' /\ sockets' \subseteq sockets \cup {q}
        /\ \A p \in Nodes : p # q =>
             pc'[p] = pc[p] /\ connected'[p] = connected[p] /\ sent'[p] = sent[p]
    BY <1>0, PublisherMoves
  <1>2. CASE pc[q] # "none"
    <2>1. outcome[q] = "ok" BY <1>2 DEF StartedAnswered
    <2> QED BY <1>0, <1>1, <2>1, PublisherOwns DEF StartedAnswered
  <1>3. CASE UNCHANGED <<pc, connected, sockets, sent>>
    BY <1>0, <1>1, <1>3, PublisherOwns DEF StartedAnswered
  <1> QED BY <1>1, <1>2, <1>3

(* url_query_callback starts the publisher of the query it answers.        *)
LEMMA HttpKeeps ==
  ASSUME SInv, NEW q \in Queries, PushStart(q),
         \A p \in Queries : outcome[p] = "ok" => outcome'[p] = "ok"
  PROVE  PubTypes' /\ StartedAnswered' /\ SocketsOwned'
  <1> USE SessionAssumption DEF SInv, PubTypes
  <1>1. CASE UNCHANGED pubVars
    BY <1>1 DEF pubVars, StartedAnswered, SocketsOwned
  <1>2. CASE outcome'[q] = "ok" /\ Start(q)
    <2>1. /\ pc[q] = "none" /\ pc' \in [Nodes -> Labels]
          /\ \A p \in Nodes : p # q => pc'[p] = pc[p]
          /\ UNCHANGED <<connected, sockets, sent>>
      BY <1>2 DEF Start, Goto, Labels
    <2>2. q \notin sockets
      BY <2>1 DEF SocketsOwned
    <2> QED BY <1>2, <2>1, <2>2 DEF StartedAnswered, SocketsOwned
  <1> QED BY <1>1, <1>2 DEF PushStart

(* Every step of the composition keeps SInv.                               *)
LEMMA NextSInv == SInv /\ [StartNext]_startVars => SInv'
  <1> SUFFICES ASSUME SInv, [StartNext]_startVars PROVE SInv'
    OBVIOUS
  <1>1. IInv /\ [Next]_vars /\ IInv'
    BY StartNextIsNext, NextIInv DEF SInv
  <1>2. \A p \in Queries : outcome[p] = "ok" => outcome'[p] = "ok"
    BY <1>1, OkStays
  <1>3. CASE UNCHANGED pubVars
    BY <1>1, <1>2, <1>3 DEF SInv, PubTypes, StartedAnswered, SocketsOwned, pubVars
  <1>4. ASSUME NEW q \in Queries, Http(q) PROVE SInv'
    BY <1>1, <1>2, <1>4, HttpKeeps DEF Http, SInv
  <1>5. ASSUME NEW q \in Queries, Publisher(q) PROVE SInv'
    BY <1>1, <1>5, PublisherKeeps DEF SInv
  <1> QED BY <1>3, <1>4, <1>5 DEF StartNext, startVars, Caller

(* Whatever order answers, refusals and closes come in and however many    *)
(* sessions compete for the pool's threads: a socket is open and a packet  *)
(* goes out only for a session whose one answer named H.264.               *)
THEOREM SendsCorrect == StartSpec => []SendsOnlyH264
<1>1. SInv => SendsOnlyH264
  BY DEF SInv, IInv, StartedAnswered, SuccessIsH264, FreedWithAnswer, SendsOnlyH264
<1> QED
  BY StartSInv, NextSInv, <1>1, PTL DEF StartSpec

(* An open socket always has a running publisher thread that will close    *)
(* it, whichever step of the connection failed, whenever the session ended *)
(* and even if its wakeup was lost: no socket outlives its publisher.      *)
THEOREM SocketsCorrect == StartSpec => []SocketsOwned
<1>1. SInv => SocketsOwned
  BY DEF SInv
<1> QED
  BY StartSInv, NextSInv, <1>1, PTL DEF StartSpec

(* With the publishers too, a query's node is freed once, with its answer, *)
(* and the query implements its service.                                   *)
THEOREM StartNodeCorrect == StartSpec => []NodeLifetime /\ ServiceSpec
  BY StartIsQuery, NodeCorrect, ServiceCorrect, PTL

=============================================================================
