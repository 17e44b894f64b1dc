----------------------------- MODULE ConcordApi -----------------------------
(***************************************************************************)
(* The REST half of libconcord: requests are put on hold in per-bucket     *)
(* queues (concord-api-ratelimit.c) and concord_dispatch sends them through*)
(* one libuv loop and one curl multi handle until every queue is empty     *)
(* (concord-api.c).  One thread runs all of it: the user's calls while pc  *)
(* is "idle", the callbacks of the loop while Concord_transfers_run is     *)
(* inside uv_run.  What is concurrent is the server (when a response or a  *)
(* part of it arrives) and the two timers (curl's and each bucket's).      *)
(*                                                                         *)
(* A request is known by its number in calls; its endpoint, method, object *)
(* and callback are that number.  Of a response body the model keeps whose *)
(* response each part of it is.  Time is left out: a started timer fires   *)
(* in some later loop turn.                                                *)
(*                                                                         *)
(* Definitions marked "Mutant" are plausible mistakes in the definition    *)
(* that follows them; no specification uses them (see PROJECT.json).       *)
(***************************************************************************)
EXTENDS Integers, Sequences, FiniteSets

CONSTANTS
    Keys,             \* bucket keys (Concord_tryget_major of an endpoint)
    Buckets,          \* bucket hashes the server may answer with
    NoBucket,         \* no such header / no such dictionary entry
    HashOf,           \* the bucket hash the server gives to each key
    QueueSize,        \* MAX_QUEUE_SIZE
    MaxRequests,      \* bound: API calls the user makes in a behaviour
    MaxRemaining,     \* bound: the largest x-ratelimit-remaining
    Replies,          \* what the server may answer, of AllReplies
    TimeoutCompletes  \* may a transfer end inside curl's timeout action

\* What a transfer ends with, to the program: HTTP 200 ("cut" if the body is not
\* complete; nobody reads msg->data.result), 429 of the bucket, global 429, and
\* whatever ends the program: another code or no response at all.
AllReplies == {"ok", "cut", "limited", "global", "fatal"}

ASSUME ConcordApiAssumption ==
    /\ IsFiniteSet(Buckets)
    /\ NoBucket \notin Buckets
    /\ HashOf \in [Keys -> Buckets \cup {NoBucket}]
    /\ QueueSize \in Nat \ {0}
    /\ MaxRequests \in Nat
    /\ MaxRemaining \in Nat
    /\ Replies \subseteq AllReplies
    /\ TimeoutCompletes \in BOOLEAN

Slots == 0 .. QueueSize - 1
Requests == 1 .. MaxRequests

VARIABLES
    pc,                 \* where the thread is
    caller,             \* who entered Concord_transfers_run: user or build
    calls,              \* history: the key of every API call made so far
    loaded,             \* history: how each request's object was loaded
    bucket_dict,        \* api->bucket_dict, key -> bucket
    conns,              \* queue.conns[slot] of each bucket
    bottom_running,     \* queue.bottom_running of each bucket
    separator,          \* queue.separator of each bucket
    top_onhold,         \* queue.top_onhold of each bucket
    remaining,          \* bucket->remaining
    finished,           \* bucket->finished
    ratelimit_timer,    \* the callback bucket->ratelimit_timer is armed with
    transfers_onhold,   \* api->transfers_onhold
    transfers_running,  \* api->transfers_running
    header              \* api->header, shared by all responses

queues == <<bottom_running, separator, top_onhold, transfers_onhold>>
limits == <<remaining, finished, ratelimit_timer>>
user == <<calls, bucket_dict>>
vars == <<pc, caller, user, loaded, conns, queues, limits,
          transfers_running, header>>

\* enum conn_status, and NULL for a slot that holds no connection.
Status == {"NULL", "INNACTIVE", "RUNNING", "PAUSE", "ONHOLD"}

\* The easy handle as the multi handle sees it: not added, added, receiving,
\* done with an unread message (a reply, or "nourl": curl refused it), or done
\* with its message read and never removed ("spent").
Transfer == {"out", "sent", "recv", "nourl", "spent"} \cup AllReplies

\* response_body: the request whose response was received last, and those of
\* the responses received before it that are still there.
Body == [last : Nat, before : SUBSET Nat]
NoBody == [last |-> 0, before |-> {}]

Conn == [status : Status, url : Nat, object : Nat,
         transfer : Transfer, body : Body]

Empty == [status |-> "NULL", url |-> 0, object |-> 0,
          transfer |-> "out", body |-> NoBody]

\* How an object was loaded: not yet; with its response; a second time; with
\* the response to another request; with its own after bytes of another
\* request's; with its own after bytes of its own; with a part of its own.
Outcome == {"no", "ok", "again", "foreign", "stale", "mixed", "cut"}

Init ==
    /\ pc = "idle"
    /\ caller = "user"
    /\ calls = << >>
    /\ loaded = [r \in Requests |-> "no"]
    /\ bucket_dict = [k \in Keys |-> NoBucket]
    /\ conns = [b \in Buckets |-> [i \in Slots |-> Empty]]
    /\ bottom_running = [b \in Buckets |-> 0]
    /\ separator = [b \in Buckets |-> 0]
    /\ top_onhold = [b \in Buckets |-> 0]
    /\ remaining = [b \in Buckets |-> 0]
    /\ finished = [b \in Buckets |-> 0]
    /\ ratelimit_timer = [b \in Buckets |-> "off"]
    /\ transfers_onhold = 0
    /\ transfers_running = 0
    /\ header = [bucket |-> NoBucket, remaining |-> 0]

-----------------------------------------------------------------------------
(* Connections *)

\* curl_multi_add_handle: the result is ignored, so a handle that was never
\* removed stays as it is (CURLM_ADDED_ALREADY).
Added(transfer) == IF transfer = "out" THEN "sent" ELSE transfer

\* A connection that has made the registration of its request's key.
Registered(r) == [Empty EXCEPT !.status = "INNACTIVE", !.url = r]

\* Pushed or recycled, a connection waits in its queue.
OnHold(c) == [c EXCEPT !.status = "ONHOLD"]

\* Concord_queue_npop moves a connection to the active transfers.
Launch(c) == [c EXCEPT !.status = "RUNNING", !.transfer = Added(@)]

\* Mutant: the URL of the new request is not set.
FilledObjectOnly(c, r) == [c EXCEPT !.object = r]

\* Concord_conn_set_url, and the load_cb and p_object assignments after it.
Filled(c, r) == [c EXCEPT !.url = r, !.object = r]

\* Mutants: p_object is not cleared; the easy handle is not removed; the
\* response body is not freed.
AfterLoadKeepsObject(c) == [c EXCEPT !.body = NoBody, !.status = "INNACTIVE",
                                     !.transfer = "out"]
AfterLoadKeepsHandle(c) == [c EXCEPT !.object = 0, !.body = NoBody,
                                     !.status = "INNACTIVE",
                                     !.transfer = "spent"]
AfterLoadKeepsBody(c) == [c EXCEPT !.object = 0, !.status = "INNACTIVE",
                                   !.transfer = "out"]

\* _concord_load_obj_perform followed by curl_multi_remove_handle.
AfterLoad(c) == [c EXCEPT !.object = 0, !.body = NoBody, !.status = "INNACTIVE",
                          !.transfer = "out"]

\* The object of a connection whose transfer ended with HTTP 200 is loaded.
Is200(c) == c.transfer \in {"ok", "cut"}

\* What load_cb makes of the response body it is given.
Verdict(c) == IF loaded[c.object] # "no" THEN "again"
              ELSE IF c.body.last # c.object THEN "foreign"
              ELSE IF ~(c.body.before \subseteq {c.object}) THEN "stale"
              ELSE IF c.transfer = "cut" THEN "cut"
              ELSE IF c.body.before # {} THEN "mixed"
              ELSE "ok"

\* _curl_body_cb appends to what response_body already holds.
Received(c) ==
    [c EXCEPT !.transfer = "recv",
              !.body = [last |-> c.url,
                        before |-> (@.before \cup {@.last}) \ {0}]]

\* Mutant: remaining is taken to count the request it came with.
HeadersLessOne(k, n) == IF HashOf[k] = NoBucket
                        THEN header
                        ELSE [bucket |-> HashOf[k], remaining |-> n - 1]

\* _curl_header_cb: dictionary_set replaces the fields a response carries and
\* keeps the others, so a response without rate limit headers changes nothing.
Headers(k, n) == IF HashOf[k] = NoBucket
                 THEN header
                 ELSE [bucket |-> HashOf[k], remaining |-> n]

InFlight == {s \in Buckets \X Slots :
                conns[s[1]][s[2]].transfer \in {"sent", "recv"}}

Unread(c) == c.transfer \in {"nourl"} \cup AllReplies

-----------------------------------------------------------------------------
(* Queues *)

\* The connections of a bucket that wait between separator and top_onhold.
Held(b) == top_onhold[b] - separator[b]

\* Mutants: no test for the top of the queue; while instead of do-while.
PoppedPastTop(held, num) == IF num > 0 THEN num ELSE held
PoppedNoneForZero(held, num) == IF num < held THEN num ELSE held

\* How many connections Concord_queue_npop(.., num) takes of held ones: its
\* do-while tests --num_conn after the first, so 0 never stops it.
Popped(held, num) == IF num > 0 /\ num < held THEN num ELSE held

\* The slots of a bucket after popping n connections.
AfterPop(b, n) ==
    [i \in Slots |-> IF separator[b] <= i /\ i < separator[b] + n
                     THEN Launch(conns[b][i]) ELSE conns[b][i]]

\* Mutant: the threshold is noticed one request too late.
FillsLate(b) == top_onhold[b] + 1 > QueueSize

\* The next connection on hold takes the last slot of the queue.
Fills(b) == top_onhold[b] + 1 = QueueSize

\* _concord_200sync_getbucket takes the first empty slot from top_onhold up.
FreeSlot(b, i) ==
    /\ i \in top_onhold[b] .. QueueSize - 1
    /\ conns[b][i].status = "NULL"
    /\ \A j \in top_onhold[b] .. i - 1 : conns[b][j].status # "NULL"

\* The search has no bound of its own: it reads past the array if all the
\* slots hold a connection.
Overrun(b) == \A j \in top_onhold[b] .. QueueSize - 1 :
                    conns[b][j].status # "NULL"

-----------------------------------------------------------------------------
(* The user's calls.  Concord_bucket_build for a key without a bucket sends *)
(* the request at once and blocks; for a known one it puts it on hold.      *)

Register(k) ==
    /\ pc = "idle"
    /\ Len(calls) < MaxRequests
    /\ bucket_dict[k] = NoBucket
    /\ calls' = Append(calls, k)
    /\ pc' = "sync"
    /\ UNCHANGED <<caller, loaded, bucket_dict, conns, queues, limits,
                   transfers_running, header>>

\* The key whose registration blocks the caller, and its request.
SyncKey == calls[Len(calls)]

\* Concord_register_bucket_key reads 200.  The object is loaded before the
\* hash is looked at; a hash that is NULL fails an assertion.
SyncOk(n) ==
    /\ pc = "sync"
    /\ "ok" \in Replies
    /\ LET h == Headers(SyncKey, n)
           r == Len(calls)
           b == h.bucket
       IN /\ header' = h
          /\ loaded' = [loaded EXCEPT ![r] = "ok"]
          /\ \/ /\ b = NoBucket
                /\ pc' = "aborted"
                /\ UNCHANGED <<bucket_dict, conns>>
             \/ /\ b # NoBucket
                /\ Overrun(b)
                /\ pc' \in {"aborted", "crashed"}
                /\ UNCHANGED <<bucket_dict, conns>>
             \/ /\ b # NoBucket
                /\ \E i \in Slots :
                     /\ FreeSlot(b, i)
                     /\ conns' = [conns EXCEPT ![b][i] = Registered(r)]
                /\ bucket_dict' = [bucket_dict EXCEPT ![SyncKey] = b]
                /\ pc' = "idle"
    /\ UNCHANGED <<caller, calls, queues, limits, transfers_running>>

\* 429: the call sleeps and sends the same request again.
SyncLimited(n) ==
    /\ pc = "sync"
    /\ Replies \cap {"limited", "global"} # {}
    /\ header' = Headers(SyncKey, n)
    /\ UNCHANGED <<pc, caller, user, loaded, conns, queues, limits,
                   transfers_running>>

\* 401, 403, no response or any other code: ERROR ends the program.
SyncFatal ==
    /\ pc = "sync"
    /\ "fatal" \in Replies
    /\ pc' = "aborted"
    /\ UNCHANGED <<caller, user, loaded, conns, queues, limits,
                   transfers_running, header>>

\* _concord_queue_push or _concord_queue_recycle.  The one that fills the
\* queue runs all the transfers before the connection has its new request.
Enqueue(k) ==
    /\ pc = "idle"
    /\ Len(calls) < MaxRequests
    /\ bucket_dict[k] # NoBucket
    /\ LET b == bucket_dict[k]
           i == top_onhold[b]
           r == Len(calls) + 1
       IN /\ calls' = Append(calls, k)
          /\ top_onhold' = [top_onhold EXCEPT ![b] = i + 1]
          /\ transfers_onhold' = transfers_onhold + 1
          /\ \/ /\ ~Fills(b)
                /\ conns' = [conns EXCEPT ![b][i] = Filled(OnHold(@), r)]
                /\ UNCHANGED <<pc, caller>>
             \/ /\ Fills(b)
                /\ conns' = [conns EXCEPT ![b][i] = OnHold(@)]
                /\ pc' = "run"
                /\ caller' = "build"
    /\ UNCHANGED <<loaded, bucket_dict, bottom_running, separator, limits,
                   transfers_running, header>>

\* concord_dispatch; Concord_transfers_run returns at once if nothing waits.
Dispatch ==
    /\ pc = "idle"
    /\ \/ /\ transfers_onhold = 0
          /\ UNCHANGED <<pc, caller>>
       \/ /\ transfers_onhold # 0
          /\ pc' = "run"
          /\ caller' = "user"
    /\ UNCHANGED <<user, loaded, conns, queues, limits, transfers_running,
                   header>>

\* Concord_start_client_buckets pops one connection of each bucket.
StartBuckets ==
    /\ pc = "run"
    /\ LET n == [b \in Buckets |-> Popped(Held(b), 1)]
       IN /\ conns' = [b \in Buckets |-> AfterPop(b, n[b])]
          /\ bottom_running' = separator
          /\ separator' = [b \in Buckets |-> separator[b] + n[b]]
          /\ transfers_onhold' =
                transfers_onhold - Cardinality({b \in Buckets : n[b] = 1})
    /\ pc' = "loop"
    /\ UNCHANGED <<caller, user, loaded, top_onhold, limits,
                   transfers_running, header>>

-----------------------------------------------------------------------------
(* The loop: socket events and curl's timeout advance the transfers. *)

\* Headers and a first part of the body arrive.
ReceiveHeaders(b, i, n) ==
    /\ pc \in {"loop", "socket"}
    /\ conns[b][i].transfer = "sent"
    /\ conns[b][i].url # 0
    /\ header' = Headers(calls[conns[b][i].url], n)
    /\ conns' = [conns EXCEPT ![b][i] = Received(@)]
    /\ transfers_running' = Cardinality(InFlight)
    /\ pc' = "socket"
    /\ UNCHANGED <<caller, user, loaded, queues, limits>>

\* Curl ends a transfer and queues its message for curl_multi_info_read.  One
\* that cannot connect ends without a response; a handle without a URL is
\* refused when curl first looks at it.
Complete(b, i, reply) ==
    /\ \/ conns[b][i].transfer = "recv" /\ reply \in Replies
       \/ /\ conns[b][i].transfer = "sent"
          /\ conns[b][i].url # 0
          /\ reply \in Replies \cap {"fatal"}
       \/ /\ conns[b][i].transfer = "sent"
          /\ conns[b][i].url = 0
          /\ reply = "nourl"
    /\ conns' = [conns EXCEPT ![b][i].transfer = reply]
    /\ transfers_running' = Cardinality(InFlight \ {<<b, i>>})
    /\ UNCHANGED <<caller, user, loaded, queues, limits, header>>

\* _uv_perform_cb: the messages are read after the socket action.
SocketComplete(b, i, reply) ==
    /\ pc \in {"loop", "socket"}
    /\ pc' = "socket"
    /\ Complete(b, i, reply)

\* _uv_on_timeout_cb: the same action, but nobody reads the messages.
TimeoutComplete(b, i, reply) ==
    /\ pc = "loop"
    /\ TimeoutCompletes \/ reply = "nourl"
    /\ UNCHANGED pc
    /\ Complete(b, i, reply)

-----------------------------------------------------------------------------
(* _concord_tryperform_asynchronous, called by _uv_perform_cb: one action   *)
(* per message.                                                             *)

Draining == pc \in {"socket", "drain"}

\* Mutant: as the comments have it, finished has to surpass remaining.
ShouldFetchSurpassed(b) == finished[b] > remaining[b]

\* May the bucket fetch more of its held connections?
ShouldFetch(b) == finished[b] = remaining[b]

\* 200: load the object, then arm the timer that pops the next connections.
\* The response that is read last wrote header, whoever this one belongs to.
Reply200(b, i) ==
    /\ Draining
    /\ Is200(conns[b][i])
    /\ conns[b][i].object # 0
    /\ pc' = "drain"
    /\ loaded' = [loaded EXCEPT ![conns[b][i].object] = Verdict(conns[b][i])]
    /\ conns' = [conns EXCEPT ![b][i] = AfterLoad(@)]
    /\ \/ /\ Held(b) = 0
          /\ UNCHANGED limits
       \/ /\ Held(b) # 0
          /\ finished' = [finished EXCEPT ![b] = @ + 1]
          /\ \/ /\ ShouldFetch(b)
                /\ remaining' = [remaining EXCEPT ![b] = header.remaining]
                /\ ratelimit_timer' = [ratelimit_timer EXCEPT ![b] = "add"]
             \/ /\ ~ShouldFetch(b)
                /\ UNCHANGED <<remaining, ratelimit_timer>>
    /\ UNCHANGED <<caller, user, queues, transfers_running, header>>

\* 200 on a connection whose load_cb is NULL: a call through a null pointer.
CallNull(b, i) ==
    /\ Draining
    /\ Is200(conns[b][i])
    /\ conns[b][i].object = 0
    /\ pc' = "crashed"
    /\ UNCHANGED <<caller, user, loaded, conns, queues, limits,
                   transfers_running, header>>

\* _concord_queue_pause: the running connections of a bucket leave the multi
\* handle, which forgets what they sent, received or completed.
Paused(b) ==
    [i \in Slots |->
        IF /\ bottom_running[b] <= i /\ i < separator[b]
           /\ conns[b][i].status = "RUNNING"
        THEN [conns[b][i] EXCEPT !.status = "PAUSE", !.transfer = "out"]
        ELSE conns[b][i]]

\* 429 of one bucket: its timer will resume it, whatever it was armed for.
ReplyLimited(b, i) ==
    /\ Draining
    /\ conns[b][i].transfer = "limited"
    /\ pc' = "drain"
    /\ ratelimit_timer' = [ratelimit_timer EXCEPT ![b] = "resume"]
    /\ conns' = [conns EXCEPT ![b] =
            [Paused(b) EXCEPT ![i].body = NoBody,
                              ![i].transfer = IF @ = "limited" THEN "spent"
                                                               ELSE @]]
    /\ UNCHANGED <<caller, user, loaded, queues, remaining, finished,
                   transfers_running, header>>

\* Global 429: the whole thread sleeps, then sends the request again.
ReplyGlobal(b, i) ==
    /\ Draining
    /\ conns[b][i].transfer = "global"
    /\ pc' = "drain"
    /\ conns' = [conns EXCEPT ![b][i].transfer = "sent",
                              ![b][i].body = NoBody]
    /\ UNCHANGED <<caller, user, loaded, queues, limits, transfers_running,
                   header>>

\* Mutant: the handle is added again, as after a global 429.
ReplyNoUrlRetries(b, i) ==
    /\ Draining
    /\ conns[b][i].transfer = "nourl"
    /\ pc' = "drain"
    /\ conns' = [conns EXCEPT ![b][i].transfer = "sent"]
    /\ UNCHANGED <<caller, user, loaded, queues, limits, transfers_running,
                   header>>

\* CURL_NO_RESPONSE of a handle without URL: the connection is only removed.
ReplyNoUrl(b, i) ==
    /\ Draining
    /\ conns[b][i].transfer = "nourl"
    /\ pc' = "drain"
    /\ conns' = [conns EXCEPT ![b][i].transfer = "out"]
    /\ UNCHANGED <<caller, user, loaded, queues, limits, transfers_running,
                   header>>

\* 401, 403 or another code: ERROR ends the program; so does the assertion if a
\* handle with a URL got no response.
ReplyFatal(b, i) ==
    /\ Draining
    /\ conns[b][i].transfer = "fatal"
    /\ pc' = "aborted"
    /\ UNCHANGED <<caller, user, loaded, conns, queues, limits,
                   transfers_running, header>>

\* curl_multi_info_read has no more messages: back to the loop.
EndSocketEvent ==
    /\ Draining
    /\ \A b \in Buckets, i \in Slots : ~Unread(conns[b][i])
    /\ pc' = "loop"
    /\ UNCHANGED <<caller, user, loaded, conns, queues, limits,
                   transfers_running, header>>

-----------------------------------------------------------------------------
(* The bucket's timer, and the end of the loop *)

\* _uv_add_remaining_cb
AddRemaining(b) ==
    /\ pc = "loop"
    /\ ratelimit_timer[b] = "add"
    /\ LET n == Popped(Held(b), remaining[b])
       IN /\ conns' = [conns EXCEPT ![b] = AfterPop(b, n)]
          /\ bottom_running' = [bottom_running EXCEPT ![b] = separator[b]]
          /\ separator' = [separator EXCEPT ![b] = @ + n]
          /\ transfers_onhold' = transfers_onhold - n
    /\ ratelimit_timer' = [ratelimit_timer EXCEPT ![b] = "off"]
    /\ remaining' = [remaining EXCEPT ![b] = 0]
    /\ finished' = [finished EXCEPT ![b] = 0]
    /\ UNCHANGED <<pc, caller, user, loaded, top_onhold, transfers_running,
                   header>>

\* _uv_queue_resume_cb
Resume(b) ==
    /\ pc = "loop"
    /\ ratelimit_timer[b] = "resume"
    /\ conns' = [conns EXCEPT ![b] =
            [i \in Slots |->
                IF /\ bottom_running[b] <= i /\ i < separator[b]
                   /\ conns[b][i].status = "PAUSE"
                THEN Launch(conns[b][i]) ELSE conns[b][i]]]
    /\ ratelimit_timer' = [ratelimit_timer EXCEPT ![b] = "off"]
    /\ UNCHANGED <<pc, caller, user, loaded, queues, remaining, finished,
                   transfers_running, header>>

\* Mutant: uv_run does not wait for the transfers (UV_RUN_NOWAIT).
LoopEndsEarly ==
    /\ pc = "loop"
    /\ \A b \in Buckets : ratelimit_timer[b] = "off"

\* uv_run has no active handle left and returns.
LoopEnds ==
    /\ pc = "loop"
    /\ InFlight = {}
    /\ \A b \in Buckets : ratelimit_timer[b] = "off"

\* Mutant: only the running transfers are asserted on.
LeftOverRunning == transfers_running # 0

\* "Left loop with pending transfers", "Left loop with running transfers".
LeftOver == transfers_onhold # 0 \/ transfers_running # 0

\* One of the two assertions fails.
LoopExitAborts ==
    /\ LoopEnds
    /\ LeftOver
    /\ pc' = "aborted"
    /\ UNCHANGED <<caller, user, loaded, conns, queues, limits,
                   transfers_running, header>>

\* Concord_stop_client_buckets; if Concord_bucket_build made the run, it now
\* gives the connection of the last slot its request.
LoopExit ==
    /\ LoopEnds
    /\ ~LeftOver
    /\ bottom_running' = [b \in Buckets |-> 0]
    /\ separator' = [b \in Buckets |-> 0]
    /\ top_onhold' = [b \in Buckets |-> 0]
    /\ \/ /\ caller = "user"
          /\ UNCHANGED conns
       \/ /\ caller = "build"
          /\ conns' = [conns EXCEPT ![bucket_dict[SyncKey]][QueueSize - 1] =
                            Filled(@, Len(calls))]
    /\ pc' = "idle"
    /\ UNCHANGED <<caller, user, loaded, transfers_onhold, limits,
                   transfers_running, header>>

-----------------------------------------------------------------------------
Remainders == 0 .. MaxRemaining

UserNext ==
    \/ \E k \in Keys : Register(k) \/ Enqueue(k)
    \/ Dispatch

SyncNext == (\E n \in Remainders : SyncOk(n) \/ SyncLimited(n)) \/ SyncFatal

Message(b, i) ==
    \/ Reply200(b, i)
    \/ CallNull(b, i)
    \/ ReplyLimited(b, i)
    \/ ReplyGlobal(b, i)
    \/ ReplyNoUrl(b, i)
    \/ ReplyFatal(b, i)

Network(b, i) ==
    \/ \E n \in Remainders : ReceiveHeaders(b, i, n)
    \/ \E reply \in Replies \cup {"nourl"} :
            SocketComplete(b, i, reply) \/ TimeoutComplete(b, i, reply)

LoopNext ==
    \/ StartBuckets
    \/ \E b \in Buckets, i \in Slots : Network(b, i) \/ Message(b, i)
    \/ EndSocketEvent
    \/ \E b \in Buckets : AddRemaining(b) \/ Resume(b)
    \/ LoopExitAborts
    \/ LoopExit

Next == UserNext \/ SyncNext \/ LoopNext

Spec == Init /\ [][Next]_vars

Callback == \/ StartBuckets \/ EndSocketEvent \/ LoopExit \/ LoopExitAborts
            \/ \E b \in Buckets, i \in Slots : Message(b, i)
TimerFires == \E b \in Buckets : AddRemaining(b) \/ Resume(b)
ServerResponds == \E b \in Buckets, i \in Slots, n \in Remainders :
                        ReceiveHeaders(b, i, n)
ServerServes ==
    \/ \E n \in Remainders : SyncOk(n)
    \/ \E b \in Buckets, i \in Slots : SocketComplete(b, i, "ok")
CurlRefuses == \E b \in Buckets, i \in Slots : SocketComplete(b, i, "nourl")

\* A callback that was entered goes on; the loop, which is back in uv_run again
\* and again, gets to due timers and readable sockets; and the server does not
\* answer "too many requests" for ever.
Fairness == /\ WF_vars(Callback)
            /\ SF_vars(TimerFires)
            /\ SF_vars(ServerResponds)
            /\ SF_vars(ServerServes)
            /\ SF_vars(CurlRefuses)

FairSpec == Spec /\ Fairness

-----------------------------------------------------------------------------
(* Invariants *)

\* The variables keep the types of their C declarations, and the connections
\* only know requests that were made.
TypeOK ==
    /\ pc \in {"idle", "sync", "run", "loop", "socket", "drain",
               "aborted", "crashed"}
    /\ caller \in {"user", "build"}
    /\ calls \in Seq(Keys) /\ Len(calls) <= MaxRequests
    /\ loaded \in [Requests -> Outcome]
    /\ bucket_dict \in [Keys -> Buckets \cup {NoBucket}]
    /\ conns \in [Buckets -> [Slots -> Conn]]
    /\ \A b \in Buckets, i \in Slots : /\ conns[b][i].url <= Len(calls)
                                       /\ conns[b][i].object <= Len(calls)
    /\ pc = "sync" => calls # << >>
    /\ bottom_running \in [Buckets -> Nat]
    /\ separator \in [Buckets -> Nat]
    /\ top_onhold \in [Buckets -> Nat]
    /\ remaining \in [Buckets -> Nat]
    /\ finished \in [Buckets -> Nat]
    /\ ratelimit_timer \in [Buckets -> {"off", "add", "resume"}]
    /\ transfers_onhold \in Int
    /\ transfers_running \in Nat
    /\ header \in [bucket : Buckets \cup {NoBucket}, remaining : Nat]

\* Every index of every queue stays inside the array, in order, and the slots
\* below top_onhold hold connections: the reads queue->conns[i]->.. of npop,
\* pause and resume, and conns[top_onhold] of Concord_bucket_build, never
\* meet a NULL slot or the end of the array.
QueueShape ==
    \A b \in Buckets :
        /\ bottom_running[b] <= separator[b]
        /\ separator[b] <= top_onhold[b]
        /\ top_onhold[b] <= QueueSize
        /\ pc \in {"idle", "sync"} => top_onhold[b] < QueueSize
        /\ \A i \in Slots : i < top_onhold[b] => conns[b][i].status # "NULL"

\* transfers_onhold, counted up by push and recycle and down by npop, is the
\* number of connections between separator and top_onhold over all buckets:
\* concord_dispatch's early return and the assertion after the loop rely on it.
HeldConns == {s \in Buckets \X Slots :
                separator[s[1]] <= s[2] /\ s[2] < top_onhold[s[1]]}
OnholdCount == transfers_onhold = Cardinality(HeldConns)

\* Every dispatch starts with the counters of all buckets at zero, as the
\* comment over Concord_stop_client_buckets says, although that function only
\* resets the indices: inside the loop a bucket counts only while it still has
\* connections on hold, so _uv_add_remaining_cb has the last word.
FreshCounters ==
    \A b \in Buckets :
        \/ finished[b] = 0 /\ remaining[b] = 0
        \/ Held(b) > 0 /\ pc \notin {"idle", "sync", "run"}

\* Whatever the server and the timers do, no request's object is handed to
\* load_cb twice: neither a resent transfer nor a stale message repeats it.
LoadedOnce == \A r \in Requests : loaded[r] # "again"

\* The transfer whose end has an object loaded is that of the object's own
\* request, although connections, their URLs and the message queue outlive the
\* requests.
AnswersOwn == \A r \in Requests : loaded[r] # "foreign"

\* No object is loaded with bytes of another request's response, neither from
\* another transfer nor from a body that a connection's last use left behind.
NoForeignLoad == \A r \in Requests : loaded[r] \notin {"foreign", "stale"}

\* A connection is paused until its bucket's timer resumes it: no run of the
\* loop is over while one is.  A 200 that arms that timer to add connections
\* breaks this, and the connection keeps its response_body.
PausesEnd == pc = "idle" =>
                 \A b \in Buckets, i \in Slots : conns[b][i].status # "PAUSE"

\* That is the only way to such bytes: connections that are reused for other
\* requests, sent again after either 429, refused, and read with messages of
\* other connections in any order, bring none to an object.
LoadsOwnIfPausesEnd == []PausesEnd => []NoForeignLoad

\* A request that waits on hold is not on the wire, has its callback, and
\* was never answered: nothing of the connection's last use is left.
HeldReady ==
    \A s \in HeldConns :
        LET c == conns[s[1]][s[2]]
        IN /\ c.status = "ONHOLD" /\ c.transfer = "out" /\ c.body = NoBody
           /\ c.object # 0 => c.object = c.url /\ loaded[c.object] = "no"
           /\ pc \in {"idle", "loop"} => c.object # 0

\* While connections of a bucket are on hold something is still to come that
\* lets them go: its timer will add them, or one of its own transfers is not
\* done.  Without it the loop ends with them in the queue.
NoLostWakeup ==
    pc \in {"loop", "socket", "drain"} =>
        \A b \in Buckets : Held(b) # 0 =>
            \/ ratelimit_timer[b] = "add"
            \/ \E i \in Slots : /\ i < separator[b]
                                /\ conns[b][i].transfer \notin {"out", "spent"}

\* Requests that were submitted and are not answered yet.
Unanswered == {r \in 1 .. Len(calls) : loaded[r] = "no"}

-----------------------------------------------------------------------------
(* Liveness, under FairSpec *)

\* Every run of the loop ends, one way or another: no order of responses, rate
\* limits and timers leaves uv_run with something active but nothing to do.
LoopTerminates == (pc = "run") ~> (pc \in {"idle", "aborted", "crashed"})

\* Every run of the loop gives the thread back to the user.
DispatchReturns == (pc = "run") ~> (pc = "idle")

\* A request that a running dispatch finds unanswered gets its response.
EveryRequestServed ==
    \A r \in Requests :
        (pc = "loop" /\ r \in Unanswered) ~> (loaded[r] = "ok")
=============================================================================
