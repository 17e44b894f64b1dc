# libconcord in TLA+

This directory specifies, model-checks and partly proves the core of
libconcord, the C library for the Discord API in this repository. libconcord
is two engines behind one handle. The REST half queues requests per rate limit
bucket and runs them all in one libuv loop when the user calls
`concord_dispatch`. The gateway half keeps a WebSocket open in a thread of its
own. Both are callback code over libcurl and libuv, and what goes wrong in such
code goes wrong between the callbacks.

Paths below are relative to the repository's `src/` unless they name a test.

## Inventory

### REST request queues and rate limit buckets

`concord-api.c`, `concord-api-ratelimit.c`, `Concord_api_request` in
`concord-common.c`. Single-threaded.

- *State.* `api->bucket_dict` from bucket key (`channel_major`, `guild_major`
  or the endpoint itself) to bucket; per bucket a queue `conns[MAX_QUEUE_SIZE]`
  with the indices `bottom_running <= separator <= top_onhold`, the counters
  `remaining` and `finished`, and one `ratelimit_timer`; per connection its
  status, URL, `p_object`, `load_cb`, `response_body` and easy handle; for the
  whole API `transfers_onhold`, `transfers_running`, one curl multi handle, one
  curl timer and one dictionary of response headers.
- *Operations.* `Concord_api_request`: the first request of a key runs
  synchronously to learn its bucket (`Concord_register_bucket_key`), later ones
  are put on hold (`Concord_bucket_build`, push or recycle).
  `concord_dispatch`: pop one connection per bucket, run the loop, assert that
  nothing is left, reset the queues. Inside the loop: socket events and curl's
  timer call `curl_multi_socket_action`; finished transfers are loaded (200),
  paused and resumed (429 of the bucket), slept on and sent again (global 429)
  or end the program; `finished == remaining` arms the bucket's timer, which
  adds the next `remaining` connections.
- *Interactions.* libuv calls back into timers and sockets, curl into header,
  body, socket and timer callbacks; filling a queue runs the whole loop from
  inside `Concord_bucket_build`.
- *Hard.* One timer with two meanings; counters compared for equality; indices
  that three functions move; connections, bodies and messages that outlive the
  request they belonged to; a header dictionary shared by all transfers; curl
  completing transfers where nobody reads the message.
- *Correct means.* Every request that waits is answered once, with its own
  response, into its own object; a dispatch returns, and only then; no index
  leaves its array; the count of held transfers is the number of held
  transfers.

### Gateway WebSocket client

`concord-websockets.c`. Two threads.

- *State.* Shared without a lock: `ws->status`, `ws->async`, `ws->thread_id`.
  Owned by the loop: `ws->timeout` (curl's timer, borrowed by the disconnect),
  `ws->heartbeat_timer`, `ws->context` (socket and poll handle), the easy
  handle with its `cws_data.closed`.
- *Operations.* The user: `concord_ws_connect`, `concord_ws_disconnect`,
  `concord_ws_isrunning`, `concord_cleanup` (`Concord_ws_destroy`). The loop:
  connect, text (HELLO, dispatch, ACK, unknown), close, heartbeat, the async
  event, the disconnect timer, the end of the transfer.
- *Hard.* Everything that happens between a write of `status` and the moment
  the other thread acts on it; two parties that may both close; timers that
  fire after what they need is gone; using the handle again after a session.
- *Correct means.* A disconnect returns; nothing is freed while it is used;
  nothing is sent after a close frame; heartbeats come after the identify;
  `status` can be believed.

### WebSocket protocol

`curl-websocket/curl-websocket.c`. Called by curl in the gateway's loop thread
(header, write and read functions) and by the gateway's callbacks.

- *State.* `recv`: the header bytes read so far (`tmpbuf`, `done`, `needed`),
  the frame being read (`current`) and the message put aside between fragments
  (`fragmented`), each with a malloced payload, `used`, `total` and an opcode;
  `send`: a buffer of bytes that curl has not taken; `closed`, `accepted`,
  `pause_flags`, `dispatching`, `deleted`.
- *Operations.* `_cws_receive_header` (the upgrade), `_cws_receive_data` (reads
  of any size), `_cws_send_data` (curl asks for bytes), `cws_send`, `cws_pong`,
  `cws_close`, `cws_free`; callbacks `on_connect`, `on_text`, `on_close`.
- *Hard.* A frame may be cut anywhere, and one read may hold several; control
  frames come between fragments; buffers change owner; protocol errors are
  answered by a close but the bytes go on through the same code; curl pauses.
- *Correct means.* What is delivered does not depend on how the bytes were cut;
  nothing but a close is reported once this side closed; every buffer is owned
  once and large enough; what is queued is sent, in order.

### Dictionary

`hashtable.c`. Single-threaded.

- *State.* A table of chains of entries (key, value, `free_cb`), `len`.
- *Operations.* `dictionary_build`, `dictionary_set`, `dictionary_get`,
  `dictionary_replace`, `dictionary_remove`, `dictionary_destroy`.
- *Interactions.* `api->header` gets a copy of every header field to own, again
  and again under the same keys. `api->bucket_dict` owns each bucket under its
  hash and has it, unowned, under every bucket key that was found to lead to it.
- *Correct means.* It is a partial function; every owned value is freed once;
  no value that was freed is found.

### The rest

- *Header and body callbacks, rate limit parsing* (`concord-curl.c:37-89`,
  `concord-api-ratelimit.c:22-60`).
- *Socket contexts and curl set-up* (`concord-common.c:14-42`,
  `concord-api.c:307-356`, `concord-curl.c:92-197`).
- *Object loaders* (`concord-api-user.c`, `-channel.c`, `-guild.c`): JSON to
  structs. *Set-up and clean-up, memory helpers, debug output, tests.*

`PROJECT.json` lists every component with what is modelled of it, and every
place that is hard to test with the properties that watch it.

## Modules

| module | what it is |
| --- | --- |
| `ConcordApi` | the REST half, one action per call or callback |
| `RequestService` | what its user is promised: ask, submit, dispatch |
| `ConcordApiService` | the refinement mapping from the first to the second |
| `ConcordApiClaims` | what comments and assertions say and the code does not do |
| `MCConcordApi` | constants for TLC |
| `ConcordApiProofs` | theorems about `ConcordApi`: types, queues, counters |
| `ConcordApiObjectProofs` | theorems about `ConcordApi`: which object is loaded, how often and with whose body |
| `ConcordApiServiceProofs` | theorems about `ConcordApi`: what waits is woken and served; it implements `RequestService` |
| `Gateway` | the user's thread and the loop's thread of the gateway half |
| `MCGateway` | constants for TLC |
| `GatewayProofs` | theorems about `Gateway` |
| `WebSocketFrames` | curl-websocket: handshake, reads, messages, the send buffer |
| `MessageStream` | what it promises: frames are handled whole and in order |
| `MCWebSocketFrames` | the frames of the server, for TLC |
| `WebSocketFramesProofs` | theorems about `WebSocketFrames` |
| `WebSocketStreamProofs` | `WebSocketFrames` implements `MessageStream` |
| `Dictionary` | the chains of a dictionary and the values it owns |
| `OwningMap` | what it promises: a map that frees what it owns |
| `MCDictionary` | constants for TLC |
| `DictionaryProofs` | theorems about `Dictionary` |

Variables and actions keep the source's names where TLA+ lets them;
`PROJECT.json` maps every definition to its lines.

### ConcordApi

`pc` says where the thread is: with the user (`idle`), in the blocking first
request of a key (`sync`), at the start of the loop (`run`), in `uv_run`
(`loop`), inside a socket event before and after its messages begin to be
drained (`socket`, `drain`), or at an end that the code has (`aborted`: an
assertion or `ERROR`; `crashed`: a call of NULL or a read outside an array).

A connection is a record: `status` is the C enum; `url` and `object` are the
number of the request whose URL and object it holds (0 is none; `load_cb` and
`p_object` are set together, so `object` stands for both); `transfer` is its
easy handle as the multi handle sees it, from `out` over `sent` to a finished
one whose message is unread (`ok`, `cut`, `limited`, `global`, `fatal`, `nourl`)
or was read and is still in the multi handle (`spent`). `body` says whose bytes
`response_body` holds: `last` is the request whose response was received last,
`before` the requests whose bytes were there already, since `_curl_body_cb`
appends. `Verdict` is what `load_cb` makes of it when a 200 is read: the response
to another request (`foreign`), the own one after bytes of another's (`stale`) or
after own bytes that were sent before (`mixed`), a part of the own one (`cut`: a
transfer that breaks off after its status line is a 200 too, as
`msg->data.result` is never read), or the own one. A transfer may also end without
any response; for a handle with a URL that fails the assertion at line 231
(`fatal`).

Four points where the model follows the code rather than what one would
expect of it:

- `remaining` is taken from `header` when a message is *read*. `header` holds
  what the last response wrote, of any bucket, so `ReceiveHeaders` of one
  bucket changes what `Reply200` of another sees.
- `TimeoutComplete`: a transfer may end inside curl's timeout action, whose
  callback (`concord-api.c:275-282`) does not read messages. The message stays
  until a socket event, in this run of the loop or a later one.
- A push or recycle that fills the queue runs the loop before the connection
  has its request (`Enqueue` sets `caller` to `"build"`, `LoopExit` fills it
  in).
- `Reply200` and `ReplyLimited` arm the same timer, and the last one to do so
  decides whether it adds connections or resumes paused ones.

Time is left out. A started timer fires in some later turn of the loop, so
delays, clocks and `x-ratelimit-reset*` do not appear; the code's use of them
is to choose a length, never whether the timer is armed.

### Gateway

The user's thread is `main`: `idle`, then one step per access of what it shares
with the loop (`mark`, `wake`, `join`, `assert`, `free`). A callback of the loop
is one action, because the user's thread can see no more of it than one write
of `status`. `transfer` is the connection, `sent` the history of queued frames,
`fail` names the assertion, crash or use after free that ended the behaviour:
after undefined behaviour nothing is claimed.

curl calls `Concord_ws_timeout_cb` when it likes, also from inside
`curl_easy_pause`, which each frame sent after a pause calls; `TimerCalls` says
which calls the runs allow: all of them in both passing runs. `fail = "timer"`
is the assertion after `uv_timer_start` on a timer that was closed.
`MayFail` lets the network, the handshake and the server fail,
`ServerMayClose` lets the server close first, `Patient` makes the user wait for
the session before ending it, which the API gives no means to do.

### WebSocketFrames

A read is what curl hands to `_cws_receive_data` at once. It is a run of steps
that nothing interrupts: `pc` is where `_cws_process_frame` is, `more` says
that bytes of the read are left (`len > 0`). How long the read is and which
frame comes next is chosen when the code looks, so every way to cut the
server's bytes up is a behaviour: inside the two bytes of a header, inside the
2 or 8 bytes of a long length, inside the payload, or after several frames.
Between reads (`pc = "idle"`) the program sends or closes and curl asks for
bytes.

`current` and `fragmented` are the structs of `recv`, with the payload as
`data` (`used` is its length) and its address as `buf`; `heap` says how large
the buffer at an address is. `StartFrame` is the block at line 744: the
exchange of buffers for a continuation and the `realloc`. A byte of payload is
the number of the frame that carried it, a byte to be sent its place in all
that was ever written: enough to tell every byte from every other. As in the
code the opcode 0 of `fragmented` is a continuation and means "no message".

A cut control frame, a long one, a mask or reserved bits, a reserved opcode, a
continuation of nothing and a message within a message are frames like others:
the code queues a close and lets them through the same steps.

`MessageStream` handles a frame in one step. `Unfinished` finds its message in
`fragmented` or, while a continuation is read, in the part of `current` that
came with earlier frames. A close for a broken frame is a step of its own,
which the program's closing takes too.

### Dictionary

A chain is the sequence of its entries. `Unshared` is what callers see to: an
entry whose value is linked from elsewhere is not set again, replaced or
removed. `api->header` links nothing; for `api->bucket_dict` it is the look-up
in `Concord_trycreate_bucket`, of which the guard is the effect: weaker than the
test, since it lets an owner be set again that nothing links to. `Replace` and
`Remove` have no caller, test nothing, and would leave dangling links without
it; for them it is a precondition.
`OwningMap` knows keys, values and which of them are owned.

## Runs

`tlc -config X.cfg M` with `M` the module in `PROJECT.json`.

| configuration | shows |
| --- | --- |
| `ApiAnything` | two keys of one bucket, queue of 3, 6 requests, every reply, transfers that end in the timeout action: types, queue indices, `transfers_onhold`, fresh counters at each dispatch, no object loaded twice |
| `ApiPunctual` | one key, queue of 6, 6 requests, 200s and both 429s, transfers that end in socket events: an object is loaded at the end of its own transfer, and with bytes of another response only where a run of the loop left a connection paused |
| `ApiHappy` | two buckets, 5 requests, no 429 of a bucket: implements `RequestService`; what waits is ready and will be woken; the assertions after `uv_run` hold; a dispatch returns; every request is answered |
| `ApiTerminates` | every reply, late messages, and a key without rate limit headers: every run of the loop ends |
| `GatewayAnything` | two sessions and everything external allowed: close frames are last, heartbeats after the identify, `DISCONNECTED` means it |
| `GatewayCalm` | two sessions that server and network keep up, any use curl makes of its timer: only starting a closed timer can fail, and a disconnect returns unless curl took its timer back |
| `WebSocketReads` | 3 frames of 17 kinds, every cut, a program that sends and closes: payload buffers, framing of what is sent, reads end, what is queued is sent; implements `MessageStream` |
| `DictionaryOps` | 4 keys in 2 slots, 3 values: one entry per key, `len`, owned once, nothing freed is found; implements `OwningMap` |
| `Claim*` | one refuted statement each, see Divergences |

*Bounds.* In the REST runs a queue of 3 is the smallest in which a running, a
held and a free slot exist together, and 6 or 7 requests fill it, empty it and
recycle every slot; `MaxRemaining = 2` gives none, one and more than one
allowed transfers. Queue indices never exceed the array, so a longer queue adds
copies of the same situations, and the theorems below hold for every size. In
`ApiHappy` the queue has as many slots as there are requests: it never fills
up, which is the precondition of the refinement. In `ApiPunctual` and
`ClaimNoForeignLoad` the queue has 6 slots: for a 200 to override a resume, a
connection of an earlier batch must answer after the 429 of a later batch of
which another connection has received a part, while the last one is still on
hold. In `ApiPunctual`, where TLC finds `PausesEnd` violated, the behaviours that
do so are excluded by the property itself; `ClaimNoForeignLoad` has 11 requests,
since the connection has to be recycled and answered after that.
`"cut"` is among the replies of `ApiTerminates`; the other runs leave it out,
because it differs from `"ok"` only in the verdict. In the gateway runs two
sessions show what a session leaves to the next, and `MaxSent` lets heartbeats
and pongs come before, between and after the frames of both handshakes; no
property counts frames.

In `WebSocketReads` three frames are a fragment, a control frame and the
continuation, or two fragments and what follows them; a fourth brings nothing
new, since after any frame the state is `recv.fragmented` as a text, a binary
message or none. Payloads of 0, 1 and 2 bytes are empty, whole in any read and
cut; all three forms of length occur. A frame to be sent is two units, so that
it can be cut. Three chained keys are a first, a middle and a last entry.

*Deadlock* is checked in `ApiHappy` and `DictionaryOps`. Elsewhere the system may
really stop: the program asserted or crashed, the user has no more requests to make, or the
loop waits for ever for a message nobody reads.

*Fairness.* Weak fairness for code that was entered and goes on: a callback, a
thread that is scheduled. Strong fairness for what `uv_run` comes back to
again and again and finds ready then (due timers, readable sockets, the async
event), because in between it may be busy with another callback. For the
server: it responds, in `ApiHappy` it does not answer a global 429 for ever,
and in `GatewayCalm` it completes the two handshakes of each session. For curl-websocket: the
steps of a read go on by themselves, and curl asks for data as long as it is
not paused. No fairness is assumed of
the user's calls. `ApiTerminates` does let the server limit often, but not
always.

## Proofs

`tlapm M.tla` for the seven modules `*Proofs`. The theorems assume the `ASSUME`s
of the modules they are about and, unless the next table says so, nothing else:
they hold for any number of keys, buckets, slots, requests, sessions and frames,
any replies, any hash and any behaviour of curl's timer.

| theorem | assumes of the environment |
| --- | --- |
| `AnswersOwnCorrect`, `LoadsOwnIfPausesEndCorrect` | transfers end in socket events (`~TimeoutCompletes`) |
| `NoLostWakeupCorrect` | the server limits no single bucket (`"limited" \notin Replies`) |
| `NothingLeftBehindCorrect` | both |
| `HeldReadyCorrect` | both, and that no queue fills up (`[]RoomLeft`) |
| `ServiceCorrect` | the same, and that no 200 is cut short (`"cut" \notin Replies`) |
| `ServiceWithRoom` | the same with `MaxRequests <= QueueSize`, from which `RoomEnough` concludes `[]RoomLeft` |
| `FailsOnlyByClosedTimerCorrect` | `Calm`: a user who waits for the session, a network and a server that keep it up |

None of these is there for convenience: dropped from an instance, TLC finds a
behaviour that breaks the property. A transfer that ends in curl's timeout breaks
`AnswersOwn`, `LoadsOwnIfPausesEnd`, `NothingLeftBehind`, `HeldReady` and
`ImplementsService`; a 429 of one bucket breaks `NoLostWakeup`,
`NothingLeftBehind` and `ImplementsService`; a 200 cut short breaks
`ImplementsService`; each part of `Calm` breaks `FailsOnlyByClosedTimer`. These behaviours
are the hazards and divergences of this README and of `PROJECT.json`. One
condition is not known to be needed: TLC found no violation of `HeldReady` where
single buckets are limited (small instances with room in the queue); its proof
rests on `NoLostWakeup`'s invariant, which is broken there.

- `ConcordApiProofs!TypeCorrect`, `QueueShapeCorrect`, `OnholdCountCorrect`,
  `FreshCountersCorrect`. Each is inductive once the ones before it are known.
  `QueueShape` carries its own strengthening: that a queue is never left full
  while the user has the thread (`concord_dispatch` runs as soon as it fills),
  and that a slot once filled stays filled (`SlotsStayFilled`, a property of
  steps that is proved first). That `transfers_onhold` is the number of held
  connections needs the shape (what `Popped` takes away lies between `separator`
  and `top_onhold`) and the library's facts about cardinalities; most actions
  move no index and are dealt with at once (`QuietSteps`). `FreshCounters` needs
  the count: the loop returns only with `transfers_onhold = 0`, so no bucket
  holds anything then, and a bucket counts only while it holds something; this
  is why the counters are zero although `Concord_stop_client_buckets` does not
  reset them. Lemmas say what each operation on a connection keeps.
- `ConcordApiObjectProofs!LoadedOnceCorrect` rests on `ObjectsInv`: no two
  connections have the same object, none has one that was loaded, and the request
  of a call that is not over yet is on no connection. The last is what a push
  that fills the queue needs, because the loop runs between its two halves. Only
  six steps give, load or register an object; `PlainSteps` does with the others.
- `ConcordApiObjectProofs!AnswersOwnCorrect` assumes `~TimeoutCompletes`:
  the messages are then read before the loop goes on. `BodyInv` says that a
  connection that can get a new request is at rest, so that what it receives last
  is the response to its URL, which is its object's (`OwnBody`). Without the
  assumption an unread answer waits in the multi handle while the connection
  gets its next request, and is then given to that one.
- `ConcordApiObjectProofs!LoadsOwnIfPausesEndCorrect` is about the rest of the
  body. `CleanBody` says that whatever `response_body` holds is of the request of
  the connection's URL and that only a transfer under way, or a paused connection,
  holds anything. `Becomes` lists what a step inside the loop can make of a
  connection, so that `BecomesClean` is proved for one connection. At the end of
  the loop nothing is under way; `CleanInv` says that all bodies are empty when
  the user has the thread, which is where `PausesEnd` is needed and all it is
  needed for: a paused connection would keep its body and get a new URL.
- `ConcordApiServiceProofs!NoLostWakeupCorrect` rests on `WakeInv`. A bucket
  whose timer is off has both counters at zero (`CalmTimers`), so the next 200
  finds them equal and arms the timer: this is why the test for equality before
  counting loses nothing. If the timer is armed for `add` already, it will pop;
  and what pops at least one connection has a transfer that is not done. A
  connection that curl refuses because it has no URL is in the last slot
  (`UsualConns`), and if that was popped nothing of its bucket is on hold.
- `ConcordApiServiceProofs!NothingLeftBehindCorrect`: at the end of the loop no
  timer is armed and nothing is in flight, so by `NoLostWakeup` only an unread
  message could keep connections on hold. `BodyInv` says that it is not a
  reply, `UsualConns` that it is in the last slot; so nothing is on hold, and by
  `OnholdCount` the counter is zero. `RunningBound`, that `transfers_running` is
  at most the number of transfers in flight, holds because curl stores their
  number whenever one ends and without pauses none is removed otherwise.
- `ConcordApiServiceProofs!HeldReadyCorrect` and `ServiceCorrect` rest on
  `ServiceInv`, which places every connection: it is below `separator` if its
  transfer is under way, on hold if it has a request that is not (`Placed`);
  its body is the response to its URL and nothing else (`Whole`); and when the loop goes on or
  the user's turn comes nothing is left unread or under way (`Settled`). The
  simulation then takes one action at a time: `Enqueue` is `Submit`, `SyncOk` is
  `Answer`, `StartBuckets` is not seen since the phase begins with the dispatch,
  `Reply200` is `Serve`, `LoopExit` is `Return`, an abort is `Stop`. The two
  things to show are that an object that `Serve` takes is waiting, which is
  `ObjectsInv`, and that none waits at `Return`, which is the count.
- `GatewayProofs!TypeCorrect`, in three parts that are inductive one by one.
- `GatewayProofs!StatusCorrect`: `StatusInv` adds that a thread that has not
  begun finds `status` no longer `DISCONNECTED`, and that a running one has a
  transfer. Without the first, `ThreadStart` would break it.
- `GatewayProofs!CloseIsLastCorrect`, `IdentifyFirstCorrect`: `FramesInv` ties
  the history of frames to `closed` (a close frame in it means `closed`, and is
  the last) and to the heartbeat timer (on means that an identify was queued).
  One lemma says what a queued frame needs, and each sending action meets it
  because of its own test of `closed`.
- `GatewayProofs!FailsOnlyByClosedTimerCorrect` rests on `CalmInv`: a behaviour
  that has not failed is in one of six stages (`Stage`), which say for both
  threads which timers, handles and wake-ups are there. Each step stays in its
  stage or goes on to the next, and a later session begins with the handles the
  last one closed. Most ways to fail need a stage that has what they use no longer
  or not yet. What is left is curl's timer: it is closed in the end of `Closing`
  and in what follows, and `CurlTimerLeaves` says that there curl, or the next
  session, can only leave it alone or fail on it.
- `WebSocketFramesProofs!BuffersOwnedCorrect`, `FitsBufferCorrect`,
  `TypeCorrect` rest on `ReadInv`, which has to be proved as a whole because its
  parts need each other. `Position` says what the place in the code knows of the
  header and of the bytes that are left (without it `MaxFrames` could be
  exceeded). `Payloads` says that `recv.current` is empty between frames, which
  is why the buffer of a continuation can be thrown away, and that what was put
  aside is complete. `Ownership` adds to the two properties why a fragment may
  be moved to `recv.fragmented` without losing the buffer there: a continuation
  has taken it, and a message within a message has made this side close, so that
  the dispatch ignores it. One lemma is about `StartFrame`, the exchange of
  buffers and the `realloc`, and one about what any dispatch leaves behind.
- `WebSocketFramesProofs!OutInOrderCorrect` needs only that `out <= written`.
- `WebSocketStreamProofs!StreamCorrect` needs of the receiver, besides
  `ReadInv`, what `FrameInv` says while a frame is under way: `current` and
  `fragmented` together hold the payload of the earlier fragments and as many
  bytes of this frame as were copied (`PayloadInv`), and a broken frame was
  noticed no later than its header was read (`HeaderInv`). Then reading a
  header and copying a payload are not seen, a frame that begins or breaks off
  only changes what `Unfinished` splits off, and the dispatch of a whole frame is
  the one step of `MessageStream` that handles it.
- `DictionaryProofs`: all properties of `Dictionary`. The first lemmas are about
  one chain: what a search finds in it after an entry was overwritten, appended
  or taken out. From them follows what each operation means for look-ups
  (`Sets`, `Drops`), and the rest is proved from that and never looks at a chain
  again. `LenIsKeysCorrect` uses the library's facts about cardinalities;
  `OwnersInv` is `OwnedOnce` without the counting. `DictionaryIsOwningMap` is
  the refinement: `Build` stutters, `Replace` and `SetOwned` are `Put`, every
  other operation has its own name; `Link` needs `ValuesAlive`.

Every invariant and every refinement that a passing run checks is proved. Only
model-checked are the liveness properties, since liveness under fairness and
`ENABLED` are out of the prover's reach: `DispatchReturns`,
`EveryRequestServed`, `LoopTerminates`, the gateway's `DisconnectReturns`,
`ReadEnds` and `WrittenIsSent`.

## Divergences

Found by a run each, with the quoted text in `PROJECT.json`:

- `ClaimNothingLeftBehind`: a 429 rearms the timer that was to add the held
  connections; the loop ends and the assertion on `transfers_onhold` fails.
- `ClaimCallbackIsThere`: the connection that fills a queue is sent before it
  has its URL, object and callback.
- `ClaimCleanupIsSafe`: cleaning up after `concord_ws_isrunning` turned false
  frees the loop while its thread runs.
- `ClaimNoForeignLoad`: the reverse. A 200 read after a 429 makes the timer that
  was to resume the paused connections add held ones instead; the loop ends with
  connections paused, both assertions hold, and one that is recycled gives the
  bytes it had received to the next request's object.

Seen while modelling and kept in the model without a run of their own:

- `Concord_queue_npop` "pops N conns" (`concord-api-ratelimit.c:185`), but asked
  for 0, which is what a bucket with nothing remaining asks for, it pops all: the
  test of `--num_conn` comes after the first pop.
- The comment on `finished` (`concord-common.h:167`) says connections are
  fetched when it surpasses `remaining`; the code fetches at equality, one
  response late, because it compares before it counts (`concord-api.c:108`).
- `remaining` and the hash of a new key come from the last response that
  arrived, which may be another bucket's or an older one. A key whose response
  has no `x-ratelimit-bucket` can be bound to a bucket that is not its own, or,
  if no response had it, to none (`concord-api.c:394`).
- The search for a free slot in `_concord_200sync_getbucket` asserts its bound
  after the loop that needs it (`concord-api.c:400-405`).
- A transfer that is paused keeps the bytes it has received and appends the
  resent ones to them. One that breaks off after its status line counts as
  complete, with the bytes it has.
- `x-ratelimit-reset-after` is read with `strtoll`: "0.7" counts as absent.
- `concord_ws_disconnect` tests for "Gateway already disconnected" with
  `(WS_DISCONNECTING|WS_DISCONNECTED) & status` (`concord-websockets.c:440`), and
  `WS_DISCONNECTED` is 0: a second or early call goes on to send on an async
  handle that is closed or was never initialised, and to join a thread that was
  joined or never started.
- curl can restart or stop `ws->timeout` between `_uv_on_force_close_cb` and
  `_uv_disconnect_cb` (`TimerTaken`): the close is never sent and
  `uv_thread_join` does not return. Or it starts the timer after
  `_uv_disconnect_cb` closed it, and the assertion at line 185 fails. TLC finds
  both in `GatewayCalm` when `DisconnectReturns` is stated without its exceptions;
  the two properties of that run say that on a lasting connection these are all.
- With `ServerMayClose` the server's close frame can win over the user's:
  `cws_close` then refuses and the assertion at line 384 fails; later heartbeats
  fail the one at line 264.
- A failed connection attempt ends in curl's timeout action: `status` stays
  `CONNECTING` and the loop never ends.
- A second session after a disconnect asserts at once: curl starts
  `ws->timeout`, which the first session closed.
- `_cws_receive_header` ends the transfer at the first empty line without an
  accepted key, so an interim response or a redirect, which `FOLLOWLOCATION` in
  `Concord_ws_easy_init` asks curl to follow, is reported as a close. The flags
  `upgraded` and `connection_websocket` are set and never read; the status code
  is fetched and never read.
- `cws_close` sets `CURLOPT_TIMEOUT` to 2 seconds, which curl counts from the
  start of the transfer: `TransferEnds` may come before the close frame is sent,
  and `WrittenIsSent` claims nothing then.
- Nothing in `struct cws_data` is reset for a second transfer of the same handle:
  `closed`, a half-read header, an unfinished message and bytes not yet sent stay.
- A close frame with one byte of payload is reported to `on_close` with an empty
  text and length 1.
- After a `cws_free` within a callback the loops of `_cws_process_frame` and
  `_cws_receive_data` would go on with the freed connection if bytes are left.
  libconcord frees it only after the loop.
- `dictionary_set` frees the old value before it stores the new one (setting the
  same value again would store a freed pointer) and divides by zero before
  `dictionary_build`; `dictionary_replace` needs the key to be there. No caller
  does either.

## Not modelled

Object loaders (straight-line, through a JSON library outside the repository);
the socket contexts (the order of curl's socket calls is curl's); the payload of
gateway events and `INVALID_SESSION`, `RECONNECT` and `RESUME`, for which the
code has no case (`TODO.md` plans them); `Concord_api_timeout_cb`
(`concord-api.c:284-305`), which starts and stops the timer whose callback is
`TimeoutComplete`: in the REST half nothing else uses that timer; in curl-websocket `cws_ping` (not
called), base64, SHA-1, masks, byte order, the validity of close reasons and
64-bit lengths that overflow; the hash of keys (any function to slots); set-up, memory, debug output;
allocation failure, on which the library aborts.

## Plan

Done, in this order because a wrong queue loses users' requests, a wrong
disconnect hangs or crashes their program, and both stand on the other two:
`ConcordApi` with its abstract specification and first theorems, `Gateway` with
its safety theorems, `WebSocketFrames` and `Dictionary` with what they
implement and theorems about both; then the rest of the safety properties and
the refinements of `RequestService` and `MessageStream` as theorems. Next:

1. The socket contexts of `concord-api.c:307-356`: one context per connection,
   while curl may have two sockets for it.
2. The callbacks of curl-websocket that the gateway uses, composed with
   `Gateway`: its `closed` is `WebSocketFrames`' `closed`, its text events are
   delivered messages.
