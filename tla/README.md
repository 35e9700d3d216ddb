# TLA+ models and proofs of the Baidu IoT C SDK

This directory specifies the stateful core of the SDK in TLA+, checks it with
TLC and proves part of it with TLAPS. Every definition that stands for code is
named in the `map` of `PROJECT.json` together with the source lines it was
translated from. Definitions named `X_Something` beside a definition `X` are
deliberately wrong versions of it: each replaces `X` to show that a property
really depends on that piece of the code.

Contents: [the system](#the-system) · [the modules](#the-modules-and-the-code) ·
[the runs](#the-runs) · [what the code does
instead](#where-the-code-and-its-text-disagree) · [proofs](#proofs) ·
[assumptions](#assumptions-about-external-code) · [not
modelled](#what-is-not-modelled) · [plan](#plan)

## The system

The SDK is an MQTT client (`iotcore_client`) over a stack of byte transports
(`c-utility`), with a serializer for device models beside it (`serializer`). All
of it but the memory accounting is single threaded and cooperative: an
application calls `iotcore_mqtt_dowork` in a loop; that call pumps
`mqtt_client_dowork`, which pumps the transport's `xio_dowork`, which pumps the
transport under it. All results come back as callbacks, inside a dowork or
inside the very call that asked for them, and a callback may call the library
again. That re-entrancy, the lists that are walked while callbacks change them,
and the state flags that survive from one connection to the next are what makes
the code hard.

    application
        |  iotcore_mqtt_doconnect / dowork / publish / subscribe / disconnect
    iotcore_mqtt_client.c --- iotcore_retry_logic.c
        |  mqtt_client_* (umqtt, external)
    xio.c: one of
        socketio_*.c
        tlsio_*.c -> socketio_*.c, or http_proxy_io.c -> socketio_*.c
        wsio.c -> uws_client.c -> any of the above
    httpapiex.c -> httpapi_compact.c -> tlsio_*.c      (beside MQTT)
    codefirst.c, schema.c, datapublisher.c             (the device models)

| Component | State it keeps | Operations | Hard behaviour | What makes it correct |
|---|---|---|---|---|
| retry logic (`iotcore_retry_logic.c`) | start of the outage, last attempt, count, delay, expired | create, can_retry, start, stop | wall clock that may be unreadable, shifts that overflow, limit | attempts keep their distance, none after the limit, no giving up before it, some attempt in the end |
| iotcore connection (`iotcore_mqtt_client.c`) | connect status and four flags, transport handle, umqtt client, connect time | doconnect, dowork, disconnect, destroy; CONNACK, DISCONNECT and error callbacks | callbacks inside calls, timeouts, reuse or recreation of the transport | one transport owned, status truthful, disconnect final, no wait for ever |
| iotcore acknowledgements (same file) | packet id, two waiting queues | publish, subscribe, unsubscribe; PUBACK, SUBACK, failure walk | 16-bit ids wrap, callbacks re-enter while the lists are walked | each callback once, entries neither leaked nor freed while linked |
| socket io (`socketio_berkeley.c`) | io state, socket, pending list | open, close, send, dowork | partial writes, EAGAIN, callbacks in the flush loop | the bytes on the wire are the messages in order; each completion once |
| http proxy io (`http_proxy_io.c`) | state, receive buffer, underlying io | open, close, send, dowork; five callbacks from below | response cut anywhere, completion inside or after the call, user closes in a callback | each open answered once, only a 2xx opens, payload intact |
| websocket client (`uws_client.c`) | state, receive buffer, pending sends | open, close, close handshake, send, dowork | incremental handshake and frame decoding, re-entrant frame callback, close races | each open and each send answered once, frames delivered in order, close ends |
| websocket io (`wsio.c`) | state, pending list, uws client | open, close, send, dowork | close while opening or while the client is closing | closed means the client is closed; each send answered once; an open ends |
| tls io (`tlsio_openssl.c` and six other back ends) | state, SSL and BIOs, underlying io | open, close, send, dowork | handshake in pieces, closing inside callbacks | each open answered once, the SSL is there when it is used, records in order |
| xio, options | dispatch table; cloned options | pass through | none of its own | — |
| http api (`httpapiex.c`, `httpapi_compact.c`) | handle, three connection levels, options; flags and received bytes of a connection | ExecuteRequest, CloseConnection | retry that escalates through reconnect and reinit, responses cut anywhere, waits with bounds | each level undone before it is redone, the body is the server's, every wait ends |
| memory accounting (`gballoc.c`) | list of blocks, totals, lock | malloc, calloc, realloc, free, metrics | several threads | totals are the sum of the live blocks |
| threads, locks, clocks | platform handles | thin calls | clocks may fail | — |
| containers and strings, encoders, hashes | sequential data | pure | — | unit tested |
| serializer: devices and schemas (`codefirst.c`, `schema.c`, `iotdevice.c`) | device table, schema registry with reference counts | init, create and destroy device, deinit | counts across two modules, partial failure, last release | a schema lives as long as a device uses it |
| serializer: transactions (`datapublisher.c`, `datamarshaller.c`, `multitree.c`) | values of a transaction | start, publish, end, cancel | failure after part was published | all or nothing |
| serializer: commands and types (`commanddecoder.c`, `agenttypesystem.c`, JSON) | none | conversions | — | — |
| parameters, md5, version, sample, test tools | none | strings; polling loop | — | — |
| umqtt, parson | git submodules, not in the tree | — | modelled as used | — |

How they interact: the iotcore client creates a transport and owns it until it
destroys it; umqtt is handed the transport at connect and keeps using it until
it is disconnected. Every io owns the io below it, opens, closes and pumps it,
and is called back by it. The serializer meets the rest only through the
messages the application publishes. The full list of what can go wrong where,
and which property watches it, is `hazards` in `PROJECT.json`.

## The modules and the code

| Module | Extends | Stands for | Checked by | Proved in |
|---|---|---|---|---|
| `RetryTimer` | — | `iotcore_retry_logic.c` | with the two modules that use it | `ClientProofs` (lemmas) |
| `RetryLogic` | `RetryTimer` | the timer under an abstract connection | `RetryLogic` | `ClientProofs` |
| `MqttConnection` | `RetryTimer` | the connection in `iotcore_mqtt_client.c` | `MCIotcore` | `ClientProofs` |
| `AckContract` | — | what publish and subscribe promise | as a property of `AckQueues` in `MCIotcore` | `ClientProofs` |
| `AckQueues` | — | the waiting queues in `iotcore_mqtt_client.c` | `MCIotcore` | `ClientProofs` |
| `SocketIo` | — | `socketio_berkeley.c` | `SocketIo`, `SocketIo_blocked` | `SocketIoProofs` |
| `HttpProxyIo` | — | `http_proxy_io.c` | `HttpProxyIo` | `HttpProxyIoProofs` |
| `TlsIo` | — | `tlsio_openssl.c` over a socket or a proxy | `TlsIo` | `TlsIoProofs` |
| `UwsClient` | — | `uws_client.c` over a socket, TLS or a proxy | `UwsClient` | `UwsClientProofs` |
| `WsIo` | `UwsClient` | `wsio.c` over `uws_client.c` | `WsIo` | `WsIoProofs` |
| `HttpApiEx` | — | the retry levels of `httpapiex.c` | as what `HttpApi` implements; `HttpApiEx_retries` | `ServiceProofs` |
| `HttpApi` | `HttpApiEx` | `httpapi_compact.c` under `httpapiex.c` | `HttpApi`, `HttpApi_hang` | `ServiceProofs` |
| `Gballoc` | — | `gballoc.c` | `MCServices` | `ServiceProofs` |
| `CodeFirst` | — | `codefirst.c`, `schema.c`, `schemalib.c`, `datapublisher.c` | `MCServices` | `ServiceProofs` |

`MCIotcore` and `MCServices` each hold two modules that share no variable, the two
halves of `iotcore_mqtt_client.c` and the two services beside the transports. A
behaviour is one of one of the two, chosen at the start, while the other stays as it
was created: the states of a run are the sum of the two, and no interaction is
claimed. `MCIotcore` restates the fairness of both, `MCServices` adds the declared
models and the symmetry of threads and addresses. The constants of the other modules
are plain numbers, Booleans and sets, so these are checked as they are; a `.cfg` gives
the constants their values. No module declares a RECURSIVE
operator.

**How a call is cut into steps.** Code between two calls to somebody else (the
user, the io below, the umqtt client) runs without interruption and is one
action. Where it calls out, and what it calls may call back, the action ends,
and a variable (`pc`, `walk`, `resume`, `stack`, `step`, `send`) says what is
still to be done. In between the user may act: that is how "the callback closes
the io" and "the callback publishes again" come about. What the modelled code
learns from the outside (how many bytes the kernel took, whether memory was
there, what the peer sent) is chosen with `\E`.

### RetryTimer, RetryLogic

`retry` is the `RETRY_LOGIC` record field by field, plus `created` for a NULL
pointer; `now` is `get_time`. `CanRetry(t, s, result)` is
`can_retry`: `t` is its reading of the clock, `s` the one `start_retry_timer`
makes, -1 a failed one. `Delays(n)` are all values the policy can return for
`n` attempts: the jitter is nondeterministic, and the shift by 31 and more is
modelled as the builds behave. `create_retry_logic` always installs the
exponential policy, whatever is asked for, so the policy is not part of the
state. `RetryLogic` adds the least a connection does: it is broken, connecting
or connected, calls `can_retry` on every dowork while broken and
`stop_retry_timer` when the CONNACK accepts. Its specification is `RetrySpec`, or
`FairRetrySpec` with the fairness.

### MqttConnection

`status` is `mqtt_client_status`, `xio` the transport handle, `live` the
transports that exist, `mqtt` the umqtt client. `InitializeMqttConnection`
translates `initialize_mqtt_connection` branch by branch, `DoWork` is
`iotcore_mqtt_dowork` up to the pump, `PumpDone` its end; in the pump the
callbacks `ConnAckAccepted`, `ConnAckRefused`, `OnDisconnect` and `OnError` run,
and the application's own `Disconnect`. `DoConnect` and `CheckConnected` are the
loop of `iotcore_mqtt_doconnect`, `Destroy` is `iotcore_mqtt_destroy`. The tick
counter may fail: `connect_time` then keeps its old value and the two locals of
`doconnect`, which are not initialised, hold anything.

### AckContract, AckQueues

Entries are named by the call that made them. `alive` is the heap, `queue` the
two lists, `walk` the position of the failure walk and whether the application's
callback is running. The callback may publish, subscribe and unsubscribe.
`notify_subscribe_ack_failure` unlinks an entry after freeing it: the links it
then reads are "kept" (the freed memory still holds them) or "lost", which ends
the behaviour with `broken`. `Fail` is `on_mqtt_error_complete`, which starts
the walk; `Disconnected` is a session that ends without one:
`disconnect_from_client` after a CONNACK that did not come, or a DISCONNECT. Its
calls stay in the queues until a later session fails, or acknowledges a call
with the same packet id. `AckContract` states the promise without queues, ids or
walks; `AckQueues` implements it with `waiting <- alive \ Running` and `answered
<- {c : answers[c] > 0}`.

### SocketIo

`pending` is `pending_io_list`, each message with the bytes it has left, `pc`
is where dowork is, `wire` what the kernel took. A message is `Size` bytes that
carry its number, so a byte out of place is visible. `FlushPart`, `FlushWhole`,
`FlushBlocked` and `FlushFails` are the outcomes of `send` in the loop of
`socketio_dowork`. `stream` is what the bytes should be: every message written or
queued, whole, or as far as it got if it could not be queued. `fate` is what
`socketio_send` answered for each message and what became of it: a message that
met EAGAIN with nothing queued is "blocked", answered with 0 like an accepted one;
one that a failed send or a destroy freed is "discarded".

### HttpProxyIo

The response of the proxy is a status line, the end of its header and what
follows, delivered in any pieces. `Open`, `Close` and `Destroy` are the calls of
the user, the `OnUnderlying...` actions the callbacks of the io below, and
`CallbackReturns` is what a handler still does after it has called the user,
whatever the user has done meanwhile. `receive_buffer` is never emptied by the
code, and so not by the model.

### UwsClient

The hardest component: the client calls its io and its user, and both may call
it back inside the call. `stack` is the C stack at those points, one frame for
each piece of code that still has to run; a `user` frame is a callback of the
user, from which he may open, close, send and begin the close handshake. The
io below is one of three (`socketio`, `tlsio_openssl`, `http_proxy_io`) and
`XioOpen`, `XioClose` and `XioSend` say what each of them does inside a call and
what it leaves for dowork. A frame is two pieces, which may arrive apart.

What the model shows of this code, all of it visible in the definitions and
excluded from the properties by name where it matters:

- the close handshake frees the pending sends, but the io stays open and keeps
  their list items as contexts: a later completion uses freed memory (fault
  `dangling`);
- a close while a TLS io opens never ends: `tlsio_openssl_close` reports the
  open as cancelled before it leaves that state, and the client closes it again
  in that callback (fault `recursion`);
- a callback that opens the client again lets the handler that called it go on
  with the new connection: bytes of it are consumed (`underflow`), its open is
  answered twice over TLS, its state is overwritten with CLOSED at line 814;
- a PING leaves the client in ERROR and tells nobody; a masked frame is
  delivered after its error, with bytes of the next one;
- an open whose nonce cannot be encoded leaves the io open; a close with a NULL
  callback leaves the client in CLOSING_UNDERLYING_IO, which is not CLOSED, so
  that it cannot be opened again; a failed TLS io never calls its close back;
- a handshake whose CLOSE cannot be sent leaves the client waiting for an
  answer to it; a CLOSE of the peer cancels no pending send.

### TlsIo

`tlsio_state` is the state, `ssl` whether there is an SSL object, `flight` how
far its handshake is, `in_bio` and `out_bio` the two memory BIOs, holding
flights of the handshake and records, of which the io below reports any part at
a time. `stack` is the C stack where the io has called its user or the io below,
as in `UwsClient`: the actions of `Frames` are what a caller still does when
that returns, `Reports` what the io below reports by itself. OpenSSL is modelled
as used: a handshake of two flights on each side, records that decrypt to what
was encrypted or fail. Where the code allocates, the allocation may fail
(`MaxFailures` times).

What the model shows of this code beyond the properties:

- the comment at `tlsio_openssl.c:27-29`, that an API call never begins in
  HANDSHAKE_FAILED, is not true of an open whose io opens inside the call and
  whose first write fails; a close in that state never answers the open
  (`notAnswered`), nor does a `BIO_write` that fails in the handshake;
- closing over a proxy that is still opening, or from inside the callback of the
  open that the close cancels, answers the open twice (`answeredTwice`);
- an open from inside the close callback has its new SSL freed by the rest of
  `on_underlying_io_close_complete`, and dowork uses it (`reopened`, `freedBio`);
- a close from inside `on_bytes_received` is followed by an error callback and
  the state ERROR, so that the io cannot be opened before it is closed again
  (`closedInDecode`);
- a record that arrives with the end of the handshake waits for the next bytes;
  after a corrupted record the io stays OPEN and tells nobody; an error while
  opening leaves the SSL and the io below open until a close (`failedOpening`).

### WsIo

The client of `UwsClient` with `wsio.c` as its user: a frame `user` of the stack
is now a callback into `wsio.c`, which may end in a frame `app`, a callback of
the application. `WsioOpen`, `WsioSend`, `WsioClose` and `WsioDestroy` are the
calls, `WsFrames` what is left of a call of wsio or of the client, `WsReports`
the reports of the io.
`pending_io_list` holds the sends wsio has to complete. What the model shows:

- a close while OPENING answers the open as cancelled and leaves the client
  opening: wsio pumps it no more, and it cannot be opened again (`abandoned`;
  SRS_WSIO_01_085 of `wsio_requirements.md:110` has the websockets io closed);
- a close completes the pending sends before it writes NOT_OPEN: an application that
  opens wsio again from such a completion has its open run over, wsio closed over a
  client that opens (`abandoned` as well);
- after the peer's CLOSE the client is in CLOSING_SENDING_CLOSE, which nothing
  drives once wsio is closed; a failed TLS io keeps the close to itself;
- a later connection over a socket may complete a send of an earlier one, whose
  PENDING_IO wsio has freed (`freed`, which ends the behaviour);
- the double answer that `wsio.c:465` invites (the callback before the state
  leaves OPENING) cannot be reached with this client.

### HttpApiEx, HttpApi

`HttpApiEx` is `HTTPAPIEX_ExecuteRequest` alone: `k` is the level the handle
stands on, `st` the levels tried in this request, `lib` counts `HTTPAPI_Init`
without its `Deinit`, `conn` is the connection, and a request of the adapter is
a step that succeeds or fails. `HttpApi` refines that step to
`HTTPAPI_ExecuteRequest` of the compact adapter, down to the io: `pc` is the
place in it, one step is one turn of a waiting loop, `connected`, `ioError` and
`sendDone` are the flags the callbacks set, `received` is `received_bytes`. A
response is a sequence of tokens (CR, LF, a status line, a length, body bytes),
so that reading lines, a length or chunks can go wrong.

What the model shows: a request is executed up to three times
(`HttpApiEx_retries`); `conn_receive` counts no tries, so that the wait for a body
has no bound but the io's (`WaitsEnd` excludes it; `HttpApi_hang` shows the worst of
it); a LF that arrives after its CR becomes the first byte of the next line
(`split`), and a failed attempt leaves its part of a chunked body in the buffer for
the next (`leftover`). `BodyIsExact` excludes both; `BodyDespiteCuts` and
`BodyDespiteRetry` include one each, and fail.

### Gballoc

`next`, `ptr` and `size` are the fields of the list's entries, `head` its first,
`entries` and `blocks` what the C allocator has handed out. All of a call that
holds the lock is one action; `gballoc_free` reads `head` before it takes the
lock, so `Free` and `FreeLocked` are two. `size_t` counts modulo `SizeMod`; a C
heap that `size_t` can count never holds more than that (`Fits`), but the totals
may wrap all the same, since a block freed behind the module's back is counted for
ever and clearing the totals makes them too small.
`gballoc_requirements.md:135` says that the free is done under the lock; the
model shows what the early read costs (`harm = "stale"`): the walk begins at
an entry that another thread has freed, and does not find the block, or finds
another. The properties are about the behaviours in which that has not happened.

### CodeFirst

`table` is `g_Devices`, `header` what each device header holds, `schemas` the
schemas with the namespace and the reference counts of their models, `state`,
`agent` and `override` the module's globals. `CreateDeviceFails` is a create
whose allocations fail, after the schema was registered; `DestroyDevice` moves
the table, releases the model and with the last one the schema. A SERIALIZE is
`StartSend`, one `SendValue` per value and `EndSend`: values are collected by
path in a transaction, which is ended or cancelled. What the model shows:

- `g_OverrideSchemaNamespace` stays after a deinit, until the next init;
- a create that fails after it initialised the module lazily leaves it so, and
  `serializer_init` then fails;
- `FindChildModel` leaves the '/' in the path, so a path of two levels or more
  is never found;
- `DestroyDevice` moves the table with `memcpy` over itself (`smashed`), and
  `CodeFirst_Deinit` destroys devices without releasing their schemas
  (`orphaned`; SRS_CODEFIRST_99_005, the comment at `codefirst.c:458`, asks for
  all resources).

## The runs

A passing run explores its instance completely, and every property of one has a
mutant in `PROJECT.json` that breaks it. A violation run states what a document or a
comment of the repository says, and TLC shows a behaviour of the code that breaks
it. A property with a name of its own may have named parts, so that what belongs
together is checked and proved together. Deadlock is checked in the retry run; the
others really stop, after a destroy, a lock held for ever or a `fault`, and say
`CHECK_DEADLOCK FALSE`.

| Run | Distinct states | Properties |
|---|---|---|
| `RetryLogic` | 44,659 | `TimerTracksOutage`, `AttemptsBackOff`, `GivesUpOnlyAtLimit`, `RetriesEventually` |
| `MCIotcore` | 386,293 | `TransportOwned`, `ConnectedIsTrue`, `DisconnectIsFinal`, `FreshAfterLoss`, `AttemptsEnd`; `CallsAccounted`, `AcksAnswerTheirCall`, `FlushAnswers`, `ImplementsContract` |
| `SocketIo` | 85,627 | `MessagesAccounted`, `QueueDrains` |
| `HttpProxyIo` | 26,915 | `StandsOnUnderlying`, `PayloadIntact`, `OpenIsAnswered` |
| `TlsIo` | 44,897 | `OpenAnswered`, `SslFollowsState`, `RecordsIntact`, `Progresses` |
| `UwsClient` | 1,400,265 | `CallbacksRunOnce`, `FramesComeThrough`, `ClosesComplete`, `OpenIsAnswered` |
| `WsIo` | 312,854 | `WsTypeOK`, `WsSendsAccounted`, `ClosedBelow`, `WsOpenEnds` |
| `HttpApi` | 107,595 | `Balanced`, `BodyIsExact`, `WaitsEnd` |
| `MCServices` | 712,743 | `ListIsExact`, `TotalIsExact`; `TableHoldsTheLiving`, `RefsAreTheDevices`, `SendsTheLastValues` |
| `HttpApi_hang` | — | `FailureIsReported`, violated |
| `SocketIo_blocked` | — | `NothingIsLost`, violated |
| `HttpApiEx_retries` | — | `RetriedOnce`, violated |

Type correctness is a part of `CallsAccounted`, `MessagesAccounted`,
`TableHoldsTheLiving`, `SslFollowsState`, `CallbacksRunOnce`, `WsTypeOK` and
`BodyIsExact`, and a theorem in `RetryLogic`, `MqttConnection`,
`HttpProxyIo` and `Gballoc`.

### RetryLogic

The timer under all interleavings of doworks, CONNACKs, losses and ticks, with a
clock and an allocation that may fail. The timer's record agrees with what
happened (`TimerTracksOutage`); attempts keep their distance (`AttemptsBackOff`);
no giving up before the limit (`GivesUpOnlyAtLimit`); a broken connection is
tried again (`RetriesEventually`).

*Bounds.* The pause is 2 s instead of 5, the limit none or 9 s, the clock runs
from 3 to 16. That is room for five attempts of one outage, the later ones after
delays of 0, 0, 1 and 3 to 5 s: below and above the pause, and past the limit.
The theorems remove the bounds for everything but the liveness. *Fairness.* Weak
fairness of the dowork that reads its clock well (the application's loop), and
of time.

### MCIotcore, the connection

The status flags, the transport and the `doconnect` loop against all umqtt
callbacks. One transport is owned (`TransportOwned`); CONNECTED is true and a
session is not forgotten (`ConnectedIsTrue`); a disconnect is final
(`DisconnectIsFinal`); an attempt after a loss uses a new transport
(`FreshAfterLoss`). `AttemptsEnd` has four parts: a CONNACK is given its time
(`WaitsForConnAck`), and no longer (`ConnectingEnds`); `doconnect` tells the truth
(`DoConnectIsTruthful`) and returns (`DoConnectReturns`).

*Bounds.* Two transports, the old and the new: the code never holds a third. 4 s
of time, with a keep-alive of 1 s and a window of 2 s: a session can time out
and a second one be answered inside one window. No limit on retries and a
readable wall clock, since `RetryLogic` covers those; a retry timer that could
not be allocated, and a tick counter that fails. *Fairness.* Weak fairness of
dowork, the end of the pump, the loop of `doconnect` and time. None of the
callbacks is fair: a server need not answer.

### MCIotcore, the queues

Both queues under acknowledgements, failures of the connection, sessions that end
without one, and callbacks that call again. `CallsAccounted`: no entry leaks or
is freed while linked, the walk resumes at an entry that is still there
(`QueuesOwnEntries`), and no callback runs twice (`AnsweredOnce`). An
acknowledgement answers its own call, or one a whole number of id cycles away
(`AcksAnswerTheirCall`). `FlushAnswers`: a failure answers everybody who waits,
the calls of sessions that ended silently included (`FlushAnswersAll`), and comes
to an end (`FlushEnds`). The whole is what `AckContract` promises
(`ImplementsContract`).

*Bounds.* Four calls and ids 1 and 2, so that ids repeat with two or three calls
waiting and acknowledgements meet the wrong one. Four entries are enough to have
one before, one at and one behind the cursor and one added by the callback. The
theorems remove these bounds.
*Fairness.* Weak fairness of the walk, which is straight-line code, and of the
return of a callback: of these steps one at a time can be taken. `FlushEnds` needs the bound on calls: a callback that
subscribes again after each failure keeps the walk going.

### SocketIo

Every split of every write, EAGAIN, errors, failed allocations, with callbacks
that open, close and send. `MessagesAccounted`: the wire carries the messages in
order (`StreamIntact`), each is completed once at most and not while queued
(`CompletedOnce`), and those completed or queued are exactly those that
`socketio_send` took and that no error or destroy freed since (`Accounted`). The
queue drains (`QueueDrains`). A message that met EAGAIN with nothing queued was
answered with 0 and is in none of these; that it should be is `NothingIsLost`, which
`SocketIo_blocked` refutes.

*Bounds.* Four messages of two bytes: a message can be cut once and have others
queued behind it, three connections so that a queue survives two of them.
*Fairness.* Weak fairness of the steps of dowork; strong fairness of a kernel
that takes some bytes if it is offered bytes for ever, and of a `recv` that runs
dry. Without either, dowork itself would spin.

### HttpProxyIo

Every cut of the response, completions inside the call or later, a failing
`realloc` and a user who closes in any callback. The state agrees with the io
below and an open is answered once (`StandsOnUnderlying`), only a 2xx opens and
the payload is what the peer sent behind it (`PayloadIntact`), an open is
answered (`OpenIsAnswered`). The properties except connections that begin with
bytes left over from one before (see below).

*Bounds.* Three opens, so that bytes can be left over twice; replies of two to
four pieces. *Fairness.* The io below answers an open, the proxy's bytes arrive,
callbacks return.

### TlsIo

An open that was accepted is answered once when it is over, and not before
(`OpenAnswered`); the SSL and the io below are there exactly while the state says
so (`SslFollowsState`); records reach the user in order and none is stuck, what
he sent is on the wire once and in order (`RecordsIntact`); opens are answered
and the outgoing BIO empties (`Progresses`). The cases listed above are left out
by name, each where it can happen and nowhere else.

*Bounds.* Two opens, so that something is left from the first; two sends, two
records, arriving together or apart; one failing allocation; a socket that
completes inside the call and a proxy that does not. *Fairness.* Weak fairness
of dowork and of what runs after a callback, strong fairness of the end of the
pump, of the report of an open and of arriving bytes: a peer that falls silent
is `lost`, which excuses.

### UwsClient

All three ios below, every kind of frame, callbacks that close, send, begin the
handshake and open again. `CallbacksRunOnce`: the fields keep their types, an open is
answered once, sends are completed once and the list is exact. `FramesComeThrough`: frames arrive in order,
none is left undecoded, and callbacks do not make the decoder consume what it has
not read. `ClosesComplete`: CLOSED means the io is closed, closes complete, and
`on_ws_close_complete` runs once unless a callback opened the client again.
An open is answered in the end (`OpenIsAnswered`).

*Bounds.* Two frames per connection: one of any kind, and data behind it, which is
what shows whether the decoder went on. One send and two connections.
Opening again is tried from the open and the frame callback, the two the
client goes on after with work of its own, and callbacks are not nested in one another:
with `MaxDepth = 1` the user may call the client from a callback, and what that calls
back may not. *Fairness.* One weak
fairness for the code's own frames and for the reports of the io: an io that
holds something reports in the end. What it reports is not chosen by fairness, so
`OpenIsAnswered` holds for every order of the reports. A server that sends
nothing is not expected to be answered (`reply # <<>>`).

### WsIo

wsio, the client and the io in one state, with an application that opens, closes
and sends from its callbacks. An open is answered once (`WsTypeOK`); a send is
completed once and the list is exact (`WsSendsAccounted`); behind a closed wsio
the client is closed, but for the cases its comment names (`ClosedBelow`); an open
ends (`WsOpenEnds`).

*Bounds.* A socket or TLS below, since a proxy differs from them only while the
client opens, which `UwsClient` covers; one frame of data, CLOSE or a masked one, the
three that wsio tells apart; two sends, so that one is pending when the other is
completed; two connections, opened again from the open, the closed and the sent callback;
failing allocations are left to `UwsClient`. *Fairness.* As in `UwsClient`.

### HttpApi

Requests through the three levels, with responses cut anywhere, io errors at any
turn and silence. Every `HTTPAPI_Init` has its `Deinit` and every connection is
closed, whatever fails (`Balanced`); a request that succeeds returns the body the
server sent to it (`BodyIsExact`); the counted waits end (`WaitsEnd`).

*Bounds.* Two requests, the second on the level where the first left the handle;
requests of two writes; the counters of the waits at 0, 1 and 2 where the code
has thousands, which is below, at and above what a response needs; one partial
delivery per execution, at any place. *Fairness.* Weak fairness of the thread.

### MCServices, the memory accounting

Two threads that allocate, resize and free, init, deinit and the reset of the
metrics between their steps. The list is what is allocated (`ListIsExact`), the
totals are its sum (`TotalIsExact`), unless the early read of `head` has done
harm or the module was bypassed.

*Bounds.* Three blocks and entries, so that an entry has neighbours and an address
is used again; six calls; sizes 1 and 2, and a `size_t` of 5 values, so that the
totals wrap. The theorems remove these bounds. Threads and addresses are symmetric: the
module never compares them but for equality. No liveness.

### MCServices, the devices

Devices of three models in two namespaces, created, serialized and destroyed,
with failing allocations and inits and deinits in between. The table holds the
living devices (`TableHoldsTheLiving`), the schemas count them
(`RefsAreTheDevices`: whatever became of the table, and of a schema that a deinit
orphaned at least as many), a transaction holds each property once with its last value
(`SendsTheLastValues`).

*Bounds.* Three devices and four creates, so that an address is used again and a
device in the middle of the table is destroyed; three values. Device and schema
addresses are symmetric.

## Where the code and its text disagree

Three statements of the text are violation runs: a property, stated from the line
quoted, that a behaviour of the model breaks. The passing runs leave the same cases
out by name.

| Run | Text | What the code does | Property |
|---|---|---|---|
| `SocketIo_blocked` | `socketio_berkeley.c:812`, "come back later" | a message that meets EAGAIN with nothing queued is answered with 0 and neither sent nor queued; the Windows adapter queues it | `NothingIsLost` |
| `HttpApiEx_retries` | `httpapiex_requirements.md:108`, a step is retried at most once | climbing clears the mark of the next level: a handle that starts on the third level executes a request three times | `RetriedOnce` |
| `HttpApi_hang` | `httpapi_compact.c:605`, `readChunk` returns -1 in case of error | it takes the -1 of `conn_receive` for a length and calls it again, for ever | `FailureIsReported` |

`FailureIsReported` is a liveness property: `HttpSpec` has the weak fairness of the
thread, so that it is not for want of steps that the request does not return.

Nine more are stated in the same way. Each has a `.cfg` of its own beside the runs,
with which TLC finds it violated within seconds; they are not among the runs of
`PROJECT.json`, which keep to the passing ones and the three above.

| Configuration (module) | Text | What the code does | Property |
|---|---|---|---|
| `HttpProxyIo_stale` (`HttpProxyIo`) | `http_proxy_io_requirements.md:245`, an unsuccessful status is an error | the response of the connection before is still in `receive_buffer` and is parsed first: a refused connection opens | `RefusalFailsTheOpen` |
| `HttpProxyIo_memory` (`HttpProxyIo`) | `http_proxy_io_requirements.md:237`, without memory the open fails | it fails, and the handler goes on to parse what an earlier connection left: the same open succeeds as well | `NoMemoryNoOpen` |
| `TlsIo_failed` (`TlsIo`) | `tlsio_openssl.c:27-29`, no API call begins in HANDSHAKE_FAILED | a handshake that begins inside the open over a socket and cannot write leaves that state, which only dowork looks for | `HandshakeFailedIsBrief` |
| `UwsClient_twice` (`UwsClient`) | `uws_client_requirements.md:209`, the callback is triggered when the close is complete | the peer's CLOSE that answers the client's own is answered again, and the io closed again: the callback runs twice | `CloseToldOnce` |
| `WsIo_close` (`WsIo`) | `wsio_requirements.md:110`, a pending open is closed | the client below is left opening | `PendingOpenIsClosed` |
| `HttpApi_split` (`HttpApi`) | `httpapi_compact_requirements.md:324`, the content is copied | a LF that arrives after its CR becomes an empty line and ends the headers: the body is not read | `BodyDespiteCuts` |
| `HttpApi_retry` (`HttpApi`) | the same | a retry appends its chunks to those of the failed attempt | `BodyDespiteRetry` |
| `Gballoc_race` (`MCServices`) | `gballoc_requirements.md:135`, free is done under the lock | `head` is read before it is taken, and need not be the first entry any more | `FreeIsThreadSafe` |
| `CodeFirst_deinit` (`MCServices`) | `codefirst.c:458`, deinit frees all resources | the devices are destroyed and their references kept: a schema outlives the module | `DeinitFreesAll` |

Some more are visible in the models and not stated as properties, because the text is
too loose to be turned into one, or is about the order of two lines:

| Text | What the code does | In the model |
|---|---|---|
| `iotcore_retry_logic.c:36`, no retry more than once every 5 seconds | an accepted CONNACK resets `last_connect` to the epoch; a connection lost at once is attempted again in the same second | `StopRetryTimer` |
| `iotcore_mqtt_client.c:924`, the timeout is the window for connecting | `is_recoverable_error` stays cleared after a permanent refusal: every later `doconnect` starts an attempt, pumps once and gives up | `CheckConnected` |
| `iotcore_mqtt_client.c:456`, first remove the item | the callback runs, the entry is freed, then it is removed through its own links | `CallbackReturns`, `broken` |

## Proofs

Eight modules. `DataLemmas` has what the others share: induction, recursive
functions and removal from a sequence. `ClientProofs` is about the iotcore client:
the retry timer, the two specifications that use it, and the waiting queues;
`SocketIoProofs`, `HttpProxyIoProofs`, `TlsIoProofs` and `UwsClientProofs` are about
one component each; `WsIoProofs` stands on the last and adds wsio; `ServiceProofs` is
about the three that stand apart from the rest, the HTTP client, the serializer's
devices and the memory accounting, whose variables share no name. No theorem uses fairness, and all hold for every value
of the constants that the named assumptions admit.

| Theorem of `ClientProofs`, the timer | Statement |
|---|---|
| `TimerTypeCorrect` | `RetrySpec => []RetryTypeOK` |
| `TimerIsFaithful` | `RetrySpec => []TimerTracksOutage` |
| `BackOff` | `RetrySpec => AttemptsBackOff` |
| `WithinTheLimit` | `RetrySpec => AttemptsWithinLimit` |
| `NoEarlyGivingUp` | `RetrySpec => GivesUpOnlyAtLimit` |
| `GivingUpIsFinal` | `RetrySpec => GaveUpForGood`: an expired timer stays expired, and while the clock is readable no attempt follows |
| `LostClockStays` | `RetrySpec => LostClockIsForever`: a `start` that could not be read is never set again and no attempt is counted any more, so the back-off is off for good |

| Theorem of `ClientProofs`, the connection | Statement |
|---|---|
| `TypeCorrect` | `Spec => []TypeOK` |
| `OwnsItsTransport` | `Spec => []TransportOwned` |
| `ReportsTheTruth` | `Spec => []ConnectedIsTrue` |
| `DisconnectStays` | `Spec => DisconnectIsFinal` |
| `NewTransportAfterLoss` | `Spec => FreshAfterLoss` |
| `DoConnectTellsTheTruth` | `Spec => DoConnectIsTruthful` |
| `ConnAckIsAwaited` | `Spec => WaitsForConnAck` |

| Theorem of `ClientProofs`, the queues | Statement |
|---|---|
| `CallsAreAccounted` | `QueuesSpec => []CallsAccounted` |
| `AcksFindTheirCall` | `QueuesSpec => AcksAnswerTheirCall` |
| `ContractIsKept` | `QueuesSpec => ImplementsContract`: the queues refine `AckContract` |

| Theorem of `SocketIoProofs` | Statement |
|---|---|
| `SocketMessagesAccounted` | `Spec => []MessagesAccounted`: the wire carries the bytes of the messages written or queued, in order; each is completed once at most and not while it is queued; and the messages completed or queued are exactly those that `socketio_send` took (not those it blocked or refused) and that nothing freed since |

| Theorem of `HttpProxyIoProofs` | Statement |
|---|---|
| `TypeCorrect` | `Spec => []TypeOK` |
| `StandsOnItsIo` | `Spec => []StandsOnUnderlying` |
| `PayloadComesThrough` | `Spec => []PayloadIntact` |

| Theorem of `TlsIoProofs` | Statement |
|---|---|
| `OpensAreAnswered` | `Spec => []OpenAnswered` |
| `SslIsThereWhenOpen` | `Spec => []SslFollowsState` |
| `RecordsStayIntact` | `Spec => []RecordsIntact` |

| Theorem of `UwsClientProofs` | Statement |
|---|---|
| `EveryCallbackRunsOnce` | `Spec => []CallbacksRunOnce`: the types hold, an open is answered once at most, each send is completed once at most, and the list holds exactly the sends that are not |
| `DecoderHasItsBytes` | `Spec => []DecoderOwnsItsBytes`, a part of `FramesComeThrough` |
| `FramesStayInOrder` | `Spec => []FramesComeThrough`: frames arrive whole and in order, none twice, none left out, and none that is there waits |
| `ClosesEndWell` | `Spec => []ClosesComplete`: CLOSED means that the io is closed, a close completes, and its callback runs once |

| Theorem of `WsIoProofs` | Statement |
|---|---|
| `WsioIsTyped` | `WsSpec => []WsTypeOK`: the types, and an open is answered once at most |
| `WsioClosesBelow` | `WsSpec => []ClosedBelow`: behind a closed wsio the client is closed, but for the cases named |
| `WsioAccountsForSends` | `WsSpec => []WsSendsAccounted`: each send is completed once at most, the list is exact between calls, and no completion of the first connection reaches a freed item |

| Theorem of `ServiceProofs` | Statement |
|---|---|
| `ImplementsLevels` | `HttpSpec => ExSpec`: the adapter refines the steps of `HttpApiEx` |
| `LevelsBalance` | `HttpSpec => []Balanced` |
| `RetriesEnd` | `HttpSpec => []AttemptsBounded`: a request is executed three times at most, one more than is documented |
| `TableIsTheLiving` | `Spec => []TableHoldsTheLiving` |
| `SchemasCountDevices` | `Spec => []RefsAreTheDevices` |
| `LastValuesAreSent` | `Spec => []SendsTheLastValues` |
| `GballocIsTyped` | `GballocSpec => []GballocTypeOK` |
| `ListStaysExact` | `GballocSpec => []ListIsExact`: from `head` the list visits every entry and ends, and a block is found exactly when it is tracked, with its size |
| `TotalStaysExact` | `GballocSpec => []TotalIsExact` |

*Assumptions*, stated where the constants are declared. Of most constants they say
that bounds are naturals, that sets of addresses and devices are finite, and that a
NULL is none of the handles or records it stands in for (`TimerAssumption`,
`ClockAssumption`, `StartAssumption`, `ConnectionAssumption`, `ProxyAssumption`,
`TlsAssumption`, `UwsAssumption`, `HttpAssumption`, `CodeFirstAssumption`, `DataAssumption`). Beyond that:
`UserOpsAssumption` keeps the frames of the client's callers apart from its own, and
`WsAssumption` has those of wsio among them;
`QueueAssumption` has `UshrtMax > 1`, so that there is a packet id to hand out; `SocketAssumption` has messages of at least one byte, which
`socketio_send` demands, and `MaxOpens >= 1`, since the io is created with a socket
to open; `GballocAssumption` has sizes that are not zero and fit into `size_t`.

**One call of the timer.** `CanRetryCases` reduces `can_retry` to five cases:
it changes nothing, tries for the first time, restarts the timer after a
success, evaluates the policy, or gives up. It needs only that the timer has its
type and does not run before the first attempt (`FreshTimerIdle`).
`StartedFields`, `StoppedFields` and `FieldUpdates` say what each case does to
each field. `DelayFloor` says that a delay is never below a half delta it is
drawn from, `DelayNat` that no delay is negative, whatever the shift; it rests
on `ShiftPositive`, which lists the 32 shifts the code can perform, so that no
induction is needed.

**The timer.** `IInv` is `TypeOK`, `StartReadable`, `Untouched` and
`TimerTracksOutage`, which alone is not inductive. An attempt is made by a first
call, by a timer that runs, or by a `can_retry` that cannot read the time and
says yes without recording anything; `StartReadable` rules the third out while
no read has failed. `Untouched` says that before the first attempt the timer
neither runs nor has expired and no attempt was counted, and that a timer that
was never allocated stays as it was; without it the first call could find a
timer that already tracks an outage. `TypeOK` carries that `last_connect` is a
natural number. `AttemptCases` says that a counted attempt is the first one or
an evaluated one; with the invariant, `BackOff` follows from `last_connect =
lastAttempt` and `DelayFloor`, `WithinTheLimit` from `start = outageStart` and
`DelayNat`.

**The connection.** `IInv` adds to `TypeOK`, `TransportOwned` and
`ConnectedIsTrue`:

- `SessionAccounted`: a client that is CONNECTING has no established session,
  without which a time-out could destroy the transport under a session that is
  up; and a session that is opening is waited for or known to be lost, without
  which the time-out could cut a live one short;
- `CondemnedIsLost`: only a permanent refusal clears `is_recoverable_error`, and
  it records a loss;
- `AttemptTimed`: the time-out counts from the attempt, if that read the time;
- `DestroyedStops` and `FreshTimerIdle`.

`ConnectCases` and `DisconnectCases` say what the two calls of the umqtt client
leave of it; `TryConnectKeeps` and `InitializeKeeps` carry the invariant through
the branches of `initialize_mqtt_connection`, `NextIInv` through the callbacks
and the calls of the application. `OpeningStep` then says where a session can
begin at all: only in `initialize_mqtt_connection`, in a client that was neither
disconnected nor destroyed, and after a loss only on a new transport. That is
`DisconnectStays` and `NewTransportAfterLoss`.

**The queues.** `QueuesIInv` adds to `CallsAccounted`:

- `WalkSound` and `RunningUnlinked`: what a walk in progress may look like, and
  that while a callback runs only a failing subscription is still linked; without
  it `CallbackReturns` could free an entry that a list still has;
- `InOrder`: the queues are in the order of the calls, none of which is still to
  be made, and the server owes a call an acknowledgement of its own kind. The
  first entry with an id is then the oldest, and a removal by position is a
  removal by name;
- `IdsCycle`: `get_next_packet_id` hands out `UshrtMax - 1` ids in turn, so that
  calls with the same id are at least that far apart.

`Enqueue` and `Dequeue` say what linking and unlinking do to a queue as a sequence
and as a set, on `AppendKeeps` and `RemoveKeeps` about sequences; `CallKeeps`
is the step of any call of the application, `NextQueuesIInv` has a lemma per other
action. `NextContract` maps each step: a queued call is `Wait`, one answered
before it returns `AnswerAtOnce`, an acknowledgement and a visit of the walk are
`Answer`, and all else is a stutter, the end of a callback included, because the
entry left `waiting` when its callback began.

**The socket.** `IInv` of `SocketIoProofs` adds to the two parts of
`MessagesAccounted` that a callback runs for the first message of the queue
(`InCallback`), and for each message that it is completed only after it was sent
and queued once (`DoneOnce`, `QueuedOnce`). Without the last, the completion that
ends a flush could be the second of a message that is queued twice. The bytes are
an argument about `FlattenSeq`, a fold from the left: `FlattenSteps` unfolds it by
induction, `FlattenTail` takes it apart at the front, where the flush works, and
`ContentAppend`, `ContentTail` and `ContentShortened` say what queueing, sending a
message whole and sending a part of it do to the bytes that are left. Each outcome
of `send` then moves bytes from one side of `wire \o Content(Queued)` to the other.
`Accounted` is an invariant of its own over `IInv` (`NextAccounted`): `Members` is the
queue as a set, and each step moves a message between the queue, the completed ones
and the other fates.
The proof is also what showed that `MaxOpens = 0` has no meaning.

**The proxy.** `IInv` of `HttpProxyIoProofs` adds to the two properties and
`TypeOK`: what a handler still has to do fits the state (`ResumeOfCallback`);
bytes left over that hold the end of a header are still in the buffer (`Keeps`),
which is why one stale response makes all later opens suspect; while there is no
stale response the state and the io below move together and an open that is
pending has no answer (`Sound`); and on a buffer that began empty, what was
received and what is to come make up the reply (`Gathers`), so that what follows
the header is the payload, wherever the stream was cut.

**The TLS io.** `IInv` of `TlsIoProofs` is `TypeOK` and three layers:

- `Stacked`: what may lie on the stack. The pump of dowork is at its bottom, a decode
  directly above it, and a report of the io below on top of everything. `PushOne`,
  `HasPush`, `StackedPush` and `StackedPop` say what a call and a return do to it, so
  that no proof about an action looks into a stack again;
- `Flowing`, which holds of every state, whatever callbacks did. `Coming`: what is in
  the incoming BIO and on the network, taken together, is what a server sends to a
  client that is that far. `Going`: a flight that still waits to be sent was not
  answered yet. `Established`, `Drained` and `Decodes` tie this to the state;
  `Drained` is what rules out a record that nobody reads, and its one exception is
  the record that came with the end of the handshake (`early`). `OnItsWay` numbers
  what was sent;
- as long as no callback opened the io again, `AnswersFit`, `UnderFits` and `SslFits`:
  which answer, which state of the io below and which SSL go with the state and with
  what the stack has still to do. Each holds in the middle of a close or of a failing
  open, where the properties themselves do not: a frame of `closes`, `forced`,
  `openFails` or `freeSsl` is there to put it right. When the stack is empty
  `BetweenFits` turns them into the properties.

`FlowsOn` and `NormOn` are what an action keeps that does not touch a layer, `PopKeeps`
what a return keeps; `WriteOutcome`, `AnswerComes` and `WriteCarries` are about
`write_outgoing_bytes`, `Handshake` about the five outcomes of
`send_handshake_bytes`, which two actions share. There is then one lemma for each
action.

**The websocket client.** `IInv` of `UwsClientProofs` is the types and four parts:

- `Stacked`: a report of the io runs at once, on top of everything; the loop of the
  decoder is alone at the bottom; the bytes of a frame are consumed there or directly
  above it. `StackedPush`, `StackedPop`, `Put` and the lemmas on it say what calls
  and returns do to it;
- `Accounts`: a send is listed once and not completed while it is listed; one that was
  accepted and not completed is listed; one that is listed and was not accepted has a
  frame of `sendFails` that is to take it out again. That is the gap in which
  `xio_send` has called back already and the caller does not know yet that it failed.
  Without the frames, a callback in the gap could complete a send that is then
  reported as never accepted;
- `AnswersFit`, as long as no callback opened the client again: while an open is
  pending, the io opens or a report of the end of an open is on top, nothing was
  answered; a close of the io from inside `on_underlying_io_open_complete` occurs
  only for a TLS io that is still opening; a frame that is to be consumed is not
  longer than what was received;
- what remains of that also where one of the two other faults has ended the behaviour:
  at most one answer, and no underflow of the buffer.

`Connects` (an io that is still opening is not a socket, which connects or fails
inside the call) is an invariant of its own. `XioCloses`, `XioSends` and `XioOpens`
say what a call of the io may report and leave, `CompletedAccounts` what completing
a send does to the accounts; there is one lemma for each action. The proof corrected
a property: `CloseCompletes` had `on_ws_close_complete` run once, also where a
callback opened the client again, which the bounds of the run happen to allow and
larger ones do not.

`FramesStayInOrder` needs a second invariant beside `IInv` and `Connects`, `Streams`:

- `Flowing` is about the bytes. While the client opens, `received \o inbound` is all
  that the server has to say and the user was given nothing (`EnterFits`). While it
  is OPEN there is a frame x such that `received \o inbound` begins with it
  (`Coming`) and the data frames before it, in order, are what the user was given
  (`Given`; frame x too, when the stack holds a `consume` for it: `OpenFits`).
  Excepted are an open that is about to end with an error (`Broken`), whatever the
  state says, and the time after a close handshake that was begun in ERROR (`asked`),
  which may start in mid-frame. A masked frame reaches the user only as the first one
  of a client that no longer reads (`MaskedFits`). `WaitFits` is what makes no frame
  wait: where an OPEN client has a whole frame in its buffer, the loop of the decoder
  is on the stack, whatever its callbacks called in between, unless the server sends
  PONGs, which end the loop;
- `TlsFits`: a TLS io that cancels its open in the middle of a close is opening until
  the cancel has returned, and the client that was told is CLOSED. Without it a
  second close could run under the first, and the client could open in between;
- `FramesInOrder` itself, since it must survive when the client stops reading.

`Moved` is what a step keeps that runs no decoder: the frames of the decoder on the
stack (`Lows`), and `TlsFits`. Each action has a lemma that it moves the stack or one
on what it does to the stream. `TakeFront`, `Shift`, `NextFrame` and `ReplyShape` are
about cutting the pieces of a reply.

`ClosesEndWell` needs a third, `Completing`, which says what is still to be put right
wherever a close, or a failing open, has not got to its end:

- `UnderFits`: a client that uses its io has it open; one that waits for its io to
  open, or was told that it did, says so;
- `Answering`: a client in CLOSING_SENDING_CLOSE has the CLOSE to send, under way or
  lost. Excepted is a client that a callback of the decoder opened again, which
  consumes what is no longer there (`Doomed`) and cannot go on;
- `Failed` and `Closing`: a client in ERROR has an io to close, and one whose close is
  pending has cancelled its sends or has a frame `cancel` that will, and has in
  CLOSING_UNDERLYING_IO a report of the io to come, unless TLS keeps it to itself;
- `ClosedFits`: CLOSED has a closed io, also in the middle of a step that ends there;
- `Noticed` and `Fresh`: how often `on_ws_close_complete` has run.

There is one lemma per action for each of the three. Those about the calls take the
stack that the call returns to (`Resumes`) and not what the caller does
next, and those about what a caller does by itself (`CallerStep`) ask only that it
leaves the client alone; so they serve wsio, or any other user, as well.

**wsio.** The three invariants of the client (`Core`) hold with wsio as its user, and
`WsIoProofs` adds what wsio can rely on and what it keeps. `WsCore` is:

- `StackFits`: a callback of the client runs on top of everything; under another frame
  lies at most the one for the peer's CLOSE, and then only what the decoder still has to
  consume is under it; and where wsio returns from a failed open, the client just did.
  `From` is what a step of the client leaves of the frames of its callers, `Holds` what
  a step of wsio adds to the stack;
- `Tells`: what a callback says is so when it runs: an open that was answered with OK
  is of a client that is OPEN, `on_ws_close_complete` of one that is CLOSED, an error of
  one in ERROR. `Works` collects what one step of the client means for wsio, and each
  action of the client has its lemma for it (`ClientWorks`);
- `WsTypes` and `States`: while wsio is OPENING nothing was answered and the client does
  not fail without telling it (`OpeningFits`), which is why the branch at `wsio.c:465`
  is never taken; once wsio is NOT_OPEN or closing, or is about to be, its client is
  closed or closing, or sits in a callback of a connection that was opened over it and
  consumes what is not there (`LowFits`). `WsioClosesBelow` is that on an empty stack;
- `WsAccounts`: a send that was accepted and not told is in the list, one in the list
  that was not accepted yet has a frame of `wsio_send` on the stack, and what was told
  is not in the list.

What no step of `WsCore` shows is that the completion of a send finds its item. That is
`First`, about the first connection: `Kept` has every accepted send that the client
holds in the list of wsio too. It may fail only after a close of a client that was closed
or closing (`Over`), whose sends wsio cancels while the client keeps them, with nothing
left to report them. The order matters where both sides cancel: `CancelsAbove` has the
client's `cancel` above that of wsio, so that wsio frees only what the client has
completed.

**The levels.** `ExInv` of `ServiceProofs` is `ExTypeOK`, `Balanced`,
`LevelOfStep` (on which level which step can happen) and `runs + Left <= 3`, where
`Left` counts the executions that the levels not yet tried still allow; climbing
and falling back keep the sum. `StepRefines` maps each step of `HttpApi` to one of
`HttpApiEx` or a stutter, so that both properties hold of the composition without
a proof about bytes.

**The memory accounting.** `GballocIInv` of `ServiceProofs`, each part under what must not
have gone wrong for it:

- `Linked`: while no stale `head` did harm, there is an order in which the entries
  are the list from `head`. `ChainPush` and `ChainUnlink` keep such an order;
  `WalkValues`, `WalkVisits` and `WalkFinds` turn it into what the walk of the code
  visits and finds, by induction along the list;
- `BlocksListed` (`OneToOne`): while no tracked block was freed outside either,
  entries and tracked blocks correspond one to one. That a block is listed once is
  what makes `Found` enough to unlink the right entry, and that the sizes agree is
  what the total stands on;
- `Totals`: what was counted and what was forgotten at the last clearing are the
  listed sizes modulo `SizeMod`, and with nothing forgotten the total is not above
  the maximum. The lemmas `SumRemove`, `SumUpdate`, `ModShift` and `MinusPlus`
  carry it through the arithmetic of `gballoc_realloc`, which subtracts first;
- `FreedOnce`: the block a thread is about to free is nobody else's, and is still
  allocated. It is the caller's half of the bargain, kept across the gap before
  the lock, and without it a `FreeLocked` could unlink another thread's block;
- `Counters` (`Fits`): the tracked sizes fit into `size_t`.

The proof corrected the property. `TotalIsExact` said that a total without anything
forgotten is the listed sizes, not modulo: that follows only while no tracked block
was freed outside, since the entries of such blocks stay counted and can exceed
`size_t` where the heap itself cannot. The run has a `size_t` small enough to wrap.

**The devices.** `IInv` of `ServiceProofs`:

- `Lifetimes`: the agent exists while the module is initialised, the table is empty
  while it is not, and unless it was smashed the table lists the living devices,
  each once. `TableShrinks` is the move down of `DestroyDevice`, `TableGrows` its
  counterpart;
- `Known`: the schema and the model of a living device are there;
- `Counts`: a reference count is the number of devices that use the model. A schema
  that a deinit orphaned keeps counts that are too high. What has to be shown of it
  is that they are never too low, so that no later release takes a schema away from
  a device that uses it;
- `SendTracksCall`: the values collected so far name each path once, name exactly
  the paths given so far, and each was the last to name its path. `Replaces` says
  this of one `PublishTransacted`, and `SendAllReplaces` of the fold over the
  properties of a model, by induction on how many it has taken.

`RefsAreTheDevices` used to except a smashed table. The proof needed no such
exception, because `DestroyDevice` finds the schema through the device and not
through the table, and the property is now stated, run and proved without it.

**Recursion.** TLAPS has no induction rule that these provers can apply to a
formula, but it has sets: `LeastNumber` and `NumberInduction` of `DataLemmas` prove
`Nat \subseteq T` for a set `T` that is closed under successor, from the
well-foundedness of the naturals; `RecursionExists` and `SetRecursionExists` build
a recursive function on `1 .. K` and on the subsets of a finite set, so that the
CHOOSE behind `FoldLeft`, `FoldSet` and the walk of the list can be unfolded.

*Only model-checked.* Liveness under fairness (`RetriesEventually`, the two
liveness parts of `AttemptsEnd`, `FlushAnswers`, `QueueDrains`, `OpenIsAnswered`,
`Progresses`, `WsOpenEnds`, `WaitsEnd`), which is beyond this prover. And the
bytes of `HttpApi` (`BodyIsExact`).

## Assumptions about external code

- **umqtt** is a git submodule that is not in the tree. It is modelled from how
  `iotcore_mqtt_client.c` uses it: it is bound to the transport it was last
  connected on, its session is idle, opening, up or closing, and it reports
  through the operation and error callbacks, inside a pump or inside the call
  that sends. A disconnect of a session that is up is sent or fails; any other
  is closed at once. An error may or may not close its session.
- **The io under the proxy** is any xio: open and close complete inside the call
  or later, once, and a close does not fail.
- **The io under the websocket client** completes a close inside the call. That
  is so for every io of this library that can be there: the socket, the TLS
  back ends and the proxy over them.
- **OpenSSL**: a handshake of two flights on each side; `SSL_read` and
  `SSL_write` work on the two memory BIOs; a corrupted record is an error.
- **The io under the http adapter** reports at most one thing in a turn of a
  loop; a server answers when it has the whole request, in one of five ways.
- **The C allocator** hands out any free address, or none. A freed allocation
  may show other contents.
- **Kernel**: `send` takes any part of what it is offered, says EAGAIN or
  fails; it fails on a closed socket. `recv` returns bytes or an error.
- **Users**: one thread, except of the memory accounting. They do not call
  destroy from inside a callback, which no io of the library supports. The user
  of the proxy does not open it from inside an open.

## What is not modelled

- The waiting calls and the connection in one state: `AckQueues` takes the end of
  a session as a step of its own (`Fail`, `Disconnected`), which is more than the
  connection lets happen.
- `xio`, options, parameters, versions: they pass calls through or copy strings.
- Containers, encoders, hashes, string handling, JSON, the marshalling of values
  and the multitree, commands and types of the serializer: sequential data and
  conversions, covered by the repository's unit tests, without a state that
  outlives a call.
- Of the http api: saved options, `HTTPAPIEX_SAS`, a body nobody asked for, lines
  longer than the buffer, and the curl, winhttp and wininet adapters, which are
  I/O over a library.
- Of the TLS io: options, certificates, OpenSSL's locks, and the other back ends,
  which repeat it over other libraries.
- Of the websocket client and wsio: options, the frame encoder, the UTF-8 checker.
- Threads, locks, clocks: thin calls. A failing clock is modelled where the code
  reacts to it.
- The Windows, mbed and Arduino variants of an adapter; the Berkeley socket
  stands for the family.
- The text of messages and requests: a status line is successful or not, a
  frame is of a kind.
- Wall-clock time running backwards.
- Test tools and vendored test frameworks, samples but for their polling loop.

Some hazards of `PROJECT.json` have no property of a run, each with its reason there.
Nine are the configurations above. `start_retry_timer` that cannot read the clock is
stated as what it does (`LostClockStays`). The two faults of `UwsClient` (`dangling`,
`recursion`) end the behaviour, because what follows is undefined. The others go wrong
in a callback that calls the library again (a failure callback that subscribes, a close
inside `on_io_open_complete` of the proxy or `on_bytes_received` of TLS) or leave the
client dead after a PING: they are modelled and the properties except them by name, and
no text of the repository promises otherwise.

## Plan

Done: every component whose state outlives a call, alone or with the one it
stands on. What would add most next:

1. **`IotcoreClient`** = `MqttConnection` and `AckQueues` in one state, with the
   promise that every accepted call with a callback is answered unless the client
   is destroyed: which sessions end by `Disconnected`, and when.
2. **`XioContract`**, an abstract io (opened once, closed once, bytes in order)
   that `SocketIo`, `HttpProxyIo` and `TlsIo` implement where they do, and that
   `UwsClient` could stand on instead of three cases.
3. Proofs: `BodyIsExact` of `HttpApi`; on a later connection of wsio, that only a
   socket can complete a send of an earlier one.
4. Saved options and the body that is skipped in the http api; the marshalling of
   a transaction, against a reference for "all or nothing".
