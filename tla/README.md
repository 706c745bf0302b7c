# Verification of frpc.js

TLA+ models of the client in `src/src`, the TLC runs that check them on small
instances, and TLAPS proofs for all instances. Paths below are relative to
`src/`, the repository.

    tlc -workers 2 -config MCWorkConnPool.cfg MCWorkConnPool
    tlc -workers 2 -config MCCalm.cfg MCControlChannel      # MCHarsh, MCGivesUp, MCStop
    tlc -workers 2 -config MCStcpVisitor.cfg MCStcpVisitor  # MCUnheard
    tlc -workers 2 -config MCWorkStream.cfg MCWorkStream    # MCTruncated
    tlc -workers 2 -config MCHttpConnection.cfg MCHttpConnection
    tlc -workers 2 -config MCHeartbeat.cfg MCHeartbeat
    tlc -workers 2 -config MCControlCipher.cfg MCControlCipher
    tlapm WorkConnPoolProofs.tla       # and the same for ControlChannelProofs,
                                       # StcpVisitorProofs, WorkStreamProofs,
                                       # HttpConnectionProofs, HeartbeatProofs,
                                       # ControlCipherProofs, SequenceFacts

Each component has a module with its state and actions, an `MC` module with the
instances for TLC, and a `Proofs` module. Definitions named `Mutant...` are
plausible slips in the action that follows them; no specification uses them.
Each shows that a property would notice the slip.

## The system

`FrpClient` (`src/client.ts`) owns one `ControlChannel`. The channel dials the
server, logs in, wraps the connection in encryption, and from then on runs
three things side by side: a read loop, a heartbeat, and a startup task that
registers the proxies and starts the STCP visitors and the health monitors. The
server asks for work connections (`ReqWorkConn`), which a `WorkConnPool` dials
and hands to the handler of the proxy that `StartWorkConn` names. When the
session ends, `run()` pauses and connects again.

Everything runs on one JavaScript event loop. What is concurrent is the async
functions: each runs alone from one `await` to the next, and between two of its
awaits any other may have changed the fields they share. Nothing in the code
cancels an async function; it goes on after its session is over.

| Component | State | Operations | Hard behaviour |
| --- | --- | --- | --- |
| control channel (`src/control/channel.ts`) | connection, reader, pool, proxy map, pending answers, visitors, monitors, stopped, attempt | `run`, `stop`, registration, the server's messages | startup outliving its session, answers racing timers and teardown, stop at any await |
| work-connection pool (`src/control/pool.ts`) | live, total, active, six counters, set of sockets | `expand`, `stop`, `addProxy`, `removeProxy`, `stats` | limit against promises that settle later, stop racing a dial, failures at each await |
| health monitor (`src/control/health.ts`) | healthy, failed, stopped, timer | ticks, two callbacks into the channel | stop during a check, a failed callback |
| STCP visitor (`src/visitor/stcp.ts`) | server socket, user sockets, server-side sockets | `start`, `stop`, one forwarded connection | stop during listen or dial |
| mux (`src/net/mux.ts`) | yamux client, streams | `open`, `close` | close with streams open |
| framing (`src/protocol/codec.ts`, `wire.ts`) | partial frame, queue, waiter | read, read with tail, write | chunk boundaries, handing the rest to the next reader |
| crypto, compression (`src/protocol/crypto.ts`, `compression.ts`) | nonces, write chain, pending transforms | write, data, end, destroy | overlapping writers, order of asynchronous transforms against end and close |
| limiter (`src/protocol/limit.ts`) | tokens, last refill, delayed chunks | take, write, data | rounding, close with data held back |
| heartbeat (in `channel.ts`) | `lastPong`, sender, watcher | Ping, Pong, timeout | a token that outlasts its session, the clock against a slow login |
| authentication (`src/auth.ts`) | cached token, expiry, pending request | login, ping, work connection | shared request that fails, expiry |
| handlers (`src/handler/`) | per connection | tcp, udp, http, PROXY protocol header | a backend that does not answer |
| HTTP server side (`src/http/`) | unread bytes | read requests, write responses | body framing, pipelining |
| dashboard (`src/webui/`) | states per proxy and visitor, events | setters, HTTP page | none that other parts depend on |
| proxy types (`src/types.ts`) | one connection per request to an HTTP backend | normalisation of options, asking the backend | defaults and zero values; a backend that closes early |

What makes them correct, in short: the pool's gauges and sockets are exact
whatever fails; client and server agree on the registered proxies; no waiter,
listener, socket or monitor is lost sight of by the teardown that should end
it; a session ends when its connection does; `run()` ends after `stop()` and
not before its retries are used up; a session whose server is silent ends, and no
other; streams deliver their bytes in order and completely before they end.

## Modules

| Module | Models |
| --- | --- |
| `WorkSlots` | what the pool promises: a bounded set of slots that drains once closed |
| `WorkConnPool` | `pool.ts`, one action per await of `#worker` and `#dispatch` |
| `MCWorkConnPool` | its instance for TLC |
| `WorkConnPoolProofs` | its theorems |
| `ControlChannel` | `channel.ts`, with the health monitors and visitor listeners it owns |
| `MCControlChannel` | its instances: `MCCalm`, `MCHarsh`, and two violations |
| `ControlChannelProofs` | its theorems |
| `StcpVisitor` | `visitor/stcp.ts`: one visitor and its users |
| `MCStcpVisitor`, `StcpVisitorProofs` | its instances and theorems |
| `TokenBucket` | the arithmetic of the bucket of `limit.ts` |
| `WorkStream` | the layers `#wrapWorkConn` puts around a work connection, and the pipe: `limit.ts`, `crypto.ts`, `compression.ts` |
| `MCWorkStream`, `WorkStreamProofs` | its instances and theorems |
| `FrameReader` | how the bytes of a connection pass from reader to reader: `codec.ts`, `wire.ts`, `udp.ts` |
| `HttpBackend` | extends it by the connections to an HTTP backend: `httpBackendHandler` of `types.ts` |
| `HttpConnection` | extends both by the connections of HTTP proxies: `handler/http.ts`, `http/parser.ts` |
| `MCHttpConnection`, `HttpConnectionProofs` | instances and theorems of the three |
| `ClientAuth` | `auth.ts`: the token cache and the shared request, by the clock |
| `Heartbeat` | extends it by the heartbeat of `channel.ts` over several sessions, and its options |
| `MCHeartbeat`, `HeartbeatProofs` | instances and theorems of both |
| `ControlCipher` | `AeadCryptoConn` and `CryptoConn` of `crypto.ts`, from writer to reader |
| `MCControlCipher`, `ControlCipherProofs` | its instances and theorems |
| `SequenceFacts` | lemmas on sequences that the proofs share |

The components meet where one leaves the other: the pool's `preparing` and
`handling` are what `WorkStream` and `HttpConnection` show from inside, the
visitor's `start()` and `stop()` are `VisitorReady` and `StopVisitors` of the
channel, and `FrameReader` starts where a socket is new. `HeartbeatFails` of the
channel, which may happen at any time there, is `Watch` and `SendPingFails` of
`Heartbeat`; a `serving` request of `HttpConnection` is one connection of
`HttpBackend`; the `data` reader of a control connection in `FrameReader` is
`ControlCipher` seen from outside.

### WorkConnPool

`pc[w]` is the await at which the worker in slot `w` is suspended, from
`dialing` through `magic` (v2 only), `announcing`, `reading`, `preparing`
(`#wrapWorkConn` and `onConnect`), `opening` (the handler's dial) and `handling`,
`disconnect...` (`onDisconnect`) and `unwind...` (the finally) to `settled...`,
the time between the end of `#worker` and the `catch` and `finally` that
`#spawn` chained to its promise. A slot is free again only after that `finally`,
which is when the code decrements `total`. The other variables are the fields of
the class; `conns` is a set of slots. `socket` is the operating system's view.
`stop()`, `expand()` and changes of the proxy map may happen between any two
steps.

A handler that joins its connection to the backend after the connection was
destroyed hears neither end nor close, since these were emitted before. It is
`deaf`: it ends when its backend closes, if it does. `StopDrains` is therefore
that after `stop()` every slot becomes idle or deaf.

`WorkConnPool` implements `WorkSlots` with `accepting <- live` and
`busy <- Busy`: slots are taken only while accepting and below the limit, and
after close no new ones are. This is about safety; the draining is `StopDrains`.

### ControlChannel

- `phase` is the await of `run()` or `#connect()`; `at[t]` that of a task `t`.
  `<<s, "startup">>` is the startup of session `s`, `<<s, h>>` the health
  monitor for proxy `h` which that startup created. Tasks of different sessions
  exist at the same time, as in the code.
- `Next` has three levels, those of the event loop. A task between two awaits
  (`InRun`) runs alone: from `proxyMap.set` to the next `writeMsg`, from the
  stop of the old visitors to the first `listen`. Then come microtasks: the tasks
  whose promise is settled (`Woken`), the read loop, with messages already read or
  with the rejection of a closed reader, and `#connect()` when its session is over.
  Events come last, when no microtask is left: writes, timers, hooks, checks, the
  network, `stop()`. So `controlReadError` is set before a write that `stop()` broke
  is caught.
- Microtasks run in the order they are queued, and where it can be told the model
  keeps it. `stop()` and the `finally` reject the registrations before they close the
  reader, so their catch comes before that of the read loop (`ReadRejects`). From
  there it takes `#connect()` three microtasks to its `finally`: two races and an
  `await`. A startup needs as many to its monitors when its last registration was
  rejected, and was queued first; each proxy it has still to try takes one more.
  With one proxy at most the startup is therefore first, with several the model
  leaves the order open (`ConnectReturns`).
- `Teardown` is what `stop()` and the `finally` of `#connect()` have in
  common; they differ in order only, and no await lies between.
- `pending` and `answer` are `pendingProxyResp` and the promise behind it. The
  catch of `#registerProxyDuringReadLoop` deletes by name, so `Catch` does too.
- `srv` and `toClient` stand for the server: the proxies it holds for this
  connection and its messages not yet read. A connection that is lost loses
  both. `NewProxy` takes effect at the server when its write completes.
- A monitor that outlived its session finds `conn` set while the next one logs
  in; what it writes there breaks the handshake (`Spoil`).
- `reader = "deaf"` is a read loop installed after the connection had ended: the
  reader of the login is closed while the key is derived, so the end of a TCP
  socket finds no listener, and the loop waits in vain. A mux stream keeps its
  end until it is read. The heartbeat notices the deaf reader; by default it is
  on exactly when the mux is off. Who turns off both has a client that stays deaf:
  `LossDetected` is not claimed there (`Heartbeats` is `TRUE` in `channel_harsh`).
- `failures` is a history variable: connection attempts and sessions that
  failed since the last login. The code has no such counter.

The environment has knobs. `SlowHooks`: a user hook may outlast the pause before
a reconnect. `LateAnswers`: the server may need more than 20 s. `EarlyClose`:
the server may close a proxy before the client has entered it in its map.
`Heartbeats`: the heartbeat is on, and may fail at any time.

Timing assumption: without `SlowHooks`, whatever is not a hook, a health check
or a timer of a monitor is over before the next dial (`Quiet` in `Wake`). The
shortest pause is 2 s (`channel.ts:141` with `attempt` at least 1), and what
must end within it is local: a write to a destroyed socket, a `listen`, the
rejection of a read.

### StcpVisitor

`pc[c]` is the await at which `#handleUserConn` is suspended for the user in
place `c`; a place is used again when the function has ended. `opts` holds the
options that change the control flow. `user` and `raw` are the two sockets as
the operating system sees them, `sockets` and `visitorSockets` the sets that
`stop()` goes through. As in the pool, a pipe put around a connection that
closed while its key was derived is `deaf`. `unheard` records a
`destroy(err)` on a socket without an error listener.

### TokenBucket and WorkStream

The bucket counts in parts of a byte, so that floating point becomes integers:
`Rate` parts per tick, `Second` parts to a byte. `now` may lie behind
`updatedAt`, the end of the waits already granted.

`WorkStream` follows numbered chunks from the socket through `readQ` (limiter),
`cipherQ` (decryption) and `partial` (the decoder's incomplete frame) to `buf`,
what the outermost stream has pushed, and `got`. Which of the three layers exist
is chosen at the start. It starts when the layers are in place; the window
before is the pool's `preparing`. In the other direction one chunk at a time is
under way (`outAt`), as a Duplex has it, and the end of the backend's side goes
behind all of them through the `_final` of each layer. In the limiter both
directions wait in one chain, `takes`. A decrypted chunk that arrives after the
end is a stream error, which destroys the connection. A TCP socket ends its own
side when the peer's ends, and then takes no more writes; a mux stream stays
open until both sides ended.

A frame is complete with a chunk or is not, nondeterministically, and may be
bad; a chunk across a frame's end is two chunks here, since the decoder's loop
treats it so.

### FrameReader and HttpConnection

A byte is a pair: item of the script, position in it. `plan` fixes the kind of
connection (its readers in turn), the script of frames, data and requests, and
how many of its bytes are sent before the peer ends or falls silent. Every
socket event may carry any number of the next bytes. `stream` is what the socket
still has, `buf` what the current reader has, `tail` what is on its way to the
next, `taken` what was used. `HttpConnection` uses `buf` for the header and body
read so far, and `tail` for the pending bytes of `SocketReader`.

`end = "due"` is a detail of the runtime that matters: the end event may follow
the last chunk although the reader paused on it. Bytes put back before it is
emitted are still delivered, later ones destroy the socket. A TCP socket that
is paused with nothing left to emit hears of the end as well; a stream of the mux
does not until it is read. A reader installed on a closed socket is `deaf`,
except in `handleHttp`, which asks.

`HttpBackend` is the same for the connection on which `httpBackendHandler` asks a
local server: one reader, `response`, whose only item is the response. Its kind
says how the end is found: by a length, a last chunk, the header (HEAD) or the
end of the connection. `at` goes from the dial (`gap`) over `asking`, in which the
socket has no listeners, to `reading`, and `returned` or `done`. A reset while the
request is written, `crashed`, is an error nobody listens for. A backend sends
nothing before it has the whole request.

Left out: UDP messages of other types, and the periodic Ping of `handleUdp`.

### ClientAuth and Heartbeat

`now` is the clock, in whole units. `Caller` names who asks for credentials: the
login, the heartbeat's sender of each session, and the workers of the pool. With
the method `token` they come at once, with `source` from a function of the user's
for each caller, with `oidc` from the cache or a request of which there is to be
one at a time. `asked` is when a caller began to wait. `cachedGood` is when the
token in the cache really expires: the provider counts from some moment between
request and answer, `cachedUntil` from the answer.

`Heartbeat` has the sessions one after the other. `sender[s]` is the await of
`#sendHeartbeats` in session `s`, `target[s]` the connection that is an argument
of the write it is about to do, read before `auth.ping()` was called. A sender
that waits for a token when its session ends goes on afterwards. `unanswered` are
the times of the Pings a server has yet to answer; Pongs do not say which one they
answer. `interval` and `timeout` are computed from a configuration the way
`connectionOptions` does. `why` and `pinged` are history.

Time passes only when nothing is due (`Timely`): a timer that is due fires first,
and a caller that has its answer goes on. Three constants say how long the world
may take: `FetchTime` for a token, `LoginTime` from the dial to the end of the login,
`Delay` for the answer to a Ping. The code has no timeout for the first two, and
`TimeoutExact` says what follows if they hold. `Patient` is what a user must see
to: a timeout of at least an interval, or the login, with one token and one answer.
The defaults, 30 and 90 s, are patient with tokens and answers that take
less than a minute together.

### ControlCipher

A connection has the calls of `write()` it will see, each with its number of
parts: frames of 64 KiB for `AeadCryptoConn`, bytes for `CryptoConn`. `link` is the
await of the link of `writeChain` that runs, `acks` what the callbacks got.
`counter` and `place` are the nonces, or how far the cipher's register has moved,
at the two ends; a ciphertext carries the count it was made at, and gives its
plaintext back at that count only. A frame is two bytes, a header and the rest,
and the vector or nonce in front two more, so that each can be cut. `sameKey`
tells whether both ends derived the same keys.

## Runs

| Run | Shows | Bounds |
| --- | --- | --- |
| `pool` | gauges and statistics exact, sockets tracked, `WorkSlots` implemented, drains after `stop()` | limit 2, three slots, one proxy name, three requests: one meets a full pool or uses a slot again |
| `channel_calm` | the proxy map agrees with the server (`NoPhantom`, `Agreement`), with monitors | one plain and one checked proxy, two sessions, one failed dial, two retries, knobs off |
| `channel_harsh` | no waiter or listener lost, nothing held after the end (`NothingHeld`), `run()` ends after `stop()`, startups settle, dead connections noticed by the read loop, or by the heartbeat (`LossDetected`) | one plain proxy, one visitor, two sessions, all hooks and knobs on |
| `visitor` | sockets tracked and no entry left behind, `stop()` final, drains after `stop()` | two users at a time, each place used again without limit; all options |
| `streams` | order, bandwidth, the end after the data in both directions, the pipe told of every end | each of the seven stacks of layers, three chunks in, one out, two bytes a second (and so as a burst), three ticks a second |
| `handoffs` | no byte lost between readers, whole messages, no frame left waiting, reads end with the connection | fourteen scripts over all jobs, cut after every byte, on TCP and mux (backends on TCP) |
| `heartbeat` | the timeout is for silent servers only and misses none, Pings stay in their session, tokens are good | two sessions, four callers, six units of time, three configurations: heartbeat by default, by its own options on the mux, off |
| `ciphers` | bytes in the order of the writes, callbacks true | three overlapping writes, cut anywhere; both ciphers, with equal and different keys |
| `gives_up_early` | violation: `GivesUpLate` | one retry, three sessions |
| `stop_leaks` | violation: `StopIsFinal` | one proxy, one visitor, an `onLogin` hook |
| `unheard_error` | violation: `ErrorsIgnored` | one user |
| `truncated` | violation: `ReadsPreserved` | encryption only, on the mux |

Two sessions are what the hazards of the channel need: a task of an ended
session next to those of the current one. A third adds a second left-over task
that is in no state the first was not in. The third slot of the pool is there
for a broken limit to overrun into. Two users of a visitor are enough, as users share
nothing but the two sets. In `streams` the third byte has to sleep, with a write
or the end behind it. In `handoffs` a frame has two or three
bytes, so that it can be cut inside its header, between header and body, and
between frames; a third item makes a chunk that holds the rest of one, a whole
one and the start of another. In `heartbeat` a token may live shorter than the
margin of two units, expire within the run, or come without a lifetime, and
six units are enough for a session that times out (after at most five) and for a
token asked for in the first session to arrive in the second. In `ciphers` a
message of two frames has its second behind an await. `CHECK_DEADLOCK FALSE` is used because all
of these systems do stop: a stopped pool is empty, `run()` returns, a visitor is
stopped, a connection ends.

`NoPhantom` and `Agreement` are checked with the knobs off because they need
that, but for `LateAnswers`, with which only `Agreement` fails. With `EarlyClose` or
`SlowHooks`, a `CloseProxy` is handled while the registration it refers to still
waits to be entered in the map. Two proxies of one name share its entry there. With
`LateAnswers` the client gives up on a proxy the server has taken. An `onProxyRegister` hook that throws leaves the server a proxy
that the client does not enter. Where there are monitors, a startup may outlive its
session in any hook but `onReconnect`, while a visitor's listener opens, or when the
heartbeat ends the session, which does not tell the startup. It finds no
connection and goes on to start monitors, which the next session replaces in the
map without stopping them. Two monitors then act for one proxy: while one waits
for its `CloseProxy` to be written, the server closes the proxy, the other registers
it again, and the write then takes effect on the new registration, which the client
enters in its map all the same. TLC finds each of these in instances of the size
above with the constant in question changed. The theorems `NoPhantoms` and `Agreed`
have their absence as the assumptions `Calm` and `Prompt`, and need no others. In the instance a monitor of an ended session does no more than finish
its last check. No document of the repository says otherwise, so these are limits
and not listed as findings.

### What the violations show

- `gives_up_early`. `attempt = 0` (`channel.ts:132`) is reached only when
  `#connect()` returns normally, and it does so only after `stop()`. A client
  with the default of three retries ends at the fourth disconnection of its
  life, and its pauses only grow. `client.ts:13` promises reconnection.
- `stop_leaks`. `stop()` comes while the startup waits for the `onLogin` hook, and
  `run()` returns. When the hook returns, the startup finds no connection
  (`channel.ts:455`), skips the proxies, and opens the visitor's listener, which
  nobody closes; it would start monitors as well. The process of `main.ts`, which
  waits for the event loop to empty, does not exit. Without the hook the property
  holds in this instance: the startup either fails with the read loop's error or
  has its visitors stopped by the `finally` of `#connect()`. A startup that has
  several more proxies to try when `stop()` comes passes that `finally` too.
- `unheard_error`. When the dial of a visitor fails, the user's socket is
  destroyed with an error that nobody listens for, which ends the process. The
  comment at `stcp.ts:106` says `/* ignore */`.
- `truncated`. `EncryptedConn` passes the end on at once (`crypto.ts:287`), past
  the chunks that are still being decrypted. They are lost, unlike in
  `RateLimitedConn`, which queues the end.

Two more are left out of the instances of `handoffs`, in which `NothingLost` would
fail. What comes in one chunk with `StartWorkConn` is handed to every handler but
`handleUdp` (`pool.ts:279`), so the instances have UDP with encryption only, where it
comes another way. What is read behind a header without a body is not put back
(`parser.ts:130`), as it is behind a body, so a request without a body is the last,
or comes from a client that waits for each response. The title of the test at
`http/parser.test.ts:36` ("keeps pipelined data") is about a chunked body.

Seen in the models, with nothing in the repository that says otherwise:

- the limiter drops the chunks it holds back when the socket closes;
- a backend's answer is lost on TCP when the peer has ended its side, since the
  socket ends its own, too;
- a compressed stream that ends inside a frame, and an HTTP body that ends
  early, count as complete;
- a health monitor whose registration was refused counts its proxy as healthy, for
  the refusal is logged and swallowed (`channel.ts:500`); an `onReconnect` hook that
  throws ends `run()` (`channel.ts:147`); a backend that does not answer a datagram
  ends the UDP work connection (`udp.ts:121`);
- from an HTTP backend, a body of a given length that is cut off is returned
  as it is, a chunked one as an empty one, and nothing limits the wait for a
  response; a socket that is reset while the request is written ends the process
  (`types.ts:700`: its error has no listener);
- after a frame that does not authenticate, `AeadCryptoConn` emits its error and then
  destroys the socket with it (`crypto.ts:116`), and the socket's own error is
  emitted once more, when the reader has stopped listening.

## Fairness

Weak fairness is enough everywhere, as what is fair stays enabled until it
happens.

- Pool: dials and writes settle, hooks return, chained callbacks run; a read and
  a handler end for certain only when their socket was destroyed, since an idle
  server or user may keep them for ever.
- Channel: timers fire, hooks settle, writes complete or fail, a read on a broken
  or closed connection fails, and the heartbeat, when it is on, notices a dead
  one. That a broken connection makes its read fail is the job of TCP keepalive,
  which is on by default, and of the heartbeat.
- Visitor: dials, handshake writes and key derivation settle, and a pipe ends
  when both of its sockets were destroyed. A handshake read is not expected to
  settle unless its socket was destroyed.
- Streams: timers fire, promises settle, the backend is reached, and both it and
  the peer take what is written to them. That they send anything is not assumed.
- Handoffs: what was sent arrives, and so does the end; a TCP socket closes when
  both sides ended. Nothing is assumed of peers, handlers and backends.
- Heartbeat and ciphers: none. That a silent server is noticed is a bound on the
  clock, and so a safety property.

Nothing is assumed of the caller of `stop()`.

## Proofs

`WorkConnPoolProofs`, from `WorkerAssumption` and `NumberAssumption`, for any
number of slots, names, limit and requests:

- `Invariance`: `IInv` is inductive. `GaugesExact` alone is not: that
  `total` and `active` are never decremented below zero, and that what is
  decremented was counted, needs `TypeOK` and the sets `Busy` and `Assigned`
  whose sizes they are; each action moves one worker between places, and lemmas
  say what that does to the size of a set. `SocketPlaces` ties `socket` and
  `conns` to `pc`, and gives `OpenSocketsTracked`. `RequestsAccountedFor` is
  carried along as a sum over the same places.
- `TypeCorrect`, `Gauges`, `Statistics`, `Tracking`: the parts of `IInv`.
- `Refinement` (`SlotsSpec`): each step of the pool is a step of `WorkSlots` or a
  stutter.

`ControlChannelProofs`, from `ConfigAssumption` and `BoundAssumption`, for any
number of sessions, proxies and visitors:

- `Listeners`: `[]ListenersTracked`. Its first two lemmas go through all actions
  of `Next` and find the ones that touch the visitors; the invariant adds only
  the domain of `listener`.
- `Held`: `[]NothingHeld`, which is inductive as it stands. Two lemmas say that
  no step outside `run()` and `stop()` takes a connection, mends one or makes a pool.
- `Waiters`: `[]WaitersReachable`. The invariant is `WInv /\ Fresh`. `Entries`
  and `Owners` say that the table `pending` and the tasks that wait point at
  each other, which is why a task that deletes an entry by name, as the code
  does, deletes no one else's. `Named` keeps the name a task waits for in range:
  it is read from the task's place in the list of proxies, and `Types` bounds
  that place. `Connected` says that an entry implies a connection, so the
  teardown of the connection finds it. `Later` says that no monitor runs before
  its startup is done, and `Fresh` that a session not yet begun has no task:
  without them a startup could begin, or start a monitor, over a task that
  waits. One lemma serves each way the table changes (`HopKeeps`,
  `SettleKeeps`, `RejectKeeps`, ...); the theorem then has one step per group of
  actions.
- `TypeCorrect`: `[]TypeOK`, on top of that invariant, which has the types of what
  is indexed. `Placed` ties the counter that a startup's two loops share to the
  await it is at, so that it is within `Plain` while it registers proxies and
  within `Visitors` while it starts visitors.
- `NoPhantoms`: `Calm => (Safety => []NoPhantom)`. `Calm` says that proxies have
  different names, hooks are over within the pause before a reconnect, the server
  closes no proxy before its answer to the request for it was acted on, and, where
  there are monitors (`Settled`), that the startup has no hook and no visitor to
  wait for and the heartbeat is off. Proxies without a health check may have all of these.
  The invariant `CInv` has two halves. One is about whose turn it is. `Rested` says
  that what an ended session leaves behind has come to rest when the next one
  begins, but for monitors that end with their next step; `Monitored` that a monitor
  which is not stopped is the one in the map. For both, no startup may go on after its
  session: `Doomed` and `Told` say that the failed read loop has refused it by then. The
  other half, `Map`, is about names on a live session. `Granted` says that an
  acceptance on its way is the only one for a proxy that the server holds, the client
  does not, and nobody is about to enter or to close, which is why a `CloseProxy` from
  either side cannot overtake it; `AddedHeld` and `NewNames` say the same of
  what is about to be entered and what is still to be asked. `AskedOnce` and `Unanswered`
  are about the startup, whose name changes as it goes through its list: no answer comes
  in front of its question. `Passes` is what every step of every task leaves so, and
  `PassesAll` shows it, so that only the five steps that send, read or enter something
  need a proof of their own (`EntersKeeps`, `WriteKeeps`, `CloseKeeps`, `TailKeeps`,
  `ServerClosesKeeps`).
- `Agreed`: `Prompt => (Safety => []Agreement)`. `Prompt` adds to `Calm` a server
  that answers within 20 s and no `onProxyRegister` hook. Half of it is `NoPhantom`.
  For the other, `Books` says who will enter what the server holds (`Claimed`): an
  accepted task, or one that the answer on its way will find (`Awaited`). `Writers`
  and `ClosedFirst` say that an answer is never ahead of the wait for it, and that of a
  `CloseProxy` and an acceptance on their way the acceptance is behind.

The instance of `channel_calm` satisfies both assumptions.

`StcpVisitorProofs`, for any number of users and all options: `TypeCorrect`,
`Tracking` (`[]SocketsTracked`) and `StopIsFinal` (`[]NothingAfterStop`). The
invariant adds `Places`, which says at which awaits the sockets of a user can be
open and in the sets: a dial that completes finds its user in `sockets`, or the
visitor stopped. `Starting` says that a listen under way is one `stop()` knows of.

`WorkStreamProofs`, for any rate, resolution of the clock, stack and number of
chunks:

- `Bucket`: any callers, at any clock readings, are granted no more than the
  bandwidth and a burst of a second by the end of the waits they are told. The
  invariant counts what is granted and what is at hand together; `WaitCovers` is
  the rounding, `RefillBounded` the cap.
- `Limit`: `[]BandwidthKept`. `Sleeper` says that one caller sleeps at a time, so
  that what has passed is what was granted but for its byte.
- `StreamTypes` (`[]TypeOK`), `StreamOrder` (`[]ReadsInOrder`) and `EndBehindData`
  (`[]EndIsLast`), from one invariant, `DataInv`. `ReadsInOrder` says nothing of a
  connection that is destroyed, and not where the end is; `Flow` does: what the
  pipe has read and what is in the layers, in front of the end and behind it, are
  the chunks that were sent. `Layered` says which queues a stack has at all,
  `EndLast` that nothing is queued behind an end, `Ends` which layers can have
  seen it. `QueueInv` is about the limiter: its `takes` are a queue with at most
  one caller of the reading side, whose head is the one that sleeps, which is why
  the chunk that wakes up is the first of `readQ`.

`HttpConnectionProofs`, from `PlansAssumption`, for any set of connections and any
cutting into chunks. The assumption is about what the peer sends: no item of a script
is empty, nor is the header of a request or response, and nothing comes behind a
response whose length only the end of the connection tells. A script need not be
sent to its end.

- `NoStall` (`[]NoFrameWaits`). `Between` says that nothing is read between two
  readers and the socket does not flow, `Served` that a request is served only by
  the HTTP reader, so that no other action touches its buffer.
- `TypeCorrect` (`[]TypeOK`), from `TInv`. `Turn` says what can wait in which reader's
  turn, and where a tail can be. With it a lemma per component (`FrameLeft`,
  `HttpLeft`, `BackendLeft`) shows that each step takes bytes off the front of
  `Left`, what is left of what was sent, or leaves it alone. `Ordered` says that
  `handleHttp` is past the items it has answered, which bounds `answered`: a header
  or body that is complete is that of the next item, since bytes are `<<item, place>>`.
- `AllKept` (`[](TailsKept => NothingLost)`) and `AllWhole`
  (`[](TailsKept => MessagesWhole)`), from `WholeInv`. `Summed` says that what was taken
  and what is left are what was sent, `Framed` that readers of frames stop at the
  border of one, `Requested` which request is served and how much of it. `Ahead`, that
  a client that waits for its response has nothing in front of the reader but the
  request, is why the code may drop what it read behind a header. `Answering` says how
  far the reader of a backend's response is, for each way to tell where it ends.

`TailsKept` leaves out the two places where the code drops what it has read, described
above: UDP without encryption, and a request without a body from a client that
pipelines, unless it is the last. Everything else is covered, also what such clients
send otherwise.

`HeartbeatProofs`, from `TimeAssumption` and `HeartbeatAssumption`, for any callers,
lifetimes, options, bounds and number of sessions:

- `TypeCorrect`, `TokensAreGood` (`[]TokensGood`) and `PingsStay` (`[]OwnSession`) come
  from three invariants, each on top of the one before. `OneRequest` says that a
  request is under way exactly while the promise is set, and by a caller that
  waits, `ShortWaits` that no wait is longer than `FetchTime`, and `Cached` what the
  cache owes to the two. `Senders` says in which state a sender can be whose
  session is over, and that the target of one that asks is its own session.
- `TimeoutIsExact` (`[]TimeoutExact`). `LoginShort` bounds the time since `lastPong` until
  the heartbeat runs, `Watched` by the watcher's sleep afterwards. For a server that
  answers, `Answering` bounds the next Ping: it is written by the sender's `wakeAt`
  and a token's time, and its Pong comes within `Delay` of it. Lemma `Punctual` draws
  from `Timely` what a step of the clock may rely on; the other actions do not move
  the clock, and each sets at most one of the bounds anew.

`ControlCipherProofs`, from `PlansAssumption`, for any number of messages with any
number of parts, any cutting of the bytes, with frames (AEAD) or without:

- `Acknowledged` (`[]AckedIsSent`), from `WriterInv`. The parts of a message go out one
  by one, each behind three awaits, and a failure may come at each. `Counted`
  says that the nonce of the next part is the number of parts before it,
  `SentIs` that what is sent is a beginning of `All`, everything there is to
  write. `Going` says how far it is as long as nothing has failed; `Stopped` that
  after a failure there is one message, all before it acknowledged, none behind
  it sent.
- `Delivered` (`[]InOrder`), from `CipherInv`. The property relates messages to messages;
  in between there are bytes. `InPlace` gives each byte in the cipher, in
  `readBuffer`, in the chunks and on the wire its place in the connection, so
  that the two bytes a frame is decrypted from are those of one frame, and the
  next. `Phase` and `Got` say which part is next. With two keys, `Silent` says that
  the reader of frames delivers nothing.

`SequenceFacts`, which the proofs on streams and ciphers use: the library's
induction theorems take an operator, so `Least` and `Induction` state induction
over a set of numbers. `FlattenType`, `FlattenStep`, `FlattenAppend` and `FlattenHead`
say what `FlattenSeq` of the community modules does at either end. For the readers there
are prefixes (`PrefixIs`, `PrefixCut`, `CutAt`), and pieces of given sizes one behind the
other: where the n-th begins (`PiecesStep`), and which piece the k-th element is of
(`PieceOf`).

The assumptions are on constants only; that `FetchTime`, `LoginTime` and `Delay` are kept
is in the guard of the clock, `Timely`.

Only model-checked: liveness (`StopDrains`, `StopEnds`, `StartupSettles`,
`LossDetected`, `EndNoticed`, `EndDelivered`, `ReadsSettle`), which is out of the
prover's reach. Every invariant of a passing run has a theorem, and so has the
refinement of `WorkSlots`.

## Not modelled

The contents of messages, the ciphers and the derivation of their keys, Snappy,
TLS, yamux with its wrapper `net/mux.ts`, the PROXY protocol header, the HTML of the
dashboard and the log. Health checks end in success or failure; `maxFailed` is its
default of 1. Of the options, those of the heartbeat are modelled; the others are
defaults without state. UDP messages of other types and the UDP handler's own Ping
are left out of `FrameReader`. Of HTTP, headers whose bytes and characters differ in
number, invalid chunk sizes of requests, informational responses of a backend, and
backends that answer before they have read the request. `http/cno.ts`, an
alternative parser, is left aside.

## What could follow

1. The mux session with its streams under `openConnection`, which the models of
   the channel and the pool take for one link; the UDP handler's Ping.
2. The proxy options of `types.ts` and the PROXY protocol header as operators,
   checked against a reference over bounded inputs.
