# TLA+ models of the EVE websocket tunnel client

This directory holds TLA+ models of the websocket tunnel client in
`src/pkg/pillar/zedcloud/wstunnelclient.go`, together with the TLC
configurations that check them. The client keeps a secure websocket open to
the cloud backend. It forwards each request frame to a local relay over TCP
and sends the relay's replies back as response frames. The other sources are
listed at the end with the reason each one is or is not modelled.

## 1. Inventory

### Components and their state

| Component | Code | State |
|---|---|---|
| Session Supervisor | `Start`, `startSession`, `Stop` | `exitChan`, `requestSentChan` (capacity 1), `retryOnFailCount`, `Connected`, `conn` |
| Request Pump | `handleRequests`, `processRequest` | the current request, the write try count |
| Response Pump | `processResponses`, `writeResponseMessage` | one goroutine per WSConnection, with its buffer and response `id` |
| Local Relay Connector | `refreshLocalConnection`, `dialLocalConnection` | the cached `localConnection` per WSConnection |
| Ping Supervisor | `pinger` | ping ticker, pong-reset timeout timer |
| Connection Tester | `InitializeTunnelClient`, `TestConnection` | `Tunnel`, `LocalRelayServer`, `DestURL`, `Dialer` |
| Request Framer | id scan in `handleRequests`, `%04x` in `writeResponseMessage` | none (conversions) |

### How they interact

The dial loop of `startSession` runs one session at a time.
- A session starts when a dial succeeds.
- During the session, `handleRequests` reads frames.
- Each request is written to the local connection.
- After each write, one signal goes on `requestSentChan`.
- Every session starts a `processResponses` goroutine. None of them ever exits, so all sessions' pumps read the same `requestSentChan`.
- After each session the loop polls `exitChan` and waits out the 30 s retry floor.
- `Stop()` sends on `exitChan`, which the response pumps also read.

### The hard behaviours

- Goroutine interleavings over two capacity-1 channels shared by all sessions.
- A 500 ms timeout when draining replies.
- A liveness probe that decides whether a cached connection is reused.
- Three write tries, with a re-dial between each.
- A websocket that stays open for 5 s after its session ends.
- Failures from outside: the backend or network closing the websocket, and the relay closing a connection, crashing or restarting.
- Numeric edges in the id framing.

## 2. Modules

The modules are listed most important first.

1. **`Tunnel`** is the detailed model of the supervisor, both pumps, the pinger, the relay connector and `Stop()`, composed in one module because they share channels and fields.
   - `sup` is the program counter of the dial-loop goroutine. While a session runs, that goroutine runs `handleRequests` and `processRequest`, so one counter covers both.
   - Each WSConnection `s` has its own response-pump counter `rp[s]`, plus `rpBuf[s]`, `rpId[s]`, `wsOpen[s]`, `localConnection[s]` and `connAlive[s]`.
   - Channels are counters in 0..1.
   - There is one action per step between blocking points, named after the code: RetryCheck, DialFail, DialOk, RecvRequest, RecvInvalid, ReadError, ForwardRequest, WriteRequest, SendSignal, EndSession (with `HandleRequestsReturned`, the `t.Connected = false` of `:181`), ExitCheck, TimerWait, RpTake, RpRefresh, RpRead, RpWrite, RpExitCheck, DelayedClose, StopCall and StopSend.
   - Each action includes every call its code makes. For example, ForwardRequest and RpRefresh both contain `refreshLocalConnection`.
   - The pinger of each WSConnection has its own counter `pg[s]`. Its AfterFunc timer has `pto[s]` (armed, sleeping for 15 s after sending the close frame, done).
     - Time is counted in ping ticks: `missed[s]` is the number of ticks since the last pong reset. The timer may fire once it reaches `PingsPerTimeout` (3 in the code, since the ping loop sleeps `tunTimeout/3`).
     - `pong[s]` is a pong waiting on the websocket. `PongHandled` is a step of the request pump, because gorilla runs the pong handler only inside `NextReader`.
     - The pinger's actions are PingTick, PingTimeout and PingClose.
     - The constant `PingerRuns` can leave the pinger out. The pinger writes nothing the other goroutines read except `wsOpen[s]`, and `PeerClose` can close a websocket at any time anyway. So a configuration whose properties do not mention the pinger loses no behaviour by leaving it out.
   - The environment actions are FrameArrives, PeerClose, PongArrive, PingWriteFail, RelayReply, RelayDrain, RelayCloseConn, RelayCrash and RelayRestart. They stand for the backend, the network and the relay.
     - FrameArrives is `NextReader` returning a valid or invalid frame.
     - PingWriteFail is a ping write that misses its deadline on a stalled network.
   - `fwd[s]` (requests written to the relay on connection `s`) and `dialsAfterStop` are history variables used only by the properties.
   - `processRequest`'s Write to the relay has no deadline. On a live connection it may block (`sup = "blocked"`) until the relay reads (`RelayDrain`, an environment action) or the connection breaks.
2. **`MCTunnel`** instantiates Tunnel for the safety run.
3. **`Bootstrap`** models `InitializeTunnelClient` and `TestConnection`.
   - A configured string is abstracted to what the code tests of it: its scheme, whether it has a host, and how many trailing slashes it has.
   - The ping dial has four outcomes: 200, 101, another status, or no response.
   - `DialLocalConnection` is the session loop's first `dialLocalConnection`, the first use of the trimmed `LocalRelayServer`. An empty address makes it return nil with no connection (`localConnection = "nil"`).
4. **`Framing`** models the id codec.
   - `HexDigits`/`Fmt04x` are the `%04x` format: the four hex digits the backend writes, and the ones `writeResponseMessage` writes (`:443`). No property checks the response side (section 4).
   - `HexValue`/`ScanId` model the `%04x` scan into an `int16`.
   - Both are RECURSIVE operators over digit sequences.

### Fairness

Weak fairness is assumed for the following, each a Go goroutine or timer:
- the supervisor goroutine's own steps;
- each response pump;
- each pinger, and its timer;
- each delayed-close goroutine;
- a `Stop()` send that is in progress.

The Go runtime eventually schedules any goroutine that can run, and a timer that is due eventually fires.

No fairness is assumed for anything outside the client:
- the backend: frames, pongs and closes (so `RecvRequest` and `RecvInvalid` are outside the fair supervisor action);
- the network;
- the relay;
- the caller of `Stop()`.

The two liveness properties are stated as implications, `RelayReads => ...`, where `RelayReads == WF_vars(RelayDrain)`. They only claim anything for a relay that keeps reading its sockets. Nothing in the code bounds a blocked Write, so a relay that stops reading holds the request pump forever. That is listed as a hazard at `:319`.

Deadlock checking is off. The real program stops on purpose in two places:
- After the retry ceiling the dial-loop goroutine ends. The Start goroutine has been parked on `<-make(chan struct{})` ever since `startSession` spawned that loop and returned.
- Once the request count bound is used up, nothing is left to do.

## 3. Runs

| Run | Config | Bounds | Result |
|---|---|---|---|
| tunnel_safety | MCTunnel.cfg | 2 retries, 2 sessions, 2 requests, 1 relay fault, 1 Stop | pass: TypeOK, ReplyIntegrity, IdsContiguous |
| tunnel_liveness | TunnelLive.cfg | 2 retries, 1 session, 2 requests, 1 relay fault, 0 Stop, 1 tick per timeout | pass: SessionWindsDown, SilentBackendEndsSession |
| stop_hangs | TunnelStopHang.cfg | 1 retry, 2 Stop calls | StopReturns violated |
| stop_ignored | TunnelStop.cfg | 3 retries, 1 Stop | StopHonoured violated |
| response_coalescing | TunnelOrder.cfg | 2 requests | ResponseOrder violated |
| pump_leak | TunnelPumpLeak.cfg | 1 session | PumpEndsWithSession violated |
| stale_local_conn | TunnelProbe.cfg | 2 requests, 1 relay close | ProbeDetectsClosed violated |
| write_failure_signalled | TunnelWriteFail.cfg | 1 request, 3 relay faults | SignalOnlyWritten violated |
| bootstrap_relay_scheme | BootstrapRelaySchemeRejected.cfg | 1 trailing slash | RelaySchemeRejected violated |
| bootstrap_nil_response | BootstrapNoNilResponse.cfg | 1 trailing slash | NoNilResponse violated |
| bootstrap_success_not_ready | BootstrapSessionReady.cfg | 1 trailing slash | SessionReady violated |
| framing_int16_id | FramingIds.cfg | ids 0, 0x1234, 0x7fff, 0x8000, 0xffff | IdRoundTrip violated |

### Why the bounds are enough

The safety run has two sessions, which is the smallest number where an old session's pump outlives its websocket and competes with the live one.

Two requests are the smallest number that can be coalesced, and also the smallest that can reuse a cached connection.

One relay fault is enough to make the probe and the re-dial matter.

The safety run leaves the pinger out (`PingerRuns = FALSE`). Relay faults, races between replies and a `Stop()` call are checked there instead (3.6 million states, under 2 minutes).

The liveness run keeps the pinger and a relay fault, so the teardown properties also cover the write-retry and refresh-error paths. It has two requests, so the second signal send can find `t.requestSentChan` still full and block, and a Write can block on the relay. Both states are reached. It has one session and no `Stop()` (220,785 states, about 1.5 minutes). `Stop()` adds no liveness obligation beyond StopReturns (run stop_hangs). With it, or with two sessions, the check takes more than ten minutes.

One tick per timeout keeps the race between a pong reset and the timer expiry: after one unanswered tick the timer may fire, unless the request pump reads a pong first.

Each violation needs only the bounds listed for it. Larger bounds reach the same traces, only longer.

### What the passing runs show

- **ReplyIntegrity:** a WSConnection only sends out replies to requests that were forwarded on that same connection. They go out in order, with no duplicates. The pumps of all sessions steal each other's signals, but a stolen signal only delays a reply and never sends it elsewhere. So this property says nothing about the stealing itself; pump_leak shows that the pumps outlive their sessions.
- **IdsContiguous:** response ids on each websocket run 0, 1, 2, … with no gaps.
- **SessionWindsDown:** once a websocket is closed, everything of its session except the response pump finishes. This covers the backend, the network, the ping timeout and a failed response write. The pinger's next write fails and it returns. The request pump leaves processRequest even through relay write failures and re-dials, and is never stuck on `t.requestSentChan`, so `Connected` is cleared. The delayed `ws.Close()` runs. It holds for a relay that keeps reading (`RelayReads`). In the run the request pump really does block, both on the full channel and in the Write. Two sessions in this run take more than ten minutes, so it checks one.
- **SilentBackendEndsSession:** while a session is live, either a pong arrives or the session is torn down. The chain behind this property runs through four goroutines: the AfterFunc timer fires, its goroutine sleeps and closes the websocket, the request pump's read fails, and the dial loop clears `Connected`.

### What the violations show

Each violation is a finding recorded in `PROJECT.json`:

- The break in the `select` makes `Stop()` ineffective (`:186`, `:420`).
- `Stop()` can block its caller forever (`:201`). This happens before `startSession` has made `t.exitChan` (a nil channel), or on a second call once nothing drains the channel.
- The response pumps never exit.
- The zero-length probe never detects a closed relay connection.
- The 500 ms drain merges replies, breaking the one-to-one mapping of requests to responses.
- After three failed writes, the request is still signalled as sent.
- The `&&` at `:93` accepts an http:// relay.
- `resp.StatusCode` is read on a nil `resp` at `:122`.
- TestConnection can succeed without readying the session loop (SessionReady). A 101 answer counts as success without setting `DestURL`; this is the trace TLC shows. With the 101 outcome removed, TLC shows the second way: a relay of `"/"` passes the emptiness check (`:90`), is trimmed to `""` (`:96`), and the first `dialLocalConnection` returns nil with no connection (`:368`), so `processRequest` writes to a nil `localConnection` (`:319`) and panics.
- The `int16` id scan ends the session on ids from 0x8000 up.

## 4. Not modelled, and the plan

- **Pongs delayed while the request pump is busy:** a healthy backend's websocket can be closed because its pongs wait unread while the request pump is busy. Time counted in ticks cannot tell a slow pump from a silent backend, so no property states this.
- **The AfterFunc timer after the session ends:** it is never stopped, and a late pong reset can re-arm it. A second firing acts on an already-closed websocket and changes nothing, so it is not modelled.
- **The `%04x` response id past 0xffff:** `Fmt04x` defines the format. After 65536 responses on one websocket it writes five digits, and the backend's four-digit field is misread. A property over it would be another violation run next to framing_int16_id. The project's runs are kept for the tunnel's control paths, so this stays a listed hazard.
- **`src/unnamed/part_002` (device network status):** sequential code with no state kept between calls. The shadowed `err` at line 52 loses the missing-uplink error in a single call, which a unit test shows directly. A state machine adds nothing there.
- **`src/unnamed/part_000` and `part_001`:** protobuf schemas with no behaviour.
- **The GRUB `cat --set` patch:** a sequential C command outside the tunnel client. Its unterminated buffer and its file left open on the error path are facts about single calls. They are listed as hazards.
- **Relay connections are never closed (`:383`):** no code closes `wsc.localConnection`, and the model keeps every session's connection open too. A property that it closes with its session fails as soon as any session ends. That is the same root cause as pump_leak, so it is listed as a hazard and has no run of its own.
- **The data race on `localConnection` (`:319`):** a torn interface value is not modelled. The model reads the field atomically.
