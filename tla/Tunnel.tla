------------------------------ MODULE Tunnel ------------------------------
(***************************************************************************)
(* The WSTunnelClient of src/pkg/pillar/zedcloud/wstunnelclient.go with   *)
(* every goroutine it starts:                                              *)
(*   - the dial loop of startSession, which also runs handleRequests (the *)
(*     request pump) and processRequest for the live WSConnection;        *)
(*   - one processResponses goroutine per WSConnection ever opened;       *)
(*   - the pinger of each WSConnection and the timeout timer it arms;      *)
(*   - the delayed ws.Close() goroutine spawned when handleRequests ends;  *)
(*   - a caller of Stop().                                                 *)
(* WSConnection number s is the s-th successful dial.  Its cached local    *)
(* relay connection, and the relay's end of it, are indexed by s too.     *)
(* The backend, the network and the local relay are the environment.      *)
(* Requests are tags 1..MaxReq in arrival order; a reply carries the tag  *)
(* of the request it answers.                                              *)
(***************************************************************************)
EXTENDS Naturals, Sequences, SequencesExt

CONSTANTS MaxRetry,      \* maxRetryAttempts (50 in the code)
          MaxSessions,   \* successful dials the backend accepts
          MaxReq,        \* non-empty requests the backend sends
          MaxRelayFault, \* relay crashes plus relay-side connection closes
          MaxStop,       \* calls of Stop()
          PingsPerTimeout, \* ping ticks in one tunTimeout (3 in the code)
          PingerRuns     \* FALSE: the pinger goroutines are left out

ASSUME /\ MaxRetry \in Nat \ {0}
       /\ MaxSessions \in Nat \ {0}
       /\ {MaxReq, MaxRelayFault, MaxStop} \subseteq Nat
       /\ PingsPerTimeout \in Nat \ {0}
       /\ PingerRuns \in BOOLEAN

Sessions == 1..MaxSessions
Tags     == 1..MaxReq
WriteTries == 3                   \* processRequest: for tries := 1; tries <= 3

VARIABLES
    sup,              \* control point of the dial-loop goroutine
    chansMade,        \* startSession has assigned t.exitChan, t.requestSentChan
    retryOnFailCount, \* t.retryOnFailCount
    Connected,        \* t.Connected
    conn,             \* t.conn: number of the latest WSConnection, 0 = nil
    exitChan,         \* messages buffered in t.exitChan (capacity 1)
    requestSentChan,  \* messages buffered in t.requestSentChan (capacity 1)
    request,          \* tag of the request processRequest is forwarding
    tries,            \* processRequest's write attempt
    nreq,             \* non-empty requests read from the websockets so far
    wsOpen,           \* wsOpen[s]: websocket s is not closed
    closePending,     \* sessions whose delayed ws.Close() has not run yet
    rp,               \* rp[s]: control point of processResponses of session s
    rpBuf,            \* rpBuf[s]: bytes read from the local connection
    rpId,             \* rpId[s]: processResponses' local id counter
    localConnection,  \* localConnection[s]: wsc.localConnection # nil
    connAlive,        \* connAlive[s]: the relay's end of it is open
    relayIn,          \* relayIn[s]: requests the relay has not answered yet
    relayOut,         \* relayOut[s]: replies waiting in the client's socket
    relayUp,          \* the local relay accepts connections
    faults,           \* relay crashes and closes so far
    stopper,          \* "idle" | "sending" | "stuck": the caller of Stop()
    nstop,            \* Stop() calls that returned
    out,              \* out[s]: frames the backend received on websocket s
    pg,               \* pg[s]: "off" | "loop" | "ended": the pinger of s
    pto,              \* pto[s]: "off" | "armed" | "sleeping" | "done": its timeout
    missed,           \* missed[s]: ping ticks since the timer was last reset
    pong,             \* pong[s]: a pong is waiting to be read on websocket s
    fwd,              \* history: requests written to the relay in session s
    dialsAfterStop    \* history: dial attempts begun after a Stop() returned

sVars    == <<sup, chansMade, retryOnFailCount, Connected, conn, request, tries, nreq>>
lVars    == <<localConnection, connAlive, relayIn, relayOut>>
rVars    == <<rp, rpBuf, rpId>>
pVars    == <<pg, pto, missed, pong>>
vars == <<sVars, lVars, rVars, pVars, exitChan, requestSentChan, wsOpen, closePending,
          relayUp, faults, stopper, nstop, out, fwd, dialsAfterStop>>

SupStates == {"init", "check", "dial", "read", "refresh", "write", "blocked", "signal",
              "closing", "exitcheck", "wait", "done"}
Frame == [id : Nat, body : Seq(Tags)]

TypeOK ==
    /\ sup \in SupStates
    /\ chansMade \in BOOLEAN
    /\ retryOnFailCount \in 0..MaxRetry
    /\ Connected \in BOOLEAN
    /\ conn \in 0..MaxSessions
    /\ exitChan \in 0..1 /\ requestSentChan \in 0..1
    /\ request \in 0..MaxReq /\ tries \in 1..WriteTries /\ nreq \in 0..MaxReq
    /\ wsOpen \in [Sessions -> BOOLEAN]
    /\ closePending \subseteq Sessions
    /\ rp \in [Sessions -> {"off", "loop", "refresh", "read", "write"}]
    /\ rpBuf \in [Sessions -> Seq(Tags)]
    /\ rpId \in [Sessions -> Nat]
    /\ localConnection \in [Sessions -> BOOLEAN]
    /\ connAlive \in [Sessions -> BOOLEAN]
    /\ relayIn \in [Sessions -> Seq(Tags)] /\ relayOut \in [Sessions -> Seq(Tags)]
    /\ relayUp \in BOOLEAN /\ faults \in 0..MaxRelayFault
    /\ stopper \in {"idle", "sending", "stuck"} /\ nstop \in 0..MaxStop
    /\ out \in [Sessions -> Seq(Frame)]
    /\ pg \in [Sessions -> {"off", "loop", "ended"}]
    /\ pto \in [Sessions -> {"off", "armed", "sleeping", "done"}]
    /\ missed \in [Sessions -> 0..PingsPerTimeout]
    /\ pong \in [Sessions -> BOOLEAN]
    /\ fwd \in [Sessions -> Seq(Tags)]
    /\ dialsAfterStop \in Nat

Init ==
    /\ sup = "init" /\ chansMade = FALSE
    /\ retryOnFailCount = 0 /\ Connected = FALSE /\ conn = 0
    /\ exitChan = 0 /\ requestSentChan = 0
    /\ request = 0 /\ tries = 1 /\ nreq = 0
    /\ wsOpen = [s \in Sessions |-> FALSE] /\ closePending = {}
    /\ rp = [s \in Sessions |-> "off"] /\ rpBuf = [s \in Sessions |-> <<>>]
    /\ rpId = [s \in Sessions |-> 0]
    /\ localConnection = [s \in Sessions |-> FALSE]
    /\ connAlive = [s \in Sessions |-> FALSE]
    /\ relayIn = [s \in Sessions |-> <<>>] /\ relayOut = [s \in Sessions |-> <<>>]
    /\ relayUp = TRUE /\ faults = 0
    /\ stopper = "idle" /\ nstop = 0
    /\ pg = [s \in Sessions |-> "off"] /\ pto = [s \in Sessions |-> "off"]
    /\ missed = [s \in Sessions |-> 0] /\ pong = [s \in Sessions |-> FALSE]
    /\ out = [s \in Sessions |-> <<>>] /\ fwd = [s \in Sessions |-> <<>>]
    /\ dialsAfterStop = 0
-----------------------------------------------------------------------------
(* Local relay connector: dialLocalConnection and refreshLocalConnection.  *)
(* refreshLocalConnection runs entirely under connMutex, so it is one step. *)
(* ok is the outcome: FALSE when it returns an error.                      *)

dialLocalConnection(s, ok) ==
    \/ /\ ok /\ relayUp
       /\ localConnection' = [localConnection EXCEPT ![s] = TRUE]
       /\ connAlive' = [connAlive EXCEPT ![s] = TRUE]
       /\ relayIn' = [relayIn EXCEPT ![s] = <<>>]
       /\ relayOut' = [relayOut EXCEPT ![s] = <<>>]
    \/ /\ ~ok /\ ~relayUp
       /\ UNCHANGED lVars

\* The probe is a zero-length Read with an immediate deadline.  It returns
\* nil or a timeout, which keep the cached connection, or, only when the
\* relay closed its end, io.EOF, which re-dials.
refreshLocalConnection(s, force, ok) ==
    IF localConnection[s] /\ ~force
    THEN \/ ok /\ UNCHANGED lVars
         \/ ~connAlive[s] /\ dialLocalConnection(s, ok)
    ELSE dialLocalConnection(s, ok)


-----------------------------------------------------------------------------
(* The dial loop of startSession, with handleRequests and processRequest. *)
(* None of its steps touches these.                                        *)
SupFrame == UNCHANGED <<rpBuf, rpId, relayUp, faults, stopper, nstop, out>>

StartSession ==
    /\ sup = "init"
    /\ chansMade' = TRUE
    /\ exitChan' = 0 /\ requestSentChan' = 0
    /\ retryOnFailCount' = 0
    /\ sup' = "check"
    /\ UNCHANGED <<Connected, conn, request, tries, nreq, lVars, rp, wsOpen,
                   closePending, fwd, dialsAfterStop>>

\* Mutant: the ceiling compared with > instead of ==.
RetryCheckGt ==
    /\ sup = "check"
    /\ sup' = IF retryOnFailCount > MaxRetry THEN "done" ELSE "dial"
    /\ UNCHANGED <<chansMade, retryOnFailCount, Connected, conn, request, tries,
                   nreq, lVars, rp, exitChan, requestSentChan, wsOpen,
                   closePending, fwd, dialsAfterStop>>

\* if t.retryOnFailCount == maxRetryAttempts { break }
RetryCheck ==
    /\ sup = "check"
    /\ sup' = IF retryOnFailCount = MaxRetry THEN "done" ELSE "dial"
    /\ UNCHANGED <<chansMade, retryOnFailCount, Connected, conn, request, tries,
                   nreq, lVars, rp, exitChan, requestSentChan, wsOpen,
                   closePending, fwd, dialsAfterStop>>

CountDial == dialsAfterStop' = IF nstop > 0 THEN dialsAfterStop + 1 ELSE dialsAfterStop

DialFail ==
    /\ sup = "dial"
    /\ retryOnFailCount' = retryOnFailCount + 1
    /\ sup' = "exitcheck"
    /\ CountDial
    /\ UNCHANGED <<chansMade, Connected, conn, request, tries, nreq, lVars, rp,
                   exitChan, requestSentChan, wsOpen, closePending, fwd>>

\* A new WSConnection; handleRequests starts pinger and processResponses.
DialOk ==
    /\ sup = "dial"
    /\ conn < MaxSessions
    /\ LET s == conn + 1
       IN /\ conn' = s
          /\ wsOpen' = [wsOpen EXCEPT ![s] = TRUE]
          /\ rp' = [rp EXCEPT ![s] = "loop"]
          /\ pg' = [pg EXCEPT ![s] = "loop"]
          /\ pto' = [pto EXCEPT ![s] = "armed"]
    /\ UNCHANGED <<missed, pong>>
    /\ Connected' = TRUE
    /\ retryOnFailCount' = 0
    /\ sup' = "read"
    /\ CountDial
    /\ UNCHANGED <<chansMade, request, tries, nreq, lVars, exitChan,
                   requestSentChan, closePending, fwd>>

\* Steps of handleRequests that touch nothing outside the dial loop.
PumpFrame == UNCHANGED <<chansMade, retryOnFailCount, Connected, conn, rp,
                         exitChan, wsOpen, closePending, dialsAfterStop>>

\* NextReader returned a binary frame whose id parsed and whose body is
\* non-empty.  (A frame with an empty body changes no state.)
RecvRequest ==
    /\ sup = "read" /\ wsOpen[conn]
    /\ nreq < MaxReq
    /\ nreq' = nreq + 1 /\ request' = nreq + 1
    /\ sup' = "refresh"
    /\ PumpFrame
    /\ UNCHANGED <<tries, lVars, requestSentChan, fwd>>

\* A non-binary frame, an id Fscanf cannot parse, or a body read error.
RecvInvalid ==
    /\ sup = "read" /\ wsOpen[conn]
    /\ sup' = "closing"
    /\ PumpFrame
    /\ UNCHANGED <<request, tries, nreq, lVars, requestSentChan, fwd>>

\* Mutant: a NextReader error is logged and the loop reads again.
ReadErrorContinue ==
    /\ sup = "read" /\ ~wsOpen[conn]
    /\ UNCHANGED sup
    /\ PumpFrame
    /\ UNCHANGED <<request, tries, nreq, lVars, requestSentChan, fwd>>

ReadError ==
    /\ sup = "read" /\ ~wsOpen[conn]
    /\ sup' = "closing"
    /\ PumpFrame
    /\ UNCHANGED <<request, tries, nreq, lVars, requestSentChan, fwd>>

\* processRequest: refresh the cached local connection before writing.
ForwardRequest ==
    /\ sup = "refresh"
    /\ \E ok \in BOOLEAN :
          /\ refreshLocalConnection(conn, FALSE, ok)
          /\ sup' = IF ok THEN "write" ELSE "read"
    /\ tries' = 1
    /\ PumpFrame
    /\ UNCHANGED <<request, nreq, requestSentChan, fwd>>

Written(s) == fwd' = [fwd EXCEPT ![s] = Append(@, request)]

\* One iteration of the write loop of processRequest.  A write to a
\* connection whose relay end is closed may be accepted by the kernel and
\* lost, or fail; a failure forces a re-dial, and after the third failure
\* the loop ends and the request is signalled although never written.
\* Write has no deadline: on a live connection whose send buffer is full
\* it blocks ("blocked") until the relay reads (RelayDrain) or the
\* connection breaks, and then fails like any other write.
WriteRequest ==
    /\ sup \in {"write", "blocked"}
    /\ \/ /\ sup = "write" /\ connAlive[conn]
          /\ relayIn' = [relayIn EXCEPT ![conn] = Append(@, request)]
          /\ Written(conn)
          /\ sup' = "signal"
          /\ UNCHANGED <<localConnection, connAlive, relayOut, tries>>
       \/ /\ sup = "write" /\ connAlive[conn]
          /\ sup' = "blocked"
          /\ UNCHANGED <<lVars, tries, fwd>>
       \/ /\ sup = "write" /\ ~connAlive[conn]
          /\ Written(conn)
          /\ sup' = "signal"
          /\ UNCHANGED <<lVars, tries>>
       \/ /\ ~connAlive[conn]
          /\ \E ok \in BOOLEAN :
                /\ refreshLocalConnection(conn, TRUE, ok)
                /\ sup' = IF ~ok THEN "read"
                          ELSE IF tries = WriteTries THEN "signal" ELSE "write"
                /\ tries' = IF ok /\ tries < WriteTries THEN tries + 1 ELSE tries
          /\ UNCHANGED fwd
    /\ PumpFrame
    /\ UNCHANGED <<request, nreq, requestSentChan>>

\* The pong handler, timer.Reset(tunTimeout), runs inside NextReader: only
\* while handleRequests waits for the next frame of websocket s.  A reset
\* of a timer that has already fired would arm it again; that second firing
\* is not modelled (it acts on a websocket the first one closes).
PongHandled ==
    /\ sup = "read" /\ wsOpen[conn] /\ pong[conn]
    /\ pong' = [pong EXCEPT ![conn] = FALSE]
    /\ missed' = [missed EXCEPT ![conn] = 0]
    /\ UNCHANGED <<sVars, lVars, rp, exitChan, requestSentChan, wsOpen,
                   closePending, fwd, dialsAfterStop, pg, pto>>

\* wsc.tun.requestSentChan <- struct{}{}: blocks while the buffer is full.
SendSignal ==
    /\ sup = "signal"
    /\ requestSentChan = 0
    /\ requestSentChan' = 1
    /\ sup' = "read"
    /\ PumpFrame
    /\ UNCHANGED <<request, tries, nreq, lVars, fwd>>

\* t.Connected = false, once t.conn.handleRequests() has returned.
HandleRequestsReturned == Connected' = FALSE

\* handleRequests returns after spawning the delayed close.
EndSession ==
    /\ sup = "closing"
    /\ closePending' = closePending \cup {conn}
    /\ HandleRequestsReturned
    /\ sup' = "exitcheck"
    /\ UNCHANGED <<chansMade, retryOnFailCount, conn, request, tries, nreq, lVars,
                   rp, exitChan, requestSentChan, wsOpen, fwd, dialsAfterStop>>

\* Steps of the loop tail that touch nothing but sup and exitChan.
TailFrame == UNCHANGED <<chansMade, retryOnFailCount, Connected, conn, request,
                         tries, nreq, lVars, rp, requestSentChan, wsOpen,
                         closePending, fwd, dialsAfterStop>>

\* select { case <-t.exitChan: break; default: }: the break leaves only the
\* select, so a buffered exit signal is consumed and the loop goes on.
ExitCheck ==
    /\ sup = "exitcheck"
    /\ exitChan' = 0
    /\ sup' = "wait"
    /\ TailFrame

\* <-timer.C: the 30 s retry floor armed before the dial elapses.
TimerWait ==
    /\ sup = "wait"
    /\ sup' = "check"
    /\ UNCHANGED exitChan
    /\ TailFrame

\* The steps the dial-loop goroutine takes by itself ...
Supervisor ==
    /\ SupFrame
    /\ \/ DialOk \/ PongHandled
       \/ /\ UNCHANGED pVars
          /\ \/ StartSession \/ RetryCheck \/ DialFail \/ ReadError
             \/ ForwardRequest \/ WriteRequest \/ SendSignal \/ EndSession
             \/ ExitCheck \/ TimerWait

\* ... and the return of NextReader with a frame, which waits for the
\* backend to send one.
FrameArrives ==
    /\ SupFrame /\ UNCHANGED pVars
    /\ RecvRequest \/ RecvInvalid

-----------------------------------------------------------------------------
(* processResponses of WSConnection s, and writeResponseMessage.  One such *)
(* goroutine is started per successful dial and none ever returns.         *)
RpFrame == UNCHANGED <<sVars, pVars, requestSentChan, closePending, relayUp, faults,
                       stopper, nstop, fwd, dialsAfterStop>>

\* case <-wsc.tun.requestSentChan
RpTake(s) ==
    /\ rp[s] = "loop"
    /\ requestSentChan = 1
    /\ requestSentChan' = 0
    /\ rp' = [rp EXCEPT ![s] = "refresh"]
    /\ UNCHANGED <<sVars, lVars, pVars, rpBuf, rpId, exitChan, wsOpen, closePending,
                   relayUp, faults, stopper, nstop, out, fwd, dialsAfterStop>>

\* A refresh error breaks out of the select: the signal is spent.
RpRefresh(s) ==
    /\ rp[s] = "refresh"
    /\ \E ok \in BOOLEAN :
          /\ refreshLocalConnection(s, FALSE, ok)
          /\ rp' = [rp EXCEPT ![s] = IF ok THEN "read" ELSE "loop"]
    /\ UNCHANGED <<rpBuf, rpId, exitChan, wsOpen, out>>
    /\ RpFrame

\* Mutant: the pump drains the latest WSConnection's local connection
\* (t.conn) instead of its own.
RpReadLatest(s) ==
    /\ rp[s] = "read"
    /\ rpBuf' = [rpBuf EXCEPT ![s] = relayOut[conn]]
    /\ relayOut' = [relayOut EXCEPT ![conn] = <<>>]
    /\ rp' = [rp EXCEPT ![s] = IF relayOut[conn] # <<>> THEN "write" ELSE "loop"]
    /\ UNCHANGED <<localConnection, connAlive, relayIn, rpId, exitChan, wsOpen, out>>
    /\ RpFrame

\* Mutant: id++ outside the if num > 0.
RpReadIdAlways(s) ==
    /\ rp[s] = "read"
    /\ rpBuf' = [rpBuf EXCEPT ![s] = relayOut[s]]
    /\ relayOut' = [relayOut EXCEPT ![s] = <<>>]
    /\ rp' = [rp EXCEPT ![s] = IF relayOut[s] # <<>> THEN "write" ELSE "loop"]
    /\ rpId' = [rpId EXCEPT ![s] = IF relayOut[s] # <<>> THEN @ ELSE @ + 1]
    /\ UNCHANGED <<localConnection, connAlive, relayIn, exitChan, wsOpen, out>>
    /\ RpFrame

\* ioutil.ReadAll with a 500 ms deadline takes every reply already in the
\* socket; a reply the relay has not produced yet stays for a later read.
RpRead(s) ==
    /\ rp[s] = "read"
    /\ rpBuf' = [rpBuf EXCEPT ![s] = relayOut[s]]
    /\ relayOut' = [relayOut EXCEPT ![s] = <<>>]
    /\ rp' = [rp EXCEPT ![s] = IF relayOut[s] # <<>> THEN "write" ELSE "loop"]
    /\ UNCHANGED <<localConnection, connAlive, relayIn, rpId, exitChan, wsOpen, out>>
    /\ RpFrame

\* writeResponseMessage under wsWriterMutex, then id++.  On a closed
\* websocket, or on any write error, it closes the websocket and the frame
\* is lost; the id is incremented all the same.
RpWrite(s) ==
    /\ rp[s] = "write"
    /\ \/ /\ wsOpen[s]
          /\ out' = [out EXCEPT ![s] = Append(@, [id |-> rpId[s], body |-> rpBuf[s]])]
          /\ UNCHANGED wsOpen
       \/ /\ wsOpen' = [wsOpen EXCEPT ![s] = FALSE]
          /\ UNCHANGED out
    /\ rpId' = [rpId EXCEPT ![s] = @ + 1]
    /\ rpBuf' = [rpBuf EXCEPT ![s] = <<>>]
    /\ rp' = [rp EXCEPT ![s] = "loop"]
    /\ UNCHANGED <<lVars, exitChan>>
    /\ RpFrame

\* select { case <-wsc.tun.exitChan: break; default: }: consumes the exit
\* signal and loops on.
RpExitCheck(s) ==
    /\ rp[s] = "loop"
    /\ exitChan = 1
    /\ exitChan' = 0
    /\ UNCHANGED <<lVars, rVars, wsOpen, out>>
    /\ RpFrame

ResponsePump(s) ==
    RpTake(s) \/ RpRefresh(s) \/ RpRead(s) \/ RpWrite(s) \/ RpExitCheck(s)

-----------------------------------------------------------------------------
(* The goroutine handleRequests leaves behind: sleep 5 s, then ws.Close(). *)
DelayedClose(s) ==
    /\ s \in closePending
    /\ closePending' = closePending \ {s}
    /\ wsOpen' = [wsOpen EXCEPT ![s] = FALSE]
    /\ UNCHANGED <<sVars, lVars, rVars, pVars, exitChan, requestSentChan, relayUp,
                   faults, stopper, nstop, out, fwd, dialsAfterStop>>

(* Stop(): t.exitChan <- struct{}{}.  t.exitChan is assigned by the       *)
(* goroutine Start() spawns; before that it is nil and the send blocks    *)
(* forever.  Once made, the send blocks while the buffer is full.          *)
StopFrame == UNCHANGED <<sVars, lVars, rVars, pVars, requestSentChan, wsOpen,
                         closePending, relayUp, faults, out, fwd, dialsAfterStop>>

StopCall ==
    /\ stopper = "idle"
    /\ nstop < MaxStop
    /\ stopper' = IF chansMade THEN "sending" ELSE "stuck"
    /\ UNCHANGED <<exitChan, nstop>>
    /\ StopFrame

StopSend ==
    /\ stopper = "sending"
    /\ exitChan = 0
    /\ exitChan' = 1
    /\ stopper' = "idle"
    /\ nstop' = nstop + 1
    /\ StopFrame

-----------------------------------------------------------------------------
(* pinger of WSConnection s and the time.AfterFunc timer it arms.  Time is *)
(* counted in ping ticks: the loop sleeps tunTimeout/3 after each ping, so *)
(* the timer expires once PingsPerTimeout ticks pass without a pong reset. *)
(* The pinger changes nothing the other goroutines read but wsOpen[s], and *)
(* PeerClose(s) may close websocket s at any time as well: a configuration *)
(* whose properties do not mention the pinger may leave it out.           *)
PingFrame == UNCHANGED <<sVars, lVars, rVars, exitChan, requestSentChan,
                         closePending, relayUp, faults, stopper, nstop, out,
                         fwd, dialsAfterStop>>

\* One iteration of the ping loop: WriteControl(PingMessage), then sleep
\* tunTimeout/3.  On a closed websocket the write fails, the loop breaks,
\* and the pinger ends with ws.Close().
PingTick(s) ==
    /\ PingerRuns /\ pg[s] = "loop"
    /\ \/ /\ wsOpen[s]
          /\ missed' = [missed EXCEPT ![s] = IF @ < PingsPerTimeout THEN @ + 1 ELSE @]
          /\ UNCHANGED pg
       \/ /\ ~wsOpen[s]
          /\ pg' = [pg EXCEPT ![s] = "ended"]
          /\ UNCHANGED missed
    /\ UNCHANGED <<pto, pong, wsOpen>>
    /\ PingFrame

\* The ping write on an open websocket misses its tunTimeout/3 deadline (a
\* stalled network): the loop breaks and ws.Close() ends the session.  It
\* depends on the network, so no fairness is assumed for it.
PingWriteFail(s) ==
    /\ PingerRuns /\ pg[s] = "loop" /\ wsOpen[s]
    /\ pg' = [pg EXCEPT ![s] = "ended"]
    /\ wsOpen' = [wsOpen EXCEPT ![s] = FALSE]
    /\ UNCHANGED <<pto, missed, pong>>
    /\ PingFrame

\* The backend answers a ping sent since the last reset with a pong, which
\* waits on the websocket until NextReader reads it.
PongArrive(s) ==
    /\ wsOpen[s] /\ missed[s] > 0 /\ ~pong[s]
    /\ pong' = [pong EXCEPT ![s] = TRUE]
    /\ UNCHANGED <<pg, pto, missed, wsOpen>>
    /\ PingFrame

\* Mutant: the timer is armed for one tick more than the pings count.
PingTimeoutLate(s) ==
    /\ pto[s] = "armed" /\ missed[s] > PingsPerTimeout
    /\ pto' = [pto EXCEPT ![s] = "sleeping"]
    /\ UNCHANGED <<pg, missed, pong, wsOpen>>
    /\ PingFrame

\* The timeout func: WriteControl(CloseMessage), then sleep 15 s ...
PingTimeout(s) ==
    /\ pto[s] = "armed" /\ missed[s] = PingsPerTimeout
    /\ pto' = [pto EXCEPT ![s] = "sleeping"]
    /\ UNCHANGED <<pg, missed, pong, wsOpen>>
    /\ PingFrame

\* ... and ws.Close().
PingClose(s) ==
    /\ pto[s] = "sleeping"
    /\ pto' = [pto EXCEPT ![s] = "done"]
    /\ wsOpen' = [wsOpen EXCEPT ![s] = FALSE]
    /\ UNCHANGED <<pg, missed, pong>>
    /\ PingFrame

Pinger(s) == PingTick(s)
PingTimer(s) == PingTimeout(s) \/ PingClose(s)

-----------------------------------------------------------------------------
(* Environment: the backend and network, and the local relay process.     *)
EnvFrame == UNCHANGED <<sVars, rVars, pVars, exitChan, requestSentChan, closePending,
                        stopper, nstop, out, fwd, dialsAfterStop>>

\* The backend closes the websocket (it may also answer the pinger's close
\* frame so), or the network drops it.
PeerClose(s) ==
    /\ wsOpen[s]
    /\ wsOpen' = [wsOpen EXCEPT ![s] = FALSE]
    /\ UNCHANGED <<lVars, relayUp, faults>>
    /\ EnvFrame

\* The relay answers the oldest request on connection s.
RelayReply(s) ==
    /\ connAlive[s] /\ relayIn[s] # <<>>
    /\ relayOut' = [relayOut EXCEPT ![s] = Append(@, Head(relayIn[s]))]
    /\ relayIn' = [relayIn EXCEPT ![s] = Tail(@)]
    /\ UNCHANGED <<localConnection, connAlive, wsOpen, relayUp, faults>>
    /\ EnvFrame

\* The relay reads from the connection a blocked Write of processRequest
\* is writing to: the Write completes and the request reaches the relay.
RelayDrain ==
    /\ sup = "blocked" /\ connAlive[conn]
    /\ relayIn' = [relayIn EXCEPT ![conn] = Append(@, request)]
    /\ Written(conn)
    /\ sup' = "signal"
    /\ UNCHANGED <<chansMade, retryOnFailCount, Connected, conn, request, tries,
                   nreq, localConnection, connAlive, relayOut, rVars, pVars,
                   exitChan, requestSentChan, wsOpen, closePending, relayUp,
                   faults, stopper, nstop, out, dialsAfterStop>>

\* The relay closes its end of connection s (e.g. an idle keep-alive
\* timeout); unanswered requests on it are dropped.
RelayCloseConn(s) ==
    /\ faults < MaxRelayFault /\ connAlive[s]
    /\ connAlive' = [connAlive EXCEPT ![s] = FALSE]
    /\ relayIn' = [relayIn EXCEPT ![s] = <<>>]
    /\ faults' = faults + 1
    /\ UNCHANGED <<localConnection, relayOut, wsOpen, relayUp>>
    /\ EnvFrame

\* The relay process dies; replies already in the client's sockets stay.
RelayCrash ==
    /\ faults < MaxRelayFault /\ relayUp
    /\ relayUp' = FALSE
    /\ connAlive' = [s \in Sessions |-> FALSE]
    /\ relayIn' = [s \in Sessions |-> <<>>]
    /\ faults' = faults + 1
    /\ UNCHANGED <<localConnection, relayOut, wsOpen>>
    /\ EnvFrame

RelayRestart ==
    /\ ~relayUp
    /\ relayUp' = TRUE
    /\ UNCHANGED <<lVars, wsOpen, faults>>
    /\ EnvFrame

Environment ==
    \/ RelayCrash \/ RelayRestart \/ RelayDrain
    \/ \E s \in Sessions : PeerClose(s) \/ RelayReply(s) \/ RelayCloseConn(s)
    \/ \E s \in Sessions : PongArrive(s) \/ PingWriteFail(s)

Next ==
    \/ Supervisor \/ FrameArrives
    \/ \E s \in Sessions : ResponsePump(s) \/ DelayedClose(s) \/ Pinger(s) \/ PingTimer(s)
    \/ StopCall \/ StopSend
    \/ Environment

(* Every goroutine of the client is scheduled, and a timer that is due    *)
(* fires (weak fairness); the backend (frames, pongs, closes), the network, *)
(* the relay and the caller of Stop() are not obliged to act.             *)
Fairness ==
    /\ WF_vars(Supervisor)
    /\ \A s \in Sessions : WF_vars(ResponsePump(s)) /\ WF_vars(DelayedClose(s))
    /\ \A s \in Sessions : WF_vars(Pinger(s)) /\ WF_vars(PingTimer(s))
    /\ WF_vars(StopSend)

Spec == Init /\ [][Next]_vars /\ Fairness
-----------------------------------------------------------------------------
(* Properties.                                                             *)

\* No fairness is assumed for the relay, so a relay that stops reading can
\* hold processRequest's Write forever.  The liveness properties below are
\* stated for a relay that keeps reading its sockets.
RelayReads == WF_vars(RelayDrain)

\* The replies processResponses sends on websocket s answer requests that
\* were forwarded on that same WSConnection, each at most once and in the
\* order they were forwarded, although old processResponses goroutines
\* keep running beside the new one and all share t.requestSentChan.
Bodies(s) == FlattenSeq([k \in DOMAIN out[s] |-> out[s][k].body])

ReplyIntegrity ==
    \A s \in Sessions :
        LET b == Bodies(s)
        IN  /\ \A i \in 1..Len(b) - 1 : b[i] < b[i + 1]
            /\ ToSet(b) \subseteq ToSet(fwd[s])

\* The backend sees the response ids of a websocket as 0, 1, 2, ... with no
\* gap: processResponses increments its id even when writeResponseMessage
\* fails, but a failed write closes the websocket for good.
IdsContiguous ==
    \A s \in Sessions : \A k \in DOMAIN out[s] : out[s][k].id = k - 1

\* Spec 4.5: response N on a websocket is the reply to the N-th non-empty
\* request forwarded on it.
ResponseOrder ==
    \A s \in Sessions : \A k \in DOMAIN out[s] :
        k <= Len(fwd[s]) /\ out[s][k].body = <<fwd[s][k]>>

\* Spec 8.9: after Stop() at most one more dial attempt is made.
StopHonoured == dialsAfterStop <= 1

\* Spec 5: processResponses is bound to the websocket's lifetime and ends
\* when it closes.
PumpEndsWithSession ==
    \A s \in Sessions : (rp[s] # "off" /\ ~wsOpen[s]) ~> (rp[s] = "off")
\* Spec 4.4: refreshLocalConnection never hands back a cached connection
\* whose relay end is closed: when processRequest's refresh succeeds, the
\* connection it writes to is live.
ProbeDetectsClosed ==
    [][(sup = "refresh" /\ sup' = "write") => connAlive'[conn]]_vars

\* Spec 4.4: after three failed writes processRequest surfaces the error;
\* t.requestSentChan is signalled only for a request that was written.
SignalOnlyWritten ==
    sup = "signal" => (fwd[conn] # <<>> /\ Last(fwd[conn]) = request)

\* Spec 5: a WSConnection's goroutines live as long as its websocket.
\* Once websocket s is closed, by the backend, the network, the ping timeout
\* or a failed response write, everything of the session but its response
\* pump winds down: the pinger's next WriteControl fails and it returns,
\* handleRequests returns so the dial loop clears Connected, and the
\* delayed ws.Close() goroutine has run.  For handleRequests this needs a
\* relay that keeps reading (RelayReads): processRequest may be blocked in
\* its Write, which has no deadline, or on the send to a full
\* t.requestSentChan, which only another goroutine's receive frees.
SessionWindsDown ==
    RelayReads => \A s \in Sessions :
        (~wsOpen[s] /\ pg[s] # "off")
            ~> (/\ pg[s] = "ended"
                /\ ~(Connected /\ conn = s)
                /\ s \notin closePending)

\* Spec 4.7, 8.5 and scenario S6: a backend that stops answering pings does not
\* keep a session alive.  While session s is live, either a pong arrives or
\* the ping timeout closes the websocket, the request pump's NextReader
\* fails, and the dial loop clears Connected (with a relay that reads, as
\* processRequest may be blocked in its Write meanwhile).
SilentBackendEndsSession ==
    RelayReads => \A s \in Sessions : (Connected /\ conn = s) ~> (~Connected \/ pong[s])

\* Spec 4.2: Stop() signals the exit signal and returns; the caller of
\* Stop() is never left blocked on its send on t.exitChan.
StopReturns == (stopper # "idle") ~> (stopper = "idle")
=============================================================================
