----------------------------- MODULE Bootstrap -----------------------------
(***************************************************************************)
(* InitializeTunnelClient and TestConnection of                            *)
(* src/pkg/pillar/zedcloud/wstunnelclient.go: the configuration checks,   *)
(* the trimming of trailing slashes, and the ping dial whose HTTP status  *)
(* decides whether DestURL and Dialer are set; then the first            *)
(* dialLocalConnection of a session, the first use of LocalRelayServer.    *)
(*                                                                         *)
(* A configured string is abstracted to what the code tests of it: its    *)
(* scheme prefix, whether anything follows the prefix, and how many       *)
(* trailing slashes it has.                                                *)
(***************************************************************************)
EXTENDS Naturals

CONSTANT MaxSlash     \* trailing slashes a configured string may carry

Prefixes == {"", "ws://", "wss://", "http://", "https://"}
Str      == [pre : Prefixes, rest : BOOLEAN, slash : 0..MaxSlash]

\* The HTTP outcome of dialer.Dial on the ping URL: the ping endpoint answers
\* 200 (gorilla reports a bad handshake but returns the response), a server
\* that upgrades answers 101 with no error, another status comes with an
\* error, and a TCP, TLS or proxy failure gives an error and no response.
PingOutcomes == {"200", "101", "other", "none"}

NoURL == [tunnel |-> [pre |-> "", rest |-> FALSE, slash |-> 0], path |-> "none"]

VARIABLES Tunnel, LocalRelayServer, DestURL, Dialer,
          result,     \* "none" | "ok" | "err" | "panic" | "exit": last call's outcome
          localConnection  \* the first session's cached relay connection

vars == <<Tunnel, LocalRelayServer, DestURL, Dialer, result, localConnection>>

IsEmpty(x)        == x.pre = "" /\ ~x.rest /\ x.slash = 0
HasPrefix(x, p)   == x.pre = p /\ p # ""
TrimSuffixSlash(x) == [x EXCEPT !.slash = IF @ > 0 THEN @ - 1 ELSE 0]

TypeOK ==
    /\ Tunnel \in Str /\ LocalRelayServer \in Str
    /\ DestURL \in {NoURL} \cup [tunnel : Str, path : {"tunnel"}]
    /\ Dialer \in {"nil", "set"}
    /\ result \in {"none", "ok", "err", "panic", "exit"}
    /\ localConnection \in {"none", "nil", "conn"}

\* InitializeTunnelClient(serverName, localRelay): Tunnel = "wss://" + serverName.
\* serverName is a host[:port], possibly with trailing slashes.
Init ==
    /\ \E slash \in 0..MaxSlash :
          Tunnel = [pre |-> "wss://", rest |-> TRUE, slash |-> slash]
    /\ LocalRelayServer \in Str
    /\ DestURL = NoURL /\ Dialer = "nil" /\ result = "none"
    /\ localConnection = "none"

TunnelValid ==
    /\ ~IsEmpty(Tunnel)
    /\ HasPrefix(Tunnel, "ws://") \/ HasPrefix(Tunnel, "wss://")

\* The check of line 93, with its &&: no string has both prefixes.
RelayRejected(r) ==
    IsEmpty(r) \/ (HasPrefix(r, "http://") /\ HasPrefix(r, "https://"))

\* The ping dial and the test of resp.StatusCode, which is read before err
\* is looked at: with no response it dereferences nil and panics.
Ping(outcome) ==
    \/ /\ outcome = "none"
       /\ result' = "panic"
       /\ UNCHANGED <<DestURL, Dialer>>
    \/ /\ outcome = "200"
       /\ DestURL' = [tunnel |-> Tunnel', path |-> "tunnel"]
       /\ Dialer' = "set"
       /\ result' = "ok"
    \/ /\ outcome \in {"101", "other"}
       /\ result' = IF outcome = "101" THEN "ok" ELSE "err"   \* return err
       /\ UNCHANGED <<DestURL, Dialer>>

\* TestConnection(proxyURL, localAddr): the caller's process must still be
\* alive (a panic or log.Fatal ended it).
TestConnection ==
    /\ result \notin {"panic", "exit"}
    /\ localConnection = "none"
    /\ UNCHANGED localConnection
    /\ \/ /\ ~TunnelValid
          /\ result' = "err"
          /\ UNCHANGED <<Tunnel, LocalRelayServer, DestURL, Dialer>>
       \/ /\ TunnelValid
          /\ Tunnel' = TrimSuffixSlash(Tunnel)
          /\ \/ /\ RelayRejected(LocalRelayServer)
                /\ result' = "err"
                /\ UNCHANGED <<LocalRelayServer, DestURL, Dialer>>
             \/ /\ ~RelayRejected(LocalRelayServer)
                /\ LocalRelayServer' = TrimSuffixSlash(LocalRelayServer)
                /\ \/ /\ result' = "exit"          \* GetTlsConfig error: log.Fatal
                      /\ UNCHANGED <<DestURL, Dialer>>
                   \/ \E outcome \in PingOutcomes : Ping(outcome)

\* The first refreshLocalConnection of a session started after a successful
\* TestConnection: with no cached connection it calls dialLocalConnection.
\* An empty LocalRelayServer makes that return a nil error without setting
\* localConnection ("nil").  A dial error is returned to handleRequests,
\* which logs it and reads the next frame with localConnection still nil,
\* so no write follows it; only a dial that returns nil is followed by one.
DialLocalConnection ==
    /\ result = "ok" /\ localConnection = "none"
    /\ localConnection' = IF IsEmpty(LocalRelayServer) THEN "nil" ELSE "conn"
    /\ UNCHANGED <<Tunnel, LocalRelayServer, DestURL, Dialer, result>>

Next == TestConnection \/ DialLocalConnection

Spec == Init /\ [][Next]_vars

-----------------------------------------------------------------------------
\* Spec 4.1 and scenario S1: a local relay given with an http:// or https://
\* scheme is a configuration error; TestConnection never succeeds with one.
RelaySchemeRejected ==
    result = "ok" =>
        ~(HasPrefix(LocalRelayServer, "http://") \/ HasPrefix(LocalRelayServer, "https://"))

\* Spec 4.1 and 9: a ping dial that fails before any HTTP response is
\* surfaced as an error; TestConnection does not crash the process.
NoNilResponse == result # "panic"

\* Spec 4.1 and 7: a successful TestConnection leaves the client ready for
\* startSession. DestURL and Dialer are set for the websocket dial, and the
\* relay address it accepted can be dialled, so processRequest never writes
\* to a nil localConnection (ConfigInvalid is "never reached from the
\* session loop").
SessionReady ==
    /\ result = "ok" => (DestURL # NoURL /\ Dialer = "set")
    /\ localConnection # "nil"
=============================================================================
