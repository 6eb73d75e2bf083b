------------------------------ MODULE Framing ------------------------------
(***************************************************************************)
(* The request framing of handleRequests in                               *)
(* src/pkg/pillar/zedcloud/wstunnelclient.go: a binary frame is four hex   *)
(* characters of request id followed by the payload.  The id is read with *)
(* fmt.Fscanf(io.LimitReader(reader, 4), "%04x", &id) into an int16, and a *)
(* scan error ends handleRequests, that is, the whole websocket session.  *)
(* A hex character is modelled by its value 0..15.                         *)
(***************************************************************************)
EXTENDS Integers, Sequences, SequencesExt

CONSTANT Ids             \* request ids the backend may send

\* The id as the backend writes it: four hex digits, zero-padded.
RECURSIVE HexDigits(_)
HexDigits(n) == IF n < 16 THEN <<n>> ELSE Append(HexDigits(n \div 16), n % 16)

Fmt04x(n) == [i \in 1..(4 - Len(HexDigits(n))) |-> 0] \o HexDigits(n)

RECURSIVE HexValue(_)
HexValue(ds) == IF ds = <<>> THEN 0 ELSE 16 * HexValue(Front(ds)) + Last(ds)

\* strconv parses the token as an int64, then fmt's scanInt refuses a value
\* that does not survive truncation to the target's 16 bits.
Int16Fits(v) == -32768 <= v /\ v <= 32767

ScanId(frame) ==
    LET v == HexValue(SubSeq(frame, 1, 4))
    IN  IF Int16Fits(v) THEN [ok |-> TRUE, id |-> v] ELSE [ok |-> FALSE, id |-> 0]

VARIABLES alive,     \* handleRequests is still reading this websocket
          sent,      \* id of the last frame the backend sent, -1 before any
          id         \* the request id handleRequests scanned from it

vars == <<alive, sent, id>>

TypeOK == alive \in BOOLEAN /\ sent \in Ids \cup {-1} /\ id \in Ids \cup {-1}

Init == alive = TRUE /\ sent = -1 /\ id = -1

\* One binary frame with request id n and the non-empty payload p.
ReadRequest(n, p) ==
    /\ alive
    /\ sent' = n
    /\ LET r == ScanId(Fmt04x(n) \o p)
       IN  IF r.ok THEN id' = r.id /\ UNCHANGED alive
                   ELSE alive' = FALSE /\ UNCHANGED id

Next == \E n \in Ids : ReadRequest(n, <<10>>)

Spec == Init /\ [][Next]_vars

\* Spec 3 and 8.1: request ids are 16-bit, 0..65535; every well-formed
\* frame is decoded to the id it carries and none ends the session.
IdRoundTrip == alive /\ id = sent
=============================================================================
