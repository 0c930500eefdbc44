--------------------------- MODULE TlsClientSocket ---------------------------
(***************************************************************************)
(* TlsClientSocket (rust_net/tls_client_socket.rs) over a StreamSocket.    *)
(* rustls turns calls into bytes and bytes into calls; the pumps carry the *)
(* bytes through the read and write of the transport, each of which calls  *)
(* back at once or later.  Every function calls the next one last, so one  *)
(* variable says what the IO thread is about to do; when it is idle, user  *)
(* code calls (from a task or a callback) or the transport calls back.     *)
(* A byte is its number in the stream, in each direction.                  *)
(***************************************************************************)
EXTENDS Naturals, Sequences, SequencesExt

CONSTANTS
    MaxOps,        \* bound: calls of handshake, read and write
    MaxRecords,    \* bound: records that the peer sends
    RecordSize,    \* bytes of a record
    Flight,        \* records of the peer's part of the handshake
    ReadChunk,     \* READ_CHUNK, in bytes
    Deframer,      \* bytes that rustls buffers before it must process them
    Overlap,       \* user code starts to send although another pump may send
    None

Ops == 1 .. MaxOps
Kinds == {"handshake", "read", "write"}

\* A callback is known by its call, and by its operation for the calls in `ops`.
To(kind, o) == [for |-> kind, op |-> o]
Continuation == [for : Kinds, op : Ops] \cup {To("disconnect", 0)}
Bytes == Seq(Nat)
Sending == [at : {"send"}, done : Continuation, bytes : Bytes]

ASSUME TlsAssumption ==
    /\ MaxOps \in Nat /\ RecordSize \in Nat \ {0} /\ ReadChunk \in Nat \ {0}
    /\ Flight \in Nat \ {0} /\ MaxRecords \in Nat /\ MaxRecords >= Flight
    /\ Deframer \in RecordSize .. 2 * RecordSize - 1
    /\ Overlap \in BOOLEAN
    /\ None \notin Continuation /\ None \notin Sending

VARIABLES
    conn,      \* the ClientConnection of rustls
    run,       \* what the IO thread is about to do
    reading,   \* the callback the transport has for a read, or None
    writing,   \* the bytes and the callback the transport has for a write, or None
    open,      \* disconnect was not called, was called, has reached the transport
    ops,       \* history: the calls and what their callbacks got
    wire,      \* the bytes that the transport has accepted
    inbound,   \* the records of the peer
    taken,     \* bytes of them that the transport has delivered
    peer,      \* the peer sends, has closed its side, or the connection is broken
    duplex     \* user code reads and writes at once, and then the peer asks nothing

transportVars == <<reading, writing, wire, taken>>
peerVars == <<inbound, peer, duplex>>
vars == <<conn, run, transportVars, open, ops, peerVars>>

Idle == [at |-> "idle"]

\* ClientConnection::new: the ClientHello is queued.
New == [queued |-> RecordSize,   \* bytes that rustls wants to write
        made |-> 0,              \* bytes that write_tls has handed out
        buffer |-> <<>>,         \* the deframer
        records |-> 0,           \* records processed
        plain |-> 0,             \* decrypted and not yet read
        closed |-> FALSE,        \* close_notify was received
        failed |-> FALSE]

Init ==
    /\ conn = New
    /\ run = Idle /\ reading = None /\ writing = None
    /\ open = "open"
    /\ ops = [o \in Ops |-> [kind |-> "none", state |-> "unused", mark |-> 0]]
    /\ wire = <<>> /\ inbound = <<>> /\ taken = 0 /\ peer = "sends"
    /\ duplex \in BOOLEAN

IsHandshaking == conn.records < Flight
Available == Len(inbound) * RecordSize - taken

-----------------------------------------------------------------------------
(* Calls of user code *)

Pending(kinds) == {o \in Ops : ops[o].state = "pending" /\ ops[o].kind \in kinds}

\* User code waits for the handshake, gives up after an error, and has one read and
\* one write under way: both at once if duplex.
MayCall(kind, o) ==
    /\ run = Idle /\ open = "open"
    /\ ops[o].state = "unused" /\ \A q \in 1 .. o - 1 : ops[q].state # "unused"
    /\ \A q \in Ops : ops[q].state # "error"
    /\ IF kind = "handshake" THEN o = 1 ELSE o > 1 /\ ops[1].state = "ok"
    /\ Pending({kind}) = {}
    /\ duplex \/ Overlap \/ Pending(Kinds) = {}

Called(kind, o, bytes) ==
    ops' = [ops EXCEPT ![o] = [kind |-> kind, state |-> "pending", mark |-> bytes]]

\* A slip to detect: the handshake reads before it has sent anything.
HandshakeReading(o) ==
    /\ MayCall("handshake", o)
    /\ Called("handshake", o, RecordSize)
    /\ run' = [at |-> "feed", done |-> To("handshake", o)]
    /\ UNCHANGED <<conn, transportVars, open, peerVars>>

Handshake(o) ==
    /\ MayCall("handshake", o)
    /\ Called("handshake", o, RecordSize)
    /\ run' = [at |-> "flush", done |-> To("handshake", o)]
    /\ UNCHANGED <<conn, transportVars, open, peerVars>>

Read(o) ==
    /\ MayCall("read", o)
    /\ Called("read", o, 0)
    /\ run' = [at |-> "read", done |-> To("read", o)]
    /\ UNCHANGED <<conn, transportVars, open, peerVars>>

\* rustls encrypts the buffer into a record, or its own buffer is full, and part of
\* the data stays queued while the caller gets an error.
Write(o) ==
    /\ MayCall("write", o)
    /\ conn' = [conn EXCEPT !.queued = @ + RecordSize]
    /\ \/ /\ Called("write", o, conn.made + conn.queued + RecordSize)
          /\ run' = [at |-> "flush", done |-> To("write", o)]
       \/ /\ ops' = [ops EXCEPT ![o] = [kind |-> "write", state |-> "error", mark |-> 0]]
          /\ UNCHANGED run
    /\ UNCHANGED <<transportVars, open, peerVars>>

\* Queue a close_notify and flush it; unless Overlap, not while a pump may send bytes.
Disconnect ==
    /\ run = Idle /\ open = "open"
    /\ \/ Overlap
       \/ writing = None /\ Pending(IF duplex THEN {"handshake"} ELSE Kinds) = {}
    /\ open' = "closing"
    /\ conn' = [conn EXCEPT !.queued = @ + RecordSize]
    /\ run' = [at |-> "flush", done |-> To("disconnect", 0)]
    /\ UNCHANGED <<transportVars, ops, peerVars>>

-----------------------------------------------------------------------------
(* Pumps *)

Finish(o, state) ==
    /\ ops' = [ops EXCEPT ![o].state = state]
    /\ run' = Idle

\* A slip to detect: a transport that fails is not disconnected.
FailQuietly(k) ==
    IF k.for = "disconnect" THEN run' = Idle /\ UNCHANGED ops ELSE Finish(k.op, "error")

\* An error ends any pump; disconnect does not care.
Fail(k) ==
    IF k.for = "disconnect"
    THEN run' = [at |-> "hangup"] /\ UNCHANGED ops
    ELSE Finish(k.op, "error")

\* What follows a flush: the end of the handshake or more to feed, another attempt to
\* read, the end of the write, or the end of the transport.
Flushed(k) ==
    CASE k.for = "handshake" /\ IsHandshaking ->
            run' = [at |-> "feed", done |-> k] /\ UNCHANGED ops
      [] k.for = "read" -> run' = [at |-> "read", done |-> k] /\ UNCHANGED ops
      [] k.for = "disconnect" -> run' = [at |-> "hangup"] /\ UNCHANGED ops
      [] OTHER -> Finish(k.op, "ok")

\* write_tls drains everything that is queued; then write_all sends it.
FlushPending ==
    /\ run.at = "flush"
    /\ IF conn.queued = 0
       THEN Flushed(run.done) /\ UNCHANGED conn
       ELSE /\ run' = [at |-> "send", done |-> run.done,
                       bytes |-> [i \in 1 .. conn.queued |-> conn.made + i]]
            /\ conn' = [conn EXCEPT !.queued = 0, !.made = @ + conn.queued]
            /\ UNCHANGED ops
    /\ UNCHANGED <<transportVars, open, peerVars>>

\* A slip to detect: a partial write counts as the whole.
AcceptedOnce(w, n) == run' = [at |-> "flush", done |-> w.done]

\* A slip to detect: after a partial write the whole buffer is written again.
AcceptedAgain(w, n) ==
    run' = IF n >= Len(w.bytes) THEN [at |-> "flush", done |-> w.done] ELSE w

\* The transport has accepted n bytes: write_all goes on with the rest, and when all
\* are gone flush_pending looks for more.
Accepted(w, n) ==
    run' = IF n >= Len(w.bytes) THEN [at |-> "flush", done |-> w.done]
           ELSE [at |-> "send", done |-> w.done, bytes |-> SubSeq(w.bytes, n + 1, Len(w.bytes))]

Transmit(w) ==
    IF peer = "broken"
    THEN Fail(w.done) /\ UNCHANGED wire
    ELSE \E n \in 1 .. Len(w.bytes) :
            /\ wire' = wire \o SubSeq(w.bytes, 1, n)
            /\ Accepted(w, n)
            /\ UNCHANGED ops

\* write_all calls transport.write: some bytes at once, or the callback waits and the
\* one that waited before is forgotten.
WriteAll ==
    /\ run.at = "send"
    /\ \/ Transmit(run) /\ UNCHANGED writing
       \/ /\ peer # "broken"
          /\ writing' = run /\ run' = Idle
          /\ UNCHANGED <<ops, wire>>
    /\ UNCHANGED <<conn, reading, open, taken, peerVars>>

\* A slip to detect: nobody is told of an end of file or an error.
DeliverQuietly(k) ==
    IF peer = "broken" \/ Available = 0
    THEN run' = Idle /\ UNCHANGED <<taken, ops>>
    ELSE \E n \in 1 .. ReadChunk :
            /\ n <= Available
            /\ run' = [at |-> "process", done |-> k, slice |-> [i \in 1 .. n |-> taken + i]]
            /\ taken' = taken + n
            /\ UNCHANGED ops

\* The transport delivers a chunk, an end of file, or an error.
Deliver(k) ==
    IF peer = "broken" \/ Available = 0
    THEN Fail(k) /\ UNCHANGED taken
    ELSE \E n \in 1 .. ReadChunk :
            /\ n <= Available
            /\ run' = [at |-> "process", done |-> k, slice |-> [i \in 1 .. n |-> taken + i]]
            /\ taken' = taken + n
            /\ UNCHANGED ops

Deliverable == Available > 0 \/ peer # "sends"

FeedOne ==
    /\ run.at = "feed"
    /\ IF Deliverable
       THEN Deliver(run.done) /\ UNCHANGED reading
       ELSE reading' = run.done /\ run' = Idle /\ UNCHANGED <<taken, ops>>
    /\ UNCHANGED <<conn, writing, open, wire, peerVars>>

\* process_new_packets: the record at the front of the deframer, if it is complete.
\* A record that does not start where the last one ended cannot be decrypted.
Processed(c) ==
    IF Len(c.buffer) < RecordSize THEN c
    ELSE LET start == c.records * RecordSize
             intact == \A i \in 1 .. RecordSize : c.buffer[i] = start + i
             kind == IF intact THEN inbound[c.records + 1] ELSE "forged"
             answer == \/ kind \in {"ask", "forged"}
                       \/ kind = "flight" /\ c.records + 1 = Flight
         IN [c EXCEPT !.buffer = SubSeq(@, RecordSize + 1, Len(@)),
                      !.records = @ + 1,
                      !.plain = IF kind = "data" THEN @ + 1 ELSE @,
                      !.closed = @ \/ kind = "notify",
                      !.failed = @ \/ kind = "forged",
                      !.queued = IF answer THEN @ + RecordSize ELSE @]

\* A slip to detect: packets are processed when the chunk has been read, not in between.
ProcessLast ==
    /\ run.at = "process"
    /\ LET n == Deframer - Len(conn.buffer)
           m == IF n < Len(run.slice) THEN n ELSE Len(run.slice)
           c == [conn EXCEPT !.buffer = @ \o SubSeq(run.slice, 1, m)] IN
       IF m = 0
       THEN /\ conn' = Processed(conn)
            /\ run' = [at |-> "flush", done |-> run.done] /\ UNCHANGED ops
       ELSE /\ conn' = c
            /\ run' = [run EXCEPT !.slice = SubSeq(@, m + 1, Len(@))]
            /\ UNCHANGED ops
    /\ UNCHANGED <<transportVars, open, peerVars>>

\* A slip to detect: read_tls is called once for each chunk.
ProcessOnce ==
    /\ run.at = "process"
    /\ LET n == Deframer - Len(conn.buffer)
           m == IF n < Len(run.slice) THEN n ELSE Len(run.slice)
           c == Processed([conn EXCEPT !.buffer = @ \o SubSeq(run.slice, 1, m)]) IN
       /\ conn' = c
       /\ IF c.failed THEN Fail(run.done)
          ELSE run' = [at |-> "flush", done |-> run.done] /\ UNCHANGED ops
    /\ UNCHANGED <<transportVars, open, peerVars>>

\* One turn of the loop of feed_one: read_tls takes what the deframer has room for, or
\* refuses more while too much plaintext waits to be read.  The loop ends when nothing is
\* left or nothing was taken, and an error ends the call.
Process ==
    /\ run.at = "process"
    /\ LET n == Deframer - Len(conn.buffer)
           m == IF n < Len(run.slice) THEN n ELSE Len(run.slice)
           c == Processed([conn EXCEPT !.buffer = @ \o SubSeq(run.slice, 1, m)]) IN
       \/ /\ m = 0
          /\ run' = [at |-> "flush", done |-> run.done] /\ UNCHANGED <<conn, ops>>
       \/ /\ run.slice # <<>> /\ conn.plain > 0
          /\ Fail(run.done) /\ UNCHANGED conn
       \/ /\ m > 0
          /\ conn' = c
          /\ IF c.failed THEN Fail(run.done)
             ELSE /\ run' = [run EXCEPT !.slice = SubSeq(@, m + 1, Len(@))]
                  /\ UNCHANGED ops
    /\ UNCHANGED <<transportVars, open, peerVars>>

\* read: plaintext that is there (any part of it), the clean end of the stream, or
\* feed a chunk, flush what rustls answers, and try again.
ReadPlain ==
    /\ run.at = "read"
    /\ \/ /\ conn.plain > 0
          /\ \E n \in 1 .. conn.plain : conn' = [conn EXCEPT !.plain = @ - n]
          /\ Finish(run.done.op, "ok")
       \/ /\ conn.plain = 0 /\ conn.closed
          /\ Finish(run.done.op, "ok") /\ UNCHANGED conn
       \/ /\ conn.plain = 0 /\ ~conn.closed
          /\ run' = [run EXCEPT !.at = "feed"] /\ UNCHANGED <<conn, ops>>
    /\ UNCHANGED <<transportVars, open, peerVars>>

\* transport.disconnect: it forgets the callbacks it has.
HangUp ==
    /\ run.at = "hangup"
    /\ open' = "disconnected"
    /\ reading' = None /\ writing' = None
    /\ ops' = [o \in Ops |-> IF ops[o].state = "pending"
                            THEN [ops[o] EXCEPT !.state = "cancelled"] ELSE ops[o]]
    /\ run' = Idle
    /\ UNCHANGED <<conn, wire, taken, peerVars>>

Pump == FlushPending \/ WriteAll \/ FeedOne \/ Process \/ ReadPlain \/ HangUp

-----------------------------------------------------------------------------
(* The transport and the peer *)

ReadCallback ==
    /\ run = Idle /\ reading # None /\ Deliverable
    /\ reading' = None
    /\ Deliver(reading)
    /\ UNCHANGED <<conn, writing, open, wire, peerVars>>

WriteCallback ==
    /\ run = Idle /\ writing # None
    /\ writing' = None
    /\ Transmit(writing)
    /\ UNCHANGED <<conn, reading, open, taken, peerVars>>

\* The handshake comes first, once the ClientHello has arrived; a record may be forged.
PeerSends(kind) ==
    /\ peer = "sends" /\ Len(inbound) < MaxRecords
    /\ \A i \in DOMAIN inbound : inbound[i] \notin {"notify", "forged"}
    /\ Len(wire) >= RecordSize
    /\ kind = "forged" \/ (kind = "flight") = (Len(inbound) < Flight)
    /\ kind = "ask" => ~duplex
    /\ inbound' = Append(inbound, kind)
    /\ UNCHANGED <<conn, run, transportVars, open, ops, peer, duplex>>

PeerStops ==
    /\ peer = "sends"
    /\ peer' \in {"closed", "broken"}
    /\ UNCHANGED <<conn, run, transportVars, open, ops, inbound, duplex>>

Next == \/ \E o \in Ops : Handshake(o) \/ Read(o) \/ Write(o)
        \/ Disconnect \/ Pump \/ ReadCallback \/ WriteCallback
        \/ \E kind \in {"flight", "data", "ask", "notify", "forged"} : PeerSends(kind)
        \/ PeerStops

Spec == Init /\ [][Next]_vars

\* A SocketPosix has one watch for its descriptor: of a read and a write that wait
\* together, the one that armed it first is never called back (SocketPosix.tla,
\* PendingArmed).  So a callback comes for certain where one call at a time is under way,
\* and for the close_notify, whose write arms the watch last.
OneAtATime == ~Overlap /\ (duplex => Pending({"handshake"}) # {})
ArmedLast == OneAtATime \/ (~Overlap /\ open = "closing")

\* The IO thread runs, the transport calls back as far as a SocketPosix does, and the
\* peer plays its part of the handshake.
FairSpec == /\ Spec
            /\ WF_vars(Pump)
            /\ WF_vars(OneAtATime /\ ReadCallback) /\ WF_vars(ArmedLast /\ WriteCallback)
            /\ WF_vars(PeerSends("flight"))

-----------------------------------------------------------------------------
(* Properties *)

TypeOK ==
    /\ conn \in [queued : Nat, made : Nat, buffer : Bytes, records : Nat, plain : Nat,
                 closed : BOOLEAN, failed : BOOLEAN]
    /\ Len(conn.buffer) < RecordSize
    /\ \/ run = Idle \/ run = [at |-> "hangup"] \/ run \in Sending
       \/ run \in [at : {"flush", "feed", "read"}, done : Continuation]
       \/ run \in [at : {"process"}, done : Continuation, slice : Bytes]
    /\ reading \in Continuation \cup {None}
    /\ writing \in Sending \cup {None}
    /\ open \in {"open", "closing", "disconnected"}
    /\ ops \in [Ops -> [kind : Kinds \cup {"none"}, mark : Nat,
                        state : {"unused", "pending", "ok", "error", "cancelled"}]]
    /\ wire \in Bytes /\ taken \in Nat /\ duplex \in BOOLEAN
    /\ inbound \in Seq({"flight", "data", "ask", "notify", "forged"})
    /\ peer \in {"sends", "closed", "broken"}

\* The transport gets the bytes of rustls in their order, none lost, none twice, however
\* the writes are cut and whatever is flushed in between.
StreamIntact == \A i \in DOMAIN wire : wire[i] = i

\* No byte of a chunk is lost between the transport and rustls: a record fails to
\* decrypt only if the peer forged it.
NoDesync == conn.failed => \E i \in DOMAIN inbound : inbound[i] = "forged"

\* A handshake or a write that succeeded has handed all its bytes to the transport.
OkMeansSent == \A o \in Ops : ops[o].state = "ok" => Len(wire) >= ops[o].mark

\* Bytes and answers agree: what the transport gets and what rustls gets is whole and in
\* order, and a call that succeeded has nothing left to send.
BytesIntact == StreamIntact /\ NoDesync /\ OkMeansSent

\* The callback of a call that has not returned waits in exactly one place.
CallbackHeld ==
    \A o \in Pending(Kinds) :
        LET inRun == run # Idle /\ run.at # "hangup" /\ run.done.op = o
            inRead == reading # None /\ reading.op = o
            inWrite == writing # None /\ writing.done.op = o
        IN \/ inRun /\ ~inRead /\ ~inWrite
           \/ ~inRun /\ inRead /\ ~inWrite
           \/ ~inRun /\ ~inRead /\ inWrite
           \/ run = [at |-> "hangup"]

\* What a read waits for is there.
Answered == \/ peer # "sends"
            \/ conn.plain > 0 \/ conn.closed
            \/ \E i \in conn.records + 1 .. Len(inbound) : inbound[i] # "ask"

\* disconnect closes the transport in the end, whether or not the close_notify gets out.
DisconnectCloses == open = "closing" ~> open = "disconnected"

\* Every call returns that has the transport for itself: a handshake because the peer
\* plays its part, a write because the transport takes the bytes, a read when there is
\* something to read or an end.  Nothing is said of a read and a write at once.
CallsReturn ==
    \A o \in Ops :
        (\/ o \in Pending({"handshake"})
         \/ ~duplex /\ o \in Pending({"write"})
         \/ ~duplex /\ o \in Pending({"read"}) /\ Answered)
           ~> o \notin Pending(Kinds)

\* No pump gets stuck between rustls and the transport, whatever order bytes arrive in.
EveryCallEnds == CallsReturn /\ DisconnectCloses
=============================================================================
