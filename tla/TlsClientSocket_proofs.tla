----------------------- MODULE TlsClientSocket_proofs -----------------------
(***************************************************************************)
(* Theorems about TlsClientSocket: types, and, if user code starts nothing *)
(* that sends while another call may be sending (Overlap = FALSE), that    *)
(* both byte streams stay whole and no callback is lost. They hold for any *)
(* number of calls and records, any sizes, and any way in which the        *)
(* transport cuts the bytes.                                               *)
(***************************************************************************)
EXTENDS TlsClientSocket, SequenceTheorems, TLAPS

-----------------------------------------------------------------------------
(* The inductive invariant *)

\* Some function is about to go on with a callback.
Busy == run.at \in {"flush", "send", "feed", "process", "read"}
Readers == {"handshake", "read"}
Failed == \E o \in Ops : ops[o].state = "error"

\* Only the pumps of a handshake or a read take bytes from the transport.
Shape ==
    /\ run.at \in {"feed", "process"} => run.done.for \in Readers
    /\ run.at = "read" => run.done.for = "read"
    /\ reading # None => reading.for \in Readers

\* A callback on its way belongs to a call that has not returned.
Live(k) ==
    IF k.for = "disconnect" THEN open = "closing"
    ELSE k.op \in Ops /\ ops[k.op].state = "pending" /\ ops[k.op].kind = k.for

\* No callback is in two places, and none that is pending is nowhere.
Owned ==
    /\ Busy => Live(run.done)
    /\ reading # None => Live(reading)
    /\ writing # None => Live(writing.done)
    /\ Busy /\ reading # None => run.done # reading
    /\ Busy /\ writing # None => run.done # writing.done
    /\ reading # None /\ writing # None => reading # writing.done
Held ==
    \A o \in Pending(Kinds) :
        \/ Busy /\ run.done.op = o
        \/ reading # None /\ reading.op = o
        \/ writing # None /\ writing.done.op = o
        \/ run.at = "hangup"

\* What user code has under way: one call, or a read and a write, or a read that a
\* disconnect overtakes, and after an error what was still under way; the handshake
\* comes first.
Calls ==
    /\ \A p, q \in Pending(Kinds) :
          p # q => duplex /\ ops[p].kind # ops[q].kind
                          /\ ops[p].kind # "handshake" /\ ops[q].kind # "handshake"
                          /\ ~Failed
    /\ open = "closing" => \A o \in Pending(Kinds) : duplex /\ ops[o].kind = "read"
    /\ open = "disconnected" => run = Idle /\ reading = None /\ writing = None
    /\ run.at = "hangup" => open = "closing"
    /\ \A o \in Ops : /\ ops[o].kind \in {"read", "write"} => o # 1 /\ ops[1].state = "ok"
                      /\ ops[o].kind = "handshake" => o = 1
                      /\ ops[o].state \in {"pending", "ok"} => ops[o].kind \in Kinds
                      /\ ops[o].state = "unused" => ops[o].kind = "none"
Established == 1 \in Ops /\ ops[1].state = "ok" => conn.records >= Flight

\* The one write that the transport keeps is never replaced: while it waits rustls has
\* nothing to send, and only a read goes on meanwhile; rustls queues something only
\* when no read can flush it behind the back of a write.
Quiet ==
    /\ run.at = "send" => writing = None
    /\ run.at = "send" /\ conn.queued > 0 => reading = None /\ (open # "open" \/ Failed)
    /\ writing # None /\ Busy => run.done.for = "read"
    /\ writing # None /\ conn.queued > 0 => ~Busy /\ reading = None /\ (open # "open" \/ Failed)
    /\ duplex => \A i \in DOMAIN inbound : inbound[i] # "ask"
    /\ duplex /\ conn.queued > 0 /\ 1 \in Ops /\ ops[1].state = "ok"
          => open # "open" \/ Failed \/ (run.at = "flush" /\ run.done.for = "write")
    /\ run.at = "send" /\ run.done.for = "read" => ~duplex \/ open # "open" \/ Failed
    /\ writing # None /\ writing.done.for = "read" => ~duplex \/ open # "open" \/ Failed

\* What rustls has processed, the deframer, and the chunk being fed follow each other
\* up to the last byte taken from the transport, until a read has failed.
Follows(c, s) ==
    /\ c.records * RecordSize + Len(c.buffer) + Len(s) = taken
    /\ \A i \in 1 .. Len(c.buffer) : c.buffer[i] = c.records * RecordSize + i
    /\ \A i \in 1 .. Len(s) : s[i] = c.records * RecordSize + Len(c.buffer) + i
Slice == IF run.at = "process" THEN run.slice ELSE <<>>
NoMoreReads == Failed /\ Pending(Readers) = {}
InStream ==
    /\ taken <= Len(inbound) * RecordSize
    /\ Follows(conn, Slice) \/ NoMoreReads
    /\ conn.failed => NoMoreReads

\* What the transport has accepted and what it is offered follow each other up to the
\* last byte that rustls has handed out, until bytes are given up for good.
Inflight == IF run.at = "send" THEN run.bytes
            ELSE IF writing # None THEN writing.bytes ELSE <<>>
Contiguous ==
    /\ conn.made = Len(wire) + Len(Inflight)
    /\ \A i \in 1 .. Len(Inflight) : Inflight[i] = Len(wire) + i
GivenUp ==
    \/ open = "disconnected"
    \/ peer = "broken" /\ Pending({"handshake", "write"}) = {} /\ (open # "open" \/ Failed)
OutStream == Contiguous \/ GivenUp

Marks ==
    /\ conn.made + conn.queued >= RecordSize
    /\ \A o \in Ops : /\ ops[o].mark <= conn.made + conn.queued
                      /\ ops[o].kind = "read" => ops[o].mark = 0

Control == Shape /\ Owned /\ Held /\ Calls
IInv == /\ TypeOK /\ Control /\ Quiet /\ Established /\ InStream
        /\ OutStream /\ Marks /\ BytesIntact

-----------------------------------------------------------------------------
(* Types *)

ConnType == [queued : Nat, made : Nat, buffer : Bytes, records : Nat, plain : Nat,
             closed : BOOLEAN, failed : BOOLEAN]
OpType == [kind : Kinds \cup {"none"}, mark : Nat,
           state : {"unused", "pending", "ok", "error", "cancelled"}]
Resting == run = Idle \/ run = [at |-> "hangup"]
Running == \/ run \in Sending
           \/ run \in [at : {"flush", "feed", "read"}, done : Continuation]
           \/ run \in [at : {"process"}, done : Continuation, slice : Bytes]

\* What the IO thread is about to do, read off the field `at`.
LEMMA RunForms ==
    ASSUME TypeOK
    PROVE  /\ run.at \in {"idle", "hangup", "flush", "send", "feed", "process", "read"}
           /\ run = Idle <=> run.at = "idle"
           /\ run = [at |-> "hangup"] <=> run.at = "hangup"
           /\ run.at = "send" => run \in Sending
           /\ run.at = "process" => run.slice \in Bytes
           /\ Busy => run.done \in Continuation
           /\ Busy <=> ~Resting
<1>1. Resting \/ Running  BY DEF TypeOK, Resting, Running
<1>2. CASE Resting  BY <1>2 DEF Resting, Idle, Busy
<1>3. CASE run \in Sending  BY <1>3 DEF Sending, Idle, Busy, Resting
<1>4. CASE run \in [at : {"flush", "feed", "read"}, done : Continuation]
  BY <1>4 DEF Idle, Busy, Resting
<1>5. CASE run \in [at : {"process"}, done : Continuation, slice : Bytes]
  BY <1>5 DEF Idle, Busy, Resting
<1>. QED  BY <1>1, <1>2, <1>3, <1>4, <1>5 DEF Running

\* A callback of user code names a call; the one of disconnect names none.
LEMMA ContinuationForms ==
    ASSUME NEW k \in Continuation
    PROVE  /\ k.for # "disconnect" => k.op \in Ops /\ k.for \in Kinds
           /\ k.for = "disconnect" => k = To("disconnect", 0) /\ k.op = 0
           /\ k = [for |-> k.for, op |-> k.op]
BY DEF Continuation, To, Kinds

\* The end of a call changes nothing but its state.
LEMMA FinishTypes ==
    ASSUME ops \in [Ops -> OpType], NEW o, NEW state \in {"ok", "error"}, Finish(o, state)
    PROVE  ops' \in [Ops -> OpType] /\ run' = Idle
BY DEF Finish, OpType

LEMMA FailTypes ==
    ASSUME ops \in [Ops -> OpType], NEW k \in Continuation, Fail(k)
    PROVE  ops' \in [Ops -> OpType] /\ Resting'
<1>1. CASE k.for = "disconnect"  BY <1>1 DEF Fail, Resting
<1>2. CASE k.for # "disconnect"
  BY <1>2, FinishTypes DEF Fail, Resting
<1>. QED  BY <1>1, <1>2

LEMMA FlushedTypes ==
    ASSUME ops \in [Ops -> OpType], NEW k \in Continuation, Flushed(k)
    PROVE  ops' \in [Ops -> OpType] /\ (Resting' \/ Running')
<1>1. CASE k.for = "handshake" /\ IsHandshaking  BY <1>1 DEF Flushed, Running
<1>2. CASE k.for = "read"  BY <1>2 DEF Flushed, Running
<1>3. CASE k.for = "disconnect"  BY <1>3 DEF Flushed, Resting
<1>4. CASE ~(k.for = "handshake" /\ IsHandshaking) /\ k.for \notin {"read", "disconnect"}
  <2>1. Finish(k.op, "ok")  BY <1>4 DEF Flushed
  <2>. QED  BY <2>1, FinishTypes DEF Resting
<1>. QED  BY <1>1, <1>2, <1>3, <1>4

LEMMA RestOfBytes ==
    ASSUME NEW s \in Bytes, NEW n \in 0 .. Len(s)
    PROVE  /\ SubSeq(s, 1, n) \in Bytes /\ Len(SubSeq(s, 1, n)) = n
           /\ SubSeq(s, n + 1, Len(s)) \in Bytes
           /\ Len(SubSeq(s, n + 1, Len(s))) = Len(s) - n
           /\ \A i \in 1 .. n : SubSeq(s, 1, n)[i] = s[i]
           /\ \A i \in 1 .. Len(s) - n : SubSeq(s, n + 1, Len(s))[i] = s[n + i]
<1>1. CASE n = Len(s)  BY <1>1 DEF Bytes
<1>2. CASE n < Len(s)  BY <1>2 DEF Bytes
<1>. QED  BY <1>1, <1>2 DEF Bytes

LEMMA JoinBytes ==
    ASSUME NEW s \in Bytes, NEW t \in Bytes
    PROVE  /\ s \o t \in Bytes /\ Len(s \o t) = Len(s) + Len(t)
           /\ \A i \in 1 .. Len(s) : (s \o t)[i] = s[i]
           /\ \A i \in 1 .. Len(t) : (s \o t)[Len(s) + i] = t[i]
BY DEF Bytes

LEMMA Chunk ==
    ASSUME NEW from \in Nat, NEW n \in Nat
    PROVE  /\ [i \in 1 .. n |-> from + i] \in Bytes
           /\ Len([i \in 1 .. n |-> from + i]) = n
BY DEF Bytes

\* The type invariant, conjunct by conjunct: what the steps below reestablish.
LEMMA TypesFolded ==
    /\ TypeOK <=>
          /\ conn \in ConnType /\ Len(conn.buffer) < RecordSize
          /\ Resting \/ Running
          /\ reading \in Continuation \cup {None} /\ writing \in Sending \cup {None}
          /\ open \in {"open", "closing", "disconnected"} /\ ops \in [Ops -> OpType]
          /\ wire \in Bytes /\ taken \in Nat /\ duplex \in BOOLEAN
          /\ inbound \in Seq({"flight", "data", "ask", "notify", "forged"})
          /\ peer \in {"sends", "closed", "broken"}
BY DEF TypeOK, ConnType, OpType, Resting, Running

LEMMA ConnQueued ==
    ASSUME NEW c \in ConnType, NEW q \in Nat
    PROVE  /\ [c EXCEPT !.queued = q] \in ConnType
           /\ [c EXCEPT !.queued = q].queued = q
           /\ [c EXCEPT !.queued = q].made = c.made
           /\ [c EXCEPT !.queued = q].buffer = c.buffer
           /\ [c EXCEPT !.queued = q].records = c.records
           /\ [c EXCEPT !.queued = q].plain = c.plain
           /\ [c EXCEPT !.queued = q].closed = c.closed
           /\ [c EXCEPT !.queued = q].failed = c.failed
BY DEF ConnType

LEMMA ConnDrained ==
    ASSUME NEW c \in ConnType, NEW m \in Nat
    PROVE  /\ [c EXCEPT !.queued = 0, !.made = m] \in ConnType
           /\ [c EXCEPT !.queued = 0, !.made = m].queued = 0
           /\ [c EXCEPT !.queued = 0, !.made = m].made = m
           /\ [c EXCEPT !.queued = 0, !.made = m].buffer = c.buffer
           /\ [c EXCEPT !.queued = 0, !.made = m].records = c.records
           /\ [c EXCEPT !.queued = 0, !.made = m].failed = c.failed
BY DEF ConnType

LEMMA Sizes ==
    /\ RecordSize \in Nat /\ RecordSize > 0 /\ ReadChunk \in Nat /\ ReadChunk > 0
    /\ Flight \in Nat /\ Flight > 0 /\ MaxOps \in Nat
    /\ Deframer \in Nat /\ Deframer >= RecordSize /\ Deframer < 2 * RecordSize
BY TlsAssumption

LEMMA CallTypes ==
    ASSUME TypeOK, NEW o \in Ops, Handshake(o) \/ Read(o) \/ Write(o)
    PROVE  TypeOK'
<1>. USE TlsAssumption, TypesFolded
<1>0. To("handshake", o) \in Continuation /\ To("read", o) \in Continuation
      /\ To("write", o) \in Continuation
  BY DEF Continuation, To, Kinds
<1>1. CASE Handshake(o)
  <2>1. ops' \in [Ops -> OpType]  BY <1>1 DEF Handshake, Called, OpType, Kinds
  <2>2. Running'  BY <1>1, <1>0 DEF Handshake, Running
  <2>. QED  BY <1>1, <2>1, <2>2 DEF Handshake, transportVars, peerVars, TypeOK, Running, Resting, ConnType, OpType
<1>2. CASE Read(o)
  <2>1. ops' \in [Ops -> OpType]  BY <1>2 DEF Read, Called, OpType, Kinds
  <2>2. Running'  BY <1>2, <1>0 DEF Read, Running
  <2>. QED  BY <1>2, <2>1, <2>2 DEF Read, transportVars, peerVars, TypeOK, Running, Resting, ConnType, OpType
<1>3. CASE Write(o)
  <2>0. conn \in ConnType /\ conn' = [conn EXCEPT !.queued = @ + RecordSize]
    BY <1>3 DEF Write
  <2>1. conn' \in ConnType /\ conn'.buffer = conn.buffer
    <3>1. conn.queued + RecordSize \in Nat  BY DEF ConnType
    <3>. QED  BY <2>0, <3>1, ConnQueued
  <2>2. conn.made + conn.queued + RecordSize \in Nat  BY DEF ConnType
  <2>3. ops' \in [Ops -> OpType] /\ (run' = run \/ Running')
    <3>1. CASE Called("write", o, conn.made + conn.queued + RecordSize)
               /\ run' = [at |-> "flush", done |-> To("write", o)]
      BY <2>2, <3>1, <1>0 DEF Called, OpType, Kinds, Running
    <3>2. CASE ops' = [ops EXCEPT ![o] = [kind |-> "write", state |-> "error", mark |-> 0]]
               /\ UNCHANGED run
      BY <3>2 DEF OpType, Kinds
    <3>. QED  BY <1>3, <3>1, <3>2 DEF Write
  <2>. QED  BY <1>3, <2>1, <2>3 DEF Write, transportVars, peerVars, TypeOK, Running, Resting, ConnType, OpType
<1>. QED  BY <1>1, <1>2, <1>3

LEMMA DisconnectTypes ==
    ASSUME TypeOK, Disconnect \/ HangUp
    PROVE  TypeOK'
<1>. USE TlsAssumption, TypesFolded
<1>1. CASE Disconnect
  <2>0. conn \in ConnType /\ conn' = [conn EXCEPT !.queued = @ + RecordSize]
    BY <1>1 DEF Disconnect
  <2>1. conn' \in ConnType /\ conn'.buffer = conn.buffer
    <3>1. conn.queued + RecordSize \in Nat  BY DEF ConnType
    <3>. QED  BY <2>0, <3>1, ConnQueued
  <2>2. Running'  BY <1>1 DEF Disconnect, Running, Continuation
  <2>. QED  BY <1>1, <2>1, <2>2 DEF Disconnect, transportVars, peerVars, TypeOK, ConnType, OpType, Running
<1>2. CASE HangUp
  <2>1. ops' \in [Ops -> OpType]  BY <1>2 DEF HangUp, OpType
  <2>2. Resting'  BY <1>2 DEF HangUp, Resting
  <2>. QED  BY <1>2, <2>1, <2>2 DEF HangUp, peerVars, TypeOK, OpType, Resting
<1>. QED  BY <1>1, <1>2

LEMMA FlushTypes ==
    ASSUME TypeOK, FlushPending
    PROVE  TypeOK'
<1>0. /\ conn \in ConnType /\ ops \in [Ops -> OpType] /\ run.done \in Continuation
      /\ Len(conn.buffer) < RecordSize
  BY TypesFolded, RunForms DEF FlushPending, Busy
<1>1. /\ conn' \in ConnType /\ conn'.buffer = conn.buffer /\ ops' \in [Ops -> OpType]
      /\ Resting' \/ Running'
  <2>1. CASE conn.queued = 0
    BY <2>1, <1>0, FlushedTypes DEF FlushPending
  <2>2. CASE conn.queued # 0
    <3>1. /\ conn' = [conn EXCEPT !.queued = 0, !.made = @ + conn.queued]
          /\ run' = [at |-> "send", done |-> run.done,
                     bytes |-> [i \in 1 .. conn.queued |-> conn.made + i]]
          /\ UNCHANGED ops
      BY <2>2 DEF FlushPending
    <3>2. conn.made \in Nat /\ conn.queued \in Nat  BY <1>0 DEF ConnType
    <3>3. conn' \in ConnType /\ conn'.buffer = conn.buffer
      <4>1. conn.made + conn.queued \in Nat  BY <3>2
      <4>. QED  BY <1>0, <3>1, <4>1, ConnDrained
    <3>4. [i \in 1 .. conn.queued |-> conn.made + i] \in Bytes  BY <3>2, Chunk
    <3>5. Running'  BY <3>1, <3>4, <1>0 DEF Running, Sending
    <3>. QED  BY <1>0, <3>1, <3>3, <3>5
  <2>. QED  BY <2>1, <2>2
<1>. QED
  BY <1>0, <1>1, TypesFolded DEF FlushPending, transportVars, peerVars, TypeOK, Resting, Running, ConnType, OpType

\* The transport takes a part of the bytes, and the rest stays with the callback.
LEMMA TransmitTypes ==
    ASSUME TypeOK, NEW w \in Sending, Transmit(w)
    PROVE  ops' \in [Ops -> OpType] /\ wire' \in Bytes /\ (Resting' \/ Running')
<1>0. ops \in [Ops -> OpType] /\ wire \in Bytes /\ w.done \in Continuation /\ w.bytes \in Bytes
  BY TypesFolded DEF Sending
<1>1. CASE peer = "broken"
  BY <1>0, <1>1, FailTypes DEF Transmit
<1>2. CASE peer # "broken"
  <2>1. PICK n \in 1 .. Len(w.bytes) :
           /\ wire' = wire \o SubSeq(w.bytes, 1, n) /\ Accepted(w, n) /\ UNCHANGED ops
    BY <1>2 DEF Transmit
  <2>a. n \in 0 .. Len(w.bytes)  BY <1>0 DEF Bytes
  <2>2. SubSeq(w.bytes, 1, n) \in Bytes  BY <1>0, <2>a, RestOfBytes
  <2>3. wire' \in Bytes  BY <1>0, <2>1, <2>2 DEF Bytes
  <2>4. Running'
    <3>1. CASE n >= Len(w.bytes)  BY <3>1, <2>1, <1>0 DEF Accepted, Running
    <3>2. CASE ~(n >= Len(w.bytes))
      <4>1. SubSeq(w.bytes, n + 1, Len(w.bytes)) \in Bytes
        BY <1>0, <2>a, RestOfBytes
      <4>. QED  BY <3>2, <4>1, <2>1, <1>0 DEF Accepted, Running, Sending
    <3>. QED  BY <3>1, <3>2
  <2>. QED  BY <1>0, <2>1, <2>3, <2>4
<1>. QED  BY <1>1, <1>2

LEMMA WriteTypes ==
    ASSUME TypeOK, WriteAll \/ WriteCallback
    PROVE  TypeOK'
<1>0. writing \in Sending \cup {None}  BY TypesFolded
<1>1. CASE WriteAll
  <2>1. run \in Sending  BY <1>1, RunForms DEF WriteAll
  <2>2. CASE Transmit(run) /\ UNCHANGED writing
    <3>1. ops' \in [Ops -> OpType] /\ wire' \in Bytes /\ (Resting' \/ Running')
      BY <2>1, <2>2, TransmitTypes
    <3>. QED
      BY <1>1, <2>2, <3>1, TypesFolded DEF WriteAll, peerVars, TypeOK, Resting, Running, OpType
  <2>3. CASE writing' = run /\ run' = Idle /\ UNCHANGED <<ops, wire>>
    <3>1. Resting' /\ writing' \in Sending \cup {None}  BY <2>1, <2>3 DEF Resting
    <3>. QED
      BY <1>1, <2>3, <3>1, TypesFolded DEF WriteAll, peerVars, TypeOK, Resting
  <2>. QED  BY <1>1, <2>2, <2>3 DEF WriteAll
<1>2. CASE WriteCallback
  <2>1. writing \in Sending /\ Transmit(writing)  BY <1>0, <1>2 DEF WriteCallback
  <2>2. ops' \in [Ops -> OpType] /\ wire' \in Bytes /\ (Resting' \/ Running')
    BY <2>1, TransmitTypes
  <2>. QED
    BY <1>2, <2>2, TypesFolded DEF WriteCallback, peerVars, TypeOK, Resting, Running, OpType
<1>. QED  BY <1>1, <1>2

LEMMA DeliverTypes ==
    ASSUME TypeOK, NEW k \in Continuation, Deliver(k)
    PROVE  ops' \in [Ops -> OpType] /\ taken' \in Nat /\ (Resting' \/ Running')
<1>0. ops \in [Ops -> OpType] /\ taken \in Nat  BY TypesFolded
<1>1. CASE peer = "broken" \/ Available = 0
  BY <1>0, <1>1, FailTypes DEF Deliver
<1>2. CASE ~(peer = "broken" \/ Available = 0)
  <2>1. PICK n \in 1 .. ReadChunk :
           /\ run' = [at |-> "process", done |-> k, slice |-> [i \in 1 .. n |-> taken + i]]
           /\ taken' = taken + n /\ UNCHANGED ops
    BY <1>2 DEF Deliver
  <2>2. [i \in 1 .. n |-> taken + i] \in Bytes /\ taken' \in Nat
    <3>1. n \in Nat /\ taken + n \in Nat  BY <1>0, Sizes
    <3>. QED  BY <1>0, <2>1, <3>1, Chunk
  <2>3. Running'  BY <2>1, <2>2 DEF Running
  <2>. QED  BY <1>0, <2>1, <2>2, <2>3
<1>. QED  BY <1>1, <1>2

LEMMA ReadTypes ==
    ASSUME TypeOK, FeedOne \/ ReadCallback
    PROVE  TypeOK'
<1>1. CASE FeedOne
  <2>0. run.done \in Continuation  BY <1>1, RunForms DEF FeedOne, Busy
  <2>1. CASE Deliver(run.done) /\ UNCHANGED reading
    <3>1. ops' \in [Ops -> OpType] /\ taken' \in Nat /\ (Resting' \/ Running')
      BY <2>0, <2>1, DeliverTypes
    <3>. QED
      BY <1>1, <2>1, <3>1, TypesFolded DEF FeedOne, peerVars, TypeOK, Resting, Running, OpType
  <2>2. CASE reading' = run.done /\ run' = Idle /\ UNCHANGED <<taken, ops>>
    BY <1>1, <2>0, <2>2, TypesFolded DEF FeedOne, peerVars, TypeOK, Resting
  <2>. QED  BY <1>1, <2>1, <2>2 DEF FeedOne
<1>2. CASE ReadCallback
  <2>1. reading \in Continuation /\ Deliver(reading)
    BY <1>2, TypesFolded DEF ReadCallback
  <2>2. ops' \in [Ops -> OpType] /\ taken' \in Nat /\ (Resting' \/ Running')
    BY <2>1, DeliverTypes
  <2>. QED
    BY <1>2, <2>2, TypesFolded DEF ReadCallback, peerVars, TypeOK, Resting, Running, OpType
<1>. QED  BY <1>1, <1>2
\* process_new_packets changes nothing of the connection but what a record brings; it
\* fails for a record that the peer forged or that does not start where the last ended.
Intact(c) == \A i \in 1 .. RecordSize : c.buffer[i] = c.records * RecordSize + i
Forged(c) == ~Intact(c) \/ inbound[c.records + 1] = "forged"

LEMMA ProcessedForms ==
    ASSUME NEW c \in ConnType, Len(c.buffer) < 2 * RecordSize
    PROVE  /\ Processed(c) \in ConnType
           /\ Len(Processed(c).buffer) < RecordSize
           /\ Processed(c).made = c.made
           /\ Processed(c).queued \in {c.queued, c.queued + RecordSize}
           /\ Processed(c).records >= c.records
           /\ Len(c.buffer) < RecordSize => Processed(c) = c
           /\ Len(c.buffer) >= RecordSize =>
                 /\ Processed(c).records = c.records + 1
                 /\ Processed(c).buffer = SubSeq(c.buffer, RecordSize + 1, Len(c.buffer))
                 /\ Len(Processed(c).buffer) = Len(c.buffer) - RecordSize
                 /\ \A i \in 1 .. Len(c.buffer) - RecordSize :
                       Processed(c).buffer[i] = c.buffer[RecordSize + i]
                 /\ Processed(c).failed <=> c.failed \/ Forged(c)
                 /\ Processed(c).queued # c.queued =>
                       Forged(c) \/ inbound[c.records + 1] = "ask" \/ c.records + 1 = Flight
<1>0. c.buffer \in Seq(Nat) /\ c.records \in Nat /\ c.queued \in Nat /\ c.plain \in Nat
  BY DEF ConnType, Bytes
<1>1. CASE Len(c.buffer) < RecordSize
  BY <1>0, <1>1, Sizes DEF Processed, ConnType
<1>2. CASE ~(Len(c.buffer) < RecordSize)
  <2>. DEFINE start == c.records * RecordSize
              intact == \A i \in 1 .. RecordSize : c.buffer[i] = start + i
              kind == IF intact THEN inbound[c.records + 1] ELSE "forged"
              answer == \/ kind \in {"ask", "forged"}
                        \/ kind = "flight" /\ c.records + 1 = Flight
              b == SubSeq(c.buffer, RecordSize + 1, Len(c.buffer))
              q == IF answer THEN c.queued + RecordSize ELSE c.queued
              p == IF kind = "data" THEN c.plain + 1 ELSE c.plain
              cl == c.closed \/ kind = "notify"
              fa == c.failed \/ kind = "forged"
  <2>1. Processed(c) = [c EXCEPT !.buffer = b, !.records = c.records + 1, !.plain = p,
                                 !.closed = cl, !.failed = fa, !.queued = q]
    BY <1>2, SMTT(60) DEF Processed
  <2>2. /\ b \in Bytes /\ Len(b) < RecordSize /\ Len(b) = Len(c.buffer) - RecordSize
        /\ \A i \in 1 .. Len(c.buffer) - RecordSize : b[i] = c.buffer[RecordSize + i]
    <3>1. RecordSize \in 0 .. Len(c.buffer)  BY <1>0, <1>2, Sizes
    <3>2. /\ b \in Bytes /\ Len(b) = Len(c.buffer) - RecordSize
          /\ \A i \in 1 .. Len(c.buffer) - RecordSize : b[i] = c.buffer[RecordSize + i]
      BY <1>0, <3>1, RestOfBytes DEF Bytes
    <3>3. Len(c.buffer) \in Nat /\ Len(c.buffer) < 2 * RecordSize  BY <1>0, Sizes DEF ConnType
    <3>. HIDE DEF b
    <3>4. PICK l \in Nat : l = Len(c.buffer)  BY <3>3
    <3>5. l - RecordSize < RecordSize  BY ONLY <3>3, <3>4, l \in Nat, Sizes
    <3>. QED  BY <3>2, <3>4, <3>5
  <2>3. q \in Nat /\ q \in {c.queued, c.queued + RecordSize} /\ p \in Nat
        /\ c.records + 1 \in Nat
    <3>. HIDE DEF answer, kind
    <3>1. PICK n \in Nat : n = c.queued  BY <1>0
    <3>2. PICK m \in Nat : m = c.plain  BY <1>0
    <3>3. PICK k \in Nat : k = c.records  BY <1>0
    <3>4. n + RecordSize \in Nat /\ m + 1 \in Nat /\ k + 1 \in Nat  BY Sizes
    <3>. QED  BY <3>1, <3>2, <3>3, <3>4
  <2>4. cl \in BOOLEAN /\ fa \in BOOLEAN  BY Zenon DEF ConnType
  <2>5. kind = "forged" <=> Forged(c)  BY DEF Forged, Intact
  <2>6. q # c.queued =>
           Forged(c) \/ inbound[c.records + 1] = "ask" \/ c.records + 1 = Flight
    BY <2>5
  <2>7. fa <=> c.failed \/ Forged(c)  BY <2>5
  <2>. HIDE DEF b, q, p, cl, fa, kind
  <2>8. /\ Processed(c) \in ConnType /\ Processed(c).buffer = b
        /\ Processed(c).made = c.made /\ Processed(c).queued = q
        /\ Processed(c).records = c.records + 1 /\ Processed(c).failed = fa
    BY <2>1, <2>2, <2>3, <2>4 DEF ConnType
  <2>9. Processed(c).failed <=> c.failed \/ Forged(c)  BY <2>7, <2>8
  <2>10. Processed(c).buffer = SubSeq(c.buffer, RecordSize + 1, Len(c.buffer))
    BY <2>8 DEF b
  <2>11. /\ Len(Processed(c).buffer) < RecordSize
         /\ Len(Processed(c).buffer) = Len(c.buffer) - RecordSize
         /\ \A i \in 1 .. Len(c.buffer) - RecordSize :
               Processed(c).buffer[i] = c.buffer[RecordSize + i]
    BY <2>2, <2>8
  <2>12. /\ Processed(c).records >= c.records
         /\ Processed(c).queued \in {c.queued, c.queued + RecordSize}
         /\ Processed(c).queued # c.queued =>
               Forged(c) \/ inbound[c.records + 1] = "ask" \/ c.records + 1 = Flight
    BY <1>0, <2>3, <2>6, <2>8
  <2>. QED  BY <1>2, <2>8, <2>9, <2>10, <2>11, <2>12
<1>. QED  BY <1>1, <1>2

\* read_tls takes a part of the chunk, as much as the deframer has room for, and that is
\* nothing only if nothing of the chunk is left.
Fits(c, s) == LET n == Deframer - Len(c.buffer) IN IF n < Len(s) THEN n ELSE Len(s)
Fed(c, s) == [c EXCEPT !.buffer = @ \o SubSeq(s, 1, Fits(c, s))]
LeftOver(c, s) == SubSeq(s, Fits(c, s) + 1, Len(s))

LEMMA TakenSlice ==
    ASSUME NEW c \in ConnType, NEW s \in Bytes, Len(c.buffer) < RecordSize
    PROVE  /\ Fits(c, s) \in 0 .. Len(s) /\ (Fits(c, s) = 0 <=> s = <<>>)
           /\ LeftOver(c, s) \in Bytes /\ Len(LeftOver(c, s)) = Len(s) - Fits(c, s)
           /\ Fed(c, s) \in ConnType
           /\ Fed(c, s).buffer = c.buffer \o SubSeq(s, 1, Fits(c, s))
           /\ Len(Fed(c, s).buffer) = Len(c.buffer) + Fits(c, s)
           /\ Len(Fed(c, s).buffer) < 2 * RecordSize
           /\ Fed(c, s).made = c.made /\ Fed(c, s).queued = c.queued
           /\ Fed(c, s).records = c.records /\ Fed(c, s).failed = c.failed
<1>1. c.buffer \in Bytes /\ Len(c.buffer) \in Nat /\ Len(s) \in Nat
  BY DEF ConnType, Bytes
<1>2. /\ Fits(c, s) \in 0 .. Len(s) /\ (Fits(c, s) = 0 <=> Len(s) = 0)
      /\ Len(c.buffer) + Fits(c, s) < 2 * RecordSize
  <2>. DEFINE n == Deframer - Len(c.buffer)
  <2>1. n \in Nat /\ n > 0 /\ Len(c.buffer) + n < 2 * RecordSize  BY <1>1, Sizes
  <2>2. Fits(c, s) = IF n < Len(s) THEN n ELSE Len(s)  BY DEF Fits
  <2>. HIDE DEF n
  <2>3. CASE n < Len(s)  BY <1>1, <2>1, <2>2, <2>3
  <2>4. CASE ~(n < Len(s))
    <3>1. Fits(c, s) = Len(s) /\ Len(s) <= n  BY <1>1, <2>1, <2>2, <2>4
    <3>. QED  BY <1>1, <2>1, <3>1, Sizes
  <2>. QED  BY <2>3, <2>4
<1>3. Len(s) = 0 <=> s = <<>>  BY DEF Bytes
<1>4. LeftOver(c, s) \in Bytes /\ Len(LeftOver(c, s)) = Len(s) - Fits(c, s)
  BY <1>2, RestOfBytes DEF LeftOver
<1>5. SubSeq(s, 1, Fits(c, s)) \in Bytes /\ Len(SubSeq(s, 1, Fits(c, s))) = Fits(c, s)
  BY <1>2, RestOfBytes
<1>6. \A b \in Bytes : /\ [c EXCEPT !.buffer = b] \in ConnType
                       /\ [c EXCEPT !.buffer = b].buffer = b
                       /\ [c EXCEPT !.buffer = b].made = c.made
                       /\ [c EXCEPT !.buffer = b].queued = c.queued
                       /\ [c EXCEPT !.buffer = b].records = c.records
                       /\ [c EXCEPT !.buffer = b].failed = c.failed
  BY DEF ConnType
<1>7. /\ c.buffer \o SubSeq(s, 1, Fits(c, s)) \in Bytes
      /\ Len(c.buffer \o SubSeq(s, 1, Fits(c, s))) = Len(c.buffer) + Fits(c, s)
  <2>1. \A t \in Bytes : c.buffer \o t \in Bytes /\ Len(c.buffer \o t) = Len(c.buffer) + Len(t)
    BY <1>1, JoinBytes
  <2>. QED  BY <1>5, <2>1
<1>. QED  BY <1>2, <1>3, <1>4, <1>6, <1>7 DEF Fed

\* One turn of the loop, in these terms.
LEMMA ProcessForms ==
    ASSUME Process
    PROVE  /\ UNCHANGED <<transportVars, open, peerVars>> /\ run.at = "process"
           /\ \/ /\ Fits(conn, run.slice) = 0 /\ UNCHANGED <<conn, ops>>
                 /\ run' = [at |-> "flush", done |-> run.done]
              \/ UNCHANGED conn /\ Fail(run.done)
              \/ /\ Fits(conn, run.slice) # 0
                 /\ conn' = Processed(Fed(conn, run.slice))
                 /\ \/ conn'.failed /\ Fail(run.done)
                    \/ /\ ~conn'.failed /\ UNCHANGED ops
                       /\ run' = [run EXCEPT !.slice = LeftOver(conn, run.slice)]
BY DEF Process, Fits, Fed, LeftOver

LEMMA ProcessTypes ==
    ASSUME TypeOK, Process
    PROVE  TypeOK'
<1>0. /\ conn \in ConnType /\ Len(conn.buffer) < RecordSize /\ run.slice \in Bytes
      /\ ops \in [Ops -> OpType] /\ run.done \in Continuation
  BY TypesFolded, RunForms, ProcessForms DEF Busy
<1>1. run = [at |-> "process", done |-> run.done, slice |-> run.slice]
  BY RunForms, ProcessForms DEF TypeOK, Idle, Sending
<1>2. /\ conn' \in ConnType /\ Len(conn'.buffer) < RecordSize /\ ops' \in [Ops -> OpType]
      /\ Resting' \/ Running'
  <2>1. CASE UNCHANGED <<conn, ops>> /\ run' = [at |-> "flush", done |-> run.done]
    BY <2>1, <1>0 DEF Running
  <2>3. CASE UNCHANGED conn /\ Fail(run.done)
    BY <2>3, <1>0, FailTypes
  <2>2. CASE conn' = Processed(Fed(conn, run.slice))
    <3>1. conn' \in ConnType /\ Len(conn'.buffer) < RecordSize
      BY <1>0, <2>2, TakenSlice, ProcessedForms
    <3>2. CASE Fail(run.done)
      BY <1>0, <3>1, <3>2, FailTypes
    <3>3. CASE run' = [run EXCEPT !.slice = LeftOver(conn, run.slice)] /\ UNCHANGED ops
      <4>1. run' = [at |-> "process", done |-> run.done, slice |-> LeftOver(conn, run.slice)]
        BY <1>1, <3>3
      <4>2. Running'  BY <4>1, <1>0, TakenSlice DEF Running
      <4>. QED  BY <1>0, <3>1, <3>3, <4>2
    <3>. QED  BY <2>2, <3>2, <3>3, ProcessForms, <2>1, <2>3, <1>0
  <2>. QED  BY <2>1, <2>2, <2>3, ProcessForms
<1>. QED
  BY <1>2, ProcessForms, TypesFolded DEF transportVars, peerVars, TypeOK, Resting, Running, ConnType, OpType

LEMMA PlainTypes ==
    ASSUME TypeOK, ReadPlain
    PROVE  TypeOK'
<1>0. /\ conn \in ConnType /\ Len(conn.buffer) < RecordSize
      /\ ops \in [Ops -> OpType] /\ run.done \in Continuation
  BY TypesFolded, RunForms DEF ReadPlain, Busy
<1>1. /\ conn' \in ConnType /\ conn'.buffer = conn.buffer /\ ops' \in [Ops -> OpType]
      /\ Resting' \/ Running'
  <2>1. CASE /\ conn.plain > 0
             /\ \E n \in 1 .. conn.plain : conn' = [conn EXCEPT !.plain = @ - n]
             /\ Finish(run.done.op, "ok")
    <3>1. PICK n \in 1 .. conn.plain : conn' = [conn EXCEPT !.plain = conn.plain - n]
      BY <2>1
    <3>2. conn.plain - n \in Nat  BY <1>0 DEF ConnType
    <3>3. conn' \in ConnType /\ conn'.buffer = conn.buffer
      BY <1>0, <3>1, <3>2 DEF ConnType
    <3>. QED  BY <1>0, <2>1, <3>3, FinishTypes DEF Resting
  <2>2. CASE Finish(run.done.op, "ok") /\ UNCHANGED conn
    BY <1>0, <2>2, FinishTypes DEF Resting
  <2>3. CASE run' = [run EXCEPT !.at = "feed"] /\ UNCHANGED <<conn, ops>>
    <3>1. run \in [at : {"flush", "feed", "read"}, done : Continuation]
      BY RunForms DEF ReadPlain, TypeOK, Idle, Sending
    <3>2. Running'  BY <2>3, <3>1 DEF Running
    <3>. QED  BY <1>0, <2>3, <3>2
  <2>. QED  BY <2>1, <2>2, <2>3 DEF ReadPlain
<1>. QED
  BY <1>0, <1>1, TypesFolded DEF ReadPlain, transportVars, peerVars, TypeOK, Resting, Running, ConnType, OpType

LEMMA PeerTypes ==
    ASSUME TypeOK,
           PeerStops \/ \E kind \in {"flight", "data", "ask", "notify", "forged"} : PeerSends(kind)
    PROVE  TypeOK'
<1>1. CASE PeerStops
  BY <1>1, TypesFolded DEF PeerStops, transportVars, TypeOK
<1>2. CASE \E kind \in {"flight", "data", "ask", "notify", "forged"} : PeerSends(kind)
  <2>1. PICK kind \in {"flight", "data", "ask", "notify", "forged"} : PeerSends(kind)
    BY <1>2
  <2>2. inbound' \in Seq({"flight", "data", "ask", "notify", "forged"})
    BY <2>1, TypesFolded DEF PeerSends
  <2>. QED  BY <2>1, <2>2, TypesFolded DEF PeerSends, transportVars, TypeOK
<1>. QED  BY <1>1, <1>2

LEMMA TypeInit ==
    ASSUME Init
    PROVE  TypeOK
<1>1. conn \in ConnType /\ Len(conn.buffer) < RecordSize
  BY Sizes DEF Init, New, ConnType, Bytes
<1>2. ops \in [Ops -> OpType] /\ Resting /\ wire \in Bytes
  BY DEF Init, OpType, Resting, Bytes
<1>. QED  BY <1>1, <1>2, TypesFolded DEF Init

LEMMA TypeStep ==
    ASSUME TypeOK, [Next]_vars
    PROVE  TypeOK'
<1>1. CASE \E o \in Ops : Handshake(o) \/ Read(o) \/ Write(o)  BY <1>1, CallTypes
<1>2. CASE Disconnect \/ HangUp  BY <1>2, DisconnectTypes
<1>3. CASE FlushPending  BY <1>3, FlushTypes
<1>4. CASE WriteAll \/ WriteCallback  BY <1>4, WriteTypes
<1>5. CASE FeedOne \/ ReadCallback  BY <1>5, ReadTypes
<1>6. CASE Process  BY <1>6, ProcessTypes
<1>7. CASE ReadPlain  BY <1>7, PlainTypes
<1>8. CASE PeerStops \/ \E kind \in {"flight", "data", "ask", "notify", "forged"} : PeerSends(kind)
  BY <1>8, PeerTypes
<1>9. CASE UNCHANGED vars
  BY <1>9, TypesFolded DEF vars, transportVars, peerVars, TypeOK, Resting, Running, ConnType, OpType
<1>. QED  BY <1>1, <1>2, <1>3, <1>4, <1>5, <1>6, <1>7, <1>8, <1>9 DEF Next, Pump

\* Everything is of its type at every moment, the deframer never holds a whole record
\* when a turn of feed_one ends, and no function goes on without its callback.
THEOREM TypeCorrect == Spec => []TypeOK
<1>1. Init => TypeOK  BY TypeInit
<1>2. TypeOK /\ [Next]_vars => TypeOK'  BY TypeStep
<1>. QED  BY <1>1, <1>2, PTL DEF Spec
-----------------------------------------------------------------------------
(* The callbacks *)

\* All that a pump can do with the callback it has: go on, call it, or, for that of
\* disconnect, hang up.
Goes(k) ==
    /\ Busy' /\ run'.done = k /\ ops' = ops
    /\ run'.at \in {"feed", "process"} => k.for \in Readers
    /\ run'.at = "read" => k.for = "read"
Returns(k, state) == k.for # "disconnect" /\ Finish(k.op, state)
Ends(k) == k.for = "disconnect" /\ run' = [at |-> "hangup"] /\ ops' = ops
Advance(k) == Goes(k) \/ Ends(k) \/ \E state \in {"ok", "error"} : Returns(k, state)

LEMMA FailAdvances ==
    ASSUME NEW k, Fail(k)
    PROVE  Ends(k) \/ Returns(k, "error")
BY DEF Fail, Ends, Returns

LEMMA FlushAdvances ==
    ASSUME TypeOK, FlushPending
    PROVE  Advance(run.done)
<1>0. run.done \in Continuation  BY RunForms DEF FlushPending, Busy
<1>1. CASE conn.queued = 0
  <2>1. Flushed(run.done)  BY <1>1 DEF FlushPending
  <2>2. CASE run.done.for = "handshake" /\ IsHandshaking
    BY <2>1, <2>2 DEF Flushed, Advance, Goes, Busy, Readers
  <2>3. CASE run.done.for = "read"
    BY <2>1, <2>3 DEF Flushed, Advance, Goes, Busy, Readers
  <2>4. CASE run.done.for = "disconnect"
    BY <2>1, <2>4 DEF Flushed, Advance, Ends
  <2>5. CASE ~(run.done.for = "handshake" /\ IsHandshaking)
             /\ run.done.for \notin {"read", "disconnect"}
    BY <2>1, <2>5 DEF Flushed, Advance, Returns
  <2>. QED  BY <2>2, <2>3, <2>4, <2>5
<1>2. CASE conn.queued # 0
  BY <1>2 DEF FlushPending, Advance, Goes, Busy
<1>. QED  BY <1>1, <1>2

LEMMA TransmitAdvances ==
    ASSUME NEW w \in Sending, Transmit(w)
    PROVE  Goes(w.done) \/ Ends(w.done) \/ Returns(w.done, "error")
<1>1. CASE peer = "broken"  BY <1>1, FailAdvances DEF Transmit
<1>2. CASE peer # "broken"
  BY <1>2 DEF Transmit, Accepted, Goes, Busy
<1>. QED  BY <1>1, <1>2

LEMMA DeliverAdvances ==
    ASSUME NEW k, k.for \in Readers, Deliver(k)
    PROVE  /\ Goes(k) \/ Ends(k) \/ Returns(k, "error")
           /\ run'.at # "send"
<1>1. CASE peer = "broken" \/ Available = 0
  BY <1>1, FailAdvances DEF Deliver, Ends, Returns, Finish, Idle
<1>2. CASE ~(peer = "broken" \/ Available = 0)
  BY <1>2 DEF Deliver, Goes, Busy
<1>. QED  BY <1>1, <1>2

LEMMA ProcessAdvances ==
    ASSUME TypeOK, Shape, Process
    PROVE  /\ Goes(run.done) \/ Ends(run.done) \/ Returns(run.done, "error")
           /\ run'.at # "send" /\ run.done.for \in Readers
<1>0. run = [at |-> "process", done |-> run.done, slice |-> run.slice]
      /\ run.done.for \in Readers
  BY RunForms, ProcessForms DEF TypeOK, Idle, Sending, Shape
<1>1. CASE run' = [at |-> "flush", done |-> run.done] /\ ops' = ops
  BY <1>0, <1>1 DEF Goes, Busy
<1>2. CASE Fail(run.done)
  BY <1>0, <1>2, FailAdvances DEF Ends, Returns, Finish, Idle
<1>3. CASE run' = [run EXCEPT !.slice = LeftOver(conn, run.slice)] /\ ops' = ops
  BY <1>0, <1>3 DEF Goes, Busy
<1>. QED  BY <1>1, <1>2, <1>3, ProcessForms

LEMMA PlainAdvances ==
    ASSUME TypeOK, Shape, ReadPlain
    PROVE  /\ run.done.for = "read"
           /\ \/ Returns(run.done, "ok")
              \/ Goes(run.done) /\ run'.at = "feed"
<1>0. run.done.for = "read"  BY DEF ReadPlain, Shape
<1>1. run \in [at : {"flush", "feed", "read"}, done : Continuation]
  BY RunForms DEF ReadPlain, TypeOK, Idle, Sending
<1>2. CASE Finish(run.done.op, "ok")  BY <1>0, <1>2 DEF Returns
<1>3. CASE run' = [run EXCEPT !.at = "feed"] /\ ops' = ops
  BY <1>0, <1>1, <1>3 DEF Goes, Busy, Readers
<1>. QED  BY <1>0, <1>2, <1>3 DEF ReadPlain

\* Two callbacks on their way for the same call are one.
LEMMA SameCall ==
    ASSUME NEW k \in Continuation, NEW l \in Continuation, Live(k), Live(l), k.op = l.op
    PROVE  k = l
<1>0. 0 \notin Ops  BY DEF Ops
<1>1. CASE k.for = "disconnect" \/ l.for = "disconnect"
  BY <1>0, <1>1, ContinuationForms DEF Live
<1>2. CASE k.for # "disconnect" /\ l.for # "disconnect"
  BY <1>2, ContinuationForms DEF Live
<1>. QED  BY <1>1, <1>2

\* The end of a call, as the other calls see it.
LEMMA AfterReturn ==
    ASSUME TypeOK, NEW k \in Continuation, Live(k), NEW state \in {"ok", "error"},
           Returns(k, state)
    PROVE  /\ k.op \in Ops /\ k.op \in Pending(Kinds) /\ ops[k.op].kind = k.for
           /\ run' = Idle
           /\ \A o \in Ops : ops'[o].kind = ops[o].kind /\ ops'[o].mark = ops[o].mark
           /\ \A o \in Ops \ {k.op} : ops'[o] = ops[o]
           /\ ops'[k.op].state = state
           /\ \A kinds : Pending(kinds)' = Pending(kinds) \ {k.op}
           /\ Failed' <=> Failed \/ state = "error"
<1>0. ops \in [Ops -> OpType]  BY TypesFolded
<1>1. k.op \in Ops /\ ops[k.op].state = "pending" /\ ops[k.op].kind = k.for /\ k.for \in Kinds
  BY ContinuationForms DEF Live, Returns
<1>2. /\ run' = Idle
      /\ \A o \in Ops : ops'[o].kind = ops[o].kind /\ ops'[o].mark = ops[o].mark
      /\ \A o \in Ops \ {k.op} : ops'[o] = ops[o]
      /\ ops'[k.op].state = state
  BY <1>0, <1>1 DEF Returns, Finish, OpType
<1>. QED  BY <1>0, <1>1, <1>2 DEF Pending, Failed
\* Where the callback of a step comes from.
Source(k) ==
    \/ Busy /\ k = run.done /\ UNCHANGED <<reading, writing>>
    \/ run = Idle /\ reading # None /\ k = reading /\ reading' = None /\ UNCHANGED writing
    \/ run = Idle /\ writing # None /\ k = writing.done /\ writing' = None /\ UNCHANGED reading

LEMMA SourceForms ==
    ASSUME TypeOK, Owned, NEW k, Source(k)
    PROVE  /\ k \in Continuation /\ Live(k)
           /\ reading' # None => /\ reading' = reading /\ reading \in Continuation
                                 /\ Live(reading) /\ reading # k
           /\ writing' # None => /\ writing' = writing /\ writing.done \in Continuation
                                 /\ Live(writing.done) /\ writing.done # k
<1>0. /\ reading \in Continuation \cup {None} /\ writing \in Sending \cup {None}
      /\ Busy => run.done \in Continuation
  BY TypesFolded, RunForms
<1>1. writing # None => writing.done \in Continuation  BY <1>0 DEF Sending
<1>2. Idle.at = "idle"  BY DEF Idle
<1>3. CASE Busy /\ k = run.done /\ UNCHANGED <<reading, writing>>
  BY <1>0, <1>1, <1>3 DEF Owned
<1>4. CASE run = Idle /\ reading # None /\ k = reading /\ reading' = None /\ UNCHANGED writing
  BY <1>0, <1>1, <1>4 DEF Owned
<1>5. CASE run = Idle /\ writing # None /\ k = writing.done /\ writing' = None /\ UNCHANGED reading
  BY <1>0, <1>1, <1>5 DEF Owned
<1>. QED  BY <1>3, <1>4, <1>5 DEF Source

\* A call that goes on is held where its callback has gone.
LEMMA HeldBy ==
    ASSUME TypeOK, Owned, Held, NEW k, Source(k), NEW o \in Pending(Kinds), o # k.op
    PROVE  \/ reading' # None /\ reading'.op = o
           \/ writing' # None /\ writing'.done.op = o
<1>1. run = Idle => run.at = "idle"  BY DEF Idle
<1>2. \/ Busy /\ run.done.op = o
      \/ reading # None /\ reading.op = o
      \/ writing # None /\ writing.done.op = o
      \/ run.at = "hangup"
  BY DEF Held
<1>. QED  BY <1>1, <1>2 DEF Source, Busy

LEMMA AdvanceKeeps ==
    ASSUME TypeOK, Control, NEW k, Source(k), Advance(k), UNCHANGED <<open, duplex>>
    PROVE  Control'
<1>0. k \in Continuation /\ Live(k) /\ open # "disconnected" /\ run.at # "hangup"
  <2>1. k \in Continuation /\ Live(k)  BY SourceForms DEF Control
  <2>2. open # "disconnected" /\ run.at # "hangup"
    BY DEF Control, Calls, Source, Busy, Idle
  <2>. QED  BY <2>1, <2>2
<1>1. reading' # None => reading'.for \in Readers
  BY DEF Control, Shape, Source
<1>2. reading' # None /\ writing' # None => reading' # writing'.done
  BY DEF Control, Owned, Source
<1>3. CASE Goes(k)
  <2>1. \A l : Live(l)' <=> Live(l)  BY <1>3 DEF Goes, Live
  <2>2. Pending(Kinds)' = Pending(Kinds) /\ (Failed' <=> Failed)
    BY <1>3 DEF Goes, Pending, Failed
  <2>3. Shape'  BY <1>1, <1>3 DEF Goes, Shape
  <2>4. Owned'  BY <1>0, <1>2, <1>3, <2>1, SourceForms DEF Goes, Owned, Control
  <2>5. Held'  BY <1>3, <2>2, HeldBy DEF Goes, Held, Control
  <2>6. Calls'
    <3>1. run'.at # "hangup"  BY <1>3 DEF Goes, Busy
    <3>. QED  BY <1>0, <1>3, <2>2, <3>1 DEF Goes, Calls, Control
  <2>. QED  BY <2>3, <2>4, <2>5, <2>6 DEF Control
<1>4. CASE Ends(k)
  <2>1. \A l : Live(l)' <=> Live(l)  BY <1>4 DEF Ends, Live
  <2>2. Pending(Kinds)' = Pending(Kinds) /\ (Failed' <=> Failed)
    BY <1>4 DEF Ends, Pending, Failed
  <2>3. run'.at = "hangup"  BY <1>4 DEF Ends
  <2>4. Shape'  BY <1>1, <2>3 DEF Shape
  <2>5. Owned'  BY <1>2, <2>1, <2>3, SourceForms DEF Owned, Busy, Control
  <2>6. Held'  BY <2>3 DEF Held
  <2>7. open = "closing"  BY <1>0, <1>4 DEF Ends, Live
  <2>8. Calls'  BY <1>0, <1>4, <2>2, <2>7 DEF Ends, Calls, Control
  <2>. QED  BY <2>4, <2>5, <2>6, <2>8 DEF Control
<1>5. CASE \E state \in {"ok", "error"} : Returns(k, state)
  <2>1. PICK state \in {"ok", "error"} : Returns(k, state)  BY <1>5
  <2>2. /\ k.op \in Ops /\ k.op \in Pending(Kinds) /\ ops[k.op].kind = k.for
        /\ run' = Idle
        /\ \A o \in Ops : ops'[o].kind = ops[o].kind /\ ops'[o].mark = ops[o].mark
        /\ \A o \in Ops \ {k.op} : ops'[o] = ops[o]
        /\ ops'[k.op].state = state
        /\ Pending(Kinds)' = Pending(Kinds) \ {k.op}
        /\ Failed' <=> Failed \/ state = "error"
    BY <1>0, <2>1, AfterReturn
  <2>3. run'.at = "idle"  BY <2>2 DEF Idle
  <2>4. \A l \in Continuation : Live(l) /\ l # k => Live(l)'
    BY <1>0, <2>2, SameCall, ContinuationForms DEF Live
  <2>5. Shape'  BY <1>1, <2>3 DEF Shape
  <2>6. Owned'  BY <1>2, <2>3, <2>4, SourceForms DEF Owned, Busy, Control
  <2>7. Held'  BY <2>2, HeldBy DEF Held, Control
  <2>8. Calls'
    <3>1. \A p, q \in Pending(Kinds)' :
             p # q => duplex /\ ops[p].kind # ops[q].kind
                             /\ ops[p].kind # "handshake" /\ ops[q].kind # "handshake"
                             /\ ~Failed
      BY <2>2 DEF Calls, Control
    <3>2. \A p, q \in Pending(Kinds)' : p = q
      <4>. SUFFICES ASSUME NEW p \in Pending(Kinds)', NEW q \in Pending(Kinds)', p # q
                    PROVE  FALSE
        OBVIOUS
      <4>1. /\ p \in Pending(Kinds) /\ q \in Pending(Kinds) /\ p # k.op /\ q # k.op
        BY <2>2
      <4>2. ops[p].kind \in Kinds /\ ops[q].kind \in Kinds /\ ops[k.op].kind \in Kinds
        BY <2>2, <4>1 DEF Pending
      <4>3. /\ ops[p].kind # ops[q].kind /\ ops[p].kind # ops[k.op].kind
            /\ ops[q].kind # ops[k.op].kind
            /\ ops[p].kind # "handshake" /\ ops[q].kind # "handshake"
            /\ ops[k.op].kind # "handshake"
        BY <2>2, <4>1 DEF Calls, Control
      <4>. QED  BY <4>2, <4>3 DEF Kinds
    <3>3. open = "closing" => \A o \in Pending(Kinds)' : duplex /\ ops'[o].kind = "read"
      BY <2>2 DEF Calls, Control, Pending
    <3>4. \A o \in Ops : ops[o].kind \in {"read", "write"} => k.op # 1
      BY <2>2 DEF Calls, Control, Pending
    <3>5. \A o \in Ops :
             /\ ops'[o].kind \in {"read", "write"} => o # 1 /\ ops'[1].state = "ok"
             /\ ops'[o].kind = "handshake" => o = 1
             /\ ops'[o].state \in {"pending", "ok"} => ops'[o].kind \in Kinds
             /\ ops'[o].state = "unused" => ops'[o].kind = "none"
      <4>. TAKE o \in Ops
      <4>1. 1 \in Ops  BY Sizes DEF Ops
      <4>2. ops[o].kind \in {"read", "write"} => ops'[1] = ops[1]
        BY <2>2, <3>4, <4>1
      <4>3. ops[k.op].kind \in Kinds  BY <2>2 DEF Pending
      <4>. QED  BY <2>2, <4>2, <4>3 DEF Calls, Control
    <3>. QED  BY <1>0, <2>2, <2>3, <3>2, <3>3, <3>5 DEF Calls
  <2>. QED  BY <2>5, <2>6, <2>7, <2>8 DEF Control
<1>. QED  BY <1>3, <1>4, <1>5 DEF Advance

\* A call of user code: one at a time, or a read and a write at once.
LEMMA StartKeeps ==
    ASSUME TypeOK, Control, Overlap = FALSE, NEW kind \in Kinds, NEW o \in Ops,
           MayCall(kind, o), NEW bytes \in Nat, Called(kind, o, bytes),
           run'.done = To(kind, o), run'.at = IF kind = "read" THEN "read" ELSE "flush",
           UNCHANGED <<reading, writing, open, duplex>>
    PROVE  Control'
<1>0. /\ ops \in [Ops -> OpType] /\ reading \in Continuation \cup {None}
      /\ writing \in Sending \cup {None}
  BY TypesFolded
<1>1. /\ run = Idle /\ run.at = "idle" /\ open = "open" /\ ops[o].state = "unused"
      /\ ~Failed /\ Pending({kind}) = {}
      /\ duplex \/ Pending(Kinds) = {}
      /\ kind = "handshake" => o = 1
      /\ kind # "handshake" => o # 1 /\ ops[1].state = "ok"
  BY DEF MayCall, Failed, Idle, Ops
<1>2. /\ ops'[o] = [kind |-> kind, state |-> "pending", mark |-> bytes]
      /\ \A p \in Ops \ {o} : ops'[p] = ops[p]
      /\ Pending(Kinds)' = Pending(Kinds) \cup {o}
      /\ ~Failed'
  <2>1. ops' = [ops EXCEPT ![o] = [kind |-> kind, state |-> "pending", mark |-> bytes]]
    BY DEF Called
  <2>2. /\ ops'[o] = [kind |-> kind, state |-> "pending", mark |-> bytes]
        /\ \A p \in Ops \ {o} : ops'[p] = ops[p]
    BY <1>0, <2>1
  <2>. QED  BY <1>1, <2>2 DEF Pending, Failed
<1>3. \A p \in Pending(Kinds) : /\ p \in Ops /\ p # o /\ duplex
                                /\ ops[p].kind # kind /\ ops[p].kind # "handshake"
                                /\ kind # "handshake" /\ ops[1].state = "ok"
  <2>. TAKE p \in Pending(Kinds)
  <2>1. p \in Ops /\ p # o /\ ops[p].state = "pending" /\ ops[p].kind \in Kinds /\ duplex
        /\ ops[p].kind # kind
    BY <1>1 DEF Pending
  <2>2. ops[p].kind \in {"read", "write"} => ops[1].state = "ok"
    BY <2>1 DEF Control, Calls
  <2>3. ops[p].kind = "handshake" => p = 1  BY <2>1 DEF Control, Calls
  <2>. QED  BY <1>1, <2>1, <2>2, <2>3 DEF Kinds
<1>4. \A l \in Continuation : Live(l) => l.op # o /\ Live(l)' /\ l # To(kind, o)
                                         /\ l.for # "disconnect"
  BY <1>1, <1>2, ContinuationForms DEF Live, To
<1>5. reading # None => reading \in Continuation /\ Live(reading)
  BY <1>0 DEF Control, Owned
<1>6. writing # None => writing.done \in Continuation /\ Live(writing.done)
  BY <1>0 DEF Control, Owned, Sending
<1>u. reading' = reading /\ writing' = writing /\ open' = open /\ duplex' = duplex
  OBVIOUS
<1>7. Shape'
  <2>1. run'.at \in {"read", "flush"} /\ (run'.at = "read" => run'.done.for = "read")
    BY DEF To
  <2>. QED  BY <1>u, <2>1 DEF Shape, Control
<1>8. Live(run.done)'  BY <1>2 DEF Live, To, Kinds
<1>9. Owned'
  <2>1. reading' # None /\ writing' # None => reading' # writing'.done
    BY <1>u DEF Control, Owned
  <2>. QED  BY <1>u, <1>4, <1>5, <1>6, <1>8, <2>1 DEF Owned
<1>10. Held'
  <2>1. Busy'  BY DEF Busy
  <2>2. run'.done.op = o  BY DEF To
  <2>. QED  BY <1>1, <1>2, <2>1, <2>2 DEF Held, Control, Busy
<1>11. Calls'
  <2>1. \A p \in Pending(Kinds)' : p = o \/ (p \in Pending(Kinds) /\ p # o /\ ops'[p] = ops[p])
    BY <1>2, <1>3
  <2>2. \A p, q \in Pending(Kinds)' :
             p # q => duplex /\ ops'[p].kind # ops'[q].kind
                             /\ ops'[p].kind # "handshake" /\ ops'[q].kind # "handshake"
    BY <1>2, <1>3, <2>1 DEF Calls, Control
  <2>3. \A p \in Ops :
             /\ ops'[p].kind \in {"read", "write"} => p # 1 /\ ops'[1].state = "ok"
             /\ ops'[p].kind = "handshake" => p = 1
             /\ ops'[p].state \in {"pending", "ok"} => ops'[p].kind \in Kinds
             /\ ops'[p].state = "unused" => ops'[p].kind = "none"
    <3>. TAKE p \in Ops
    <3>1. 1 \in Ops  BY Sizes DEF Ops
    <3>2. ops[1].state = "ok" => ops'[1] = ops[1]  BY <1>1, <1>2, <3>1
    <3>3. CASE p = o  BY <1>1, <1>2, <3>2, <3>3 DEF Kinds
    <3>4. CASE p # o  BY <1>2, <3>2, <3>4 DEF Calls, Control
    <3>. QED  BY <3>3, <3>4
  <2>4. run'.at # "hangup" /\ open' = "open"  BY <1>1
  <2>. QED  BY <1>2, <2>2, <2>3, <2>4 DEF Calls
<1>. QED  BY <1>7, <1>9, <1>10, <1>11 DEF Control

\* A write that fails in rustls: its error is there at once.
LEMMA RejectKeeps ==
    ASSUME TypeOK, Control, NEW o \in Ops, MayCall("write", o),
           ops' = [ops EXCEPT ![o] = [kind |-> "write", state |-> "error", mark |-> 0]],
           UNCHANGED <<run, reading, writing, open, duplex>>
    PROVE  Control' /\ Failed'
<1>0. /\ ops \in [Ops -> OpType] /\ reading \in Continuation \cup {None}
      /\ writing \in Sending \cup {None}
  BY TypesFolded
<1>1. /\ run = Idle /\ run.at = "idle" /\ open = "open" /\ ops[o].state = "unused"
      /\ Pending({"write"}) = {} /\ o # 1 /\ ops[1].state = "ok"
  BY DEF MayCall, Idle, Ops
<1>2. /\ ops'[o] = [kind |-> "write", state |-> "error", mark |-> 0]
      /\ \A p \in Ops \ {o} : ops'[p] = ops[p]
  BY <1>0
<1>3. Pending(Kinds)' = Pending(Kinds) /\ Failed' /\ o \notin Pending(Kinds)
  BY <1>1, <1>2 DEF Pending, Failed
<1>4. \A l \in Continuation : Live(l) => Live(l)'
  BY <1>1, <1>2, ContinuationForms DEF Live
<1>5. /\ reading # None => reading \in Continuation /\ Live(reading)'
      /\ writing # None => writing.done \in Continuation /\ Live(writing.done)'
  BY <1>0, <1>4 DEF Control, Owned, Sending
<1>6. reading' = reading /\ writing' = writing /\ open' = open /\ duplex' = duplex /\ run' = run
  OBVIOUS
<1>7. Shape'  BY <1>6 DEF Shape, Control
<1>8. Owned'  BY <1>1, <1>5, <1>6 DEF Owned, Control, Busy
<1>9. Held'  BY <1>1, <1>3, <1>6 DEF Held, Control, Busy
<1>10. Calls'
  <2>1. \A p, q \in Pending(Kinds) : p = q
    <3>. SUFFICES ASSUME NEW p \in Pending(Kinds), NEW q \in Pending(Kinds), p # q
                  PROVE  FALSE
      OBVIOUS
    <3>1. /\ ops[p].kind \in Kinds /\ ops[q].kind \in Kinds
          /\ ops[p].kind # "write" /\ ops[q].kind # "write"
      BY <1>1 DEF Pending
    <3>. QED  BY <3>1 DEF Calls, Control, Kinds
  <2>2. \A p \in Ops :
             /\ ops'[p].kind \in {"read", "write"} => p # 1 /\ ops'[1].state = "ok"
             /\ ops'[p].kind = "handshake" => p = 1
             /\ ops'[p].state \in {"pending", "ok"} => ops'[p].kind \in Kinds
             /\ ops'[p].state = "unused" => ops'[p].kind = "none"
    <3>. TAKE p \in Ops
    <3>1. 1 \in Ops  BY Sizes DEF Ops
    <3>2. ops'[1] = ops[1]  BY <1>1, <1>2, <3>1
    <3>3. CASE p = o  BY <1>1, <1>2, <3>2, <3>3 DEF Kinds
    <3>4. CASE p # o  BY <1>2, <3>2, <3>4 DEF Calls, Control
    <3>. QED  BY <3>3, <3>4
  <2>3. run'.at # "hangup" /\ open' = "open"  BY <1>1, <1>6
  <2>. QED  BY <1>3, <2>1, <2>2, <2>3 DEF Calls
<1>. QED  BY <1>3, <1>7, <1>8, <1>9, <1>10 DEF Control

\* Without Overlap, only a read of a duplex socket is under way when user code
\* disconnects.
LEMMA DisconnectKeeps ==
    ASSUME TypeOK, Control, Overlap = FALSE, Disconnect
    PROVE  Control' /\ writing = None
<1>0. reading \in Continuation \cup {None}  BY TypesFolded
<1>1. /\ run = Idle /\ run.at = "idle" /\ open = "open" /\ writing = None
      /\ Pending(IF duplex THEN {"handshake"} ELSE Kinds) = {}
  BY DEF Disconnect, Idle
<1>2. /\ open' = "closing" /\ run' = [at |-> "flush", done |-> To("disconnect", 0)]
      /\ UNCHANGED <<reading, writing, ops, duplex>>
  BY DEF Disconnect, transportVars, peerVars
<1>3. Pending(Kinds)' = Pending(Kinds) /\ (Failed' <=> Failed)
  BY <1>2 DEF Pending, Failed
<1>4. \A o \in Pending(Kinds) : duplex /\ ops[o].kind = "read" /\ reading # None /\ reading.op = o
  <2>. TAKE o \in Pending(Kinds)
  <2>1. reading # None /\ reading.op = o  BY <1>1 DEF Held, Control, Busy
  <2>2. o \in Ops /\ reading.for = ops[o].kind
    BY <1>0, <1>1, <2>1, ContinuationForms DEF Owned, Control, Live, Pending
  <2>3. reading.for \in Readers  BY <2>1 DEF Shape, Control
  <2>4. duplex  BY <1>1, <2>2 DEF Pending
  <2>5. ops[o].kind # "handshake"  BY <1>1, <2>2, <2>4 DEF Pending
  <2>. QED  BY <2>1, <2>2, <2>3, <2>4, <2>5 DEF Readers
<1>5. Shape'  BY <1>2 DEF Shape, Control
<1>6. Owned'
  <2>1. reading # None => /\ reading.for # "disconnect" /\ Live(reading)'
                          /\ reading # To("disconnect", 0)
    BY <1>0, <1>2 DEF Shape, Owned, Control, Live, Readers, To
  <2>2. Live(To("disconnect", 0))'  BY <1>2 DEF Live, To
  <2>3. run'.done = To("disconnect", 0) /\ writing' = None /\ reading' = reading
    BY <1>1, <1>2
  <2>. QED  BY <2>1, <2>2, <2>3 DEF Owned, Live
<1>7. Held'  BY <1>1, <1>2, <1>3, <1>4 DEF Held
<1>8. Calls'
  <2>1. run'.at = "flush"  BY <1>2
  <2>2. \A o \in Pending(Kinds)' : duplex' /\ ops'[o].kind = "read"  BY <1>2, <1>3, <1>4
  <2>. QED  BY <1>2, <1>3, <2>1, <2>2 DEF Calls, Control
<1>. QED  BY <1>1, <1>5, <1>6, <1>7, <1>8 DEF Control

LEMMA HangUpKeeps ==
    ASSUME TypeOK, Control, HangUp
    PROVE  Control' /\ (Failed' <=> Failed) /\ Pending(Kinds)' = {}
<1>0. ops \in [Ops -> OpType]  BY TypesFolded
<1>1. /\ open' = "disconnected" /\ reading' = None /\ writing' = None /\ run' = Idle
      /\ run'.at = "idle" /\ UNCHANGED duplex
  BY DEF HangUp, Idle, peerVars
<1>2. \A o \in Ops : /\ ops'[o].kind = ops[o].kind
                     /\ ops'[o].state = IF ops[o].state = "pending" THEN "cancelled"
                                        ELSE ops[o].state
  BY <1>0 DEF HangUp, OpType
<1>3. Pending(Kinds)' = {} /\ (Failed' <=> Failed)  BY <1>2 DEF Pending, Failed
<1>4. Shape' /\ Owned' /\ Held'  BY <1>1, <1>3 DEF Shape, Owned, Held, Busy
<1>5. Calls'
  <2>1. \A o \in Ops :
             /\ ops'[o].kind \in {"read", "write"} => o # 1 /\ ops'[1].state = "ok"
             /\ ops'[o].kind = "handshake" => o = 1
             /\ ops'[o].state \in {"pending", "ok"} => ops'[o].kind \in Kinds
             /\ ops'[o].state = "unused" => ops'[o].kind = "none"
    <3>. TAKE o \in Ops
    <3>1. 1 \in Ops  BY Sizes DEF Ops
    <3>. QED  BY <1>2, <3>1 DEF Calls, Control
  <2>. QED  BY <1>1, <1>3, <2>1 DEF Calls
<1>. QED  BY <1>3, <1>4, <1>5 DEF Control

\* Only one call at a time reads.
LEMMA OneReader ==
    ASSUME TypeOK, Control, Busy, run.done.for \in Readers
    PROVE  /\ reading = None
           /\ run.done.op \in Ops /\ ops[run.done.op].state = "pending"
           /\ ops[run.done.op].kind = run.done.for
           /\ Pending(Readers) = {run.done.op}
<1>0. run.done \in Continuation /\ reading \in Continuation \cup {None}
  BY TypesFolded, RunForms
<1>1. /\ run.done.op \in Ops /\ ops[run.done.op].state = "pending"
      /\ ops[run.done.op].kind = run.done.for /\ run.done.op \in Pending(Readers)
  BY DEF Control, Owned, Live, Readers, Pending
<1>2. \A o \in Pending(Readers) : o = run.done.op
  <2>. TAKE o \in Pending(Readers)
  <2>1. o \in Pending(Kinds) /\ run.done.op \in Pending(Kinds)
    BY <1>1 DEF Pending, Kinds, Readers
  <2>2. ops[o].kind \in Readers /\ ops[run.done.op].kind \in Readers  BY <1>1 DEF Pending
  <2>. QED  BY <2>1, <2>2 DEF Control, Calls, Readers
<1>3. reading = None
  <2>. SUFFICES ASSUME reading # None PROVE FALSE  OBVIOUS
  <2>1. reading.for \in Readers /\ Live(reading) /\ reading # run.done
    BY DEF Control, Owned, Shape
  <2>2. reading.op \in Pending(Readers)  BY <2>1 DEF Live, Readers, Pending
  <2>3. Live(run.done)  BY DEF Control, Owned
  <2>. QED  BY <1>0, <1>2, <2>1, <2>2, <2>3, SameCall
<1>. QED  BY <1>1, <1>2, <1>3

\* The callback waits in the transport, in the place of no other.
LEMMA ParkKeeps ==
    ASSUME TypeOK, Control, Busy, run' = Idle,
           \/ /\ run.done.for \in Readers
              /\ reading' = run.done /\ writing' = writing
           \/ /\ run.at = "send" /\ writing = None
              /\ writing' = run /\ reading' = reading,
           UNCHANGED <<ops, open, duplex>>
    PROVE  Control'
<1>0. /\ run.done \in Continuation /\ None \notin Continuation /\ None \notin Sending
      /\ run.at = "send" => run \in Sending
  BY RunForms, TlsAssumption
<1>1. /\ run'.at = "idle" /\ ~Busy' /\ run.at # "hangup" /\ open' = open /\ ops' = ops
      /\ duplex' = duplex
  BY DEF Idle, Busy
<1>2. \A l : Live(l)' <=> Live(l)  BY <1>1 DEF Live
<1>3. Pending(Kinds)' = Pending(Kinds) /\ (Failed' <=> Failed)  BY <1>1 DEF Pending, Failed
<1>4. Calls'
  <2>1. open # "disconnected"  BY DEF Control, Calls, Busy, Idle
  <2>. QED  BY <1>1, <1>3, <2>1 DEF Control, Calls
<1>5. CASE /\ run.done.for \in Readers
           /\ reading' = run.done /\ writing' = writing
  <2>1. reading = None  BY <1>5, OneReader
  <2>2. Shape'  BY <1>1, <1>5 DEF Shape
  <2>3. Owned'  BY <1>1, <1>2, <1>5 DEF Owned, Control
  <2>4. Held'  BY <1>0, <1>1, <1>3, <1>5, <2>1 DEF Held, Control
  <2>. QED  BY <1>4, <2>2, <2>3, <2>4 DEF Control
<1>6. CASE /\ run.at = "send" /\ writing = None
           /\ writing' = run /\ reading' = reading
  <2>2. Shape'  BY <1>1, <1>6 DEF Shape, Control
  <2>3. Owned'  BY <1>1, <1>2, <1>6 DEF Owned, Control
  <2>4. Held'  BY <1>0, <1>1, <1>3, <1>6 DEF Held, Control
  <2>. QED  BY <1>4, <2>2, <2>3, <2>4 DEF Control
<1>. QED  BY <1>5, <1>6

\* What a pump does to the calls: one may return, the others stay as they are.
LEMMA AfterAdvance ==
    ASSUME TypeOK, NEW k \in Continuation, Live(k), Advance(k)
    PROVE  /\ Failed => Failed'
           /\ \A kinds : Pending(kinds)' \subseteq Pending(kinds)
           /\ \A o \in Ops : /\ ops'[o].kind = ops[o].kind /\ ops'[o].mark = ops[o].mark
                             /\ ops'[o].state = "ok" =>
                                   ops[o].state = "ok" \/ (o = k.op /\ Returns(k, "ok"))
<1>1. CASE ops' = ops  BY <1>1 DEF Failed, Pending
<1>2. CASE \E state \in {"ok", "error"} : Returns(k, state)
  <2>1. PICK state \in {"ok", "error"} : Returns(k, state)  BY <1>2
  <2>2. /\ \A o \in Ops : ops'[o].kind = ops[o].kind /\ ops'[o].mark = ops[o].mark
        /\ \A o \in Ops \ {k.op} : ops'[o] = ops[o]
        /\ ops'[k.op].state = state
        /\ \A kinds : Pending(kinds)' = Pending(kinds) \ {k.op}
        /\ Failed' <=> Failed \/ state = "error"
    BY <2>1, AfterReturn
  <2>. QED  BY <2>1, <2>2
<1>. QED  BY <1>1, <1>2 DEF Advance, Goes, Ends

\* A pump goes on, and rustls has nothing new to send.
LEMMA QuietAdvance ==
    ASSUME TypeOK, Control, Quiet, NEW k, Source(k), Advance(k),
           UNCHANGED <<writing, open, inbound, duplex>>, conn'.queued = conn.queued,
           run'.at # "send",
           \/ conn.queued = 0
           \/ run.at # "flush" /\ (1 \in Ops /\ ops'[1].state = "ok" => ops[1].state = "ok")
    PROVE  Quiet'
<1>0. /\ conn.queued \in Nat /\ k \in Continuation /\ Live(k)
      /\ None \notin Sending /\ None \notin Continuation
  BY TypesFolded, SourceForms, TlsAssumption DEF ConnType, Control
<1>1. /\ Failed => Failed'
      /\ \A o \in Ops : ops'[o].kind = ops[o].kind /\ ops'[o].mark = ops[o].mark
  BY <1>0, AfterAdvance
<1>2. writing # None => k.for = "read"
  <2>. SUFFICES ASSUME writing # None PROVE k.for = "read"  OBVIOUS
  <2>1. CASE Busy /\ k = run.done  BY <2>1 DEF Quiet
  <2>2. CASE reading # None /\ k = reading
    <3>1. /\ k.for \in Readers /\ k.op \in Ops /\ k.op \in Pending(Kinds)
          /\ ops[k.op].kind = k.for
      BY <1>0, <2>2 DEF Control, Shape, Live, Readers, Kinds, Pending
    <3>2. writing.done \in Continuation /\ Live(writing.done) /\ writing.done # k
      BY <2>2, TypesFolded DEF Control, Owned, Sending
    <3>3. CASE writing.done.for = "disconnect"
      BY <3>1, <3>2, <3>3 DEF Live, Control, Calls
    <3>4. CASE writing.done.for # "disconnect"
      <4>1. writing.done.op \in Pending(Kinds)
        BY <3>2, <3>4, ContinuationForms DEF Live, Pending
      <4>2. writing.done.op # k.op  BY <1>0, <3>2, SameCall
      <4>. QED  BY <3>1, <4>1, <4>2 DEF Control, Calls, Readers
    <3>. QED  BY <3>3, <3>4
  <2>3. CASE writing' = None  BY <2>3
  <2>. QED  BY <2>1, <2>2, <2>3 DEF Source
<1>3. ~(writing # None /\ conn.queued > 0)
  <2>. SUFFICES ASSUME writing # None, conn.queued > 0 PROVE FALSE  OBVIOUS
  <2>1. ~Busy /\ reading = None  BY DEF Quiet
  <2>2. writing' # None  OBVIOUS
  <2>. QED  BY <2>1, <2>2 DEF Source
<1>4. Busy' => run'.done = k
  BY DEF Advance, Goes, Ends, Returns, Finish, Idle, Busy
<1>5. duplex /\ conn.queued > 0 /\ 1 \in Ops /\ ops'[1].state = "ok" => open # "open" \/ Failed
  BY <1>0 DEF Quiet
<1>6. writing' = writing /\ open' = open /\ inbound' = inbound /\ duplex' = duplex
  OBVIOUS
<1>. QED  BY <1>1, <1>2, <1>3, <1>4, <1>5, <1>6 DEF Quiet

\* User code starts to send only when the transport keeps no write.
LEMMA NoneWaits ==
    ASSUME TypeOK, Control, Quiet, Overlap = FALSE, NEW kind \in {"handshake", "write"},
           NEW o \in Ops, MayCall(kind, o)
    PROVE  writing = None
<1>. SUFFICES ASSUME writing # None PROVE FALSE  OBVIOUS
<1>1. /\ open = "open" /\ ~Failed /\ Pending({kind}) = {}
      /\ duplex \/ Pending(Kinds) = {}
      /\ kind = "write" => o # 1 /\ ops[1].state = "ok"
      /\ kind = "handshake" => o = 1
      /\ ops[o].state = "unused"
  BY DEF MayCall, Failed, Ops
<1>2. writing.done \in Continuation /\ Live(writing.done)
  BY TypesFolded DEF Control, Owned, Sending
<1>3. writing.done.for # "disconnect"  BY <1>1, <1>2 DEF Live
<1>4. /\ writing.done.op \in Ops /\ ops[writing.done.op].state = "pending"
      /\ ops[writing.done.op].kind = writing.done.for /\ writing.done.for \in Kinds
  BY <1>2, <1>3, ContinuationForms DEF Live
<1>5. writing.done.op \in Pending(Kinds) /\ writing.done.for # kind
  BY <1>1, <1>4 DEF Pending
<1>6. duplex  BY <1>1, <1>5
<1>7. writing.done.for # "read"  BY <1>1, <1>6 DEF Quiet
<1>8. CASE kind = "write"
  <2>1. writing.done.op = 1  BY <1>4, <1>5, <1>7, <1>8 DEF Control, Calls, Kinds
  <2>. QED  BY <1>1, <1>4, <1>8, <2>1
<1>9. CASE kind = "handshake"
  <2>1. ops[1].state = "ok"  BY <1>4, <1>5, <1>9 DEF Control, Calls, Kinds
  <2>. QED  BY <1>1, <1>9, <2>1
<1>. QED  BY <1>8, <1>9

LEMMA CallQuiet ==
    ASSUME TypeOK, Control, Quiet, Overlap = FALSE,
           NEW o \in Ops, Handshake(o) \/ Read(o) \/ Write(o)
    PROVE  Control' /\ Quiet'
<1>0. /\ conn \in ConnType /\ conn.queued \in Nat /\ conn.made \in Nat /\ RecordSize \in Nat
      /\ ops \in [Ops -> OpType]
  BY TypesFolded, Sizes DEF ConnType
<1>1. CASE Handshake(o)
  <2>1. /\ MayCall("handshake", o) /\ Called("handshake", o, RecordSize)
        /\ run' = [at |-> "flush", done |-> To("handshake", o)] /\ o = 1
        /\ UNCHANGED <<reading, writing, open, duplex, inbound, conn>>
    BY <1>1 DEF Handshake, MayCall, transportVars, peerVars
  <2>2. writing = None  BY <2>1, NoneWaits
  <2>3. Control'
    <3>1. /\ run'.done = To("handshake", o)
          /\ run'.at = IF "handshake" = "read" THEN "read" ELSE "flush"
      BY <2>1
    <3>. QED  BY <1>0, <2>1, <3>1, StartKeeps DEF Kinds
  <2>4. ops'[1].state # "ok"  BY <1>0, <2>1 DEF Called
  <2>. QED  BY <2>1, <2>2, <2>3, <2>4 DEF Quiet
<1>2. CASE Read(o)
  <2>1. /\ MayCall("read", o) /\ Called("read", o, 0) /\ o # 1
        /\ run' = [at |-> "read", done |-> To("read", o)]
        /\ run = Idle /\ run.at = "idle" /\ open = "open" /\ ~Failed /\ ops[1].state = "ok"
        /\ UNCHANGED <<reading, writing, open, duplex, inbound, conn>>
    BY <1>2 DEF Read, MayCall, transportVars, peerVars, Failed, Idle, Ops
  <2>2. Control'
    <3>1. /\ run'.done = To("read", o)
          /\ run'.at = IF "read" = "read" THEN "read" ELSE "flush"
      BY <2>1
    <3>. QED  BY <1>0, <2>1, <3>1, StartKeeps DEF Kinds
  <2>3. /\ ~(writing # None /\ conn.queued > 0)
        /\ 1 \in Ops /\ duplex => ~(conn.queued > 0)
        /\ writing # None /\ writing.done.for = "read" => ~duplex
    BY <2>1 DEF Quiet
  <2>4. run'.at = "read" /\ run'.done.for = "read"  BY <2>1 DEF To
  <2>. QED  BY <2>1, <2>2, <2>3, <2>4 DEF Quiet
<1>3. CASE Write(o)
  <2>1. /\ MayCall("write", o) /\ UNCHANGED <<reading, writing, open, duplex, inbound>>
        /\ \/ /\ Called("write", o, conn.made + conn.queued + RecordSize)
              /\ run' = [at |-> "flush", done |-> To("write", o)]
           \/ /\ ops' = [ops EXCEPT ![o] = [kind |-> "write", state |-> "error", mark |-> 0]]
              /\ UNCHANGED run
    BY <1>3 DEF Write, transportVars, peerVars
  <2>2. writing = None  BY <2>1, NoneWaits
  <2>3. CASE /\ Called("write", o, conn.made + conn.queued + RecordSize)
             /\ run' = [at |-> "flush", done |-> To("write", o)]
    <3>1. /\ run'.done = To("write", o)
          /\ run'.at = IF "write" = "read" THEN "read" ELSE "flush"
      BY <2>3
    <3>0. conn.made + conn.queued + RecordSize \in Nat  BY <1>0
    <3>2. Control'  BY <3>0, <2>1, <2>3, <3>1, StartKeeps DEF Kinds
    <3>3. run'.at = "flush" /\ run'.done.for = "write"  BY <2>3 DEF To
    <3>. QED  BY <2>1, <2>2, <3>2, <3>3 DEF Quiet
  <2>4. CASE /\ ops' = [ops EXCEPT ![o] = [kind |-> "write", state |-> "error", mark |-> 0]]
             /\ UNCHANGED run
    <3>1. Control' /\ Failed'  BY <2>1, <2>4, RejectKeeps
    <3>2. run'.at = "idle"  BY <2>1, <2>4 DEF MayCall, Idle
    <3>. QED  BY <2>1, <2>2, <3>1, <3>2 DEF Quiet, Busy
  <2>. QED  BY <2>1, <2>3, <2>4
<1>. QED  BY <1>1, <1>2, <1>3

LEMMA DisconnectQuiet ==
    ASSUME TypeOK, Control, Quiet, Overlap = FALSE, Disconnect \/ HangUp
    PROVE  Control' /\ Quiet'
<1>1. CASE Disconnect
  <2>1. Control' /\ writing = None  BY <1>1, DisconnectKeeps
  <2>2. /\ open' = "closing" /\ run'.at = "flush"
        /\ UNCHANGED <<reading, writing, duplex, inbound>>
    BY <1>1 DEF Disconnect, transportVars, peerVars
  <2>. QED  BY <2>1, <2>2 DEF Quiet
<1>2. CASE HangUp
  <2>1. Control'  BY <1>2, HangUpKeeps
  <2>2. /\ open' = "disconnected" /\ run'.at = "idle" /\ writing' = None /\ reading' = None
        /\ UNCHANGED <<duplex, inbound>>
    BY <1>2 DEF HangUp, peerVars, Idle
  <2>. QED  BY <2>1, <2>2 DEF Quiet
<1>. QED  BY <1>1, <1>2

LEMMA FlushQuiet ==
    ASSUME TypeOK, Control, Quiet, FlushPending
    PROVE  Control' /\ Quiet'
<1>0. /\ Busy /\ run.at = "flush" /\ run.done \in Continuation /\ conn \in ConnType
      /\ UNCHANGED <<reading, writing, open, duplex, inbound>> /\ Source(run.done)
      /\ Advance(run.done)
  BY TypesFolded, RunForms, FlushAdvances DEF FlushPending, Busy, transportVars, peerVars, Source
<1>1. Control'  BY <1>0, AdvanceKeeps
<1>2. CASE conn.queued = 0
  <2>1. Flushed(run.done) /\ conn' = conn  BY <1>2 DEF FlushPending
  <2>2. run'.at # "send"  BY <2>1 DEF Flushed, Finish, Idle
  <2>. QED  BY <1>0, <1>1, <1>2, <2>1, <2>2, QuietAdvance
<1>3. CASE conn.queued # 0
  <2>1. /\ run' = [at |-> "send", done |-> run.done,
                   bytes |-> [i \in 1 .. conn.queued |-> conn.made + i]]
        /\ conn' = [conn EXCEPT !.queued = 0, !.made = @ + conn.queued]
        /\ ops' = ops
    BY <1>3 DEF FlushPending
  <2>2. conn.queued \in Nat /\ conn.queued > 0  BY <1>0, <1>3 DEF ConnType
  <2>3. writing = None  BY <1>0, <2>2 DEF Quiet
  <2>4. conn'.queued = 0
    <3>1. conn.made + conn.queued \in Nat  BY <1>0 DEF ConnType
    <3>. QED  BY <1>0, <2>1, <3>1, ConnDrained
  <2>5. run.done.for = "read" => ~duplex \/ open # "open" \/ Failed
    <3>. SUFFICES ASSUME run.done.for = "read" PROVE ~duplex \/ open # "open" \/ Failed
      OBVIOUS
    <3>1. run.done.op \in Ops /\ ops[run.done.op].kind = "read"
      BY <1>0 DEF Control, Owned, Live
    <3>2. 1 \in Ops /\ ops[1].state = "ok"  BY <3>1, Sizes DEF Control, Calls, Ops
    <3>. QED  BY <2>2, <3>2 DEF Quiet
  <2>6. run'.at = "send" /\ run'.done = run.done /\ (Failed' <=> Failed)
    BY <2>1 DEF Failed
  <2>. QED  BY <1>0, <1>1, <2>3, <2>4, <2>5, <2>6 DEF Quiet
<1>. QED  BY <1>2, <1>3

\* No call succeeds in a step that does not say so.
LEMMA NoneSucceeds ==
    ASSUME TypeOK, NEW k \in Continuation, Live(k),
           Goes(k) \/ Ends(k) \/ Returns(k, "error")
    PROVE  Advance(k) /\ \A o \in Ops : ops'[o].state = "ok" => ops[o].state = "ok"
<1>1. CASE Goes(k) \/ Ends(k)  BY <1>1 DEF Goes, Ends, Advance
<1>2. CASE Returns(k, "error")  BY <1>2, AfterReturn DEF Advance
<1>. QED  BY <1>1, <1>2

\* Bytes go out for the callback k, and no other write waits.
LEMMA SendQuiet ==
    ASSUME TypeOK, Control, Quiet, NEW k, Source(k),
           Goes(k) \/ Ends(k) \/ Returns(k, "error"),
           UNCHANGED <<conn, reading, open, inbound, duplex>>, writing' = None,
           conn.queued > 0 => reading = None /\ (open # "open" \/ Failed),
           k.for = "read" => ~duplex \/ open # "open" \/ Failed
    PROVE  Quiet'
<1>0. k \in Continuation /\ Live(k) /\ None \notin Sending
  BY SourceForms, TlsAssumption DEF Control
<1>1. /\ Advance(k) /\ (Failed => Failed')
      /\ \A o \in Ops : ops'[o].state = "ok" => ops[o].state = "ok"
  BY <1>0, NoneSucceeds, AfterAdvance
<1>2. Busy' => run'.done = k
  BY <1>1 DEF Advance, Goes, Ends, Returns, Finish, Idle, Busy
<1>3. /\ conn' = conn /\ reading' = reading /\ open' = open /\ inbound' = inbound
      /\ duplex' = duplex
  OBVIOUS
<1>. QED  BY <1>1, <1>2, <1>3 DEF Quiet, Busy

LEMMA WriteQuiet ==
    ASSUME TypeOK, Control, Quiet, WriteAll \/ WriteCallback
    PROVE  Control' /\ Quiet'
<1>0. writing \in Sending \cup {None}  BY TypesFolded
<1>1. CASE WriteAll
  <2>1. /\ run \in Sending /\ run.at = "send" /\ writing = None /\ Busy
        /\ UNCHANGED <<conn, reading, open, inbound, duplex>>
    BY <1>1, RunForms DEF WriteAll, Quiet, peerVars, Busy
  <2>2. /\ conn.queued > 0 => reading = None /\ (open # "open" \/ Failed)
        /\ run.done.for = "read" => ~duplex \/ open # "open" \/ Failed
    BY <2>1 DEF Quiet
  <2>3. CASE Transmit(run) /\ UNCHANGED writing
    <3>1. Goes(run.done) \/ Ends(run.done) \/ Returns(run.done, "error")
      BY <2>1, <2>3, TransmitAdvances
    <3>2. Source(run.done)  BY <2>1, <2>3 DEF Source
    <3>3. Advance(run.done)  BY <3>1 DEF Advance
    <3>4. Control'  BY <2>1, <3>2, <3>3, AdvanceKeeps
    <3>. QED  BY <2>1, <2>2, <2>3, <3>1, <3>2, <3>4, SendQuiet
  <2>4. CASE writing' = run /\ run' = Idle /\ UNCHANGED <<ops, wire>>
    <3>1. Control'  BY <2>1, <2>4, ParkKeeps
    <3>2. run'.at = "idle"  BY <2>4 DEF Idle
    <3>3. (Failed' <=> Failed) /\ ops' = ops  BY <2>4 DEF Failed
    <3>4. duplex /\ conn.queued > 0 /\ 1 \in Ops /\ ops[1].state = "ok" => open # "open" \/ Failed
      BY <2>2
    <3>. QED  BY <2>1, <2>2, <2>4, <3>1, <3>2, <3>3, <3>4 DEF Quiet, Busy
  <2>. QED  BY <1>1, <2>3, <2>4 DEF WriteAll
<1>2. CASE WriteCallback
  <2>1. /\ writing \in Sending /\ run = Idle /\ writing # None /\ writing' = None
        /\ Transmit(writing) /\ UNCHANGED <<conn, reading, open, inbound, duplex>>
    BY <1>0, <1>2 DEF WriteCallback, peerVars
  <2>2. /\ conn.queued > 0 => reading = None /\ (open # "open" \/ Failed)
        /\ writing.done.for = "read" => ~duplex \/ open # "open" \/ Failed
    BY <2>1 DEF Quiet
  <2>3. Goes(writing.done) \/ Ends(writing.done) \/ Returns(writing.done, "error")
    BY <2>1, TransmitAdvances
  <2>4. Source(writing.done)  BY <2>1 DEF Source
  <2>5. Advance(writing.done)  BY <2>3 DEF Advance
  <2>6. Control'  BY <2>1, <2>4, <2>5, AdvanceKeeps
  <2>. QED  BY <2>1, <2>2, <2>3, <2>4, <2>6, SendQuiet
<1>. QED  BY <1>1, <1>2

LEMMA ReadQuiet ==
    ASSUME TypeOK, Control, Quiet, FeedOne \/ ReadCallback
    PROVE  Control' /\ Quiet'
<1>1. CASE FeedOne
  <2>1. /\ run.at = "feed" /\ Busy /\ run.done.for \in Readers /\ run.done \in Continuation
        /\ UNCHANGED <<conn, writing, open, inbound, duplex>>
    BY <1>1, RunForms DEF FeedOne, Control, Shape, peerVars, Busy
  <2>2. CASE Deliver(run.done) /\ UNCHANGED reading
    <3>1. /\ Goes(run.done) \/ Ends(run.done) \/ Returns(run.done, "error")
          /\ run'.at # "send"
      BY <2>1, <2>2, DeliverAdvances
    <3>2. Source(run.done)  BY <2>1, <2>2 DEF Source
    <3>3. /\ Advance(run.done)
          /\ \A o \in Ops : ops'[o].state = "ok" => ops[o].state = "ok"
      BY <2>1, <3>1, NoneSucceeds DEF Control, Owned
    <3>4. Control'  BY <2>1, <3>2, <3>3, AdvanceKeeps
    <3>. QED  BY <2>1, <3>1, <3>2, <3>3, <3>4, QuietAdvance
  <2>3. CASE reading' = run.done /\ run' = Idle /\ UNCHANGED <<taken, ops>>
    <3>1. Control'  BY <2>1, <2>3, ParkKeeps
    <3>2. run'.at = "idle" /\ ~Busy'  BY <2>3 DEF Idle, Busy
    <3>3. (Failed' <=> Failed) /\ ops' = ops  BY <2>3 DEF Failed
    <3>4. ~(writing # None /\ conn.queued > 0)  BY <2>1 DEF Quiet
    <3>5. duplex /\ conn.queued > 0 /\ 1 \in Ops /\ ops[1].state = "ok" => open # "open" \/ Failed
      BY <2>1 DEF Quiet
    <3>. QED  BY <2>1, <3>1, <3>2, <3>3, <3>4, <3>5 DEF Quiet
  <2>. QED  BY <1>1, <2>2, <2>3 DEF FeedOne
<1>2. CASE ReadCallback
  <2>1. /\ run = Idle /\ run.at = "idle" /\ reading # None /\ reading' = None
        /\ reading.for \in Readers /\ reading \in Continuation /\ Deliver(reading)
        /\ UNCHANGED <<conn, writing, open, inbound, duplex>>
    BY <1>2, TypesFolded DEF ReadCallback, Control, Shape, peerVars, Idle
  <2>2. /\ Goes(reading) \/ Ends(reading) \/ Returns(reading, "error")
        /\ run'.at # "send"
    BY <2>1, DeliverAdvances
  <2>3. Source(reading)  BY <2>1 DEF Source
  <2>4. /\ Advance(reading)
        /\ \A o \in Ops : ops'[o].state = "ok" => ops[o].state = "ok"
    BY <2>1, <2>2, NoneSucceeds DEF Control, Owned
  <2>5. Control'  BY <2>1, <2>3, <2>4, AdvanceKeeps
  <2>. QED  BY <2>1, <2>2, <2>3, <2>4, <2>5, QuietAdvance
<1>. QED  BY <1>1, <1>2
-----------------------------------------------------------------------------
(* The bytes of the peer *)

LEMMA NextRecord ==
    ASSUME NEW a \in Nat, NEW b \in Nat
    PROVE  /\ (a + 1) * RecordSize = a * RecordSize + RecordSize
           /\ a * RecordSize \in Nat
           /\ a * RecordSize + RecordSize <= b * RecordSize => a + 1 <= b
<1>1. RecordSize \in Nat /\ RecordSize > 0  BY Sizes
<1>2. (a + 1) * RecordSize = a * RecordSize + RecordSize /\ a * RecordSize \in Nat  BY <1>1
<1>3. a >= b => a * RecordSize >= b * RecordSize
  <2>. SUFFICES ASSUME a >= b PROVE a * RecordSize >= b * RecordSize  OBVIOUS
  <2>1. PICK d \in Nat : a = b + d
    <3>1. a - b \in Nat /\ a = b + (a - b)  OBVIOUS
    <3>. QED  BY <3>1
  <2>2. a * RecordSize = b * RecordSize + d * RecordSize /\ d * RecordSize \in Nat
        /\ b * RecordSize \in Nat
    BY <1>1, <2>1
  <2>. QED  BY <2>2
<1>4. b * RecordSize \in Nat  BY <1>1
<1>. QED  BY <1>1, <1>2, <1>3, <1>4

\* read_tls moves bytes from the chunk to the deframer, in order.
LEMMA FedFollows ==
    ASSUME NEW c \in ConnType, NEW s \in Bytes, Len(c.buffer) < RecordSize, taken \in Nat,
           Follows(c, s)
    PROVE  Follows(Fed(c, s), LeftOver(c, s))
<1>. DEFINE f == Fits(c, s)
            t == SubSeq(s, 1, Fits(c, s))
            d == Fed(c, s)
            r == c.records * RecordSize
<1>1. /\ c.buffer \in Bytes /\ Len(c.buffer) \in Nat /\ c.records \in Nat /\ Len(s) \in Nat
  BY DEF ConnType, Bytes
<1>2. r \in Nat  BY <1>1, NextRecord
<1>a. d.buffer = c.buffer \o t  BY TakenSlice
<1>3. /\ f \in 0 .. Len(s) /\ Len(LeftOver(c, s)) = Len(s) - f
      /\ Len(d.buffer) = Len(c.buffer) + f
      /\ d.records = c.records
  BY TakenSlice
<1>4. /\ t \in Bytes /\ Len(t) = f
      /\ \A i \in 1 .. f : t[i] = s[i]
      /\ \A i \in 1 .. Len(s) - f : LeftOver(c, s)[i] = s[f + i]
  BY <1>3, RestOfBytes DEF LeftOver
<1>. HIDE DEF f, t, d, r
<1>5. /\ \A i \in 1 .. Len(c.buffer) : d.buffer[i] = c.buffer[i]
      /\ \A i \in 1 .. f : d.buffer[Len(c.buffer) + i] = t[i]
  BY <1>1, <1>a, <1>3, <1>4, JoinBytes
<1>b. r + Len(c.buffer) + Len(s) = taken  BY DEF Follows, r
<1>6. /\ \A i \in 1 .. Len(c.buffer) : c.buffer[i] = r + i
      /\ \A i \in 1 .. Len(s) : s[i] = r + Len(c.buffer) + i
  BY DEF Follows, r
<1>7. \A i \in 1 .. Len(d.buffer) : d.buffer[i] = r + i
  <2>. TAKE i \in 1 .. Len(d.buffer)
  <2>1. CASE i <= Len(c.buffer)  BY <1>1, <1>3, <1>5, <1>6, <2>1
  <2>2. CASE i > Len(c.buffer)
    <3>1. PICK j \in 1 .. f : i = Len(c.buffer) + j
      <4>1. i - Len(c.buffer) \in 1 .. f /\ i = Len(c.buffer) + (i - Len(c.buffer))
        BY <1>1, <1>3, <2>2
      <4>. QED  BY <4>1
    <3>2. d.buffer[i] = s[j] /\ j \in 1 .. Len(s)  BY <1>1, <1>3, <1>4, <1>5, <3>1
    <3>3. s[j] = r + Len(c.buffer) + j  BY <1>6, <3>2
    <3>. QED  BY <1>1, <1>2, <3>1, <3>2, <3>3
  <2>. QED  BY <1>1, <1>3, <2>1, <2>2
<1>8. \A i \in 1 .. Len(s) - f : LeftOver(c, s)[i] = r + Len(d.buffer) + i
  <2>. TAKE i \in 1 .. Len(s) - f
  <2>1. f + i \in 1 .. Len(s) /\ LeftOver(c, s)[i] = s[f + i]  BY <1>1, <1>3, <1>4
  <2>2. s[f + i] = r + Len(c.buffer) + (f + i)  BY <1>6, <2>1
  <2>3. Len(c.buffer) + f = Len(d.buffer) /\ f \in Nat /\ i \in Nat  BY <1>1, <1>3
  <2>a. r \in Nat  BY <1>2 DEF r
  <2>4. r + Len(c.buffer) + (f + i) = r + (Len(c.buffer) + f) + i
    <3>. DEFINE l == Len(c.buffer)
    <3>1. l \in Nat /\ f \in Nat /\ i \in Nat  BY <1>1, <2>3
    <3>. HIDE DEF l
    <3>2. r + l + (f + i) = r + (l + f) + i  BY <2>a, <3>1
    <3>. QED  BY <3>2 DEF l
  <2>. QED  BY <2>1, <2>2, <2>3, <2>4
<1>9. r + Len(d.buffer) + Len(LeftOver(c, s)) = taken  BY <1>1, <1>2, <1>3, <1>b
<1>. QED  BY <1>3, <1>7, <1>8, <1>9 DEF Follows, d, r

\* A record that follows the last one is intact, and what is left follows it.
LEMMA ProcessedFollows ==
    ASSUME NEW c \in ConnType, NEW s \in Bytes, Len(c.buffer) < 2 * RecordSize,
           taken \in Nat, Len(inbound) \in Nat, taken <= Len(inbound) * RecordSize,
           Follows(c, s)
    PROVE  /\ Follows(Processed(c), s)
           /\ Len(c.buffer) >= RecordSize =>
                 Intact(c) /\ c.records + 1 \in 1 .. Len(inbound)
<1>1. /\ c.buffer \in Bytes /\ Len(c.buffer) \in Nat /\ c.records \in Nat /\ Len(s) \in Nat
      /\ RecordSize \in Nat /\ RecordSize > 0
  BY Sizes DEF ConnType, Bytes
<1>2. CASE Len(c.buffer) < RecordSize
  BY <1>1, <1>2, ProcessedForms
<1>3. CASE Len(c.buffer) >= RecordSize
  <2>. DEFINE r == c.records * RecordSize
              d == Processed(c)
  <2>1. r \in Nat /\ (c.records + 1) * RecordSize = r + RecordSize  BY <1>1, NextRecord
  <2>2. /\ d.records = c.records + 1 /\ Len(d.buffer) = Len(c.buffer) - RecordSize
        /\ \A i \in 1 .. Len(c.buffer) - RecordSize : d.buffer[i] = c.buffer[RecordSize + i]
    BY <1>3, ProcessedForms
  <2>a. Len(d.buffer) = Len(c.buffer) - RecordSize  BY <2>2
  <2>b. r + Len(c.buffer) + Len(s) = taken  BY DEF Follows
  <2>3. /\ \A i \in 1 .. Len(c.buffer) : c.buffer[i] = r + i
        /\ \A i \in 1 .. Len(s) : s[i] = r + Len(c.buffer) + i
    BY DEF Follows
  <2>4. Intact(c)  BY <1>1, <1>3, <2>3 DEF Intact
  <2>5. c.records + 1 \in 1 .. Len(inbound)
    <3>. DEFINE all == Len(inbound) * RecordSize
    <3>0. taken <= all /\ all \in Nat  BY <1>1, NextRecord
    <3>. HIDE DEF r, all
    <3>1. r + RecordSize <= taken  BY <1>1, <1>3, <2>1, <2>b
    <3>2. r + RecordSize <= all  BY <1>1, <2>1, <3>0, <3>1
    <3>3. r + RecordSize <= Len(inbound) * RecordSize  BY <3>2 DEF all
    <3>4. c.records + 1 <= Len(inbound)  BY <1>1, <3>3, NextRecord DEF r
    <3>. QED  BY <1>1, <3>4
  <2>. HIDE DEF r, d
  <2>6. \A i \in 1 .. Len(d.buffer) : d.buffer[i] = (r + RecordSize) + i
    <3>. TAKE i \in 1 .. Len(d.buffer)
    <3>1. RecordSize + i \in 1 .. Len(c.buffer) /\ d.buffer[i] = c.buffer[RecordSize + i]
      <4>1. RecordSize + i \in 1 .. Len(c.buffer) /\ i \in 1 .. Len(c.buffer) - RecordSize
        BY <1>1, <1>3, <2>a
      <4>. QED  BY <2>2, <4>1
    <3>2. c.buffer[RecordSize + i] = r + (RecordSize + i)  BY <2>3, <3>1
    <3>3. r + (RecordSize + i) = (r + RecordSize) + i /\ i \in Nat  BY <1>1, <2>1, <2>a
    <3>. QED  BY <3>1, <3>2, <3>3
  <2>7. \A i \in 1 .. Len(s) : s[i] = (r + RecordSize) + Len(d.buffer) + i
    <3>. TAKE i \in 1 .. Len(s)
    <3>1. s[i] = r + Len(c.buffer) + i  BY <2>3
    <3>2. r + Len(c.buffer) + i = (r + RecordSize) + Len(d.buffer) + i
      <4>. DEFINE l == Len(c.buffer)
      <4>1. r \in Nat /\ l \in Nat /\ i \in Nat /\ RecordSize \in Nat /\ RecordSize <= l
        BY <1>1, <1>3, <2>1
      <4>. HIDE DEF l
      <4>2. r + l + i = (r + RecordSize) + (l - RecordSize) + i  BY <4>1
      <4>. QED  BY <2>a, <4>2 DEF l
    <3>. QED  BY <3>1, <3>2
  <2>8. (r + RecordSize) + Len(d.buffer) + Len(s) = taken
    <3>. DEFINE l == Len(c.buffer)
    <3>1. r \in Nat /\ l \in Nat /\ Len(s) \in Nat /\ RecordSize \in Nat /\ RecordSize <= l
      BY <1>1, <1>3, <2>1
    <3>. HIDE DEF l
    <3>2. r + l + Len(s) = (r + RecordSize) + (l - RecordSize) + Len(s)  BY <3>1
    <3>. QED  BY <2>a, <2>b, <3>2 DEF l
  <2>9. d.records * RecordSize = r + RecordSize  BY <2>1, <2>2
  <2>10. Follows(d, s)  BY <2>6, <2>7, <2>8, <2>9 DEF Follows
  <2>. QED  BY <2>4, <2>5, <2>10 DEF d
<1>. QED  BY <1>1, <1>2, <1>3

\* One turn of the loop of feed_one: what is left of the chunk follows what rustls has,
\* and rustls fails, or has something to answer, only for a reason.
LEMMA ProcessIn ==
    ASSUME TypeOK, Control, InStream, Process
    PROVE  /\ InStream'
           /\ ~conn.failed
           /\ conn'.failed => \E i \in DOMAIN inbound : inbound[i] = "forged"
           /\ conn'.records >= conn.records /\ conn'.made = conn.made
           /\ conn'.queued # conn.queued =>
                 \/ conn'.failed \/ conn.records + 1 = Flight
                 \/ \E i \in DOMAIN inbound : inbound[i] = "ask"
           /\ conn'.queued >= conn.queued
<1>. DEFINE s == run.slice
            c == Fed(conn, s)
<1>0. /\ conn \in ConnType /\ Len(conn.buffer) < RecordSize /\ s \in Bytes /\ taken \in Nat
      /\ run.done \in Continuation /\ ops \in [Ops -> OpType]
      /\ inbound \in Seq({"flight", "data", "ask", "notify", "forged"})
      /\ run.at = "process" /\ Busy /\ run.done.for \in Readers
  BY TypesFolded, RunForms, ProcessForms, ProcessAdvances DEF Busy, Control
<1>1. /\ taken' = taken /\ inbound' = inbound
      /\ run = [at |-> "process", done |-> run.done, slice |-> s]
  BY ProcessForms, RunForms DEF transportVars, peerVars, TypeOK, Idle, Sending
<1>2. /\ Pending(Readers) = {run.done.op} /\ run.done.op \in Ops
      /\ ops[run.done.op].state = "pending" /\ reading = None
  BY <1>0, OneReader
<1>3. ~conn.failed  BY <1>2 DEF InStream, NoMoreReads
<1>4. Follows(conn, s) /\ taken <= Len(inbound) * RecordSize
  BY <1>0, <1>2 DEF InStream, NoMoreReads, Slice
<1>5. Len(inbound) \in Nat /\ DOMAIN inbound = 1 .. Len(inbound)  BY <1>0
<1>6. /\ c \in ConnType /\ Len(c.buffer) < 2 * RecordSize /\ Follows(c, LeftOver(conn, s))
      /\ LeftOver(conn, s) \in Bytes
      /\ c.made = conn.made /\ c.queued = conn.queued /\ c.records = conn.records
      /\ ~c.failed
  BY <1>0, <1>3, <1>4, TakenSlice, FedFollows
<1>f. ASSUME Fail(run.done)  PROVE NoMoreReads'
  <2>1. Returns(run.done, "error") /\ Live(run.done)
    BY <1>0, <1>f, FailAdvances DEF Ends, Readers, Control, Owned
  <2>2. /\ Pending(Readers)' = Pending(Readers) \ {run.done.op} /\ Failed'
    BY <1>0, <2>1, AfterReturn
  <2>. QED  BY <1>2, <2>2 DEF NoMoreReads
<1>9. CASE UNCHANGED conn /\ Fail(run.done)
  <2>1. InStream'  BY <1>1, <1>4, <1>f, <1>9 DEF InStream
  <2>. QED  BY <1>0, <1>3, <1>9, <2>1 DEF ConnType
<1>7. CASE UNCHANGED <<conn, ops>> /\ run' = [at |-> "flush", done |-> run.done]
           /\ Fits(conn, s) = 0
  <2>1. s = <<>>  BY <1>0, <1>7, TakenSlice
  <2>2. Slice' = <<>> /\ Follows(conn, <<>>)  BY <1>4, <1>7, <2>1 DEF Slice
  <2>3. Follows(conn, <<>>)' <=> Follows(conn, <<>>)  BY <1>1, <1>7 DEF Follows
  <2>4. InStream'  BY <1>1, <1>3, <1>4, <1>7, <2>2, <2>3 DEF InStream
  <2>. QED  BY <1>0, <1>3, <1>7, <2>4 DEF ConnType
<1>8. CASE conn' = Processed(c)
  <2>. DEFINE d == Processed(c)
  <2>1. /\ Follows(d, LeftOver(conn, s))
        /\ Len(c.buffer) >= RecordSize =>
              Intact(c) /\ c.records + 1 \in 1 .. Len(inbound)
    BY <1>0, <1>4, <1>5, <1>6, ProcessedFollows
  <2>a. /\ Len(c.buffer) < RecordSize => d = c
        /\ Len(c.buffer) >= RecordSize =>
              /\ d.failed <=> Forged(c)
              /\ d.queued # conn.queued =>
                    Forged(c) \/ inbound[c.records + 1] = "ask" \/ c.records + 1 = Flight
    BY <1>6, ProcessedForms
  <2>b. Len(c.buffer) < RecordSize \/ Len(c.buffer) >= RecordSize
    <3>1. Len(c.buffer) \in Nat  BY <1>6 DEF ConnType, Bytes
    <3>. QED  BY <3>1, Sizes
  <2>c. Len(c.buffer) >= RecordSize =>
           /\ c.records + 1 \in DOMAIN inbound
           /\ Forged(c) <=> inbound[c.records + 1] = "forged"
    BY <1>5, <2>1 DEF Forged
  <2>2. d.failed => \E i \in DOMAIN inbound : inbound[i] = "forged"
    <3>1. CASE Len(c.buffer) < RecordSize  BY <1>6, <2>a, <3>1
    <3>2. CASE Len(c.buffer) >= RecordSize  BY <2>a, <2>c, <3>2
    <3>. QED  BY <2>b, <3>1, <3>2
  <2>d. d.records >= conn.records /\ d.made = conn.made
    <3>1. d.records >= c.records /\ d.made = c.made  BY <1>6, ProcessedForms
    <3>. QED  BY <1>6, <3>1
  <2>3. d.queued # conn.queued =>
           \/ d.failed \/ conn.records + 1 = Flight
           \/ \E i \in DOMAIN inbound : inbound[i] = "ask"
    <3>1. CASE Len(c.buffer) < RecordSize  BY <1>6, <2>a, <3>1
    <3>2. CASE Len(c.buffer) >= RecordSize  BY <1>6, <2>a, <2>c, <3>2
    <3>. QED  BY <2>b, <3>1, <3>2
  <2>4. d.queued >= conn.queued
    <3>1. d.queued \in {conn.queued, conn.queued + RecordSize} /\ conn.queued \in Nat
      BY <1>0, <1>6, ProcessedForms DEF ConnType
    <3>. QED  BY <3>1, Sizes
  <2>. HIDE DEF d
  <2>5. CASE conn'.failed /\ Fail(run.done)
    <3>3. InStream'  BY <1>1, <1>4, <1>f, <2>5 DEF InStream
    <3>. QED  BY <1>3, <1>8, <2>2, <2>d, <2>3, <2>4, <3>3 DEF d
  <2>6. CASE ~conn'.failed /\ run' = [run EXCEPT !.slice = LeftOver(conn, s)]
    <3>1. run'.at = "process" /\ run'.slice = LeftOver(conn, s)  BY <1>1, <2>6
    <3>2. Slice' = LeftOver(conn, s)  BY <3>1 DEF Slice
    <3>3. conn' = d  BY <1>8 DEF d
    <3>. DEFINE l == LeftOver(conn, s)
    <3>4. Follows(d, l)  BY <2>1
    <3>. HIDE DEF l
    <3>5. Follows(conn, Slice)'
      <4>1. Slice' = l  BY <3>2 DEF l
      <4>. QED  BY <1>1, <3>3, <3>4, <4>1 DEF Follows
    <3>6. InStream'  BY <1>1, <1>4, <2>6, <3>5 DEF InStream
    <3>. QED  BY <1>3, <2>2, <2>d, <2>3, <2>4, <3>3, <3>6
  <2>. QED  BY <1>8, <2>5, <2>6, ProcessForms, <1>7, <1>9
<1>. QED  BY <1>7, <1>8, <1>9, ProcessForms

LEMMA ProcessQuiet ==
    ASSUME TypeOK, Control, Quiet, Established, InStream, Process
    PROVE  Control' /\ Quiet'
<1>0. /\ run.at = "process" /\ Busy /\ run.done \in Continuation /\ Live(run.done)
      /\ UNCHANGED <<reading, writing, open, duplex, inbound>>
      /\ Source(run.done) /\ None \notin Continuation
  BY RunForms, ProcessForms, TlsAssumption
  DEF Busy, Control, Owned, transportVars, peerVars, Source
<1>1. /\ Goes(run.done) \/ Ends(run.done) \/ Returns(run.done, "error")
      /\ run'.at # "send" /\ run.done.for \in Readers
  BY ProcessAdvances DEF Control
<1>2. /\ Advance(run.done)
      /\ \A o \in Ops : ops'[o].state = "ok" => ops[o].state = "ok"
  BY <1>0, <1>1, NoneSucceeds
<1>3. Control'  BY <1>0, <1>2, AdvanceKeeps
<1>4. CASE conn'.queued = conn.queued
  BY <1>0, <1>1, <1>2, <1>3, <1>4, QuietAdvance
<1>5. CASE conn'.queued # conn.queued /\ conn'.failed
  <2>1. Fail(run.done)  BY <1>5, ProcessForms, ProcessIn
  <2>2. Returns(run.done, "error")  BY <1>1, <2>1, FailAdvances DEF Ends, Readers
  <2>3. run' = Idle /\ Failed'  BY <1>0, <2>2, AfterReturn
  <2>4. reading = None  BY <1>0, <1>1, OneReader
  <2>5. ~Busy' /\ run'.at = "idle"  BY <2>3 DEF Busy, Idle
  <2>. QED  BY <1>0, <1>3, <2>3, <2>4, <2>5 DEF Quiet
<1>6. CASE conn'.queued # conn.queued /\ ~conn'.failed
  <2>1. conn.records + 1 = Flight \/ \E i \in DOMAIN inbound : inbound[i] = "ask"
    BY <1>6, ProcessIn
  <2>2. ~(duplex /\ 1 \in Ops /\ ops[1].state = "ok")
    <3>1. conn.records \in Nat /\ Flight \in Nat  BY TypesFolded, Sizes DEF ConnType
    <3>2. conn.records + 1 = Flight => ~(conn.records >= Flight)  BY <3>1
    <3>. QED  BY <2>1, <3>2 DEF Quiet, Established
  <2>3. writing = None
    <3>. SUFFICES ASSUME writing # None PROVE FALSE  OBVIOUS
    <3>1. run.done.for = "read"  BY <1>0 DEF Quiet
    <3>2. /\ run.done.op \in Ops /\ ops[run.done.op].kind = "read"
          /\ run.done.op \in Pending(Kinds)
      BY <1>0, <3>1 DEF Live, Pending, Kinds
    <3>3. 1 \in Ops /\ ops[1].state = "ok"  BY <3>2, Sizes DEF Control, Calls, Ops
    <3>4. writing.done \in Continuation /\ Live(writing.done) /\ writing.done # run.done
      BY <1>0, TypesFolded DEF Control, Owned, Sending
    <3>5. CASE writing.done.for = "disconnect"
      <4>1. duplex  BY <3>2, <3>4, <3>5 DEF Live, Control, Calls
      <4>. QED  BY <2>2, <3>3, <4>1
    <3>6. CASE writing.done.for # "disconnect"
      <4>1. writing.done.op \in Pending(Kinds)
        BY <3>4, <3>6, ContinuationForms DEF Live, Pending
      <4>2. writing.done.op # run.done.op  BY <1>0, <3>4, SameCall
      <4>3. duplex  BY <3>2, <4>1, <4>2 DEF Control, Calls
      <4>. QED  BY <2>2, <3>3, <4>3
    <3>. QED  BY <3>5, <3>6
  <2>4. 1 \in Ops /\ ops'[1].state = "ok" => ops[1].state = "ok"  BY <1>2
  <2>. QED  BY <1>0, <1>1, <1>3, <2>2, <2>3, <2>4 DEF Quiet
<1>. QED  BY <1>4, <1>5, <1>6

LEMMA PlainForms ==
    ASSUME TypeOK, ReadPlain
    PROVE  /\ conn'.queued = conn.queued /\ conn'.made = conn.made
           /\ conn'.records = conn.records /\ conn'.buffer = conn.buffer
           /\ conn'.failed = conn.failed
<1>0. conn \in ConnType  BY TypesFolded
<1>1. CASE \E n \in 1 .. conn.plain : conn' = [conn EXCEPT !.plain = @ - n]
  BY <1>0, <1>1 DEF ConnType
<1>2. CASE UNCHANGED conn  BY <1>2
<1>. QED  BY <1>1, <1>2 DEF ReadPlain

LEMMA PlainQuiet ==
    ASSUME TypeOK, Control, Quiet, ReadPlain
    PROVE  Control' /\ Quiet'
<1>0. /\ run.at = "read" /\ Busy /\ run.done \in Continuation /\ Live(run.done)
      /\ UNCHANGED <<reading, writing, open, duplex, inbound>>
      /\ Source(run.done)
  BY RunForms DEF ReadPlain, Busy, Control, Owned, transportVars, peerVars, Source
<1>1. /\ run.done.for = "read"
      /\ Returns(run.done, "ok") \/ (Goes(run.done) /\ run'.at = "feed")
  BY PlainAdvances DEF Control
<1>2. Advance(run.done)  BY <1>1 DEF Advance
<1>3. Control'  BY <1>0, <1>2, AdvanceKeeps
<1>4. run'.at # "send"  BY <1>1 DEF Returns, Finish, Idle
<1>5. run.done.op # 1  BY <1>0, <1>1 DEF Live, Control, Calls
<1>6. 1 \in Ops /\ ops'[1].state = "ok" => ops[1].state = "ok"
  BY <1>0, <1>2, <1>5, AfterAdvance
<1>7. conn'.queued = conn.queued  BY PlainForms
<1>. QED  BY <1>0, <1>2, <1>3, <1>4, <1>6, <1>7, QuietAdvance

LEMMA PeerForms ==
    ASSUME TypeOK,
           PeerStops \/ \E kind \in {"flight", "data", "ask", "notify", "forged"} : PeerSends(kind)
    PROVE  /\ UNCHANGED <<conn, run, reading, writing, wire, taken, open, ops, duplex>>
           /\ peer = "sends"
           /\ \/ inbound' = inbound
              \/ /\ peer' = peer
                 /\ Len(inbound') = Len(inbound) + 1
                 /\ DOMAIN inbound \subseteq DOMAIN inbound'
                 /\ \A i \in DOMAIN inbound : inbound'[i] = inbound[i]
                 /\ duplex /\ (\A i \in DOMAIN inbound : inbound[i] # "ask")
                       => \A i \in DOMAIN inbound' : inbound'[i] # "ask"
<1>0. inbound \in Seq({"flight", "data", "ask", "notify", "forged"})  BY TypesFolded
<1>1. CASE PeerStops  BY <1>1 DEF PeerStops, transportVars
<1>2. CASE \E kind \in {"flight", "data", "ask", "notify", "forged"} : PeerSends(kind)
  <2>1. PICK kind \in {"flight", "data", "ask", "notify", "forged"} : PeerSends(kind)
    BY <1>2
  <2>2. inbound' = Append(inbound, kind) /\ (kind = "ask" => ~duplex)  BY <2>1 DEF PeerSends
  <2>3. /\ Len(inbound') = Len(inbound) + 1
        /\ DOMAIN inbound = 1 .. Len(inbound) /\ DOMAIN inbound' = 1 .. Len(inbound) + 1
        /\ \A i \in 1 .. Len(inbound) : inbound'[i] = inbound[i]
        /\ inbound'[Len(inbound) + 1] = kind
        /\ Len(inbound) \in Nat
    BY <1>0, <2>2
  <2>4. duplex /\ (\A i \in DOMAIN inbound : inbound[i] # "ask")
           => \A i \in DOMAIN inbound' : inbound'[i] # "ask"
    BY <2>2, <2>3
  <2>5. DOMAIN inbound \subseteq DOMAIN inbound'  BY <2>3
  <2>6. UNCHANGED <<conn, run, reading, writing, wire, taken, open, ops, duplex, peer>>
        /\ peer = "sends"
    BY <2>1 DEF PeerSends, transportVars
  <2>. QED  BY <2>3, <2>4, <2>5, <2>6
<1>. QED  BY <1>1, <1>2

LEMMA PeerQuiet ==
    ASSUME TypeOK, Control, Quiet,
           PeerStops \/ \E kind \in {"flight", "data", "ask", "notify", "forged"} : PeerSends(kind)
    PROVE  Control' /\ Quiet'
<1>1. UNCHANGED <<conn, run, reading, writing, open, ops, duplex>>  BY PeerForms
<1>2. /\ \A kinds : Pending(kinds)' = Pending(kinds)
      /\ Failed' <=> Failed
      /\ Busy' <=> Busy
      /\ \A l : Live(l)' <=> Live(l)
  BY <1>1 DEF Pending, Failed, Busy, Live
<1>3. Shape' /\ Held'  BY <1>1, <1>2 DEF Control, Shape, Held
<1>4. Owned'  BY <1>1, <1>2 DEF Control, Owned
<1>5. Calls'  BY <1>1, <1>2 DEF Control, Calls
<1>6. duplex' => \A i \in DOMAIN inbound' : inbound'[i] # "ask"
  BY <1>1, PeerForms DEF Quiet
<1>7. Quiet'  BY <1>1, <1>2, <1>6 DEF Quiet
<1>. QED  BY <1>3, <1>4, <1>5, <1>7 DEF Control

\* Nothing is taken from the transport and nothing goes to the deframer.
LEMMA NothingRead ==
    ASSUME InStream, run.at # "process", run'.at # "process", UNCHANGED <<taken, inbound>>,
           conn'.records = conn.records, conn'.buffer = conn.buffer,
           conn'.failed = conn.failed,
           NoMoreReads => NoMoreReads'
    PROVE  InStream'
<1>1. Slice = <<>> /\ Slice' = <<>>  BY DEF Slice
<1>2. taken' = taken /\ inbound' = inbound  OBVIOUS
<1>3. Follows(conn, <<>>)' <=> Follows(conn, <<>>)  BY <1>2 DEF Follows
<1>. QED  BY <1>1, <1>2, <1>3 DEF InStream

\* The transport delivers the bytes that follow.
LEMMA DeliverIn ==
    ASSUME TypeOK, Control, InStream, NEW k \in Continuation, Live(k), k.for \in Readers,
           run.at # "process", Deliver(k), UNCHANGED <<conn, inbound>>
    PROVE  InStream'
<1>0. /\ conn \in ConnType /\ taken \in Nat /\ ops \in [Ops -> OpType]
      /\ inbound \in Seq({"flight", "data", "ask", "notify", "forged"})
  BY TypesFolded
<1>1. k.op \in Pending(Readers)  BY DEF Live, Pending, Readers
<1>2. ~NoMoreReads  BY <1>1 DEF NoMoreReads
<1>3. CASE peer = "broken" \/ Available = 0
  <2>1. Fail(k) /\ taken' = taken  BY <1>3 DEF Deliver
  <2>2. run'.at # "process"  BY <2>1 DEF Fail, Finish, Idle
  <2>. QED  BY <1>2, <2>1, <2>2, NothingRead
<1>4. CASE ~(peer = "broken" \/ Available = 0)
  <2>1. PICK n \in 1 .. ReadChunk :
           /\ n <= Available /\ taken' = taken + n /\ UNCHANGED ops
           /\ run' = [at |-> "process", done |-> k, slice |-> [i \in 1 .. n |-> taken + i]]
    BY <1>4 DEF Deliver
  <2>2. n \in Nat  BY Sizes
  <2>. DEFINE r == conn.records * RecordSize
              l == Len(conn.buffer)
              all == Len(inbound) * RecordSize
              t == [i \in 1 .. n |-> taken + i]
  <2>3. l \in Nat /\ all \in Nat /\ r \in Nat
    <3>1. Len(inbound) \in Nat /\ conn.records \in Nat /\ conn.buffer \in Bytes
      BY <1>0 DEF ConnType
    <3>2. all \in Nat /\ r \in Nat  BY <3>1, NextRecord
    <3>3. l \in Nat  BY <3>1 DEF Bytes
    <3>. QED  BY <3>2, <3>3
  <2>4. /\ taken <= all /\ Slice = <<>>
        /\ r + l + 0 = taken
        /\ \A i \in 1 .. l : conn.buffer[i] = r + i
    BY <1>2 DEF InStream, Slice, Follows
  <2>5. t \in Bytes /\ Len(t) = n /\ \A i \in 1 .. n : t[i] = taken + i
    BY <1>0, <2>2, Chunk
  <2>6. Available = all - taken  BY DEF Available
  <2>. HIDE DEF r, l, all, t
  <2>7. r + l = taken  BY <2>3, <2>4
  <2>8. taken + n <= all  BY <1>0, <2>1, <2>2, <2>3, <2>4, <2>6
  <2>9. /\ r + l + n = taken + n
        /\ \A i \in 1 .. n : t[i] = r + l + i
    BY <1>0, <2>2, <2>3, <2>5, <2>7
  <2>10. Slice' = t  BY <2>1 DEF Slice, t
  <2>11. Follows(conn, Slice)'
    <3>1. conn' = conn /\ taken' = taken + n  BY <2>1
    <3>. QED  BY <2>4, <2>5, <2>9, <2>10, <3>1 DEF Follows, r, l
  <2>12. taken' <= Len(inbound') * RecordSize  BY <2>1, <2>8 DEF all
  <2>. QED  BY <1>2, <2>11, <2>12 DEF InStream
<1>. QED  BY <1>3, <1>4

\* A call succeeds in a flush when nothing is left to send, and a handshake when it is over.
LEMMA FlushOk ==
    ASSUME TypeOK, Control, FlushPending, NEW o \in Ops, ops'[o].state = "ok"
    PROVE  \/ ops[o].state = "ok"
           \/ /\ o = run.done.op /\ conn.queued = 0 /\ conn' = conn
              /\ run.done.for \in {"handshake", "write"} /\ ops[o].kind = run.done.for
              /\ ops[o].state = "pending"
              /\ run.done.for = "handshake" => conn.records >= Flight
<1>0. /\ run.done \in Continuation /\ Live(run.done) /\ ops \in [Ops -> OpType]
      /\ conn.records \in Nat /\ Flight \in Nat
  BY TypesFolded, RunForms, Sizes DEF FlushPending, Busy, Control, Owned, ConnType
<1>1. CASE ops' = ops  BY <1>1
<1>2. CASE ops' # ops
  <2>1. conn.queued = 0 /\ conn' = conn /\ Flushed(run.done)  BY <1>2 DEF FlushPending
  <2>2. /\ ~(run.done.for = "handshake" /\ IsHandshaking)
        /\ run.done.for \notin {"read", "disconnect"}
        /\ Finish(run.done.op, "ok")
    BY <1>2, <2>1 DEF Flushed
  <2>3. /\ run.done.op \in Ops /\ run.done.for \in Kinds
        /\ ops[run.done.op].kind = run.done.for /\ ops[run.done.op].state = "pending"
    BY <1>0, <2>2, ContinuationForms DEF Live
  <2>4. o # run.done.op => ops[o].state = "ok"
    BY <1>0, <2>2, <2>3 DEF Finish, OpType
  <2>. QED  BY <1>0, <2>1, <2>2, <2>3, <2>4 DEF IsHandshaking, Kinds
<1>. QED  BY <1>1, <1>2

LEMMA InStep ==
    ASSUME TypeOK, Control, Quiet, Established, InStream, Next
    PROVE  InStream' /\ Established'
<1>0. /\ conn \in ConnType /\ ops \in [Ops -> OpType]
      /\ conn.queued \in Nat /\ conn.made \in Nat /\ RecordSize \in Nat
      /\ conn.records \in Nat /\ Flight \in Nat
  BY TypesFolded, Sizes DEF ConnType
<1>a. conn.queued + RecordSize \in Nat /\ conn.made + conn.queued \in Nat  BY <1>0
<1>1. ASSUME NEW o \in Ops, Handshake(o) \/ Read(o) \/ Write(o)
      PROVE  InStream' /\ Established'
  <2>1. run = Idle /\ ~Failed /\ ops[o].state = "unused"
    BY <1>1 DEF Handshake, Read, Write, MayCall, Failed
  <2>2. /\ conn'.records = conn.records /\ conn'.buffer = conn.buffer
        /\ conn'.failed = conn.failed
    <3>1. CASE conn' = conn  BY <3>1
    <3>2. CASE conn' = [conn EXCEPT !.queued = conn.queued + RecordSize]
      BY <1>0, <1>a, <3>2, ConnQueued
    <3>. QED  BY <1>1, <3>1, <3>2 DEF Handshake, Read, Write
  <2>3. UNCHANGED <<taken, inbound>>
    BY <1>1 DEF Handshake, Read, Write, transportVars, peerVars
  <2>4. run.at # "process" /\ run'.at # "process"
    BY <1>1, <2>1 DEF Handshake, Read, Write, Idle
  <2>5. \E state \in {"pending", "error"} : \E kind, bytes :
           ops' = [ops EXCEPT ![o] = [kind |-> kind, state |-> state, mark |-> bytes]]
    BY <1>1 DEF Handshake, Read, Write, Called
  <2>6. \A p \in Ops : ops'[p].state = "ok" => ops[p].state = "ok"  BY <1>0, <2>5
  <2>7. Established'  BY <2>2, <2>6 DEF Established
  <2>8. ~NoMoreReads  BY <2>1 DEF NoMoreReads
  <2>. QED  BY <2>2, <2>3, <2>4, <2>7, <2>8, NothingRead
<1>2. CASE Disconnect
  <2>1. /\ run.at # "process" /\ run'.at # "process" /\ ops' = ops
        /\ UNCHANGED <<taken, inbound>>
    BY <1>2 DEF Disconnect, Idle, transportVars, peerVars
  <2>2. /\ conn'.records = conn.records /\ conn'.buffer = conn.buffer
        /\ conn'.failed = conn.failed
    BY <1>0, <1>2, <1>a, ConnQueued DEF Disconnect
  <2>3. NoMoreReads => NoMoreReads'
    BY <2>1 DEF NoMoreReads, Failed, Pending
  <2>. QED  BY <2>1, <2>2, <2>3, NothingRead DEF Established
<1>3. CASE HangUp
  <2>1. /\ run.at # "process" /\ run'.at # "process" /\ conn' = conn
        /\ UNCHANGED <<taken, inbound>>
    BY <1>3 DEF HangUp, Idle, peerVars
  <2>2. (Failed' <=> Failed) /\ Pending(Kinds)' = {}  BY <1>3, HangUpKeeps
  <2>3. Pending(Readers)' = {}  BY <2>2 DEF Pending, Readers, Kinds
  <2>4. \A o \in Ops : ops'[o].state = "ok" => ops[o].state = "ok"
    BY <1>0, <1>3 DEF HangUp, OpType
  <2>5. InStream'  BY <2>1, <2>2, <2>3, NothingRead DEF NoMoreReads
  <2>. QED  BY <2>1, <2>4, <2>5 DEF Established
<1>4. CASE FlushPending
  <2>1. /\ run.at # "process" /\ run.done \in Continuation /\ Live(run.done)
        /\ UNCHANGED <<taken, inbound>> /\ Advance(run.done)
    BY <1>4, RunForms, FlushAdvances
    DEF FlushPending, Busy, Control, Owned, transportVars, peerVars
  <2>2. /\ conn'.records = conn.records /\ conn'.buffer = conn.buffer
        /\ conn'.failed = conn.failed
    <3>1. CASE conn' = conn  BY <3>1
    <3>2. CASE conn' = [conn EXCEPT !.queued = 0, !.made = conn.made + conn.queued]
      BY <1>0, <1>a, <3>2, ConnDrained
    <3>. QED  BY <1>4, <3>1, <3>2 DEF FlushPending
  <2>3. run'.at # "process"  BY <1>4 DEF FlushPending, Flushed, Finish, Idle
  <2>4. NoMoreReads => NoMoreReads'
    BY <2>1, AfterAdvance DEF NoMoreReads
  <2>5. Established'
    <3>. SUFFICES ASSUME 1 \in Ops, ops'[1].state = "ok" PROVE conn.records >= Flight
      BY <2>2 DEF Established
    <3>1. CASE ops[1].state = "ok"  BY <3>1 DEF Established
    <3>2. CASE ops[1].state # "ok"
      <4>1. /\ run.done.for \in {"handshake", "write"} /\ ops[1].kind = run.done.for
            /\ run.done.for = "handshake" => conn.records >= Flight
        BY <1>4, <3>2, FlushOk
      <4>2. ops[1].kind # "write"  BY DEF Control, Calls
      <4>. QED  BY <4>1, <4>2
    <3>. QED  BY <3>1, <3>2
  <2>. QED  BY <2>1, <2>2, <2>3, <2>4, <2>5, NothingRead
<1>5. CASE WriteAll \/ WriteCallback
  <2>0. writing \in Sending \cup {None}  BY TypesFolded
  <2>1. run.at # "process" /\ UNCHANGED <<conn, taken, inbound>>
    BY <1>5 DEF WriteAll, WriteCallback, Idle, peerVars
  <2>2. /\ run'.at # "process"
        /\ Failed => Failed'
        /\ \A kinds : Pending(kinds)' \subseteq Pending(kinds)
        /\ \A o \in Ops : ops'[o].state = "ok" => ops[o].state = "ok"
    <3>1. ASSUME NEW w \in Sending, Transmit(w), Live(w.done)
          PROVE  /\ run'.at # "process"
                 /\ Failed => Failed'
                 /\ \A kinds : Pending(kinds)' \subseteq Pending(kinds)
                 /\ \A o \in Ops : ops'[o].state = "ok" => ops[o].state = "ok"
      <4>1. w.done \in Continuation /\ (Goes(w.done) \/ Ends(w.done) \/ Returns(w.done, "error"))
        BY <3>1, TransmitAdvances DEF Sending
      <4>2. run'.at # "process"
        BY <3>1 DEF Transmit, Accepted, Fail, Finish, Idle
      <4>. QED  BY <3>1, <4>1, <4>2, NoneSucceeds, AfterAdvance
    <3>2. CASE WriteAll /\ Transmit(run)
      BY <3>1, <3>2, RunForms DEF WriteAll, Busy, Control, Owned
    <3>3. CASE WriteCallback
      BY <2>0, <3>1, <3>3 DEF WriteCallback, Control, Owned
    <3>4. CASE run' = Idle /\ ops' = ops  BY <3>4 DEF Idle, Failed, Pending
    <3>. QED  BY <1>5, <3>2, <3>3, <3>4 DEF WriteAll
  <2>3. Pending(Readers) = {} => Pending(Readers)' = {}  BY <2>2
  <2>4. InStream'  BY <2>1, <2>2, <2>3, NothingRead DEF NoMoreReads
  <2>. QED  BY <2>1, <2>2, <2>4 DEF Established
<1>6. CASE FeedOne
  <2>1. /\ run.at # "process" /\ run.done \in Continuation /\ Live(run.done)
        /\ run.done.for \in Readers /\ UNCHANGED <<conn, inbound>>
    BY <1>6, RunForms DEF FeedOne, Busy, Control, Owned, Shape, peerVars
  <2>2. CASE Deliver(run.done)
    <3>1. InStream'  BY <2>1, <2>2, DeliverIn
    <3>2. Goes(run.done) \/ Ends(run.done) \/ Returns(run.done, "error")
      BY <2>1, <2>2, DeliverAdvances
    <3>. QED  BY <2>1, <3>1, <3>2, NoneSucceeds DEF Established
  <2>3. CASE run' = Idle /\ UNCHANGED <<taken, ops>>
    <3>1. run'.at # "process"  BY <2>3 DEF Idle
    <3>2. NoMoreReads => NoMoreReads'
      BY <2>3 DEF NoMoreReads, Failed, Pending
    <3>3. InStream'  BY <2>1, <2>3, <3>1, <3>2, NothingRead
    <3>. QED  BY <2>1, <2>3, <3>3 DEF Established
  <2>. QED  BY <1>6, <2>2, <2>3 DEF FeedOne
<1>7. CASE ReadCallback
  <2>1. /\ run.at # "process" /\ reading \in Continuation /\ Live(reading)
        /\ reading.for \in Readers /\ UNCHANGED <<conn, inbound>> /\ Deliver(reading)
    BY <1>7, TypesFolded DEF ReadCallback, Control, Owned, Shape, peerVars, Idle
  <2>2. InStream'  BY <2>1, DeliverIn
  <2>3. Goes(reading) \/ Ends(reading) \/ Returns(reading, "error")
    BY <2>1, DeliverAdvances
  <2>. QED  BY <2>1, <2>2, <2>3, NoneSucceeds DEF Established
<1>8. CASE Process
  <2>1. InStream' /\ conn'.records >= conn.records  BY <1>8, ProcessIn
  <2>2. conn'.records \in Nat
    <3>1. TypeOK'  BY <1>8, ProcessTypes
    <3>. QED  BY <3>1 DEF TypeOK
  <2>3. \A o \in Ops : ops'[o].state = "ok" => ops[o].state = "ok"
    BY <1>8, RunForms, ProcessForms, ProcessAdvances, NoneSucceeds DEF Busy, Control, Owned
  <2>4. 1 \in Ops /\ ops'[1].state = "ok" => conn.records >= Flight
    BY <2>3 DEF Established
  <2>. QED  BY <1>0, <2>1, <2>2, <2>4 DEF Established
<1>9. CASE ReadPlain
  <2>1. /\ run.at # "process" /\ run.done \in Continuation /\ Live(run.done)
        /\ UNCHANGED <<taken, inbound>>
    BY <1>9, RunForms DEF ReadPlain, Busy, Control, Owned, transportVars, peerVars
  <2>2. /\ run.done.for = "read"
        /\ Returns(run.done, "ok") \/ (Goes(run.done) /\ run'.at = "feed")
    BY <1>9, PlainAdvances DEF Control
  <2>3. run'.at # "process" /\ Advance(run.done)
    BY <2>2 DEF Returns, Finish, Idle, Advance
  <2>4. run.done.op # 1  BY <2>1, <2>2 DEF Live, Control, Calls
  <2>5. 1 \in Ops /\ ops'[1].state = "ok" => ops[1].state = "ok"
    BY <2>1, <2>3, <2>4, AfterAdvance
  <2>6. NoMoreReads => NoMoreReads'
    BY <2>1, <2>3, AfterAdvance DEF NoMoreReads
  <2>7. InStream'  BY <1>9, <2>1, <2>3, <2>6, PlainForms, NothingRead
  <2>. QED  BY <1>9, <2>5, <2>7, PlainForms DEF Established
<1>10. CASE PeerStops \/ \E kind \in {"flight", "data", "ask", "notify", "forged"} : PeerSends(kind)
  <2>1. /\ UNCHANGED <<conn, run, taken, ops>>
        /\ inbound' = inbound \/ Len(inbound') = Len(inbound) + 1
    BY <1>10, PeerForms
  <2>2. taken' <= Len(inbound') * RecordSize
    <3>. DEFINE n == Len(inbound)
    <3>1. n \in Nat /\ taken \in Nat /\ taken <= n * RecordSize
      BY TypesFolded DEF InStream
    <3>2. CASE inbound' = inbound  BY <2>1, <3>1, <3>2
    <3>3. CASE Len(inbound') = n + 1
      <4>. HIDE DEF n
      <4>1. (n + 1) * RecordSize = n * RecordSize + RecordSize /\ n * RecordSize \in Nat
        BY <3>1, NextRecord
      <4>. DEFINE all == n * RecordSize
      <4>2. taken <= all /\ all \in Nat  BY <3>1, <4>1
      <4>. HIDE DEF all
      <4>3. taken <= all + RecordSize  BY <1>0, <3>1, <4>2
      <4>. QED  BY <2>1, <3>3, <4>1, <4>3 DEF all
    <3>. QED  BY <2>1, <3>2, <3>3
  <2>3. /\ Slice' = Slice
        /\ Follows(conn, Slice)' <=> Follows(conn, Slice)
        /\ Failed' <=> Failed
        /\ Pending(Readers)' = Pending(Readers)
    BY <2>1 DEF Slice, Follows, Failed, Pending
  <2>. QED  BY <2>1, <2>2, <2>3 DEF InStream, NoMoreReads, Established
<1>. QED  BY <1>1, <1>2, <1>3, <1>4, <1>5, <1>6, <1>7, <1>8, <1>9, <1>10 DEF Next, Pump
-----------------------------------------------------------------------------
(* The bytes for the peer *)

LEMMA NothingWritten ==
    ASSUME OutStream, StreamIntact, wire' = wire, conn'.made = conn.made,
           Inflight' = Inflight, GivenUp => GivenUp'
    PROVE  OutStream' /\ StreamIntact'
<1>1. Contiguous => Contiguous'  BY DEF Contiguous
<1>2. StreamIntact'  BY DEF StreamIntact
<1>. QED  BY <1>1, <1>2 DEF OutStream

\* The transport takes a part of what is on offer, or breaks.
LEMMA TransmitOut ==
    ASSUME TypeOK, Control, OutStream, StreamIntact, NEW w \in Sending, Transmit(w),
           Live(w.done), Inflight = w.bytes, writing' = None,
           w.done.for = "read" => ~duplex \/ open # "open" \/ Failed,
           open # "disconnected", UNCHANGED <<conn, open, peer>>
    PROVE  OutStream' /\ StreamIntact' /\ Len(wire') >= Len(wire)
<1>0. /\ w.done \in Continuation /\ w.bytes \in Bytes /\ wire \in Bytes /\ conn \in ConnType
      /\ Len(wire) \in Nat /\ Len(w.bytes) \in Nat
      /\ open \in {"open", "closing", "disconnected"} /\ DOMAIN wire = 1 .. Len(wire)
  BY TypesFolded DEF Sending, Bytes
<1>1. CASE peer = "broken"
  <2>1. Fail(w.done) /\ wire' = wire  BY <1>1 DEF Transmit
  <2>2. CASE Ends(w.done)
    <3>1. open = "closing"  BY <2>2 DEF Ends, Live
    <3>2. Pending({"handshake", "write"}) = {}
      BY <3>1 DEF Control, Calls, Pending, Kinds
    <3>3. Pending({"handshake", "write"})' = {}  BY <2>2, <3>2 DEF Ends, Pending
    <3>4. GivenUp'  BY <1>1, <3>1, <3>3 DEF GivenUp
    <3>. QED  BY <1>0, <2>1, <3>4 DEF OutStream, StreamIntact
  <2>3. CASE Returns(w.done, "error")
    <3>1. /\ w.done.op \in Pending(Kinds) /\ ops[w.done.op].kind = w.done.for /\ Failed'
          /\ \A kinds : Pending(kinds)' = Pending(kinds) \ {w.done.op}
      BY <1>0, <2>3, AfterReturn
    <3>2. \A o \in Pending({"handshake", "write"}) : o = w.done.op
      <4>. SUFFICES ASSUME NEW o \in Pending({"handshake", "write"}), o # w.done.op
                    PROVE  FALSE
        OBVIOUS
      <4>1. /\ o \in Pending(Kinds) /\ ops[o].kind \in {"handshake", "write"}
        BY DEF Pending, Kinds
      <4>2. /\ duplex /\ ops[o].kind # ops[w.done.op].kind /\ ops[o].kind # "handshake"
            /\ ops[w.done.op].kind # "handshake" /\ ~Failed
        BY <3>1, <4>1 DEF Control, Calls
      <4>3. w.done.for = "read"  BY <3>1, <4>1, <4>2 DEF Pending, Kinds
      <4>4. open = "closing"  BY <1>0, <4>2, <4>3
      <4>. QED  BY <4>1, <4>4 DEF Control, Calls
    <3>3. GivenUp'  BY <1>1, <3>1, <3>2 DEF GivenUp
    <3>. QED  BY <1>0, <2>1, <3>3 DEF OutStream, StreamIntact
  <2>. QED  BY <2>1, <2>2, <2>3, FailAdvances
<1>2. CASE peer # "broken"
  <2>1. PICK n \in 1 .. Len(w.bytes) :
           /\ wire' = wire \o SubSeq(w.bytes, 1, n) /\ Accepted(w, n)
    BY <1>2 DEF Transmit
  <2>. DEFINE b == w.bytes
              head == SubSeq(b, 1, n)
              rest == SubSeq(b, n + 1, Len(b))
              l == Len(wire)
              m == Len(b)
  <2>2. /\ n \in Nat /\ n <= m /\ n \in 0 .. m /\ l \in Nat /\ m \in Nat  BY <1>0
  <2>3. conn.made = l + m /\ \A i \in 1 .. m : b[i] = l + i
    BY <1>2 DEF OutStream, GivenUp, Contiguous
  <2>4. \A i \in 1 .. l : wire[i] = i  BY <1>0 DEF StreamIntact
  <2>5. /\ head \in Bytes /\ Len(head) = n /\ \A i \in 1 .. n : head[i] = b[i]
        /\ Len(rest) = m - n /\ \A i \in 1 .. m - n : rest[i] = b[n + i]
    BY <1>0, <2>2, RestOfBytes
  <2>6. /\ wire' \in Bytes /\ Len(wire') = l + n
        /\ \A i \in 1 .. l : wire'[i] = wire[i]
        /\ \A i \in 1 .. n : wire'[l + i] = head[i]
    BY <1>0, <2>1, <2>5, JoinBytes
  <2>7. DOMAIN wire' = 1 .. Len(wire')  BY <2>6 DEF Bytes
  <2>8. Inflight' = IF n >= m THEN <<>> ELSE rest
    BY <2>1 DEF Accepted, Inflight
  <2>. HIDE DEF b, head, rest, l, m
  <2>9. StreamIntact'
    <3>1. ASSUME NEW i \in 1 .. l + n PROVE wire'[i] = i
      <4>1. CASE i <= l
        <5>1. i \in 1 .. l  BY <2>2, <4>1
        <5>. QED  BY <2>4, <2>6, <5>1
      <4>2. CASE i > l
        <5>1. i - l \in 1 .. n /\ i = l + (i - l) /\ i - l \in 1 .. m  BY <2>2, <4>2
        <5>2. wire'[l + (i - l)] = b[i - l]  BY <2>5, <2>6, <5>1
        <5>3. b[i - l] = l + (i - l)  BY <2>3, <5>1
        <5>. QED  BY <5>1, <5>2, <5>3
      <4>. QED  BY <2>2, <4>1, <4>2
    <3>. QED  BY <2>6, <2>7, <3>1 DEF StreamIntact
  <2>10. Contiguous'
    <3>1. CASE n >= m
      <4>1. n = m  BY <2>2, <3>1
      <4>2. Inflight' = <<>> /\ Len(Inflight') = 0  BY <2>8, <3>1
      <4>3. conn.made = l + n + 0  BY <2>2, <2>3, <4>1
      <4>. QED  BY <2>6, <4>2, <4>3 DEF Contiguous
    <3>2. CASE ~(n >= m)
      <4>1. Inflight' = rest  BY <2>8, <3>2
      <4>2. conn.made = (l + n) + (m - n)  BY <2>2, <2>3
      <4>3. ASSUME NEW i \in 1 .. m - n PROVE rest[i] = (l + n) + i
        <5>1. n + i \in 1 .. m  BY <2>2
        <5>2. rest[i] = b[n + i] /\ b[n + i] = l + (n + i)  BY <2>3, <2>5, <5>1
        <5>3. l + (n + i) = (l + n) + i  BY <2>2
        <5>. QED  BY <5>2, <5>3
      <4>. QED  BY <2>5, <2>6, <4>1, <4>2, <4>3 DEF Contiguous
    <3>. QED  BY <3>1, <3>2
  <2>11. Len(wire') >= Len(wire)  BY <2>2, <2>6 DEF l
  <2>. QED  BY <2>9, <2>10, <2>11 DEF OutStream
<1>. QED  BY <1>1, <1>2

LEMMA MarksKept ==
    ASSUME TypeOK, Marks, OkMeansSent, conn'.made \in Nat, conn'.queued \in Nat,
           conn'.made + conn'.queued >= conn.made + conn.queued,
           Len(wire') \in Nat, Len(wire') >= Len(wire),
           \A o \in Ops : /\ ops'[o].kind = ops[o].kind /\ ops'[o].mark = ops[o].mark
                          /\ ops'[o].state = "ok" => ops[o].state = "ok"
    PROVE  Marks' /\ OkMeansSent'
<1>1. /\ conn.made \in Nat /\ conn.queued \in Nat /\ RecordSize \in Nat /\ Len(wire) \in Nat
      /\ \A o \in Ops : ops[o].mark \in Nat
  BY TypesFolded, Sizes DEF ConnType, OpType, Bytes
<1>. DEFINE a == conn.made + conn.queued
            b == conn'.made + conn'.queued
            l == Len(wire)
            m == Len(wire')
<1>2. a \in Nat /\ b \in Nat /\ b >= a /\ l \in Nat /\ m \in Nat /\ m >= l  BY <1>1
<1>3. /\ a >= RecordSize
      /\ \A o \in Ops : ops[o].mark <= a /\ (ops[o].kind = "read" => ops[o].mark = 0)
  BY DEF Marks
<1>4. \A o \in Ops : ops[o].state = "ok" => l >= ops[o].mark  BY DEF OkMeansSent
<1>. HIDE DEF a, b, l, m
<1>5. /\ b >= RecordSize
      /\ \A o \in Ops : ops'[o].mark <= b /\ (ops'[o].kind = "read" => ops'[o].mark = 0)
  BY <1>1, <1>2, <1>3
<1>6. \A o \in Ops : ops'[o].state = "ok" => m >= ops'[o].mark  BY <1>1, <1>2, <1>4
<1>. QED  BY <1>5, <1>6 DEF Marks, OkMeansSent, a, b, l, m

\* User code starts a call: what it will have sent is counted from all that rustls has.
LEMMA StartOut ==
    ASSUME TypeOK, Control, OutStream, Marks, BytesIntact,
           NEW o \in Ops, Handshake(o) \/ Read(o) \/ Write(o)
    PROVE  OutStream' /\ Marks' /\ BytesIntact'
<1>0. /\ conn \in ConnType /\ ops \in [Ops -> OpType] /\ conn.queued \in Nat
      /\ conn.made \in Nat /\ RecordSize \in Nat /\ Len(wire) \in Nat
  BY TypesFolded, Sizes DEF ConnType, Bytes
<1>a. conn.queued + RecordSize \in Nat /\ conn.made + conn.queued \in Nat  BY <1>0
<1>1. run = Idle /\ open = "open" /\ ~Failed /\ ops[o].state = "unused"
  BY DEF Handshake, Read, Write, MayCall, Failed
<1>2. /\ conn'.failed = conn.failed /\ conn'.made = conn.made
      /\ conn'.queued \in {conn.queued, conn.queued + RecordSize}
      /\ Write(o) => conn'.queued = conn.queued + RecordSize
  <2>1. CASE conn' = conn /\ ~Write(o)  BY <2>1
  <2>2. CASE conn' = [conn EXCEPT !.queued = conn.queued + RecordSize]
    BY <1>0, <1>a, <2>2, ConnQueued
  <2>. QED  BY <2>1, <2>2 DEF Handshake, Read, Write
<1>3. UNCHANGED <<wire, inbound, writing, peer>>
  BY DEF Handshake, Read, Write, transportVars, peerVars
<1>4. run.at # "send" /\ run'.at # "send"
  BY <1>1 DEF Handshake, Read, Write, Idle
<1>5. OutStream' /\ StreamIntact'
  <2>1. Inflight' = Inflight  BY <1>3, <1>4 DEF Inflight
  <2>2. ~GivenUp  BY <1>1 DEF GivenUp
  <2>. QED  BY <1>2, <1>3, <2>1, <2>2, NothingWritten DEF BytesIntact
<1>6. \E k \in Kinds, state \in {"pending", "error"}, bytes \in Nat :
         /\ ops' = [ops EXCEPT ![o] = [kind |-> k, state |-> state, mark |-> bytes]]
         /\ bytes <= conn'.made + conn'.queued
         /\ k = "read" => bytes = 0
  <2>1. CASE Handshake(o)
    <3>1. conn' = conn /\ RecordSize <= conn'.made + conn'.queued
      BY <2>1 DEF Handshake, Marks
    <3>. QED  BY <1>0, <2>1, <3>1 DEF Handshake, Called, Kinds
  <2>2. CASE Read(o)
    <3>1. conn' = conn /\ 0 <= conn'.made + conn'.queued  BY <1>0, <2>2 DEF Read
    <3>. QED  BY <2>2, <3>1 DEF Read, Called, Kinds
  <2>3. CASE Write(o)
    <3>. DEFINE z == conn.made + conn.queued + RecordSize
    <3>1. z \in Nat /\ z <= conn'.made + conn'.queued /\ 0 <= conn'.made + conn'.queued
      <4>. DEFINE p == conn.made
                  q == conn.queued
      <4>1. /\ conn'.made = p /\ conn'.queued = q + RecordSize
            /\ p \in Nat /\ q \in Nat /\ RecordSize \in Nat
        BY <1>0, <1>2, <2>3
      <4>. HIDE DEF p, q
      <4>2. /\ p + q + RecordSize \in Nat /\ p + q + RecordSize <= p + (q + RecordSize)
            /\ 0 <= p + (q + RecordSize)
        BY <4>1
      <4>. QED  BY <4>1, <4>2 DEF p, q
    <3>2. CASE Called("write", o, z)  BY <3>1, <3>2 DEF Called, Kinds
    <3>3. CASE ops' = [ops EXCEPT ![o] = [kind |-> "write", state |-> "error", mark |-> 0]]
      BY <3>1, <3>3 DEF Kinds
    <3>. QED  BY <2>3, <3>2, <3>3 DEF Write
  <2>. QED  BY <2>1, <2>2, <2>3
<1>7. PICK k \in Kinds, state \in {"pending", "error"}, bytes \in Nat :
         /\ ops' = [ops EXCEPT ![o] = [kind |-> k, state |-> state, mark |-> bytes]]
         /\ bytes <= conn'.made + conn'.queued
         /\ k = "read" => bytes = 0
  BY <1>6
<1>8. /\ ops'[o] = [kind |-> k, state |-> state, mark |-> bytes]
      /\ \A p \in Ops \ {o} : ops'[p] = ops[p]
  BY <1>0, <1>7
<1>9. Marks'
  <2>1. conn.made + conn.queued <= conn'.made + conn'.queued
    <3>. DEFINE p == conn.made
                q == conn.queued
    <3>1. /\ conn'.made = p /\ conn'.queued \in {q, q + RecordSize}
          /\ p \in Nat /\ q \in Nat /\ RecordSize \in Nat
      BY <1>0, <1>2
    <3>. HIDE DEF p, q
    <3>2. p + q <= p + q /\ p + q <= p + (q + RecordSize)  BY <3>1
    <3>. QED  BY <3>1, <3>2 DEF p, q
  <2>2. \A p \in Ops : ops'[p].mark <= conn'.made + conn'.queued
                       /\ (ops'[p].kind = "read" => ops'[p].mark = 0)
    <3>. TAKE p \in Ops
    <3>1. CASE p = o  BY <1>7, <1>8, <3>1
    <3>2. CASE p # o
      <4>. DEFINE a == conn.made + conn.queued
                  b == conn'.made + conn'.queued
      <4>1. a \in Nat /\ b \in Nat /\ a <= b /\ ops[p].mark \in Nat
        BY <1>0, <1>2, <2>1 DEF OpType
      <4>2. ops[p].mark <= a /\ (ops[p].kind = "read" => ops[p].mark = 0)  BY DEF Marks
      <4>. HIDE DEF a, b
      <4>3. ops[p].mark <= b  BY <4>1, <4>2
      <4>. QED  BY <1>8, <3>2, <4>2, <4>3 DEF b
    <3>. QED  BY <3>1, <3>2
  <2>3. conn'.made + conn'.queued >= RecordSize
    <3>. DEFINE a == conn.made + conn.queued
                b == conn'.made + conn'.queued
    <3>1. a \in Nat /\ b \in Nat /\ a <= b /\ a >= RecordSize
      BY <1>0, <1>2, <2>1 DEF Marks
    <3>. HIDE DEF a, b
    <3>2. b >= RecordSize  BY <1>0, <3>1
    <3>. QED  BY <3>2 DEF b
  <2>. QED  BY <2>2, <2>3 DEF Marks
<1>10. OkMeansSent'
  <2>1. wire' = wire  BY <1>3
  <2>2. ASSUME NEW p \in Ops, ops'[p].state = "ok" PROVE Len(wire) >= ops'[p].mark
    <3>1. p # o  BY <1>8, <2>2
    <3>. QED  BY <1>8, <2>2, <3>1 DEF BytesIntact, OkMeansSent
  <2>. QED  BY <2>1, <2>2 DEF OkMeansSent
<1>11. NoDesync'  BY <1>2, <1>3 DEF BytesIntact, NoDesync
<1>. QED  BY <1>5, <1>9, <1>10, <1>11 DEF BytesIntact

LEMMA FlushOut ==
    ASSUME TypeOK, Control, Quiet, OutStream, Marks, BytesIntact, FlushPending
    PROVE  OutStream' /\ Marks' /\ BytesIntact'
<1>0. /\ conn \in ConnType /\ ops \in [Ops -> OpType] /\ conn.queued \in Nat
      /\ conn.made \in Nat /\ wire \in Bytes /\ Len(wire) \in Nat
  BY TypesFolded DEF ConnType, Bytes
<1>1. /\ run.at = "flush" /\ Busy /\ run.done \in Continuation /\ Live(run.done)
      /\ UNCHANGED <<wire, writing, open, peer, inbound>> /\ Advance(run.done)
  BY RunForms, FlushAdvances
  DEF FlushPending, Busy, Control, Owned, transportVars, peerVars
<1>2. /\ Failed => Failed'
      /\ \A kinds : Pending(kinds)' \subseteq Pending(kinds)
      /\ \A o \in Ops : ops'[o].kind = ops[o].kind /\ ops'[o].mark = ops[o].mark
  BY <1>1, AfterAdvance
<1>3. GivenUp => GivenUp'  BY <1>1, <1>2 DEF GivenUp
<1>4. CASE conn.queued = 0
  <2>1. conn' = conn /\ Flushed(run.done)  BY <1>4 DEF FlushPending
  <2>2. run'.at # "send"  BY <2>1 DEF Flushed, Finish, Idle
  <2>3. Inflight' = Inflight  BY <1>1, <2>2 DEF Inflight
  <2>4. OutStream' /\ StreamIntact'
    BY <1>1, <1>3, <2>1, <2>3, NothingWritten DEF BytesIntact
  <2>5. Marks'  BY <1>2, <2>1 DEF Marks
  <2>6. ASSUME NEW o \in Ops, ops'[o].state = "ok", ops[o].state # "ok"
        PROVE  Len(wire) >= ops[o].mark
    <3>1. /\ o = run.done.op /\ run.done.for \in {"handshake", "write"}
          /\ ops[o].kind = run.done.for /\ ops[o].state = "pending"
      BY <2>6, FlushOk
    <3>2. writing = None  BY <1>1, <3>1 DEF Quiet
    <3>3. o \in Pending({"handshake", "write"})  BY <3>1 DEF Pending
    <3>4. open # "disconnected"  BY <1>1 DEF Control, Calls, Idle
    <3>5. Contiguous  BY <3>3, <3>4 DEF OutStream, GivenUp
    <3>6. Inflight = <<>>  BY <1>1, <3>2 DEF Inflight
    <3>7. conn.made = Len(wire)  BY <1>0, <3>5, <3>6 DEF Contiguous
    <3>8. ops[o].mark <= conn.made + conn.queued  BY DEF Marks
    <3>9. ops[o].mark \in Nat  BY <1>0 DEF OpType
    <3>. QED  BY <1>0, <1>4, <3>7, <3>8, <3>9
  <2>7. OkMeansSent'
    <3>1. ASSUME NEW o \in Ops, ops'[o].state = "ok" PROVE Len(wire) >= ops'[o].mark
      BY <1>2, <2>6, <3>1 DEF BytesIntact, OkMeansSent
    <3>. QED  BY <1>1, <3>1 DEF OkMeansSent
  <2>8. NoDesync'  BY <1>1, <2>1 DEF BytesIntact, NoDesync
  <2>. QED  BY <2>4, <2>5, <2>7, <2>8 DEF BytesIntact
<1>5. CASE conn.queued # 0
  <2>. DEFINE p == conn.made
              q == conn.queued
              b == [i \in 1 .. conn.queued |-> conn.made + i]
  <2>1. /\ run' = [at |-> "send", done |-> run.done, bytes |-> b]
        /\ conn' = [conn EXCEPT !.queued = 0, !.made = @ + conn.queued]
        /\ ops' = ops
    BY <1>5 DEF FlushPending
  <2>2. q \in Nat /\ p \in Nat /\ q > 0 /\ p + q \in Nat  BY <1>0, <1>5
  <2>3. conn'.queued = 0 /\ conn'.made = p + q /\ conn'.failed = conn.failed
    BY <1>0, <2>1, <2>2, ConnDrained
  <2>4. writing = None  BY <1>1, <2>2 DEF Quiet
  <2>5. Inflight = <<>> /\ Inflight' = b  BY <1>1, <2>1, <2>4 DEF Inflight
  <2>6. Len(b) = q /\ \A i \in 1 .. q : b[i] = p + i  BY <2>2, Chunk
  <2>. DEFINE l == Len(wire)
  <2>7. Contiguous => Contiguous'
    <3>. SUFFICES ASSUME Contiguous PROVE Contiguous'  OBVIOUS
    <3>1. p = l + Len(<<>>) /\ l \in Nat  BY <1>0, <2>5 DEF Contiguous
    <3>2. Len(wire') = l  BY <1>1
    <3>. HIDE DEF p, q, b, l
    <3>3. p = l  BY <3>1
    <3>4. \A i \in 1 .. q : b[i] = l + i  BY <2>6, <3>3
    <3>. QED  BY <2>3, <2>5, <2>6, <3>2, <3>3, <3>4 DEF Contiguous
  <2>8. OutStream'  BY <1>3, <2>7 DEF OutStream
  <2>9. StreamIntact'  BY <1>1 DEF BytesIntact, StreamIntact
  <2>10. conn'.made + conn'.queued >= conn.made + conn.queued
    <3>. HIDE DEF p, q
    <3>1. p + q + 0 >= p + q  BY <2>2
    <3>. QED  BY <2>3, <3>1 DEF p, q
  <2>11. Marks' /\ OkMeansSent'
    <3>1. /\ conn'.made \in Nat /\ conn'.queued \in Nat
          /\ Len(wire') \in Nat /\ Len(wire') >= Len(wire)
      BY <1>0, <1>1, <2>2, <2>3
    <3>. QED  BY <2>1, <2>10, <3>1, MarksKept DEF BytesIntact
  <2>12. NoDesync'  BY <1>1, <2>3 DEF BytesIntact, NoDesync
  <2>. QED  BY <2>8, <2>9, <2>11, <2>12 DEF BytesIntact
<1>. QED  BY <1>4, <1>5

LEMMA WriteOut ==
    ASSUME TypeOK, Control, Quiet, OutStream, Marks, BytesIntact, WriteAll \/ WriteCallback
    PROVE  OutStream' /\ Marks' /\ BytesIntact'
<1>0. /\ conn \in ConnType /\ conn.queued \in Nat /\ conn.made \in Nat
      /\ wire \in Bytes /\ Len(wire) \in Nat /\ writing \in Sending \cup {None}
      /\ None \notin Sending
  BY TypesFolded, TlsAssumption DEF ConnType, Bytes
<1>1. UNCHANGED <<conn, open, peer, inbound>>
  BY DEF WriteAll, WriteCallback, peerVars
<1>2. NoDesync'  BY <1>1 DEF BytesIntact, NoDesync
<1>3. ASSUME NEW w \in Sending, Transmit(w), Live(w.done), Inflight = w.bytes,
             writing' = None, open # "disconnected",
             w.done.for = "read" => ~duplex \/ open # "open" \/ Failed
      PROVE  OutStream' /\ Marks' /\ BytesIntact'
  <2>1. OutStream' /\ StreamIntact' /\ Len(wire') >= Len(wire)
    BY <1>1, <1>3, TransmitOut DEF BytesIntact
  <2>2. wire' \in Bytes /\ Len(wire') \in Nat  BY <1>3, TransmitTypes DEF Bytes
  <2>3. w.done \in Continuation /\ (Goes(w.done) \/ Ends(w.done) \/ Returns(w.done, "error"))
    BY <1>3, TransmitAdvances DEF Sending
  <2>4. \A o \in Ops : /\ ops'[o].kind = ops[o].kind /\ ops'[o].mark = ops[o].mark
                       /\ ops'[o].state = "ok" => ops[o].state = "ok"
    BY <1>3, <2>3, NoneSucceeds, AfterAdvance
  <2>5. /\ conn'.made \in Nat /\ conn'.queued \in Nat
        /\ conn'.made + conn'.queued >= conn.made + conn.queued
    <3>1. \A p, q \in Nat : p + q >= p + q  OBVIOUS
    <3>. QED  BY <1>0, <1>1, <3>1
  <2>6. Marks' /\ OkMeansSent'  BY <2>1, <2>2, <2>4, <2>5, MarksKept DEF BytesIntact
  <2>. QED  BY <1>2, <2>1, <2>6 DEF BytesIntact
<1>4. CASE WriteAll
  <2>1. run \in Sending /\ run.at = "send" /\ Busy /\ writing = None
    BY <1>4, RunForms DEF WriteAll, Busy, Quiet
  <2>2. Live(run.done) /\ open # "disconnected"
    BY <2>1 DEF Control, Owned, Calls, Idle
  <2>3. Inflight = run.bytes  BY <2>1 DEF Inflight
  <2>4. CASE Transmit(run) /\ UNCHANGED writing
    BY <1>3, <2>1, <2>2, <2>3, <2>4 DEF Quiet
  <2>5. CASE writing' = run /\ run' = Idle /\ UNCHANGED <<ops, wire>>
    <3>1. Inflight' = Inflight  BY <1>0, <2>1, <2>3, <2>5 DEF Inflight, Idle
    <3>2. GivenUp => GivenUp'  BY <1>1, <2>5 DEF GivenUp, Failed, Pending
    <3>3. OutStream' /\ StreamIntact'
      BY <1>1, <2>5, <3>1, <3>2, NothingWritten DEF BytesIntact
    <3>4. Marks' /\ OkMeansSent'  BY <1>1, <2>5 DEF Marks, OkMeansSent, BytesIntact
    <3>. QED  BY <1>2, <3>3, <3>4 DEF BytesIntact
  <2>. QED  BY <1>4, <2>4, <2>5 DEF WriteAll
<1>5. CASE WriteCallback
  <2>1. /\ run = Idle /\ run.at = "idle" /\ writing # None /\ writing \in Sending
        /\ writing' = None /\ Transmit(writing)
    BY <1>0, <1>5 DEF WriteCallback, Idle
  <2>2. Inflight = writing.bytes  BY <2>1 DEF Inflight
  <2>3. Live(writing.done) /\ open # "disconnected"  BY <2>1 DEF Control, Owned, Calls
  <2>. QED  BY <1>3, <2>1, <2>2, <2>3 DEF Quiet
<1>. QED  BY <1>4, <1>5

\* A pump that only reads, for the callback k.
LEMMA ReadOut ==
    ASSUME TypeOK, Control, OutStream, Marks, BytesIntact,
           NEW k \in Continuation, Live(k), Advance(k),
           run.at # "send", run'.at # "send",
           UNCHANGED <<wire, writing, open, peer, inbound>>,
           conn'.made = conn.made, conn'.queued \in Nat, conn'.queued >= conn.queued,
           k.for = "read" \/ ~Returns(k, "ok"),
           conn'.failed => conn.failed \/ \E i \in DOMAIN inbound : inbound[i] = "forged"
    PROVE  OutStream' /\ Marks' /\ BytesIntact'
<1>0. /\ conn.queued \in Nat /\ conn.made \in Nat /\ Len(wire) \in Nat
      /\ ops \in [Ops -> OpType]
  BY TypesFolded DEF ConnType, Bytes
<1>1. /\ Failed => Failed'
      /\ \A kinds : Pending(kinds)' \subseteq Pending(kinds)
      /\ \A o \in Ops : /\ ops'[o].kind = ops[o].kind /\ ops'[o].mark = ops[o].mark
                        /\ ops'[o].state = "ok" =>
                              ops[o].state = "ok" \/ (o = k.op /\ Returns(k, "ok"))
  BY AfterAdvance
<1>2. GivenUp => GivenUp'  BY <1>1 DEF GivenUp
<1>3. Inflight' = Inflight  BY DEF Inflight
<1>4. OutStream' /\ StreamIntact'  BY <1>2, <1>3, NothingWritten DEF BytesIntact
<1>5. Marks'
  <2>. DEFINE a == conn.made + conn.queued
              b == conn'.made + conn'.queued
  <2>1. a \in Nat /\ b \in Nat /\ a <= b
    <3>. DEFINE p == conn.made
                q == conn.queued
                r == conn'.queued
    <3>1. conn'.made = p /\ p \in Nat /\ q \in Nat /\ r \in Nat /\ r >= q  BY <1>0
    <3>. HIDE DEF p, q, r
    <3>2. p + q \in Nat /\ p + r \in Nat /\ p + q <= p + r  BY <3>1
    <3>. QED  BY <3>1, <3>2 DEF p, q, r
  <2>2. /\ a >= RecordSize /\ RecordSize \in Nat
        /\ \A o \in Ops : /\ ops[o].mark <= a /\ ops[o].mark \in Nat
                          /\ ops[o].kind = "read" => ops[o].mark = 0
    BY <1>0, Sizes DEF Marks, OpType
  <2>. HIDE DEF a, b
  <2>3. /\ b >= RecordSize
        /\ \A o \in Ops : /\ ops'[o].mark <= b
                          /\ ops'[o].kind = "read" => ops'[o].mark = 0
    BY <1>1, <2>1, <2>2
  <2>. QED  BY <2>3 DEF Marks, b
<1>6. OkMeansSent'
  <2>1. ASSUME NEW o \in Ops, ops'[o].state = "ok" PROVE Len(wire) >= ops'[o].mark
    <3>1. CASE ops[o].state = "ok"  BY <1>1, <3>1 DEF BytesIntact, OkMeansSent
    <3>2. CASE o = k.op /\ Returns(k, "ok")
      <4>1. ops[o].kind = "read"  BY <3>2, ContinuationForms DEF Live
      <4>2. ops'[o].mark = 0  BY <1>1, <4>1 DEF Marks
      <4>. QED  BY <1>0, <4>2
    <3>. QED  BY <1>1, <2>1, <3>1, <3>2
  <2>. QED  BY <2>1 DEF OkMeansSent
<1>7. NoDesync'  BY DEF BytesIntact, NoDesync
<1>. QED  BY <1>4, <1>5, <1>6, <1>7 DEF BytesIntact

LEMMA OutStep ==
    ASSUME TypeOK, Control, Quiet, InStream, OutStream, Marks, BytesIntact, Next
    PROVE  OutStream' /\ Marks' /\ BytesIntact'
<1>0. /\ conn \in ConnType /\ ops \in [Ops -> OpType]
      /\ conn.queued \in Nat /\ conn.made \in Nat /\ RecordSize \in Nat /\ Len(wire) \in Nat
  BY TypesFolded, Sizes DEF ConnType, Bytes
<1>a. conn.queued >= conn.queued /\ conn.queued + RecordSize \in Nat  BY <1>0
<1>1. CASE \E o \in Ops : Handshake(o) \/ Read(o) \/ Write(o)  BY <1>1, StartOut
<1>2. CASE FlushPending  BY <1>2, FlushOut
<1>3. CASE WriteAll \/ WriteCallback  BY <1>3, WriteOut
<1>4. CASE FeedOne
  <2>1. /\ run.at = "feed" /\ run.done \in Continuation /\ Live(run.done)
        /\ run.done.for \in Readers
        /\ UNCHANGED <<conn, wire, writing, open, peer, inbound>>
    BY <1>4, RunForms DEF FeedOne, Busy, Control, Owned, Shape, peerVars
  <2>2. CASE Deliver(run.done)
    <3>1. /\ Goes(run.done) \/ Ends(run.done) \/ Returns(run.done, "error")
          /\ run'.at # "send"
      BY <2>1, <2>2, DeliverAdvances
    <3>2. Advance(run.done)  BY <3>1 DEF Advance
    <3>3. ~Returns(run.done, "ok")
      BY <1>0, <2>1, <3>1, AfterReturn DEF Goes, Ends, Returns, Finish, Idle, Busy
    <3>. QED  BY <1>0, <1>a, <2>1, <3>1, <3>2, <3>3, ReadOut
  <2>3. CASE run' = Idle /\ UNCHANGED <<taken, ops>>
    <3>1. Inflight' = Inflight  BY <2>1, <2>3 DEF Inflight, Idle
    <3>2. GivenUp => GivenUp'  BY <2>1, <2>3 DEF GivenUp, Failed, Pending
    <3>3. OutStream' /\ StreamIntact'
      BY <2>1, <3>1, <3>2, NothingWritten DEF BytesIntact
    <3>4. Marks' /\ OkMeansSent' /\ NoDesync'
      BY <2>1, <2>3 DEF Marks, OkMeansSent, NoDesync, BytesIntact
    <3>. QED  BY <3>3, <3>4 DEF BytesIntact
  <2>. QED  BY <1>4, <2>2, <2>3 DEF FeedOne
<1>5. CASE ReadCallback
  <2>1. /\ run.at # "send" /\ reading \in Continuation /\ Live(reading)
        /\ reading.for \in Readers /\ Deliver(reading)
        /\ UNCHANGED <<conn, wire, writing, open, peer, inbound>>
    BY <1>5, TypesFolded DEF ReadCallback, Control, Owned, Shape, peerVars, Idle
  <2>2. /\ Goes(reading) \/ Ends(reading) \/ Returns(reading, "error")
        /\ run'.at # "send"
    BY <2>1, DeliverAdvances
  <2>3. Advance(reading)  BY <2>2 DEF Advance
  <2>4. ~Returns(reading, "ok")
    BY <1>0, <2>1, <2>2, AfterReturn DEF Goes, Ends, Returns, Finish, Idle, Busy
  <2>. QED  BY <1>0, <1>a, <2>1, <2>2, <2>3, <2>4, ReadOut
<1>6. CASE Process
  <2>1. /\ run.at = "process" /\ run.done \in Continuation /\ Live(run.done)
        /\ UNCHANGED <<wire, writing, open, peer, inbound>>
    BY <1>6, RunForms, ProcessForms DEF Busy, Control, Owned, transportVars, peerVars
  <2>2. /\ Goes(run.done) \/ Ends(run.done) \/ Returns(run.done, "error")
        /\ run'.at # "send"
    BY <1>6, ProcessAdvances DEF Control
  <2>3. Advance(run.done)  BY <2>2 DEF Advance
  <2>4. ~Returns(run.done, "ok")
    BY <1>0, <2>1, <2>2, AfterReturn DEF Goes, Ends, Returns, Finish, Idle, Busy
  <2>5. conn'.queued \in Nat
    <3>1. TypeOK'  BY <1>6, ProcessTypes
    <3>. QED  BY <3>1 DEF TypeOK
  <2>. QED  BY <1>6, <2>1, <2>2, <2>3, <2>4, <2>5, ProcessIn, ReadOut
<1>7. CASE ReadPlain
  <2>1. /\ run.at = "read" /\ run.done \in Continuation /\ Live(run.done)
        /\ UNCHANGED <<wire, writing, open, peer, inbound>>
    BY <1>7, RunForms DEF ReadPlain, Busy, Control, Owned, transportVars, peerVars
  <2>2. /\ run.done.for = "read"
        /\ Returns(run.done, "ok") \/ (Goes(run.done) /\ run'.at = "feed")
    BY <1>7, PlainAdvances DEF Control
  <2>3. Advance(run.done) /\ run'.at # "send"
    BY <2>2 DEF Advance, Returns, Finish, Idle
  <2>4. /\ conn'.queued = conn.queued /\ conn'.made = conn.made
        /\ conn'.failed = conn.failed
    BY <1>7, PlainForms
  <2>. QED  BY <1>0, <1>a, <2>1, <2>2, <2>3, <2>4, ReadOut
<1>8. CASE Disconnect
  <2>1. /\ run.at = "idle" /\ run'.at = "flush" /\ ops' = ops
        /\ UNCHANGED <<wire, writing, peer, inbound>>
        /\ open = "open" /\ open' = "closing"
    BY <1>8 DEF Disconnect, Idle, transportVars, peerVars
  <2>2. conn' = [conn EXCEPT !.queued = conn.queued + RecordSize]
    BY <1>8 DEF Disconnect
  <2>3. /\ conn'.queued = conn.queued + RecordSize /\ conn'.made = conn.made
        /\ conn'.failed = conn.failed
    BY <1>0, <1>a, <2>2, ConnQueued
  <2>4. Inflight' = Inflight  BY <2>1 DEF Inflight
  <2>5. GivenUp => GivenUp'  BY <2>1 DEF GivenUp, Failed, Pending
  <2>6. OutStream' /\ StreamIntact'
    BY <2>1, <2>3, <2>4, <2>5, NothingWritten DEF BytesIntact
  <2>7. conn'.made \in Nat /\ conn'.queued \in Nat
        /\ conn'.made + conn'.queued >= conn.made + conn.queued
    <3>. DEFINE p == conn.made
                q == conn.queued
    <3>1. conn'.made = p /\ conn'.queued = q + RecordSize /\ p \in Nat /\ q \in Nat
      BY <1>0, <2>3
    <3>. HIDE DEF p, q
    <3>2. q + RecordSize \in Nat /\ p + (q + RecordSize) >= p + q  BY <1>0, <3>1
    <3>. QED  BY <3>1, <3>2 DEF p, q
  <2>8. Len(wire') \in Nat /\ Len(wire') >= Len(wire)  BY <1>0, <2>1
  <2>9. Marks' /\ OkMeansSent'  BY <2>1, <2>7, <2>8, MarksKept DEF BytesIntact
  <2>10. NoDesync'  BY <2>1, <2>3 DEF NoDesync, BytesIntact
  <2>. QED  BY <2>6, <2>9, <2>10 DEF BytesIntact
<1>9. CASE HangUp
  <2>1. conn' = conn /\ wire' = wire /\ inbound' = inbound /\ open' = "disconnected"
    BY <1>9 DEF HangUp, peerVars
  <2>2. \A o \in Ops : /\ ops'[o].kind = ops[o].kind /\ ops'[o].mark = ops[o].mark
                       /\ ops'[o].state = "ok" => ops[o].state = "ok"
    BY <1>0, <1>9 DEF HangUp, OpType
  <2>3. OutStream' /\ StreamIntact'
    BY <2>1 DEF OutStream, GivenUp, StreamIntact, BytesIntact
  <2>4. Marks'  BY <2>1, <2>2 DEF Marks
  <2>5. OkMeansSent' /\ NoDesync'  BY <2>1, <2>2 DEF OkMeansSent, NoDesync, BytesIntact
  <2>. QED  BY <2>3, <2>4, <2>5 DEF BytesIntact
<1>10. CASE PeerStops \/ \E kind \in {"flight", "data", "ask", "notify", "forged"} : PeerSends(kind)
  <2>1. /\ UNCHANGED <<conn, run, writing, wire, open, ops>> /\ peer = "sends"
        /\ \A i \in DOMAIN inbound : i \in DOMAIN inbound' /\ inbound'[i] = inbound[i]
    BY <1>10, PeerForms
  <2>2. Inflight' = Inflight  BY <2>1 DEF Inflight
  <2>3. GivenUp => GivenUp'  BY <2>1 DEF GivenUp
  <2>4. OutStream' /\ StreamIntact'
    BY <2>1, <2>2, <2>3, NothingWritten DEF BytesIntact
  <2>5. Marks' /\ OkMeansSent'  BY <2>1 DEF Marks, OkMeansSent, BytesIntact
  <2>6. NoDesync'  BY <2>1 DEF NoDesync, BytesIntact
  <2>. QED  BY <2>4, <2>5, <2>6 DEF BytesIntact
<1>. QED  BY <1>1, <1>2, <1>3, <1>4, <1>5, <1>6, <1>7, <1>8, <1>9, <1>10 DEF Next, Pump
-----------------------------------------------------------------------------
(* The theorems *)

LEMMA InvInit ==
    ASSUME Init
    PROVE  IInv
<1>0. TypeOK  BY TypeInit
<1>1. /\ run.at = "idle" /\ run = Idle /\ reading = None /\ writing = None
      /\ open = "open" /\ wire = <<>> /\ inbound = <<>> /\ taken = 0
      /\ \A o \in Ops : ops[o] = [kind |-> "none", state |-> "unused", mark |-> 0]
      /\ conn = New
  BY DEF Init, Idle
<1>2. \A kinds : Pending(kinds) = {}  BY <1>1 DEF Pending
<1>3. /\ conn.queued = RecordSize /\ conn.made = 0 /\ conn.buffer = <<>>
      /\ conn.records = 0 /\ conn.failed = FALSE
  BY <1>1 DEF New
<1>4. Shape /\ Owned /\ Held  BY <1>1, <1>2 DEF Shape, Owned, Held, Busy
<1>5. Calls /\ Established
  <2>1. \A o \in Ops : ops[o].kind = "none" /\ ops[o].state = "unused"  BY <1>1
  <2>. QED  BY <1>1, <1>2, <2>1 DEF Calls, Established
<1>6. Quiet
  <2>1. DOMAIN inbound = {}  BY <1>1
  <2>2. \A o \in Ops : ops[o].state = "unused"  BY <1>1
  <2>. QED  BY <1>1, <2>1, <2>2 DEF Quiet
<1>7. InStream
  <2>1. Len(inbound) = 0 /\ 0 * RecordSize = 0  BY <1>1, Sizes
  <2>2. Slice = <<>>  BY <1>1 DEF Slice
  <2>. QED  BY <1>1, <1>3, <2>1, <2>2 DEF InStream, Follows
<1>8. OutStream
  <2>1. Inflight = <<>>  BY <1>1 DEF Inflight
  <2>. QED  BY <1>1, <1>3, <2>1 DEF OutStream, Contiguous
<1>9. Marks  BY <1>1, <1>3, Sizes DEF Marks
<1>10. BytesIntact
  BY <1>1, <1>3 DEF BytesIntact, StreamIntact, NoDesync, OkMeansSent
<1>. QED  BY <1>0, <1>4, <1>5, <1>6, <1>7, <1>8, <1>9, <1>10 DEF IInv, Control

\* Every step keeps the callbacks and what they may do.
LEMMA QuietStep ==
    ASSUME TypeOK, Control, Quiet, Established, InStream, Overlap = FALSE, Next
    PROVE  Control' /\ Quiet'
<1>1. CASE \E o \in Ops : Handshake(o) \/ Read(o) \/ Write(o)  BY <1>1, CallQuiet
<1>2. CASE Disconnect \/ HangUp  BY <1>2, DisconnectQuiet
<1>3. CASE FlushPending  BY <1>3, FlushQuiet
<1>4. CASE WriteAll \/ WriteCallback  BY <1>4, WriteQuiet
<1>5. CASE FeedOne \/ ReadCallback  BY <1>5, ReadQuiet
<1>6. CASE Process  BY <1>6, ProcessQuiet
<1>7. CASE ReadPlain  BY <1>7, PlainQuiet
<1>8. CASE PeerStops \/ \E kind \in {"flight", "data", "ask", "notify", "forged"} : PeerSends(kind)
  BY <1>8, PeerQuiet
<1>. QED  BY <1>1, <1>2, <1>3, <1>4, <1>5, <1>6, <1>7, <1>8 DEF Next, Pump

LEMMA InvStep ==
    ASSUME IInv, [Next]_vars, Overlap = FALSE
    PROVE  IInv'
<1>1. CASE Next
  <2>1. TypeOK'  BY <1>1, TypeStep DEF IInv
  <2>2. Control' /\ Quiet'  BY <1>1, QuietStep DEF IInv
  <2>3. InStream' /\ Established'  BY <1>1, InStep DEF IInv
  <2>4. OutStream' /\ Marks' /\ BytesIntact'  BY <1>1, OutStep DEF IInv
  <2>. QED  BY <2>1, <2>2, <2>3, <2>4 DEF IInv
<1>2. CASE UNCHANGED vars
  <2>0. TypeOK'  BY TypeStep DEF IInv
  <2>1. UNCHANGED <<conn, run, reading, writing, wire, taken, open, ops, inbound, peer, duplex>>
    BY <1>2 DEF vars, transportVars, peerVars
  <2>2. /\ \A kinds : Pending(kinds)' = Pending(kinds)
        /\ Failed' <=> Failed
        /\ Busy' <=> Busy
        /\ \A l : Live(l)' <=> Live(l)
        /\ Slice' = Slice /\ Inflight' = Inflight
    BY <2>1 DEF Pending, Failed, Busy, Live, Slice, Inflight
  <2>3. Shape' /\ Held'  BY <2>1, <2>2 DEF IInv, Control, Shape, Held
  <2>4. Owned'  BY <2>1, <2>2 DEF IInv, Control, Owned
  <2>5. Calls' /\ Established'  BY <2>1, <2>2 DEF IInv, Control, Calls, Established
  <2>6. Quiet'  BY <2>1, <2>2 DEF IInv, Quiet
  <2>7. InStream'  BY <2>1, <2>2 DEF IInv, InStream, NoMoreReads, Follows
  <2>8. OutStream'  BY <2>1, <2>2 DEF IInv, OutStream, Contiguous, GivenUp
  <2>9. Marks'  BY <2>1 DEF IInv, Marks
  <2>10. BytesIntact'
    BY <2>1 DEF IInv, BytesIntact, StreamIntact, NoDesync, OkMeansSent
  <2>. QED  BY <2>0, <2>3, <2>4, <2>5, <2>6, <2>7, <2>8, <2>9, <2>10 DEF IInv, Control
<1>. QED  BY <1>1, <1>2

\* What the transport has accepted is what rustls has made, in order and without a gap
\* or a repetition; rustls gets every byte that the transport delivers; a call that
\* succeeded has nothing left to send.
THEOREM BytesIntactHolds ==
    ASSUME Overlap = FALSE
    PROVE  Spec => []BytesIntact
<1>1. Init => IInv  BY InvInit
<1>2. IInv /\ [Next]_vars => IInv'  BY InvStep
<1>3. IInv => BytesIntact  BY DEF IInv
<1>. QED  BY <1>1, <1>2, <1>3, PTL DEF Spec

\* A callback that has not been called is in one place: with the function that goes on
\* with it, with the read or with the write that the transport has.
THEOREM CallbackHeldHolds ==
    ASSUME Overlap = FALSE
    PROVE  Spec => []CallbackHeld
<1>1. Init => IInv  BY InvInit
<1>2. IInv /\ [Next]_vars => IInv'  BY InvStep
<1>3. IInv => CallbackHeld
  <2>. SUFFICES ASSUME IInv, NEW o \in Pending(Kinds), run # [at |-> "hangup"]
                PROVE  \/ /\ run # Idle /\ run.at # "hangup" /\ run.done.op = o
                          /\ ~(reading # None /\ reading.op = o)
                          /\ ~(writing # None /\ writing.done.op = o)
                       \/ /\ ~(run # Idle /\ run.at # "hangup" /\ run.done.op = o)
                          /\ (reading # None /\ reading.op = o)
                          /\ ~(writing # None /\ writing.done.op = o)
                       \/ /\ ~(run # Idle /\ run.at # "hangup" /\ run.done.op = o)
                          /\ ~(reading # None /\ reading.op = o)
                          /\ (writing # None /\ writing.done.op = o)
    BY DEF CallbackHeld
  <2>1. (run # Idle /\ run.at # "hangup") <=> Busy
    BY RunForms DEF IInv, Busy
  <2>2. run.at # "hangup"  BY RunForms DEF IInv
  <2>3. \/ Busy /\ run.done.op = o
        \/ reading # None /\ reading.op = o
        \/ writing # None /\ writing.done.op = o
    BY <2>2 DEF IInv, Control, Held
  <2>4. /\ Busy => run.done \in Continuation /\ Live(run.done)
        /\ reading # None => reading \in Continuation /\ Live(reading)
        /\ writing # None => writing.done \in Continuation /\ Live(writing.done)
    BY RunForms, TypesFolded DEF IInv, Control, Owned, Sending
  <2>5. /\ Busy /\ reading # None => run.done # reading
        /\ Busy /\ writing # None => run.done # writing.done
        /\ reading # None /\ writing # None => reading # writing.done
    BY DEF IInv, Control, Owned
  <2>6. ~(Busy /\ reading # None /\ run.done.op = reading.op)  BY <2>4, <2>5, SameCall
  <2>7. ~(Busy /\ writing # None /\ run.done.op = writing.done.op)  BY <2>4, <2>5, SameCall
  <2>8. ~(reading # None /\ writing # None /\ reading.op = writing.done.op)
    BY <2>4, <2>5, SameCall
  <2>. QED  BY <2>1, <2>3, <2>6, <2>7, <2>8
<1>. QED  BY <1>1, <1>2, <1>3, PTL DEF Spec
=============================================================================
