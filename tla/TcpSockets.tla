----------------------------- MODULE TcpSockets -----------------------------
(***************************************************************************)
(* TcpSocket, TcpClientSocket and TcpServerSocket over SocketPosix: each   *)
(* owns one SocketPosix, forwards most calls to it, and makes one call of  *)
(* several system calls when it connects or listens. Socket options change *)
(* nothing that the properties tell apart and are left out.                *)
(***************************************************************************)
EXTENDS SocketPosix, SocketAddress

\* The wrappers are made with a SocketPosix that has no descriptor yet. User code
\* connects or listens once, unless it closed the socket in between.
Unopened(s) == InUserCode /\ fd[s] = NoFd /\ life[s] # "dropped"

\* A slip to detect: the call that fails also forgets the descriptor.
TcpListenForgetting(s) ==
    /\ Unopened(s)
    /\ \/ \E f \in Fds : Opened(s, f, "listening", {})
       \/ /\ \E f \in Fds : role[f] = "closed" /\ role' = [role EXCEPT ![f] = "fresh"]
          /\ UNCHANGED <<life, fd, readiness>>
    /\ UNCHANGED <<table, slot, notify, status, loopVars>>

\* TcpServerSocket::listen: the error of a later step leaves the descriptor open,
\* and it belongs to the socket.
TcpListen(s) ==
    /\ Unopened(s)
    /\ \E f \in Fds, r \in {"fresh", "listening"} : Opened(s, f, r, {})
    /\ UNCHANGED <<table, slot, notify, status, loopVars>>

\* TcpClientSocket::connect: open, options as far as they can be set, connect.
TcpConnect(s, o) ==
    /\ Unopened(s) /\ NextOp(o)
    /\ \E f \in Fds :
          /\ role[f] = "closed"
          /\ Eager \/ \A ev \in batch : ev.fd # f
          /\ fd' = [fd EXCEPT ![s] = f]
          /\ Connecting(s, f, o)
    /\ life' = [life EXCEPT ![s] = "live"]
    /\ UNCHANGED loopVars

\* What a TcpClientSocket forwards once it is connected.
Streamed(s, o) == Read(s, o) \/ ReadIfReady(s, o) \/ Write(s, o)

\* What a TcpSocket forwards, under the same name.
Forwarded(s) ==
    \/ Open(s) \/ Listen(s)
    \/ \E o \in Ops : Connect(s, o) \/ Accept(s, o) \/ Streamed(s, o)
    \/ \E x \in Slots : Cancel(s, x)

\* disconnect and close, and the drop of a wrapper.
Disconnect(s) == Close(s) \/ DropSocket(s)

TcpNext ==
    \/ \E s \in Sockets :
          \/ TcpListen(s) \/ Forwarded(s) \/ Disconnect(s)
          \/ \E o \in Ops : TcpConnect(s, o)
    \/ LoopStep
    \/ \E f \in Fds : ConnectionDone(f) \/ \E x \in Directions : BecomesReady(f, x)

TcpSpec == Init /\ [][TcpNext]_vars

\* The IO thread runs and user code returns to the loop.
TcpFairSpec == TcpSpec /\ WF_vars(LoopStep)

\* The descriptor of a socket is its own, and so are the watches of the descriptor,
\* also after a connect or listen that failed half way and when the kernel gives a
\* number out again that another socket has just closed.
DescriptorsOwned == WatchOwned /\ OneOwner
=============================================================================
