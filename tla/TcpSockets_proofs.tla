------------------------- MODULE TcpSockets_proofs -------------------------
(***************************************************************************)
(* Theorems about sockets over the IO thread: types, who owns descriptors  *)
(* and watches, and, if user code reads and writes one at a time and       *)
(* starts nothing behind an event that is still to be delivered, that no   *)
(* waiting callback is stranded.  They hold for any number of sockets,     *)
(* descriptors and calls.                                                  *)
(***************************************************************************)
EXTENDS TcpSockets, TLAPS

-----------------------------------------------------------------------------
(* The inductive invariant *)

Sides == {"read", "write"}
Mode(d) == IF d = "read" THEN "Read" ELSE "Write"

\* An entry is tied to a controller of its socket that can remove it.
Tied(w) ==
    \A f \in Fds : w.entry[f] # NoEntry =>
        \E d \in Sides : w.ctl[<<w.entry[f].watcher, d>>] =
                            [fd |-> f, generation |-> w.entry[f].generation]

\* What a controller may remove is an entry of its socket and its direction.
Known(w) ==
    \A s \in Sockets, d \in Sides : w.ctl[<<s, d>>] # Unbound =>
        /\ w.ctl[<<s, d>>].generation < w.next
        /\ LET e == w.entry[w.ctl[<<s, d>>].fd] IN
           e # NoEntry /\ e.generation = w.ctl[<<s, d>>].generation =>
                e.watcher = s /\ e.mode = Mode(d)

\* epoll reports no more than the entry asks for.
Told(w) ==
    \A f \in Fds : w.entry[f] # NoEntry => w.interest[f] \subseteq Events(w.entry[f].mode)

Sound(w) == w \in Table /\ Tied(w) /\ Known(w) /\ Told(w)

Closed == \A s \in Sockets : life[s] # "live" => fd[s] = NoFd

\* What waits at a socket, its watch, and what its descriptor is, fit together.
PendingAt(s) ==
    \A x \in Slots : slot[s][x] # NoOp =>
        /\ fd[s] \in Fds
        /\ table.entry[fd[s]] # NoEntry /\ table.entry[fd[s]].watcher = s
        /\ table.entry[fd[s]].mode = WatchFor(x)
        /\ table.interest[fd[s]] = Events(WatchFor(x))
RolesAt(s) ==
    /\ slot[s]["read"] # NoOp \/ slot[s]["write"] # NoOp => role[fd[s]] = "stream"
    /\ slot[s]["accept"] # NoOp => role[fd[s]] = "listening"
    /\ slot[s]["connect"] # NoOp =>
          role[fd[s]] \in {"connecting", "stream", "failed"} /\ slot[s]["write"] = NoOp
Fitting == \A s \in Sockets : PendingAt(s) /\ RolesAt(s)

\* An event that is still to be delivered is one that its entry waits for.
Undelivered ==
    \A ev \in batch : table.entry[ev.fd] # NoEntry =>
        ev.flags \cap Events(table.entry[ev.fd].mode) # {}

OwnInv == TypeOK /\ Sound(table) /\ WatchOwned /\ OneOwner /\ Closed
ArmInv == OwnInv /\ Fitting /\ Undelivered

-----------------------------------------------------------------------------
(* The watches *)

CtlType == [fd : Fds, generation : Nat]

LEMMA TableForms ==
    ASSUME NEW w \in Table
    PROVE  /\ w.entry \in [Fds -> Entry \cup {NoEntry}]
           /\ w.interest \in [Fds -> SUBSET Directions]
           /\ w.ctl \in [Sockets \X Sides -> CtlType \cup {Unbound}]
           /\ w.next \in Nat
           /\ w = [entry |-> w.entry, interest |-> w.interest, ctl |-> w.ctl, next |-> w.next]
BY DEF Table, Sides, CtlType

\* stop_watching_file_descriptor removes nothing but what the controller has armed.
LEMMA StopForms ==
    ASSUME NEW w, Sound(w), NEW s \in Sockets, NEW d \in Sides
    PROVE  LET v == Stop(w, <<s, d>>) IN
           /\ Sound(v) /\ v.next = w.next
           /\ v.ctl = [w.ctl EXCEPT ![<<s, d>>] = Unbound]
           /\ \A f \in Fds :
                 \/ v.entry[f] = w.entry[f] /\ v.interest[f] = w.interest[f]
                 \/ /\ v.entry[f] = NoEntry /\ v.interest[f] = {}
                    /\ w.entry[f] # NoEntry /\ w.entry[f].watcher = s
                    /\ w.entry[f].mode = Mode(d)
<1>. DEFINE c == <<s, d>>
            v == Stop(w, c)
<1>0. /\ w \in Table /\ c \in Sockets \X Sides
      /\ w.entry \in [Fds -> Entry \cup {NoEntry}]
      /\ w.interest \in [Fds -> SUBSET Directions]
      /\ w.ctl \in [Sockets \X Sides -> CtlType \cup {Unbound}]
  BY TableForms DEF Sound
<1>1. CASE w.ctl[c] = Unbound
  <2>1. v = w  BY <1>1 DEF Stop, IsWatching
  <2>2. w.ctl = [w.ctl EXCEPT ![c] = Unbound]  BY <1>0, <1>1
  <2>. QED  BY <2>1, <2>2
<1>2. CASE w.ctl[c] # Unbound
  <2>. DEFINE o == w.ctl[c]
              u == [w EXCEPT !.ctl[c] = Unbound]
              gone == w.entry[o.fd] # NoEntry /\ w.entry[o.fd].generation = o.generation
  <2>1. o \in CtlType /\ o.fd \in Fds  BY <1>0, <1>2 DEF CtlType
  <2>2. /\ u.entry = w.entry /\ u.interest = w.interest /\ u.next = w.next
        /\ u.ctl = [w.ctl EXCEPT ![c] = Unbound] /\ u \in Table
    BY <1>0, TableForms DEF Table, Sides
  <2>3. v = IF gone THEN Removed(u, o.fd) ELSE u
    BY <1>2, <2>2 DEF Stop, IsWatching, Unregister
  <2>4. gone => w.entry[o.fd].watcher = s /\ w.entry[o.fd].mode = Mode(d)
    BY <1>2 DEF Sound, Known
  <2>5. /\ Removed(u, o.fd).entry = [w.entry EXCEPT ![o.fd] = NoEntry]
        /\ Removed(u, o.fd).interest = [w.interest EXCEPT ![o.fd] = {}]
        /\ Removed(u, o.fd).ctl = u.ctl /\ Removed(u, o.fd).next = w.next
    BY <2>2 DEF Removed, Table
  <2>6. Known(u)  BY <1>0, <2>2 DEF Sound, Known
  <2>7. Told(u)  BY <2>2 DEF Sound, Told
  <2>8. v \in Table
    BY <2>1, <2>2, <2>3, TableForms DEF Table, Removed
  <2>9. Tied(v)
    <3>. SUFFICES ASSUME NEW f \in Fds, v.entry[f] # NoEntry
                  PROVE  \E e \in Sides : v.ctl[<<v.entry[f].watcher, e>>] =
                            [fd |-> f, generation |-> v.entry[f].generation]
      BY DEF Tied
    <3>0. v.entry[f] = w.entry[f] /\ w.entry[f] # NoEntry
      <4>1. CASE gone
        <5>1. v.entry = [w.entry EXCEPT ![o.fd] = NoEntry]  BY <2>3, <2>5, <4>1
        <5>. QED  BY <1>0, <2>1, <5>1
      <4>2. CASE ~gone  BY <2>2, <2>3, <4>2
      <4>. QED  BY <4>1, <4>2
    <3>1. v.entry[f] = w.entry[f] /\ w.entry[f] \in Entry /\ w.entry[f].watcher \in Sockets
      <4>1. w.entry[f] \in Entry  BY <1>0, <3>0
      <4>2. w.entry[f].watcher \in Sockets  BY <4>1 DEF Entry
      <4>. QED  BY <3>0, <4>1, <4>2
    <3>2. PICK e \in Sides : w.ctl[<<w.entry[f].watcher, e>>] =
                                [fd |-> f, generation |-> w.entry[f].generation]
      BY <3>1 DEF Sound, Tied
    <3>3. <<w.entry[f].watcher, e>> # c
      <4>. SUFFICES ASSUME <<w.entry[f].watcher, e>> = c PROVE FALSE  OBVIOUS
      <4>1. o = [fd |-> f, generation |-> w.entry[f].generation]  BY <3>2
      <4>2. gone  BY <3>1, <4>1
      <4>. QED  BY <1>0, <2>1, <2>3, <2>5, <4>1, <4>2
    <3>4. v.ctl = [w.ctl EXCEPT ![c] = Unbound]  BY <2>2, <2>3, <2>5
    <3>. QED  BY <1>0, <3>1, <3>2, <3>3, <3>4
  <2>10. Known(v) /\ Told(v)
    <3>1. CASE gone
      <4>1. v = Removed(u, o.fd)  BY <2>3, <3>1
      <4>2. /\ v.entry = [w.entry EXCEPT ![o.fd] = NoEntry]
            /\ v.interest = [w.interest EXCEPT ![o.fd] = {}]
            /\ v.ctl = [w.ctl EXCEPT ![c] = Unbound] /\ v.next = w.next
        BY <2>2, <2>5, <4>1
      <4>3. \A q \in Sockets, e \in Sides : v.ctl[<<q, e>>] # Unbound =>
               v.ctl[<<q, e>>] = w.ctl[<<q, e>>] /\ w.ctl[<<q, e>>].fd \in Fds
        BY <1>0, <4>2 DEF CtlType
      <4>4. \A f \in Fds : v.entry[f] # NoEntry =>
               v.entry[f] = w.entry[f] /\ v.interest[f] = w.interest[f]
        BY <1>0, <2>1, <4>2
      <4>5. Known(v)  BY <4>2, <4>3, <4>4 DEF Sound, Known
      <4>. QED  BY <4>4, <4>5 DEF Sound, Told
    <3>2. CASE ~gone  BY <2>3, <2>6, <2>7, <3>2
    <3>. QED  BY <3>1, <3>2
  <2>11. \A f \in Fds :
            \/ v.entry[f] = w.entry[f] /\ v.interest[f] = w.interest[f]
            \/ /\ v.entry[f] = NoEntry /\ v.interest[f] = {}
               /\ w.entry[f] # NoEntry /\ w.entry[f].watcher = s
               /\ w.entry[f].mode = Mode(d)
    <3>1. CASE gone
      <4>1. /\ v.entry = [w.entry EXCEPT ![o.fd] = NoEntry]
            /\ v.interest = [w.interest EXCEPT ![o.fd] = {}]
        BY <2>3, <2>5, <3>1
      <4>. QED  BY <1>0, <2>1, <2>4, <3>1, <4>1
    <3>2. CASE ~gone  BY <2>2, <2>3, <3>2
    <3>. QED  BY <3>1, <3>2
  <2>12. v.next = w.next /\ v.ctl = [w.ctl EXCEPT ![c] = Unbound]
    BY <2>2, <2>3, <2>5
  <2>. QED  BY <2>8, <2>9, <2>10, <2>11, <2>12 DEF Sound
<1>. QED  BY <1>1, <1>2

LEMMA StopBothForms ==
    ASSUME NEW w, Sound(w), NEW s \in Sockets
    PROVE  LET v == StopBoth(w, s) IN
           /\ Sound(v)
           /\ \A f \in Fds : \/ /\ v.entry[f] = w.entry[f] /\ v.interest[f] = w.interest[f]
                                /\ v.entry[f] # NoEntry => v.entry[f].watcher # s
                             \/ /\ v.entry[f] = NoEntry
                                /\ w.entry[f] # NoEntry /\ w.entry[f].watcher = s
<1>u. PICK u : u = Stop(w, <<s, "read">>)  OBVIOUS
<1>v. PICK v : v = Stop(u, <<s, "write">>)  OBVIOUS
<1>0. "read" \in Sides /\ "write" \in Sides  BY DEF Sides
<1>1. /\ Sound(u) /\ u.ctl = [w.ctl EXCEPT ![<<s, "read">>] = Unbound]
      /\ \A f \in Fds : \/ u.entry[f] = w.entry[f] /\ u.interest[f] = w.interest[f]
                        \/ /\ u.entry[f] = NoEntry
                           /\ w.entry[f] # NoEntry /\ w.entry[f].watcher = s
  BY <1>0, <1>u, StopForms
<1>s. Sound(u)  BY <1>1
<1>2. /\ Sound(v) /\ v.ctl = [u.ctl EXCEPT ![<<s, "write">>] = Unbound]
      /\ \A f \in Fds : \/ v.entry[f] = u.entry[f] /\ v.interest[f] = u.interest[f]
                        \/ /\ v.entry[f] = NoEntry
                           /\ u.entry[f] # NoEntry /\ u.entry[f].watcher = s
  BY <1>0, <1>s, <1>v, StopForms
<1>3. \A d \in Sides : v.ctl[<<s, d>>] = Unbound
  <2>1. w.ctl \in [Sockets \X Sides -> CtlType \cup {Unbound}]  BY TableForms DEF Sound
  <2>2. u.ctl \in [Sockets \X Sides -> CtlType \cup {Unbound}]
    BY <1>1, TableForms DEF Sound
  <2>. QED  BY <1>1, <1>2, <2>1, <2>2 DEF Sides
<1>4. Unbound \notin CtlType  BY SocketAssumption DEF CtlType
<1>5. \A f \in Fds : v.entry[f] # NoEntry => v.entry[f].watcher # s
  <2>. SUFFICES ASSUME NEW f \in Fds, v.entry[f] # NoEntry, v.entry[f].watcher = s
                PROVE  FALSE
    OBVIOUS
  <2>1. PICK d \in Sides : v.ctl[<<s, d>>] = [fd |-> f, generation |-> v.entry[f].generation]
    BY <1>2 DEF Sound, Tied
  <2>2. v.entry \in [Fds -> Entry \cup {NoEntry}]  BY <1>2, TableForms DEF Sound
  <2>3. v.entry[f].generation \in Nat  BY <2>2 DEF Entry
  <2>. QED  BY <1>3, <1>4, <2>1, <2>3 DEF CtlType
<1>6. \A f \in Fds : \/ v.entry[f] = w.entry[f] /\ v.interest[f] = w.interest[f]
                     \/ /\ v.entry[f] = NoEntry
                        /\ w.entry[f] # NoEntry /\ w.entry[f].watcher = s
  BY <1>1, <1>2
<1>7. StopBoth(w, s) = v  BY <1>u, <1>v DEF StopBoth
<1>. QED  BY <1>2, <1>5, <1>6, <1>7

\* The watch that arm_read or arm_write leaves.
Fresh(s, d) ==
    [watcher |-> s, mode |-> Mode(d), persistent |-> FALSE, generation |-> table.next]

LEMMA ArmedForms ==
    ASSUME Sound(table), NEW s \in Sockets, NEW f \in Fds, NEW d \in Sides
    PROVE  LET v == Armed(s, f, d) IN
           /\ Sound(v)
           /\ v.entry[f] = Fresh(s, d) /\ v.entry[f] # NoEntry
           /\ v.interest[f] = Events(Mode(d))
           /\ \A g \in Fds \ {f} :
                 \/ v.entry[g] = table.entry[g] /\ v.interest[g] = table.interest[g]
                 \/ /\ v.entry[g] = NoEntry
                    /\ table.entry[g] # NoEntry /\ table.entry[g].watcher = s
<1>. DEFINE c == <<s, d>>
            u == Stop(table, c)
            e == Fresh(s, d)
            v == Insert(Arm(Draw(u), f, Mode(d)), c, f, e)
<1>1. /\ Sound(u) /\ u.next = table.next
      /\ u.ctl = [table.ctl EXCEPT ![c] = Unbound]
      /\ \A g \in Fds : \/ u.entry[g] = table.entry[g] /\ u.interest[g] = table.interest[g]
                        \/ /\ u.entry[g] = NoEntry
                           /\ table.entry[g] # NoEntry /\ table.entry[g].watcher = s
  BY StopForms
<1>2. Armed(s, f, d) = v  BY DEF Armed, Fresh, Mode
<1>. HIDE DEF u
<1>3. /\ u \in Table /\ c \in Sockets \X Sides /\ table.next \in Nat
      /\ u.entry \in [Fds -> Entry \cup {NoEntry}]
      /\ u.interest \in [Fds -> SUBSET Directions]
      /\ u.ctl \in [Sockets \X Sides -> CtlType \cup {Unbound}]
      /\ table.ctl \in [Sockets \X Sides -> CtlType \cup {Unbound}]
  BY <1>1, TableForms DEF Sound
<1>4. /\ e \in Entry /\ e # NoEntry /\ e.watcher = s /\ e.mode = Mode(d)
      /\ e.generation = table.next
  <2>1. Mode(d) \in Modes  BY DEF Mode, Modes
  <2>2. e \in Entry  BY <1>3, <2>1 DEF Fresh, Entry
  <2>. QED  BY <2>2, SocketAssumption DEF Fresh
<1>5. [fd |-> f, generation |-> e.generation] \in CtlType  BY <1>3, <1>4 DEF CtlType
<1>6. Events(Mode(d)) \in SUBSET Directions  BY DEF Events, Mode, Directions, Sides
<1>. HIDE DEF e
<1>7. /\ v.entry = [u.entry EXCEPT ![f] = e]
      /\ v.interest = [u.interest EXCEPT ![f] = Events(Mode(d))]
      /\ v.ctl = [u.ctl EXCEPT ![c] = [fd |-> f, generation |-> e.generation]]
      /\ v.next = table.next + 1
  BY <1>1, <1>3 DEF Insert, Arm, Draw, Table
<1>8. v \in Table
  <2>1. v = [entry |-> v.entry, interest |-> v.interest, ctl |-> v.ctl, next |-> v.next]
    <3>. DEFINE a == Draw(u)
                b == Arm(a, f, Mode(d))
    <3>1. a = [entry |-> a.entry, interest |-> a.interest, ctl |-> a.ctl, next |-> a.next]
      BY <1>3 DEF Draw, Table
    <3>. HIDE DEF a
    <3>2. b = [entry |-> b.entry, interest |-> b.interest, ctl |-> b.ctl, next |-> b.next]
      BY <3>1 DEF Arm
    <3>. HIDE DEF b
    <3>3. v = Insert(b, c, f, e)  BY DEF a, b
    <3>. HIDE DEF v
    <3>. QED  BY <3>2, <3>3 DEF Insert
  <2>2. v.entry \in [Fds -> Entry \cup {NoEntry}]  BY <1>3, <1>4, <1>7
  <2>3. v.interest \in [Fds -> SUBSET Directions]  BY <1>3, <1>6, <1>7
  <2>4. v.ctl \in [Sockets \X Sides -> CtlType \cup {Unbound}]  BY <1>3, <1>5, <1>7
  <2>5. v.next \in Nat  BY <1>3, <1>7
  <2>. HIDE DEF v
  <2>. QED  BY <2>1, <2>2, <2>3, <2>4, <2>5 DEF Table, Sides, CtlType
<1>. HIDE DEF v
<1>9. /\ v.entry[f] = e /\ v.interest[f] = Events(Mode(d))
      /\ \A g \in Fds \ {f} : v.entry[g] = u.entry[g] /\ v.interest[g] = u.interest[g]
      /\ v.ctl[c] = [fd |-> f, generation |-> table.next]
      /\ \A x \in (Sockets \X Sides) \ {c} : v.ctl[x] = u.ctl[x] /\ u.ctl[x] = table.ctl[x]
  BY <1>1, <1>3, <1>4, <1>7
<1>10. Tied(v)
  <2>. SUFFICES ASSUME NEW g \in Fds, v.entry[g] # NoEntry
                PROVE  \E x \in Sides : v.ctl[<<v.entry[g].watcher, x>>] =
                          [fd |-> g, generation |-> v.entry[g].generation]
    BY DEF Tied
  <2>1. CASE g = f  BY <1>4, <1>9, <2>1
  <2>2. CASE g # f
    <3>1. v.entry[g] = u.entry[g] /\ u.entry[g] # NoEntry  BY <1>9, <2>2
    <3>2. u.entry[g].watcher \in Sockets /\ u.entry[g].generation \in Nat
      BY <1>3, <3>1 DEF Entry
    <3>3. PICK x \in Sides : u.ctl[<<u.entry[g].watcher, x>>] =
                                [fd |-> g, generation |-> u.entry[g].generation]
      BY <1>1, <3>1 DEF Sound, Tied
    <3>4. <<u.entry[g].watcher, x>> # c
      <4>1. u.ctl[c] = Unbound  BY <1>1, <1>3
      <4>2. [fd |-> g, generation |-> u.entry[g].generation] # Unbound
        BY <3>2, SocketAssumption
      <4>. QED  BY <3>3, <4>1, <4>2
    <3>. QED  BY <1>9, <3>1, <3>2, <3>3, <3>4
  <2>. QED  BY <2>1, <2>2
<1>11. Known(v)
  <2>. SUFFICES ASSUME NEW q \in Sockets, NEW x \in Sides, v.ctl[<<q, x>>] # Unbound
                PROVE  /\ v.ctl[<<q, x>>].generation < v.next
                       /\ v.entry[v.ctl[<<q, x>>].fd] # NoEntry
                             /\ v.entry[v.ctl[<<q, x>>].fd].generation = v.ctl[<<q, x>>].generation
                          => /\ v.entry[v.ctl[<<q, x>>].fd].watcher = q
                             /\ v.entry[v.ctl[<<q, x>>].fd].mode = Mode(x)
    BY DEF Known
  <2>1. CASE <<q, x>> = c
    BY <1>3, <1>4, <1>7, <1>9, <2>1
  <2>2. CASE <<q, x>> # c
    <3>. DEFINE o == u.ctl[<<q, x>>]
    <3>1. v.ctl[<<q, x>>] = o /\ o # Unbound /\ o \in CtlType
      BY <1>3, <1>9, <2>2
    <3>2. /\ o.generation < u.next
          /\ u.entry[o.fd] # NoEntry /\ u.entry[o.fd].generation = o.generation =>
                u.entry[o.fd].watcher = q /\ u.entry[o.fd].mode = Mode(x)
      BY <1>1, <3>1 DEF Sound, Known
    <3>3. o.fd \in Fds /\ o.generation \in Nat  BY <3>1 DEF CtlType
    <3>. HIDE DEF o
    <3>4. o.generation < v.next /\ o.generation # table.next
      <4>. DEFINE n == o.generation
      <4>1. n \in Nat /\ n < table.next  BY <1>1, <3>2, <3>3
      <4>. HIDE DEF n
      <4>2. n < table.next + 1 /\ n # table.next  BY <1>3, <4>1
      <4>. QED  BY <1>7, <4>2 DEF n
    <3>5. CASE o.fd = f  BY <1>4, <1>9, <3>1, <3>4, <3>5
    <3>6. CASE o.fd # f  BY <1>9, <3>1, <3>2, <3>3, <3>4, <3>6
    <3>. QED  BY <3>5, <3>6
  <2>. QED  BY <2>1, <2>2
<1>12. Told(v)  BY <1>1, <1>4, <1>9 DEF Sound, Told
<1>13. \A g \in Fds \ {f} :
          \/ v.entry[g] = table.entry[g] /\ v.interest[g] = table.interest[g]
          \/ /\ v.entry[g] = NoEntry
             /\ table.entry[g] # NoEntry /\ table.entry[g].watcher = s
  BY <1>1, <1>9
<1>. QED  BY <1>2, <1>4, <1>8, <1>9, <1>10, <1>11, <1>12, <1>13 DEF Sound, e

\* Closing the descriptor takes nothing from the entries.
LEMMA ForgottenForms ==
    ASSUME NEW w, Sound(w), NEW f \in Fds
    PROVE  LET v == Forgotten(w, f) IN
           /\ Sound(v) /\ v.entry = w.entry
           /\ \A g \in Fds \ {f} : v.interest[g] = w.interest[g]
<1>. DEFINE v == Forgotten(w, f)
<1>1. w \in Table /\ w.interest \in [Fds -> SUBSET Directions]  BY TableForms DEF Sound
<1>2. /\ v \in Table /\ v.entry = w.entry /\ v.ctl = w.ctl /\ v.next = w.next
      /\ v.interest = [w.interest EXCEPT ![f] = {}]
  BY <1>1 DEF Forgotten, Table
<1>. HIDE DEF v
<1>3. \A g \in Fds : v.interest[g] \subseteq w.interest[g]  BY <1>1, <1>2
<1>4. Tied(v)  BY <1>2 DEF Sound, Tied
<1>5. Known(v)  BY <1>2 DEF Sound, Known
<1>6. Told(v)  BY <1>2, <1>3 DEF Sound, Told
<1>. QED  BY <1>1, <1>2, <1>4, <1>5, <1>6 DEF Sound, v

\* No socket asks for both directions at once.
LEMMA ModeForms ==
    ASSUME NEW w, Sound(w), NEW f \in Fds, w.entry[f] # NoEntry
    PROVE  w.entry[f].mode \in {"Read", "Write"}
<1>1. w.entry[f] \in Entry  BY TableForms DEF Sound
<1>2. PICK d \in Sides : w.ctl[<<w.entry[f].watcher, d>>] =
                             [fd |-> f, generation |-> w.entry[f].generation]
  BY DEF Sound, Tied
<1>3. w.entry[f].watcher \in Sockets /\ w.entry[f].generation \in Nat  BY <1>1 DEF Entry
<1>4. w.ctl[<<w.entry[f].watcher, d>>] # Unbound  BY <1>2, <1>3, SocketAssumption
<1>5. w.entry[f].mode = Mode(d)  BY <1>2, <1>3, <1>4 DEF Sound, Known
<1>. QED  BY <1>5 DEF Mode

LEMMA RemovedSound ==
    ASSUME NEW w, Sound(w), NEW f \in Fds
    PROVE  LET v == Removed(w, f) IN
           /\ Sound(v) /\ v.entry[f] = NoEntry
           /\ \A g \in Fds \ {f} : v.entry[g] = w.entry[g] /\ v.interest[g] = w.interest[g]
<1>. DEFINE v == Removed(w, f)
<1>1. /\ w \in Table /\ w.entry \in [Fds -> Entry \cup {NoEntry}]
      /\ w.interest \in [Fds -> SUBSET Directions]
      /\ w.ctl \in [Sockets \X Sides -> CtlType \cup {Unbound}]
  BY TableForms DEF Sound
<1>2. /\ v.entry = [w.entry EXCEPT ![f] = NoEntry]
      /\ v.interest = [w.interest EXCEPT ![f] = {}]
      /\ v.ctl = w.ctl /\ v.next = w.next /\ v \in Table
  BY <1>1 DEF Removed, Table
<1>. HIDE DEF v
<1>3. /\ v.entry[f] = NoEntry
      /\ \A g \in Fds \ {f} : v.entry[g] = w.entry[g] /\ v.interest[g] = w.interest[g]
  BY <1>1, <1>2
<1>4. Tied(v)  BY <1>2, <1>3 DEF Sound, Tied
<1>5. Known(v)
  <2>1. \A s \in Sockets, d \in Sides : w.ctl[<<s, d>>] # Unbound => w.ctl[<<s, d>>].fd \in Fds
    BY <1>1 DEF CtlType
  <2>. QED  BY <1>2, <1>3, <2>1 DEF Sound, Known
<1>6. Told(v)  BY <1>2, <1>3 DEF Sound, Told
<1>. QED  BY <1>2, <1>3, <1>4, <1>5, <1>6 DEF Sound, v

\* The loop takes the entry of an event: what is left of the others is the same.
LEMMA ExtractForms ==
    ASSUME NEW w, Sound(w), NEW f \in Fds
    PROVE  LET v == Extract(w, f) IN
           /\ Sound(v)
           /\ \A g \in Fds \ {f} : v.entry[g] = w.entry[g] /\ v.interest[g] = w.interest[g]
           /\ v.entry[f] = NoEntry \/ v = w
BY RemovedSound DEF Extract

-----------------------------------------------------------------------------
(* Types *)

Statuses == {"unused", "pending", "done"}
RoleNames == {"closed", "fresh", "connecting", "stream", "listening", "failed"}
Lives == {"unborn", "live", "dropped"}
Loops == {"task", "callback", "batch", "wait"}

\* TypeOK without the watches, in three parts.
CallTypes == /\ slot \in [Sockets -> [Slots -> Ops \cup {NoOp}]]
             /\ notify \subseteq Ops /\ status \in [Ops -> Statuses]
HandleTypes == life \in [Sockets -> Lives] /\ fd \in [Sockets -> Fds \cup {NoFd}]
KernelTypes == role \in [Fds -> RoleNames] /\ readiness \in [Fds -> SUBSET Directions]
LoopTypes == /\ loop \in Loops
             /\ batch \subseteq Event /\ (loop \in {"task", "wait"} => batch = {})

LEMMA TypesFolded ==
    /\ TypeOK <=> table \in Table /\ CallTypes /\ HandleTypes /\ KernelTypes /\ LoopTypes
    /\ TypeOK' <=> table' \in Table /\ CallTypes' /\ HandleTypes' /\ KernelTypes' /\ LoopTypes'
BY DEF TypeOK, CallTypes, HandleTypes, KernelTypes, LoopTypes, Statuses, RoleNames, Lives, Loops

SideOf(x) == IF x \in {"read", "accept"} THEN "read" ELSE "write"

LEMMA SuspendTypes ==
    ASSUME CallTypes, Sound(table), NEW s \in Sockets, NEW f \in Fds, NEW o \in Ops,
           NEW x \in Slots, NEW n \in SUBSET Ops, Suspend(s, f, o, x, n)
    PROVE  CallTypes' /\ Sound(table') /\ table' = Armed(s, f, SideOf(x))
<1>1. table' = Armed(s, f, SideOf(x)) /\ SideOf(x) \in Sides
  BY DEF Suspend, SideOf, Sides
<1>2. Sound(table')  BY <1>1, ArmedForms
<1>3. slot' \in [Sockets -> [Slots -> Ops \cup {NoOp}]]  BY DEF Suspend, CallTypes
<1>4. status' \in [Ops -> Statuses] /\ notify' \subseteq Ops
  BY DEF Suspend, CallTypes, Statuses
<1>. QED  BY <1>1, <1>2, <1>3, <1>4 DEF CallTypes

LEMMA DiscardTypes ==
    ASSUME CallTypes, NEW s \in Sockets, NEW xs, Discard(s, xs)
    PROVE  /\ CallTypes'
           /\ \A x \in Slots : slot'[s][x] = IF x \in xs THEN NoOp ELSE slot[s][x]
           /\ \A q \in Sockets \ {s} : slot'[q] = slot[q]
<1>1. slot' = [slot EXCEPT ![s] = [x \in Slots |-> IF x \in xs THEN NoOp ELSE slot[s][x]]]
  BY DEF Discard
<1>2. slot' \in [Sockets -> [Slots -> Ops \cup {NoOp}]]  BY <1>1 DEF CallTypes
<1>3. status' \in [Ops -> Statuses] /\ notify' \subseteq Ops
  BY DEF Discard, CallTypes, Statuses
<1>. QED  BY <1>1, <1>2, <1>3 DEF CallTypes

LEMMA FireTypes ==
    ASSUME CallTypes, NEW s \in Sockets, NEW x \in Slots, slot[s][x] # NoOp, Fire(s, x)
    PROVE  /\ CallTypes' /\ loop' = "callback"
           /\ slot'[s][x] = NoOp
           /\ \A y \in Slots \ {x} : slot'[s][y] = slot[s][y]
           /\ \A q \in Sockets \ {s} : slot'[q] = slot[q]
<1>1. slot' \in [Sockets -> [Slots -> Ops \cup {NoOp}]]  BY DEF Fire, CallTypes
<1>2. status' \in [Ops -> Statuses] /\ notify' \subseteq Ops
  BY DEF Fire, CallTypes, Statuses
<1>3. /\ slot'[s][x] = NoOp
      /\ \A y \in Slots \ {x} : slot'[s][y] = slot[s][y]
      /\ \A q \in Sockets \ {s} : slot'[q] = slot[q]
  BY DEF Fire, CallTypes
<1>. QED  BY <1>1, <1>2, <1>3 DEF CallTypes, Fire

\* do_accept adopts a free descriptor for a socket that was not there, or does nothing.
Adopts(f) ==
    \/ \E p \in Sockets, g \in Fds :
          /\ life[p] = "unborn" /\ role[g] = "closed"
          /\ life' = [life EXCEPT ![p] = "live"]
          /\ fd' = [fd EXCEPT ![p] = g]
          /\ role' = [role EXCEPT ![g] = "stream"]
    \/ UNCHANGED <<life, fd, role>>

LEMMA AcceptTypes ==
    ASSUME HandleTypes, KernelTypes, NEW f \in Fds, AcceptPeer(f)
    PROVE  HandleTypes' /\ KernelTypes' /\ Adopts(f)
<1>1. CASE /\ \E p \in Sockets, g \in Fds :
                 /\ FromFd(p, g)
                 /\ role[g] = "closed"
                 /\ role' = [role EXCEPT ![g] = "stream"]
                 /\ \E left \in {readiness[f], readiness[f] \ {"in"}} :
                       readiness' = [readiness EXCEPT ![f] = left, ![g] = {"out"}]
  <2>1. PICK p \in Sockets, g \in Fds :
           /\ life[p] = "unborn" /\ life' = [life EXCEPT ![p] = "live"]
           /\ fd' = [fd EXCEPT ![p] = g]
           /\ role[g] = "closed"
           /\ role' = [role EXCEPT ![g] = "stream"]
           /\ \E left \in {readiness[f], readiness[f] \ {"in"}} :
                 readiness' = [readiness EXCEPT ![f] = left, ![g] = {"out"}]
    BY <1>1 DEF FromFd
  <2>2. HandleTypes'  BY <2>1 DEF HandleTypes, Lives
  <2>3. role' \in [Fds -> RoleNames]  BY <2>1 DEF KernelTypes, RoleNames
  <2>4. readiness' \in [Fds -> SUBSET Directions]
    BY <2>1 DEF KernelTypes, Directions
  <2>. QED  BY <2>1, <2>2, <2>3, <2>4 DEF KernelTypes, Adopts
<1>2. CASE Consume(f, "in") /\ UNCHANGED <<life, fd, role>>
  <2>1. readiness' \in [Fds -> SUBSET Directions]
    BY <1>2 DEF Consume, KernelTypes
  <2>. QED  BY <1>2, <2>1 DEF HandleTypes, KernelTypes, Adopts
<1>. QED  BY <1>1, <1>2 DEF AcceptPeer
-----------------------------------------------------------------------------
(* Who owns what *)

\* The facts that OwnInv gives, one by one.
LEMMA OwnFacts ==
    ASSUME OwnInv
    PROVE  /\ CallTypes /\ HandleTypes /\ KernelTypes /\ LoopTypes
           /\ Sound(table) /\ WatchOwned /\ OneOwner /\ Closed
           /\ table.entry \in [Fds -> Entry \cup {NoEntry}]
           /\ \A f \in Fds : table.entry[f] # NoEntry => table.entry[f].watcher \in Sockets
           /\ NoFd \notin Fds
<1>1. table.entry \in [Fds -> Entry \cup {NoEntry}]  BY TableForms DEF OwnInv, Sound
<1>2. \A f \in Fds : table.entry[f] # NoEntry => table.entry[f].watcher \in Sockets
  BY <1>1 DEF Entry
<1>. QED  BY <1>1, <1>2, TypesFolded, SocketAssumption DEF OwnInv

\* A step that leaves the sockets, and which descriptors are open, as they are; a watch
\* that is new is one of the socket that has the descriptor.
LEMMA OwnSame ==
    ASSUME OwnInv, UNCHANGED <<life, fd>>, Sound(table'),
           CallTypes', KernelTypes', LoopTypes',
           \A f \in Fds : \/ table'.entry[f] = table.entry[f]
                          \/ table'.entry[f] = NoEntry
                          \/ /\ life[table'.entry[f].watcher] = "live"
                             /\ fd[table'.entry[f].watcher] = f,
           \A f \in Fds : role'[f] = "closed" <=> role[f] = "closed"
    PROVE  OwnInv'
<1>1. TypeOK'
  <2>1. table' \in Table  BY DEF Sound
  <2>2. HandleTypes'  BY OwnFacts DEF HandleTypes
  <2>. QED  BY <2>1, <2>2, TypesFolded
<1>2. WatchOwned'  BY OwnFacts DEF WatchOwned
<1>3. OneOwner' /\ Closed'  BY OwnFacts DEF OneOwner, Closed, HandleTypes
<1>. QED  BY <1>1, <1>2, <1>3 DEF OwnInv

\* A socket without a descriptor gets one that was closed; of the watches at most the
\* one of this descriptor changes, and becomes the socket's.
LEMMA OwnAdopted ==
    ASSUME OwnInv, NEW s \in Sockets, NEW f \in Fds, fd[s] = NoFd, role[f] = "closed",
           fd' = [fd EXCEPT ![s] = f], life' = [life EXCEPT ![s] = "live"],
           role'[f] # "closed",
           \A g \in Fds \ {f} : role'[g] = role[g],
           CallTypes', KernelTypes', LoopTypes', Sound(table'),
           \A g \in Fds : \/ table'.entry[g] = table.entry[g]
                          \/ table'.entry[g] = NoEntry
                          \/ g = f /\ table'.entry[g].watcher = s
    PROVE  OwnInv'
<1>0. fd \in [Sockets -> Fds \cup {NoFd}] /\ life \in [Sockets -> Lives]
  BY OwnFacts DEF HandleTypes
<1>1. TypeOK'
  <2>1. table' \in Table  BY DEF Sound
  <2>2. HandleTypes'  BY <1>0 DEF HandleTypes, Lives
  <2>. QED  BY <2>1, <2>2, TypesFolded
<1>2. WatchOwned'
  <2>. SUFFICES ASSUME NEW g \in Fds, table'.entry[g] # NoEntry
                PROVE  /\ life'[table'.entry[g].watcher] = "live"
                       /\ fd'[table'.entry[g].watcher] = g
    BY DEF WatchOwned
  <2>1. CASE table'.entry[g] = table.entry[g]
    <3>1. /\ table.entry[g].watcher \in Sockets
          /\ life[table.entry[g].watcher] = "live" /\ fd[table.entry[g].watcher] = g
      BY <2>1, OwnFacts DEF WatchOwned
    <3>2. table.entry[g].watcher # s  BY <3>1, OwnFacts
    <3>. QED  BY <1>0, <2>1, <3>1, <3>2
  <2>2. CASE g = f /\ table'.entry[g].watcher = s  BY <1>0, <2>2
  <2>. QED  BY <2>1, <2>2
<1>3. OneOwner' /\ Closed'
  <2>1. \A q \in Sockets : fd'[q] = IF q = s THEN f ELSE fd[q]  BY <1>0
  <2>2. \A q \in Sockets : life'[q] = IF q = s THEN "live" ELSE life[q]  BY <1>0
  <2>3. \A q \in Sockets : fd[q] # f  BY OwnFacts DEF OneOwner
  <2>4. OneOwner'
    <3>1. ASSUME NEW g \in Fds, role'[g] # "closed" PROVE \E q \in Sockets : fd'[q] = g
      <4>1. CASE g = f  BY <2>1, <4>1
      <4>2. CASE g # f
        <5>1. PICK q \in Sockets : fd[q] = g  BY <3>1, <4>2, OwnFacts DEF OneOwner
        <5>2. q # s  BY <5>1, OwnFacts
        <5>. QED  BY <2>1, <5>1, <5>2
      <4>. QED  BY <4>1, <4>2
    <3>2. ASSUME NEW q \in Sockets, fd'[q] # NoFd
          PROVE  role'[fd'[q]] # "closed" /\ \A p \in Sockets \ {q} : fd'[p] # fd'[q]
      <4>1. CASE q = s  BY <2>1, <2>3, <4>1
      <4>2. CASE q # s
        <5>1. fd'[q] = fd[q] /\ fd[q] \in Fds /\ fd[q] # f  BY <1>0, <2>1, <2>3, <3>2, <4>2
        <5>2. role[fd[q]] # "closed" /\ \A p \in Sockets \ {q} : fd[p] # fd[q]
          BY <3>2, <5>1, OwnFacts DEF OneOwner
        <5>. QED  BY <2>1, <5>1, <5>2
      <4>. QED  BY <4>1, <4>2
    <3>. QED  BY <3>1, <3>2 DEF OneOwner
  <2>5. Closed'  BY <2>1, <2>2, OwnFacts DEF Closed
  <2>. QED  BY <2>4, <2>5
<1>. QED  BY <1>1, <1>2, <1>3 DEF OwnInv

\* A socket gives its descriptor up, and no watch of the socket is left.
LEMMA OwnClosed ==
    ASSUME OwnInv, NEW s \in Sockets, life[s] = "live",
           fd' = [fd EXCEPT ![s] = NoFd],
           \A q \in Sockets \ {s} : life'[q] = life[q],
           HandleTypes', CallTypes', KernelTypes', LoopTypes', Sound(table'),
           \A f \in Fds : role'[f] = "closed" <=> (role[f] = "closed" \/ fd[s] = f),
           \A f \in Fds : \/ /\ table'.entry[f] = table.entry[f]
                             /\ table.entry[f] # NoEntry => table.entry[f].watcher # s
                          \/ table'.entry[f] = NoEntry
    PROVE  OwnInv'
<1>0. fd \in [Sockets -> Fds \cup {NoFd}]  BY OwnFacts DEF HandleTypes
<1>1. TypeOK'
  <2>1. table' \in Table  BY DEF Sound
  <2>. QED  BY <2>1, TypesFolded
<1>a. \A q \in Sockets : fd'[q] = IF q = s THEN NoFd ELSE fd[q]  BY <1>0
<1>2. WatchOwned'
  <2>. SUFFICES ASSUME NEW g \in Fds, table'.entry[g] # NoEntry
                PROVE  /\ life'[table'.entry[g].watcher] = "live"
                       /\ fd'[table'.entry[g].watcher] = g
    BY DEF WatchOwned
  <2>1. table'.entry[g] = table.entry[g] /\ table.entry[g].watcher # s  OBVIOUS
  <2>2. /\ table.entry[g].watcher \in Sockets
        /\ life[table.entry[g].watcher] = "live" /\ fd[table.entry[g].watcher] = g
    BY <2>1, OwnFacts DEF WatchOwned
  <2>. QED  BY <1>a, <2>1, <2>2
<1>3. OneOwner'
  <2>1. ASSUME NEW g \in Fds, role'[g] # "closed" PROVE \E q \in Sockets : fd'[q] = g
    <3>1. PICK q \in Sockets : fd[q] = g  BY <2>1, OwnFacts DEF OneOwner
    <3>2. q # s  BY <2>1, <3>1
    <3>. QED  BY <1>a, <3>1, <3>2
  <2>2. ASSUME NEW q \in Sockets, fd'[q] # NoFd
        PROVE  role'[fd'[q]] # "closed" /\ \A p \in Sockets \ {q} : fd'[p] # fd'[q]
    <3>1. q # s /\ fd'[q] = fd[q] /\ fd[q] \in Fds  BY <1>0, <1>a, <2>2
    <3>2. role[fd[q]] # "closed" /\ \A p \in Sockets \ {q} : fd[p] # fd[q]
      BY <2>2, <3>1, OwnFacts DEF OneOwner
    <3>. QED  BY <1>a, <2>2, <3>1, <3>2
  <2>. QED  BY <2>1, <2>2 DEF OneOwner
<1>4. Closed'  BY <1>a, OwnFacts DEF Closed
<1>. QED  BY <1>1, <1>2, <1>3, <1>4 DEF OwnInv

LEMMA OpenOwn ==
    ASSUME OwnInv, NEW s \in Sockets, Open(s) \/ TcpListen(s)
    PROVE  OwnInv'
<1>1. PICK f \in Fds, r \in {"fresh", "listening"} : Opened(s, f, r, {})
  BY DEF Open, TcpListen
<1>2. fd[s] = NoFd /\ UNCHANGED <<table, slot, notify, status, loop, batch>>
  BY DEF Open, TcpListen, Unopened, loopVars
<1>3. /\ role[f] = "closed" /\ fd' = [fd EXCEPT ![s] = f]
      /\ life' = [life EXCEPT ![s] = "live"]
      /\ role' = [role EXCEPT ![f] = r] /\ readiness' = [readiness EXCEPT ![f] = {}]
  BY <1>1 DEF Opened
<1>4. CallTypes' /\ LoopTypes' /\ Sound(table')
  BY <1>2, OwnFacts DEF CallTypes, LoopTypes
<1>5. KernelTypes' /\ role'[f] # "closed" /\ \A g \in Fds \ {f} : role'[g] = role[g]
  BY <1>3, OwnFacts DEF KernelTypes, RoleNames
<1>. QED  BY <1>2, <1>3, <1>4, <1>5, OwnAdopted

LEMMA ListenOwn ==
    ASSUME OwnInv, NEW s \in Sockets, Listen(s)
    PROVE  OwnInv'
<1>1. /\ fd[s] \in Fds /\ role[fd[s]] = "fresh"
      /\ role' = [role EXCEPT ![fd[s]] = "listening"]
      /\ UNCHANGED <<table, life, fd, slot, notify, status, readiness, loop, batch>>
  BY OwnFacts DEF Listen, socketVars, loopVars, HandleTypes
<1>2. CallTypes' /\ LoopTypes' /\ Sound(table')
  BY <1>1, OwnFacts DEF CallTypes, LoopTypes
<1>3. KernelTypes' /\ \A g \in Fds : role'[g] = "closed" <=> role[g] = "closed"
  BY <1>1, OwnFacts DEF KernelTypes, RoleNames
<1>. QED  BY <1>1, <1>2, <1>3, OwnSame

\* What a call that has to wait does to the watches.
LEMMA SuspendEntries ==
    ASSUME OwnInv, NEW s \in Sockets, NEW f \in Fds, NEW o \in Ops, NEW x \in Slots,
           NEW n \in SUBSET Ops, Suspend(s, f, o, x, n)
    PROVE  /\ CallTypes' /\ Sound(table')
           /\ table'.entry[f] # NoEntry /\ table'.entry[f].watcher = s
           /\ table'.entry[f].mode = WatchFor(x)
           /\ table'.interest[f] = Events(WatchFor(x))
           /\ \A g \in Fds \ {f} :
                 \/ table'.entry[g] = table.entry[g] /\ table'.interest[g] = table.interest[g]
                 \/ /\ table'.entry[g] = NoEntry
                    /\ table.entry[g] # NoEntry /\ table.entry[g].watcher = s
<1>1. CallTypes' /\ Sound(table') /\ table' = Armed(s, f, SideOf(x))
  BY OwnFacts, SuspendTypes
<1>2. SideOf(x) \in Sides /\ Mode(SideOf(x)) = WatchFor(x)
  BY DEF SideOf, Sides, Mode, WatchFor
<1>3. /\ table'.entry[f] = Fresh(s, SideOf(x)) /\ table'.entry[f] # NoEntry
      /\ table'.interest[f] = Events(Mode(SideOf(x)))
      /\ \A g \in Fds \ {f} :
            \/ table'.entry[g] = table.entry[g] /\ table'.interest[g] = table.interest[g]
            \/ /\ table'.entry[g] = NoEntry
               /\ table.entry[g] # NoEntry /\ table.entry[g].watcher = s
  BY <1>1, <1>2, OwnFacts, ArmedForms
<1>. QED  BY <1>1, <1>2, <1>3 DEF Fresh

LEMMA ConnectingForms ==
    ASSUME OwnInv, NEW s \in Sockets, NEW f \in Fds, NEW o \in Ops, Connecting(s, f, o)
    PROVE  /\ CallTypes' /\ KernelTypes' /\ Sound(table')
           /\ role'[f] \in {"stream", "connecting", "fresh"}
           /\ \A g \in Fds \ {f} : role'[g] = role[g]
           /\ \A g \in Fds : \/ table'.entry[g] = table.entry[g]
                             \/ table'.entry[g] = NoEntry
                             \/ g = f /\ table'.entry[g].watcher = s
           /\ \/ CompletedNow
              \/ Suspend(s, f, o, "connect", notify) /\ role'[f] = "connecting"
<1>1. /\ \E r \in {"stream", "connecting", "fresh"} : role' = [role EXCEPT ![f] = r]
      /\ \E z \in {{"out"}, {}} : readiness' = [readiness EXCEPT ![f] = z]
      /\ \/ CompletedNow
         \/ Suspend(s, f, o, "connect", notify) /\ role' = [role EXCEPT ![f] = "connecting"]
  BY DEF Connecting
<1>2. /\ KernelTypes' /\ role'[f] \in {"stream", "connecting", "fresh"}
      /\ \A g \in Fds \ {f} : role'[g] = role[g]
      /\ role' = [role EXCEPT ![f] = "connecting"] => role'[f] = "connecting"
  <2>1. role' \in [Fds -> RoleNames] /\ role'[f] \in {"stream", "connecting", "fresh"}
        /\ \A g \in Fds \ {f} : role'[g] = role[g]
    BY <1>1, OwnFacts DEF KernelTypes, RoleNames
  <2>2. readiness' \in [Fds -> SUBSET Directions]
    BY <1>1, OwnFacts DEF KernelTypes, Directions
  <2>3. role' = [role EXCEPT ![f] = "connecting"] => role'[f] = "connecting"
    BY OwnFacts DEF KernelTypes
  <2>. QED  BY <2>1, <2>2, <2>3 DEF KernelTypes
<1>3. CASE CompletedNow
  <2>1. CallTypes' /\ Sound(table') /\ UNCHANGED table
    BY <1>3, OwnFacts DEF CompletedNow, CallTypes
  <2>. QED  BY <1>2, <1>3, <2>1
<1>4. CASE Suspend(s, f, o, "connect", notify) /\ role' = [role EXCEPT ![f] = "connecting"]
  <2>1. "connect" \in Slots /\ notify \in SUBSET Ops  BY OwnFacts DEF Slots, CallTypes
  <2>2. /\ CallTypes' /\ Sound(table') /\ table'.entry[f].watcher = s
        /\ \A g \in Fds \ {f} : table'.entry[g] = table.entry[g] \/ table'.entry[g] = NoEntry
    BY <1>4, <2>1, SuspendEntries
  <2>. QED  BY <1>2, <1>4, <2>2
<1>. QED  BY <1>1, <1>3, <1>4

LEMMA ConnectOwn ==
    ASSUME OwnInv, NEW s \in Sockets, NEW o \in Ops, Connect(s, o) \/ TcpConnect(s, o)
    PROVE  OwnInv'
<1>1. CASE Connect(s, o)
  <2>1. /\ fd[s] \in Fds /\ role[fd[s]] = "fresh" /\ life[s] = "live"
        /\ Connecting(s, fd[s], o) /\ UNCHANGED <<life, fd, loop, batch>>
    BY <1>1, OwnFacts DEF Connect, MayStart, loopVars, HandleTypes
  <2>2. LoopTypes'  BY <2>1, OwnFacts DEF LoopTypes
  <2>. QED  BY <2>1, <2>2, ConnectingForms, OwnSame
<1>2. CASE TcpConnect(s, o)
  <2>1. PICK f \in Fds : /\ role[f] = "closed" /\ fd' = [fd EXCEPT ![s] = f]
                         /\ Connecting(s, f, o)
    BY <1>2 DEF TcpConnect
  <2>2. /\ fd[s] = NoFd /\ life' = [life EXCEPT ![s] = "live"]
        /\ UNCHANGED <<loop, batch>>
    BY <1>2 DEF TcpConnect, Unopened, loopVars
  <2>3. LoopTypes'  BY <2>2, OwnFacts DEF LoopTypes
  <2>4. /\ CallTypes' /\ KernelTypes' /\ Sound(table')
        /\ role'[f] # "closed"
        /\ \A g \in Fds \ {f} : role'[g] = role[g]
        /\ \A g \in Fds : \/ table'.entry[g] = table.entry[g]
                          \/ table'.entry[g] = NoEntry
                          \/ g = f /\ table'.entry[g].watcher = s
    BY <2>1, ConnectingForms
  <2>. QED  BY <2>1, <2>2, <2>3, <2>4, OwnAdopted
<1>. QED  BY <1>1, <1>2

\* The other operations of a socket: at once, or they wait.
Quick(s, x) ==
    /\ CompletedNow
    /\ \/ x = "accept" /\ AcceptPeer(fd[s])
       \/ (\E z \in Directions : Consume(fd[s], z)) /\ UNCHANGED <<life, fd, role>>
Waits(s, o, x) ==
    /\ \E n \in SUBSET Ops : Suspend(s, fd[s], o, x, n)
    /\ UNCHANGED <<life, fd, role, readiness>>
RoleFor(x) == IF x = "accept" THEN "listening" ELSE "stream"

LEMMA StreamForms ==
    ASSUME OwnInv, NEW s \in Sockets, NEW o \in Ops,
           Read(s, o) \/ ReadIfReady(s, o) \/ Write(s, o) \/ Accept(s, o)
    PROVE  /\ UNCHANGED <<loop, batch>>
           /\ \E x \in Slots \ {"connect"} :
                 MayStart(s, o, x, RoleFor(x)) /\ (Quick(s, x) \/ Waits(s, o, x))
<1>0. notify \in SUBSET Ops /\ notify \cup {o} \in SUBSET Ops  BY OwnFacts DEF CallTypes
<1>1. CASE Read(s, o)
  <2>1. MayStart(s, o, "read", RoleFor("read")) /\ UNCHANGED <<loop, batch>>
    BY <1>1 DEF Read, RoleFor, loopVars
  <2>2. Quick(s, "read") \/ Waits(s, o, "read")
    BY <1>0, <1>1 DEF Read, Quick, Waits, Directions
  <2>. QED  BY <2>1, <2>2 DEF Slots
<1>2. CASE ReadIfReady(s, o)
  <2>1. MayStart(s, o, "read", RoleFor("read")) /\ UNCHANGED <<loop, batch>>
    BY <1>2 DEF ReadIfReady, RoleFor, loopVars
  <2>2. Waits(s, o, "read")
    BY <1>0, <1>2 DEF ReadIfReady, Waits, kernelVars
  <2>. QED  BY <2>1, <2>2 DEF Slots
<1>3. CASE Write(s, o)
  <2>1. MayStart(s, o, "write", RoleFor("write")) /\ UNCHANGED <<loop, batch>>
    BY <1>3 DEF Write, RoleFor, loopVars
  <2>2. Quick(s, "write") \/ Waits(s, o, "write")
    BY <1>0, <1>3 DEF Write, Quick, Waits, Directions
  <2>. QED  BY <2>1, <2>2 DEF Slots
<1>4. CASE Accept(s, o)
  <2>1. MayStart(s, o, "accept", RoleFor("accept")) /\ UNCHANGED <<loop, batch>>
    BY <1>4 DEF Accept, RoleFor, loopVars
  <2>2. Quick(s, "accept") \/ Waits(s, o, "accept")
    BY <1>0, <1>4 DEF Accept, Quick, Waits, kernelVars
  <2>. QED  BY <2>1, <2>2 DEF Slots
<1>. QED  BY <1>1, <1>2, <1>3, <1>4

LEMMA AdoptsOwn ==
    ASSUME OwnInv, NEW f, Adopts(f), CallTypes', KernelTypes', LoopTypes', Sound(table'),
           \A g \in Fds : table'.entry[g] = table.entry[g] \/ table'.entry[g] = NoEntry
    PROVE  OwnInv'
<1>1. CASE \E p \in Sockets, g \in Fds :
              /\ life[p] = "unborn" /\ role[g] = "closed"
              /\ life' = [life EXCEPT ![p] = "live"]
              /\ fd' = [fd EXCEPT ![p] = g]
              /\ role' = [role EXCEPT ![g] = "stream"]
  <2>1. PICK p \in Sockets, g \in Fds :
              /\ life[p] = "unborn" /\ role[g] = "closed"
              /\ life' = [life EXCEPT ![p] = "live"]
              /\ fd' = [fd EXCEPT ![p] = g]
              /\ role' = [role EXCEPT ![g] = "stream"]
    BY <1>1
  <2>2. fd[p] = NoFd  BY <2>1, OwnFacts DEF Closed
  <2>3. role'[g] # "closed" /\ \A h \in Fds \ {g} : role'[h] = role[h]
    BY <2>1, OwnFacts DEF KernelTypes
  <2>. QED  BY <2>1, <2>2, <2>3, OwnAdopted
<1>2. CASE UNCHANGED <<life, fd, role>>  BY <1>2, OwnSame
<1>. QED  BY <1>1, <1>2 DEF Adopts

LEMMA QuickForms ==
    ASSUME OwnInv, NEW s \in Sockets, fd[s] \in Fds, NEW x, Quick(s, x)
    PROVE  /\ UNCHANGED <<table, slot, notify, status>>
           /\ Adopts(fd[s]) /\ KernelTypes' /\ CallTypes' /\ Sound(table')
<1>1. UNCHANGED <<table, slot, notify, status>>  BY DEF Quick, CompletedNow
<1>2. CallTypes' /\ Sound(table')  BY <1>1, OwnFacts DEF CallTypes
<1>3. CASE AcceptPeer(fd[s])  BY <1>1, <1>2, <1>3, OwnFacts, AcceptTypes
<1>4. CASE (\E z \in Directions : Consume(fd[s], z)) /\ UNCHANGED <<life, fd, role>>
  <2>1. readiness' \in [Fds -> SUBSET Directions]
    BY <1>4, OwnFacts DEF Consume, KernelTypes
  <2>. QED  BY <1>1, <1>2, <1>4, <2>1, OwnFacts DEF KernelTypes, Adopts
<1>. QED  BY <1>3, <1>4 DEF Quick

LEMMA StreamOwn ==
    ASSUME OwnInv, NEW s \in Sockets, NEW o \in Ops,
           Read(s, o) \/ ReadIfReady(s, o) \/ Write(s, o) \/ Accept(s, o)
    PROVE  OwnInv'
<1>1. LoopTypes'  BY StreamForms, OwnFacts DEF LoopTypes
<1>2. PICK x \in Slots \ {"connect"} :
         MayStart(s, o, x, RoleFor(x)) /\ (Quick(s, x) \/ Waits(s, o, x))
  BY StreamForms
<1>3. fd[s] \in Fds /\ life[s] = "live"  BY <1>2, OwnFacts DEF MayStart, HandleTypes
<1>4. CASE Quick(s, x)  BY <1>1, <1>3, <1>4, QuickForms, AdoptsOwn
<1>5. CASE Waits(s, o, x)
  <2>1. /\ CallTypes' /\ Sound(table') /\ table'.entry[fd[s]].watcher = s
        /\ \A g \in Fds \ {fd[s]} : table'.entry[g] = table.entry[g] \/ table'.entry[g] = NoEntry
    BY <1>3, <1>5, SuspendEntries DEF Waits
  <2>2. KernelTypes' /\ UNCHANGED <<life, fd, role>>
    BY <1>5, OwnFacts DEF Waits, KernelTypes
  <2>. QED  BY <1>1, <1>3, <2>1, <2>2, OwnSame
<1>. QED  BY <1>2, <1>4, <1>5

LEMMA StoppedTable ==
    ASSUME Sound(table), NEW s \in Sockets, NEW d \in Sides, table' = Stop(table, <<s, d>>)
    PROVE  /\ Sound(table')
           /\ \A f \in Fds :
                 \/ table'.entry[f] = table.entry[f] /\ table'.interest[f] = table.interest[f]
                 \/ /\ table'.entry[f] = NoEntry
                    /\ table.entry[f] # NoEntry /\ table.entry[f].watcher = s
                    /\ table.entry[f].mode = Mode(d)
<1>1. /\ Sound(table') /\ table'.ctl = [table.ctl EXCEPT ![<<s, d>>] = Unbound]
      /\ \A f \in Fds :
            \/ table'.entry[f] = table.entry[f] /\ table'.interest[f] = table.interest[f]
            \/ /\ table'.entry[f] = NoEntry
               /\ table.entry[f] # NoEntry /\ table.entry[f].watcher = s
               /\ table.entry[f].mode = Mode(d)
  BY StopForms
<1>. QED  BY <1>1

LEMMA CancelOwn ==
    ASSUME OwnInv, NEW s \in Sockets, NEW x \in Slots, Cancel(s, x)
    PROVE  OwnInv'
<1>0. PICK d \in Sides : d = IF x = "write" THEN "write" ELSE "read"  BY DEF Sides
<1>1. /\ Discard(s, {x}) /\ table' = Stop(table, <<s, d>>)
      /\ UNCHANGED <<life, fd, role, readiness, loop, batch>>
  BY <1>0 DEF Cancel, kernelVars, loopVars
<1>2. CallTypes' /\ KernelTypes' /\ LoopTypes'
  BY <1>1, OwnFacts, DiscardTypes DEF KernelTypes, LoopTypes
<1>3. /\ Sound(table')
      /\ \A g \in Fds : table'.entry[g] = table.entry[g] \/ table'.entry[g] = NoEntry
  <2>1. Sound(table)  BY OwnFacts
  <2>2. table' = Stop(table, <<s, d>>)  BY <1>1
  <2>. QED  BY <1>0, <2>1, <2>2, StoppedTable
<1>. QED  BY <1>1, <1>2, <1>3, OwnSame

LEMMA CloseFdForms ==
    ASSUME OwnInv, NEW s \in Sockets, CloseFd(s)
    PROVE  /\ KernelTypes'
           /\ \A f \in Fds : role'[f] = IF fd[s] = f THEN "closed" ELSE role[f]
<1>1. CASE fd[s] = NoFd  BY <1>1, OwnFacts DEF CloseFd, kernelVars, KernelTypes
<1>2. CASE fd[s] # NoFd
  <2>1. fd[s] \in Fds  BY <1>2, OwnFacts DEF HandleTypes
  <2>2. /\ role' = [role EXCEPT ![fd[s]] = "closed"]
        /\ readiness' = [readiness EXCEPT ![fd[s]] = {}]
    BY <1>2 DEF CloseFd
  <2>. QED  BY <2>1, <2>2, OwnFacts DEF KernelTypes, RoleNames
<1>. QED  BY <1>1, <1>2

\* close and drop: no watch of the socket is left, and those of the others are.
LEMMA CloseForms ==
    ASSUME OwnInv, NEW s \in Sockets, Close(s) \/ DropSocket(s)
    PROVE  /\ InUserCode /\ life[s] = "live"
           /\ CallTypes' /\ \A x \in Slots : slot'[s][x] = NoOp
           /\ \A q \in Sockets \ {s} : slot'[q] = slot[q]
           /\ CloseFd(s) /\ fd' = [fd EXCEPT ![s] = NoFd]
           /\ life' \in [Sockets -> Lives]
           /\ \A q \in Sockets \ {s} : life'[q] = life[q]
           /\ UNCHANGED <<loop, batch>>
           /\ Sound(table')
           /\ \A f \in Fds : \/ /\ table'.entry[f] = table.entry[f]
                                /\ f # fd[s] => table'.interest[f] = table.interest[f]
                                /\ table.entry[f] # NoEntry => table.entry[f].watcher # s
                             \/ /\ table'.entry[f] = NoEntry
                                /\ table.entry[f] # NoEntry /\ table.entry[f].watcher = s
<1>1. /\ InUserCode /\ life[s] = "live" /\ Discard(s, Slots)
      /\ CloseFd(s) /\ fd' = [fd EXCEPT ![s] = NoFd] /\ UNCHANGED <<loop, batch>>
  BY DEF Close, DropSocket, loopVars
<1>2. CallTypes' /\ (\A x \in Slots : slot'[s][x] = NoOp)
      /\ \A q \in Sockets \ {s} : slot'[q] = slot[q]
  BY <1>1, OwnFacts, DiscardTypes
<1>3. life' \in [Sockets -> Lives] /\ \A q \in Sockets \ {s} : life'[q] = life[q]
  <2>1. life' = life \/ life' = [life EXCEPT ![s] = "dropped"]  BY DEF Close, DropSocket
  <2>. QED  BY <2>1, OwnFacts DEF HandleTypes, Lives
<1>4. PICK w : /\ table' = StopBoth(w, s)
               /\ w = IF fd[s] = NoFd \/ Close(s) THEN table ELSE Forgotten(table, fd[s])
  BY DEF Close, DropSocket
<1>5. /\ Sound(w) /\ w.entry = table.entry
      /\ \A f \in Fds : f # fd[s] => w.interest[f] = table.interest[f]
  <2>1. CASE w = table  BY <2>1, OwnFacts
  <2>2. CASE fd[s] # NoFd /\ w = Forgotten(table, fd[s])
    <3>1. fd[s] \in Fds /\ Sound(table)  BY <2>2, OwnFacts DEF HandleTypes
    <3>. QED  BY <2>2, <3>1, ForgottenForms
  <2>. QED  BY <1>4, <2>1, <2>2
<1>s. Sound(w)  BY <1>5
<1>6. /\ Sound(table')
      /\ \A f \in Fds : \/ /\ table'.entry[f] = w.entry[f] /\ table'.interest[f] = w.interest[f]
                           /\ table'.entry[f] # NoEntry => table'.entry[f].watcher # s
                        \/ /\ table'.entry[f] = NoEntry
                           /\ w.entry[f] # NoEntry /\ w.entry[f].watcher = s
  BY <1>s, <1>4, StopBothForms
<1>7. \A f \in Fds : \/ /\ table'.entry[f] = table.entry[f]
                        /\ f # fd[s] => table'.interest[f] = table.interest[f]
                        /\ table.entry[f] # NoEntry => table.entry[f].watcher # s
                     \/ /\ table'.entry[f] = NoEntry
                        /\ table.entry[f] # NoEntry /\ table.entry[f].watcher = s
  BY <1>5, <1>6
<1>. QED  BY <1>1, <1>2, <1>3, <1>6, <1>7

LEMMA CloseOwn ==
    ASSUME OwnInv, NEW s \in Sockets, Close(s) \/ DropSocket(s)
    PROVE  OwnInv'
<1>1. /\ life[s] = "live" /\ fd' = [fd EXCEPT ![s] = NoFd]
      /\ \A q \in Sockets \ {s} : life'[q] = life[q]
      /\ CallTypes' /\ Sound(table') /\ CloseFd(s) /\ UNCHANGED <<loop, batch>>
      /\ life' \in [Sockets -> Lives]
  BY CloseForms
<1>2. \A f \in Fds : \/ /\ table'.entry[f] = table.entry[f]
                        /\ table.entry[f] # NoEntry => table.entry[f].watcher # s
                     \/ table'.entry[f] = NoEntry
  BY CloseForms
<1>3. /\ KernelTypes'
      /\ \A f \in Fds : role'[f] = "closed" <=> (role[f] = "closed" \/ fd[s] = f)
  BY <1>1, CloseFdForms
<1>4. HandleTypes' /\ LoopTypes'
  BY <1>1, OwnFacts DEF HandleTypes, LoopTypes
<1>. QED  BY <1>1, <1>2, <1>3, <1>4, OwnClosed

\* An event whose descriptor has an entry takes it, and calls the one callback that
\* waits for this direction, if any.
Delivered(ev) ==
    LET e == table.entry[ev.fd] IN
    CASE CanRead(e, ev.flags) -> OnCanRead(e.watcher, ev.fd)
      [] CanWrite(e, ev.flags) -> OnCanWrite(e.watcher, ev.fd)
      [] OTHER -> NothingToFire

LEMMA CanReadForms ==
    ASSUME OwnInv, loop = "batch", NEW s \in Sockets, NEW f \in Fds, OnCanRead(s, f)
    PROVE  /\ CallTypes' /\ KernelTypes' /\ Adopts(f) /\ loop' \in {"batch", "callback"}
           /\ \A q \in Sockets \ {s} : slot'[q] = slot[q]
           /\ \/ \E x \in {"accept", "read"} :
                    /\ slot[s][x] # NoOp /\ slot'[s][x] = NoOp
                    /\ \A y \in Slots \ {x} : slot'[s][y] = slot[s][y]
              \/ slot' = slot /\ slot[s]["accept"] = NoOp /\ slot[s]["read"] = NoOp
<1>0. {"accept", "read"} \subseteq Slots  BY DEF Slots
<1>1. CASE slot[s]["accept"] # NoOp
  <2>1. Fire(s, "accept")  BY <1>1 DEF OnCanRead
  <2>2. /\ CallTypes' /\ loop' = "callback" /\ slot'[s]["accept"] = NoOp
        /\ \A y \in Slots \ {"accept"} : slot'[s][y] = slot[s][y]
        /\ \A q \in Sockets \ {s} : slot'[q] = slot[q]
    BY <1>0, <1>1, <2>1, OwnFacts, FireTypes
  <2>3. KernelTypes' /\ Adopts(f)
    <3>1. CASE AcceptPeer(f)  BY <3>1, OwnFacts, AcceptTypes
    <3>2. CASE UNCHANGED <<life, fd, kernelVars>>
      BY <3>2, OwnFacts DEF kernelVars, KernelTypes, Adopts
    <3>. QED  BY <1>1, <3>1, <3>2 DEF OnCanRead
  <2>. QED  BY <1>1, <2>2, <2>3
<1>2. CASE slot[s]["accept"] = NoOp /\ slot[s]["read"] # NoOp
  <2>1. /\ Fire(s, "read") /\ UNCHANGED <<life, fd, role>>
        /\ UNCHANGED readiness \/ Consume(f, "in")
    BY <1>2 DEF OnCanRead
  <2>2. /\ CallTypes' /\ loop' = "callback" /\ slot'[s]["read"] = NoOp
        /\ \A y \in Slots \ {"read"} : slot'[s][y] = slot[s][y]
        /\ \A q \in Sockets \ {s} : slot'[q] = slot[q]
    BY <1>0, <1>2, <2>1, OwnFacts, FireTypes
  <2>3. KernelTypes' /\ Adopts(f)
    BY <2>1, OwnFacts DEF Consume, KernelTypes, Adopts
  <2>. QED  BY <1>2, <2>2, <2>3
<1>3. CASE slot[s]["accept"] = NoOp /\ slot[s]["read"] = NoOp
  <2>1. UNCHANGED <<life, fd, slot, notify, status, role, readiness, loop>>
    BY <1>3 DEF OnCanRead, NothingToFire, kernelVars
  <2>. QED  BY <1>3, <2>1, OwnFacts DEF CallTypes, KernelTypes, Adopts
<1>. QED  BY <1>1, <1>2, <1>3

LEMMA CanWriteForms ==
    ASSUME OwnInv, loop = "batch", NEW s \in Sockets, NEW f \in Fds, OnCanWrite(s, f)
    PROVE  /\ CallTypes' /\ KernelTypes' /\ UNCHANGED <<life, fd, role>>
           /\ loop' \in {"batch", "callback"}
           /\ \A q \in Sockets \ {s} : slot'[q] = slot[q]
           /\ \/ \E x \in {"connect", "write"} :
                    /\ slot[s][x] # NoOp /\ slot'[s][x] = NoOp
                    /\ \A y \in Slots \ {x} : slot'[s][y] = slot[s][y]
              \/ slot' = slot /\ slot[s]["connect"] = NoOp /\ slot[s]["write"] = NoOp
<1>0. {"connect", "write"} \subseteq Slots  BY DEF Slots
<1>1. CASE slot[s]["connect"] # NoOp
  <2>1. Fire(s, "connect") /\ UNCHANGED <<life, fd, role, readiness>>
    BY <1>1 DEF OnCanWrite, kernelVars
  <2>2. /\ CallTypes' /\ loop' = "callback" /\ slot'[s]["connect"] = NoOp
        /\ \A y \in Slots \ {"connect"} : slot'[s][y] = slot[s][y]
        /\ \A q \in Sockets \ {s} : slot'[q] = slot[q]
    BY <1>0, <1>1, <2>1, OwnFacts, FireTypes
  <2>. QED  BY <1>1, <2>1, <2>2, OwnFacts DEF KernelTypes
<1>2. CASE slot[s]["connect"] = NoOp /\ slot[s]["write"] # NoOp
  <2>1. Fire(s, "write") /\ UNCHANGED <<life, fd, role>> /\ Consume(f, "out")
    BY <1>2 DEF OnCanWrite
  <2>2. /\ CallTypes' /\ loop' = "callback" /\ slot'[s]["write"] = NoOp
        /\ \A y \in Slots \ {"write"} : slot'[s][y] = slot[s][y]
        /\ \A q \in Sockets \ {s} : slot'[q] = slot[q]
    BY <1>0, <1>2, <2>1, OwnFacts, FireTypes
  <2>3. KernelTypes'  BY <2>1, OwnFacts DEF Consume, KernelTypes
  <2>. QED  BY <1>2, <2>1, <2>2, <2>3
<1>3. CASE slot[s]["connect"] = NoOp /\ slot[s]["write"] = NoOp
  <2>1. UNCHANGED <<life, fd, slot, notify, status, role, readiness, loop>>
    BY <1>3 DEF OnCanWrite, NothingToFire, kernelVars
  <2>. QED  BY <1>3, <2>1, OwnFacts DEF CallTypes, KernelTypes
<1>. QED  BY <1>1, <1>2, <1>3

LEMMA DispatchForms ==
    ASSUME OwnInv, NEW ev \in batch, Dispatch(ev)
    PROVE  /\ loop = "batch" /\ ev \in Event /\ batch' = batch \ {ev}
           /\ \/ table.entry[ev.fd] = NoEntry /\ UNCHANGED table /\ NothingToFire
              \/ /\ table.entry[ev.fd] # NoEntry /\ table' = Extract(table, ev.fd)
                 /\ Delivered(ev) /\ table.entry[ev.fd].watcher \in Sockets
           /\ Sound(table')
           /\ \A g \in Fds \ {ev.fd} : /\ table'.entry[g] = table.entry[g]
                                       /\ table'.interest[g] = table.interest[g]
           /\ table'.entry[ev.fd] = NoEntry \/ table' = table
<1>1. ev \in Event /\ ev.fd \in Fds  BY OwnFacts DEF LoopTypes, Event
<1>2. CASE table.entry[ev.fd] = NoEntry  BY <1>1, <1>2, OwnFacts DEF Dispatch
<1>3. CASE table.entry[ev.fd] # NoEntry
  <2>1. loop = "batch" /\ batch' = batch \ {ev} /\ table' = Extract(table, ev.fd)
    BY <1>3 DEF Dispatch
  <2>2. Delivered(ev)  BY <1>3 DEF Dispatch, Delivered
  <2>3. Sound(table)  BY OwnFacts
  <2>4. /\ Sound(table')
        /\ \A g \in Fds \ {ev.fd} : /\ table'.entry[g] = table.entry[g]
                                    /\ table'.interest[g] = table.interest[g]
        /\ table'.entry[ev.fd] = NoEntry \/ table' = table
    BY <1>1, <2>1, <2>3, ExtractForms
  <2>. QED  BY <1>1, <1>3, <2>1, <2>2, <2>4, OwnFacts
<1>. QED  BY <1>2, <1>3

LEMMA DispatchOwn ==
    ASSUME OwnInv, NEW ev \in batch, Dispatch(ev)
    PROVE  OwnInv'
<1>0. loop = "batch" /\ ev.fd \in Fds /\ batch' \subseteq batch
  BY DispatchForms DEF Event
<1>1. /\ Sound(table')
      /\ \A g \in Fds : table'.entry[g] = table.entry[g] \/ table'.entry[g] = NoEntry
  BY <1>0, DispatchForms
<1>2. /\ CallTypes' /\ KernelTypes' /\ Adopts(ev.fd) /\ loop' \in {"batch", "callback"}
  <2>1. CASE NothingToFire
    BY <1>0, <2>1, OwnFacts DEF NothingToFire, kernelVars, CallTypes, KernelTypes, Adopts
  <2>2. CASE Delivered(ev) /\ table.entry[ev.fd].watcher \in Sockets
    <3>1. CASE OnCanRead(table.entry[ev.fd].watcher, ev.fd)
      BY <1>0, <2>2, <3>1, CanReadForms
    <3>2. CASE OnCanWrite(table.entry[ev.fd].watcher, ev.fd)
      BY <1>0, <2>2, <3>2, CanWriteForms DEF Adopts
    <3>. QED  BY <2>1, <2>2, <3>1, <3>2 DEF Delivered
  <2>. QED  BY <2>1, <2>2, DispatchForms
<1>3. LoopTypes'  BY <1>0, <1>2, OwnFacts DEF LoopTypes, Loops
<1>. QED  BY <1>1, <1>2, <1>3, AdoptsOwn

LEMMA LoopOwn ==
    ASSUME OwnInv,
           EpollWait \/ EndBatch \/ EndUserCode
           \/ \E f \in Fds : ConnectionDone(f) \/ \E x \in Directions : BecomesReady(f, x)
    PROVE  OwnInv'
<1>1. CASE EpollWait \/ EndBatch \/ EndUserCode
  <2>1. UNCHANGED <<table, life, fd, slot, notify, status, role, readiness>>
    BY <1>1 DEF EpollWait, EndBatch, EndUserCode, socketVars, kernelVars
  <2>2. CallTypes' /\ KernelTypes' /\ Sound(table')
    BY <2>1, OwnFacts DEF CallTypes, KernelTypes
  <2>3. LoopTypes'
    <3>1. CASE EpollWait
      <4>1. table.interest \in [Fds -> SUBSET Directions]
        BY OwnFacts, TableForms DEF Sound
      <4>2. batch' \subseteq Event /\ loop' = "batch"
        BY <3>1, <4>1, OwnFacts DEF EpollWait, Event, KernelTypes
      <4>. QED  BY <4>2 DEF LoopTypes, Loops
    <3>2. CASE EndBatch
      BY <3>2, OwnFacts DEF EndBatch, LoopTypes, Loops
    <3>3. CASE EndUserCode
      BY <3>3, OwnFacts DEF EndUserCode, InUserCode, LoopTypes, Loops
    <3>. QED  BY <1>1, <3>1, <3>2, <3>3
  <2>. QED  BY <2>1, <2>2, <2>3, OwnSame
<1>2. ASSUME NEW f \in Fds, ConnectionDone(f)  PROVE OwnInv'
  <2>1. /\ UNCHANGED <<table, life, fd, slot, notify, status, loop, batch>>
        /\ role[f] = "connecting"
        /\ \E r \in {"stream", "failed"} : role' = [role EXCEPT ![f] = r]
        /\ \E z \in SUBSET Directions : readiness' = [readiness EXCEPT ![f] = z]
    BY <1>2 DEF ConnectionDone, socketVars, loopVars, Directions
  <2>2. CallTypes' /\ LoopTypes' /\ Sound(table')
    BY <2>1, OwnFacts DEF CallTypes, LoopTypes
  <2>3. /\ role' \in [Fds -> RoleNames]
        /\ \A g \in Fds : role'[g] = "closed" <=> role[g] = "closed"
    BY <2>1, OwnFacts DEF KernelTypes, RoleNames
  <2>4. readiness' \in [Fds -> SUBSET Directions]  BY <2>1, OwnFacts DEF KernelTypes
  <2>. QED  BY <2>1, <2>2, <2>3, <2>4, OwnSame DEF KernelTypes
<1>3. ASSUME NEW f \in Fds, NEW x \in Directions, BecomesReady(f, x)  PROVE OwnInv'
  <2>1. /\ UNCHANGED <<table, life, fd, slot, notify, status, role, loop, batch>>
        /\ readiness' = [readiness EXCEPT ![f] = @ \cup {x}]
    BY <1>3 DEF BecomesReady, socketVars, loopVars
  <2>2. CallTypes' /\ LoopTypes' /\ Sound(table')
    BY <2>1, OwnFacts DEF CallTypes, LoopTypes
  <2>3. KernelTypes'  BY <2>1, OwnFacts DEF KernelTypes
  <2>. QED  BY <2>1, <2>2, <2>3, OwnSame
<1>. QED  BY <1>1, <1>2, <1>3

LEMMA OwnStep ==
    ASSUME OwnInv, [TcpNext]_vars
    PROVE  OwnInv'
<1>1. ASSUME NEW s \in Sockets, Open(s) \/ TcpListen(s)  PROVE OwnInv'
  BY <1>1, OpenOwn
<1>2. ASSUME NEW s \in Sockets, Listen(s)  PROVE OwnInv'  BY <1>2, ListenOwn
<1>3. ASSUME NEW s \in Sockets, NEW o \in Ops, Connect(s, o) \/ TcpConnect(s, o)
      PROVE  OwnInv'
  BY <1>3, ConnectOwn
<1>4. ASSUME NEW s \in Sockets, NEW o \in Ops, Accept(s, o) \/ Streamed(s, o)
      PROVE  OwnInv'
  BY <1>4, StreamOwn DEF Streamed
<1>5. ASSUME NEW s \in Sockets, NEW x \in Slots, Cancel(s, x)  PROVE OwnInv'
  BY <1>5, CancelOwn
<1>6. ASSUME NEW s \in Sockets, Disconnect(s)  PROVE OwnInv'
  BY <1>6, CloseOwn DEF Disconnect
<1>7. ASSUME NEW ev \in batch, Dispatch(ev)  PROVE OwnInv'  BY <1>7, DispatchOwn
<1>8. CASE EpollWait \/ EndBatch \/ EndUserCode
           \/ \E f \in Fds : ConnectionDone(f) \/ \E x \in Directions : BecomesReady(f, x)
  BY <1>8, LoopOwn
<1>9. CASE UNCHANGED vars
  <2>1. UNCHANGED <<table, life, fd, slot, notify, status, role, readiness, loop, batch>>
    BY <1>9 DEF vars, socketVars, kernelVars, loopVars
  <2>2. CallTypes' /\ KernelTypes' /\ LoopTypes' /\ Sound(table')
    BY <2>1, OwnFacts DEF CallTypes, KernelTypes, LoopTypes
  <2>. QED  BY <2>1, <2>2, OwnSame
<1>. QED
  BY <1>1, <1>2, <1>3, <1>4, <1>5, <1>6, <1>7, <1>8, <1>9 DEF TcpNext, Forwarded, LoopStep

LEMMA OwnInit ==
    ASSUME Init
    PROVE  OwnInv
<1>1. table = EmptyTable  BY DEF Init
<1>2. /\ table.entry = [f \in Fds |-> NoEntry] /\ table.interest = [f \in Fds |-> {}]
      /\ table.ctl = [c \in Sockets \X Sides |-> Unbound] /\ table.next = 0
  BY <1>1 DEF EmptyTable, Sides
<1>3. table \in Table  BY <1>1 DEF EmptyTable, Table
<1>4. Sound(table)  BY <1>2, <1>3 DEF Sound, Tied, Known, Told
<1>5. CallTypes /\ HandleTypes
  BY DEF Init, CallTypes, HandleTypes, Statuses, Lives
<1>6. KernelTypes /\ LoopTypes
  BY DEF Init, KernelTypes, LoopTypes, RoleNames, Loops
<1>7. WatchOwned /\ OneOwner /\ Closed
  BY <1>2 DEF Init, WatchOwned, OneOwner, Closed
<1>. QED  BY <1>3, <1>4, <1>5, <1>6, <1>7, TypesFolded DEF OwnInv

-----------------------------------------------------------------------------
(* Who waits is armed *)

LEMMA ArmFacts ==
    ASSUME ArmInv, NEW s \in Sockets, NEW x \in Slots, slot[s][x] # NoOp
    PROVE  /\ OwnInv /\ fd[s] \in Fds /\ life[s] = "live"
           /\ table.entry[fd[s]] # NoEntry /\ table.entry[fd[s]].watcher = s
           /\ table.entry[fd[s]].mode = WatchFor(x)
           /\ table.interest[fd[s]] = Events(WatchFor(x))
           /\ \A q \in Sockets \ {s} : fd[q] # fd[s]
           /\ \A y \in Slots \ {x} : slot[s][y] = NoOp
<1>1. /\ OwnInv /\ fd[s] \in Fds
      /\ table.entry[fd[s]] # NoEntry /\ table.entry[fd[s]].watcher = s
      /\ table.entry[fd[s]].mode = WatchFor(x)
      /\ table.interest[fd[s]] = Events(WatchFor(x))
  BY DEF ArmInv, Fitting, PendingAt
<1>2. fd[s] # NoFd  BY <1>1, OwnFacts
<1>3. life[s] = "live" /\ \A q \in Sockets \ {s} : fd[q] # fd[s]
  BY <1>1, <1>2, OwnFacts DEF Closed, OneOwner
<1>4. \A y \in Slots \ {x} : slot[s][y] = NoOp
  <2>. SUFFICES ASSUME NEW y \in Slots \ {x}, slot[s][y] # NoOp PROVE FALSE  OBVIOUS
  <2>1. WatchFor(x) = WatchFor(y)  BY <1>1 DEF ArmInv, Fitting, PendingAt
  <2>2. RolesAt(s)  BY DEF ArmInv, Fitting
  <2>. QED  BY <2>1, <2>2 DEF RolesAt, WatchFor, Slots
<1>. QED  BY <1>1, <1>3, <1>4

\* A socket of which no callback is new, and whose watch stays if one waits.
LEMMA SocketKept ==
    ASSUME ArmInv, NEW q \in Sockets,
           \A x \in Slots : slot'[q][x] # NoOp => slot'[q][x] = slot[q][x],
           (\E x \in Slots : slot'[q][x] # NoOp) =>
              /\ fd'[q] = fd[q]
              /\ table'.entry[fd[q]] = table.entry[fd[q]]
              /\ table'.interest[fd[q]] = table.interest[fd[q]]
              /\ \/ role'[fd[q]] = role[fd[q]]
                 \/ role[fd[q]] = "connecting" /\ role'[fd[q]] \in {"stream", "failed"}
    PROVE  PendingAt(q)' /\ RolesAt(q)'
<1>1. PendingAt(q) /\ RolesAt(q)  BY DEF ArmInv, Fitting
<1>2. PendingAt(q)'  BY <1>1 DEF PendingAt
<1>3. RolesAt(q)'
  <2>1. {"read", "write", "accept", "connect"} \subseteq Slots  BY DEF Slots
  <2>2. CASE \A x \in Slots : slot'[q][x] = NoOp  BY <2>1, <2>2 DEF RolesAt
  <2>3. CASE \E x \in Slots : slot'[q][x] # NoOp
    <3>1. PICK x \in Slots : slot'[q][x] # NoOp  BY <2>3
    <3>2. /\ slot[q][x] # NoOp
          /\ \A y \in Slots \ {x} : slot'[q][y] = NoOp
      <4>1. slot[q][x] # NoOp  BY <3>1
      <4>2. \A y \in Slots \ {x} : slot[q][y] = NoOp  BY <4>1, ArmFacts
      <4>. QED  BY <4>1, <4>2
    <3>3. /\ fd'[q] = fd[q]
          /\ \/ role'[fd[q]] = role[fd[q]]
             \/ role[fd[q]] = "connecting" /\ role'[fd[q]] \in {"stream", "failed"}
      BY <2>3
    <3>. QED  BY <1>1, <2>1, <3>1, <3>2, <3>3 DEF RolesAt, Slots
  <2>. QED  BY <2>2, <2>3
<1>. QED  BY <1>2, <1>3

LEMMA UndeliveredKept ==
    ASSUME ArmInv, batch' \subseteq batch,
           \A ev \in batch' : \/ table'.entry[ev.fd] = table.entry[ev.fd]
                              \/ table'.entry[ev.fd] = NoEntry
    PROVE  Undelivered'
BY DEF ArmInv, Undelivered

LEMMA OpenArm ==
    ASSUME ArmInv, NEW s \in Sockets, Open(s) \/ TcpListen(s)
    PROVE  ArmInv'
<1>0. OwnInv /\ OwnInv'  BY OpenOwn DEF ArmInv
<1>1. PICK f \in Fds, r \in {"fresh", "listening"} : Opened(s, f, r, {})
  BY DEF Open, TcpListen
<1>2. fd[s] = NoFd /\ UNCHANGED <<table, slot, notify, status, loop, batch>>
  BY DEF Open, TcpListen, Unopened, loopVars
<1>3. /\ role[f] = "closed"
      /\ \A q \in Sockets \ {s} : fd'[q] = fd[q]
      /\ \A g \in Fds \ {f} : role'[g] = role[g]
  BY <1>0, <1>1, OwnFacts DEF Opened, HandleTypes, KernelTypes
<1>4. ASSUME NEW q \in Sockets  PROVE PendingAt(q)' /\ RolesAt(q)'
  <2>1. CASE \A x \in Slots : slot[q][x] = NoOp  BY <1>2, <2>1, SocketKept
  <2>2. CASE \E x \in Slots : slot[q][x] # NoOp
    <3>1. fd[q] \in Fds  BY <2>2, ArmFacts
    <3>2. q # s /\ fd[q] # f
      BY <1>0, <1>2, <1>3, <3>1, OwnFacts DEF OneOwner
    <3>. QED  BY <1>2, <1>3, <3>1, <3>2, SocketKept
  <2>. QED  BY <2>1, <2>2
<1>5. Undelivered'  BY <1>2, UndeliveredKept
<1>. QED  BY <1>0, <1>4, <1>5 DEF ArmInv, Fitting

LEMMA ListenArm ==
    ASSUME ArmInv, NEW s \in Sockets, Listen(s)
    PROVE  ArmInv'
<1>0. OwnInv /\ OwnInv'  BY ListenOwn DEF ArmInv
<1>1. /\ fd[s] \in Fds /\ fd[s] # NoFd /\ role[fd[s]] = "fresh"
      /\ role' = [role EXCEPT ![fd[s]] = "listening"]
      /\ UNCHANGED <<table, life, fd, slot, notify, status, readiness, loop, batch>>
  BY <1>0, OwnFacts DEF Listen, socketVars, loopVars, HandleTypes
<1>2. \A g \in Fds \ {fd[s]} : role'[g] = role[g]  BY <1>0, <1>1, OwnFacts DEF KernelTypes
<1>4. ASSUME NEW q \in Sockets  PROVE PendingAt(q)' /\ RolesAt(q)'
  <2>1. CASE \A x \in Slots : slot[q][x] = NoOp  BY <1>1, <2>1, SocketKept
  <2>2. CASE \E x \in Slots : slot[q][x] # NoOp
    <3>1. fd[q] \in Fds /\ (q # s => fd[q] # fd[s])  BY <2>2, ArmFacts
    <3>2. q # s
      <4>1. RolesAt(q)  BY DEF ArmInv, Fitting
      <4>. QED  BY <1>1, <2>2, <4>1 DEF RolesAt, Slots
    <3>. QED  BY <1>1, <1>2, <3>1, <3>2, SocketKept
  <2>. QED  BY <2>1, <2>2
<1>5. Undelivered'  BY <1>1, UndeliveredKept
<1>. QED  BY <1>0, <1>4, <1>5 DEF ArmInv, Fitting

\* A callback that has to wait is the only one of its socket, and its watch is armed.
LEMMA SuspendArm ==
    ASSUME ArmInv, OwnInv', NEW s \in Sockets, NEW f \in Fds, NEW o \in Ops, NEW x \in Slots,
           NEW n \in SUBSET Ops, Suspend(s, f, o, x, n),
           \A y \in Slots \ {x} : slot[s][y] = NoOp,
           \A q \in Sockets \ {s} : fd[q] # f /\ fd'[q] = fd[q],
           fd'[s] = f,
           \A g \in Fds \ {f} : role'[g] = role[g],
           x \in {"read", "write"} => role'[f] = "stream",
           x = "accept" => role'[f] = "listening",
           x = "connect" => role'[f] = "connecting",
           \A ev \in batch : ev.fd # f,
           batch' = batch
    PROVE  ArmInv'
<1>0. OwnInv  BY DEF ArmInv
<1>1. /\ table'.entry[f] # NoEntry /\ table'.entry[f].watcher = s
      /\ table'.entry[f].mode = WatchFor(x)
      /\ table'.interest[f] = Events(WatchFor(x))
      /\ \A g \in Fds \ {f} :
            \/ table'.entry[g] = table.entry[g] /\ table'.interest[g] = table.interest[g]
            \/ /\ table'.entry[g] = NoEntry
               /\ table.entry[g] # NoEntry /\ table.entry[g].watcher = s
  BY <1>0, SuspendEntries
<1>2. /\ slot'[s][x] = o /\ \A y \in Slots \ {x} : slot'[s][y] = NoOp
      /\ \A q \in Sockets \ {s} : slot'[q] = slot[q]
  <2>1. slot' = [slot EXCEPT ![s][x] = o]  BY DEF Suspend
  <2>. QED  BY <1>0, <2>1, OwnFacts DEF CallTypes
<1>3. PendingAt(s)'  BY <1>1, <1>2 DEF PendingAt
<1>4. RolesAt(s)'  BY <1>2 DEF RolesAt, Slots
<1>5. ASSUME NEW q \in Sockets \ {s}  PROVE PendingAt(q)' /\ RolesAt(q)'
  <2>1. CASE \A y \in Slots : slot[q][y] = NoOp  BY <1>2, <2>1, SocketKept
  <2>2. CASE \E y \in Slots : slot[q][y] # NoOp
    <3>1. fd[q] \in Fds /\ table.entry[fd[q]].watcher = q  BY <2>2, ArmFacts
    <3>2. /\ table'.entry[fd[q]] = table.entry[fd[q]]
          /\ table'.interest[fd[q]] = table.interest[fd[q]]
      BY <1>1, <3>1
    <3>. QED  BY <1>2, <3>1, <3>2, SocketKept
  <2>. QED  BY <2>1, <2>2
<1>6. Undelivered'
  <2>1. \A ev \in batch : ev.fd \in Fds  BY <1>0, OwnFacts DEF LoopTypes, Event
  <2>. QED  BY <1>1, <2>1, UndeliveredKept
<1>. QED  BY <1>3, <1>4, <1>5, <1>6 DEF ArmInv, Fitting

LEMMA ConnectArm ==
    ASSUME ArmInv, Eager = FALSE, NEW s \in Sockets, NEW o \in Ops,
           Connect(s, o) \/ TcpConnect(s, o)
    PROVE  ArmInv'
<1>0. OwnInv /\ OwnInv'  BY ConnectOwn DEF ArmInv
<1>1. PICK f \in Fds :
         /\ Connecting(s, f, o) /\ fd'[s] = f /\ batch' = batch
         /\ \A q \in Sockets \ {s} : fd[q] # f /\ fd'[q] = fd[q]
         /\ \A x \in Slots : slot[s][x] = NoOp
         /\ \A ev \in batch : ev.fd # f
  <2>1. CASE Connect(s, o)
    <3>1. /\ fd[s] # NoFd /\ role[fd[s]] = "fresh" /\ Connecting(s, fd[s], o)
          /\ fd' = fd /\ batch' = batch /\ \A ev \in batch : ev.fd # fd[s]
      BY <2>1 DEF Connect, MayStart, loopVars
    <3>2. fd[s] \in Fds /\ \A q \in Sockets \ {s} : fd[q] # fd[s]
      BY <1>0, <3>1, OwnFacts DEF HandleTypes, OneOwner
    <3>3. \A x \in Slots : slot[s][x] = NoOp
      <4>1. RolesAt(s)  BY DEF ArmInv, Fitting
      <4>. QED  BY <3>1, <4>1 DEF RolesAt, Slots
    <3>. QED  BY <3>1, <3>2, <3>3
  <2>2. CASE TcpConnect(s, o)
    <3>1. PICK f \in Fds : /\ role[f] = "closed" /\ fd' = [fd EXCEPT ![s] = f]
                           /\ Connecting(s, f, o) /\ \A ev \in batch : ev.fd # f
      BY <2>2 DEF TcpConnect
    <3>2. fd[s] = NoFd /\ batch' = batch  BY <2>2 DEF TcpConnect, Unopened, loopVars
    <3>3. fd'[s] = f /\ \A q \in Sockets \ {s} : fd'[q] = fd[q]
      BY <1>0, <3>1, OwnFacts DEF HandleTypes
    <3>4. \A q \in Sockets \ {s} : fd[q] # f  BY <1>0, <3>1, OwnFacts DEF OneOwner
    <3>5. \A x \in Slots : slot[s][x] = NoOp  BY <1>0, <3>2, ArmFacts, OwnFacts
    <3>. QED  BY <3>1, <3>2, <3>3, <3>4, <3>5
  <2>. QED  BY <2>1, <2>2
<1>2. /\ \A g \in Fds \ {f} : role'[g] = role[g]
      /\ \/ CompletedNow
         \/ Suspend(s, f, o, "connect", notify) /\ role'[f] = "connecting"
  BY <1>0, <1>1, ConnectingForms
<1>3. CASE CompletedNow
  <2>1. UNCHANGED <<table, slot>>  BY <1>3 DEF CompletedNow
  <2>2. ASSUME NEW q \in Sockets  PROVE PendingAt(q)' /\ RolesAt(q)'
    <3>1. CASE \A x \in Slots : slot[q][x] = NoOp  BY <2>1, <3>1, SocketKept
    <3>2. CASE \E x \in Slots : slot[q][x] # NoOp
      <4>1. fd[q] \in Fds /\ q # s  BY <1>1, <3>2, ArmFacts
      <4>. QED  BY <1>1, <1>2, <2>1, <4>1, SocketKept
    <3>. QED  BY <3>1, <3>2
  <2>3. Undelivered'  BY <1>1, <2>1, UndeliveredKept
  <2>. QED  BY <1>0, <2>2, <2>3 DEF ArmInv, Fitting
<1>4. CASE Suspend(s, f, o, "connect", notify) /\ role'[f] = "connecting"
  <2>1. "connect" \in Slots /\ notify \in SUBSET Ops
    BY <1>0, OwnFacts DEF Slots, CallTypes
  <2>. QED  BY <1>0, <1>1, <1>2, <1>4, <2>1, SuspendArm
<1>. QED  BY <1>2, <1>3, <1>4

\* The sockets after do_accept has adopted a descriptor, for those without a callback
\* in the step itself.
LEMMA AdoptsKept ==
    ASSUME ArmInv, NEW f, Adopts(f), NEW q \in Sockets, slot'[q] = slot[q],
           (\E x \in Slots : slot[q][x] # NoOp) =>
              /\ table'.entry[fd[q]] = table.entry[fd[q]]
              /\ table'.interest[fd[q]] = table.interest[fd[q]]
    PROVE  PendingAt(q)' /\ RolesAt(q)'
<1>0. OwnInv  BY DEF ArmInv
<1>1. CASE \A x \in Slots : slot[q][x] = NoOp  BY <1>1, SocketKept
<1>2. CASE \E x \in Slots : slot[q][x] # NoOp
  <2>1. fd[q] \in Fds /\ life[q] = "live" /\ fd[q] # NoFd  BY <1>0, <1>2, ArmFacts, OwnFacts
  <2>2. role[fd[q]] # "closed"  BY <1>0, <2>1, OwnFacts DEF OneOwner
  <2>3. fd'[q] = fd[q] /\ role'[fd[q]] = role[fd[q]]
    <3>1. CASE UNCHANGED <<life, fd, role>>  BY <3>1
    <3>2. CASE \E p \in Sockets, g \in Fds :
                  /\ life[p] = "unborn" /\ role[g] = "closed"
                  /\ life' = [life EXCEPT ![p] = "live"]
                  /\ fd' = [fd EXCEPT ![p] = g]
                  /\ role' = [role EXCEPT ![g] = "stream"]
      BY <1>0, <2>1, <2>2, <3>2, OwnFacts DEF HandleTypes, KernelTypes
    <3>. QED  BY <3>1, <3>2 DEF Adopts
  <2>. QED  BY <1>2, <2>1, <2>3, SocketKept
<1>. QED  BY <1>1, <1>2

LEMMA StreamArm ==
    ASSUME ArmInv, Eager = FALSE, FullDuplex = FALSE, NEW s \in Sockets, NEW o \in Ops,
           Read(s, o) \/ ReadIfReady(s, o) \/ Write(s, o) \/ Accept(s, o)
    PROVE  ArmInv'
<1>0. OwnInv /\ OwnInv' /\ UNCHANGED <<loop, batch>>  BY StreamOwn, StreamForms DEF ArmInv
<1>1. PICK x \in Slots \ {"connect"} :
         MayStart(s, o, x, RoleFor(x)) /\ (Quick(s, x) \/ Waits(s, o, x))
  BY <1>0, StreamForms
<1>2. /\ fd[s] \in Fds /\ fd[s] # NoFd /\ role[fd[s]] = RoleFor(x)
      /\ slot[s]["connect"] = NoOp /\ (\A y \in Opposite(x) : slot[s][y] = NoOp)
      /\ \A ev \in batch : ev.fd # fd[s]
  BY <1>0, <1>1, OwnFacts DEF MayStart, HandleTypes
<1>3. CASE Quick(s, x)
  <2>1. UNCHANGED <<table, slot, notify, status>> /\ Adopts(fd[s])
    BY <1>0, <1>2, <1>3, QuickForms
  <2>2. ASSUME NEW q \in Sockets  PROVE PendingAt(q)' /\ RolesAt(q)'
    BY <2>1, AdoptsKept
  <2>3. Undelivered'  BY <1>0, <2>1, UndeliveredKept
  <2>. QED  BY <1>0, <2>2, <2>3 DEF ArmInv, Fitting
<1>4. CASE Waits(s, o, x)
  <2>1. PICK n \in SUBSET Ops : Suspend(s, fd[s], o, x, n)  BY <1>4 DEF Waits
  <2>2. UNCHANGED <<fd, role>>  BY <1>4 DEF Waits
  <2>3. \A q \in Sockets \ {s} : fd[q] # fd[s] /\ fd'[q] = fd[q]
    BY <1>0, <1>2, <2>2, OwnFacts DEF OneOwner
  <2>4. \A y \in Slots \ {x} : slot[s][y] = NoOp
    <3>1. RolesAt(s)  BY DEF ArmInv, Fitting
    <3>. QED  BY <1>2, <3>1 DEF RolesAt, RoleFor, Opposite, Slots
  <2>5. /\ x \in {"read", "write"} => role'[fd[s]] = "stream"
        /\ x = "accept" => role'[fd[s]] = "listening"
    BY <1>2, <2>2 DEF RoleFor
  <2>. QED  BY <1>0, <1>2, <2>1, <2>2, <2>3, <2>4, <2>5, SuspendArm
<1>. QED  BY <1>1, <1>3, <1>4

LEMMA CancelArm ==
    ASSUME ArmInv, NEW s \in Sockets, NEW x \in Slots, Cancel(s, x)
    PROVE  ArmInv'
<1>0. OwnInv /\ OwnInv'  BY CancelOwn DEF ArmInv
<1>1. PICK d \in Sides : d = IF x = "write" THEN "write" ELSE "read"  BY DEF Sides
<1>2. /\ Discard(s, {x}) /\ table' = Stop(table, <<s, d>>)
      /\ x # "connect" /\ slot[s][Twin(x)] = NoOp
      /\ UNCHANGED <<life, fd, role, readiness, loop, batch>>
  BY <1>1 DEF Cancel, kernelVars, loopVars
<1>3. /\ \A y \in Slots : slot'[s][y] = IF y = x THEN NoOp ELSE slot[s][y]
      /\ \A q \in Sockets \ {s} : slot'[q] = slot[q]
  BY <1>0, <1>2, OwnFacts, DiscardTypes
<1>4. \A f \in Fds :
         \/ table'.entry[f] = table.entry[f] /\ table'.interest[f] = table.interest[f]
         \/ /\ table'.entry[f] = NoEntry
            /\ table.entry[f] # NoEntry /\ table.entry[f].watcher = s
            /\ table.entry[f].mode = Mode(d)
  <2>1. Sound(table)  BY <1>0, OwnFacts
  <2>2. table' = Stop(table, <<s, d>>)  BY <1>2
  <2>. QED  BY <1>1, <2>1, <2>2, StoppedTable
<1>5. ASSUME NEW q \in Sockets  PROVE PendingAt(q)' /\ RolesAt(q)'
  <2>1. CASE q = s
    <3>1. CASE \A y \in Slots : slot'[s][y] = NoOp  BY <2>1, <3>1, SocketKept
    <3>2. CASE \E y \in Slots : slot'[s][y] # NoOp
      <4>1. PICK y \in Slots : slot'[s][y] # NoOp  BY <3>2
      <4>2. y # x /\ slot[s][y] # NoOp /\ y # Twin(x)  BY <1>2, <1>3, <4>1
      <4>3. fd[s] \in Fds /\ table.entry[fd[s]].mode = WatchFor(y)  BY <4>2, ArmFacts
      <4>4. WatchFor(y) # Mode(d)
        BY <1>1, <1>2, <4>2 DEF WatchFor, Mode, Twin, Slots
      <4>5. /\ table'.entry[fd[s]] = table.entry[fd[s]]
            /\ table'.interest[fd[s]] = table.interest[fd[s]]
        BY <1>4, <4>3, <4>4
      <4>. QED  BY <1>2, <1>3, <2>1, <4>5, SocketKept
    <3>. QED  BY <3>1, <3>2
  <2>2. CASE q # s
    <3>1. CASE \A y \in Slots : slot[q][y] = NoOp  BY <1>3, <2>2, <3>1, SocketKept
    <3>2. CASE \E y \in Slots : slot[q][y] # NoOp
      <4>1. fd[q] \in Fds /\ table.entry[fd[q]].watcher = q  BY <3>2, ArmFacts
      <4>2. /\ table'.entry[fd[q]] = table.entry[fd[q]]
            /\ table'.interest[fd[q]] = table.interest[fd[q]]
        BY <1>4, <2>2, <4>1
      <4>. QED  BY <1>2, <1>3, <2>2, <4>2, SocketKept
    <3>. QED  BY <3>1, <3>2
  <2>. QED  BY <2>1, <2>2
<1>6. Undelivered'
  <2>1. \A ev \in batch : ev.fd \in Fds  BY <1>0, OwnFacts DEF LoopTypes, Event
  <2>. QED  BY <1>2, <1>4, <2>1, UndeliveredKept
<1>. QED  BY <1>0, <1>5, <1>6 DEF ArmInv, Fitting

LEMMA CloseArm ==
    ASSUME ArmInv, NEW s \in Sockets, Close(s) \/ DropSocket(s)
    PROVE  ArmInv'
<1>0. OwnInv /\ OwnInv'  BY CloseOwn DEF ArmInv
<1>1. /\ \A x \in Slots : slot'[s][x] = NoOp
      /\ \A q \in Sockets \ {s} : slot'[q] = slot[q]
      /\ CloseFd(s) /\ fd' = [fd EXCEPT ![s] = NoFd] /\ batch' = batch
  BY <1>0, CloseForms
<1>2. \A f \in Fds : \/ /\ table'.entry[f] = table.entry[f]
                        /\ f # fd[s] => table'.interest[f] = table.interest[f]
                     \/ /\ table'.entry[f] = NoEntry
                        /\ table.entry[f].watcher = s
  BY <1>0, CloseForms
<1>3. /\ \A q \in Sockets \ {s} : fd'[q] = fd[q]
      /\ \A f \in Fds : f # fd[s] => role'[f] = role[f]
  BY <1>0, <1>1, OwnFacts, CloseFdForms DEF HandleTypes
<1>4. ASSUME NEW q \in Sockets  PROVE PendingAt(q)' /\ RolesAt(q)'
  <2>1. CASE \A y \in Slots : slot'[q][y] = NoOp  BY <2>1, SocketKept
  <2>2. CASE \E y \in Slots : slot'[q][y] # NoOp
    <3>1. q # s /\ \E y \in Slots : slot[q][y] # NoOp  BY <1>1, <2>2
    <3>2. fd[q] \in Fds /\ table.entry[fd[q]].watcher = q /\ fd[q] # fd[s]
      BY <3>1, ArmFacts
    <3>. QED  BY <1>1, <1>2, <1>3, <3>1, <3>2, SocketKept
  <2>. QED  BY <2>1, <2>2
<1>5. Undelivered'
  <2>1. \A ev \in batch : ev.fd \in Fds  BY <1>0, OwnFacts DEF LoopTypes, Event
  <2>. QED  BY <1>1, <1>2, <2>1, UndeliveredKept
<1>. QED  BY <1>0, <1>4, <1>5 DEF ArmInv, Fitting

\* An event with an entry leaves no callback waiting behind the watch it takes.
LEMMA DispatchArm ==
    ASSUME ArmInv, NEW ev \in batch, Dispatch(ev)
    PROVE  ArmInv'
<1>0. OwnInv /\ OwnInv'  BY DispatchOwn DEF ArmInv
<1>1. /\ loop = "batch" /\ ev.fd \in Fds /\ ev.flags \in SUBSET Directions
      /\ batch' = batch \ {ev}
      /\ \A g \in Fds \ {ev.fd} : /\ table'.entry[g] = table.entry[g]
                                  /\ table'.interest[g] = table.interest[g]
      /\ table'.entry[ev.fd] = NoEntry \/ table' = table
  BY <1>0, DispatchForms DEF Event
<1>2. Undelivered'
  <2>1. \A v \in batch : v.fd \in Fds  BY <1>0, OwnFacts DEF LoopTypes, Event
  <2>. QED  BY <1>1, <2>1, UndeliveredKept
<1>3. CASE UNCHANGED table /\ NothingToFire
  <2>1. UNCHANGED <<slot, fd, role>>  BY <1>3 DEF NothingToFire, kernelVars
  <2>2. ASSUME NEW q \in Sockets  PROVE PendingAt(q)' /\ RolesAt(q)'
    BY <1>3, <2>1, SocketKept
  <2>. QED  BY <1>0, <1>2, <2>2 DEF ArmInv, Fitting
<1>4. CASE /\ table.entry[ev.fd] # NoEntry /\ table' = Extract(table, ev.fd)
           /\ Delivered(ev) /\ table.entry[ev.fd].watcher \in Sockets
  <2>. DEFINE e == table.entry[ev.fd]
              s == e.watcher
  <2>1. s \in Sockets /\ fd[s] = ev.fd  BY <1>0, <1>1, <1>4, OwnFacts DEF WatchOwned
  <2>2. ev.flags \cap Events(e.mode) # {}  BY <1>4 DEF ArmInv, Undelivered
  <2>3. /\ Adopts(ev.fd)
        /\ \A q \in Sockets \ {s} : slot'[q] = slot[q]
        /\ \/ \E x \in Slots :
                 /\ slot[s][x] # NoOp /\ slot'[s][x] = NoOp
                 /\ \A y \in Slots \ {x} : slot'[s][y] = slot[s][y]
           \/ slot' = slot /\ \A x \in Slots : slot[s][x] = NoOp
    <3>1. CASE CanRead(e, ev.flags)
      <4>1. OnCanRead(s, ev.fd)
        <5>1. e.mode \in {"Read", "Write"}  BY <1>0, <1>1, <1>4, OwnFacts, ModeForms
        <5>2. ~CanWrite(e, ev.flags)  BY <3>1, <5>1 DEF CanRead, CanWrite, Events
        <5>. QED  BY <1>4, <3>1, <5>2 DEF Delivered
      <4>2. /\ Adopts(ev.fd)
            /\ \A q \in Sockets \ {s} : slot'[q] = slot[q]
            /\ \/ \E x \in {"accept", "read"} :
                     /\ slot[s][x] # NoOp /\ slot'[s][x] = NoOp
                     /\ \A y \in Slots \ {x} : slot'[s][y] = slot[s][y]
               \/ slot' = slot /\ slot[s]["accept"] = NoOp /\ slot[s]["read"] = NoOp
        <5>. HIDE DEF s
        <5>. QED  BY <1>0, <1>1, <2>1, <4>1, CanReadForms
      <4>3. \A x \in Slots : slot[s][x] # NoOp => x \in {"accept", "read"}
        <5>1. ASSUME NEW x \in Slots, slot[s][x] # NoOp  PROVE x \in {"accept", "read"}
          <6>1. e.mode = WatchFor(x)  BY <2>1, <5>1, ArmFacts
          <6>. QED  BY <3>1, <6>1 DEF CanRead, Events, WatchFor
        <5>. QED  BY <5>1
      <4>. QED  BY <4>2, <4>3 DEF Slots
    <3>2. CASE ~CanRead(e, ev.flags) /\ CanWrite(e, ev.flags)
      <4>1. OnCanWrite(s, ev.fd)  BY <1>4, <3>2 DEF Delivered
      <4>2. /\ UNCHANGED <<life, fd, role>>
            /\ \A q \in Sockets \ {s} : slot'[q] = slot[q]
            /\ \/ \E x \in {"connect", "write"} :
                     /\ slot[s][x] # NoOp /\ slot'[s][x] = NoOp
                     /\ \A y \in Slots \ {x} : slot'[s][y] = slot[s][y]
               \/ slot' = slot /\ slot[s]["connect"] = NoOp /\ slot[s]["write"] = NoOp
        <5>. HIDE DEF s
        <5>. QED  BY <1>0, <1>1, <2>1, <4>1, CanWriteForms
      <4>3. \A x \in Slots : slot[s][x] # NoOp => x \in {"connect", "write"}
        <5>1. ASSUME NEW x \in Slots, slot[s][x] # NoOp  PROVE x \in {"connect", "write"}
          <6>1. e.mode = WatchFor(x)  BY <2>1, <5>1, ArmFacts
          <6>. QED  BY <3>2, <6>1 DEF CanWrite, Events, WatchFor, Slots
        <5>. QED  BY <5>1
      <4>. QED  BY <4>2, <4>3 DEF Slots, Adopts
    <3>3. CASE ~CanRead(e, ev.flags) /\ ~CanWrite(e, ev.flags)
      <4>1. NothingToFire  BY <1>4, <3>3 DEF Delivered
      <4>2. UNCHANGED <<slot, life, fd, role>>  BY <4>1 DEF NothingToFire, kernelVars
      <4>3. ASSUME NEW x \in Slots, slot[s][x] # NoOp  PROVE FALSE
        <5>1. e.mode = WatchFor(x)  BY <2>1, <4>3, ArmFacts
        <5>. QED  BY <2>2, <3>3, <5>1 DEF CanRead, CanWrite, Events, WatchFor
      <4>. QED  BY <4>2, <4>3 DEF Adopts
    <3>. QED  BY <3>1, <3>2, <3>3
  <2>4. \A x \in Slots : slot'[s][x] = NoOp
    <3>1. CASE slot' = slot /\ \A x \in Slots : slot[s][x] = NoOp  BY <3>1
    <3>2. CASE \E x \in Slots :
                  /\ slot[s][x] # NoOp /\ slot'[s][x] = NoOp
                  /\ \A y \in Slots \ {x} : slot'[s][y] = slot[s][y]
      <4>. HIDE DEF s
      <4>. QED  BY <2>1, <3>2, ArmFacts
    <3>. QED  BY <2>3, <3>1, <3>2
  <2>. HIDE DEF s
  <2>5. ASSUME NEW q \in Sockets  PROVE PendingAt(q)' /\ RolesAt(q)'
    <3>1. CASE q = s  BY <2>1, <2>4, <3>1, SocketKept
    <3>2. CASE q # s
      <4>1. (\E x \in Slots : slot[q][x] # NoOp) => fd[q] \in Fds \ {ev.fd}
        BY <2>1, <3>2, ArmFacts
      <4>. QED  BY <1>1, <2>3, <3>2, <4>1, AdoptsKept
    <3>. QED  BY <3>1, <3>2
  <2>. QED  BY <1>0, <1>2, <2>5 DEF ArmInv, Fitting
<1>. QED  BY <1>0, <1>3, <1>4, DispatchForms

LEMMA LoopArm ==
    ASSUME ArmInv,
           EpollWait \/ EndBatch \/ EndUserCode
           \/ \E f \in Fds : ConnectionDone(f) \/ \E x \in Directions : BecomesReady(f, x)
    PROVE  ArmInv'
<1>0. OwnInv /\ OwnInv'  BY LoopOwn DEF ArmInv
<1>1. UNCHANGED <<table, fd, slot>>
  BY DEF EpollWait, EndBatch, EndUserCode, ConnectionDone, BecomesReady, socketVars
<1>2. \A g \in Fds : \/ role'[g] = role[g]
                     \/ role[g] = "connecting" /\ role'[g] \in {"stream", "failed"}
  <2>1. CASE role' = role  BY <2>1
  <2>2. CASE \E f \in Fds : ConnectionDone(f)
    BY <1>0, <2>2, OwnFacts DEF ConnectionDone, KernelTypes
  <2>. QED
    BY <2>1, <2>2 DEF EpollWait, EndBatch, EndUserCode, BecomesReady, kernelVars
<1>3. ASSUME NEW q \in Sockets  PROVE PendingAt(q)' /\ RolesAt(q)'
  <2>1. CASE \A x \in Slots : slot[q][x] = NoOp  BY <1>1, <2>1, SocketKept
  <2>2. CASE \E x \in Slots : slot[q][x] # NoOp
    <3>1. fd[q] \in Fds  BY <2>2, ArmFacts
    <3>. QED  BY <1>1, <1>2, <3>1, SocketKept
  <2>. QED  BY <2>1, <2>2
<1>4. Undelivered'
  <2>1. CASE EpollWait
    <3>. SUFFICES ASSUME NEW ev \in batch', table'.entry[ev.fd] # NoEntry
                  PROVE  ev.flags \cap Events(table'.entry[ev.fd].mode) # {}
      BY DEF Undelivered
    <3>1. PICK f \in Fds : /\ ev = [fd |-> f, flags |-> readiness[f] \cap table.interest[f]]
                           /\ readiness[f] \cap table.interest[f] # {}
      BY <2>1 DEF EpollWait
    <3>2. table.interest[f] \subseteq Events(table.entry[f].mode)
      BY <1>0, <1>1, <3>1, OwnFacts DEF Sound, Told
    <3>. QED  BY <1>1, <3>1, <3>2
  <2>2. CASE batch' = batch  BY <1>1, <2>2, UndeliveredKept
  <2>. QED
    BY <2>1, <2>2 DEF EndBatch, EndUserCode, ConnectionDone, BecomesReady, loopVars
<1>. QED  BY <1>0, <1>3, <1>4 DEF ArmInv, Fitting

LEMMA ArmStep ==
    ASSUME ArmInv, Eager = FALSE, FullDuplex = FALSE, [TcpNext]_vars
    PROVE  ArmInv'
<1>1. ASSUME NEW s \in Sockets, Open(s) \/ TcpListen(s)  PROVE ArmInv'
  BY <1>1, OpenArm
<1>2. ASSUME NEW s \in Sockets, Listen(s)  PROVE ArmInv'  BY <1>2, ListenArm
<1>3. ASSUME NEW s \in Sockets, NEW o \in Ops, Connect(s, o) \/ TcpConnect(s, o)
      PROVE  ArmInv'
  BY <1>3, ConnectArm
<1>4. ASSUME NEW s \in Sockets, NEW o \in Ops, Accept(s, o) \/ Streamed(s, o)
      PROVE  ArmInv'
  BY <1>4, StreamArm DEF Streamed
<1>5. ASSUME NEW s \in Sockets, NEW x \in Slots, Cancel(s, x)  PROVE ArmInv'
  BY <1>5, CancelArm
<1>6. ASSUME NEW s \in Sockets, Disconnect(s)  PROVE ArmInv'
  BY <1>6, CloseArm DEF Disconnect
<1>7. ASSUME NEW ev \in batch, Dispatch(ev)  PROVE ArmInv'  BY <1>7, DispatchArm
<1>8. CASE EpollWait \/ EndBatch \/ EndUserCode
           \/ \E f \in Fds : ConnectionDone(f) \/ \E x \in Directions : BecomesReady(f, x)
  BY <1>8, LoopArm
<1>9. CASE UNCHANGED vars
  <2>0. OwnInv'  BY OwnStep DEF ArmInv
  <2>1. UNCHANGED <<table, fd, slot, role, batch>>
    BY <1>9 DEF vars, socketVars, kernelVars, loopVars
  <2>2. ASSUME NEW q \in Sockets  PROVE PendingAt(q)' /\ RolesAt(q)'
    BY <2>1, SocketKept
  <2>3. Undelivered'  BY <2>1, UndeliveredKept
  <2>. QED  BY <2>0, <2>2, <2>3 DEF ArmInv, Fitting
<1>. QED
  BY <1>1, <1>2, <1>3, <1>4, <1>5, <1>6, <1>7, <1>8, <1>9 DEF TcpNext, Forwarded, LoopStep

-----------------------------------------------------------------------------
(* The theorems *)

\* Everything is of its type at every moment, and no event is left when the loop waits
\* or runs tasks.
THEOREM TypeCorrect == TcpSpec => []TypeOK
<1>1. Init => OwnInv  BY OwnInit
<1>2. OwnInv /\ [TcpNext]_vars => OwnInv'  BY OwnStep
<1>3. OwnInv => TypeOK  BY DEF OwnInv
<1>. QED  BY <1>1, <1>2, <1>3, PTL DEF TcpSpec

\* Every open descriptor is in one socket, and every watch belongs to the socket that
\* has its descriptor, whatever connect, listen, close and drop do in which order and
\* whichever number the kernel gives out.
THEOREM DescriptorsOwnedHolds == TcpSpec => []DescriptorsOwned
<1>1. Init => OwnInv  BY OwnInit
<1>2. OwnInv /\ [TcpNext]_vars => OwnInv'  BY OwnStep
<1>3. OwnInv => DescriptorsOwned  BY DEF OwnInv, DescriptorsOwned
<1>. QED  BY <1>1, <1>2, <1>3, PTL DEF TcpSpec

\* If user code does not read and write a socket at once, and starts nothing on a
\* descriptor of which an event is still to be delivered, then every callback that
\* waits has a watch of its direction, of which epoll knows.
THEOREM PendingArmedHolds ==
    ASSUME Eager = FALSE, FullDuplex = FALSE
    PROVE  TcpSpec => []PendingArmed
<1>1. Init => ArmInv
  <2>. SUFFICES ASSUME Init PROVE ArmInv  OBVIOUS
  <2>1. Fitting /\ Undelivered
    BY DEF Init, Fitting, PendingAt, RolesAt, Undelivered, Slots
  <2>. QED  BY <2>1, OwnInit DEF ArmInv
<1>2. ArmInv /\ [TcpNext]_vars => ArmInv'  BY ArmStep
<1>3. ArmInv => PendingArmed
  <2>. SUFFICES ASSUME ArmInv, NEW s \in Sockets, NEW x \in Slots, slot[s][x] # NoOp
                PROVE  /\ fd[s] # NoFd
                       /\ table.entry[fd[s]] # NoEntry /\ table.entry[fd[s]].watcher = s
                       /\ table.entry[fd[s]].mode = WatchFor(x)
                       /\ table.interest[fd[s]] = Events(table.entry[fd[s]].mode)
    BY DEF PendingArmed
  <2>1. OwnInv /\ fd[s] \in Fds  BY ArmFacts
  <2>. QED  BY <2>1, ArmFacts, OwnFacts
<1>. QED  BY <1>1, <1>2, <1>3, PTL DEF TcpSpec

\* What holds of the wrappers holds of a SocketPosix that is used directly: each of its
\* steps is one of theirs.
THEOREM SocketWithinTcp == Spec => TcpSpec
<1>1. Next => TcpNext  BY DEF Next, TcpNext, Call, Forwarded, Streamed, Disconnect
<1>2. [Next]_vars => [TcpNext]_vars  BY <1>1
<1>. QED  BY <1>2, PTL DEF Spec, TcpSpec
=============================================================================
