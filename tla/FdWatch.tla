------------------------------ MODULE FdWatch ------------------------------
(***************************************************************************)
(* The watches of an IoTaskRunner (rust_io/io_task_runner.rs) as data: the *)
(* map from file descriptors to entries, what the kernel's epoll instance  *)
(* reports for each descriptor, and the controllers in the hands of the    *)
(* users.  Each operator is one critical section or system call of the     *)
(* code; the modules that use it say who calls it, and when.               *)
(***************************************************************************)
EXTENDS Naturals

CONSTANTS Fds, Controllers, Watchers, NoEntry, Unbound

Modes == {"Read", "Write", "ReadWrite"}

\* mode_to_epoll_events
Events(mode) == CASE mode = "Read" -> {"in"}
                  [] mode = "Write" -> {"out"}
                  [] mode = "ReadWrite" -> {"in", "out"}

Directions == {"in", "out"}

Entry == [watcher : Watchers, mode : Modes, persistent : BOOLEAN, generation : Nat]

\* A table: `interest` is what epoll was told, {} for a descriptor it does not
\* know; `ctl` are the FdWatchControllers, Unbound while `runner` is None, for then
\* the other two fields are not read.
Table == [entry    : [Fds -> Entry \cup {NoEntry}],
          interest : [Fds -> SUBSET Directions],
          ctl      : [Controllers -> [fd : Fds, generation : Nat] \cup {Unbound}],
          next     : Nat]

EmptyTable ==
    [entry    |-> [fd \in Fds |-> NoEntry],
     interest |-> [fd \in Fds |-> {}],
     ctl      |-> [c \in Controllers |-> Unbound],
     next     |-> 0]

\* The entry of fd goes, and epoll forgets fd.
Removed(w, fd) == [w EXCEPT !.entry[fd] = NoEntry, !.interest[fd] = {}]

\* A slip to detect: the entry goes whoever made it.
UnregisterAny(w, fd, g) == IF w.entry[fd] # NoEntry THEN Removed(w, fd) ELSE w

\* unregister_fd: under the lock, only if the entry is of this generation.
Unregister(w, fd, g) ==
    IF w.entry[fd] # NoEntry /\ w.entry[fd].generation = g THEN Removed(w, fd) ELSE w

IsWatching(w, c) == w.ctl[c] # Unbound

\* stop_watching_file_descriptor, and the drop of a controller.
Stop(w, c) ==
    LET o == w.ctl[c] IN
    IF ~IsWatching(w, c) THEN w
    ELSE Unregister([w EXCEPT !.ctl[c] = Unbound], o.fd, o.generation)

\* fetch_add on the generation counter.
Draw(w) == [w EXCEPT !.next = @ + 1]

\* EPOLL_CTL_ADD, or EPOLL_CTL_MOD of a descriptor that epoll knows already: the
\* mode of the last caller replaces the one before.
Arm(w, fd, mode) == [w EXCEPT !.interest[fd] = Events(mode)]

\* The last part of watch_file_descriptor: one entry for each descriptor, so the
\* entry of another controller is overwritten.
Insert(w, c, fd, e) ==
    [w EXCEPT !.entry[fd] = e,
              !.ctl[c] = [fd |-> fd, generation |-> e.generation]]

\* A slip to detect: a one-shot watch stays registered.
ExtractKeeping(w, fd) == w

\* The loop takes the entry of fd for one event; a one-shot watch is over.
Extract(w, fd) == IF w.entry[fd].persistent THEN w ELSE Removed(w, fd)

\* What an event with these flags lets the loop call: the flags epoll reports may
\* be older than the entry, so they are masked with the mode of the entry.
CanRead(e, flags) == "in" \in flags /\ "in" \in Events(e.mode)
CanWrite(e, flags) == "out" \in flags /\ "out" \in Events(e.mode)
=============================================================================
