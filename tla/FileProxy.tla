----------------------------- MODULE FileProxy -----------------------------
(***************************************************************************)
(* FileProxy (rust_io/file_proxy.rs): an operation called on the IO thread *)
(* posts a closure to the proxy's sequence; there a worker opens the file, *)
(* transfers, closes it, and posts the callback back to the IO thread.     *)
(* Operations are numbered in the order of the calls; the content of the   *)
(* file is the number of the operation that changed it last.               *)
(***************************************************************************)
EXTENDS TaskRunners, FiniteSetsExt

CONSTANTS FileRunner,
          FileOps          \* the operations called

Whole == {"read_all", "write_all"}             \* one call of std::fs
Changes == {"write", "append", "write_all"}
FileKinds == Whole \cup Changes \cup {"read"}

ASSUME FileOpsAssumption == FileOps \subseteq FileKinds

VARIABLES asked,      \* operations called
          answered,   \* history: the callbacks called, in order
          open,       \* descriptors that are open, by the operation
          content,
          changed     \* history: the operations that changed the file

fileVars == <<asked, answered, open, content, changed>>

FileInit ==
    /\ asked = 0 /\ answered = <<>> /\ open = {} /\ content = 0 /\ changed = {}

\* IoTaskRunner::current is set on the IO thread alone.
HasCurrentRunner(c) == c = IoThread

\* Every method clones the path, takes the current IoTaskRunner, and posts.
FileCall(c) ==
    /\ HasCurrentRunner(c) /\ MayCall(c) /\ Calls /\ asked < MaxEach
    /\ asked' = asked + 1
    /\ \E op \in FileOps : fifo' = Posted(FileRunner, Work(op, asked + 1))
    /\ UNCHANGED <<later, run, token, default, call, answered, open, content, changed>>

\* The closure goes on at `at` with this result, which is empty for an error.
Result(t, at, ok) ==
    run' = [run EXCEPT ![t].at = at, ![t].locals = IF ok THEN <<content>> ELSE <<>>]

Change(t) == content' = run[t].task.id /\ changed' = changed \cup {run[t].task.id}
NoChange == UNCHANGED <<content, changed>>

\* blocking_pread, blocking_pwrite, blocking_append: open may fail, as may the
\* conversion of the path before it.
FileOpen(t) ==
    /\ Is(t, FileKinds \ Whole, "begin")
    /\ \/ Result(t, "reply", FALSE) /\ UNCHANGED open
       \/ MoveTo(t, "transfer") /\ open' = open \cup {run[t].task.id}
    /\ UNCHANGED <<fifo, later, token, default, callVars,
                   asked, answered, content, changed>>

Transfer(t) ==
    /\ Is(t, FileKinds \ Whole, "transfer")
    /\ \/ Result(t, "close", FALSE) /\ NoChange
       \/ /\ Result(t, "close", TRUE)
          /\ IF run[t].task.kind \in Changes THEN Change(t) ELSE NoChange
    /\ UNCHANGED <<fifo, later, token, default, callVars, asked, answered, open>>

\* A slip to detect: the error is returned before the descriptor is closed.
FileCloseGood(t) ==
    /\ Is(t, FileKinds \ Whole, "close")
    /\ open' = IF run[t].locals # <<>> THEN open \ {run[t].task.id} ELSE open
    /\ MoveTo(t, "reply")
    /\ UNCHANGED <<fifo, later, token, default, callVars,
                   asked, answered, content, changed>>

FileClose(t) ==
    /\ Is(t, FileKinds \ Whole, "close")
    /\ open' = open \ {run[t].task.id}
    /\ MoveTo(t, "reply")
    /\ UNCHANGED <<fifo, later, token, default, callVars,
                   asked, answered, content, changed>>

\* std::fs::read and write; a write that fails may have truncated the file.
FileWhole(t) ==
    /\ Is(t, Whole, "begin")
    /\ \E ok \in BOOLEAN :
          /\ Result(t, "reply", ok)
          /\ IF run[t].task.kind \in Changes
               THEN Change(t) \/ (~ok /\ NoChange) ELSE NoChange
    /\ UNCHANGED <<fifo, later, token, default, callVars, asked, answered, open>>

\* The callback is posted to the IO thread with the result.
FileReply(t) ==
    /\ Is(t, FileKinds, "reply")
    /\ fifo' = Posted(IoRunner, [kind |-> "done", id |-> run[t].task.id,
                                 op |-> run[t].task.kind, result |-> run[t].locals])
    /\ Finish(t)
    /\ UNCHANGED <<later, callVars, fileVars>>

FileCallback(t) ==
    /\ Is(t, {"done"}, "begin")
    /\ answered' = Append(answered, run[t].task.id)
    /\ MoveTo(t, "user")
    /\ UNCHANGED <<fifo, later, token, default, callVars, asked, open, content, changed>>

FileCallbackReturns(t) ==
    /\ Is(t, {"done"}, "user") /\ call[t] = Nothing
    /\ Finish(t)
    /\ UNCHANGED <<fifo, later, callVars, fileVars>>

FileTask(t) == \/ FileOpen(t) \/ Transfer(t) \/ FileClose(t) \/ FileWhole(t)
               \/ FileReply(t) \/ FileCallback(t) \/ FileCallbackReturns(t)

-----------------------------------------------------------------------------
\* The callbacks come in the order of the calls, a read sees the change called
\* last before it whatever was called since, and no path through an operation
\* leaves its descriptor open (file_proxy.rs:35-39).
FilesInOrder ==
    /\ answered = [k \in 1 .. Len(answered) |-> k]
    /\ \A w \in Everywhere :
          w.kind = "done" /\ w.op \notin Changes /\ w.result # <<>>
             => w.result = <<Max({0} \cup {k \in changed : k < w.id})>>
    /\ open = {run[t].task.id : t \in {u \in Threads : \/ Is(u, FileKinds, "transfer")
                                                      \/ Is(u, FileKinds, "close")}}
=============================================================================
