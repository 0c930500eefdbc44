------------------------------ MODULE EventBus ------------------------------
(***************************************************************************)
(* The event bus of rust_task/examples/event_bus.rs: every operation posts *)
(* a task to the bus's own sequence, bound to the bus weakly, except flush.*)
(* The beginning of the file promises what the order of the sequence gives *)
(* for free; `ledger` and `expected` compute it from the order of the      *)
(* posts alone, as if every operation took effect when it was posted.      *)
(***************************************************************************)
EXTENDS TaskRunners

CONSTANT BusRunner

VARIABLES busHandle,    \* the application holds an Arc<EventBus>
          subscribers,  \* BusState::subscribers
          nextId,
          published,    \* the number of events, which are numbered
          got,          \* history: the callbacks called, with their events
          ledger,       \* history: who is subscribed after all that was posted
          expected,     \* history: the callbacks the posts so far should lead to
          unflushed     \* history: flushes whose `done` was not called yet

busVars == <<busHandle, subscribers, nextId, published, got, ledger, expected,
             unflushed>>

BusInit ==
    /\ busHandle = TRUE
    /\ subscribers = <<>> /\ nextId = 0 /\ published = 0
    /\ got = <<>> /\ ledger = <<>> /\ expected = <<>>
    /\ unflushed = 0

Deliveries(subs, e) == [k \in DOMAIN subs |-> <<subs[k], e>>]
\* retain: an id is drawn once, so that at most one subscriber goes.
Without(subs, id) == RemoveFirst(subs, id)

\* Whether Weak<EventBus>::upgrade returns it: a publish keeps it while it runs.
BusAlive == busHandle \/ \E t \in Threads : Is(t, {"publish"}, "deliver")
                                           \/ Is(t, {"publish"}, "user")

\* subscribe draws an id, then posts.
Subscribe(c) ==
    /\ MayCall(c) /\ Calls /\ busHandle /\ nextId < MaxEach
    /\ call' = [call EXCEPT ![c] = [op |-> "subscribe", id |-> nextId, at |-> "post"]]
    /\ nextId' = nextId + 1
    /\ UNCHANGED <<fifo, later, run, token, default,
                   busHandle, subscribers, published, got, ledger, expected, unflushed>>

SubscribePosts(c) ==
    /\ call[c] # Nothing /\ call[c].op = "subscribe"
    /\ fifo' = Posted(BusRunner, Work("subscribe", call[c].id))
    /\ ledger' = Append(ledger, call[c].id)
    /\ call' = [call EXCEPT ![c] = Nothing]
    /\ UNCHANGED <<later, run, token, default, calls, owed,
                   busHandle, subscribers, nextId, published, got, expected, unflushed>>

\* A slip to detect: the subscriber is taken out at once, under the lock.
UnsubscribeNow(c) ==
    /\ MayCall(c) /\ Calls /\ busHandle
    /\ \E id \in Range(ledger) :
          /\ subscribers' = Without(subscribers, id)
          /\ ledger' = Without(ledger, id)
    /\ UNCHANGED <<fifo, later, run, token, default, call,
                   busHandle, nextId, published, got, expected, unflushed>>

\* An id is known once its subscribe has returned.
Unsubscribe(c) ==
    /\ MayCall(c) /\ Calls /\ busHandle
    /\ \E id \in Range(ledger) :
          /\ fifo' = Posted(BusRunner, Work("unsubscribe", id))
          /\ ledger' = Without(ledger, id)
    /\ UNCHANGED <<later, run, token, default, call,
                   busHandle, subscribers, nextId, published, got, expected, unflushed>>

Publish(c) ==
    /\ MayCall(c) /\ Calls /\ busHandle /\ published < MaxEach
    /\ published' = published + 1
    /\ fifo' = Posted(BusRunner, Work("publish", published + 1))
    /\ expected' = expected \o Deliveries(ledger, published + 1)
    /\ UNCHANGED <<later, run, token, default, call,
                   busHandle, subscribers, nextId, got, ledger, unflushed>>

\* flush posts `done` itself; its number says what must have been delivered.
Flush(c) ==
    /\ MayCall(c) /\ Calls /\ busHandle
    /\ fifo' = Posted(BusRunner, Work("flush", Len(expected)))
    /\ unflushed' = unflushed + 1
    /\ UNCHANGED <<later, run, token, default, call,
                   busHandle, subscribers, nextId, published, got, ledger, expected>>

\* The application drops its last Arc; a call in progress borrows one.
DropBus(c) ==
    /\ MayCall(c) /\ Calls /\ busHandle
    /\ \A d \in Callers : call[d] # Nothing => call[d].op # "subscribe"
    /\ busHandle' = FALSE
    /\ UNCHANGED <<fifo, later, run, token, default, call,
                   subscribers, nextId, published, got, ledger, expected, unflushed>>

\* The task of subscribe or unsubscribe, nothing if the bus is gone.
BusUpdate(t) ==
    /\ Is(t, {"subscribe", "unsubscribe"}, "begin")
    /\ LET w == run[t].task IN
          subscribers' = CASE ~BusAlive -> subscribers
                           [] w.kind = "subscribe" -> Append(subscribers, w.id)
                           [] OTHER -> Without(subscribers, w.id)
    /\ Finish(t)
    /\ UNCHANGED <<fifo, later, callVars,
                   busHandle, nextId, published, got, ledger, expected, unflushed>>

\* The task of publish copies the callbacks under the lock, then calls each.
BusDispatch(t) ==
    /\ Is(t, {"publish"}, "begin")
    /\ IF BusAlive
         THEN /\ run' = [run EXCEPT ![t].at = "deliver", ![t].locals = subscribers]
              /\ UNCHANGED envVars
         ELSE Finish(t)
    /\ UNCHANGED <<fifo, later, callVars, busVars>>

Deliver(t) ==
    /\ Is(t, {"publish"}, "deliver") /\ run[t].locals # <<>>
    /\ got' = Append(got, <<Head(run[t].locals), run[t].task.id>>)
    /\ run' = [run EXCEPT ![t].at = "user", ![t].locals = Tail(@)]
    /\ UNCHANGED <<fifo, later, token, default, callVars,
                   busHandle, subscribers, nextId, published, ledger, expected, unflushed>>

CallbackReturns(t) ==
    /\ Is(t, {"publish"}, "user") /\ call[t] = Nothing
    /\ MoveTo(t, "deliver")
    /\ UNCHANGED <<fifo, later, token, default, callVars, busVars>>

Delivered(t) ==
    /\ Is(t, {"publish"}, "deliver") /\ run[t].locals = <<>>
    /\ Finish(t)
    /\ UNCHANGED <<fifo, later, callVars, busVars>>

\* A slip to detect: flush is bound to the bus as the others are.
FlushWeakly(t) ==
    /\ Is(t, {"flush"}, "begin")
    /\ IF BusAlive THEN /\ MoveTo(t, "user") /\ unflushed' = unflushed - 1
                        /\ UNCHANGED envVars
                   ELSE Finish(t) /\ UNCHANGED unflushed
    /\ UNCHANGED <<fifo, later, callVars,
                   busHandle, subscribers, nextId, published, got, ledger, expected>>

FlushDone(t) ==
    /\ Is(t, {"flush"}, "begin")
    /\ MoveTo(t, "user")
    /\ unflushed' = unflushed - 1
    /\ UNCHANGED <<fifo, later, token, default, callVars,
                   busHandle, subscribers, nextId, published, got, ledger, expected>>

DoneReturns(t) ==
    /\ Is(t, {"flush"}, "user") /\ call[t] = Nothing
    /\ Finish(t)
    /\ UNCHANGED <<fifo, later, callVars, busVars>>

BusCall(c) == Subscribe(c) \/ Unsubscribe(c) \/ Publish(c) \/ Flush(c) \/ DropBus(c)
BusTask(t) == \/ BusUpdate(t) \/ BusDispatch(t) \/ Deliver(t)
              \/ CallbackReturns(t) \/ Delivered(t) \/ FlushDone(t) \/ DoneReturns(t)

-----------------------------------------------------------------------------
BusKinds == {"subscribe", "unsubscribe", "publish"}

\* Callbacks are called as if each operation took effect when it was posted: an
\* unsubscribe posted before a publish is seen by it, events keep their order, an
\* event published by a callback comes after the current one, and a flush comes
\* after the events published before it (event_bus.rs:6-13). Dropping the bus cuts
\* the rest off and reorders nothing.
BusInOrder ==
    /\ IsPrefix(got, expected)
    /\ busHandle /\ (\A w \in Everywhere : w.kind \notin BusKinds) => got = expected
    /\ \A t \in Threads : Is(t, {"flush"}, "user") /\ busHandle => Len(got) >= run[t].task.id
=============================================================================
