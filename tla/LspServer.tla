----------------------------- MODULE LspServer -----------------------------
(***************************************************************************)
(* The two threads of mirage-lsp (src/src/lsp/server.cpp): the main thread  *)
(* reads one message after the other and dispatches it, the worker thread   *)
(* pops tasks off one FIFO queue and runs the analysis.  They share the     *)
(* queue, a cancellation flag per request and the list of completed ids.    *)
(*                                                                         *)
(* What a request computes is abstracted to the number of buffer updates    *)
(* the worker had applied when it ran; a buffer update (didOpen, didChange, *)
(* didClose, didChangeWatchedFiles) is its arrival number.  DocumentStore   *)
(* and LspDiagnostics model what those tasks do.                            *)
(***************************************************************************)
EXTENDS Integers, Sequences, FiniteSets

CONSTANTS
    Reqs,        \* the requests the client may send (instances, not ids)
    Ids,         \* the JSON-RPC ids it labels them with
    IdOf,        \* the id of each request; ids may repeat
    NoReq,       \* absent map entry / no task
    MaxPending,  \* TaskQueue::MAX_PENDING
    MaxNotes     \* bound: notifications the client sends

ASSUME IdAssumption == IdOf \in [Reqs -> Ids]
ASSUME NoReqAssumption == NoReq \notin Reqs \cup (1 .. MaxNotes) /\ Reqs \cap (1 .. MaxNotes) = {}
ASSUME BoundsAssumption == MaxPending \in Nat \ {0} /\ MaxNotes \in Nat

VARIABLES
    \* main thread
    mpc,                \* "drain" -> "read" (-> "push") -> "drain" ..., or "returned"
    incoming,           \* the request main has accepted and not pushed yet
    state,              \* LifecycleState
    shutdown_received,
    in_flight,          \* id -> the request whose flag the entry holds
    \* shared
    queue,              \* TaskQueue::queue_
    cancelled,          \* the requests whose flag is set
    completed,          \* ids in CompletedRequests::done_
    stop,               \* the jthread's stop token
    \* worker thread
    wpc, task, code,
    deadline,           \* a debounced diagnostics round is pending
    life,               \* "up", "terminated" (std::terminate) or "exited"
    \* the client's view, and history
    received,           \* requests main has read
    answers,            \* the answers sent for a request
    dropped,            \* tasks discarded because the server stopped
    asked,              \* where an outstanding request was when its cancel was read
    arrived, applied,   \* buffer updates read by main / applied by the worker
    arrivedAt, computedAt

mainVars   == <<mpc, incoming, state, shutdown_received, in_flight>>
workVars   == <<wpc, task, code, deadline, completed, applied, computedAt>>
clientVars == <<received, asked, arrived, arrivedAt>>
vars == <<mainVars, queue, cancelled, stop, workVars, life, clientVars, answers, dropped>>

\* "direct" is any answer of the dispatch loop itself: a result, a null or an error
Codes == {"ok", "direct", "internal_error", "busy", "cancelled"}
NoCode == "none"
Tasks == Reqs \cup (1 .. MaxNotes)

TypeOK ==
    /\ mpc \in {"drain", "read", "push", "returned"}
    /\ incoming \in Reqs \cup {NoReq}
    /\ state \in {"Uninitialized", "Running"}
    /\ shutdown_received \in BOOLEAN
    /\ in_flight \in [Ids -> Reqs \cup {NoReq}]
    /\ queue \in Seq(Tasks)
    /\ cancelled \subseteq Reqs
    /\ completed \subseteq Ids
    /\ stop \in BOOLEAN
    /\ wpc \in {"sweep", "pop", "check", "run", "compute", "recheck", "send", "mark", "joined"}
    /\ task \in Tasks \cup {NoReq}
    /\ code \in Codes \cup {NoCode}
    /\ deadline \in BOOLEAN
    /\ life \in {"up", "terminated", "exited"}
    /\ received \subseteq Reqs
    /\ answers \in [Reqs -> Seq(Codes)]
    /\ dropped \subseteq Tasks
    /\ asked \in [Reqs -> {"no", "queued", "running"}]
    /\ arrived \in 0 .. MaxNotes
    /\ applied \in 0 .. MaxNotes
    /\ arrivedAt \in [Reqs -> 0 .. MaxNotes]
    /\ computedAt \in [Reqs -> -1 .. MaxNotes]

Init ==
    /\ mpc = "drain" /\ incoming = NoReq
    /\ state = "Uninitialized" /\ shutdown_received = FALSE
    /\ in_flight = [i \in Ids |-> NoReq]
    /\ queue = <<>> /\ cancelled = {} /\ completed = {} /\ stop = FALSE
    /\ wpc = "sweep" /\ task = NoReq /\ code = NoCode /\ deadline = FALSE
    /\ life = "up"
    /\ received = {} /\ answers = [r \in Reqs |-> <<>>]
    /\ dropped = {} /\ asked = [r \in Reqs |-> "no"]
    /\ arrived = 0 /\ applied = 0
    /\ arrivedAt = [r \in Reqs |-> 0] /\ computedAt = [r \in Reqs |-> -1]

-----------------------------------------------------------------------------
(* Where a request is. *)

Queued(r) == \E i \in 1 .. Len(queue) : queue[i] = r
AtWorker(r) == task = r /\ wpc \in {"check", "run", "compute", "recheck", "send"}
Outstanding(r) == r \in received /\ answers[r] = <<>>
Pending(r) == incoming = r \/ Queued(r) \/ AtWorker(r)
\* a legal client does not use an id again; this one may
OnlyOne(r) == \A q \in received : IdOf[q] = IdOf[r] => q = r

-----------------------------------------------------------------------------
(* The operations of TaskQueue, the cancellation flags and CompletedRequests.  *)
(* An operator named Mut... is the mistake that one of the properties rules    *)
(* out in the operator after it.                                               *)

full == Len(queue) >= MaxPending

MutPush(t) == queue' = IF t \in Reqs THEN Append(queue, t) ELSE <<t>> \o queue
push(t) == queue' = Append(queue, t)

MutTrack(r) == UNCHANGED in_flight
\* in_flight[id_key] = cancelled
Track(r) == in_flight' = [in_flight EXCEPT ![IdOf[r]] = r]

\* make_shared<atomic<bool>>(false): no other request shares the flag
FreshFlag(r) == UNCHANGED cancelled

MutLoaded(from) == from = "recheck" /\ task \in cancelled
\* cancelled->load() at one of the three places the worker tests it
Loaded(from) == task \in cancelled

MutMarkDone(i) == completed' = completed \cup (IF code = "cancelled" THEN {} ELSE {i})
mark_done(i) == completed' = completed \cup {i}

MutRequestStop == stop' = stop
request_stop == stop' = TRUE

-----------------------------------------------------------------------------
(* The main thread: Server::run. *)

Answer(r, c) == answers' = [answers EXCEPT ![r] = Append(@, c)]

\* for (id_key : completed.drain()) in_flight_.erase(id_key)
Drain ==
    /\ life = "up" /\ mpc = "drain"
    /\ in_flight' = [i \in Ids |-> IF i \in completed THEN NoReq ELSE in_flight[i]]
    /\ completed' = {}
    /\ mpc' = "read"
    /\ UNCHANGED <<incoming, state, shutdown_received, queue, cancelled, stop, wpc, task, code,
                   deadline, applied, computedAt, life, clientVars, answers, dropped>>

\* read_message returned something: the loop comes round to drain again
Reading == life = "up" /\ mpc = "read" /\ mpc' = "drain" /\ UNCHANGED incoming

\* a request message arrives
Arrives(r) ==
    /\ r \notin received
    /\ received' = received \cup {r}
    /\ arrivedAt' = [arrivedAt EXCEPT ![r] = arrived]

MutServing == state = "Running"
\* a message before 'initialize' or after 'shutdown' does not reach its handler
Serving == state = "Running" /\ ~shutdown_received

\* unparsable JSON, a response, a notification that is rejected, malformed, for an
\* unsupported URI or 'initialized': nothing changes
ReadIgnored ==
    /\ Reading
    /\ UNCHANGED <<state, shutdown_received, in_flight, queue, cancelled, stop, workVars,
                   life, clientVars, answers, dropped>>

\* a request answered by the dispatch loop itself: a non-string method, a message
\* before 'initialize' or after 'shutdown', an unknown method, a repeated
\* 'initialize', an unsupported URI, parameters that throw
ReadAnswered(r) ==
    /\ Reading /\ Arrives(r)
    /\ Answer(r, "direct")
    /\ UNCHANGED <<state, shutdown_received, in_flight, queue, cancelled, stop, workVars,
                   life, asked, arrived, dropped>>

\* malformed capabilities throw after the state has moved on: answered all the same
Initialize(r) ==
    /\ Reading /\ Arrives(r)
    /\ state = "Uninitialized" /\ ~shutdown_received
    /\ state' = "Running"
    /\ Answer(r, "direct")
    /\ UNCHANGED <<shutdown_received, in_flight, queue, cancelled, stop, workVars,
                   life, asked, arrived, dropped>>

Shutdown(r) ==
    /\ Reading /\ Arrives(r) /\ Serving
    /\ shutdown_received' = TRUE
    /\ Answer(r, "direct")
    /\ UNCHANGED <<state, in_flight, queue, cancelled, stop, workVars, life, asked,
                   arrived, dropped>>

\* 'exit', or end of input: request_stop, and the jthread is joined on return
Exit ==
    /\ life = "up" /\ mpc = "read"
    /\ mpc' = "returned" /\ request_stop
    /\ UNCHANGED <<incoming, state, shutdown_received, in_flight, queue, cancelled, workVars, life,
                   clientVars, answers, dropped>>

\* $/cancelRequest: set the flag of whatever in_flight_ holds for the id
CancelRequest(i) ==
    /\ Reading /\ Serving
    /\ cancelled' = IF in_flight[i] = NoReq THEN cancelled ELSE cancelled \cup {in_flight[i]}
    /\ asked' = [r \in Reqs |->
                   IF IdOf[r] # i \/ ~Outstanding(r) \/ asked[r] # "no" THEN asked[r]
                   ELSE IF Queued(r) THEN "queued" ELSE "running"]
    /\ UNCHANGED <<state, shutdown_received, in_flight, queue, stop, workVars, life,
                   received, arrived, arrivedAt, answers, dropped>>

\* didOpen, didChange, didClose, didChangeWatchedFiles: always accepted
Notify ==
    /\ Reading /\ Serving
    /\ arrived < MaxNotes
    /\ arrived' = arrived + 1
    /\ push(arrived')
    /\ UNCHANGED <<state, shutdown_received, in_flight, cancelled, stop, workVars, life,
                   received, asked, arrivedAt, answers, dropped>>

MutRejectBusy(r) == Track(r) /\ Answer(r, "busy") /\ mpc' = "push" /\ incoming' = r
\* a request that finds the queue full is answered at once and forgotten
RejectBusy(r) ==
    /\ in_flight' = [in_flight EXCEPT ![IdOf[r]] = NoReq]
    /\ Answer(r, "busy")
    /\ mpc' = "drain" /\ UNCHANGED incoming

\* enqueue_cancellable_request, past the URI and parameter checks, up to queue.full()
Enqueue(r) ==
    /\ life = "up" /\ mpc = "read"
    /\ Arrives(r) /\ Serving
    /\ FreshFlag(r)
    /\ IF full THEN RejectBusy(r)
       ELSE Track(r) /\ mpc' = "push" /\ incoming' = r /\ UNCHANGED answers
    /\ UNCHANGED <<state, shutdown_received, queue, stop, workVars, life, asked, arrived, dropped>>

\* ... and queue.push(): full() has let go of the queue's mutex, and the worker has
\* gone on meanwhile
Push ==
    /\ life = "up" /\ mpc = "push"
    /\ push(incoming)
    /\ mpc' = "drain" /\ incoming' = NoReq
    /\ UNCHANGED <<state, shutdown_received, in_flight, cancelled, stop, workVars, life,
                   clientVars, answers, dropped>>

Main ==
    \/ Drain \/ ReadIgnored \/ Exit \/ Notify \/ Push
    \/ \E i \in Ids : CancelRequest(i)
    \/ \E r \in Reqs : ReadAnswered(r) \/ Initialize(r) \/ Shutdown(r) \/ Enqueue(r)

-----------------------------------------------------------------------------
(* The worker thread: run_worker_loop and run_cancellable_request. *)

mainUnchanged == UNCHANGED <<mainVars, stop, cancelled, clientVars>>

\* while (!stop): sweep_due_diagnostics().  A due round runs the analysis outside
\* the try block, so an exception there ends the process.
Sweep ==
    /\ life = "up" /\ wpc = "sweep"
    /\ \/ stop /\ wpc' = "joined" /\ UNCHANGED <<deadline, life>>
       \/ ~stop /\ wpc' = "pop" /\ UNCHANGED <<deadline, life>>
       \/ ~stop /\ deadline /\ wpc' = "pop" /\ deadline' = FALSE /\ UNCHANGED life
       \/ ~stop /\ deadline /\ life' = "terminated" /\ UNCHANGED <<wpc, deadline>>
    /\ mainUnchanged
    /\ UNCHANGED <<queue, task, code, completed, applied, computedAt, answers, dropped>>

\* pop timed out
PollTimeout ==
    /\ life = "up" /\ wpc = "pop" /\ queue = <<>>
    /\ wpc' = IF stop THEN "joined" ELSE "sweep"
    /\ mainUnchanged
    /\ UNCHANGED <<queue, task, code, deadline, completed, applied, computedAt, life,
                   answers, dropped>>

\* pop, and the stop check after it: a task popped after the stop is dropped
Pop ==
    /\ life = "up" /\ wpc = "pop" /\ queue # <<>>
    /\ queue' = Tail(queue)
    /\ IF stop
       THEN wpc' = "joined" /\ dropped' = dropped \cup {Head(queue)} /\ UNCHANGED task
       ELSE wpc' = "check" /\ task' = Head(queue) /\ UNCHANGED dropped
    /\ mainUnchanged
    /\ UNCHANGED <<code, deadline, completed, applied, computedAt, life, answers>>

MutSkipNoCode == wpc' = "send" /\ UNCHANGED code
MutSkipSilent == wpc' = "mark" /\ code' = "cancelled"
\* a cancelled request is still answered, with RequestCancelled
Skip == wpc' = "send" /\ code' = "cancelled"

\* task->cancelled && task->cancelled->load(): before the task runs, on entry to
\* run_cancellable_request, and again before its result is sent
TestCancelled(from, to) ==
    /\ life = "up" /\ wpc = from /\ task \in Reqs
    /\ IF Loaded(from) THEN Skip ELSE wpc' = to /\ UNCHANGED code
    /\ mainUnchanged
    /\ UNCHANGED <<queue, task, deadline, completed, applied, computedAt, life, answers,
                   dropped>>

\* a buffer update runs: the buffers change, then diagnostics are published or
\* scheduled; an exception is caught and logged
RunNotification ==
    /\ life = "up" /\ wpc = "check" /\ task \notin Reqs
    /\ applied' = task
    /\ deadline' \in {deadline, TRUE}
    /\ wpc' = "sweep" /\ task' = NoReq
    /\ mainUnchanged
    /\ UNCHANGED <<queue, code, completed, computedAt, life, answers, dropped>>

\* compute(): reads the buffers as they are now; may throw into the worker's catch
Compute ==
    /\ life = "up" /\ wpc = "compute"
    /\ computedAt' = [computedAt EXCEPT ![task] = applied]
    /\ \/ wpc' = "recheck" /\ code' = "ok"
       \/ wpc' = "send" /\ code' = "internal_error"
    /\ mainUnchanged
    /\ UNCHANGED <<queue, task, deadline, completed, applied, life, answers, dropped>>

\* send_response / send_error / answer_failed_task
Send ==
    /\ life = "up" /\ wpc = "send"
    /\ Answer(task, code)
    /\ wpc' = "mark"
    /\ mainUnchanged
    /\ UNCHANGED <<queue, task, code, deadline, completed, applied, computedAt, life, dropped>>

\* the request is over; CompletedRequests tells the main thread
MarkDone ==
    /\ life = "up" /\ wpc = "mark"
    /\ mark_done(IdOf[task])
    /\ wpc' = "sweep" /\ task' = NoReq /\ code' = NoCode
    /\ mainUnchanged
    /\ UNCHANGED <<queue, deadline, applied, computedAt, life, answers, dropped>>

Worker ==
    \/ Sweep \/ PollTimeout \/ Pop \/ RunNotification \/ Compute \/ Send \/ MarkDone
    \/ TestCancelled("check", "run") \/ TestCancelled("run", "compute")
    \/ TestCancelled("recheck", "send")

-----------------------------------------------------------------------------
\* ~jthread has joined the worker and run() has returned
Join ==
    /\ life = "up" /\ mpc = "returned" /\ wpc = "joined"
    /\ life' = "exited"
    /\ dropped' = dropped \cup {queue[i] : i \in 1 .. Len(queue)}
    /\ queue' = <<>>
    /\ UNCHANGED <<mainVars, cancelled, stop, workVars, clientVars, answers>>

\* the process is gone
Gone == life # "up" /\ UNCHANGED vars

Next == Main \/ Worker \/ Join \/ Gone

\* The operating system runs a runnable worker and a main thread that need not wait for
\* a message, and a thread that has returned is joined; nothing makes the client send
\* anything.
Fairness == WF_vars(Worker) /\ WF_vars(Join) /\ WF_vars(Drain) /\ WF_vars(Push)

Spec == Init /\ [][Next]_vars
FairSpec == Spec /\ Fairness

-----------------------------------------------------------------------------
(* Properties. *)

\* Every request main has read is in exactly one place: answered once, between full()
\* and push(), waiting in the queue, in the worker's hands before its answer, or dropped
\* by a stop.  So no path of cancel, throw, full queue and completion answers twice or
\* not at all (run_worker_loop, run_cancellable_request, enqueue_cancellable_request).
OnePlace(r) ==
    /\ answers[r] = <<>> \/ Len(answers[r]) = 1
    /\ \A i, j \in 1 .. Len(queue) : queue[i] = r /\ queue[j] = r => i = j
    /\ \/ answers[r] # <<>> /\ incoming # r /\ ~Queued(r) /\ ~AtWorker(r) /\ r \notin dropped
       \/ answers[r] = <<>> /\ incoming = r /\ ~Queued(r) /\ ~AtWorker(r) /\ r \notin dropped
       \/ answers[r] = <<>> /\ incoming # r /\ Queued(r) /\ ~AtWorker(r) /\ r \notin dropped
       \/ answers[r] = <<>> /\ incoming # r /\ ~Queued(r) /\ AtWorker(r) /\ r \notin dropped
       \/ answers[r] = <<>> /\ incoming # r /\ ~Queued(r) /\ ~AtWorker(r) /\ r \in dropped
EveryRequestAccountedFor == \A r \in received : OnePlace(r)

\* An in_flight_ entry is always on its way out: its request is still owned by the
\* queue or the worker, or its completion waits to be drained, or the server
\* stopped.  The leak CompletedRequests exists to prevent (LSPCORE-4).
InFlightNotLeaked ==
    \A i \in Ids : in_flight[i] # NoReq =>
        LET r == in_flight[i] IN
        \/ incoming = r \/ Queued(r) \/ task = r \/ r \in dropped
        \/ i \in completed

\* A request the client still waits for can be cancelled, unless its id was used twice:
\* in_flight_ maps its id to its own flag, as task_queue.hpp says ("so a
\* $/cancelRequest can mark it").
Cancellable ==
    \A r \in received : Pending(r) /\ OnlyOne(r) => in_flight[IdOf[r]] = r

\* A request whose cancel was read while it waited in the queue is never computed,
\* unless its id was used twice.
CancelHonoured ==
    \A r \in Reqs : asked[r] = "queued" /\ OnlyOne(r) => computedAt[r] = -1

\* The answers as the client sees them: a result carries the updates it is about.
Replies(r) ==
    [k \in 1 .. Len(answers[r]) |->
        [code |-> answers[r][k],
         on   |-> IF answers[r][k] = "ok" THEN computedAt[r] ELSE -1]]

Contract == INSTANCE LspContract WITH
    Refusals <- {"direct", "busy"},
    updates  <- arrived,
    seen     <- [r \in Reqs |-> IF r \in received THEN arrivedAt[r] ELSE -1],
    cancels  <- {r \in Reqs : asked[r] # "no"},
    reply    <- [r \in Reqs |-> Replies(r)]

\* The two threads implement the sequential contract: one reply per request; a
\* result computed on exactly the buffer updates that arrived before the request
\* (task_queue.hpp: "the write has already been applied"); RequestCancelled only
\* for a request whose cancel was read while it waited, so a flag never leaks from
\* one request to another.
ImplementsContract == Contract!Spec

\* Once shutdown is answered no new work reaches the worker.
NoWorkAfterShutdown ==
    [][shutdown_received => \A k \in 1 .. Len(queue') : queue'[k] \in {queue[j] : j \in 1 .. Len(queue)}]_vars

\* Every request read is answered, unless the server is told to stop first or an
\* exception out of a diagnostics round ends it.
EventuallyAnswered ==
    \A r \in Reqs : r \in received ~> (answers[r] # <<>> \/ mpc = "returned" \/ life = "terminated")

\* After exit or end of input the worker is joined and the process ends.
ExitJoins == mpc = "returned" ~> life # "up"
=============================================================================
