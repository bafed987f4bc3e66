-------------------------- MODULE LspServerProofs --------------------------
(***************************************************************************)
(* What LspServer guarantees for every set of requests and ids, every queue *)
(* capacity and every number of buffer updates.                             *)
(***************************************************************************)
EXTENDS LspServer, TLAPS

\* What the two threads hold at each of their control points.
Phase ==
    /\ mpc = "push" => incoming \in Reqs /\ ~shutdown_received
    /\ mpc # "push" => incoming = NoReq
    /\ wpc \in {"sweep", "pop", "joined"} => task = NoReq
    /\ wpc = "check" => task \in Tasks
    /\ wpc \in {"run", "compute", "recheck", "send", "mark"} => task \in Reqs
    /\ wpc \in {"recheck", "send"} => code \in Codes

IType == TypeOK /\ Phase

\* Init establishes the types and the worker's phase.
LEMMA InitType == Init => IType
<1> SUFFICES ASSUME Init PROVE IType
  OBVIOUS
<1>1. answers \in [Reqs -> Seq(Codes)] /\ queue \in Seq(Tasks)
  BY DEF Init
<1>2. computedAt \in [Reqs -> -1 .. MaxNotes] /\ arrivedAt \in [Reqs -> 0 .. MaxNotes]
      /\ arrived \in 0 .. MaxNotes /\ applied \in 0 .. MaxNotes
  BY BoundsAssumption DEF Init
<1>3. Phase
  BY DEF Init, Phase
<1> QED
  BY <1>1, <1>2, <1>3, Zenon DEF Init, IType, TypeOK, NoCode

\* send_response and send_error append one code to the answers of a request.
LEMMA AnswerType ==
  ASSUME TypeOK, NEW r \in Reqs, NEW c \in Codes, Answer(r, c)
  PROVE  answers' \in [Reqs -> Seq(Codes)]
  BY DEF Answer, TypeOK

\* A request that arrives keeps the types of what the client has sent.
LEMMA ArrivesType ==
  ASSUME TypeOK, NEW r \in Reqs, Arrives(r)
  PROVE  received' \subseteq Reqs /\ arrivedAt' \in [Reqs -> 0 .. MaxNotes]
  BY DEF Arrives, TypeOK

\* A message read by the main thread keeps the types.
LEMMA MainType == IType /\ Main => IType'
<1> SUFFICES ASSUME IType, Main PROVE IType'
  OBVIOUS
<1> USE IdAssumption, NoReqAssumption, BoundsAssumption DEF IType, TypeOK, Phase, Tasks, Codes,
    workVars, clientVars
<1>1. CASE Drain
  BY <1>1 DEF Drain
<1>2. CASE ReadIgnored
  BY <1>2 DEF ReadIgnored, Reading
<1>3. CASE Exit
  BY <1>3 DEF Exit, request_stop
<1>4. CASE Notify
  <2>1. arrived' \in 1 .. MaxNotes
    BY <1>4 DEF Notify
  <2>2. queue' \in Seq(Tasks)
    BY <1>4, <2>1 DEF Notify, push
  <2> QED
    BY <1>4, <2>1, <2>2 DEF Notify, Reading
<1>5. ASSUME NEW i \in Ids, CancelRequest(i) PROVE IType'
  BY <1>5 DEF CancelRequest, Reading
<1>6. ASSUME NEW r \in Reqs, ReadAnswered(r) PROVE IType'
  <2>2. answers' \in [Reqs -> Seq(Codes)]
    BY <1>6, AnswerType DEF ReadAnswered
  <2>3. /\ mpc = "read" /\ mpc' = "drain" /\ incoming' = incoming
        /\ UNCHANGED <<state, shutdown_received, in_flight, queue, cancelled, stop, workVars,
                       life, asked, arrived, dropped>>
    BY <1>6 DEF ReadAnswered, Reading
  <2>4. received' \subseteq Reqs /\ arrivedAt' \in [Reqs -> 0 .. MaxNotes]
    BY <1>6, ArrivesType DEF ReadAnswered
  <2> QED
    BY <2>2, <2>3, <2>4, SMTT(30)
<1>7. ASSUME NEW r \in Reqs, Initialize(r) PROVE IType'
  <2>1. answers' \in [Reqs -> Seq(Codes)]
    BY <1>7, AnswerType DEF Initialize
  <2>2. /\ mpc = "read" /\ mpc' = "drain" /\ incoming' = incoming
        /\ state' = "Running" /\ shutdown_received' = shutdown_received
        /\ UNCHANGED <<in_flight, queue, cancelled, stop, workVars, life, asked, arrived, dropped>>
    BY <1>7 DEF Initialize, Reading
  <2>3. received' \subseteq Reqs /\ arrivedAt' \in [Reqs -> 0 .. MaxNotes]
    BY <1>7, ArrivesType DEF Initialize
  <2> QED
    BY <2>1, <2>2, <2>3
<1>8. ASSUME NEW r \in Reqs, Shutdown(r) PROVE IType'
  <2>1. answers' \in [Reqs -> Seq(Codes)]
    BY <1>8, AnswerType DEF Shutdown
  <2>2. /\ mpc = "read" /\ mpc' = "drain" /\ incoming' = incoming
        /\ state' = state /\ shutdown_received' = TRUE
        /\ UNCHANGED <<in_flight, queue, cancelled, stop, workVars, life, asked, arrived, dropped>>
    BY <1>8 DEF Shutdown, Reading
  <2>3. received' \subseteq Reqs /\ arrivedAt' \in [Reqs -> 0 .. MaxNotes]
    BY <1>8, ArrivesType DEF Shutdown
  <2> QED
    BY <2>1, <2>2, <2>3
<1>9. ASSUME NEW r \in Reqs, Enqueue(r) PROVE IType'
  <2>1. answers' \in [Reqs -> Seq(Codes)]
    BY <1>9, AnswerType DEF Enqueue, RejectBusy
  <2>3. (mpc' = "drain" /\ incoming' = NoReq) \/ (mpc' = "push" /\ incoming' = r)
    BY <1>9 DEF Enqueue, RejectBusy
  <2>2. in_flight' \in [Ids -> Reqs \cup {NoReq}] /\ cancelled' = cancelled
    BY <1>9, Zenon DEF Enqueue, RejectBusy, Track, FreshFlag
  <2>4. /\ ~shutdown_received
        /\ UNCHANGED <<state, shutdown_received, queue, stop, workVars, life, asked, arrived, dropped>>
    BY <1>9 DEF Enqueue, Serving
  <2>5. received' \subseteq Reqs /\ arrivedAt' \in [Reqs -> 0 .. MaxNotes]
    BY <1>9, ArrivesType DEF Enqueue
  <2> QED
    BY <2>1, <2>2, <2>3, <2>4, <2>5
<1>10. CASE Push
  <2>1. queue' = Append(queue, incoming) /\ incoming \in Tasks
    BY <1>10 DEF Push, push
  <2>2. queue' \in Seq(Tasks)
    BY <2>1
  <2> QED
    BY <1>10, <2>2 DEF Push
<1> QED
  BY <1>1, <1>2, <1>3, <1>4, <1>5, <1>6, <1>7, <1>8, <1>9, <1>10, Zenon DEF Main

\* A step of the worker, or the join, keeps the types.
LEMMA WorkerType == IType /\ (Worker \/ Join) => IType'
<1> SUFFICES ASSUME IType, Worker \/ Join PROVE IType'
  OBVIOUS
<1> USE IdAssumption, NoReqAssumption, BoundsAssumption DEF IType, TypeOK, Phase, Tasks, Codes,
    mainUnchanged, mainVars, clientVars, workVars
<1>1. CASE Sweep
  <2>1. /\ wpc' \in {"sweep", "joined", "pop"} /\ deadline' \in BOOLEAN
        /\ life' \in {"up", "terminated"} /\ task = NoReq
    BY <1>1, Zenon DEF Sweep
  <2>2. mainUnchanged /\ UNCHANGED <<queue, task, code, completed, applied, computedAt, answers, dropped>>
    BY <1>1 DEF Sweep
  <2> QED
    BY <2>1, <2>2
<1>2. CASE PollTimeout
  BY <1>2 DEF PollTimeout
<1>3. CASE Pop
  <2>1. Head(queue) \in Tasks /\ Tail(queue) \in Seq(Tasks)
    BY <1>3 DEF Pop
  <2> QED
    BY <1>3, <2>1 DEF Pop
<1>4. CASE RunNotification
  <2>1. deadline' \in BOOLEAN
    BY <1>4, Zenon DEF RunNotification
  <2>2. applied' \in 0 .. MaxNotes
    BY <1>4 DEF RunNotification
  <2> QED
    BY <1>4, <2>1, <2>2 DEF RunNotification
<1>5. CASE Compute
  BY <1>5 DEF Compute
<1>6. CASE Send
  <2>1. answers' \in [Reqs -> Seq(Codes)]
    BY <1>6 DEF Send, Answer
  <2> QED
    BY <1>6, <2>1 DEF Send
<1>7. CASE MarkDone
  BY <1>7 DEF MarkDone, mark_done, NoCode
<1>8. CASE TestCancelled("check", "run")
  BY <1>8 DEF TestCancelled, Skip
<1>9. CASE TestCancelled("run", "compute")
  BY <1>9 DEF TestCancelled, Skip
<1>10. CASE TestCancelled("recheck", "send")
  BY <1>10 DEF TestCancelled, Skip
<1>11. CASE Join
  <2>1. \A i \in 1 .. Len(queue) : queue[i] \in Tasks
    OBVIOUS
  <2> QED
    BY <1>11, <2>1 DEF Join
<1> QED
  BY <1>1, <1>2, <1>3, <1>4, <1>5, <1>6, <1>7, <1>8, <1>9, <1>10, <1>11, Zenon DEF Worker

\* Every step keeps the types.
LEMMA NextType == IType /\ [Next]_vars => IType'
<1>1. IType /\ UNCHANGED vars => IType'
  BY DEF IType, TypeOK, Phase, vars, mainVars, workVars, clientVars
<1> QED
  BY <1>1, MainType, WorkerType DEF Next, Gone

\* Server::run and run_worker_loop keep their state well-typed: in particular an
\* answer always carries a code and the worker never runs without a task.
THEOREM TypeCorrect == Spec => []TypeOK
<1>1. IType => TypeOK
  BY DEF IType
<1> QED
  BY InitType, NextType, <1>1, PTL DEF Spec

-----------------------------------------------------------------------------
(* Every request is in exactly one place. *)

\* r is in the queue at most once.
Once(r) == \A i, j \in 1 .. Len(queue) : queue[i] = r /\ queue[j] = r => i = j

\* A request that has not been read is nowhere.
Unseen(r) == answers[r] = <<>> /\ incoming # r /\ ~Queued(r) /\ Once(r) /\ task # r /\ r \notin dropped

Places == \A r \in Reqs : IF r \in received THEN OnePlace(r) ELSE Unseen(r)

IPlaces == IType /\ Places

\* TaskQueue::push adds its task to those that are queued.
LEMMA QueuedAppend ==
  ASSUME queue \in Seq(Tasks), NEW t \in Tasks, queue' = Append(queue, t), NEW r
  PROVE  /\ Queued(r)' <=> Queued(r) \/ r = t
         /\ Once(r) /\ (r # t \/ ~Queued(r)) => Once(r)'
<1>1. Len(queue') = Len(queue) + 1 /\ Len(queue) \in Nat
  OBVIOUS
<1>2. \A i \in 1 .. Len(queue) : queue'[i] = queue[i]
  OBVIOUS
<1>3. queue'[Len(queue) + 1] = t
  OBVIOUS
<1>4. Queued(r)' <=> Queued(r) \/ r = t
  BY <1>1, <1>2, <1>3 DEF Queued
<1>5. ASSUME Once(r), r # t \/ ~Queued(r) PROVE Once(r)'
  <2> SUFFICES ASSUME NEW i \in 1 .. Len(queue'), NEW j \in 1 .. Len(queue'),
                      queue'[i] = r, queue'[j] = r
               PROVE  i = j
    BY DEF Once
  <2>1. CASE i \in 1 .. Len(queue) /\ j \in 1 .. Len(queue)
    BY <1>2, <1>5, <2>1 DEF Once
  <2>2. CASE i = Len(queue) + 1 \/ j = Len(queue) + 1
    BY <1>1, <1>2, <1>3, <1>5, <2>2 DEF Queued
  <2> QED
    BY <1>1, <2>1, <2>2
<1> QED
  BY <1>4, <1>5

\* TaskQueue::pop takes away the head of the queue and nothing else.
LEMMA QueuedTail ==
  ASSUME queue \in Seq(Tasks), queue # <<>>, queue' = Tail(queue), NEW r
  PROVE  /\ Queued(r) <=> Queued(r)' \/ r = Head(queue)
         /\ Once(r) => Once(r)'
         /\ Once(r) /\ r = Head(queue) => ~Queued(r)'
<1>1. Len(queue') = Len(queue) - 1 /\ Len(queue) \in Nat /\ Len(queue) > 0
  OBVIOUS
<1>2. \A i \in 1 .. Len(queue') : queue'[i] = queue[i + 1]
  OBVIOUS
<1>3. Head(queue) = queue[1]
  OBVIOUS
<1>4. ASSUME Queued(r) PROVE Queued(r)' \/ r = Head(queue)
  <2>1. PICK i \in 1 .. Len(queue) : queue[i] = r
    BY <1>4 DEF Queued
  <2>2. CASE i = 1
    BY <1>3, <2>1, <2>2
  <2>3. CASE i # 1
    <3>1. i - 1 \in 1 .. Len(queue') /\ queue'[i - 1] = r
      BY <1>1, <1>2, <2>1, <2>3
    <3> QED
      BY <3>1, Zenon DEF Queued
  <2> QED
    BY <2>2, <2>3
<1>5. ASSUME Queued(r)' PROVE Queued(r)
  <2>1. PICK i \in 1 .. Len(queue') : queue'[i] = r
    BY <1>5 DEF Queued
  <2>2. i + 1 \in 1 .. Len(queue) /\ queue[i + 1] = r
    BY <1>1, <1>2, <2>1
  <2> QED
    BY <2>2 DEF Queued
<1>6. r = Head(queue) => Queued(r)
  BY <1>1, <1>3 DEF Queued
<1>7. Once(r) => Once(r)'
  <2> SUFFICES ASSUME Once(r), NEW i \in 1 .. Len(queue'), NEW j \in 1 .. Len(queue'),
                      queue'[i] = r, queue'[j] = r
               PROVE  i = j
    BY DEF Once
  <2>1. /\ i + 1 \in 1 .. Len(queue) /\ queue[i + 1] = r
        /\ j + 1 \in 1 .. Len(queue) /\ queue[j + 1] = r
    BY <1>1, <1>2
  <2> QED
    BY <2>1 DEF Once
<1>8. ASSUME Once(r), r = Head(queue), Queued(r)' PROVE FALSE
  <2>1. PICK i \in 1 .. Len(queue') : queue'[i] = r
    BY <1>8 DEF Queued
  <2>2. i + 1 \in 1 .. Len(queue) /\ queue[i + 1] = r /\ 1 \in 1 .. Len(queue) /\ queue[1] = r
    BY <1>1, <1>2, <1>3, <1>8, <2>1
  <2> QED
    BY <1>8, <2>2 DEF Once
<1> QED
  BY <1>4, <1>5, <1>6, <1>7, <1>8

\* A step that leaves incoming, queue, answers and drops alone and neither gives the worker a
\* request nor takes one away moves no request.
LEMMA PlacesFrame ==
  ASSUME Places, UNCHANGED <<incoming, queue, answers, dropped, received>>,
         \A r \in Reqs : (AtWorker(r)' <=> AtWorker(r)) /\ (task' = r => task = r)
  PROVE  Places'
<1>1. \A r \in Reqs : (Queued(r)' <=> Queued(r)) /\ (Once(r)' <=> Once(r))
  BY DEF Queued, Once
<1>2. \A r \in Reqs : OnePlace(r) => OnePlace(r)'
  BY <1>1 DEF OnePlace, Once
<1>3. \A r \in Reqs : Unseen(r) => Unseen(r)'
  BY <1>1 DEF Unseen
<1> QED
  BY <1>2, <1>3 DEF Places

\* A request that is answered on arrival without being queued is in one place.
LEMMA PlacesAnswered ==
  ASSUME IPlaces, NEW r \in Reqs, Arrives(r), NEW c \in Codes, Answer(r, c),
         UNCHANGED <<incoming, queue, dropped, task, wpc>>
  PROVE  Places'
<1>1. \A q \in Reqs : /\ Queued(q)' <=> Queued(q)
                      /\ Once(q)' <=> Once(q)
                      /\ AtWorker(q)' <=> AtWorker(q)
  BY DEF Queued, Once, AtWorker
<1>2. Unseen(r)
  BY DEF IPlaces, Places, Arrives
<1>3. answers'[r] = <<c>> /\ \A q \in Reqs \ {r} : answers'[q] = answers[q]
  BY <1>2 DEF IPlaces, IType, TypeOK, Answer, Unseen
<1>4. OnePlace(r)'
  BY <1>1, <1>2, <1>3, SMTT(30) DEF OnePlace, Unseen, Once, AtWorker
<1>5. \A q \in Reqs \ {r} : OnePlace(q) => OnePlace(q)'
  BY <1>1, <1>3 DEF OnePlace, Once
<1>6. \A q \in Reqs \ {r} : Unseen(q) => Unseen(q)'
  BY <1>1, <1>3 DEF Unseen
<1>7. received' = received \cup {r}
  BY DEF Arrives
<1> QED
  BY <1>4, <1>5, <1>6, <1>7 DEF Places, IPlaces

\* A buffer update that is queued moves no request.
LEMMA PlacesNotify == IPlaces /\ Notify => Places'
<1> SUFFICES ASSUME IPlaces, Notify PROVE Places'
  OBVIOUS
<1>1. arrived' \in 1 .. MaxNotes /\ arrived' \in Tasks /\ queue \in Seq(Tasks)
  BY BoundsAssumption DEF IPlaces, IType, TypeOK, Notify, Tasks
<1>2. queue' = Append(queue, arrived')
  BY DEF Notify, push
<1>3. \A q \in Reqs : q # arrived'
  BY <1>1, NoReqAssumption
<1>4. \A q \in Reqs : (Queued(q)' <=> Queued(q)) /\ (Once(q) => Once(q)')
  BY <1>1, <1>2, <1>3, QueuedAppend
<1>5. UNCHANGED <<incoming, answers, dropped, received, task, wpc>>
  BY DEF Notify, Reading, workVars
<1>6. \A q \in Reqs : AtWorker(q)' <=> AtWorker(q)
  BY <1>5 DEF AtWorker
<1>7. \A q \in Reqs : OnePlace(q) => OnePlace(q)'
  BY <1>4, <1>5, <1>6 DEF OnePlace, Once
<1>8. \A q \in Reqs : Unseen(q) => Unseen(q)'
  BY <1>4, <1>5 DEF Unseen
<1> QED
  BY <1>5, <1>7, <1>8 DEF Places, IPlaces

\* enqueue_cancellable_request holds the request or answers it, not both.
LEMMA PlacesEnqueue ==
  ASSUME IPlaces, NEW r \in Reqs, Enqueue(r)
  PROVE  Places'
<1>1. UNCHANGED <<queue, dropped, task, wpc>> /\ Arrives(r)
  BY DEF Enqueue, workVars
<1>2. CASE full
  <2>1. Answer(r, "busy") /\ UNCHANGED incoming
    BY <1>2 DEF Enqueue, RejectBusy
  <2>2. "busy" \in Codes
    BY DEF Codes
  <2> QED
    BY <1>1, <2>1, <2>2, PlacesAnswered
<1>3. CASE ~full
  <2>1. incoming = NoReq /\ incoming' = r /\ UNCHANGED answers
    BY <1>3 DEF Enqueue, IPlaces, IType, Phase
  <2>2. Unseen(r)
    BY <1>1 DEF IPlaces, Places, Arrives
  <2>3. \A q \in Reqs : /\ Queued(q)' <=> Queued(q)
                        /\ Once(q)' <=> Once(q)
                        /\ AtWorker(q)' <=> AtWorker(q)
    BY <1>1 DEF Queued, Once, AtWorker
  <2>4. \A q \in Reqs \ {r} : incoming # q /\ incoming' # q
    BY <2>1, NoReqAssumption
  <2>6. OnePlace(r)'
    BY <1>1, <2>1, <2>2, <2>3 DEF OnePlace, Unseen, Once, AtWorker
  <2>7. \A q \in Reqs \ {r} : OnePlace(q) => OnePlace(q)'
    BY <1>1, <2>1, <2>3, <2>4 DEF OnePlace, Once
  <2>8. \A q \in Reqs \ {r} : Unseen(q) => Unseen(q)'
    BY <1>1, <2>1, <2>3, <2>4 DEF Unseen
  <2>9. received' = received \cup {r}
    BY <1>1 DEF Arrives
  <2> QED
    BY <2>6, <2>7, <2>8, <2>9 DEF Places, IPlaces
<1> QED
  BY <1>2, <1>3

\* push() moves the request the main thread holds to the queue.
LEMMA PlacesPush == IPlaces /\ Push => Places'
<1> SUFFICES ASSUME IPlaces, Push PROVE Places'
  OBVIOUS
<1>1. /\ UNCHANGED <<answers, dropped, received, task, wpc>> /\ incoming' = NoReq
      /\ incoming \in Reqs /\ incoming \in Tasks /\ queue \in Seq(Tasks)
      /\ queue' = Append(queue, incoming)
  BY DEF Push, push, workVars, clientVars, IPlaces, IType, TypeOK, Phase, Tasks
<1>r. PICK r \in Reqs : r = incoming
  BY <1>1
<1>2. r \in received /\ OnePlace(r)
  BY <1>r DEF IPlaces, Places, Unseen
<1>3. answers[r] = <<>> /\ ~Queued(r) /\ ~AtWorker(r) /\ r \notin dropped /\ Once(r)
  BY <1>r, <1>2 DEF OnePlace, Once
<1>4. \A q \in Reqs \ {r} : (Queued(q)' <=> Queued(q)) /\ (Once(q) => Once(q)') /\ incoming # q
  BY <1>r, <1>1, QueuedAppend
<1>5. Queued(r)' /\ Once(r)'
  BY <1>r, <1>1, <1>3, QueuedAppend
<1>6. \A q \in Reqs : (AtWorker(q)' <=> AtWorker(q)) /\ incoming' # q
  BY <1>1, NoReqAssumption DEF AtWorker
<1>7. answers'[r] = <<>> /\ ~AtWorker(r)' /\ r \notin dropped'
  BY <1>1, <1>3, <1>6
<1>8. OnePlace(r)'
  BY <1>5, <1>6, <1>7 DEF OnePlace, Once
<1>9. \A q \in Reqs \ {r} : OnePlace(q) => OnePlace(q)'
  BY <1>1, <1>4, <1>6 DEF OnePlace, Once
<1>10. \A q \in Reqs \ {r} : Unseen(q) => Unseen(q)'
  BY <1>1, <1>4, <1>6 DEF Unseen
<1> QED
  BY <1>1, <1>2, <1>8, <1>9, <1>10 DEF Places, IPlaces

\* No message the main thread reads makes a request vanish or appear twice.
LEMMA MainPlaces == IPlaces /\ Main => Places'
<1> SUFFICES ASSUME IPlaces, Main PROVE Places'
  OBVIOUS
<1> USE DEF workVars, clientVars
<1>1. CASE Drain
  <2>1. UNCHANGED <<incoming, queue, answers, dropped, received, task, wpc>>
    BY <1>1 DEF Drain
  <2> QED
    BY <2>1, PlacesFrame DEF AtWorker, IPlaces
<1>2. CASE ReadIgnored
  <2>1. UNCHANGED <<incoming, queue, answers, dropped, received, task, wpc>>
    BY <1>2 DEF ReadIgnored, Reading
  <2> QED
    BY <2>1, PlacesFrame DEF AtWorker, IPlaces
<1>3. CASE Exit
  <2>1. UNCHANGED <<incoming, queue, answers, dropped, received, task, wpc>>
    BY <1>3 DEF Exit
  <2> QED
    BY <2>1, PlacesFrame DEF AtWorker, IPlaces
<1>4. CASE Notify
  BY <1>4, PlacesNotify
<1>5. ASSUME NEW i \in Ids, CancelRequest(i) PROVE Places'
  <2>1. UNCHANGED <<incoming, queue, answers, dropped, received, task, wpc>>
    BY <1>5 DEF CancelRequest, Reading
  <2> QED
    BY <2>1, PlacesFrame DEF AtWorker, IPlaces
<1>6. ASSUME NEW r \in Reqs, ReadAnswered(r) PROVE Places'
  <2>1. PICK c \in Codes : Answer(r, c)
    BY <1>6 DEF ReadAnswered, Codes
  <2>2. Arrives(r) /\ UNCHANGED <<incoming, queue, dropped, task, wpc>>
    BY <1>6 DEF ReadAnswered, Reading
  <2> QED
    BY <2>1, <2>2, PlacesAnswered
<1>7. ASSUME NEW r \in Reqs, Initialize(r) PROVE Places'
  <2>1. PICK c \in Codes : Answer(r, c)
    BY <1>7 DEF Initialize, Codes
  <2>2. Arrives(r) /\ UNCHANGED <<incoming, queue, dropped, task, wpc>>
    BY <1>7 DEF Initialize, Reading
  <2> QED
    BY <2>1, <2>2, PlacesAnswered
<1>8. ASSUME NEW r \in Reqs, Shutdown(r) PROVE Places'
  <2>1. PICK c \in Codes : Answer(r, c)
    BY <1>8 DEF Shutdown, Codes
  <2>2. Arrives(r) /\ UNCHANGED <<incoming, queue, dropped, task, wpc>>
    BY <1>8 DEF Shutdown, Reading
  <2> QED
    BY <2>1, <2>2, PlacesAnswered
<1>9. ASSUME NEW r \in Reqs, Enqueue(r) PROVE Places'
  BY <1>9, PlacesEnqueue
<1>10. CASE Push
  BY <1>10, PlacesPush
<1> QED
  BY <1>1, <1>2, <1>3, <1>4, <1>5, <1>6, <1>7, <1>8, <1>9, <1>10 DEF Main

\* pop moves the head of the queue to the worker, or drops it after a stop.
LEMMA PlacesPop == IPlaces /\ Pop => Places'
<1> SUFFICES ASSUME IPlaces, Pop PROVE Places'
  OBVIOUS
<1>1. /\ queue \in Seq(Tasks) /\ queue # <<>> /\ queue' = Tail(queue)
      /\ UNCHANGED <<incoming, answers, received>> /\ wpc = "pop" /\ task = NoReq
  BY DEF IPlaces, IType, TypeOK, Phase, Pop, mainUnchanged, mainVars, clientVars
<1>2. \A r \in Reqs : Once(r)
  BY DEF IPlaces, Places, OnePlace, Unseen, Once
<1>3. \A r \in Reqs : /\ Queued(r) <=> Queued(r)' \/ r = Head(queue)
                      /\ Once(r)'
                      /\ r = Head(queue) => ~Queued(r)'
  BY <1>1, <1>2, QueuedTail
<1>4. \A r \in Reqs : ~AtWorker(r)
  BY <1>1 DEF AtWorker
<1>5. \/ stop /\ wpc' = "joined" /\ dropped' = dropped \cup {Head(queue)} /\ task' = task
      \/ ~stop /\ wpc' = "check" /\ task' = Head(queue) /\ dropped' = dropped
  BY DEF Pop
<1>6. \A r \in Reqs : OnePlace(r) => OnePlace(r)'
  BY <1>1, <1>3, <1>4, <1>5 DEF OnePlace, Once, AtWorker
<1>7. \A r \in Reqs : Unseen(r) => Unseen(r)'
  BY <1>1, <1>3, <1>5 DEF Unseen
<1> QED
  BY <1>1, <1>6, <1>7 DEF Places, IPlaces

\* The worker answers the request it holds, which has no answer yet.
LEMMA PlacesSend == IPlaces /\ Send => Places'
<1> SUFFICES ASSUME IPlaces, Send PROVE Places'
  OBVIOUS
<1>1. /\ task \in Reqs /\ wpc = "send" /\ wpc' = "mark"
      /\ UNCHANGED <<incoming, queue, dropped, received, task>>
      /\ answers' = [answers EXCEPT ![task] = Append(@, code)]
      /\ answers \in [Reqs -> Seq(Codes)] /\ code \in Codes
  BY DEF IPlaces, IType, TypeOK, Phase, Send, Answer, mainUnchanged, mainVars, clientVars
<1>2. task \in received /\ AtWorker(task)
  BY <1>1 DEF IPlaces, Places, Unseen, AtWorker
<1>3. answers[task] = <<>> /\ incoming # task /\ ~Queued(task) /\ task \notin dropped
  BY <1>1, <1>2 DEF IPlaces, Places, OnePlace
<1>4. Len(answers'[task]) = 1 /\ answers'[task] # <<>>
  BY <1>1, <1>3
<1>5. \A r \in Reqs : (Queued(r)' <=> Queued(r)) /\ (Once(r)' <=> Once(r)) /\ ~AtWorker(r)'
  BY <1>1 DEF Queued, Once, AtWorker
<1>6. OnePlace(task)'
  BY <1>1, <1>2, <1>3, <1>4, <1>5 DEF OnePlace, Once, IPlaces, Places
<1>7. \A r \in Reqs \ {task} : ~AtWorker(r) /\ answers'[r] = answers[r]
  BY <1>1 DEF AtWorker
<1>8. \A r \in Reqs \ {task} : OnePlace(r) => OnePlace(r)'
  BY <1>1, <1>5, <1>7 DEF OnePlace, Once
<1>9. \A r \in Reqs \ {task} : Unseen(r) => Unseen(r)'
  BY <1>1, <1>5, <1>7 DEF Unseen
<1> QED
  BY <1>1, <1>2, <1>6, <1>8, <1>9 DEF Places, IPlaces

\* When the server has stopped, what is still queued is dropped.
LEMMA PlacesJoin == IPlaces /\ Join => Places'
<1> SUFFICES ASSUME IPlaces, Join PROVE Places'
  OBVIOUS
<1>1. /\ UNCHANGED <<incoming, answers, received, task, wpc>> /\ queue' = <<>>
      /\ dropped' = dropped \cup {queue[i] : i \in 1 .. Len(queue)}
  BY DEF Join, mainVars, workVars, clientVars
<1>2. \A r \in Reqs : (r \in dropped' <=> r \in dropped \/ Queued(r)) /\ ~Queued(r)' /\ Once(r)'
  BY <1>1, SMTT(30) DEF Queued, Once
<1>3. \A r \in Reqs : AtWorker(r)' <=> AtWorker(r)
  BY <1>1 DEF AtWorker
<1>4. \A r \in Reqs : OnePlace(r) => OnePlace(r)'
  BY <1>1, <1>2, <1>3 DEF OnePlace, Once
<1>5. \A r \in Reqs : Unseen(r) => Unseen(r)'
  BY <1>1, <1>2 DEF Unseen
<1> QED
  BY <1>1, <1>4, <1>5 DEF Places, IPlaces

\* No step of the worker loses, repeats or doubly answers a request.
LEMMA WorkerPlaces == IPlaces /\ Worker => Places'
<1> SUFFICES ASSUME IPlaces, Worker PROVE Places'
  OBVIOUS
<1> USE DEF mainUnchanged, mainVars, clientVars
<1> DEFINE Held == \A r \in Reqs : (AtWorker(r)' <=> AtWorker(r)) /\ (task' = r => task = r)
<1>0. Phase /\ Places
  BY DEF IPlaces, IType
<1>1. CASE Sweep
  <2>1. UNCHANGED <<incoming, queue, answers, dropped, received>> /\ Held
    BY <1>1 DEF Sweep, AtWorker
  <2> QED
    BY <1>0, <2>1, PlacesFrame
<1>2. CASE PollTimeout
  <2>1. UNCHANGED <<incoming, queue, answers, dropped, received>> /\ Held
    BY <1>2 DEF PollTimeout, AtWorker
  <2> QED
    BY <1>0, <2>1, PlacesFrame
<1>3. CASE Pop
  BY <1>3, PlacesPop
<1>4. CASE RunNotification
  <2>1. UNCHANGED <<incoming, queue, answers, dropped, received>> /\ Held
    BY <1>4, NoReqAssumption DEF RunNotification, AtWorker
  <2> QED
    BY <1>0, <2>1, PlacesFrame
<1>5. CASE Compute
  <2>1. UNCHANGED <<incoming, queue, answers, dropped, received>> /\ Held
    BY <1>5 DEF Compute, AtWorker
  <2> QED
    BY <1>0, <2>1, PlacesFrame
<1>6. CASE Send
  BY <1>6, PlacesSend
<1>7. CASE MarkDone
  <2>1. UNCHANGED <<incoming, queue, answers, dropped, received>> /\ Held
    BY <1>7, NoReqAssumption DEF MarkDone, AtWorker
  <2> QED
    BY <1>0, <2>1, PlacesFrame
<1>8. ASSUME NEW from \in {"check", "run", "recheck"}, NEW to \in {"run", "compute", "send"},
             TestCancelled(from, to)
      PROVE  Places'
  <2>1. UNCHANGED <<incoming, queue, answers, dropped, received>> /\ Held
    BY <1>8 DEF TestCancelled, Skip, AtWorker
  <2> QED
    BY <1>0, <2>1, PlacesFrame
<1> QED
  BY <1>1, <1>2, <1>3, <1>4, <1>5, <1>6, <1>7, <1>8 DEF Worker

\* Initially there are no requests anywhere.
LEMMA InitPlaces == Init => Places
  BY NoReqAssumption DEF Init, Places, Unseen, Queued, Once

\* Every step keeps every request in one place.
LEMMA NextPlaces == IPlaces /\ [Next]_vars => IPlaces'
<1>1. IPlaces /\ UNCHANGED vars => Places'
  BY PlacesFrame DEF IPlaces, vars, mainVars, workVars, clientVars, AtWorker
<1>2. IPlaces /\ [Next]_vars => IType'
  BY NextType DEF IPlaces
<1> QED
  BY <1>1, <1>2, MainPlaces, WorkerPlaces, PlacesJoin DEF Next, Gone, IPlaces

\* Every request Server::run has read is answered exactly once, or still owned by the
\* main thread, the queue or the worker, or dropped because the server stopped: for every number of
\* requests, however ids repeat, whatever is cancelled and whatever throws.
THEOREM AccountedFor == Spec => []EveryRequestAccountedFor
<1>1. Init => IPlaces
  BY InitType, InitPlaces DEF IPlaces
<1>2. IPlaces => EveryRequestAccountedFor
  BY DEF IPlaces, IType, TypeOK, Places, EveryRequestAccountedFor
<1> QED
  BY <1>1, <1>2, NextPlaces, PTL DEF Spec

-----------------------------------------------------------------------------
(* in_flight_ is bounded by the work that is outstanding. *)

\* Where the request of an in_flight_ entry may be.
Owned(i) ==
    LET r == in_flight[i] IN
    /\ IdOf[r] = i
    /\ incoming = r \/ Queued(r) \/ task = r \/ r \in dropped \/ i \in completed

Tracked == \A i \in Ids : in_flight[i] # NoReq => Owned(i)

\* A step that keeps the owners of a request and adds no entry keeps Tracked.
LEMMA TrackedFrame ==
  ASSUME IType, Tracked, UNCHANGED in_flight,
         \A r \in Reqs : incoming = r \/ Queued(r) \/ task = r \/ r \in dropped =>
                            \/ incoming' = r \/ Queued(r)' \/ task' = r \/ r \in dropped'
                            \/ IdOf[r] \in completed',
         completed \subseteq completed'
  PROVE  Tracked'
<1> SUFFICES ASSUME NEW i \in Ids, in_flight[i] # NoReq PROVE Owned(i)'
  BY DEF Tracked
<1>1. in_flight[i] \in Reqs /\ Owned(i)
  BY DEF IType, TypeOK, Tracked
<1> QED
  BY <1>1 DEF Owned

\* The main thread adds an entry only for a request it queues.
LEMMA MainTracked == IType /\ Tracked /\ Main => Tracked'
<1> SUFFICES ASSUME IType, Tracked, Main PROVE Tracked'
  OBVIOUS
<1> USE DEF workVars, clientVars
<1>1. CASE Drain
  <2>1. UNCHANGED <<incoming, queue, task, dropped>>
        /\ in_flight' = [i \in Ids |-> IF i \in completed THEN NoReq ELSE in_flight[i]]
    BY <1>1 DEF Drain
  <2>2. \A r : Queued(r)' <=> Queued(r)
    BY <2>1 DEF Queued
  <2> QED
    BY <2>1, <2>2 DEF Tracked, Owned
<1>2. CASE ReadIgnored
  BY <1>2, TrackedFrame DEF ReadIgnored, Reading, Queued
<1>3. CASE Exit
  BY <1>3, TrackedFrame DEF Exit, Queued
<1>4. CASE Notify
  <2>1. arrived' \in Tasks /\ queue \in Seq(Tasks) /\ queue' = Append(queue, arrived')
    BY <1>4, BoundsAssumption DEF IType, TypeOK, Notify, Tasks, push
  <2>2. \A r : Queued(r) => Queued(r)'
    BY <2>1, QueuedAppend
  <2>3. UNCHANGED <<incoming, in_flight, task, dropped, completed>>
    BY <1>4 DEF Notify, Reading
  <2> QED
    BY <2>2, <2>3, TrackedFrame
<1>5. ASSUME NEW i \in Ids, CancelRequest(i) PROVE Tracked'
  BY <1>5, TrackedFrame, Zenon DEF CancelRequest, Reading, Queued
<1>6. ASSUME NEW r \in Reqs, ReadAnswered(r) PROVE Tracked'
  BY <1>6, TrackedFrame, Zenon DEF ReadAnswered, Reading, Queued
<1>7. ASSUME NEW r \in Reqs, Initialize(r) PROVE Tracked'
  BY <1>7, TrackedFrame DEF Initialize, Reading, Queued
<1>8. ASSUME NEW r \in Reqs, Shutdown(r) PROVE Tracked'
  BY <1>8, TrackedFrame DEF Shutdown, Reading, Queued
<1>9. ASSUME NEW r \in Reqs, Enqueue(r) PROVE Tracked'
  <2>1. /\ UNCHANGED <<queue, task, dropped, completed>> /\ in_flight \in [Ids -> Reqs \cup {NoReq}]
        /\ incoming = NoReq
    BY <1>9 DEF Enqueue, IType, TypeOK, Phase
  <2>2. \A q : Queued(q)' <=> Queued(q)
    BY <2>1 DEF Queued
  <2>3. CASE full
    <3>1. in_flight' = [in_flight EXCEPT ![IdOf[r]] = NoReq] /\ UNCHANGED incoming
      BY <1>9, <2>3 DEF Enqueue, RejectBusy
    <3> QED
      BY <2>1, <2>2, <3>1 DEF Tracked, Owned
  <2>4. CASE ~full
    <3>1. in_flight' = [in_flight EXCEPT ![IdOf[r]] = r] /\ incoming' = r
      BY <1>9, <2>4 DEF Enqueue, Track
    <3> QED
      BY <2>1, <2>2, <3>1, IdAssumption DEF Tracked, Owned
  <2> QED
    BY <2>3, <2>4
<1>10. CASE Push
  <2>1. /\ incoming \in Reqs /\ incoming \in Tasks /\ queue \in Seq(Tasks)
        /\ queue' = Append(queue, incoming) /\ UNCHANGED <<in_flight, task, dropped, completed>>
    BY <1>10 DEF Push, push, IType, TypeOK, Phase, Tasks
  <2>2. \A r : Queued(r)' <=> Queued(r) \/ r = incoming
    BY <2>1, QueuedAppend
  <2> QED
    BY <2>1, <2>2, TrackedFrame
<1> QED
  BY <1>1, <1>2, <1>3, <1>4, <1>5, <1>6, <1>7, <1>8, <1>9, <1>10 DEF Main

\* The worker reports the completion of every request it lets go of.
LEMMA WorkerTracked == IType /\ Tracked /\ (Worker \/ Join) => Tracked'
<1> SUFFICES ASSUME IType, Tracked, Worker \/ Join PROVE Tracked'
  OBVIOUS
<1> USE DEF mainUnchanged, mainVars, workVars
<1>1. CASE Sweep
  BY <1>1, TrackedFrame DEF Sweep, Queued
<1>2. CASE PollTimeout
  BY <1>2, TrackedFrame DEF PollTimeout, Queued
<1>3. CASE Pop
  <2>1. queue \in Seq(Tasks) /\ queue # <<>> /\ queue' = Tail(queue) /\ task = NoReq
        /\ UNCHANGED <<incoming, in_flight, completed>>
    BY <1>3 DEF Pop, IType, TypeOK, Phase
  <2>2. \A r : Queued(r) => Queued(r)' \/ r = Head(queue)
    BY <2>1, QueuedTail
  <2>3. \/ dropped' = dropped \cup {Head(queue)} /\ task' = task
        \/ task' = Head(queue) /\ dropped' = dropped
    BY <1>3 DEF Pop
  <2>4. \A r \in Reqs : Queued(r) \/ task = r \/ r \in dropped =>
                            Queued(r)' \/ task' = r \/ r \in dropped'
    BY <2>1, <2>2, <2>3, NoReqAssumption
  <2> QED
    BY <2>1, <2>4, TrackedFrame
<1>4. CASE RunNotification
  BY <1>4, TrackedFrame DEF RunNotification, Queued
<1>5. CASE Compute
  BY <1>5, TrackedFrame DEF Compute, Queued
<1>6. CASE Send
  BY <1>6, TrackedFrame DEF Send, Queued
<1>7. CASE MarkDone
  <2>1. UNCHANGED <<incoming, queue, dropped, in_flight>> /\ completed' = completed \cup {IdOf[task]}
    BY <1>7 DEF MarkDone, mark_done
  <2>2. \A r : Queued(r)' <=> Queued(r)
    BY <2>1 DEF Queued
  <2> QED
    BY <2>1, <2>2, TrackedFrame
<1>8. ASSUME NEW from, NEW to, TestCancelled(from, to) PROVE Tracked'
  BY <1>8, TrackedFrame DEF TestCancelled, Queued
<1>9. CASE Join
  <2>1. /\ UNCHANGED <<incoming, in_flight, task, completed>>
        /\ dropped' = dropped \cup {queue[i] : i \in 1 .. Len(queue)}
    BY <1>9 DEF Join
  <2>2. \A r : Queued(r) => r \in dropped'
    BY <2>1 DEF Queued
  <2> QED
    BY <2>1, <2>2, TrackedFrame
<1> QED
  BY <1>1, <1>2, <1>3, <1>4, <1>5, <1>6, <1>7, <1>8, <1>9 DEF Worker

\* No entry of in_flight_ outlives its request by more than the drain that removes it,
\* on any path through cancel, throw, full queue and stop, even with reused ids.
THEOREM NotLeaked == Spec => []InFlightNotLeaked
<1>1. Init => Tracked
  BY DEF Init, Tracked
<1>2. IType /\ Tracked /\ UNCHANGED vars => Tracked'
  BY TrackedFrame DEF vars, mainVars, workVars, Queued
<1>3. IType /\ Tracked /\ [Next]_vars => (IType /\ Tracked)'
  BY <1>2, NextType, MainTracked, WorkerTracked DEF Next, Gone
<1>4. Tracked => InFlightNotLeaked
  BY DEF Tracked, Owned, InFlightNotLeaked
<1> QED
  BY <1>1, <1>3, <1>4, InitType, PTL DEF Spec

-----------------------------------------------------------------------------
(* The shutdown and the queue bound. *)

\* Once shutdown has been received the dispatch loop rejects everything but exit, so
\* no step adds a task to the queue.
THEOREM ShutdownStopsWork == Spec => NoWorkAfterShutdown
<1> DEFINE Old == {queue[j] : j \in 1 .. Len(queue)}
           NoNew == \A k \in 1 .. Len(queue') : queue'[k] \in Old
<1>1. ASSUME queue' = queue PROVE NoNew
  BY <1>1
<1>2. ASSUME IType, queue # <<>>, queue' = Tail(queue) PROVE NoNew
  <2>1. Len(queue') = Len(queue) - 1 /\ \A k \in 1 .. Len(queue') : queue'[k] = queue[k + 1]
    BY <1>2 DEF IType, TypeOK
  <2>2. Len(queue) \in Nat
    BY <1>2 DEF IType, TypeOK
  <2> QED
    BY <2>1, <2>2
<1>3. ASSUME queue' = <<>> PROVE NoNew
  BY <1>3
<1>4. ASSUME IType, shutdown_received, Main PROVE UNCHANGED queue
  BY <1>4, Zenon DEF Main, Drain, ReadIgnored, Exit, Notify, CancelRequest, ReadAnswered, Initialize,
              Shutdown, Enqueue, Push, Serving, IType, Phase
<1>5. ASSUME Worker PROVE queue' = queue \/ (queue # <<>> /\ queue' = Tail(queue))
  BY <1>5, Zenon DEF Worker, Sweep, PollTimeout, Pop, RunNotification, Compute, Send, MarkDone, TestCancelled
<1>6. ASSUME Join PROVE queue' = <<>>
  BY <1>6 DEF Join
<1>7. ASSUME Gone \/ UNCHANGED vars PROVE queue' = queue
  BY <1>7 DEF Gone, vars
<1>8. IType /\ [Next]_vars => [shutdown_received => NoNew]_vars
  BY <1>1, <1>2, <1>3, <1>4, <1>5, <1>6, <1>7 DEF Next
<1> QED
  BY <1>8, InitType, NextType, PTL DEF Spec, NoWorkAfterShutdown

-----------------------------------------------------------------------------
(* Cancellation of a request whose id no other request has. *)

\* A completion is reported only for a request that was answered.
Marked ==
    /\ wpc = "mark" => answers[task] # <<>>
    /\ \A i \in completed : \E q \in received : IdOf[q] = i /\ answers[q] # <<>>

\* What has not reached compute() has not been computed.
Early(r) ==
    r \notin received \/ incoming = r \/ Queued(r) \/ (task = r /\ wpc \in {"check", "run", "compute"})
Uncomputed == \A r \in Reqs : Early(r) => computedAt[r] = -1

\* A request cancelled in the queue carries its flag, so it never reaches compute().
Doomed ==
    \A r \in Reqs : asked[r] = "queued" /\ OnlyOne(r) =>
                      r \in cancelled /\ ~(task = r /\ wpc = "compute")

ICancel == IPlaces /\ Marked /\ Cancellable /\ Uncomputed /\ Doomed /\ CancelHonoured

\* Where the steps of the server leave a request that is answered, queued or held: an
\* answer is not taken back, and only Enqueue puts a request in the queue.
LEMMA AnswersStay ==
  ASSUME IPlaces, [Next]_vars
  PROVE  \A r \in Reqs : answers[r] # <<>> => answers'[r] # <<>>
<1>0. IType /\ TypeOK
  BY DEF IPlaces, IType
<1>1. ASSUME NEW r \in Reqs, NEW c \in Codes, Answer(r, c)
      PROVE  \A q \in Reqs : answers[q] # <<>> => answers'[q] # <<>>
  <2>1. \A q \in Reqs : q # r => answers'[q] = answers[q]
    BY <1>0, <1>1 DEF Answer, TypeOK
  <2>2. answers[r] \in Seq(Codes) /\ answers'[r] = Append(answers[r], c)
    BY <1>0, <1>1 DEF Answer, TypeOK
  <2>3. answers'[r] # <<>>
    BY <2>2
  <2> QED
    BY <2>1, <2>3
<1>2. CASE Main
  <2>1. CASE Drain \/ ReadIgnored \/ Exit \/ Notify \/ Push \/ \E i \in Ids : CancelRequest(i)
    BY <2>1 DEF Drain, ReadIgnored, Exit, Notify, Push, CancelRequest
  <2>2. ASSUME NEW r \in Reqs, ReadAnswered(r) \/ Initialize(r) \/ Shutdown(r)
        PROVE  \A q \in Reqs : answers[q] # <<>> => answers'[q] # <<>>
    <3>1. PICK c \in Codes : Answer(r, c)
      BY <2>2 DEF ReadAnswered, Initialize, Shutdown, Codes
    <3> QED
      BY <1>1, <3>1
  <2>3. ASSUME NEW r \in Reqs, Enqueue(r)
        PROVE  \A q \in Reqs : answers[q] # <<>> => answers'[q] # <<>>
    <3>1. answers' = answers \/ Answer(r, "busy")
      BY <2>3 DEF Enqueue, RejectBusy
    <3> QED
      BY <1>1, <3>1 DEF Codes
  <2> QED
    BY <1>2, <2>1, <2>2, <2>3 DEF Main
<1>3. CASE Worker
  <2>1. CASE Send
    <3>1. task \in Reqs /\ code \in Codes /\ Answer(task, code)
      BY <1>0, <2>1 DEF Send, IType, Phase
    <3> QED
      BY <1>1, <3>1
  <2>2. CASE ~Send
    BY <1>3, <2>2, Zenon DEF Worker, Sweep, PollTimeout, Pop, RunNotification, Compute, MarkDone, TestCancelled
  <2> QED
    BY <2>1, <2>2
<1>4. CASE Join \/ UNCHANGED vars
  BY <1>4 DEF Join, vars
<1> QED
  BY <1>2, <1>3, <1>4 DEF Next, Gone

\* The set of requests read only grows, so a second use of an id is never forgotten.
LEMMA ReceivedGrows ==
  ASSUME [Next]_vars
  PROVE  received \subseteq received' /\ \A r : OnlyOne(r)' => OnlyOne(r)
<1>1. received \subseteq received'
  BY Zenon DEF Next, Main, Drain, ReadIgnored, Exit, Notify, Push, CancelRequest, ReadAnswered,
       Initialize, Shutdown, Enqueue, Arrives, Worker, Sweep, PollTimeout, Pop, RunNotification,
       Compute, Send, MarkDone, TestCancelled, mainUnchanged, clientVars, Join, Gone, vars
<1> QED
  BY <1>1 DEF OnlyOne

\* Only an answered request is reported as completed.
LEMMA NextMarked == IPlaces /\ Marked /\ [Next]_vars => Marked'
<1> SUFFICES ASSUME IPlaces, Marked, [Next]_vars PROVE Marked'
  OBVIOUS
<1>0. /\ IType /\ \A r \in Reqs : answers[r] # <<>> => answers'[r] # <<>>
      /\ received \subseteq received' /\ received \subseteq Reqs
  BY AnswersStay, ReceivedGrows DEF IPlaces, IType, TypeOK
<1>1. ASSUME completed' \subseteq completed, wpc' = "mark" => wpc = "mark" /\ task' = task
      PROVE  Marked'
  BY <1>0, <1>1 DEF Marked, IType, Phase
<1>2. CASE Main
  BY <1>1, <1>2 DEF Main, Drain, ReadIgnored, Exit, Notify, Push, CancelRequest, ReadAnswered, Initialize,
                    Shutdown, Enqueue, workVars
<1>3. CASE Send
  <2>1. /\ task \in Reqs /\ UNCHANGED <<task, completed>>
        /\ answers \in [Reqs -> Seq(Codes)] /\ answers' = [answers EXCEPT ![task] = Append(@, code)]
    BY <1>0, <1>3 DEF Send, Answer, IType, TypeOK, Phase
  <2>2. answers[task] \in Seq(Codes) /\ answers'[task] = Append(answers[task], code)
    BY <2>1
  <2>3. answers'[task] # <<>>
    BY <2>2
  <2> QED
    BY <1>0, <2>1, <2>3 DEF Marked
<1>4. CASE MarkDone
  <2>1. /\ task \in Reqs /\ answers[task] # <<>> /\ UNCHANGED answers
        /\ completed' = completed \cup {IdOf[task]} /\ wpc' = "sweep"
    BY <1>0, <1>4 DEF MarkDone, mark_done, IType, Phase, Marked
  <2>2. task \in received
    BY <2>1 DEF IPlaces, Places, Unseen
  <2> QED
    BY <1>0, <2>1, <2>2 DEF Marked
<1>5. CASE Worker /\ ~Send /\ ~MarkDone
  BY <1>1, <1>5, Zenon DEF Worker, Sweep, PollTimeout, Pop, RunNotification, Compute, TestCancelled, Skip
<1>6. CASE Join \/ UNCHANGED vars
  BY <1>1, <1>6 DEF Join, vars, workVars
<1> QED
  BY <1>2, <1>3, <1>4, <1>5, <1>6 DEF Next, Gone, Worker

\* A request that waits was read and has no answer.
LEMMA WaitingUnanswered ==
  ASSUME IPlaces, NEW r \in Reqs, Pending(r)
  PROVE  r \in received /\ answers[r] = <<>>
<1>1. r \in received
  BY DEF IPlaces, Places, Unseen, AtWorker, Pending
<1> QED
  BY <1>1, Zenon DEF IPlaces, Places, OnePlace, Pending

\* Outside enqueue_cancellable_request no request comes to wait that did not.
LEMMA NoNewWaiting ==
  ASSUME IPlaces, [Next]_vars, \A r \in Reqs : ~Enqueue(r)
  PROVE  \A r \in Reqs : Pending(r)' => Pending(r)
<1>0. IType
  BY DEF IPlaces
<1>1. ASSUME UNCHANGED <<incoming, queue>>, \A r \in Reqs : AtWorker(r)' => AtWorker(r)
      PROVE  \A r \in Reqs : Pending(r)' => Pending(r)
  BY <1>1 DEF Queued, Pending
<1>2. CASE Main
  <2>1. CASE Notify
    <3>1. /\ arrived' \in 1 .. MaxNotes /\ queue \in Seq(Tasks)
          /\ queue' = Append(queue, arrived') /\ UNCHANGED <<incoming, task, wpc>>
      BY <1>0, <2>1, BoundsAssumption DEF IType, TypeOK, Notify, Reading, push, workVars
    <3>2. arrived' \in Tasks /\ \A r \in Reqs : r # arrived'
      BY <3>1, NoReqAssumption DEF Tasks
    <3>3. \A r \in Reqs : Queued(r)' <=> Queued(r)
      BY <3>1, <3>2, QueuedAppend
    <3> QED
      BY <3>1, <3>3 DEF AtWorker, Pending
  <2>2. CASE Push
    <3>1. /\ incoming \in Tasks /\ incoming' = NoReq /\ queue \in Seq(Tasks)
          /\ queue' = Append(queue, incoming) /\ UNCHANGED <<task, wpc>>
      BY <1>0, <2>2 DEF IType, TypeOK, Phase, Push, push, workVars, Tasks
    <3>2. \A r : Queued(r)' <=> Queued(r) \/ r = incoming
      BY <3>1, QueuedAppend
    <3> QED
      BY <3>1, <3>2, NoReqAssumption DEF AtWorker, Pending
  <2>3. CASE ~Notify /\ ~Push
    <3>1. UNCHANGED <<incoming, queue, task, wpc>>
      BY <1>2, <2>3 DEF Main, Drain, ReadIgnored, Exit, CancelRequest, ReadAnswered, Initialize,
                        Shutdown, Reading, workVars
    <3> QED
      BY <1>1, <3>1 DEF AtWorker
  <2> QED
    BY <2>1, <2>2, <2>3
<1>3. CASE Pop
  <2>1. /\ queue \in Seq(Tasks) /\ queue # <<>> /\ queue' = Tail(queue) /\ UNCHANGED incoming
        /\ (wpc' = "joined" /\ task' = task) \/ task' = Head(queue)
    BY <1>0, <1>3 DEF Pop, IType, TypeOK, mainUnchanged, mainVars
  <2>2. \A r \in Reqs : Queued(r) <=> Queued(r)' \/ r = Head(queue)
    BY <2>1, QueuedTail
  <2> QED
    BY <2>1, <2>2 DEF AtWorker, Pending
<1>4. CASE Worker /\ ~Pop
  <2>1. UNCHANGED <<incoming, queue>>
    BY <1>4, Zenon DEF Worker, Sweep, PollTimeout, RunNotification, Compute, Send, MarkDone, TestCancelled,
                       mainUnchanged, mainVars
  <2>2. \A r \in Reqs : AtWorker(r)' => AtWorker(r)
    BY <1>0, <1>4, NoReqAssumption, Zenon
       DEF Worker, Sweep, PollTimeout, RunNotification, Compute, Send, MarkDone, TestCancelled, Skip,
           AtWorker, IType, Phase
  <2> QED
    BY <1>1, <2>1, <2>2
<1>5. CASE Join
  <2>1. queue' = <<>> /\ UNCHANGED <<incoming, task, wpc>>
    BY <1>5 DEF Join, mainVars, workVars
  <2> QED
    BY <2>1 DEF Queued, AtWorker, Pending
<1>6. CASE UNCHANGED vars
  BY <1>1, <1>6 DEF vars, mainVars, workVars, AtWorker
<1> QED
  BY <1>2, <1>3, <1>4, <1>5, <1>6 DEF Next, Gone, Worker

\* in_flight_ keeps the flag of a request for as long as it waits: the drain only erases
\* what was answered, and enqueueing touches no other id.
LEMMA NextCancellable == IPlaces /\ Marked /\ Cancellable /\ [Next]_vars => Cancellable'
<1> SUFFICES ASSUME IPlaces, Marked, Cancellable, [Next]_vars,
                    NEW r \in received', Pending(r)', OnlyOne(r)'
             PROVE  in_flight'[IdOf[r]] = r
  BY DEF Cancellable
<1>0. /\ IType /\ TypeOK /\ r \in Reqs /\ OnlyOne(r) /\ IdOf[r] \in Ids
      /\ in_flight \in [Ids -> Reqs \cup {NoReq}]
  BY NextPlaces, ReceivedGrows, IdAssumption DEF IPlaces, IType, TypeOK
<1>1. ASSUME Pending(r) PROVE r \in received /\ in_flight[IdOf[r]] = r /\ IdOf[r] \notin completed
  <2>1. r \in received /\ answers[r] = <<>>
    BY <1>0, <1>1, WaitingUnanswered
  <2> QED
    BY <1>0, <1>1, <2>1 DEF Cancellable, Marked, OnlyOne
<1>2. ASSUME NEW q \in Reqs, Enqueue(q) PROVE in_flight'[IdOf[r]] = r
  <2>1. /\ UNCHANGED <<queue, task, wpc>> /\ incoming = NoReq
        /\ q \notin received /\ received' = received \cup {q}
    BY <1>0, <1>2 DEF Enqueue, Arrives, workVars, IType, Phase
  <2>2. \/ in_flight' = [in_flight EXCEPT ![IdOf[q]] = NoReq] /\ incoming' = incoming
        \/ in_flight' = [in_flight EXCEPT ![IdOf[q]] = q] /\ incoming' = q
    BY <1>2, Zenon DEF Enqueue, RejectBusy, Track
  <2>3. Pending(r) \/ incoming' = r
    BY <2>1 DEF Pending, Queued, AtWorker
  <2>4. CASE r = q
    <3>1. ~Pending(r)
      BY <1>1, <2>1, <2>4
    <3>2. incoming' = r /\ incoming # r
      BY <1>0, <2>1, <2>3, <3>1, NoReqAssumption
    <3> QED
      BY <1>0, <2>2, <2>4, <3>2
  <2>5. CASE r # q
    <3>1. IdOf[q] # IdOf[r]
      BY <2>1, <2>5 DEF OnlyOne
    <3>2. Pending(r)
      BY <1>0, <2>1, <2>2, <2>3, <2>5, NoReqAssumption
    <3> QED
      BY <1>0, <1>1, <2>2, <3>1, <3>2
  <2> QED
    BY <2>4, <2>5
<1>3. ASSUME \A q \in Reqs : ~Enqueue(q) PROVE in_flight'[IdOf[r]] = r
  <2>1. in_flight[IdOf[r]] = r /\ IdOf[r] \notin completed
    BY <1>0, <1>1, <1>3, NoNewWaiting
  <2>2. in_flight' = in_flight \/ Drain
    BY <1>3, Zenon DEF Next, Main, ReadIgnored, Exit, Notify, Push, CancelRequest, ReadAnswered, Initialize,
                Shutdown, Worker, Sweep, PollTimeout, Pop, RunNotification, Compute, Send, MarkDone,
                TestCancelled, mainUnchanged, mainVars, Join, Gone, vars
  <2>3. CASE Drain
    BY <1>0, <2>1, <2>3 DEF Drain
  <2> QED
    BY <2>1, <2>2, <2>3
<1> QED
  BY <1>2, <1>3

\* compute() is what ends the time in which a request is uncomputed.
LEMMA NextUncomputed == IPlaces /\ Uncomputed /\ [Next]_vars => Uncomputed'
<1> SUFFICES ASSUME IPlaces, Uncomputed, [Next]_vars PROVE Uncomputed'
  OBVIOUS
<1>0. IType /\ TypeOK
  BY DEF IPlaces, IType
<1>1. ASSUME UNCHANGED computedAt, \A r \in Reqs : Early(r)' => Early(r) PROVE Uncomputed'
  BY <1>1 DEF Uncomputed
<1>2. ASSUME UNCHANGED <<incoming, task, wpc>>, received \subseteq received',
             \A r \in Reqs : Queued(r)' => Queued(r)
      PROVE  \A r \in Reqs : Early(r)' => Early(r)
  BY <1>2 DEF Early
<1>3. CASE Main
  <2>0. UNCHANGED <<task, wpc, computedAt>> /\ received \subseteq received'
    BY <1>3, Zenon DEF Main, Drain, ReadIgnored, Exit, Notify, Push, CancelRequest, ReadAnswered, Initialize,
                Shutdown, Enqueue, Arrives, workVars, clientVars
  <2>1. CASE Notify
    <3>1. /\ arrived' \in 1 .. MaxNotes /\ queue \in Seq(Tasks) /\ queue' = Append(queue, arrived')
          /\ UNCHANGED incoming
      BY <1>0, <2>1, BoundsAssumption DEF TypeOK, Notify, Reading, push
    <3>2. arrived' \in Tasks /\ \A r \in Reqs : r # arrived'
      BY <3>1, NoReqAssumption DEF Tasks
    <3>3. \A r \in Reqs : Queued(r)' <=> Queued(r)
      BY <3>1, <3>2, QueuedAppend
    <3> QED
      BY <1>1, <1>2, <2>0, <3>1, <3>3
  <2>2. ASSUME NEW q \in Reqs, Enqueue(q) PROVE Uncomputed'
    <3>1. q \notin received /\ UNCHANGED queue /\ (incoming' = incoming \/ incoming' = q)
      BY <2>2 DEF Enqueue, Arrives, RejectBusy
    <3>2. \A r \in Reqs : Queued(r)' <=> Queued(r)
      BY <3>1 DEF Queued
    <3>3. \A r \in Reqs : Early(r)' => Early(r)
      BY <2>0, <3>1, <3>2 DEF Early
    <3> QED
      BY <1>1, <2>0, <3>3
  <2>3. CASE Push
    <3>1. /\ incoming \in Tasks /\ incoming' = NoReq /\ queue \in Seq(Tasks)
          /\ queue' = Append(queue, incoming)
      BY <1>0, <2>3 DEF IType, TypeOK, Phase, Push, push, Tasks
    <3>2. \A r : Queued(r)' <=> Queued(r) \/ r = incoming
      BY <3>1, QueuedAppend
    <3>3. \A r \in Reqs : Early(r)' => Early(r)
      BY <2>0, <3>1, <3>2, NoReqAssumption DEF Early
    <3> QED
      BY <1>1, <2>0, <3>3
  <2>4. CASE ~Notify /\ ~Push /\ \A q \in Reqs : ~Enqueue(q)
    <3>1. UNCHANGED <<incoming, queue>>
      BY <1>3, <2>4 DEF Main, Drain, ReadIgnored, Exit, CancelRequest, ReadAnswered, Initialize, Shutdown,
                        Reading
    <3>2. \A r \in Reqs : Queued(r)' => Queued(r)
      BY <3>1 DEF Queued
    <3> QED
      BY <1>1, <1>2, <2>0, <3>1, <3>2
  <2> QED
    BY <2>1, <2>2, <2>3, <2>4
<1>4. CASE Compute
  <2>1. /\ task \in Reqs /\ wpc = "compute" /\ wpc' \in {"recheck", "send"}
        /\ UNCHANGED <<incoming, queue, task, received>>
        /\ computedAt \in [Reqs -> -1 .. MaxNotes]
        /\ computedAt' = [computedAt EXCEPT ![task] = applied]
    BY <1>0, <1>4 DEF Compute, mainUnchanged, mainVars, clientVars, IType, TypeOK, Phase
  <2>2. AtWorker(task) /\ task \in received /\ ~Queued(task) /\ incoming # task
    <3>1. AtWorker(task) /\ Pending(task)
      BY <2>1 DEF AtWorker, Pending
    <3>2. task \in received
      BY <2>1, <3>1, WaitingUnanswered
    <3> QED
      BY <2>1, <3>1, <3>2, Zenon DEF IPlaces, Places, OnePlace
  <2>3. \A r \in Reqs : (Early(r)' => Early(r) /\ r # task)
    BY <2>1, <2>2 DEF Queued, Early
  <2> QED
    BY <2>1, <2>3 DEF Uncomputed
<1>5. CASE Pop
  <2>1. /\ queue \in Seq(Tasks) /\ queue # <<>> /\ queue' = Tail(queue)
        /\ UNCHANGED <<computedAt, received, incoming>>
        /\ (wpc' = "joined" /\ task' = task) \/ task' = Head(queue)
    BY <1>0, <1>5 DEF Pop, TypeOK, mainUnchanged, mainVars, clientVars
  <2>2. \A r \in Reqs : Queued(r) <=> Queued(r)' \/ r = Head(queue)
    BY <2>1, QueuedTail
  <2>3. \A r \in Reqs : Early(r)' => Early(r)
    BY <2>1, <2>2 DEF Early
  <2> QED
    BY <1>1, <2>1, <2>3
<1>6. CASE Worker /\ ~Pop /\ ~Compute
  <2>1. UNCHANGED <<incoming, queue, computedAt, received>>
    BY <1>6, Zenon DEF Worker, Sweep, PollTimeout, RunNotification, Send, MarkDone, TestCancelled,
                mainUnchanged, mainVars, clientVars
  <2>2. ASSUME NEW r \in Reqs, task' = r, wpc' \in {"check", "run", "compute"}
        PROVE  task = r /\ wpc \in {"check", "run", "compute"}
    BY <1>6, <2>2, Zenon DEF Worker, Sweep, PollTimeout, RunNotification, Send, MarkDone, TestCancelled, Skip
  <2>3. \A r \in Reqs : Queued(r)' <=> Queued(r)
    BY <2>1 DEF Queued
  <2>4. \A r \in Reqs : Early(r)' => Early(r)
    BY <2>1, <2>2, <2>3 DEF Early
  <2> QED
    BY <1>1, <2>1, <2>4
<1>7. CASE Join
  <2>1. queue' = <<>> /\ UNCHANGED <<incoming, task, wpc, computedAt, received>>
    BY <1>7, Zenon DEF Join, mainVars, workVars, clientVars
  <2>2. \A r \in Reqs : Queued(r)' => Queued(r)
    BY <2>1 DEF Queued
  <2> QED
    BY <1>1, <1>2, <2>1, <2>2
<1>8. CASE UNCHANGED vars
  BY <1>1, <1>2, <1>8 DEF vars, mainVars, workVars, clientVars, Queued
<1> QED
  BY <1>3, <1>4, <1>5, <1>6, <1>7, <1>8 DEF Next, Gone, Worker

\* The cancel of a waiting request sets its own flag, and the two tests before compute()
\* see it.
LEMMA NextDoomed ==
  IPlaces /\ Cancellable /\ Uncomputed /\ Doomed /\ CancelHonoured /\ [Next]_vars
      => Doomed' /\ CancelHonoured'
<1> SUFFICES ASSUME IPlaces, Cancellable, Uncomputed, Doomed, CancelHonoured, [Next]_vars
             PROVE  Doomed' /\ CancelHonoured'
  OBVIOUS
<1>0. IType /\ TypeOK /\ \A r : OnlyOne(r)' => OnlyOne(r)
  BY ReceivedGrows DEF IPlaces, IType
<1>1. ASSUME UNCHANGED <<asked, computedAt>>, cancelled \subseteq cancelled',
             \A r \in Reqs : task' = r /\ wpc' = "compute" =>
                                (task = r /\ wpc = "compute") \/ r \notin cancelled
      PROVE  Doomed' /\ CancelHonoured'
  BY <1>0, <1>1 DEF Doomed, CancelHonoured
<1>2. ASSUME NEW i \in Ids, CancelRequest(i) PROVE Doomed' /\ CancelHonoured'
  <2>1. /\ UNCHANGED <<task, wpc, computedAt>>
        /\ cancelled' = IF in_flight[i] = NoReq THEN cancelled ELSE cancelled \cup {in_flight[i]}
        /\ \A r \in Reqs : asked'[r] = "queued" =>
              asked[r] = "queued" \/ (IdOf[r] = i /\ Queued(r))
    BY <1>2 DEF CancelRequest, workVars
  <2>2. ASSUME NEW r \in Reqs, IdOf[r] = i, Queued(r), OnlyOne(r)
        PROVE  r \in cancelled' /\ computedAt[r] = -1 /\ ~(task = r /\ wpc = "compute")
    <3>1. Pending(r) /\ r \in received
      BY <2>2, WaitingUnanswered DEF Pending
    <3>2. in_flight[i] = r
      BY <2>2, <3>1 DEF Cancellable
    <3>3. ~AtWorker(r)
      BY <2>2, <3>1 DEF IPlaces, Places, OnePlace
    <3> QED
      BY <2>1, <2>2, <3>2, <3>3, NoReqAssumption DEF Uncomputed, Early, AtWorker
  <2>3. cancelled \subseteq cancelled'
    BY <2>1
  <2> QED
    BY <1>0, <2>1, <2>2, <2>3, Zenon DEF Doomed, CancelHonoured
<1>3. CASE Main /\ \A i \in Ids : ~CancelRequest(i)
  <2>1. UNCHANGED <<asked, computedAt, cancelled, task, wpc>>
    BY <1>3, Zenon DEF Main, Drain, ReadIgnored, Exit, Notify, Push, ReadAnswered, Initialize, Shutdown, Enqueue,
                FreshFlag, workVars, clientVars
  <2> QED
    BY <1>1, <2>1
<1>4. CASE Compute
  <2>1. /\ wpc = "compute" /\ wpc' # "compute" /\ task \in Reqs
        /\ UNCHANGED <<asked, cancelled, task>>
        /\ computedAt \in [Reqs -> -1 .. MaxNotes]
        /\ computedAt' = [computedAt EXCEPT ![task] = applied]
    BY <1>0, <1>4 DEF Compute, mainUnchanged, clientVars, IType, TypeOK, Phase
  <2>2. ~(asked[task] = "queued" /\ OnlyOne(task))
    BY <2>1 DEF Doomed
  <2> QED
    BY <1>0, <2>1, <2>2 DEF Doomed, CancelHonoured
<1>5. CASE Worker /\ ~Compute
  <2>1. UNCHANGED <<asked, cancelled, computedAt>>
    BY <1>5, Zenon DEF Worker, Sweep, PollTimeout, Pop, RunNotification, Send, MarkDone, TestCancelled,
                mainUnchanged, clientVars
  <2>2. ASSUME wpc' = "compute" PROVE wpc = "run" /\ task' = task /\ task \notin cancelled
    BY <1>5, <2>2 DEF Worker, Sweep, PollTimeout, Pop, RunNotification, Send, MarkDone,
                      TestCancelled, Skip, Loaded
  <2> QED
    BY <1>1, <2>1, <2>2
<1>6. CASE Join \/ UNCHANGED vars
  <2>1. UNCHANGED <<asked, computedAt, cancelled, task, wpc>>
    BY <1>6 DEF Join, vars, workVars, clientVars
  <2> QED
    BY <1>1, <2>1
<1> QED
  BY <1>2, <1>3, <1>4, <1>5, <1>6 DEF Next, Gone

\* The invariant of cancellation.
LEMMA AlwaysICancel == Spec => []ICancel
<1>1. Init => ICancel
  <2> SUFFICES ASSUME Init PROVE ICancel
    OBVIOUS
  <2>1. IPlaces
    BY InitType, InitPlaces DEF IPlaces
  <2> QED
    BY <2>1 DEF Init, ICancel, Marked, Cancellable, Uncomputed, Doomed, CancelHonoured
<1>2. ICancel /\ [Next]_vars => ICancel'
  BY NextPlaces, NextMarked, NextCancellable, NextUncomputed, NextDoomed DEF ICancel
<1> QED
  BY <1>1, <1>2, PTL DEF Spec

\* A request the client still waits for, and whose id no other request has, always has
\* its own flag under its id in in_flight_, so a $/cancelRequest reaches it.
THEOREM WaitingIsCancellable == Spec => []Cancellable
<1>1. ICancel => Cancellable
  BY DEF ICancel
<1> QED
  BY AlwaysICancel, <1>1, PTL

\* A request whose cancel was read while it was queued, and whose id no other request
\* has, is never computed, whatever the worker was doing at that moment.
THEOREM QueuedCancelHonoured == Spec => []CancelHonoured
<1>1. ICancel => CancelHonoured
  BY DEF ICancel
<1> QED
  BY AlwaysICancel, <1>1, PTL
=============================================================================
