------------------------- MODULE LspContractProofs -------------------------
(***************************************************************************)
(* LspServer implements LspContract, for every set of requests and ids,     *)
(* every queue capacity and every number of buffer updates.                 *)
(***************************************************************************)
EXTENDS LspServerProofs

Notes == 1 .. MaxNotes

\* The worker has popped its task and not yet run it.
Holds == wpc \in {"check", "run", "compute"}

\* What is still to be run, oldest first: the worker's task, then the queue.
Item(k) == IF k = 0 THEN (IF Holds THEN task ELSE NoReq) ELSE queue[k]

\* The updates still to be run are exactly those after the last one applied.
Backlog ==
    /\ \A k \in 0 .. Len(queue) : Item(k) \in Notes => applied < Item(k) /\ Item(k) <= arrived
    /\ wpc # "joined" =>
         \A n \in Notes : applied < n /\ n <= arrived => \E k \in 0 .. Len(queue) : Item(k) = n

\* Items a and b, a before b, are in the order in which they arrived.
InOrder(a, b) ==
    /\ a \in Notes /\ b \in Notes => a < b
    /\ a \in Notes /\ b \in Reqs => a <= arrivedAt[b]
    /\ a \in Reqs /\ b \in Notes => arrivedAt[a] < b

Order ==
    /\ \A k \in 0 .. Len(queue) : Item(k) \in Reqs => applied <= arrivedAt[Item(k)]
    /\ \A j, k \in 0 .. Len(queue) : j < k => InOrder(Item(j), Item(k))
    /\ \A r \in Reqs : arrivedAt[r] <= arrived
    /\ applied <= arrived

\* No update is read between full() and push().
JustRead == mpc = "push" => arrivedAt[incoming] = arrived

\* A flag is only set for a request whose cancel was read while it waited, and an
\* entry of in_flight_ is a request that was read, under its own id.
Flags ==
    /\ \A i \in Ids : in_flight[i] # NoReq => in_flight[i] \in received /\ IdOf[in_flight[i]] = i
    /\ \A r \in cancelled : r \in received /\ (answers[r] = <<>> => asked[r] # "no")

\* What the worker is about to answer, and on which buffers it was computed.
Verdict ==
    /\ wpc = "recheck" => code = "ok"
    /\ wpc = "send" => code \in {"ok", "internal_error", "cancelled"}
    /\ wpc = "send" /\ code = "cancelled" => asked[task] # "no"
    /\ wpc \in {"recheck", "send"} /\ code = "ok" => computedAt[task] = arrivedAt[task]

\* Nothing is computed before it is read.
Unread == \A r \in Reqs \ received : computedAt[r] = -1

ICon == IPlaces /\ Backlog /\ Order /\ JustRead /\ Flags /\ Verdict /\ Unread

-----------------------------------------------------------------------------
(* The order of the backlog. *)

\* A step that moves no task past the queue keeps the backlog in order: the worker
\* keeps the task it holds, or is done with a request.
LEMMA OrderFrame ==
  ASSUME IType, Backlog, Order, UNCHANGED <<queue, applied, arrived, arrivedAt>>,
         Item(0)' = Item(0) \/ (Item(0)' = NoReq /\ Item(0) \notin Notes),
         wpc = "joined" => wpc' = "joined"
  PROVE  Backlog' /\ Order'
<1>1. NoReq \notin Notes /\ NoReq \notin Reqs /\ Len(queue) \in Nat
  BY NoReqAssumption DEF Notes, IType, TypeOK
<1>2. \A k \in 1 .. Len(queue) : Item(k)' = Item(k)
  BY DEF Item
<1>3. \A k \in 0 .. Len(queue) : Item(k)' = Item(k) \/ (Item(k)' = NoReq /\ Item(k) \notin Notes)
  BY <1>1, <1>2
<1>4. Backlog'
  BY <1>1, <1>3 DEF Backlog
<1>5. \A j, k \in 0 .. Len(queue) : InOrder(Item(j), Item(k)) => InOrder(Item(j), Item(k))'
  BY <1>1, <1>3 DEF InOrder, Notes
<1>6. Order'
  BY <1>1, <1>3, <1>5 DEF Order
<1> QED
  BY <1>4, <1>6

\* A request that has not been read is neither queued nor held by the worker.
LEMMA NotItem ==
  ASSUME IPlaces, NEW r \in Reqs, r \notin received
  PROVE  \A k \in 0 .. Len(queue) : Item(k) # r
<1>1. Unseen(r)
  BY DEF IPlaces, Places
<1> QED
  BY <1>1, NoReqAssumption DEF Unseen, Queued, Item

\* Reading a request that is not queued leaves the backlog as it is.
LEMMA OrderArrives ==
  ASSUME IPlaces, Backlog, Order, NEW r \in Reqs, Arrives(r),
         UNCHANGED <<queue, applied, arrived, wpc, task>>
  PROVE  Backlog' /\ Order'
<1>1. \A k \in 0 .. Len(queue) : Item(k)' = Item(k) /\ Item(k) # r
  BY NotItem DEF Arrives, Item, Holds
<1>2. arrivedAt' = [arrivedAt EXCEPT ![r] = arrived] /\ arrivedAt \in [Reqs -> 0 .. MaxNotes]
      /\ arrived \in 0 .. MaxNotes
  BY DEF Arrives, IPlaces, IType, TypeOK
<1>3. Backlog'
  BY <1>1 DEF Backlog
<1>4. \A j, k \in 0 .. Len(queue) : InOrder(Item(j), Item(k)) => InOrder(Item(j), Item(k))'
  BY <1>1, <1>2 DEF InOrder
<1>5. Order'
  BY <1>1, <1>2, <1>4, BoundsAssumption DEF Order
<1> QED
  BY <1>3, <1>5

\* What TaskQueue::push does to the backlog.
LEMMA ItemsAppend ==
  ASSUME queue \in Seq(Tasks), NEW t \in Tasks, queue' = Append(queue, t), UNCHANGED <<wpc, task>>,
         NEW n \in Nat, n = Len(queue)
  PROVE  /\ Len(queue') = n + 1
         /\ \A k \in 0 .. n : Item(k)' = Item(k)
         /\ Item(n + 1)' = t
<1>1. Len(queue') = n + 1
  OBVIOUS
<1>2. \A i \in 1 .. n : queue'[i] = queue[i]
  OBVIOUS
<1>3. queue'[n + 1] = t
  OBVIOUS
<1> QED
  BY <1>1, <1>2, <1>3 DEF Item, Holds

\* A buffer update is queued behind everything that arrived before it.
LEMMA OrderNotify ==
  ASSUME IPlaces, Backlog, Order, Notify
  PROVE  Backlog' /\ Order'
<1>1. /\ queue \in Seq(Tasks) /\ arrived \in 0 .. MaxNotes /\ applied \in 0 .. MaxNotes
      /\ arrivedAt \in [Reqs -> 0 .. MaxNotes]
  BY DEF IPlaces, IType, TypeOK
<1> PICK n \in Nat : n = Len(queue)
  BY <1>1
<1> PICK t \in Nat : t = arrived + 1
  BY <1>1
<1>2. /\ t \in Notes /\ arrived' = t /\ queue' = Append(queue, t)
      /\ UNCHANGED <<wpc, task, applied, arrivedAt>>
  BY <1>1, BoundsAssumption DEF Notify, push, Notes, workVars
<1>3. t \in Tasks /\ t \notin Reqs
  BY <1>2, NoReqAssumption DEF Tasks, Notes
<1>4. /\ Len(queue') = n + 1 /\ \A k \in 0 .. n : Item(k)' = Item(k)
      /\ Item(n + 1)' = t
  BY <1>1, <1>2, <1>3, ItemsAppend
<1>5. 0 .. (n + 1) = (0 .. n) \cup {n + 1}
  BY <1>4
<1>6. \A k \in 0 .. n : Item(k) \in Notes => applied < Item(k) /\ Item(k) < t
  BY <1>1 DEF Backlog, Notes
<1>7. Backlog'
  <2>1. \A k \in 0 .. Len(queue)' : Item(k)' \in Notes => applied' < Item(k)' /\ Item(k)' <= arrived'
    <3> SUFFICES ASSUME NEW k \in 0 .. (n + 1), Item(k)' \in Notes
                 PROVE  applied < Item(k)' /\ Item(k)' <= t
      BY <1>2, <1>4
    <3>1. CASE k = n + 1
      BY <1>1, <1>2, <1>4, <3>1 DEF Order
    <3>2. CASE k \in 0 .. n
      BY <1>1, <1>2, <1>4, <1>6, <3>2 DEF Notes
    <3> QED
      BY <1>5, <3>1, <3>2
  <2>2. ASSUME wpc # "joined", NEW m \in Notes, applied < m, m <= t
        PROVE  \E k \in 0 .. (n + 1) : Item(k)' = m
    <3>1. CASE m = t
      BY <1>4, <3>1
    <3>2. CASE m <= arrived
      BY <1>4, <1>5, <2>2, <3>2 DEF Backlog
    <3> QED
      BY <1>1, <2>2, <3>1, <3>2 DEF Notes
  <2> QED
    BY <1>2, <1>4, <2>1, <2>2 DEF Backlog
<1>8. Order'
  <2>1. ASSUME NEW j \in 0 .. (n + 1), NEW k \in 0 .. (n + 1), j < k
        PROVE  InOrder(Item(j), Item(k))'
    <3>1. j \in 0 .. n
      BY <1>4, <2>1
    <3>2. CASE k \in 0 .. n
      BY <1>2, <1>4, <2>1, <3>1, <3>2 DEF Order, InOrder
    <3>3. CASE k = n + 1
      BY <1>1, <1>2, <1>3, <1>4, <1>6, <3>1, <3>3 DEF InOrder, Order
    <3> QED
      BY <1>5, <3>2, <3>3
  <2>2. \A k \in 0 .. (n + 1) : Item(k)' \in Reqs => applied <= arrivedAt[Item(k)']
    BY <1>3, <1>4, <1>5 DEF Order
  <2>3. (\A r \in Reqs : arrivedAt[r] <= t) /\ applied <= t
    BY <1>1 DEF Order
  <2> QED
    BY <1>2, <1>4, <2>1, <2>2, <2>3 DEF Order
<1> QED
  BY <1>7, <1>8

\* A request is queued behind every update that arrived before it.
LEMMA OrderPush ==
  ASSUME IPlaces, Backlog, Order, JustRead, Push
  PROVE  Backlog' /\ Order'
<1>1. /\ queue \in Seq(Tasks) /\ arrived \in 0 .. MaxNotes /\ applied \in 0 .. MaxNotes
      /\ arrivedAt \in [Reqs -> 0 .. MaxNotes] /\ incoming \in Reqs
  BY DEF IPlaces, IType, TypeOK, Phase, Push
<1> PICK n \in Nat : n = Len(queue)
  BY <1>1
<1> PICK r \in Reqs : r = incoming
  BY <1>1
<1>2. /\ queue' = Append(queue, r) /\ UNCHANGED <<wpc, task, applied, arrived, arrivedAt>>
      /\ arrivedAt[r] = arrived /\ r \notin Notes /\ r \in Tasks
  BY NoReqAssumption DEF Push, push, JustRead, Tasks, Notes, workVars, clientVars
<1>3. /\ Len(queue') = n + 1 /\ \A k \in 0 .. n : Item(k)' = Item(k)
      /\ Item(n + 1)' = r
  BY <1>1, <1>2, ItemsAppend
<1>4. 0 .. (n + 1) = (0 .. n) \cup {n + 1}
  OBVIOUS
<1>5. Backlog'
  BY <1>2, <1>3, <1>4 DEF Backlog
<1>6. ASSUME NEW j \in 0 .. (n + 1), NEW k \in 0 .. (n + 1), j < k
      PROVE  InOrder(Item(j), Item(k))'
  <2>1. j \in 0 .. n
    BY <1>6
  <2>2. CASE k \in 0 .. n
    <3>1. InOrder(Item(j), Item(k)) /\ Item(j)' = Item(j) /\ Item(k)' = Item(k)
      BY <1>3, <1>6, <2>1, <2>2 DEF Order
    <3> QED
      BY <1>2, <3>1 DEF InOrder
  <2>3. CASE k = n + 1
    <3>1. Item(j)' = Item(j) /\ Item(k)' = r /\ (Item(j) \in Notes => Item(j) <= arrived)
      BY <1>3, <2>1, <2>3 DEF Backlog
    <3> QED
      BY <1>2, <3>1 DEF InOrder
  <2> QED
    BY <1>4, <2>2, <2>3
<1>7. \A k \in 0 .. (n + 1) : Item(k)' \in Reqs => applied <= arrivedAt[Item(k)']
  BY <1>2, <1>3, <1>4 DEF Order
<1> QED
  BY <1>2, <1>3, <1>5, <1>6, <1>7 DEF Order

\* TaskQueue::pop hands the oldest task to the worker, or drops it after a stop.
LEMMA OrderPop ==
  ASSUME IPlaces, Backlog, Order, Pop
  PROVE  Backlog' /\ Order'
<1>1. queue \in Seq(Tasks) /\ queue # <<>> /\ queue' = Tail(queue)
      /\ UNCHANGED <<applied, arrived, arrivedAt>> /\ wpc = "pop"
  BY DEF Pop, IPlaces, IType, TypeOK, mainUnchanged, clientVars
<1> PICK n \in Nat : n = Len(queue)
  BY <1>1
<1>2. /\ n > 0 /\ Len(queue') = n - 1 /\ Head(queue) = queue[1]
      /\ \A i \in 1 .. n - 1 : queue'[i] = queue[i + 1]
  BY <1>1
<1>3. NoReq \notin Notes /\ NoReq \notin Reqs
  BY NoReqAssumption DEF Notes
<1>4. \A k \in 0 .. n - 1 : k + 1 \in 0 .. n /\ (Item(k)' = Item(k + 1) \/ Item(k)' = NoReq)
  BY <1>2 DEF Item, Pop, Holds
<1>5. wpc' # "joined" => Item(0) = NoReq /\ \A k \in 0 .. n - 1 : Item(k)' = Item(k + 1)
  BY <1>1, <1>2 DEF Item, Pop, Holds
<1>6. Backlog'
  <2>1. \A k \in 0 .. n - 1 : Item(k)' \in Notes => applied < Item(k)' /\ Item(k)' <= arrived
    BY <1>3, <1>4 DEF Backlog
  <2>2. ASSUME wpc' # "joined", NEW m \in Notes, applied < m, m <= arrived
        PROVE  \E k \in 0 .. n - 1 : Item(k)' = m
    <3>1. PICK i \in 0 .. n : Item(i) = m
      BY <1>1, <2>2 DEF Backlog
    <3>2. i # 0 /\ i - 1 \in 0 .. n - 1 /\ (i - 1) + 1 = i
      BY <1>3, <1>5, <2>2, <3>1
    <3>3. Item(i - 1)' = m
      BY <1>5, <2>2, <3>1, <3>2
    <3> QED
      BY <3>2, <3>3
  <2> QED
    BY <1>1, <1>2, <2>1, <2>2 DEF Backlog
<1>7. \A j, k \in 0 .. n - 1 : j < k => InOrder(Item(j), Item(k))'
  <2> SUFFICES ASSUME NEW j \in 0 .. n - 1, NEW k \in 0 .. n - 1, j < k
               PROVE  InOrder(Item(j), Item(k))'
    OBVIOUS
  <2>1. InOrder(Item(j + 1), Item(k + 1))
    BY <1>4 DEF Order
  <2> QED
    BY <1>1, <1>3, <1>4, <2>1 DEF InOrder
<1>8. \A k \in 0 .. n - 1 : Item(k)' \in Reqs => applied <= arrivedAt[Item(k)']
  BY <1>3, <1>4 DEF Order
<1> QED
  BY <1>1, <1>2, <1>6, <1>7, <1>8 DEF Order

\* The worker applies the oldest update.
LEMMA OrderRunNotification ==
  ASSUME IPlaces, Backlog, Order, RunNotification
  PROVE  Backlog' /\ Order'
<1>1. /\ queue \in Seq(Tasks) /\ arrived \in 0 .. MaxNotes /\ applied \in 0 .. MaxNotes
      /\ arrivedAt \in [Reqs -> 0 .. MaxNotes]
  BY DEF IPlaces, IType, TypeOK
<1> PICK n \in Nat : n = Len(queue)
  BY <1>1
<1>2. /\ task \in Notes /\ Item(0) = task /\ applied' = task /\ wpc = "check"
      /\ UNCHANGED <<queue, arrived, arrivedAt>> /\ Item(0)' = NoReq
  BY DEF RunNotification, IPlaces, IType, Phase, Tasks, Notes, Item, Holds, mainUnchanged, clientVars
<1>3. \A k \in 1 .. n : Item(k)' = Item(k) /\ InOrder(task, Item(k))
  BY <1>2 DEF Item, Order
<1>4. NoReq \notin Notes /\ NoReq \notin Reqs /\ 0 .. n = {0} \cup 1 .. n
  BY NoReqAssumption DEF Notes
<1>5. applied < task /\ task <= arrived
  BY <1>2 DEF Backlog
<1>6. Backlog'
  <2>1. \A k \in 0 .. n : Item(k)' \in Notes => task < Item(k)' /\ Item(k)' <= arrived
    BY <1>2, <1>3, <1>4 DEF Backlog, InOrder
  <2>2. ASSUME NEW m \in Notes, task < m, m <= arrived
        PROVE  \E k \in 0 .. n : Item(k)' = m
    <3>1. applied < m
      BY <1>1, <1>2, <1>5, <2>2 DEF Notes
    <3>2. PICK k \in 0 .. n : Item(k) = m
      BY <1>2, <2>2, <3>1 DEF Backlog
    <3>3. k # 0
      BY <1>2, <2>2, <3>2 DEF Notes
    <3> QED
      BY <1>3, <3>2, <3>3
  <2> QED
    BY <1>2, <2>1, <2>2 DEF Backlog
<1>7. \A j, k \in 0 .. n : j < k => InOrder(Item(j), Item(k))'
  <2> SUFFICES ASSUME NEW j \in 0 .. n, NEW k \in 0 .. n, j < k
               PROVE  InOrder(Item(j), Item(k))'
    OBVIOUS
  <2>1. InOrder(Item(j), Item(k)) /\ Item(k)' = Item(k) /\ Item(j)' \in {Item(j), NoReq}
    BY <1>2, <1>3 DEF Order
  <2> QED
    BY <1>2, <1>4, <2>1 DEF InOrder
<1>8. \A k \in 0 .. n : Item(k)' \in Reqs => task <= arrivedAt[Item(k)']
  BY <1>2, <1>3, <1>4 DEF InOrder
<1> QED
  BY <1>2, <1>5, <1>6, <1>7, <1>8 DEF Order

\* Whatever is left in the queue when the worker is joined is dropped.
LEMMA OrderJoin ==
  ASSUME IPlaces, Order, Join
  PROVE  Backlog' /\ Order'
<1>1. /\ queue' = <<>> /\ wpc' = "joined"
      /\ UNCHANGED <<applied, arrived, arrivedAt>>
  BY DEF Join, workVars, clientVars
<1>2. Len(queue') = 0 /\ Item(0)' = NoReq /\ NoReq \notin Notes /\ NoReq \notin Reqs
  BY <1>1, NoReqAssumption DEF Item, Holds, Notes
<1>3. \A k \in 0 .. Len(queue') : k = 0
  BY <1>2
<1>4. Backlog'
  BY <1>1, <1>2, <1>3 DEF Backlog
<1> QED
  BY <1>1, <1>2, <1>3, <1>4 DEF Order

\* No step of either thread disturbs the order of the backlog.
LEMMA NextOrder == IPlaces /\ Backlog /\ Order /\ JustRead /\ [Next]_vars => Backlog' /\ Order'
<1> SUFFICES ASSUME IPlaces, Backlog, Order, JustRead, [Next]_vars PROVE Backlog' /\ Order'
  OBVIOUS
<1>0. IType /\ NoReq \notin Reqs
  BY NoReqAssumption DEF IPlaces
<1> DEFINE Still == UNCHANGED <<queue, applied, arrived, wpc, task>>
<1>1. ASSUME Still, UNCHANGED arrivedAt PROVE Backlog' /\ Order'
  BY <1>0, <1>1, OrderFrame DEF Item, Holds
<1>2. ASSUME NEW r \in Reqs, Arrives(r), Still PROVE Backlog' /\ Order'
  BY <1>2, OrderArrives
<1>3. CASE Main
  <2>1. CASE Drain \/ ReadIgnored \/ Exit \/ \E i \in Ids : CancelRequest(i)
    BY <1>1, <2>1 DEF Drain, ReadIgnored, Exit, CancelRequest, workVars, clientVars
  <2>2. CASE Notify
    BY <2>2, OrderNotify
  <2>3. ASSUME NEW r \in Reqs, ReadAnswered(r) \/ Initialize(r) \/ Shutdown(r) \/ Enqueue(r)
        PROVE  Backlog' /\ Order'
    BY <1>2, <2>3 DEF ReadAnswered, Initialize, Shutdown, Enqueue, workVars
  <2>4. CASE Push
    BY <2>4, OrderPush
  <2> QED
    BY <1>3, <2>1, <2>2, <2>3, <2>4 DEF Main
<1>4. CASE Worker
  <2> DEFINE Kept == UNCHANGED <<queue, applied, arrived, arrivedAt>>
  <2>1. ASSUME Kept, wpc # "joined", ~Holds, ~Holds' PROVE Backlog' /\ Order'
    BY <1>0, <2>1, OrderFrame DEF Item
  <2>2. ASSUME Kept, wpc # "joined", Holds, Holds', UNCHANGED task PROVE Backlog' /\ Order'
    BY <1>0, <2>2, OrderFrame DEF Item
  <2>3. ASSUME Kept, Holds, ~Holds', task \in Reqs PROVE Backlog' /\ Order'
    <3>1. Item(0)' = NoReq /\ Item(0) \notin Notes /\ wpc # "joined"
      BY <2>3, NoReqAssumption DEF Item, Holds, Notes
    <3> QED
      BY <1>0, <2>3, <3>1, OrderFrame
  <2> USE DEF mainUnchanged, clientVars, Holds
  <2>4. CASE Sweep \/ PollTimeout \/ Send \/ MarkDone
    BY <2>1, <2>4 DEF Sweep, PollTimeout, Send, MarkDone
  <2>5. CASE Pop
    BY <2>5, OrderPop
  <2>6. CASE RunNotification
    BY <2>6, OrderRunNotification
  <2>7. CASE Compute
    <3>1. task \in Reqs
      BY <1>0, <2>7 DEF Compute, IType, Phase
    <3> QED
      BY <2>3, <2>7, <3>1 DEF Compute
  <2>8. CASE TestCancelled("check", "run") \/ TestCancelled("run", "compute")
    BY <2>2, <2>3, <2>8 DEF TestCancelled, Skip
  <2>9. CASE TestCancelled("recheck", "send")
    BY <2>1, <2>9 DEF TestCancelled, Skip
  <2> QED
    BY <1>4, <2>4, <2>5, <2>6, <2>7, <2>8, <2>9 DEF Worker
<1>5. CASE Join
  BY <1>5, OrderJoin
<1>6. CASE UNCHANGED vars
  BY <1>1, <1>6 DEF vars, workVars, clientVars
<1> QED
  BY <1>3, <1>4, <1>5, <1>6 DEF Next, Gone

\* Main reads nothing between full() and push().
LEMMA NextJustRead == IPlaces /\ JustRead /\ [Next]_vars => JustRead'
<1> SUFFICES ASSUME IPlaces, JustRead, [Next]_vars PROVE JustRead'
  OBVIOUS
<1>1. CASE Main
  <2>1. ASSUME NEW r \in Reqs, Enqueue(r) PROVE JustRead'
    <3>1. arrivedAt' = [arrivedAt EXCEPT ![r] = arrived] /\ arrivedAt \in [Reqs -> 0 .. MaxNotes]
          /\ UNCHANGED arrived
      BY <2>1 DEF Enqueue, Arrives, IPlaces, IType, TypeOK
    <3>2. mpc' = "drain" \/ incoming' = r
      BY <2>1 DEF Enqueue, RejectBusy
    <3> QED
      BY <3>1, <3>2 DEF JustRead
  <2>2. CASE \A r \in Reqs : ~Enqueue(r)
    <3>1. mpc' # "push"
      BY <1>1, <2>2 DEF Main, Drain, ReadIgnored, Exit, Notify, Push, CancelRequest, ReadAnswered,
                        Initialize, Shutdown, Reading
    <3> QED
      BY <3>1 DEF JustRead
  <2> QED
    BY <2>1, <2>2
<1>2. CASE ~Main
  <2>1. UNCHANGED <<mpc, incoming, arrived, arrivedAt>>
    BY <1>2 DEF Next, Worker, Sweep, PollTimeout, Pop, RunNotification, Compute, Send, MarkDone,
                TestCancelled, Join, Gone, mainUnchanged, vars, mainVars, clientVars
  <2> QED
    BY <2>1 DEF JustRead
<1> QED
  BY <1>1, <1>2

\* When the worker computes a request it has applied exactly the updates that
\* arrived before it.
LEMMA ComputesInOrder ==
  ASSUME IPlaces, Backlog, Order, wpc = "compute"
  PROVE  applied = arrivedAt[task]
<1>1. /\ queue \in Seq(Tasks) /\ arrived \in 0 .. MaxNotes /\ applied \in 0 .. MaxNotes
      /\ arrivedAt \in [Reqs -> 0 .. MaxNotes] /\ task \in Reqs /\ task \notin Notes
  BY NoReqAssumption DEF IPlaces, IType, TypeOK, Phase, Notes
<1>2. Item(0) = task /\ 0 \in 0 .. Len(queue)
  BY <1>1 DEF Item, Holds
<1>3. applied <= arrivedAt[task] /\ arrivedAt[task] <= arrived
  BY <1>1, <1>2 DEF Order
<1>4. ASSUME applied < arrivedAt[task] PROVE FALSE
  <2>1. applied + 1 \in Notes /\ applied + 1 <= arrived /\ applied < applied + 1
    <3>1. arrivedAt[task] \in 0 .. MaxNotes
      BY <1>1
    <3> QED
      BY <1>1, <1>3, <1>4, <3>1, BoundsAssumption DEF Notes
  <2>2. PICK k \in 0 .. Len(queue) : Item(k) = applied + 1
    BY <2>1 DEF Backlog
  <2>3. 0 < k
    BY <1>1, <1>2, <2>1, <2>2
  <2>4. arrivedAt[task] < Item(k)
    BY <1>1, <1>2, <2>1, <2>2, <2>3 DEF Order, InOrder
  <2> QED
    BY <1>1, <1>4, <2>2, <2>4
<1> QED
  BY <1>1, <1>3, <1>4

-----------------------------------------------------------------------------
(* Cancellation flags, and what the worker sends. *)

\* A step that sets no flag and adds no entry, forgets no request and no cancel, and
\* takes back no answer keeps the flags.
LEMMA FlagsFrame ==
  ASSUME IType, Flags, UNCHANGED cancelled,
         \A i \in Ids : in_flight'[i] \in {in_flight[i], NoReq},
         received \subseteq received',
         \A r \in Reqs : (answers'[r] = <<>> => answers[r] = <<>>)
                         /\ (asked[r] # "no" => asked'[r] # "no")
  PROVE  Flags'
  BY DEF Flags, IType, TypeOK

\* Answering a request leaves it answered.
LEMMA AnswerKeeps ==
  ASSUME TypeOK, NEW r \in Reqs, NEW c \in Codes, Answer(r, c)
  PROVE  \A q \in Reqs : answers'[q] = <<>> => answers[q] = <<>>
<1>1. \A q \in Reqs : q # r => answers'[q] = answers[q]
  BY DEF Answer, TypeOK
<1>2. answers[r] \in Seq(Codes) /\ answers'[r] = Append(answers[r], c)
  BY DEF Answer, TypeOK
<1>3. answers'[r] # <<>>
  BY <1>2
<1> QED
  BY <1>1, <1>3

\* A flag is set only for a request whose cancel was read while it waited.
LEMMA NextFlags == IPlaces /\ Flags /\ [Next]_vars => Flags'
<1> SUFFICES ASSUME IPlaces, Flags, [Next]_vars PROVE Flags'
  OBVIOUS
<1>0. IType /\ TypeOK
  BY DEF IPlaces, IType
<1> DEFINE Calm == UNCHANGED <<cancelled, in_flight, asked>> /\ received \subseteq received'
<1>1. ASSUME Calm, UNCHANGED answers PROVE Flags'
  BY <1>0, <1>1, FlagsFrame
<1>2. ASSUME Calm, NEW r \in Reqs, NEW c \in Codes, Answer(r, c) PROVE Flags'
  <2>1. \A q \in Reqs : answers'[q] = <<>> => answers[q] = <<>>
    BY <1>0, <1>2, AnswerKeeps
  <2> QED
    BY <1>0, <1>2, <2>1, FlagsFrame
<1>3. CASE Main
  <2>1. CASE Drain
    <3>1. \A i \in Ids : in_flight'[i] \in {in_flight[i], NoReq}
      BY <2>1 DEF Drain
    <3> QED
      BY <1>0, <2>1, <3>1, FlagsFrame DEF Drain, clientVars
  <2>2. CASE ReadIgnored \/ Exit \/ Notify \/ Push
    BY <1>1, <2>2 DEF ReadIgnored, Exit, Notify, Push, clientVars
  <2>3. ASSUME NEW i \in Ids, CancelRequest(i) PROVE Flags'
    <3>1. /\ UNCHANGED <<in_flight, received, answers>> /\ asked \in [Reqs -> {"no", "queued", "running"}]
          /\ cancelled' = IF in_flight[i] = NoReq THEN cancelled ELSE cancelled \cup {in_flight[i]}
          /\ cancelled \subseteq Reqs
      BY <1>0, <2>3 DEF CancelRequest, TypeOK
    <3>2. \A r \in Reqs : asked[r] # "no" => asked'[r] # "no"
      BY <2>3 DEF CancelRequest
    <3>3. ASSUME in_flight[i] # NoReq
          PROVE  /\ in_flight[i] \in Reqs /\ in_flight[i] \in received
                 /\ answers[in_flight[i]] = <<>> => asked'[in_flight[i]] # "no"
      <4>1. in_flight[i] \in Reqs /\ in_flight[i] \in received /\ IdOf[in_flight[i]] = i
        BY <1>0, <3>3 DEF Flags, TypeOK
      <4> QED
        BY <2>3, <4>1 DEF CancelRequest, Outstanding
    <3> QED
      BY <3>1, <3>2, <3>3 DEF Flags
  <2>4. ASSUME NEW r \in Reqs, ReadAnswered(r) PROVE Flags'
    <3>1. PICK c \in Codes : Answer(r, c)
      BY <2>4 DEF ReadAnswered, Codes
    <3>2. Calm
      BY <2>4 DEF ReadAnswered, Arrives
    <3> QED
      BY <1>2, <3>1, <3>2
  <2>5. ASSUME NEW r \in Reqs, Initialize(r) \/ Shutdown(r) PROVE Flags'
    <3>1. PICK c \in Codes : Answer(r, c)
      BY <2>5 DEF Initialize, Shutdown, Codes
    <3>2. Calm
      BY <2>5 DEF Initialize, Shutdown, Arrives
    <3> QED
      BY <1>2, <3>1, <3>2
  <2>6. ASSUME NEW r \in Reqs, Enqueue(r) PROVE Flags'
    <3>1. /\ received' = received \cup {r} /\ UNCHANGED <<cancelled, asked>>
      BY <2>6 DEF Enqueue, Arrives, FreshFlag
    <3>2. CASE full
      <4>1. Answer(r, "busy") /\ \A i \in Ids : in_flight'[i] \in {in_flight[i], NoReq}
        BY <1>0, <2>6, <3>2 DEF Enqueue, RejectBusy, TypeOK
      <4>2. \A q \in Reqs : answers'[q] = <<>> => answers[q] = <<>>
        BY <1>0, <4>1, AnswerKeeps DEF Codes
      <4> QED
        BY <1>0, <3>1, <4>1, <4>2, FlagsFrame
    <3>3. CASE ~full
      <4>1. UNCHANGED answers /\ in_flight' = [in_flight EXCEPT ![IdOf[r]] = r]
            /\ in_flight \in [Ids -> Reqs \cup {NoReq}]
        BY <1>0, <2>6, <3>3 DEF Enqueue, Track, TypeOK
      <4> QED
        BY <3>1, <4>1 DEF Flags
    <3> QED
      BY <3>2, <3>3
  <2> QED
    BY <1>3, <2>1, <2>2, <2>3, <2>4, <2>5, <2>6 DEF Main
<1>4. CASE Worker
  <2>1. CASE Send
    <3>1. Calm /\ task \in Reqs /\ code \in Codes /\ Answer(task, code)
      BY <1>0, <2>1 DEF Send, mainUnchanged, mainVars, clientVars, IType, Phase
    <3> QED
      BY <1>2, <3>1
  <2>2. CASE Worker /\ ~Send
    BY <1>1, <2>2 DEF Worker, Sweep, PollTimeout, Pop, RunNotification, Compute, MarkDone,
                      TestCancelled, mainUnchanged, mainVars, clientVars
  <2> QED
    BY <1>4, <2>1, <2>2
<1>5. CASE Join \/ UNCHANGED vars
  BY <1>1, <1>5 DEF Join, vars, mainVars, clientVars
<1> QED
  BY <1>3, <1>4, <1>5 DEF Next, Gone

\* What the worker holds between its pop and its answer has been read and not answered.
LEMMA HeldIsWaiting ==
  ASSUME IPlaces, task \in Reqs, wpc \in {"check", "run", "compute", "recheck", "send"}
  PROVE  task \in received /\ answers[task] = <<>>
<1>1. AtWorker(task)
  BY DEF AtWorker
<1>2. task \in received
  BY DEF IPlaces, Places, Unseen
<1>3. OnePlace(task)
  BY <1>2 DEF IPlaces, Places
<1> QED
  BY <1>1, <1>2, <1>3 DEF OnePlace

\* The worker answers with a result computed on the right buffers, a failure, or a
\* cancellation that was asked for.
LEMMA NextVerdict ==
  IPlaces /\ Backlog /\ Order /\ Flags /\ Verdict /\ [Next]_vars => Verdict'
<1> SUFFICES ASSUME IPlaces, Backlog, Order, Flags, Verdict, [Next]_vars PROVE Verdict'
  OBVIOUS
<1>0. IType /\ TypeOK /\ Phase
  BY DEF IPlaces, IType
<1>1. ASSUME UNCHANGED <<wpc, task, code, computedAt>>,
             \A r \in Reqs : asked[r] # "no" => asked'[r] # "no",
             \A r \in received : arrivedAt'[r] = arrivedAt[r]
      PROVE  Verdict'
  <2>1. CASE wpc \in {"recheck", "send"}
    <3>1. task \in Reqs /\ task \in received
      BY <1>0, <2>1, HeldIsWaiting DEF Phase
    <3> QED
      BY <1>1, <3>1 DEF Verdict
  <2>2. CASE wpc \notin {"recheck", "send"}
    BY <1>1, <2>2 DEF Verdict
  <2> QED
    BY <2>1, <2>2
<1>2. ASSUME NEW r \in Reqs, Arrives(r) PROVE \A q \in received : arrivedAt'[q] = arrivedAt[q]
  BY <1>0, <1>2 DEF Arrives, TypeOK
<1>3. CASE Main
  <2>1. CASE Drain \/ ReadIgnored \/ Exit \/ Notify \/ Push
    BY <1>1, <2>1 DEF Drain, ReadIgnored, Exit, Notify, Push, workVars, clientVars
  <2>2. ASSUME NEW i \in Ids, CancelRequest(i) PROVE Verdict'
    <3>1. \A r \in Reqs : asked[r] # "no" => asked'[r] # "no"
      BY <2>2 DEF CancelRequest
    <3> QED
      BY <1>1, <2>2, <3>1 DEF CancelRequest, workVars
  <2>3. ASSUME NEW r \in Reqs, ReadAnswered(r) \/ Initialize(r) \/ Shutdown(r) \/ Enqueue(r)
        PROVE  Verdict'
    <3>1. Arrives(r) /\ UNCHANGED <<wpc, task, code, computedAt, asked>>
      BY <2>3 DEF ReadAnswered, Initialize, Shutdown, Enqueue, workVars
    <3> QED
      BY <1>1, <1>2, <3>1
  <2> QED
    BY <1>3, <2>1, <2>2, <2>3 DEF Main
<1>4. CASE Worker
  <2> USE DEF mainUnchanged, clientVars
  <2>1. CASE Sweep \/ PollTimeout \/ Pop \/ RunNotification \/ Send \/ MarkDone
    <3>1. wpc' \notin {"recheck", "send"}
      BY <2>1 DEF Sweep, PollTimeout, Pop, RunNotification, Send, MarkDone
    <3> QED
      BY <3>1 DEF Verdict
  <2>2. CASE Compute
    <3>1. applied = arrivedAt[task] /\ task \in Reqs
      BY <1>0, <2>2, ComputesInOrder DEF Compute, Phase
    <3>2. /\ UNCHANGED <<task, arrivedAt>>
          /\ (wpc' = "recheck" /\ code' = "ok") \/ (wpc' = "send" /\ code' = "internal_error")
      BY <2>2 DEF Compute
    <3>3. computedAt'[task] = applied
      <4>1. computedAt \in [Reqs -> -1 .. MaxNotes]
        BY <1>0 DEF TypeOK
      <4> QED
        BY <2>2, <3>1, <4>1 DEF Compute
    <3> QED
      BY <3>1, <3>2, <3>3 DEF Verdict
  <2>3. ASSUME NEW from \in {"check", "run", "recheck"}, NEW to \in {"run", "compute", "send"},
               TestCancelled(from, to), to = "send" => from = "recheck"
        PROVE  Verdict'
    <3>1. task \in Reqs /\ wpc = from /\ UNCHANGED <<task, computedAt, asked, arrivedAt>>
      BY <2>3 DEF TestCancelled
    <3>2. CASE task \in cancelled
      <4>1. asked[task] # "no"
        BY <3>1, <3>2, HeldIsWaiting DEF Flags
      <4>2. wpc' = "send" /\ code' = "cancelled"
        BY <2>3, <3>2 DEF TestCancelled, Loaded, Skip
      <4> QED
        BY <3>1, <4>1, <4>2 DEF Verdict
    <3>3. CASE task \notin cancelled
      <4>1. wpc' = to /\ code' = code
        BY <2>3, <3>3 DEF TestCancelled, Loaded
      <4> QED
        BY <2>3, <3>1, <4>1 DEF Verdict
    <3> QED
      BY <3>2, <3>3
  <2> QED
    BY <1>4, <2>1, <2>2, <2>3 DEF Worker
<1>5. CASE Join \/ UNCHANGED vars
  BY <1>1, <1>5 DEF Join, vars, workVars, clientVars
<1> QED
  BY <1>3, <1>4, <1>5 DEF Next, Gone

\* The worker computes only requests that were read.
LEMMA NextUnread == IPlaces /\ Unread /\ [Next]_vars => Unread'
<1> SUFFICES ASSUME IPlaces, Unread, [Next]_vars PROVE Unread'
  OBVIOUS
<1>1. ASSUME UNCHANGED computedAt, received \subseteq received' PROVE Unread'
  BY <1>1 DEF Unread
<1>2. CASE Main
  BY <1>1, <1>2 DEF Main, Drain, ReadIgnored, Exit, Notify, Push, CancelRequest, ReadAnswered,
                    Initialize, Shutdown, Enqueue, Arrives, workVars, clientVars
<1>3. CASE Worker
  <2>1. CASE Compute
    <3>1. task \in received /\ computedAt \in [Reqs -> -1 .. MaxNotes] /\ UNCHANGED received
      BY <2>1, HeldIsWaiting DEF Compute, IPlaces, IType, TypeOK, Phase, mainUnchanged, clientVars
    <3> QED
      BY <2>1, <3>1 DEF Compute, Unread
  <2>2. CASE ~Compute
    BY <1>1, <1>3, <2>2 DEF Worker, Sweep, PollTimeout, Pop, RunNotification, Send, MarkDone,
                            TestCancelled, mainUnchanged, clientVars
  <2> QED
    BY <2>1, <2>2
<1>4. CASE Join \/ UNCHANGED vars
  BY <1>1, <1>4 DEF Join, vars, workVars, clientVars
<1> QED
  BY <1>2, <1>3, <1>4 DEF Next, Gone

\* The inductive invariant of the refinement.
LEMMA InvariantICon == Spec => []ICon
<1>1. Init => ICon
  <2> SUFFICES ASSUME Init PROVE ICon
    OBVIOUS
  <2>1. IPlaces
    BY InitType, InitPlaces DEF IPlaces
  <2>2. queue = <<>> /\ wpc = "sweep" /\ applied = 0 /\ arrived = 0
        /\ arrivedAt = [r \in Reqs |-> 0]
    BY DEF Init
  <2>3. Len(queue) = 0 /\ Item(0) = NoReq /\ NoReq \notin Notes /\ NoReq \notin Reqs
    BY <2>2, NoReqAssumption DEF Item, Holds, Notes
  <2>4. Backlog
    BY <2>2, <2>3 DEF Backlog, Notes
  <2>5. Order
    BY <2>2, <2>3 DEF Order
  <2>6. Flags /\ Verdict /\ Unread /\ JustRead
    BY DEF Init, Flags, Verdict, Unread, JustRead
  <2> QED
    BY <2>1, <2>4, <2>5, <2>6 DEF ICon
<1>2. ICon /\ [Next]_vars => ICon'
  BY NextPlaces, NextOrder, NextJustRead, NextFlags, NextVerdict, NextUnread DEF ICon
<1> QED
  BY <1>1, <1>2, PTL DEF Spec

-----------------------------------------------------------------------------
(* Every step of the server is a step of the contract, or changes nothing of it. *)

\* The contract's view of when a request was read.
SeenAt == [r \in Reqs |-> IF r \in received THEN arrivedAt[r] ELSE -1]

\* The contract's view of what the client asked to cancel.
Cancels == {r \in Reqs : asked[r] # "no"}

\* The contract's view of the answers.
Sent == [r \in Reqs |-> Replies(r)]

\* A step that leaves alone what the client sees, and computes only what is not yet
\* answered, is a stuttering step of the contract.
LEMMA Stutters ==
  ASSUME TypeOK, UNCHANGED <<received, arrivedAt, asked, answers>>,
         \A r \in Reqs : computedAt'[r] = computedAt[r] \/ answers[r] = <<>>
  PROVE  UNCHANGED <<SeenAt, Cancels, Sent>>
<1>1. \A r \in Reqs : Replies(r)' = Replies(r)
  <2> SUFFICES ASSUME NEW r \in Reqs PROVE Replies(r)' = Replies(r)
    OBVIOUS
  <2>1. CASE computedAt'[r] = computedAt[r]
    BY <2>1 DEF Replies
  <2>2. CASE answers[r] = <<>>
    <3>1. answers'[r] = <<>> /\ Len(answers[r]) = 0 /\ Len(answers'[r]) = 0
      BY <2>2
    <3> QED
      BY <3>1 DEF Replies
  <2> QED
    BY <2>1, <2>2
<1> QED
  BY <1>1 DEF SeenAt, Cancels, Sent

\* The first answer to a request is the contract's reply.
LEMMA AnswerIsReply ==
  ASSUME TypeOK, UNCHANGED computedAt, NEW r \in Reqs, answers[r] = <<>>,
         NEW c \in Codes, Answer(r, c)
  PROVE  Sent' = [Sent EXCEPT ![r] = Contract!Reply(c, IF c = "ok" THEN computedAt[r] ELSE -1)]
<1>1. answers'[r] = <<c>> /\ \A q \in Reqs : q # r => answers'[q] = answers[q]
  BY DEF Answer, TypeOK
<1>2. \A q \in Reqs : q # r => Replies(q)' = Replies(q)
  BY <1>1 DEF Replies
<1>3. Replies(r)' = <<[code |-> c, on |-> IF c = "ok" THEN computedAt[r] ELSE -1]>>
  <2>1. Len(answers'[r]) = 1 /\ answers'[r][1] = c /\ computedAt' = computedAt
    BY <1>1
  <2>2. Replies(r)' = [k \in 1 .. 1 |-> [code |-> answers'[r][k],
                          on |-> IF answers'[r][k] = "ok" THEN computedAt[r] ELSE -1]]
    BY <2>1 DEF Replies
  <2> QED
    BY <2>1, <2>2
<1> QED
  BY <1>2, <1>3 DEF Sent, Contract!Reply

\* Reading a request is receiving it.
LEMMA ArrivesIsReceive ==
  ASSUME TypeOK, NEW r \in Reqs, Arrives(r), UNCHANGED <<arrived, asked>>
  PROVE  Contract!Receive(r) /\ Cancels' = Cancels
<1>1. SeenAt[r] = -1 /\ SeenAt' = [SeenAt EXCEPT ![r] = arrived]
  BY DEF SeenAt, Arrives, TypeOK
<1>2. Cancels' = Cancels
  BY DEF Cancels
<1> QED
  BY <1>1, <1>2 DEF Contract!Receive, SeenAt, Cancels

\* Every step of the two threads is a step of the contract or a stutter.
LEMMA NextIsContract ==
  ICon /\ [Next]_vars => [Contract!Next]_<<arrived, SeenAt, Cancels, Sent>>
<1> SUFFICES ASSUME ICon, [Next]_vars
             PROVE  Contract!Next \/ UNCHANGED <<arrived, SeenAt, Cancels, Sent>>
  OBVIOUS
<1>0. IPlaces /\ IType /\ TypeOK /\ Phase
  BY DEF ICon, IPlaces, IType
<1>1. ASSUME UNCHANGED <<received, arrived, arrivedAt, asked, answers, computedAt>>
      PROVE  UNCHANGED <<arrived, SeenAt, Cancels, Sent>>
  BY <1>0, <1>1, Stutters
<1>2. ASSUME NEW r \in Reqs, Arrives(r), NEW c \in {"direct", "busy"}, Answer(r, c),
             UNCHANGED <<arrived, asked, computedAt>>
      PROVE  Contract!Next
  <2>1. answers[r] = <<>> /\ computedAt[r] = -1
    BY <1>0, <1>2 DEF Arrives, ICon, IPlaces, Places, Unseen, Unread
  <2>2. Sent' = [Sent EXCEPT ![r] = Contract!Reply(c, -1)]
    BY <1>0, <1>2, <2>1, AnswerIsReply DEF Codes
  <2>3. Contract!Receive(r)
    BY <1>0, <1>2, ArrivesIsReceive
  <2>4. Contract!Refuse(r)
    BY <1>2, <2>2, <2>3 DEF Contract!Refuse, Sent
  <2> QED
    BY <2>4 DEF Contract!Next
<1>3. CASE Main
  <2>1. CASE Drain \/ ReadIgnored \/ Exit \/ Push
    BY <1>1, <2>1 DEF Drain, ReadIgnored, Exit, Push, workVars, clientVars
  <2>2. CASE Notify
    <3>1. arrived' = arrived + 1 /\ UNCHANGED <<received, arrivedAt, asked, answers, computedAt>>
      BY <2>2 DEF Notify, workVars
    <3>2. UNCHANGED <<SeenAt, Cancels, Sent>>
      BY <1>0, <3>1, Stutters
    <3> QED
      BY <3>1, <3>2 DEF Contract!Next, Contract!Update, SeenAt, Cancels, Sent
  <2>3. ASSUME NEW i \in Ids, CancelRequest(i) PROVE Contract!Next
    <3>1. /\ UNCHANGED <<received, arrived, arrivedAt, answers, computedAt>>
          /\ asked \in [Reqs -> {"no", "queued", "running"}]
          /\ \A r \in Reqs : asked'[r] # asked[r] => Outstanding(r) /\ asked[r] = "no"
      BY <1>0, <2>3 DEF CancelRequest, workVars, TypeOK
    <3>2. UNCHANGED <<SeenAt, Sent>>
      BY <1>0, <3>1 DEF SeenAt, Sent, Replies
    <3> DEFINE R == {r \in Reqs : asked'[r] # asked[r]}
    <3>3. \A r \in R : SeenAt[r] # -1 /\ Sent[r] = <<>>
      <4> SUFFICES ASSUME NEW r \in R PROVE SeenAt[r] # -1 /\ Sent[r] = <<>>
        OBVIOUS
      <4>1. r \in Reqs /\ r \in received /\ answers[r] = <<>>
        BY <3>1 DEF Outstanding
      <4>2. arrivedAt[r] \in 0 .. MaxNotes
        BY <1>0 DEF TypeOK
      <4>3. Len(answers[r]) = 0
        BY <4>1
      <4>4. Replies(r) = <<>>
        BY <4>3 DEF Replies
      <4> QED
        BY <4>1, <4>2, <4>4 DEF SeenAt, Sent
    <3>4. Cancels' = Cancels \cup R
      BY <2>3, <3>1 DEF CancelRequest, Cancels
    <3>5. R \in SUBSET {r \in Reqs : SeenAt[r] # -1 /\ Sent[r] = <<>>}
      BY <3>3
    <3> HIDE DEF R
    <3>6. Contract!Cancel
      BY <3>1, <3>2, <3>4, <3>5 DEF Contract!Cancel, Contract!Waiting, SeenAt, Cancels, Sent
    <3> QED
      BY <3>6 DEF Contract!Next
  <2>4. ASSUME NEW r \in Reqs, ReadAnswered(r) PROVE Contract!Next
    BY <1>2, <2>4 DEF ReadAnswered, workVars
  <2>5. ASSUME NEW r \in Reqs, Initialize(r) \/ Shutdown(r) PROVE Contract!Next
    BY <1>2, <2>5 DEF Initialize, Shutdown, workVars
  <2>6. ASSUME NEW r \in Reqs, Enqueue(r) PROVE Contract!Next
    <3>1. Arrives(r) /\ UNCHANGED <<arrived, asked, computedAt>>
      BY <2>6 DEF Enqueue, workVars
    <3>2. CASE full
      BY <1>2, <2>6, <3>1, <3>2 DEF Enqueue, RejectBusy
    <3>3. CASE ~full
      <4>1. UNCHANGED answers
        BY <2>6, <3>3 DEF Enqueue
      <4>2. Sent' = Sent
        BY <3>1, <4>1 DEF Sent, Replies
      <4>3. Contract!Receive(r)
        BY <1>0, <3>1, ArrivesIsReceive
      <4>4. Contract!Accept(r)
        BY <4>2, <4>3 DEF Contract!Accept, Sent
      <4> QED
        BY <4>4 DEF Contract!Next
    <3> QED
      BY <3>2, <3>3
  <2> QED
    BY <1>3, <2>1, <2>2, <2>3, <2>4, <2>5, <2>6 DEF Main
<1>4. CASE Worker
  <2> USE DEF mainUnchanged, clientVars
  <2>1. CASE Send
    <3>1. /\ task \in Reqs /\ wpc = "send" /\ Answer(task, code)
          /\ UNCHANGED <<received, arrived, arrivedAt, asked, computedAt>>
      BY <1>0, <2>1 DEF Send, Phase
    <3>2. task \in received /\ answers[task] = <<>>
      BY <1>0, <3>1, HeldIsWaiting
    <3>3. /\ code \in {"ok", "internal_error", "cancelled"} /\ code \in Codes
          /\ code = "cancelled" => task \in Cancels
          /\ code = "ok" => computedAt[task] = arrivedAt[task]
      BY <3>1 DEF ICon, Verdict, Cancels, Codes
    <3>4. Sent' = [Sent EXCEPT ![task] = Contract!Reply(code, IF code = "ok" THEN computedAt[task] ELSE -1)]
      BY <1>0, <3>1, <3>2, <3>3, AnswerIsReply
    <3>5. SeenAt[task] = arrivedAt[task] /\ arrivedAt[task] \in 0 .. MaxNotes
      BY <1>0, <3>1, <3>2 DEF SeenAt, TypeOK
    <3>6. Sent[task] = <<>>
      <4>1. Len(answers[task]) = 0
        BY <3>2
      <4> QED
        BY <3>1, <4>1 DEF Sent, Replies
    <3>7. UNCHANGED <<arrived, SeenAt, Cancels>>
      BY <3>1 DEF SeenAt, Cancels
    <3>8. Contract!Waiting(task)
      BY <3>5, <3>6 DEF Contract!Waiting, SeenAt, Sent
    <3>9. \E a \in {Contract!Reply("ok", SeenAt[task]), Contract!Reply("internal_error", -1)}
                     \cup (IF task \in Cancels THEN {Contract!Reply("cancelled", -1)} ELSE {}) :
             Sent' = [Sent EXCEPT ![task] = a]
      BY <3>3, <3>4, <3>5, Zenon
    <3>10. Contract!Finish(task)
      BY <3>7, <3>8, <3>9 DEF Contract!Finish, SeenAt, Sent, Cancels
    <3> QED
      BY <3>1, <3>10 DEF Contract!Next
  <2>2. CASE Compute
    <3>1. task \in Reqs /\ answers[task] = <<>>
      BY <1>0, <2>2, HeldIsWaiting DEF Compute, Phase
    <3>2. \A r \in Reqs : computedAt'[r] = computedAt[r] \/ answers[r] = <<>>
      <4>1. computedAt \in [Reqs -> -1 .. MaxNotes]
        BY <1>0 DEF TypeOK
      <4> QED
        BY <2>2, <3>1, <4>1 DEF Compute
    <3>3. UNCHANGED <<received, arrived, arrivedAt, asked, answers>>
      BY <2>2 DEF Compute
    <3> QED
      BY <1>0, <3>2, <3>3, Stutters
  <2>3. CASE ~Send /\ ~Compute
    BY <1>1, <1>4, <2>3 DEF Worker, Sweep, PollTimeout, Pop, RunNotification, MarkDone, TestCancelled
  <2> QED
    BY <2>1, <2>2, <2>3
<1>5. CASE Join \/ UNCHANGED vars
  BY <1>1, <1>5 DEF Join, vars, workVars, clientVars
<1> QED
  BY <1>3, <1>4, <1>5 DEF Next, Gone

\* Nothing has been received, cancelled or answered at the start.
LEMMA InitIsContract == Init => Contract!Init
<1> SUFFICES ASSUME Init PROVE Contract!Init
  OBVIOUS
<1>1. \A r \in Reqs : Replies(r) = <<>>
  <2> SUFFICES ASSUME NEW r \in Reqs PROVE Replies(r) = <<>>
    OBVIOUS
  <2>1. Len(answers[r]) = 0
    BY DEF Init
  <2> QED
    BY <2>1 DEF Replies
<1> QED
  BY <1>1 DEF Init, Contract!Init

\* mirage-lsp's reading thread, queue, flags and worker implement the sequential
\* contract: for every number of requests and updates, every capacity, however ids
\* are reused, whatever is cancelled and whatever throws.
THEOREM ServerImplementsContract == Spec => ImplementsContract
<1>1. ICon /\ [Next]_vars => [Contract!Next]_(Contract!contractVars)
  BY NextIsContract DEF Contract!contractVars, SeenAt, Cancels, Sent
<1> QED
  BY <1>1, InitIsContract, InvariantICon, PTL DEF Spec, ImplementsContract, Contract!Spec
=============================================================================
