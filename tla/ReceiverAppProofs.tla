-------------------------- MODULE ReceiverAppProofs --------------------------
(***************************************************************************)
(* ReceiverApp for any number of sessions and messages and any failing     *)
(* calls: the window and the worker thread never use the session at the    *)
(* same time, and no message outlives its session.  The inductive          *)
(* invariant is AppInv.                                                    *)
(***************************************************************************)
EXTENDS ReceiverApp, TLAPS

-----------------------------------------------------------------------------
\* What a message posted by a running worker is.
LEMMA PostedMessage ==
  ASSUME NEW n \in 1 .. MaxSessions
  PROVE  /\ \A e \in Event : LET m == [kind |-> "EVENT", n |-> n, what |-> e]
                             IN  m \in Message /\ m.n = n /\ m.kind = "EVENT"
         /\ \A r \in RuntimeResult : LET m == [kind |-> "DONE", n |-> n, what |-> r]
                                     IN  m \in Message /\ m.n = n /\ m.kind = "DONE"
  BY DEF Message

\* The messages of the worker belong to its session; DONE comes from a worker
\* that has taken its last step.
Consistent(q, n, over) ==
    /\ q \in Seq(Message)
    /\ \A i \in DOMAIN q : q[i].n = n
    /\ \A i \in DOMAIN q : q[i].kind = "DONE" => i = Len(q) /\ over

\* Posting to a consistent queue of a worker that still runs.
LEMMA PostKeeps ==
  ASSUME NEW n \in 1 .. MaxSessions, Consistent(queue, n, FALSE),
         NEW m \in Message, m.n = n, Post(m), NEW over \in BOOLEAN,
         m.kind = "DONE" => over
  PROVE  Consistent(queue', n, over)
  <1>1. CASE queue' = Append(queue, m)
    BY <1>1 DEF Consistent
  <1>2. CASE queue' = queue
    BY <1>2 DEF Consistent
  <1> QED BY <1>1, <1>2 DEF Post

\* Taking the first message off a consistent queue.
LEMMA TailKeeps ==
  ASSUME NEW n, NEW over \in BOOLEAN, Consistent(queue, n, over), queue # <<>>,
         queue' = Tail(queue)
  PROVE  /\ Consistent(queue', n, over)
         /\ Head(queue) \in Message
         /\ Head(queue).kind = "DONE" => queue' = <<>>
  <1>1. Len(queue) \in Nat \ {0} /\ Head(queue) = queue[1] /\ 1 \in DOMAIN queue
    BY DEF Consistent
  <1>2. queue' \in Seq(Message) /\ Len(queue') = Len(queue) - 1
        /\ \A i \in DOMAIN queue' : queue'[i] = queue[i + 1] /\ i + 1 \in DOMAIN queue
    BY <1>1 DEF Consistent
  <1>3. Head(queue).kind = "DONE" => Len(queue) = 1
    BY <1>1 DEF Consistent
  <1> QED BY <1>1, <1>2, <1>3 DEF Consistent

\* A new worker thread.
LEMMA NewWorkerType ==
  ASSUME session.n \in 1 .. MaxSessions
  PROVE  NewWorker \in WorkerType /\ NewWorker.n = session.n
  BY DEF NewWorker, WorkerType, RuntimeResult

\* The window shows a failure; its worker handle stays as it is.
LEMMA FailedKeeps ==
  ASSUME NEW a \in AppType
  PROVE  Failed(a) \in AppType /\ Failed(a).worker = a.worker
  BY DEF Failed, AppType, RuntimeResult

\* The invariant in terms of Consistent.
LEMMA InvForm ==
  AppInv <=> /\ main \in {"start", "loop", "destroyed", "quit"}
             /\ app \in AppType /\ session \in SessionType /\ worker \in WorkerType
             /\ SessionNotShared /\ lost \in BOOLEAN
             /\ main # "loop" => queue = <<>>
             /\ main = "start" => worker.pc = "none"
             /\ main = "loop" /\ ~app.worker => queue = <<>>
             /\ Consistent(queue, session.n, ~Alive)
  BY DEF AppInv, TypeOK, NoStaleMessage, DoneIsLast, Consistent

\* The same of the next state.
LEMMA InvNext ==
  ASSUME /\ main' \in {"start", "loop", "destroyed", "quit"}
         /\ app' \in AppType /\ session' \in SessionType /\ worker' \in WorkerType
         /\ SessionNotShared' /\ lost' \in BOOLEAN
         /\ main' # "loop" => queue' = <<>>
         /\ main' = "start" => worker'.pc = "none"
         /\ main' = "loop" /\ ~app'.worker => queue' = <<>>
         /\ Consistent(queue', session'.n, ~Alive')
  PROVE  AppInv'
  BY DEF AppInv, TypeOK, NoStaleMessage, DoneIsLast, Consistent

\* The history variable.
LEMMA LostType == lost \in BOOLEAN /\ Next => lost' \in BOOLEAN
  BY DEF Next, WorkerThread, WindowThread, Register, Connect, LoopEvent, CloseSession,
         PostDone, Post, StartFirst, RuntimeEvent, RuntimeDone, Timer, Destroy, Quit

-----------------------------------------------------------------------------
\* The steps of the worker thread keep the invariant.
LEMMA WorkerSteps == AppInv /\ WorkerThread => AppInv'
  <1> SUFFICES ASSUME AppInv, WorkerThread PROVE AppInv'
    OBVIOUS
  <1>0. /\ worker \in WorkerType /\ session \in SessionType /\ app \in AppType
        /\ SessionNotShared /\ Consistent(queue, session.n, ~Alive)
        /\ main \in {"start", "loop", "destroyed", "quit"}
        /\ main # "loop" => queue = <<>>
        /\ main = "start" => worker.pc = "none"
        /\ main = "loop" /\ ~app.worker => queue = <<>>
    BY InvForm
  <1>1. session.n \in 1 .. MaxSessions
    BY <1>0 DEF SessionType
  <1>lost. lost' \in BOOLEAN
    BY InvForm, LostType DEF Next
  \* What every step of the worker thread has in common.
  <1>2. ASSUME Alive, main' = main, app' = app, session'.n = session.n, main # "start",
               session' \in SessionType, worker' \in WorkerType, worker'.n = worker.n,
               Consistent(queue', session.n, ~Alive'), main # "loop" => queue' = queue
        PROVE  AppInv'
    <2>1. session.n = worker.n /\ (main = "loop" => app.worker)
      BY <1>0, <1>2 DEF SessionNotShared
    <2>2. SessionNotShared'
      BY <1>2, <2>1 DEF SessionNotShared
    <2>3. Consistent(queue', session'.n, ~Alive')
      BY <1>2
    <2> QED BY <1>0, <1>lost, <1>2, <2>1, <2>2, <2>3, InvNext
  <1>3. ASSUME Alive, queue' = queue, NEW over \in BOOLEAN
        PROVE  Consistent(queue', session.n, over)
    BY <1>0, <1>3 DEF Consistent
  <1>4. ASSUME Alive PROVE Consistent(queue, session.n, FALSE) /\ main # "start"
    BY <1>0, <1>4 DEF Consistent, Alive
  <1>5. CASE Register \/ Connect
    <2>1. Alive /\ Alive' \in BOOLEAN /\ main' = main /\ app' = app /\ session' = session
          /\ queue' = queue
      BY <1>5 DEF Register, Connect, Running, Alive
    <2>2. worker' \in WorkerType /\ worker'.n = worker.n
      BY <1>0, <1>5 DEF Register, Connect, NotRegistered, WorkerType, RuntimeResult
    <2> QED BY <1>0, <1>2, <1>3, <1>4, <2>1, <2>2
  <1>6. CASE LoopEvent
    <2>1. Alive /\ main' = main /\ app' = app /\ session' = session
      BY <1>6 DEF LoopEvent, Running, Alive
    <2>2. PICK e \in EventAfter(worker.last) :
             /\ Post([kind |-> "EVENT", n |-> worker.n, what |-> e])
             /\ \/ e = "COMPLETE" /\ worker' = [worker EXCEPT !.pc = "close", !.last = e]
                \/ /\ e = "FAILED"
                   /\ \E r \in {"RELAY_ERROR", "PROTOCOL_ERROR"} :
                         worker' = [worker EXCEPT !.pc = "close", !.last = e, !.result = r]
                \/ e \notin {"COMPLETE", "FAILED"} /\ worker' = [worker EXCEPT !.last = e]
      BY <1>6 DEF LoopEvent
    <2>3. e \in Event
      BY <1>0 DEF EventAfter, Event, WorkerType
    <2>4. worker' \in WorkerType /\ worker'.n = worker.n
      BY <1>0, <2>2, <2>3 DEF WorkerType, RuntimeResult
    <2>5. worker.n = session.n
      BY <1>0, <2>1 DEF SessionNotShared
    <2>6. Consistent(queue', session.n, ~Alive')
      <3> DEFINE m == [kind |-> "EVENT", n |-> session.n, what |-> e]
      <3>1. m \in Message /\ m.n = session.n /\ m.kind = "EVENT"
        BY <1>1, <2>3, PostedMessage
      <3>2. Post(m)
        BY <2>2, <2>5
      <3> HIDE DEF m
      <3> QED BY <1>1, <1>4, <2>1, <3>1, <3>2, PostKeeps DEF Alive
    <2>7. main # "loop" => queue' = queue
      BY <2>2 DEF Post
    <2> QED BY <1>0, <1>2, <1>4, <2>1, <2>4, <2>6, <2>7
  <1>7. CASE CloseSession
    <2>1. Alive /\ Alive' \in BOOLEAN /\ main' = main /\ app' = app /\ queue' = queue
      BY <1>7 DEF CloseSession, Running, Alive
    <2>2. session' \in SessionType /\ session'.n = session.n
      BY <1>0, <1>7 DEF CloseSession, Closed, SessionType
    <2>3. worker' \in WorkerType /\ worker'.n = worker.n
      BY <1>0, <1>7 DEF CloseSession, WorkerType
    <2> QED BY <1>0, <1>2, <1>3, <1>4, <2>1, <2>2, <2>3
  <1>8. CASE PostDone
    <2>1. Alive /\ main' = main /\ app' = app /\ session' = session
      BY <1>8 DEF PostDone, Running, Alive
    <2>2. worker' \in WorkerType /\ worker'.n = worker.n /\ ~Alive'
          /\ worker.result \in RuntimeResult
      BY <1>0, <1>8 DEF PostDone, WorkerType, Alive
    <2>3. worker.n = session.n
      BY <1>0, <2>1 DEF SessionNotShared
    <2>4. Consistent(queue', session.n, TRUE)
      <3> DEFINE m == [kind |-> "DONE", n |-> session.n, what |-> worker.result]
      <3>1. m \in Message /\ m.n = session.n /\ m.kind = "DONE"
        BY <1>1, <2>2, PostedMessage
      <3>2. Post(m)
        BY <1>8, <2>3 DEF PostDone
      <3> HIDE DEF m
      <3> QED BY <1>1, <1>4, <2>1, <3>1, <3>2, PostKeeps
    <2>5. main # "loop" => queue' = queue
      BY <1>8 DEF PostDone, Post
    <2>6. Consistent(queue', session.n, ~Alive')
      BY <2>2, <2>4 DEF Consistent
    <2> QED BY <1>0, <1>2, <1>4, <2>1, <2>2, <2>5, <2>6
  <1> QED BY <1>5, <1>6, <1>7, <1>8 DEF WorkerThread

\* The steps of the window thread and the end of the process keep the invariant.
LEMMA WindowSteps == AppInv /\ (WindowThread \/ Destroy \/ Quit) => AppInv'
  <1> SUFFICES ASSUME AppInv, WindowThread \/ Destroy \/ Quit PROVE AppInv'
    OBVIOUS
  <1>0. /\ worker \in WorkerType /\ session \in SessionType /\ app \in AppType
        /\ SessionNotShared /\ Consistent(queue, session.n, ~Alive)
        /\ main \in {"start", "loop", "destroyed", "quit"}
        /\ main # "loop" => queue = <<>>
        /\ main = "start" => worker.pc = "none"
        /\ main = "loop" /\ ~app.worker => queue = <<>>
    BY InvForm
  <1>lost. lost' \in BOOLEAN
    BY InvForm, LostType DEF Next
  <1>1. session.n \in 1 .. MaxSessions
    BY <1>0 DEF SessionType
  <1>2. \A n : \A over \in BOOLEAN : Consistent(<<>>, n, over)
    BY DEF Consistent
  <1>3. Alive \in BOOLEAN /\ Alive' \in BOOLEAN
    BY DEF Alive
  <1>4. CASE StartFirst
    <2>1. main' = "loop" /\ session' = session /\ queue' = <<>> /\ worker.pc = "none"
      BY <1>0, <1>4 DEF StartFirst
    <2>2. CASE app' = [app EXCEPT !.worker = TRUE] /\ worker' = NewWorker
      <3>1. app' \in AppType /\ app'.worker
        BY <1>0, <2>2 DEF AppType
      <3>2. worker' \in WorkerType /\ worker'.n = session.n
        BY <1>1, <2>2, NewWorkerType
      <3>3. SessionNotShared'
        BY <2>1, <3>1, <3>2 DEF SessionNotShared
      <3> QED BY <1>0, <1>2, <1>3, <2>1, <3>1, <3>2, <3>3, <1>lost, InvNext
    <2>3. CASE app' = Failed(app) /\ worker' = worker
      <3>1. app' \in AppType
        BY <1>0, <2>3, FailedKeeps
      <3>2. SessionNotShared'
        BY <2>1, <2>3 DEF SessionNotShared, Alive
      <3> QED BY <1>0, <1>2, <1>3, <2>1, <2>3, <3>1, <3>2, <1>lost, InvNext
    <2> QED BY <1>4, <2>2, <2>3 DEF StartFirst
  <1>5. CASE RuntimeEvent
    <2>1. /\ main = "loop" /\ main' = "loop" /\ session' = session /\ worker' = worker
          /\ queue # <<>> /\ queue' = Tail(queue) /\ Head(queue).kind = "EVENT"
          /\ app' = [app EXCEPT !.state = Shown(Head(queue).what)]
      BY <1>5 DEF RuntimeEvent, Dispatch
    <2>2. Consistent(queue', session.n, ~Alive) /\ Head(queue) \in Message
      BY <1>0, <1>3, <2>1, TailKeeps
    <2>3. Head(queue).what \in Event
      BY <2>1, <2>2 DEF Message
    <2>4. app' \in AppType /\ app'.worker = app.worker
      <3>1. Shown(Head(queue).what) \in {"READY", "RECEIVING", "VERIFYING", "COMPLETE", "FAILED"}
        BY <2>3 DEF Shown, Event
      <3> QED BY <1>0, <2>1, <3>1 DEF AppType
    <2>5. SessionNotShared' /\ Alive' = Alive /\ app.worker
      BY <1>0, <2>1, <2>4 DEF SessionNotShared, Alive
    <2>6. Consistent(queue', session'.n, ~Alive')
      BY <2>1, <2>2, <2>5
    <2> QED BY <1>0, <2>1, <2>4, <2>5, <2>6, <1>lost, InvNext
  <1>6. CASE RuntimeDone
    <2>1. /\ main = "loop" /\ main' = "loop" /\ session' = session /\ worker' = worker
          /\ queue # <<>> /\ queue' = Tail(queue) /\ Head(queue).kind = "DONE"
      BY <1>6 DEF RuntimeDone, Dispatch
    <2>2. queue' = <<>> /\ Head(queue) \in Message
      BY <1>0, <1>3, <2>1, TailKeeps
    <2>3. Head(queue).what \in RuntimeResult
      BY <2>1, <2>2 DEF Message
    <2>4. app' \in AppType
      BY <1>0, <1>6, <2>3 DEF RuntimeDone, Failed, AppType, RuntimeResult
    <2>5. ~Alive /\ ~Alive'
      BY <1>0, <2>1 DEF Consistent, Alive
    <2>6. SessionNotShared' /\ Consistent(queue', session'.n, ~Alive')
      BY <1>2, <1>3, <2>2, <2>5 DEF SessionNotShared
    <2> QED BY <1>0, <2>1, <2>2, <2>4, <2>6, <1>lost, InvNext
  <1>7. CASE Timer
    <2> DEFINE fired == [app EXCEPT !.timer = FALSE]
               blank == [fired EXCEPT !.qr_valid = FALSE]
               next == NewSession(session.n + 1)
    <2>1. main = "loop" /\ main' = "loop" /\ queue' = queue /\ session.n < MaxSessions
      BY <1>7 DEF Timer
    <2>2. fired \in AppType /\ fired.worker = app.worker
      BY <1>0 DEF AppType
    <2>3. blank \in AppType /\ blank.worker = app.worker
      BY <1>0 DEF AppType
    <2>4. /\ next \in SessionType /\ next.n = session.n + 1
          /\ Closed(next) \in SessionType
          /\ [Closed(next) EXCEPT !.state = "INACTIVE"] \in SessionType
      <3>1. session.n + 1 \in 1 .. MaxSessions
        BY <1>1, <2>1, AppAssumption
      <3>2. \A n \in 1 .. MaxSessions : NewSession(n) \in SessionType /\ NewSession(n).n = n
        BY DEF NewSession, SessionType
      <3>3. next \in SessionType /\ next.n = session.n + 1
        BY <3>1, <3>2
      <3>4. \A s \in SessionType : Closed(s) \in SessionType
        BY DEF Closed, SessionType
      <3>5. \A s \in SessionType : [s EXCEPT !.state = "INACTIVE"] \in SessionType
        BY DEF SessionType
      <3> HIDE DEF next
      <3> QED BY <3>3, <3>4, <3>5
    <2>a. \/ /\ ~app.worker
             /\ app' = [Prepared(fired) EXCEPT !.worker = TRUE]
             /\ session' = next
             /\ worker' = [NewWorker EXCEPT !.n = next.n]
          \/ /\ worker' = worker
             /\ app' = Failed(IF app.worker THEN fired ELSE blank)
             /\ \/ session' = session
                \/ /\ ~app.worker
                   /\ session' \in {Closed(next),
                                    [Closed(next) EXCEPT !.state = "INACTIVE"]}
          \/ /\ ~app.worker /\ worker' = worker
             /\ app' = Failed(blank)
             /\ session' = Closed(next)
      BY <1>7, Zenon DEF Timer
    <2> HIDE DEF fired, blank, next
    <2>5. \/ /\ ~app.worker
             /\ app' = [Prepared(fired) EXCEPT !.worker = TRUE]
             /\ session' = next
             /\ worker' = [NewWorker EXCEPT !.n = next.n]
          \/ /\ ~app.worker /\ worker' = worker
             /\ app' = Failed(blank)
             /\ session' \in {session, Closed(next),
                              [Closed(next) EXCEPT !.state = "INACTIVE"]}
          \/ /\ app.worker /\ worker' = worker /\ session' = session
             /\ app' = Failed(fired)
      BY <2>a, Zenon
    <2>6. CASE /\ ~app.worker
               /\ app' = [Prepared(fired) EXCEPT !.worker = TRUE]
               /\ session' = next
               /\ worker' = [NewWorker EXCEPT !.n = next.n]
      <3>1. app' \in AppType /\ app'.worker
        BY <2>2, <2>6 DEF Prepared, AppType, RuntimeResult
      <3>2. next.n \in 1 .. MaxSessions
        BY <2>4 DEF SessionType
      <3>3. worker' \in WorkerType /\ worker'.n = next.n
        BY <1>1, <2>6, <3>2, NewWorkerType DEF WorkerType
      <3>4. queue' = <<>>
        BY <1>0, <2>1, <2>6
      <3>5. SessionNotShared'
        BY <2>6, <3>1, <3>3 DEF SessionNotShared
      <3> QED BY <1>2, <1>3, <2>1, <2>4, <2>6, <3>1, <3>3, <3>4, <3>5, <1>lost, InvNext
    <2>7. CASE /\ ~app.worker /\ worker' = worker
               /\ app' = Failed(blank)
               /\ session' \in {session, Closed(next),
                                [Closed(next) EXCEPT !.state = "INACTIVE"]}
      <3>1. app' \in AppType
        BY <2>3, <2>7, FailedKeeps
      <3>2. session' \in SessionType
        BY <1>0, <2>4, <2>7
      <3>3. queue' = <<>>
        BY <1>0, <2>1, <2>7
      <3>4. SessionNotShared'
        BY <1>0, <2>1, <2>7 DEF SessionNotShared, Alive
      <3> QED BY <1>0, <1>2, <1>3, <2>1, <2>7, <3>1, <3>2, <3>3, <3>4, <1>lost, InvNext
    <2>8. CASE /\ app.worker /\ worker' = worker /\ session' = session
               /\ app' = Failed(fired)
      <3>1. app' \in AppType /\ app'.worker
        BY <2>2, <2>8, FailedKeeps
      <3>2. SessionNotShared' /\ Alive' = Alive
        BY <1>0, <2>1, <2>8, <3>1 DEF SessionNotShared, Alive
      <3> QED BY <1>0, <2>1, <2>8, <3>1, <3>2, <1>lost, InvNext
    <2> QED BY <2>5, <2>6, <2>7, <2>8
  <1>8. CASE Destroy
    <2>1. /\ main' = "destroyed" /\ session' = session /\ worker' = worker /\ queue' = <<>>
          /\ main = "loop"
      BY <1>8 DEF Destroy
    <2>2. app' \in AppType
      BY <1>0, <1>8 DEF Destroy, AppType
    <2>3. SessionNotShared'
      BY <1>0, <2>1 DEF SessionNotShared, Alive
    <2> QED BY <1>0, <1>2, <1>3, <2>1, <2>2, <2>3, <1>lost, InvNext
  <1>9. CASE Quit
    <2>1. /\ main' = "quit" /\ main = "destroyed" /\ app' = app /\ session' = session
          /\ worker' = worker /\ queue' = queue
      BY <1>9 DEF Quit
    <2>2. SessionNotShared'
      BY <1>0, <2>1 DEF SessionNotShared, Alive
    <2> QED BY <1>0, <1>2, <1>3, <2>1, <2>2, <1>lost, InvNext
  <1> QED BY <1>4, <1>5, <1>6, <1>7, <1>8, <1>9 DEF WindowThread

-----------------------------------------------------------------------------
\* The theorems.

\* The invariant holds when wWinMain has created its window.
LEMMA InitInv == Init => AppInv
  <1> SUFFICES ASSUME Init PROVE AppInv
    OBVIOUS
  <1>1. app \in AppType
    BY DEF Init, Prepared, AppType, RuntimeResult
  <1>2. session \in SessionType
    BY AppAssumption DEF Init, NewSession, SessionType
  <1>3. worker \in WorkerType /\ ~Alive /\ worker.pc = "none"
    BY AppAssumption DEF Init, NoWorker, WorkerType, RuntimeResult, Alive
  <1>4. SessionNotShared /\ Consistent(queue, session.n, ~Alive)
    BY <1>3 DEF Init, SessionNotShared, Consistent
  <1> QED BY <1>1, <1>2, <1>3, <1>4, InvForm DEF Init

\* Every step of the two threads keeps the invariant.
LEMMA NextInv == AppInv /\ [Next]_vars => AppInv'
  <1>1. AppInv /\ UNCHANGED vars => AppInv'
    BY DEF vars, AppInv, TypeOK, SessionNotShared, NoStaleMessage, DoneIsLast, Alive
  <1> QED BY <1>1, WorkerSteps, WindowSteps DEF Next

\* The inductive invariant of window and worker.
THEOREM AppInvariant == Spec => []AppInv
  BY InitInv, NextInv, PTL DEF Spec

\* The window thread never rewrites the session, nor starts a second worker, while a
\* worker thread uses it (pd_start_next_session and the worker handle).
THEOREM SessionIsNotShared == Spec => []SessionNotShared
  <1>1. AppInv => SessionNotShared
    BY DEF AppInv
  <1> QED BY <1>1, AppInvariant, PTL

\* No message of an earlier session is ever in the queue (DONE is posted last).
THEOREM NoMessageIsStale == Spec => []NoStaleMessage
  <1>1. AppInv => NoStaleMessage
    BY DEF AppInv
  <1> QED BY <1>1, AppInvariant, PTL

-----------------------------------------------------------------------------
\* What the window shows, and what becomes of the session.

Before == {"ENDPOINT_ERROR", "RELAY_ERROR", "REGISTRATION_ERROR"}

\* How far the worker is tells what it last reported and what it will return.
StageKnown ==
    /\ worker.pc \in {"register", "connect"} => worker.last = "NONE"
    /\ worker.pc = "loop" => worker.last \notin {"COMPLETE", "FAILED"}
    /\ worker.pc \in {"none", "register", "connect", "loop"} => worker.result = "OK"
    /\ worker.pc \in {"close", "done", "exited"} =>
          /\ worker.last \in {"NONE", "COMPLETE", "FAILED"}
          /\ worker.last = "COMPLETE" <=> worker.result = "OK"

\* The session of a worker is open until the worker closes it, which it does before it
\* ends if it has registered the session.
SessionOpen ==
    /\ worker.pc \in {"register", "connect", "loop", "close"} => session.state = "WAITING"
    /\ worker.pc = "register" => ~worker.registered
    /\ worker.pc \in {"done", "exited"} /\ worker.n = session.n /\ worker.registered =>
          ~session.credentials

\* The messages in the queue that report an event.
Events == IF worker.pc = "exited" THEN Len(queue) - 1 ELSE Len(queue)

StateOf(e) == IF e = "NONE" THEN "CONNECTING" ELSE Shown(e)

\* Of a worker that got every message through, the last event is still in the queue
\* or on the window, and after its end DONE is the last message.
WindowFollows ==
    main = "loop" /\ ~lost /\ app.worker =>
        /\ worker.pc # "none"
        /\ worker.pc = "exited" => queue # <<>> /\ queue[Len(queue)].kind = "DONE"
                                  /\ queue[Len(queue)].what = worker.result
        /\ Events = 0 => app.state = StateOf(worker.last)
        /\ Events > 0 => queue[Events].what = worker.last

\* A window without a worker has shown how it ended.
OutcomeKnown ==
    main = "loop" /\ ~lost /\ ~app.worker =>
        /\ worker.pc \in {"none", "exited"}
        /\ worker.pc = "none" => app.state = "FAILED"
        /\ worker.pc = "exited" /\ worker.result # "OK" =>
              app.state = "FAILED" /\ app.runtime_result = worker.result
        /\ worker.pc = "exited" /\ worker.result = "OK" =>
              (app.state = "COMPLETE" /\ app.timer) \/ app.state = "FAILED"
        /\ app.timer => worker.pc = "exited" /\ worker.result = "OK"

\* The handles of the window.
HandlesKnown ==
    /\ main = "start" => /\ ~app.timer /\ ~app.worker /\ app.state = "CONNECTING"
                         /\ app.qr_valid /\ session.state = "WAITING"
    /\ app.timer => ~app.worker
    /\ app.worker => app.qr_valid

WindowInv == StageKnown /\ SessionOpen /\ WindowFollows /\ OutcomeKnown /\ HandlesKnown

\* What the proof uses of AppInv.
LEMMA AppFacts ==
  ASSUME AppInv
  PROVE  /\ main \in {"start", "loop", "destroyed", "quit"} /\ app \in AppType
         /\ session \in SessionType /\ worker \in WorkerType /\ lost \in BOOLEAN
         /\ queue \in Seq(Message) /\ Len(queue) \in Nat
         /\ Alive => worker.n = session.n /\ main # "start" /\ (main = "loop" => app.worker)
         /\ main = "loop" /\ queue # <<>> => app.worker
         /\ \A i \in DOMAIN queue : queue[i].kind = "DONE" => i = Len(queue) /\ ~Alive
         /\ main = "start" => worker.pc = "none"
  BY DEF AppInv, TypeOK, SessionNotShared, DoneIsLast, Alive

\* Registering and connecting: on the way to the loop, or to an error.
LEMMA SetupEffect ==
  ASSUME worker \in WorkerType, Register \/ Connect
  PROVE  /\ main' = main /\ app' = app /\ session' = session /\ queue' = queue /\ lost' = lost
         /\ worker.pc \in {"register", "connect"}
         /\ worker'.n = worker.n /\ worker'.last = worker.last
         /\ \/ worker'.pc \in {"connect", "loop"} /\ worker'.result = worker.result
            \/ /\ worker.pc = "register" /\ worker'.pc = "done" /\ worker'.result \in Before
               /\ worker'.registered <=> worker.registered
            \/ worker'.pc = "close" /\ worker'.result \in {"RELAY_ERROR", "STORAGE_ERROR"}
  BY DEF Register, Connect, NotRegistered, Running, WorkerType, Before

\* An event of the loop.
LEMMA EventEffect ==
  ASSUME worker \in WorkerType, queue \in Seq(Message), worker.n \in 1 .. MaxSessions, LoopEvent
  PROVE  /\ main' = main /\ app' = app /\ session' = session
         /\ worker.pc = "loop" /\ worker'.n = worker.n
         /\ worker'.last \in Event
         /\ \/ worker'.pc = "loop" /\ worker'.last \notin {"COMPLETE", "FAILED"}
               /\ worker'.result = worker.result
            \/ worker'.pc = "close" /\ worker'.last = "COMPLETE"
               /\ worker'.result = worker.result
            \/ worker'.pc = "close" /\ worker'.last = "FAILED" /\ worker'.result # "OK"
         /\ \/ lost'
            \/ /\ lost' = lost /\ Len(queue') = Len(queue) + 1
               /\ queue'[Len(queue) + 1].what = worker'.last
  <1>1. PICK e \in EventAfter(worker.last) :
           /\ Post([kind |-> "EVENT", n |-> worker.n, what |-> e])
           /\ \/ e = "COMPLETE" /\ worker' = [worker EXCEPT !.pc = "close", !.last = e]
              \/ /\ e = "FAILED"
                 /\ \E r \in {"RELAY_ERROR", "PROTOCOL_ERROR"} :
                       worker' = [worker EXCEPT !.pc = "close", !.last = e, !.result = r]
              \/ e \notin {"COMPLETE", "FAILED"} /\ worker' = [worker EXCEPT !.last = e]
    BY DEF LoopEvent
  <1>2. /\ main' = main /\ app' = app /\ session' = session /\ worker.pc = "loop"
    BY DEF LoopEvent, Running
  <1>3. e \in Event
    BY DEF EventAfter, Event, WorkerType
  <1>4. worker'.last = e /\ worker'.n = worker.n
    BY <1>1 DEF WorkerType
  <1>5. \/ worker'.pc = "loop" /\ e \notin {"COMPLETE", "FAILED"}
           /\ worker'.result = worker.result
        \/ worker'.pc = "close" /\ e = "COMPLETE" /\ worker'.result = worker.result
        \/ worker'.pc = "close" /\ e = "FAILED" /\ worker'.result # "OK"
    BY <1>1, <1>2 DEF WorkerType
  <1> DEFINE m == [kind |-> "EVENT", n |-> worker.n, what |-> e]
  <1>6. m \in Message /\ m.what = e
    BY <1>3, PostedMessage
  <1>7. Post(m)
    BY <1>1
  <1> HIDE DEF m
  <1>8. lost' \/ (lost' = lost /\ queue' = Append(queue, m))
    BY <1>7 DEF Post
  <1>9. queue' = Append(queue, m) =>
           Len(queue') = Len(queue) + 1 /\ queue'[Len(queue) + 1] = m
    BY <1>6
  <1> QED BY <1>2, <1>3, <1>4, <1>5, <1>6, <1>8, <1>9

\* The worker closes the session.
LEMMA CloseEffect ==
  ASSUME worker \in WorkerType, session \in SessionType, CloseSession
  PROVE  /\ main' = main /\ app' = app /\ queue' = queue /\ lost' = lost
         /\ worker.pc = "close" /\ worker'.pc = "done" /\ worker'.n = worker.n
         /\ worker'.last = worker.last /\ worker'.result = worker.result
         /\ session.state # "INACTIVE" => ~session'.credentials
  BY DEF CloseSession, Running, Closed, WorkerType, SessionType

\* The worker's last message.
LEMMA DoneEffect ==
  ASSUME worker \in WorkerType, queue \in Seq(Message), worker.n \in 1 .. MaxSessions, PostDone
  PROVE  /\ main' = main /\ app' = app /\ session' = session
         /\ worker.pc = "done" /\ worker'.pc = "exited" /\ worker'.n = worker.n
         /\ worker'.last = worker.last /\ worker'.result = worker.result
         /\ worker'.registered <=> worker.registered
         /\ \/ lost'
            \/ /\ lost' = lost /\ Len(queue') = Len(queue) + 1
               /\ queue'[Len(queue) + 1].kind = "DONE"
               /\ queue'[Len(queue) + 1].what = worker.result
               /\ \A i \in 1 .. Len(queue) : queue'[i] = queue[i]
  <1> DEFINE m == [kind |-> "DONE", n |-> worker.n, what |-> worker.result]
  <1>1. m \in Message /\ m.what = worker.result /\ m.kind = "DONE"
    BY PostedMessage DEF WorkerType
  <1>2. Post(m)
    BY DEF PostDone
  <1> HIDE DEF m
  <1>3. lost' \/ (lost' = lost /\ queue' = Append(queue, m))
    BY <1>2 DEF Post
  <1>4. queue' = Append(queue, m) =>
           /\ Len(queue') = Len(queue) + 1 /\ queue'[Len(queue) + 1] = m
           /\ \A i \in 1 .. Len(queue) : queue'[i] = queue[i]
    BY <1>1
  <1>5. /\ main' = main /\ app' = app /\ session' = session
        /\ worker.pc = "done" /\ worker'.pc = "exited" /\ worker'.n = worker.n
        /\ worker'.last = worker.last /\ worker'.result = worker.result
        /\ worker'.registered <=> worker.registered
    BY DEF PostDone, Running, WorkerType
  <1> QED BY <1>1, <1>3, <1>4, <1>5

\* The steps of the worker thread keep what is known about the window.
LEMMA WorkerKeepsWindow == AppInv /\ WindowInv /\ WorkerThread => WindowInv'
  <1> SUFFICES ASSUME AppInv, WindowInv, WorkerThread PROVE WindowInv'
    OBVIOUS
  <1> USE DEF WindowInv
  <1>0. /\ main \in {"start", "loop", "destroyed", "quit"} /\ app \in AppType
        /\ session \in SessionType /\ worker \in WorkerType /\ lost \in BOOLEAN
        /\ queue \in Seq(Message) /\ Len(queue) \in Nat
        /\ Alive => worker.n = session.n /\ main # "start" /\ (main = "loop" => app.worker)
    BY AppFacts
  <1>1. session.n \in 1 .. MaxSessions
    BY <1>0 DEF SessionType
  <1>2. CASE Register \/ Connect
    <2>1. /\ main' = main /\ app' = app /\ session' = session /\ queue' = queue /\ lost' = lost
          /\ worker.pc \in {"register", "connect"}
          /\ worker'.n = worker.n /\ worker'.last = worker.last
          /\ \/ worker'.pc \in {"connect", "loop"} /\ worker'.result = worker.result
             \/ /\ worker.pc = "register" /\ worker'.pc = "done" /\ worker'.result \in Before
                /\ worker'.registered <=> worker.registered
             \/ worker'.pc = "close" /\ worker'.result \in {"RELAY_ERROR", "STORAGE_ERROR"}
      BY <1>0, <1>2, SetupEffect
    <2>2. main # "start" /\ (main = "loop" => app.worker)
      BY <1>0, <2>1 DEF Alive
    <2>3. StageKnown' /\ SessionOpen'
      BY <2>1 DEF StageKnown, SessionOpen, Before
    <2>4. WindowFollows' /\ OutcomeKnown' /\ HandlesKnown'
      BY <2>1, <2>2 DEF WindowFollows, OutcomeKnown, HandlesKnown, Events
    <2> QED BY <2>3, <2>4
  <1>3. CASE LoopEvent
    <2>0. Alive
      BY <1>3 DEF LoopEvent, Running, Alive
    <2>1. /\ main' = main /\ app' = app /\ session' = session
          /\ worker.pc = "loop" /\ worker'.n = worker.n
          /\ worker'.last \in Event
          /\ \/ worker'.pc = "loop" /\ worker'.last \notin {"COMPLETE", "FAILED"}
                /\ worker'.result = worker.result
             \/ worker'.pc = "close" /\ worker'.last = "COMPLETE"
                /\ worker'.result = worker.result
             \/ worker'.pc = "close" /\ worker'.last = "FAILED" /\ worker'.result # "OK"
          /\ \/ lost'
             \/ /\ lost' = lost /\ Len(queue') = Len(queue) + 1
                /\ queue'[Len(queue) + 1].what = worker'.last
      BY <1>0, <1>1, <1>3, <2>0, EventEffect
    <2>2. main # "start" /\ (main = "loop" => app.worker)
      BY <1>0, <2>0
    <2>3. StageKnown' /\ SessionOpen'
      BY <2>1 DEF StageKnown, SessionOpen
    <2>4. WindowFollows'
      <3> SUFFICES ASSUME ~lost' PROVE WindowFollows'
        BY DEF WindowFollows
      <3>1. Events' = Len(queue) + 1 /\ Events' > 0 /\ Events' # 0
        BY <1>0, <2>1 DEF Events
      <3> QED BY <2>1, <3>1 DEF WindowFollows
    <2>5. OutcomeKnown' /\ HandlesKnown'
      BY <2>1, <2>2 DEF OutcomeKnown, HandlesKnown
    <2> QED BY <2>3, <2>4, <2>5
  <1>4. CASE CloseSession
    <2>1. /\ main' = main /\ app' = app /\ queue' = queue /\ lost' = lost
          /\ worker.pc = "close" /\ worker'.pc = "done" /\ worker'.n = worker.n
          /\ worker'.last = worker.last /\ worker'.result = worker.result
          /\ session.state # "INACTIVE" => ~session'.credentials
      BY <1>0, <1>4, CloseEffect
    <2>2. main # "start" /\ (main = "loop" => app.worker)
      BY <1>0, <2>1 DEF Alive
    <2>3. StageKnown' /\ SessionOpen'
      BY <2>1 DEF StageKnown, SessionOpen
    <2>4. WindowFollows' /\ OutcomeKnown' /\ HandlesKnown'
      BY <2>1, <2>2 DEF WindowFollows, OutcomeKnown, HandlesKnown, Events
    <2> QED BY <2>3, <2>4
  <1>5. CASE PostDone
    <2>0. Alive
      BY <1>5 DEF PostDone, Running, Alive
    <2>1. /\ main' = main /\ app' = app /\ session' = session
          /\ worker.pc = "done" /\ worker'.pc = "exited" /\ worker'.n = worker.n
          /\ worker'.last = worker.last /\ worker'.result = worker.result
          /\ worker'.registered <=> worker.registered
          /\ \/ lost'
             \/ /\ lost' = lost /\ Len(queue') = Len(queue) + 1
                /\ queue'[Len(queue) + 1].kind = "DONE"
                /\ queue'[Len(queue) + 1].what = worker.result
                /\ \A i \in 1 .. Len(queue) : queue'[i] = queue[i]
      BY <1>0, <1>1, <1>5, <2>0, DoneEffect
    <2>2. main # "start" /\ (main = "loop" => app.worker)
      BY <1>0, <2>0
    <2>3. StageKnown' /\ SessionOpen'
      BY <2>1 DEF StageKnown, SessionOpen
    <2>4. WindowFollows'
      <3> SUFFICES ASSUME ~lost', main = "loop", app.worker PROVE WindowFollows'
        BY <2>1 DEF WindowFollows
      <3>1. Events' = Len(queue) /\ Events = Len(queue) /\ queue' # <<>>
        BY <1>0, <2>1 DEF Events
      <3>2. Events > 0 => queue'[Events] = queue[Events]
        BY <1>0, <2>1, <3>1
      <3> QED BY <1>0, <2>1, <3>1, <3>2 DEF WindowFollows
    <2>5. OutcomeKnown' /\ HandlesKnown'
      BY <2>1, <2>2 DEF OutcomeKnown, HandlesKnown
    <2> QED BY <2>3, <2>4, <2>5
  <1> QED BY <1>2, <1>3, <1>4, <1>5 DEF WorkerThread

\* The first worker is started, or the window says that it could not be.
LEMMA StartEffect ==
  ASSUME app \in AppType, session \in SessionType, StartFirst
  PROVE  /\ main = "start" /\ main' = "loop"
         /\ session' = session /\ queue' = queue /\ lost' = lost
         /\ (app'.timer <=> app.timer) /\ (app'.qr_valid <=> app.qr_valid)
         /\ \/ /\ app'.worker /\ app'.state = app.state
               /\ worker'.pc = "register" /\ worker'.last = "NONE" /\ worker'.result = "OK"
               /\ ~worker'.registered
            \/ (app'.worker <=> app.worker) /\ app'.state = "FAILED" /\ worker' = worker
  <1>1. /\ main = "start" /\ main' = "loop"
        /\ session' = session /\ queue' = queue /\ lost' = lost
    BY DEF StartFirst
  <1>2. CASE app' = [app EXCEPT !.worker = TRUE] /\ worker' = NewWorker
    <2>1. /\ app'.worker /\ app'.state = app.state
          /\ (app'.timer <=> app.timer) /\ (app'.qr_valid <=> app.qr_valid)
      BY <1>2 DEF AppType
    <2>2. /\ worker'.pc = "register" /\ worker'.last = "NONE" /\ worker'.result = "OK"
          /\ ~worker'.registered
      BY <1>2 DEF NewWorker
    <2> QED BY <1>1, <2>1, <2>2
  <1>3. CASE app' = Failed(app) /\ worker' = worker
    <2>1. /\ app'.state = "FAILED" /\ (app'.worker <=> app.worker)
          /\ (app'.timer <=> app.timer) /\ (app'.qr_valid <=> app.qr_valid)
      BY <1>3 DEF AppType, Failed
    <2> QED BY <1>1, <1>3, <2>1
  <1> QED BY <1>2, <1>3 DEF StartFirst

\* The window handles an event.
LEMMA ShowEffect ==
  ASSUME app \in AppType, queue \in Seq(Message), RuntimeEvent
  PROVE  /\ main = "loop" /\ main' = "loop" /\ session' = session /\ worker' = worker
         /\ lost' = lost /\ (app'.worker <=> app.worker) /\ (app'.qr_valid <=> app.qr_valid)
         /\ (app'.timer <=> app.timer)
         /\ queue # <<>> /\ queue[1].kind = "EVENT" /\ queue[1].what \in Event
         /\ app'.state = Shown(queue[1].what)
         /\ Len(queue') = Len(queue) - 1
         /\ \A i \in 1 .. Len(queue) - 1 : queue'[i] = queue[i + 1]
  <1>1. /\ main = "loop" /\ main' = "loop" /\ session' = session /\ worker' = worker
        /\ lost' = lost /\ queue # <<>> /\ queue' = Tail(queue)
        /\ Head(queue).kind = "EVENT"
        /\ app' = [app EXCEPT !.state = Shown(Head(queue).what)]
    BY DEF RuntimeEvent, Dispatch
  <1>2. Head(queue) = queue[1] /\ queue[1] \in Message
        /\ Len(queue') = Len(queue) - 1
        /\ \A i \in 1 .. Len(queue) - 1 : queue'[i] = queue[i + 1]
    BY <1>1
  <1>3. queue[1].what \in Event
    BY <1>1, <1>2 DEF Message
  <1>4. /\ (app'.worker <=> app.worker) /\ (app'.qr_valid <=> app.qr_valid)
        /\ (app'.timer <=> app.timer) /\ app'.state = Shown(queue[1].what)
    BY <1>1, <1>2 DEF AppType
  <1> QED BY <1>1, <1>2, <1>3, <1>4

\* The window handles the worker's last message.
LEMMA EndedEffect ==
  ASSUME app \in AppType, queue \in Seq(Message), RuntimeDone
  PROVE  /\ main = "loop" /\ main' = "loop" /\ session' = session /\ worker' = worker
         /\ lost' = lost /\ queue # <<>> /\ queue[1].kind = "DONE"
         /\ ~app'.worker
         /\ \/ queue[1].what = "OK" /\ app'.timer /\ app'.state = app.state
            \/ queue[1].what = "OK" /\ (app'.timer <=> app.timer) /\ app'.state = "FAILED"
            \/ /\ queue[1].what # "OK" /\ (app'.timer <=> app.timer) /\ app'.state = "FAILED"
               /\ app'.runtime_result = queue[1].what
  <1>1. /\ main = "loop" /\ main' = "loop" /\ session' = session /\ worker' = worker
        /\ lost' = lost /\ queue # <<>> /\ Head(queue).kind = "DONE"
    BY DEF RuntimeDone, Dispatch
  <1>2. Head(queue) = queue[1] /\ queue[1] \in Message
    BY <1>1
  <1>3. /\ ~app'.worker
        /\ \/ Head(queue).what = "OK" /\ app'.timer /\ app'.state = app.state
           \/ Head(queue).what = "OK" /\ (app'.timer <=> app.timer) /\ app'.state = "FAILED"
           \/ /\ Head(queue).what # "OK" /\ (app'.timer <=> app.timer) /\ app'.state = "FAILED"
              /\ app'.runtime_result = Head(queue).what
    BY DEF RuntimeDone, Failed, AppType
  <1> QED BY <1>1, <1>2, <1>3

\* The timer starts the next session, or the window says that there is none.
LEMMA TimerEffect ==
  ASSUME app \in AppType, session \in SessionType, Timer
  PROVE  /\ main = "loop" /\ main' = "loop" /\ app.timer /\ ~app'.timer /\ queue' = queue
         /\ \/ /\ ~app.worker /\ app'.worker /\ app'.qr_valid /\ app'.state = "CONNECTING"
               /\ session'.state = "WAITING"
               /\ worker'.pc = "register" /\ worker'.last = "NONE" /\ worker'.result = "OK"
               /\ ~worker'.registered
            \/ /\ app'.state = "FAILED" /\ (app'.worker <=> app.worker)
               /\ app.worker => session' = session /\ (app'.qr_valid <=> app.qr_valid)
               /\ session' = session \/ ~session'.credentials
               /\ worker' = worker /\ lost' = lost
  <1> DEFINE fired == [app EXCEPT !.timer = FALSE]
             blank == [fired EXCEPT !.qr_valid = FALSE]
             next == NewSession(session.n + 1)
  <1>1. main = "loop" /\ main' = "loop" /\ queue' = queue /\ app.timer
    BY DEF Timer
  <1>2. /\ fired \in AppType /\ (fired.worker <=> app.worker) /\ ~fired.timer
        /\ (fired.qr_valid <=> app.qr_valid)
    BY DEF AppType
  <1>3. blank \in AppType /\ (blank.worker <=> app.worker) /\ ~blank.timer
    BY DEF AppType
  <1>4. /\ next.state = "WAITING" /\ ~Closed(next).credentials
        /\ ~[Closed(next) EXCEPT !.state = "INACTIVE"].credentials
    BY DEF NewSession, Closed
  <1>5. \A a \in AppType :
           /\ Failed(a).state = "FAILED" /\ (Failed(a).worker <=> a.worker)
           /\ (Failed(a).timer <=> a.timer) /\ (Failed(a).qr_valid <=> a.qr_valid)
    BY DEF Failed, AppType
  <1>6. \A a \in AppType : LET p == [Prepared(a) EXCEPT !.worker = TRUE]
                           IN  /\ p.worker /\ p.qr_valid /\ p.state = "CONNECTING"
                               /\ (p.timer <=> a.timer)
    BY DEF Prepared, AppType
  <1>7. LET w == [NewWorker EXCEPT !.n = next.n]
        IN  /\ w.pc = "register" /\ w.last = "NONE" /\ w.result = "OK"
            /\ ~w.registered
    BY DEF NewWorker
  <1>8. \/ /\ ~app.worker
           /\ app' = [Prepared(fired) EXCEPT !.worker = TRUE]
           /\ session' = next
           /\ worker' = [NewWorker EXCEPT !.n = next.n]
        \/ /\ worker' = worker /\ lost' = lost
           /\ app' = Failed(IF app.worker THEN fired ELSE blank)
           /\ \/ session' = session
              \/ /\ ~app.worker
                 /\ session' \in {Closed(next),
                                  [Closed(next) EXCEPT !.state = "INACTIVE"]}
        \/ /\ ~app.worker /\ worker' = worker /\ lost' = lost
           /\ app' = Failed(blank)
           /\ session' = Closed(next)
    BY Zenon DEF Timer
  <1> HIDE DEF fired, blank, next
  <1>9. CASE /\ ~app.worker
             /\ app' = [Prepared(fired) EXCEPT !.worker = TRUE]
             /\ session' = next
             /\ worker' = [NewWorker EXCEPT !.n = next.n]
    <2>1. app'.worker /\ app'.qr_valid /\ app'.state = "CONNECTING" /\ ~app'.timer
      BY <1>2, <1>6, <1>9
    <2>2. /\ worker'.pc = "register" /\ worker'.last = "NONE" /\ worker'.result = "OK"
          /\ ~worker'.registered
      BY <1>7, <1>9
    <2> QED BY <1>1, <1>4, <1>9, <2>1, <2>2
  <1>10. ASSUME NEW a \in {fired, blank}, app' = Failed(a), app.worker => a = fired,
                session' = session \/ (~app.worker /\ ~session'.credentials),
                worker' = worker, lost' = lost
         PROVE  /\ ~app'.timer
                /\ app'.state = "FAILED" /\ (app'.worker <=> app.worker)
                /\ app.worker => session' = session /\ (app'.qr_valid <=> app.qr_valid)
                /\ session' = session \/ ~session'.credentials
    BY <1>2, <1>3, <1>5, <1>10
  <1>11. CASE /\ worker' = worker /\ lost' = lost
              /\ app' = Failed(IF app.worker THEN fired ELSE blank)
              /\ \/ session' = session
                 \/ /\ ~app.worker
                    /\ session' \in {Closed(next),
                                     [Closed(next) EXCEPT !.state = "INACTIVE"]}
    <2>1. session' = session \/ (~app.worker /\ ~session'.credentials)
      BY <1>4, <1>11
    <2> QED BY <1>1, <1>10, <1>11, <2>1
  <1>12. CASE /\ ~app.worker /\ worker' = worker /\ lost' = lost
              /\ app' = Failed(blank)
              /\ session' = Closed(next)
    BY <1>1, <1>4, <1>10, <1>12
  <1> QED BY <1>8, <1>9, <1>11, <1>12

\* The steps of the window thread keep what is known about it.
LEMMA WindowKeepsWindow == AppInv /\ WindowInv /\ WindowThread => WindowInv'
  <1> SUFFICES ASSUME AppInv, WindowInv, WindowThread PROVE WindowInv'
    OBVIOUS
  <1> USE DEF WindowInv
  <1>0. /\ main \in {"start", "loop", "destroyed", "quit"} /\ app \in AppType
        /\ session \in SessionType /\ worker \in WorkerType /\ lost \in BOOLEAN
        /\ queue \in Seq(Message) /\ Len(queue) \in Nat
        /\ Alive => worker.n = session.n /\ main # "start" /\ (main = "loop" => app.worker)
        /\ main = "loop" /\ queue # <<>> => app.worker
        /\ \A i \in DOMAIN queue : queue[i].kind = "DONE" => i = Len(queue) /\ ~Alive
        /\ main = "start" => worker.pc = "none"
    BY AppFacts
  <1>1. CASE StartFirst
    <2>1. /\ main = "start" /\ main' = "loop"
          /\ session' = session /\ queue' = queue /\ lost' = lost
          /\ (app'.timer <=> app.timer) /\ (app'.qr_valid <=> app.qr_valid)
          /\ \/ /\ app'.worker /\ app'.state = app.state
                /\ worker'.pc = "register" /\ worker'.last = "NONE" /\ worker'.result = "OK"
                /\ ~worker'.registered
             \/ (app'.worker <=> app.worker) /\ app'.state = "FAILED" /\ worker' = worker
      BY <1>0, <1>1, StartEffect
    <2>2. StageKnown' /\ SessionOpen'
      BY <1>0, <2>1 DEF StageKnown, SessionOpen, HandlesKnown
    <2>3. queue = <<>> /\ queue' = <<>>
      BY <2>1 DEF AppInv, DoneIsLast
    <2>4. WindowFollows'
      <3>1. worker'.pc = "register" => Events' = 0
        BY <2>3 DEF Events
      <3> QED BY <2>1, <3>1 DEF WindowFollows, HandlesKnown, StateOf
    <2>5. OutcomeKnown' /\ HandlesKnown'
      BY <1>0, <2>1 DEF OutcomeKnown, HandlesKnown
    <2> QED BY <2>2, <2>4, <2>5
  <1>2. CASE RuntimeEvent
    <2>1. /\ main = "loop" /\ main' = "loop" /\ session' = session /\ worker' = worker
          /\ lost' = lost /\ (app'.worker <=> app.worker) /\ (app'.qr_valid <=> app.qr_valid)
          /\ (app'.timer <=> app.timer)
          /\ queue # <<>> /\ queue[1].kind = "EVENT" /\ queue[1].what \in Event
          /\ app'.state = Shown(queue[1].what)
          /\ Len(queue') = Len(queue) - 1
          /\ \A i \in 1 .. Len(queue) - 1 : queue'[i] = queue[i + 1]
      BY <1>0, <1>2, ShowEffect
    <2>2. StageKnown' /\ SessionOpen'
      BY <2>1 DEF StageKnown, SessionOpen
    <2>3. app.worker
      BY <1>0, <2>1
    <2>4. HandlesKnown' /\ OutcomeKnown'
      BY <2>1, <2>3 DEF HandlesKnown, OutcomeKnown
    <2>5. WindowFollows'
      <3> SUFFICES ASSUME ~lost PROVE WindowFollows'
        BY <2>1 DEF WindowFollows
      <3>1. /\ worker.pc # "none"
            /\ worker.pc = "exited" => queue[Len(queue)].kind = "DONE"
                                       /\ queue[Len(queue)].what = worker.result
            /\ Events > 0 => queue[Events].what = worker.last
        BY <2>1, <2>3 DEF WindowFollows
      <3>2. Len(queue) >= 1 /\ (worker.pc = "exited" => Len(queue) >= 2)
        BY <1>0, <2>1, <3>1
      <3>3. Events \in Nat \ {0} /\ Events' = Events - 1 /\ Events <= Len(queue)
        BY <1>0, <2>1, <3>2 DEF Events
      <3>4. worker.pc = "exited" => /\ queue' # <<>> /\ queue'[Len(queue')].kind = "DONE"
                                    /\ queue'[Len(queue')].what = worker.result
        <4> SUFFICES ASSUME worker.pc = "exited"
                     PROVE  /\ queue' # <<>> /\ queue'[Len(queue')].kind = "DONE"
                            /\ queue'[Len(queue')].what = worker.result
          OBVIOUS
        <4>1. Len(queue') \in 1 .. Len(queue) - 1 /\ Len(queue') + 1 = Len(queue)
          BY <1>0, <2>1, <3>2
        <4> QED BY <2>1, <3>1, <4>1
      <3>5. Events' = 0 => app'.state = StateOf(worker.last)
        BY <2>1, <3>1, <3>3 DEF StateOf, Event
      <3>6. Events' > 0 => queue'[Events'].what = worker.last
        BY <1>0, <2>1, <3>1, <3>3
      <3> QED BY <2>1, <3>1, <3>4, <3>5, <3>6 DEF WindowFollows
    <2> QED BY <2>2, <2>4, <2>5
  <1>3. CASE RuntimeDone
    <2>1. /\ main = "loop" /\ main' = "loop" /\ session' = session /\ worker' = worker
          /\ lost' = lost /\ queue # <<>> /\ queue[1].kind = "DONE"
          /\ ~app'.worker
          /\ \/ queue[1].what = "OK" /\ app'.timer /\ app'.state = app.state
             \/ queue[1].what = "OK" /\ (app'.timer <=> app.timer) /\ app'.state = "FAILED"
             \/ /\ queue[1].what # "OK" /\ (app'.timer <=> app.timer) /\ app'.state = "FAILED"
                /\ app'.runtime_result = queue[1].what
      BY <1>0, <1>3, EndedEffect
    <2>2. StageKnown' /\ SessionOpen'
      BY <2>1 DEF StageKnown, SessionOpen
    <2>3. app.worker /\ ~app.timer
      BY <1>0, <2>1 DEF HandlesKnown
    <2>4. HandlesKnown' /\ WindowFollows'
      BY <2>1 DEF HandlesKnown, WindowFollows
    <2>5. OutcomeKnown'
      <3> SUFFICES ASSUME ~lost PROVE OutcomeKnown'
        BY <2>1 DEF OutcomeKnown
      <3>1. 1 \in DOMAIN queue
        BY <1>0, <2>1
      <3>2. Len(queue) = 1 /\ ~Alive
        BY <1>0, <2>1, <3>1
      <3>3. /\ worker.pc = "exited" /\ Events = 0
            /\ queue[1].what = worker.result /\ app.state = StateOf(worker.last)
        BY <2>1, <2>3, <3>2 DEF WindowFollows, Alive, Events
      <3>4. worker.result = "OK" => app.state = "COMPLETE"
        BY <3>3 DEF StageKnown, StateOf, Shown
      <3> QED BY <2>1, <2>3, <3>3, <3>4 DEF OutcomeKnown
    <2> QED BY <2>2, <2>4, <2>5
  <1>4. CASE Timer
    <2>1. /\ main = "loop" /\ main' = "loop" /\ app.timer /\ ~app'.timer /\ queue' = queue
          /\ \/ /\ ~app.worker /\ app'.worker /\ app'.qr_valid /\ app'.state = "CONNECTING"
                /\ session'.state = "WAITING"
                /\ worker'.pc = "register" /\ worker'.last = "NONE" /\ worker'.result = "OK"
                /\ ~worker'.registered
             \/ /\ app'.state = "FAILED" /\ (app'.worker <=> app.worker)
                /\ app.worker => session' = session /\ (app'.qr_valid <=> app.qr_valid)
                /\ session' = session \/ ~session'.credentials
                /\ worker' = worker /\ lost' = lost
      BY <1>0, <1>4, TimerEffect
    <2>2. ~app.worker /\ queue = <<>> /\ ~Alive
      BY <1>0, <2>1 DEF HandlesKnown
    <2>3. StageKnown' /\ SessionOpen'
      BY <2>1, <2>2 DEF StageKnown, SessionOpen, Alive
    <2>4. WindowFollows'
      <3>1. worker'.pc = "register" => Events' = 0
        BY <2>1, <2>2 DEF Events
      <3> QED BY <2>1, <2>2, <3>1 DEF WindowFollows, StateOf
    <2>5. OutcomeKnown' /\ HandlesKnown'
      BY <2>1, <2>2 DEF OutcomeKnown, HandlesKnown
    <2> QED BY <2>3, <2>4, <2>5
  <1> QED BY <1>1, <1>2, <1>3, <1>4 DEF WindowThread

\* What is known about the window holds from the start on.
LEMMA InitWindow == Init => WindowInv
  <1> SUFFICES ASSUME Init PROVE WindowInv
    OBVIOUS
  <1>1. /\ main = "start" /\ worker.pc = "none" /\ worker.result = "OK"
        /\ ~app.timer /\ ~app.worker /\ app.state = "CONNECTING" /\ app.qr_valid
        /\ session.state = "WAITING"
    BY DEF Init, Prepared, NewSession, NoWorker
  <1> QED BY <1>1 DEF WindowInv, StageKnown, SessionOpen, WindowFollows, OutcomeKnown,
                      HandlesKnown

\* Every step keeps it.
LEMMA NextWindow == AppInv /\ WindowInv /\ [Next]_vars => WindowInv'
  <1> SUFFICES ASSUME AppInv, WindowInv, [Next]_vars PROVE WindowInv'
    OBVIOUS
  <1>1. CASE UNCHANGED vars
    BY <1>1 DEF vars, WindowInv, StageKnown, SessionOpen, WindowFollows, OutcomeKnown,
                HandlesKnown, Events
  <1>2. CASE Destroy \/ Quit
    <2>1. /\ main' \notin {"start", "loop"} /\ session' = session /\ worker' = worker
          /\ app'.timer => app.timer /\ ~app.worker /\ ~app'.worker
          /\ app'.worker => app.worker /\ (app'.qr_valid <=> app.qr_valid)
      BY <1>2, AppFacts DEF Destroy, Quit, AppType, WindowInv, HandlesKnown
    <2> QED BY <2>1 DEF WindowInv, StageKnown, SessionOpen, WindowFollows, OutcomeKnown,
                        HandlesKnown
  <1> QED BY <1>1, <1>2, WorkerKeepsWindow, WindowKeepsWindow DEF Next

\* The window follows its worker, and the worker its session, in every reachable state.
THEOREM WindowInvariant == Spec => [](AppInv /\ WindowInv)
  BY InitInv, NextInv, InitWindow, NextWindow, PTL DEF Spec

\* A worker that has registered its session has wiped the credentials when it is done,
\* also when the relay client, the handler or the loop failed (cleanup_session of
\* pd_win32_receiver_run_session).
THEOREM CredentialsAreWiped == Spec => []CredentialsWiped
  <1>1. AppInv /\ WindowInv => CredentialsWiped
    BY DEF WindowInv, SessionOpen, CredentialsWiped
  <1> QED BY <1>1, WindowInvariant, PTL

\* A window that has handled every message and says READY has a worker in the
\* receiver loop for the session of its QR code.
THEOREM ReadyIsListening == Spec => []ReadyMeansListening
  <1>1. AppInv /\ WindowInv => ReadyMeansListening
    <2> SUFFICES ASSUME AppInv, WindowInv, CaughtUp, app.state = "READY"
                 PROVE  /\ app.qr_valid /\ session.state = "WAITING"
                        /\ worker.pc = "loop" /\ worker.n = session.n
      BY DEF ReadyMeansListening
    <2>0. /\ worker \in WorkerType
          /\ Alive => worker.n = session.n
      BY AppFacts
    <2>1. app.worker
      BY DEF WindowInv, OutcomeKnown, CaughtUp
    <2>2. /\ worker.pc \notin {"none", "exited"} /\ app.state = StateOf(worker.last)
      BY <2>1 DEF WindowInv, WindowFollows, CaughtUp, Events
    <2>3. worker.last = "READY"
      BY <2>0, <2>2 DEF StateOf, Shown, WorkerType, Event
    <2>4. worker.pc = "loop"
      BY <2>0, <2>2, <2>3 DEF WindowInv, StageKnown, WorkerType
    <2> QED BY <2>0, <2>1, <2>4 DEF WindowInv, HandlesKnown, SessionOpen, Alive
  <1> QED BY <1>1, WindowInvariant, PTL

\* A window that has handled every message of a worker that exited shows how the
\* session ended (PD_WM_RUNTIME_DONE).
THEOREM OutcomeIsShown == Spec => []OutcomeShown
  <1>1. AppInv /\ WindowInv => OutcomeShown
    BY DEF WindowInv, OutcomeKnown, WindowFollows, OutcomeShown, CaughtUp
  <1> QED BY <1>1, WindowInvariant, PTL
=============================================================================
