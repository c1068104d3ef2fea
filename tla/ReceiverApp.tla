----------------------------- MODULE ReceiverApp -----------------------------
(***************************************************************************)
(* win32_main.c, win32_receiver_runtime.c and receiver_session.c: the      *)
(* window, the worker thread that runs a session, and the session they     *)
(* share without a lock.                                                   *)
(*                                                                         *)
(* The worker tells the window what happens by posting messages; the       *)
(* window thread handles them in order.  What happens inside the receiver  *)
(* loop is ReceivePipeline: here it is the order of its events.  Drawing,  *)
(* byte counts and the texts of the window are left out.                   *)
(***************************************************************************)
EXTENDS Naturals, Sequences, LoopEvents

CONSTANTS
    Faults,        \* the calls that may fail
    MaxSessions,   \* bound on the sessions the window prepares
    MaxQueue       \* bound on the messages under way, for PROGRESS events

AppFaults == {"prepare", "thread", "url", "curl", "register", "connect", "handler", "post",
              "timer"}

ASSUME AppAssumption == /\ Faults \subseteq AppFaults
                        /\ MaxSessions \in Nat \ {0} /\ MaxQueue \in Nat

VARIABLES
    main,      \* the window thread: "start", "loop" (its message loop) or "quit"
    app,       \* pd_app: state, runtime_result, qr_valid, worker, the pending timer
    session,   \* app.session: its number, its state, whether it has credentials
    worker,    \* the worker thread: pc, the session it was started for, the last
               \* event of the loop, the result of pd_win32_receiver_run_session and
               \* (history) whether it has registered the session with the relay
    queue,     \* the messages posted to the window
    lost       \* history: a message of this worker could not be posted

vars == <<main, app, session, worker, queue, lost>>

MayFail(call) == call \in Faults

NewSession(n) == [n |-> n, state |-> "WAITING", credentials |-> TRUE]

Closed(s) == [s EXCEPT !.state = "CLOSED", !.credentials = FALSE]

\* Mutated form: the window invites to scan before the worker listens.
PreparedReady(a) == [a EXCEPT !.state = "READY", !.runtime_result = "OK",
                              !.qr_valid = TRUE]

\* What pd_prepare_session leaves in pd_app when it succeeds.
Prepared(a) == [a EXCEPT !.state = "CONNECTING", !.runtime_result = "OK",
                         !.qr_valid = TRUE]

NoWorker == [pc |-> "none", n |-> 0, last |-> "NONE", result |-> "OK", registered |-> FALSE]
NewWorker == [pc |-> "register", n |-> session.n, last |-> "NONE", result |-> "OK",
              registered |-> FALSE]

\* wWinMain has prepared the first session and created the window.
Init == /\ main = "start"
        /\ app = Prepared([state |-> "CONNECTING", runtime_result |-> "OK",
                           qr_valid |-> FALSE, worker |-> FALSE, timer |-> FALSE])
        /\ session = NewSession(1)
        /\ worker = NoWorker
        /\ queue = <<>> /\ lost = FALSE

Failed(a) == [a EXCEPT !.state = "FAILED", !.runtime_result = "RELAY_ERROR"]

\* pd_start_receiver, called by wWinMain.  The session stays open if the thread
\* cannot be created.
StartFirst ==
    /\ main = "start" /\ main' = "loop"
    /\ \/ app' = [app EXCEPT !.worker = TRUE] /\ worker' = NewWorker
       \/ MayFail("thread") /\ app' = Failed(app) /\ UNCHANGED worker
    /\ UNCHANGED <<session, queue, lost>>

-----------------------------------------------------------------------------
\* pd_win32_receiver_run_session, in the worker thread.

Running(pc) == worker.pc = pc /\ main # "quit"

\* Returns that leave the session as it is: there is no relay client yet.
NotRegistered(call, result) ==
    MayFail(call) /\ worker' = [worker EXCEPT !.pc = "done", !.result = result]

Register ==
    /\ Running("register")
    /\ \/ worker' = [worker EXCEPT !.pc = "connect", !.registered = TRUE]
       \/ NotRegistered("url", "ENDPOINT_ERROR")
       \/ NotRegistered("curl", "RELAY_ERROR")
       \/ NotRegistered("register", "REGISTRATION_ERROR")
    /\ UNCHANGED <<main, app, session, queue, lost>>

\* Mutated form: a relay client that fails returns past cleanup_session.
ConnectSkipsClose ==
    /\ Running("connect")
    /\ \/ worker' = [worker EXCEPT !.pc = "loop"]
       \/ /\ MayFail("connect")
          /\ worker' = [worker EXCEPT !.pc = "done", !.result = "RELAY_ERROR"]
       \/ /\ MayFail("handler")
          /\ worker' = [worker EXCEPT !.pc = "close", !.result = "STORAGE_ERROR"]
    /\ UNCHANGED <<main, app, session, queue, lost>>

\* Relay client, receive handler and protocol.  Where one of them fails the session is
\* closed all the same (cleanup_session).
Connect ==
    /\ Running("connect")
    /\ \/ worker' = [worker EXCEPT !.pc = "loop"]
       \/ /\ MayFail("connect")
          /\ worker' = [worker EXCEPT !.pc = "close", !.result = "RELAY_ERROR"]
       \/ /\ MayFail("handler")
          /\ worker' = [worker EXCEPT !.pc = "close", !.result = "STORAGE_ERROR"]
    /\ UNCHANGED <<main, app, session, queue, lost>>

\* PostMessageW.  A message that cannot be posted, or allocated, is dropped.
Post(m) == \/ main = "loop" /\ queue' = Append(queue, m) /\ UNCHANGED lost
           \/ (main # "loop" \/ MayFail("post")) /\ lost' = TRUE /\ UNCHANGED queue

\* pd_receiver_loop_run reports an event; COMPLETE and FAILED are its last.
LoopEvent ==
    /\ Running("loop")
    /\ \E e \in EventAfter(worker.last) :
          /\ e = "PROGRESS" => Len(queue) < MaxQueue
          /\ Post([kind |-> "EVENT", n |-> worker.n, what |-> e])
          /\ \/ e = "COMPLETE" /\ worker' = [worker EXCEPT !.pc = "close", !.last = e]
             \/ /\ e = "FAILED"
                /\ \E r \in {"RELAY_ERROR", "PROTOCOL_ERROR"} :
                      worker' = [worker EXCEPT !.pc = "close", !.last = e, !.result = r]
             \/ e \notin {"COMPLETE", "FAILED"} /\ worker' = [worker EXCEPT !.last = e]
    /\ UNCHANGED <<main, app, session>>

\* pd_receiver_session_close, in the worker thread.
CloseSession ==
    /\ Running("close")
    /\ session' = IF session.state = "INACTIVE" THEN session ELSE Closed(session)
    /\ worker' = [worker EXCEPT !.pc = "done"]
    /\ UNCHANGED <<main, app, queue, lost>>

\* Mutated form: DONE is posted when the session is closed and again at the end.
PostDoneTwice ==
    /\ Running("done") /\ main = "loop"
    /\ LET m == [kind |-> "DONE", n |-> worker.n, what |-> worker.result]
       IN  queue' = queue \o <<m, m>>
    /\ worker' = [worker EXCEPT !.pc = "exited"]
    /\ UNCHANGED <<main, app, session, lost>>

\* The last thing pd_receiver_worker does.
PostDone ==
    /\ Running("done")
    /\ Post([kind |-> "DONE", n |-> worker.n, what |-> worker.result])
    /\ worker' = [worker EXCEPT !.pc = "exited"]
    /\ UNCHANGED <<main, app, session>>

-----------------------------------------------------------------------------
\* pd_window_proc, in the window thread.

Shown(e) == CASE e = "READY" -> "READY"
              [] e \in {"FILE_STARTED", "PROGRESS"} -> "RECEIVING"
              [] OTHER -> e

Dispatch(kind) == main = "loop" /\ queue # <<>> /\ Head(queue).kind = kind
                  /\ queue' = Tail(queue)

\* Mutated form: the next session is due as soon as the file is complete.
RuntimeEventRotates ==
    /\ Dispatch("EVENT")
    /\ app' = IF Head(queue).what = "COMPLETE"
              THEN [app EXCEPT !.state = "COMPLETE", !.worker = FALSE, !.timer = TRUE]
              ELSE [app EXCEPT !.state = Shown(Head(queue).what)]
    /\ UNCHANGED <<main, session, worker, lost>>

RuntimeEvent ==
    /\ Dispatch("EVENT")
    /\ app' = [app EXCEPT !.state = Shown(Head(queue).what)]
    /\ UNCHANGED <<main, session, worker, lost>>

\* Mutated form: the window goes on showing the last event.
RuntimeDoneSilently ==
    /\ Dispatch("DONE")
    /\ app' = [app EXCEPT !.worker = FALSE, !.runtime_result = Head(queue).what,
                          !.timer = (Head(queue).what = "OK")]
    /\ UNCHANGED <<main, session, worker, lost>>

\* PD_WM_RUNTIME_DONE: the handle is closed; after a delivered file a timer is set.
RuntimeDone ==
    /\ Dispatch("DONE")
    /\ LET r == Head(queue).what
           idle == [app EXCEPT !.worker = FALSE, !.runtime_result = r]
       IN  IF r = "OK"
           THEN \/ app' = [idle EXCEPT !.timer = TRUE]
                \/ MayFail("timer") /\ app' = Failed(idle)
           ELSE app' = [idle EXCEPT !.state = "FAILED"]
    /\ UNCHANGED <<main, session, worker, lost>>

\* Mutated form: WM_TIMER is left to DefWindowProcW.
TimerIgnored == main = "loop" /\ app.timer /\ UNCHANGED vars

\* WM_TIMER: pd_start_next_session.  pd_prepare_session may fail before it touches
\* the session, in creating it, or after that; then the thread may fail to start.
Timer ==
    /\ main = "loop" /\ app.timer
    /\ session.n < MaxSessions
    /\ LET fired == [app EXCEPT !.timer = FALSE]
           blank == [fired EXCEPT !.qr_valid = FALSE]
           next == NewSession(session.n + 1)
       IN  \/ /\ ~app.worker
              /\ app' = [Prepared(fired) EXCEPT !.worker = TRUE]
              /\ session' = next
              /\ worker' = [NewWorker EXCEPT !.n = next.n] /\ lost' = FALSE
           \/ /\ app.worker \/ MayFail("prepare")
              /\ app' = Failed(IF app.worker THEN fired ELSE blank)
              /\ \/ UNCHANGED session
                 \/ /\ ~app.worker
                    /\ session' \in {Closed(next),
                                     [Closed(next) EXCEPT !.state = "INACTIVE"]}
              /\ UNCHANGED <<worker, lost>>
           \/ /\ ~app.worker /\ MayFail("thread")
              /\ app' = Failed(blank)
              /\ session' = Closed(next) /\ UNCHANGED <<worker, lost>>
    /\ UNCHANGED <<main, queue>>

\* WM_DESTROY: the worker thread is not waited for.  Messages to a destroyed window
\* are discarded.
Destroy ==
    /\ main = "loop" /\ main' = "destroyed"
    /\ app' = [app EXCEPT !.timer = FALSE, !.worker = FALSE]
    /\ queue' = <<>>
    /\ UNCHANGED <<session, worker, lost>>

\* The message loop sees WM_QUIT, wWinMain returns and the process ends.
Quit == /\ main = "destroyed" /\ main' = "quit"
        /\ UNCHANGED <<app, session, worker, queue, lost>>

-----------------------------------------------------------------------------
WorkerThread == Register \/ Connect \/ LoopEvent \/ CloseSession \/ PostDone
WindowThread == StartFirst \/ RuntimeEvent \/ RuntimeDone \/ Timer

Next == WorkerThread \/ WindowThread \/ Destroy \/ Quit

Spec == Init /\ [][Next]_vars

\* Both threads run.  Nothing makes the loop receive a frame, but once it has
\* returned the worker comes to its end.
FairSpec == Spec /\ WF_vars(WindowThread) /\ WF_vars(CloseSession) /\ WF_vars(PostDone)

-----------------------------------------------------------------------------
\* Properties.

RuntimeResult == {"OK", "ENDPOINT_ERROR", "REGISTRATION_ERROR", "RELAY_ERROR",
                  "STORAGE_ERROR", "PROTOCOL_ERROR"}

AppType == [state : {"CONNECTING", "READY", "RECEIVING", "VERIFYING", "COMPLETE", "FAILED"},
            runtime_result : RuntimeResult, qr_valid : BOOLEAN, worker : BOOLEAN,
            timer : BOOLEAN]
SessionType == [n : 1 .. MaxSessions, state : {"INACTIVE", "WAITING", "CLOSED"},
                credentials : BOOLEAN]
WorkerType == [pc : {"none", "register", "connect", "loop", "close", "done", "exited"},
               n : 0 .. MaxSessions, last : Event \cup {"NONE"}, result : RuntimeResult,
               registered : BOOLEAN]
Message == [kind : {"EVENT"}, n : 1 .. MaxSessions, what : Event]
           \cup [kind : {"DONE"}, n : 1 .. MaxSessions, what : RuntimeResult]

\* Every variable has the values the code's types allow it.
TypeOK == /\ main \in {"start", "loop", "destroyed", "quit"}
          /\ app \in AppType
          /\ session \in SessionType
          /\ worker \in WorkerType
          /\ queue \in Seq(Message)
          /\ lost \in BOOLEAN

Alive == worker.pc \notin {"none", "exited"}

\* The window never writes to the session while a worker thread uses it, and never
\* starts a second one: the handle that guards pd_start_next_session is given up
\* only after the worker's last access.
SessionNotShared == Alive => session.n = worker.n /\ (main = "loop" => app.worker)

\* No message of a finished session is left when the next one starts, so none can
\* be taken for news of the next (DONE is posted after every event).
NoStaleMessage == \A i \in DOMAIN queue : queue[i].n = session.n

\* What makes the two inductive: the worker's DONE is its last message, and while the
\* window has no worker it has no message to handle.
DoneIsLast ==
    /\ main # "loop" => queue = <<>>
    /\ main = "start" => worker.pc = "none"
    /\ main = "loop" /\ ~app.worker => queue = <<>>
    /\ \A i \in DOMAIN queue : queue[i].kind = "DONE" => i = Len(queue) /\ ~Alive

AppInv == TypeOK /\ SessionNotShared /\ NoStaleMessage /\ DoneIsLast

\* Once a worker that registered its session is done, the credentials of the session
\* are wiped, however the worker ended: a relay client, a receive handler or a loop that
\* fails goes through cleanup_session.  Only a session the relay was never told of keeps
\* them (the URL, curl or the registration failed).
CredentialsWiped ==
    worker.pc \in {"done", "exited"} /\ worker.n = session.n /\ worker.registered =>
        ~session.credentials

\* The window has handled everything, and nothing was dropped on the way.
CaughtUp == main = "loop" /\ queue = <<>> /\ ~lost

\* A window that has caught up and invites to scan its code has a worker that
\* listens for just this session.
ReadyMeansListening ==
    CaughtUp /\ app.state = "READY" =>
        /\ app.qr_valid /\ session.state = "WAITING"
        /\ worker.pc = "loop" /\ worker.n = session.n

\* The last state the window shows for a session is how the session ended.
OutcomeShown ==
    CaughtUp /\ worker.pc = "exited" =>
        /\ worker.result # "OK" => app.state = "FAILED" /\ app.runtime_result = worker.result
        /\ worker.result = "OK" => \/ app.state = "COMPLETE" /\ app.timer
                                   \/ app.state = "FAILED"

\* README.md:27, "automatic session rotation after a completed transfer": a
\* delivered file is followed by a new session, or by a window that says it failed
\* (unless a message to the window could not be posted: nothing is done about that).
Rotates ==
    \A n \in 1 .. MaxSessions - 1 :
        (worker.n = n /\ worker.last = "COMPLETE") ~>
            (session.n > n \/ lost \/ app.state = "FAILED" \/ main \in {"destroyed", "quit"})
=============================================================================
