------------------------------ MODULE WSClient ------------------------------
(***************************************************************************)
(* WSClient: one application thread (`app') and the threads it starts to   *)
(* run the io_context.  What connects them is the atomic m_isRunning, the  *)
(* thread handle m_ioThread, the io_context's stopped flag, and a weak_ptr *)
(* to the session.  A session is reduced to whether it is alive, that is,  *)
(* whether it has work in the io_context; WSSession has its inside.        *)
(*                                                                         *)
(* The io_context is external: run() serves handlers while there is work   *)
(* and it is not stopped; when the work runs out it stops the context.     *)
(***************************************************************************)
EXTENDS Naturals

CONSTANTS
    Threads,          \* identities of operating-system threads
    NoThread,         \* the value of a thread handle that is not joinable
    HandlersThrow     \* TRUE: a handler may let an exception out

ASSUME ThreadAssumption == NoThread \notin Threads
ASSUME ThrowAssumption == HandlersThrow \in BOOLEAN

VARIABLES
    m_isRunning,      \* the atomic flag
    m_ioThread,       \* the joinable thread, or NoThread
    stopped,          \* io_context::stopped()
    session,          \* "live": m_session can be locked; or "expired"
    thread,           \* where each io thread stands
    app               \* where the application thread stands

vars == <<m_isRunning, m_ioThread, stopped, session, thread, app>>

ThreadPc == {"none",       \* not started, or joined
             "begin",      \* before m_isRunning = true
             "check",      \* before stopped() / restart()
             "run",        \* in io_context::run()
             "returned",   \* before m_isRunning = false in the loop
             "broke",      \* before m_isRunning = false after the loop
             "finished"}

AppPc == {"idle", "check", "set", "join", "spawn", "dtorJoin", "destroyed"}

TypeOK ==
    /\ m_isRunning \in BOOLEAN
    /\ m_ioThread \in Threads \cup {NoThread}
    /\ stopped \in BOOLEAN
    /\ session \in {"live", "expired"}
    /\ thread \in [Threads -> ThreadPc]
    /\ app \in AppPc

Init ==
    /\ m_isRunning = FALSE
    /\ m_ioThread = NoThread
    /\ stopped = FALSE
    /\ session = "expired"
    /\ thread = [t \in Threads |-> "none"]
    /\ app = "idle"

Joinable == m_ioThread # NoThread

AppGoes(from, to) == app = from /\ app' = to

-----------------------------------------------------------------------------
(* The application thread.                                                 *)

\* subscribe() with a live session only hands the request to it.  Otherwise it
\* makes a session, which starts to resolve the host, and calls run().
Subscribe ==
    /\ session = "expired"
    /\ AppGoes("idle", "check")
    /\ session' = "live"
    /\ UNCHANGED <<m_isRunning, m_ioThread, stopped, thread>>

\* run() called from outside: WSStreamManager does so after each subscribe().
CallRun ==
    /\ AppGoes("idle", "check")
    /\ UNCHANGED <<m_isRunning, m_ioThread, stopped, session, thread>>

RunCheck ==
    /\ app = "check"
    /\ app' = IF m_isRunning THEN "idle" ELSE "set"
    /\ UNCHANGED <<m_isRunning, m_ioThread, stopped, session, thread>>

RunSet ==
    /\ AppGoes("set", "join")
    /\ m_isRunning' = TRUE
    /\ UNCHANGED <<m_ioThread, stopped, session, thread>>

\* Joining blocks until the thread has finished.
Join(from, to) ==
    /\ AppGoes(from, to)
    /\ \/ ~Joinable /\ UNCHANGED <<m_ioThread, thread>>
       \/ /\ Joinable /\ thread[m_ioThread] = "finished"
          /\ m_ioThread' = NoThread
          /\ thread' = [thread EXCEPT ![m_ioThread] = "none"]

\* Mutant: run() detaches the old thread instead of joining it.
RunJoin_Detach ==
    /\ AppGoes("join", "spawn")
    /\ m_ioThread' = NoThread
    /\ UNCHANGED <<m_isRunning, stopped, session, thread>>

RunJoin ==
    /\ Join("join", "spawn")
    /\ UNCHANGED <<m_isRunning, stopped, session>>

RunSpawn ==
    /\ AppGoes("spawn", "idle")
    /\ \E t \in Threads :
          /\ thread[t] = "none"
          /\ thread' = [thread EXCEPT ![t] = "begin"]
          /\ m_ioThread' = t
    /\ UNCHANGED <<m_isRunning, stopped, session>>

DtorStop ==
    /\ AppGoes("idle", "dtorJoin")
    /\ stopped' = TRUE
    /\ UNCHANGED <<m_isRunning, m_ioThread, session, thread>>

\* With P the io_context goes, and with it the handlers that keep the session.
DtorJoin ==
    /\ Join("dtorJoin", "destroyed")
    /\ session' = "expired"
    /\ UNCHANGED <<m_isRunning, stopped>>

AppNext == Subscribe \/ CallRun \/ RunCheck \/ RunSet \/ RunJoin \/ RunSpawn \/ DtorStop \/ DtorJoin

-----------------------------------------------------------------------------
(* An io thread.                                                           *)

ThreadGoes(t, from, to) == thread[t] = from /\ thread' = [thread EXCEPT ![t] = to]

LoopBegin(t) ==
    /\ ThreadGoes(t, "begin", "check")
    /\ m_isRunning' = TRUE
    /\ UNCHANGED <<m_ioThread, stopped, session, app>>

\* Mutant: a stopped io_context is not restarted.
LoopRestart_Never(t) ==
    /\ ThreadGoes(t, "check", "run")
    /\ UNCHANGED <<m_isRunning, m_ioThread, stopped, session, app>>

LoopRestart(t) ==
    /\ ThreadGoes(t, "check", "run")
    /\ stopped' = FALSE
    /\ UNCHANGED <<m_isRunning, m_ioThread, session, app>>

\* The last handler of the session has run.  stop() does not interrupt a handler, so
\* this one, and one that throws, may end after it.
SessionEnds(t) ==
    /\ thread[t] = "run" /\ session = "live"
    /\ session' = "expired"
    /\ UNCHANGED <<m_isRunning, m_ioThread, stopped, thread, app>>

RunReturns(t) ==
    /\ ThreadGoes(t, "run", "returned")
    /\ stopped \/ session = "expired"
    /\ stopped' = TRUE
    /\ UNCHANGED <<m_isRunning, m_ioThread, session, app>>

\* An exception leaves run(); it is logged and the loop starts over, and with it an
\* io_context that was stopped.
RunThrows(t) ==
    /\ HandlersThrow /\ session = "live"
    /\ ThreadGoes(t, "run", "begin")
    /\ session' \in {session, "expired"}
    /\ UNCHANGED <<m_isRunning, m_ioThread, stopped, app>>

\* Mutant: the loop is not left when run() returns.
LoopBreak_Continues(t) ==
    /\ ThreadGoes(t, "returned", "begin")
    /\ m_isRunning' = FALSE
    /\ UNCHANGED <<m_ioThread, stopped, session, app>>

LoopBreak(t) ==
    /\ ThreadGoes(t, "returned", "broke")
    /\ m_isRunning' = FALSE
    /\ UNCHANGED <<m_ioThread, stopped, session, app>>

ThreadEnds(t) ==
    /\ ThreadGoes(t, "broke", "finished")
    /\ m_isRunning' = FALSE
    /\ UNCHANGED <<m_ioThread, stopped, session, app>>

ThreadNext(t) == LoopBegin(t) \/ LoopRestart(t) \/ SessionEnds(t) \/ RunReturns(t)
                 \/ RunThrows(t) \/ LoopBreak(t) \/ ThreadEnds(t)

Next == AppNext \/ \E t \in Threads : ThreadNext(t)

Spec == Init /\ [][Next]_vars

\* Both threads are scheduled.  Nothing makes a session end.
Fairness ==
    /\ WF_vars(RunCheck) /\ WF_vars(RunSet) /\ WF_vars(RunJoin) /\ WF_vars(RunSpawn)
    /\ WF_vars(DtorJoin)
    /\ \A t \in Threads :
          /\ WF_vars(LoopBegin(t)) /\ WF_vars(LoopRestart(t)) /\ WF_vars(RunReturns(t))
          /\ WF_vars(LoopBreak(t)) /\ WF_vars(ThreadEnds(t))

FairSpec == Spec /\ Fairness

\* An application that goes on calling run() as long as it has the client.
RetrySpec == FairSpec /\ SF_vars(CallRun)

-----------------------------------------------------------------------------
(* Safety.                                                                 *)

Active(t) == thread[t] \notin {"none", "finished"}

\* A thread that may be running handlers is the one in m_ioThread: there is never
\* a second one (the session's handlers rely on that, they do not lock), and the
\* destructor waits for it before the io_context goes.  While it may run them,
\* m_isRunning is true, so that run() will not start over, although the flag is
\* reset twice per run and set from two threads.
OneIoThread ==
    /\ \A t \in Threads : Active(t) => m_ioThread = t
    /\ \A t \in Threads : thread[t] \in {"check", "run"} => m_isRunning

\* After the destructor nothing runs handlers of the destroyed io_context.
NothingAfterDtor == app = "destroyed" => \A t \in Threads : ~Active(t)

-----------------------------------------------------------------------------
(* Liveness.                                                               *)

Served == \E t \in Threads : thread[t] = "run" /\ ~stopped

Destroying == app \in {"dtorJoin", "destroyed"}

\* An exception has left run(), and with it the loop's body before the flag's reset.
Threw == m_isRunning /\ \E t \in Threads : thread[t] = "begin"

\* If the thread is past the restart of the io_context when the destructor stops it,
\* the destructor returns, however many sessions are alive, unless the handler that
\* was in progress throws: the loop then starts over.
StopEndsRun ==
    (app = "dtorJoin" /\ stopped /\ \A t \in Threads : thread[t] \notin {"begin", "check"})
        ~> app = "destroyed" \/ Threw

\* A session that is alive gets a thread, if the application goes on calling run().
ServedIfRetried == session = "live" ~> Served \/ session = "expired" \/ Destroying

-----------------------------------------------------------------------------
(* What the documentation says and the code does not do.                   *)

\* run() does not wait for a thread that is serving or about to serve.
RunDoesNotBlock ==
    app = "join" /\ Joinable => thread[m_ioThread] \notin {"begin", "check", "run"}

\* A session that is alive gets a thread.
SubscribedIsServed == session = "live" ~> Served \/ session = "expired" \/ Destroying

\* The destructor returns.
DestructorReturns == app = "dtorJoin" ~> app = "destroyed"
=============================================================================
