---------------------------- MODULE ControlPlane ----------------------------
(***************************************************************************)
(* How operators reach the process: signals, the thread that collects      *)
(* them, the channel to the signal task, and the task, which reloads the   *)
(* configuration (ConfigReload), reopens the log or triggers shutdown, one *)
(* signal after the other.                                                 *)
(***************************************************************************)
EXTENDS ConfigReload

CONSTANT QueueCap   \* capacity of the channel (16)

ASSUME QueueAssumption == QueueCap \in Nat \ {0}

\* Signal numbers.  SIGINT is handled like SIGTERM.
SIGHUP == 1
SIGUSR1 == 10
SIGTERM == 15
Signals == {SIGHUP, SIGUSR1, SIGTERM}

VARIABLES
    pending,    \* signals that arrived and were not collected; they do not queue
    position,   \* where the thread's scan of the pending signals is
    carried,    \* the signal the thread sends, or 0
    channel,    \* the mpsc channel
    task,       \* the signal task: receiving, reloading or stopped
    shutdown,   \* GracefulShutdown was triggered
    log         \* the log being written: the file at the configured path, one that
                \* was renamed away, or still the old one after a failed reopen

threadVars == <<pending, position, carried>>
signalVars == <<threadVars, channel, task, shutdown, log>>
allVars == <<vars, signalVars>>

SInit ==
    /\ Init
    /\ pending = {} /\ position = 0 /\ carried = 0
    /\ channel = <<>>
    /\ task = "receiving"
    /\ shutdown = FALSE
    /\ log = "current"

-----------------------------------------------------------------------------
(* The operator.                                                           *)

Kill(s) ==
    /\ pending' = pending \cup {s}
    /\ UNCHANGED <<vars, position, carried, channel, task, shutdown, log>>

\* logrotate renames the log.
Rotate ==
    /\ log' = "renamed"
    /\ UNCHANGED <<vars, threadVars, channel, task, shutdown>>

-----------------------------------------------------------------------------
(* The thread: signals.forever() scans the pending signals by number, over *)
(* and over.                                                               *)

Collect ==
    LET ahead == {s \in pending : s > position}
        first == CHOOSE s \in ahead : \A t \in ahead : s <= t
    IN  /\ carried = 0 /\ pending # {}
        /\ IF ahead = {}
           THEN position' = 0 /\ UNCHANGED <<pending, carried>>
           ELSE position' = first /\ carried' = first /\ pending' = pending \ {first}
        /\ UNCHANGED <<vars, channel, task, shutdown, log>>

\* Mutant: a signal is dropped when the channel is full.
SendDrops ==
    /\ carried > 0
    /\ carried' = IF task = "stopped" THEN -1 ELSE 0
    /\ channel' = IF task # "stopped" /\ Len(channel) < QueueCap
                  THEN Append(channel, carried) ELSE channel
    /\ UNCHANGED <<vars, pending, position, task, shutdown, log>>

\* blocking_send: waits while the channel is full; the thread ends if the task
\* is gone.
Send ==
    /\ carried > 0
    /\ \/ /\ task # "stopped" /\ Len(channel) < QueueCap
          /\ channel' = Append(channel, carried)
          /\ carried' = 0
       \/ /\ task = "stopped"
          /\ carried' = -1
          /\ UNCHANGED channel
    /\ UNCHANGED <<vars, pending, position, task, shutdown, log>>

-----------------------------------------------------------------------------
(* The signal task.                                                        *)

Receive(s) ==
    /\ task = "receiving" /\ channel # <<>>
    /\ Head(channel) = s

\* handle_sighup_reload starts; the task awaits it.
ReceiveHup ==
    /\ Receive(SIGHUP)
    /\ channel' = Tail(channel)
    /\ Start(Sighup)
    /\ task' = "reloading"
    /\ UNCHANGED <<threadVars, shutdown, log>>

\* Mutant: the loop ends when a reload fails.
ReloadReturnsBreaks ==
    /\ task = "reloading" /\ pc[Sighup] = "idle"
    /\ task' = IF answer[Sighup] = "ok" THEN "receiving" ELSE "stopped"
    /\ UNCHANGED <<vars, threadVars, channel, shutdown, log>>

\* The reload returned, with whatever outcome.
ReloadReturns ==
    /\ task = "reloading" /\ pc[Sighup] = "idle"
    /\ task' = "receiving"
    /\ UNCHANGED <<vars, threadVars, channel, shutdown, log>>

\* Mutant: the new file is opened and not stored.
ReopenForgets ==
    /\ Receive(SIGUSR1)
    /\ channel' = Tail(channel)
    /\ UNCHANGED <<vars, threadVars, task, shutdown, log>>

\* LogReopenHandle::reopen.
Reopen ==
    /\ Receive(SIGUSR1)
    /\ channel' = Tail(channel)
    /\ log' = "current"
    /\ UNCHANGED <<vars, threadVars, task, shutdown>>

\* There is no log file, or it cannot be opened.
ReopenFails ==
    /\ Receive(SIGUSR1)
    /\ channel' = Tail(channel)
    /\ log' = "failed"
    /\ UNCHANGED <<vars, threadVars, task, shutdown>>

\* trigger_shutdown; the loop ends and the channel is closed.
ReceiveTerm ==
    /\ Receive(SIGTERM)
    /\ shutdown' = TRUE
    /\ task' = "stopped"
    /\ channel' = <<>>
    /\ UNCHANGED <<vars, threadVars, log>>

TaskStep == ReceiveHup \/ ReloadReturns \/ Reopen \/ ReopenFails \/ ReceiveTerm

-----------------------------------------------------------------------------

\* A step of the reload machinery.  Only the signal task starts its reloads.
InnerStep ==
    /\ \/ FileStep
       \/ \E r \in Reloaders : FileError(r) \/ ReloadStep(r)
       \/ \E r \in Admins : Start(r) \/ DroppedReading(r) \/ DroppedWaiting(r)
    /\ UNCHANGED signalVars

SNext ==
    \/ \E s \in Signals : Kill(s)
    \/ Rotate
    \/ Collect \/ Send \/ TaskStep
    \/ InnerStep

\* The thread and the executor go on: no runnable step waits for ever.
SFairness ==
    /\ WF_allVars(Collect) /\ WF_allVars(Send) /\ WF_allVars(TaskStep)
    /\ \A r \in Reloaders : WF_allVars(ReloadStep(r) /\ UNCHANGED signalVars)

SSpec == SInit /\ [][SNext]_allVars /\ SFairness

-----------------------------------------------------------------------------
(* Properties.                                                             *)

\* The signal task handles one signal at a time: while its reload runs it takes
\* no other signal from the channel, so that no SIGHUP finds an unfinished reload
\* of the task, and the channel is bounded and closed with the task
\* (register_signal_handlers).
OneAtATime ==
    /\ pc[Sighup] # "idle" => task = "reloading"
    /\ Len(channel) <= QueueCap
    /\ task = "stopped" => shutdown /\ channel = <<>>

\* A SIGHUP sent once the file is written takes effect: the version is served
\* unless it is unfit, it cannot be read, the file was changed again or the
\* process shuts down.  Signals that are merged, that come while a reload runs
\* or that find the channel full do not change this (handle_sighup_reload).
SighupTakesEffect ==
    \A v \in Versions :
        (/\ SIGHUP \in pending /\ file.whole /\ file.ver = v
         /\ load_config([ver |-> v, whole |-> TRUE]))
            ~> (dynamic.ver >= v \/ file.ver # v \/ answer[Sighup] = "ioerror" \/ shutdown)

\* A SIGTERM is obeyed, even behind reloads that fail and with the channel full
\* (register_signal_handlers).
TermObeyed == (SIGTERM \in pending /\ carried # -1) ~> shutdown

\* After rename and SIGUSR1 the log goes to the new file, unless it cannot be
\* opened (LogReopenHandle::reopen).
RotationFollowed == (SIGUSR1 \in pending) ~> (log # "renamed" \/ shutdown)
=============================================================================
