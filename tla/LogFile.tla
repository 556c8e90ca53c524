------------------------------ MODULE LogFile -------------------------------
(***************************************************************************)
(* The log file: threads that write lines through a shared handle, a log   *)
(* rotator that renames the file and signals, and the reopening that the   *)
(* signal task does (its queue is the one of ControlPlane).  A handle has  *)
(* an offset of its own and the file is not opened for appending, so a     *)
(* file may get holes or lose lines when two handles meet in it.           *)
(***************************************************************************)
EXTENDS Naturals, Sequences, FiniteSets

CONSTANTS
    Threads,
    MaxLines, MaxFiles, MaxSignals      \* bounds

ASSUME LogAssumption == {MaxLines, MaxFiles, MaxSignals} \subseteq Nat \ {0}

VARIABLES
    configured, \* log_file_path is set
    files,      \* each file's lines by position; 0 is a hole
    path,       \* the file at log_file_path, or 0
    handles,    \* the opened handles: file and offset
    current,    \* the handle in the ArcSwap, 0 before logging starts
    lines,      \* lines begun
    writer,     \* each thread's line and handle, between make_writer and write
    written,    \* the lines written
    signal,     \* SIGUSR1 arrived and was not collected
    queue,      \* SIGUSR1s on their way to the signal task
    sent,       \* SIGUSR1s sent
    rotator,    \* the rotator: idle or renamed
    failed,     \* the last reopening failed
    clean       \* history: every signal followed a rename of its own, and no
                \* rename came while a signal was on its way

fileVars == <<files, path>>
signalVars == <<signal, queue, sent, rotator, clean>>
lineVars == <<lines, writer, written>>
vars == <<configured, fileVars, handles, current, lineVars, signalVars, failed>>

NoLine == [line |-> 0, handle |-> 0]

Init ==
    /\ configured \in BOOLEAN
    /\ files \in {<<>>, <<<<>>>>}
    /\ path = Len(files)
    /\ handles = <<>> /\ current = 0
    /\ lines = 0
    /\ writer = [t \in Threads |-> NoLine]
    /\ written = {}
    /\ signal = FALSE /\ queue = 0 /\ sent = 0
    /\ rotator = "idle"
    /\ failed = FALSE /\ clean = TRUE

-----------------------------------------------------------------------------
(* Opening.                                                                *)

\* Opening the path with create and truncate.
OpenPath ==
    \/ /\ path = 0 /\ Len(files) < MaxFiles
       /\ files' = Append(files, <<>>)
       /\ path' = Len(files) + 1
    \/ /\ path > 0
       /\ files' = [files EXCEPT ![path] = <<>>]
       /\ UNCHANGED path

\* Mutant: the new handle goes on at the old one's position.
OpenKeepsOffset ==
    /\ OpenPath
    /\ handles' = Append(handles, [file |-> path', offset |-> IF current = 0 THEN 0
                                                             ELSE handles[current].offset])
    /\ current' = Len(handles) + 1

\* The path is opened and the new handle stored.
OpenTruncated ==
    /\ OpenPath
    /\ handles' = Append(handles, [file |-> path', offset |-> 0])
    /\ current' = Len(handles) + 1

\* ReopenableFileWriter::new, which fails the start when it cannot open.
StartLogging ==
    /\ configured /\ current = 0
    /\ OpenTruncated
    /\ UNCHANGED <<configured, lineVars, signalVars, failed>>

\* Mutant: the handle has no path, and its error is taken for a success.
reopen_without_path ==
    /\ queue > 0 /\ current > 0
    /\ queue' = queue - 1
    /\ failed' = FALSE
    /\ UNCHANGED <<configured, fileVars, handles, current, lineVars, signal, sent, rotator, clean>>

reopen ==
    /\ queue > 0 /\ current > 0
    /\ queue' = queue - 1
    /\ OpenTruncated
    /\ failed' = FALSE
    /\ UNCHANGED <<configured, lineVars, signal, sent, rotator, clean>>

\* The path cannot be opened: the error is logged, the handle stays.
reopen_error ==
    /\ queue > 0 /\ current > 0
    /\ queue' = queue - 1
    /\ failed' = TRUE
    /\ UNCHANGED <<configured, fileVars, handles, current, lineVars, signal, sent, rotator, clean>>

\* Without a log file the signal is skipped.
reopen_skipped ==
    /\ queue > 0 /\ ~configured
    /\ queue' = queue - 1
    /\ UNCHANGED <<configured, fileVars, handles, current, lineVars, signal, sent, rotator, clean,
                   failed>>

-----------------------------------------------------------------------------
(* Writing a line.                                                         *)

\* The line is formatted and the thread takes the handle of the moment.
make_writer(t) ==
    /\ current > 0 /\ lines < MaxLines /\ writer[t] = NoLine
    /\ lines' = lines + 1
    /\ writer' = [writer EXCEPT ![t] = [line |-> lines + 1, handle |-> current]]
    /\ UNCHANGED <<configured, fileVars, handles, current, written, signalVars, failed>>

\* A line at a position of a file; positions skipped become holes.
Put(s, at, line) ==
    [n \in 1..(IF Len(s) > at THEN Len(s) ELSE at) |->
        IF n = at THEN line ELSE IF n <= Len(s) THEN s[n] ELSE 0]

\* Mutant: the old file is closed when the handle is replaced.
write_closed(t) ==
    LET h == writer[t].handle
        f == handles[h].file
    IN  /\ h > 0
        /\ files' = IF h = current
                    THEN [files EXCEPT ![f] = Put(files[f], handles[h].offset + 1, writer[t].line)]
                    ELSE files
        /\ handles' = [handles EXCEPT ![h].offset = @ + 1]
        /\ written' = written \cup {writer[t].line}
        /\ writer' = [writer EXCEPT ![t] = NoLine]
        /\ UNCHANGED <<configured, path, current, lines, signalVars, failed>>

\* One write of the whole line; the old file stays open while a thread has it.
write(t) ==
    LET h == writer[t].handle
        f == handles[h].file
    IN  /\ h > 0
        /\ files' = [files EXCEPT ![f] = Put(files[f], handles[h].offset + 1, writer[t].line)]
        /\ handles' = [handles EXCEPT ![h].offset = @ + 1]
        /\ written' = written \cup {writer[t].line}
        /\ writer' = [writer EXCEPT ![t] = NoLine]
        /\ UNCHANGED <<configured, path, current, lines, signalVars, failed>>

-----------------------------------------------------------------------------
(* The rotator and the operator.                                           *)

OnTheirWay == signal \/ queue > 0

\* The file is renamed; with the option "create" a new file takes its place.
Rename ==
    /\ rotator = "idle" /\ path > 0 /\ current > 0
    /\ rotator' = "renamed"
    /\ \/ path' = 0 /\ UNCHANGED files
       \/ /\ Len(files) < MaxFiles
          /\ files' = Append(files, <<>>)
          /\ path' = Len(files) + 1
    /\ clean' = (clean /\ ~OnTheirWay)
    /\ UNCHANGED <<configured, handles, current, lineVars, signal, queue, sent, failed>>

\* SIGUSR1, from the rotator after its rename or from an operator.
Kill ==
    /\ sent < MaxSignals /\ (configured => current > 0)
    /\ sent' = sent + 1
    /\ signal' = TRUE
    /\ rotator' = "idle"
    /\ clean' = (clean /\ rotator = "renamed")
    /\ UNCHANGED <<configured, fileVars, handles, current, lineVars, queue, failed>>

\* The signal thread sends the signal on.
Collect ==
    /\ signal
    /\ signal' = FALSE
    /\ queue' = queue + 1
    /\ UNCHANGED <<configured, fileVars, handles, current, lineVars, sent, rotator, clean, failed>>

Next ==
    \/ StartLogging \/ reopen \/ reopen_error \/ reopen_skipped
    \/ \E t \in Threads : make_writer(t) \/ write(t)
    \/ Rename \/ Kill \/ Collect

Spec == Init /\ [][Next]_vars

-----------------------------------------------------------------------------
(* Properties.                                                             *)

Holds(f, line) == \E n \in DOMAIN files[f] : files[f][n] = line

\* No written line is lost by a rotation: as long as every SIGUSR1 follows a
\* rename of its own and the rotator lets the signal arrive before it renames
\* again, each line that ReopenableFileWriterHandle::write finished is in the
\* file at the path or in a renamed one, also when the thread took its handle
\* before the reopening.
NoLineLost == clean => \A l \in written : \E f \in DOMAIN files : Holds(f, l)

\* Rotation by rename and signal leaves no sparse file: under the same
\* conditions every file is its lines one after the other.
NotSparse == clean => \A f \in DOMAIN files : ~Holds(f, 0)

\* Lines follow the path: once no signal is on its way and the rotator is idle,
\* the handle that make_writer hands out is one on the file at log_file_path,
\* unless the last reopening failed.
FollowsPath ==
    current > 0 /\ clean /\ ~OnTheirWay /\ rotator = "idle" /\ ~failed =>
        handles[current].file = path
=============================================================================
