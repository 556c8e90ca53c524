--------------------------- MODULE LogFileProofs ----------------------------
(***************************************************************************)
(* NoLineLost, NotSparse and FollowsPath for any number of threads, lines, *)
(* files and signals.                                                      *)
(***************************************************************************)
EXTENDS LogFile, SequenceTheorems, TLAPS

Handle == [file : Nat, offset : Nat]

\* The types, whatever the rotator does.  A handle is on a file that exists, and
\* a thread that has a handle has a line.
FileTypes ==
    /\ files \in Seq(Seq(Nat))
    /\ path \in 0..Len(files)
    /\ handles \in Seq(Handle)
    /\ current = Len(handles)
    /\ \A h \in DOMAIN handles : handles[h].file \in DOMAIN files

LineTypes ==
    /\ lines \in Nat
    /\ writer \in [Threads -> [line : Nat, handle : 0..Len(handles)]]
    /\ \A t \in Threads : writer[t].handle > 0 => writer[t].line > 0
    /\ written \subseteq Nat

CountTypes == queue \in Nat /\ sent \in Nat

FlagTypes ==
    /\ configured \in BOOLEAN /\ signal \in BOOLEAN /\ failed \in BOOLEAN /\ clean \in BOOLEAN
    /\ rotator \in {"idle", "renamed"}

TypeInv == FileTypes /\ LineTypes /\ CountTypes /\ FlagTypes

\* Until logging starts no handle, rename or failure is there, and without a log
\* file it never starts.
StartInv ==
    /\ ~configured => current = 0
    /\ current = 0 => rotator = "idle" /\ ~failed
    /\ current = 0 /\ configured => ~OnTheirWay

\* One rename, one signal: while a signal is on its way there is no other, and
\* the rotator waits.
OneSignal ==
    /\ OnTheirWay => rotator = "idle"
    /\ signal => queue = 0
    /\ queue <= 1

\* No handle is on the file at the path.
FreshPath == \A h \in DOMAIN handles : handles[h].file # path

\* The path has no handle from the rename to the reopening, and after a failed
\* reopening; at all other times the current handle is on the file there.
PathInv ==
    IF current = 0 \/ OnTheirWay \/ rotator = "renamed" \/ failed
    THEN FreshPath
    ELSE handles[current].file = path

\* Each handle has a file of its own and is at its end; a file that no handle
\* was ever on is empty.
OwnFile ==
    /\ \A g, h \in DOMAIN handles : handles[g].file = handles[h].file => g = h
    /\ \A h \in DOMAIN handles : handles[h].offset = Len(files[handles[h].file])
    /\ \A f \in DOMAIN files :
          (\A h \in DOMAIN handles : handles[h].file # f) => files[f] = <<>>

CleanInv == OneSignal /\ PathInv /\ OwnFile

IInv == TypeInv /\ StartInv /\ (clean => CleanInv) /\ NoLineLost /\ NotSparse

-----------------------------------------------------------------------------
(* Files and handles as sequences.                                         *)

LEMMA FunctionIsSeq ==
    ASSUME NEW S, NEW n \in Nat, NEW f \in [1..n -> S]
    PROVE  f \in Seq(S) /\ Len(f) = n
<1>1. f \in Seq(S)
  BY SeqDef
<1>2. DOMAIN f = 1..Len(f) /\ Len(f) \in Nat
  BY <1>1, LenProperties
<1> QED
  BY <1>1, <1>2

\* What a write at a position leaves in a file.
LEMMA PutProperties ==
    ASSUME NEW s \in Seq(Nat), NEW at \in Nat \ {0}, NEW line \in Nat
    PROVE  /\ Put(s, at, line) \in Seq(Nat)
           /\ Len(Put(s, at, line)) = IF Len(s) > at THEN Len(s) ELSE at
           /\ Put(s, at, line)[at] = line
           /\ at = Len(s) + 1 => \A n \in 1..Len(s) : Put(s, at, line)[n] = s[n]
<1> DEFINE size == IF Len(s) > at THEN Len(s) ELSE at
<1>1. Len(s) \in Nat /\ \A n \in 1..Len(s) : s[n] \in Nat
  BY LenProperties, ElementOfSeq
<1>2. size \in Nat
  BY <1>1
<1>3. Put(s, at, line) \in [1..size -> Nat]
  BY <1>1 DEF Put
<1>4. at \in 1..size
  BY <1>1
<1>5. \A n \in 1..size : Put(s, at, line)[n] =
          IF n = at THEN line ELSE IF n <= Len(s) THEN s[n] ELSE 0
  BY DEF Put
<1>6. Put(s, at, line)[at] = line
  BY <1>4, <1>5
<1>7. at = Len(s) + 1 => \A n \in 1..Len(s) : Put(s, at, line)[n] = s[n]
  BY <1>1, <1>5, SMTT(30)
<1>8. Put(s, at, line) \in Seq(Nat) /\ Len(Put(s, at, line)) = size
  <2> HIDE DEF size
  <2> QED
    BY <1>2, <1>3, FunctionIsSeq
<1> QED
  BY <1>6, <1>7, <1>8

\* Opening the path: the file there is empty, the others stay.
LEMMA OpenPathFacts ==
    ASSUME TypeInv, OpenPath
    PROVE  /\ files' \in Seq(Seq(Nat))
           /\ path' \in 1..Len(files') /\ Len(files') \in Nat
           /\ \A f \in DOMAIN files : f \in DOMAIN files' /\ (f # path' => files'[f] = files[f])
           /\ \A f \in DOMAIN files' : f \in DOMAIN files \/ f = path'
           /\ files'[path'] = <<>>
           /\ path' = path \/ path' \notin DOMAIN files
<1>1. files \in Seq(Seq(Nat)) /\ Len(files) \in Nat /\ DOMAIN files = 1..Len(files)
  BY LenProperties DEF TypeInv, FileTypes
<1>2. <<>> \in Seq(Nat)
  BY EmptySeq
<1>3. CASE path = 0 /\ files' = Append(files, <<>>) /\ path' = Len(files) + 1
  <2>1. /\ files' \in Seq(Seq(Nat)) /\ Len(files') = Len(files) + 1
        /\ \A f \in 1..Len(files) : files'[f] = files[f]
        /\ files'[Len(files) + 1] = <<>>
    BY <1>1, <1>2, <1>3, AppendProperties
  <2>2. DOMAIN files' = 1..Len(files')
    BY <2>1, LenProperties
  <2> QED
    BY <1>1, <1>3, <2>1, <2>2
<1>4. CASE path > 0 /\ files' = [files EXCEPT ![path] = <<>>] /\ UNCHANGED path
  <2>1. path \in 1..Len(files)
    BY <1>1, <1>4 DEF TypeInv, FileTypes
  <2>2. /\ files' \in Seq(Seq(Nat)) /\ Len(files') = Len(files)
        /\ \A f \in 1..Len(files) : files'[f] = IF f = path THEN <<>> ELSE files[f]
    BY <1>1, <1>2, <1>4, <2>1, ExceptSeq
  <2>3. DOMAIN files' = 1..Len(files')
    BY <2>2, LenProperties
  <2> QED
    BY <1>1, <1>4, <2>1, <2>2, <2>3
<1> QED
  BY <1>3, <1>4 DEF OpenPath

\* The new handle is the last and the current one, at the start of the file.
LEMMA OpenHandleFacts ==
    ASSUME TypeInv, OpenTruncated
    PROVE  /\ handles' \in Seq(Handle)
           /\ Len(handles) \in Nat /\ DOMAIN handles = 1..Len(handles)
           /\ Len(handles') = Len(handles) + 1 /\ DOMAIN handles' = 1..(Len(handles) + 1)
           /\ \A h \in DOMAIN handles : handles'[h] = handles[h]
           /\ handles'[Len(handles) + 1].file = path'
           /\ handles'[Len(handles) + 1].offset = 0
           /\ current' = Len(handles')
<1>1. path' \in Nat
  BY OpenPathFacts DEF OpenTruncated
<1> DEFINE new == [file |-> path', offset |-> 0]
<1>2. new \in Handle /\ new.file = path' /\ new.offset = 0
  BY <1>1 DEF Handle
<1>3. handles \in Seq(Handle) /\ handles' = Append(handles, new) /\ current' = Len(handles) + 1
  BY DEF TypeInv, FileTypes, OpenTruncated
<1> HIDE DEF new
<1>4. /\ handles' \in Seq(Handle) /\ Len(handles') = Len(handles) + 1
      /\ \A h \in 1..Len(handles) : handles'[h] = handles[h]
      /\ handles'[Len(handles) + 1] = new
  BY <1>2, <1>3, AppendProperties
<1>5. /\ Len(handles) \in Nat /\ DOMAIN handles = 1..Len(handles)
      /\ DOMAIN handles' = 1..Len(handles')
  BY <1>3, <1>4, LenProperties, SMTT(30)
<1> QED
  BY <1>2, <1>3, <1>4, <1>5

\* A write changes the file and the offset of one handle.
LEMMA WriteFacts ==
    ASSUME TypeInv, NEW t \in Threads, write(t)
    PROVE  LET h == writer[t].handle
               f == handles[h].file
               at == handles[h].offset + 1
           IN  /\ h \in DOMAIN handles /\ f \in DOMAIN files /\ writer[t].line \in Nat \ {0}
               /\ files' \in Seq(Seq(Nat)) /\ Len(files') = Len(files)
               /\ DOMAIN files' = DOMAIN files
               /\ \A g \in DOMAIN files : g # f => files'[g] = files[g]
               /\ files'[f] = Put(files[f], at, writer[t].line)
               /\ handles' \in Seq(Handle) /\ Len(handles') = Len(handles)
               /\ DOMAIN handles' = DOMAIN handles
               /\ \A g \in DOMAIN handles : handles'[g].file = handles[g].file
               /\ \A g \in DOMAIN handles : g # h => handles'[g].offset = handles[g].offset
               /\ handles'[h].offset = at
<1> DEFINE h == writer[t].handle
           f == handles[h].file
           at == handles[h].offset + 1
           line == writer[t].line
<1>1. /\ files \in Seq(Seq(Nat)) /\ Len(files) \in Nat /\ DOMAIN files = 1..Len(files)
      /\ handles \in Seq(Handle) /\ Len(handles) \in Nat /\ DOMAIN handles = 1..Len(handles)
  BY LenProperties DEF TypeInv, FileTypes
<1>2. writer[t] \in [line : Nat, handle : 0..Len(handles)] /\ h > 0 /\ line > 0
  BY DEF TypeInv, LineTypes, write
<1>3. h \in 1..Len(handles) /\ line \in Nat \ {0}
  BY <1>1, <1>2
<1>4. f \in 1..Len(files)
  BY <1>1, <1>3 DEF TypeInv, FileTypes
<1>5. handles[h] \in Handle
  BY <1>1, <1>3, ElementOfSeq
<1>6. at \in Nat \ {0} /\ handles[h].offset \in Nat
  BY <1>5 DEF Handle
<1>7. files[f] \in Seq(Nat)
  BY <1>1, <1>4, ElementOfSeq, SMTT(30)
<1> DEFINE put == Put(files[f], at, line)
<1>8. put \in Seq(Nat)
  BY <1>3, <1>6, <1>7, PutProperties, SMTT(30)
<1>9. files' = [files EXCEPT ![f] = put]
  BY DEF write
<1>10. /\ files' \in Seq(Seq(Nat)) /\ Len(files') = Len(files)
       /\ \A g \in 1..Len(files) : files'[g] = IF g = f THEN put ELSE files[g]
  <2> HIDE DEF put, f
  <2> QED
    BY <1>1, <1>4, <1>8, <1>9, ExceptSeq
<1> DEFINE moved == [handles[h] EXCEPT !.offset = at]
<1>11. moved \in Handle /\ moved.file = f /\ moved.offset = at
  <2> HIDE DEF at, h
  <2> QED
    BY <1>5, <1>6 DEF Handle
<1>12. handles' = [handles EXCEPT ![h] = moved]
  BY DEF write
<1>13. /\ handles' \in Seq(Handle) /\ Len(handles') = Len(handles)
       /\ \A g \in 1..Len(handles) : handles'[g] = IF g = h THEN moved ELSE handles[g]
  <2> HIDE DEF moved, h
  <2> QED
    BY <1>1, <1>3, <1>11, <1>12, ExceptSeq
<1>14. DOMAIN files' = 1..Len(files') /\ DOMAIN handles' = 1..Len(handles')
  BY <1>10, <1>13, LenProperties
<1> HIDE DEF h, f, at, line, put, moved
<1>15. /\ \A g \in DOMAIN handles : handles'[g].file = handles[g].file
       /\ \A g \in DOMAIN handles : g # h => handles'[g].offset = handles[g].offset
       /\ handles'[h].offset = at
  BY <1>1, <1>3, <1>11, <1>13 DEF f
<1>16. files'[f] = Put(files[f], at, line)
  BY <1>4, <1>10 DEF put
<1> QED
  BY <1>1, <1>3, <1>4, <1>10, <1>13, <1>14, <1>15, <1>16, ZenonT(60) DEF h, f, at, line

-----------------------------------------------------------------------------
(* The types and the start.                                                *)

LEMMA InitIInv == Init => IInv
<1> SUFFICES ASSUME Init PROVE IInv
  OBVIOUS
<1>1. <<>> \in Seq(Seq(Nat)) /\ <<>> \in Seq(Nat) /\ <<>> \in Seq(Handle)
  BY EmptySeq
<1>2. /\ files \in Seq(Seq(Nat)) /\ Len(files) \in Nat /\ DOMAIN files = 1..Len(files)
      /\ \A f \in DOMAIN files : files[f] = <<>>
  <2>1. CASE files = <<>>
    BY <1>1, <2>1
  <2>2. CASE files = <<<<>>>>
    <3>1. files = [i \in 1..1 |-> <<>>]
      BY <2>2
    <3>2. files \in [1..1 -> Seq(Nat)]
      BY <1>1, <3>1
    <3>3. files \in Seq(Seq(Nat)) /\ Len(files) = 1
      BY <3>2, FunctionIsSeq, ZenonT(60)
    <3> QED
      BY <3>1, <3>3
  <2> QED
    BY <2>1, <2>2 DEF Init
<1>3. handles = <<>> /\ Len(handles) = 0 /\ DOMAIN handles = {}
  BY DEF Init
<1>4. FileTypes
  BY <1>1, <1>2, <1>3 DEF Init, FileTypes
<1>5. LineTypes /\ CountTypes
  BY <1>3 DEF Init, LineTypes, CountTypes, NoLine
<1>6. FlagTypes
  BY Zenon DEF Init, FlagTypes
<1>7. StartInv /\ OneSignal /\ PathInv /\ OwnFile
  BY <1>2, <1>3 DEF Init, StartInv, OneSignal, PathInv, FreshPath, OwnFile, OnTheirWay
<1>8. NoLineLost
  BY DEF Init, NoLineLost
<1>9. NotSparse
  BY <1>2 DEF NotSparse, Holds
<1> QED
  BY <1>4, <1>5, <1>6, <1>7, <1>8, <1>9 DEF IInv, CleanInv, TypeInv

\* A new handle leaves the other handles and the threads their types.
LEMMA OpenTypes ==
    ASSUME TypeInv, OpenTruncated, UNCHANGED lineVars
    PROVE  FileTypes' /\ LineTypes'
<1>1. /\ files' \in Seq(Seq(Nat)) /\ path' \in 1..Len(files') /\ Len(files') \in Nat
      /\ \A f \in DOMAIN files : f \in DOMAIN files'
      /\ DOMAIN files' = 1..Len(files')
  BY OpenPathFacts, LenProperties DEF OpenTruncated
<1>2. \A h \in DOMAIN handles' : handles'[h].file \in DOMAIN files'
  <2> TAKE h \in DOMAIN handles'
  <2>1. CASE h \in DOMAIN handles
    BY <1>1, <2>1, OpenHandleFacts, ZenonT(60) DEF TypeInv, FileTypes
  <2>2. CASE h = Len(handles) + 1
    BY <1>1, <2>2, OpenHandleFacts
  <2> QED
    BY <2>1, <2>2, OpenHandleFacts
<1>3. LineTypes'
  <2>1. 0..Len(handles) \subseteq 0..Len(handles')
    BY OpenHandleFacts
  <2> QED
    BY <2>1 DEF TypeInv, LineTypes, lineVars
<1> QED
  BY <1>1, <1>2, <1>3, OpenHandleFacts DEF FileTypes

LEMMA TypeStep == TypeInv /\ [Next]_vars => TypeInv'
<1> SUFFICES ASSUME TypeInv, [Next]_vars PROVE TypeInv'
  OBVIOUS
<1>1. FileTypes' /\ LineTypes'
  <2>1. CASE StartLogging \/ reopen
    BY <2>1, OpenTypes DEF StartLogging, reopen
  <2>2. CASE reopen_error \/ reopen_skipped \/ Kill \/ Collect \/ UNCHANGED vars
    <3>1. UNCHANGED <<fileVars, handles, current, lineVars>>
      BY <2>2 DEF reopen_error, reopen_skipped, Kill, Collect, vars
    <3> QED
      BY <3>1 DEF TypeInv, FileTypes, LineTypes, fileVars, lineVars
  <2>3. ASSUME NEW t \in Threads, make_writer(t) PROVE FileTypes' /\ LineTypes'
    <3>1. Len(handles) \in Nat /\ current \in 0..Len(handles)
      BY LenProperties DEF TypeInv, FileTypes
    <3>2. writer' = [writer EXCEPT ![t] = [line |-> lines + 1, handle |-> current]]
      BY <2>3 DEF make_writer
    <3>3. /\ writer' \in [Threads -> [line : Nat, handle : 0..Len(handles)]]
          /\ \A u \in Threads : writer'[u].handle > 0 => writer'[u].line > 0
      BY <3>1, <3>2 DEF TypeInv, LineTypes
    <3> QED
      BY <2>3, <3>3 DEF make_writer, TypeInv, FileTypes, LineTypes, fileVars
  <2>4. ASSUME NEW t \in Threads, write(t) PROVE FileTypes' /\ LineTypes'
    <3>1. FileTypes' /\ Len(handles') = Len(handles)
      BY <2>4, WriteFacts, ZenonT(60) DEF TypeInv, FileTypes, write
    <3>2. Len(handles) \in Nat
      BY LenProperties DEF TypeInv, FileTypes
    <3>3. writer' = [writer EXCEPT ![t] = NoLine] /\ UNCHANGED lines
      BY <2>4 DEF write
    <3>4. /\ writer' \in [Threads -> [line : Nat, handle : 0..Len(handles)]]
          /\ \A u \in Threads : writer'[u].handle > 0 => writer'[u].line > 0
      BY <3>2, <3>3 DEF TypeInv, LineTypes, NoLine
    <3>5. written' = written \cup {writer[t].line} /\ writer[t].line \in Nat
      BY <2>4 DEF write, TypeInv, LineTypes
    <3> QED
      BY <3>1, <3>3, <3>4, <3>5, ZenonT(60) DEF TypeInv, LineTypes
  <2>5. CASE Rename
    <3>1. /\ files \in Seq(Seq(Nat)) /\ Len(files) \in Nat /\ DOMAIN files = 1..Len(files)
          /\ <<>> \in Seq(Nat)
      BY LenProperties, EmptySeq DEF TypeInv, FileTypes
    <3>2. /\ Append(files, <<>>) \in Seq(Seq(Nat)) /\ Len(Append(files, <<>>)) = Len(files) + 1
          /\ DOMAIN Append(files, <<>>) = 1..(Len(files) + 1)
      BY <3>1, AppendProperties, LenProperties
    <3>3. \/ path' = 0 /\ files' = files
          \/ path' = Len(files) + 1 /\ files' = Append(files, <<>>)
      BY <2>5, Zenon DEF Rename
    <3>4. /\ files' \in Seq(Seq(Nat)) /\ path' \in 0..Len(files')
          /\ \A f \in DOMAIN files : f \in DOMAIN files'
      <4>1. CASE path' = 0 /\ files' = files
        BY <3>1, <4>1
      <4>2. CASE path' = Len(files) + 1 /\ files' = Append(files, <<>>)
        <5>1. /\ files' \in Seq(Seq(Nat)) /\ Len(files') = Len(files) + 1
              /\ DOMAIN files' = 1..(Len(files) + 1)
          BY <3>2, <4>2
        <5> QED
          BY <3>1, <4>2, <5>1
      <4> QED
        BY <3>3, <4>1, <4>2
    <3>5. UNCHANGED <<handles, current, lineVars>>
      BY <2>5 DEF Rename
    <3> QED
      BY <3>4, <3>5 DEF TypeInv, FileTypes, LineTypes, lineVars
  <2> QED
    BY <2>1, <2>2, <2>3, <2>4, <2>5 DEF Next
<1>2. CountTypes'
  <2>1. /\ queue' = queue \/ queue' = queue + 1 \/ (queue > 0 /\ queue' = queue - 1)
        /\ sent' = sent \/ sent' = sent + 1
    BY Zenon DEF Next, vars, signalVars, StartLogging, reopen, reopen_error,
           reopen_skipped, make_writer, write, Rename, Kill, Collect
  <2> QED
    BY <2>1 DEF TypeInv, CountTypes
<1>3. FlagTypes'
  BY ZenonT(60) DEF TypeInv, FlagTypes, Next, vars, signalVars, StartLogging, reopen, reopen_error,
         reopen_skipped, make_writer, write, Rename, Kill, Collect
<1> QED
  BY <1>1, <1>2, <1>3 DEF TypeInv

LEMMA StartStep == TypeInv /\ StartInv /\ [Next]_vars => StartInv'
<1> SUFFICES ASSUME TypeInv, StartInv, [Next]_vars PROVE StartInv'
  OBVIOUS
<1>1. OpenTruncated => current' > 0
  BY OpenHandleFacts
<1>2. CASE StartLogging
  BY <1>1, <1>2 DEF StartLogging, StartInv
<1>3. CASE reopen
  BY <1>1, <1>3 DEF reopen, StartInv
<1>4. CASE reopen_error \/ reopen_skipped
  BY <1>4, LenProperties DEF reopen_error, reopen_skipped, StartInv, TypeInv, CountTypes, OnTheirWay
<1>5. ASSUME NEW t \in Threads, make_writer(t) \/ write(t) PROVE StartInv'
  BY <1>5 DEF make_writer, write, StartInv, OnTheirWay, signalVars
<1>6. CASE Rename
  BY <1>6 DEF Rename, StartInv, OnTheirWay
<1>7. CASE Kill
  BY <1>7 DEF Kill, StartInv, OnTheirWay
<1>8. CASE Collect
  BY <1>8 DEF Collect, StartInv, OnTheirWay
<1>9. CASE UNCHANGED vars
  BY <1>9 DEF vars, StartInv, OnTheirWay, signalVars
<1> QED
  BY <1>2, <1>3, <1>4, <1>5, <1>6, <1>7, <1>8, <1>9 DEF Next

-----------------------------------------------------------------------------
(* Rotations that are clean.                                               *)

\* A fresh path has at most an empty file, so opening it loses nothing, and the
\* new handle is the only one there.
LEMMA OpenFresh ==
    ASSUME TypeInv, OwnFile, FreshPath, OpenTruncated
    PROVE  /\ \A f \in DOMAIN files : f \in DOMAIN files' /\ files'[f] = files[f]
           /\ \A f \in DOMAIN files' : f \in DOMAIN files \/ files'[f] = <<>>
           /\ OwnFile'
           /\ handles'[current'].file = path' /\ current' > 0
<1>1. OpenPath
  BY DEF OpenTruncated
<1>2. \A f \in DOMAIN files : f \in DOMAIN files' /\ files'[f] = files[f]
  <2> TAKE f \in DOMAIN files
  <2>1. f \in DOMAIN files' /\ (f # path' => files'[f] = files[f])
    BY <1>1, OpenPathFacts
  <2>2. CASE f = path'
    <3>1. path' = path /\ files'[f] = <<>>
      BY <1>1, <2>2, OpenPathFacts
    <3>2. files[f] = <<>>
      BY <2>2, <3>1 DEF OwnFile, FreshPath
    <3> QED
      BY <2>1, <3>1, <3>2
  <2> QED
    BY <2>1, <2>2
<1>3. \A f \in DOMAIN files' : f \in DOMAIN files \/ files'[f] = <<>>
  BY <1>1, OpenPathFacts
<1>4. \A h \in DOMAIN handles : handles[h].file \in DOMAIN files
  BY DEF TypeInv, FileTypes
<1>5. \A h \in DOMAIN handles : handles[h].file # path'
  BY <1>1, <1>4, OpenPathFacts, SMTT(30) DEF FreshPath
<1>6. /\ DOMAIN handles' = 1..(Len(handles) + 1) /\ DOMAIN handles = 1..Len(handles)
      /\ Len(handles) \in Nat
      /\ \A h \in DOMAIN handles : handles'[h] = handles[h]
      /\ handles'[Len(handles) + 1].file = path' /\ handles'[Len(handles) + 1].offset = 0
  BY OpenHandleFacts
<1>7. \A h \in DOMAIN handles' : h \in DOMAIN handles \/ h = Len(handles) + 1
  BY <1>6
<1>8. \A g, h \in DOMAIN handles' : handles'[g].file = handles'[h].file => g = h
  BY <1>5, <1>6, <1>7 DEF OwnFile
<1>9. \A h \in DOMAIN handles' : handles'[h].offset = Len(files'[handles'[h].file])
  <2> TAKE h \in DOMAIN handles'
  <2>1. CASE h \in DOMAIN handles
    BY <1>2, <1>4, <1>6, <2>1 DEF OwnFile
  <2>2. CASE h = Len(handles) + 1
    <3>1. files'[path'] = <<>> /\ Len(<<>>) = 0
      BY <1>1, OpenPathFacts
    <3> QED
      BY <1>6, <2>2, <3>1
  <2> QED
    BY <1>7, <2>1, <2>2
<1>10. ASSUME NEW f \in DOMAIN files', \A h \in DOMAIN handles' : handles'[h].file # f
       PROVE  files'[f] = <<>>
  <2>1. CASE f \in DOMAIN files
    <3>1. \A h \in DOMAIN handles : handles[h].file # f
      BY <1>6, <1>10
    <3> QED
      BY <1>2, <2>1, <3>1 DEF OwnFile
  <2> QED
    BY <1>3, <2>1
<1>11. OwnFile'
  BY <1>8, <1>9, <1>10 DEF OwnFile
<1> QED
  BY <1>2, <1>3, <1>6, <1>11, OpenHandleFacts

\* A handle at the end of its own file adds the line there.
LEMMA WriteOwn ==
    ASSUME TypeInv, OwnFile, NEW t \in Threads, write(t)
    PROVE  /\ DOMAIN files' = DOMAIN files
           /\ \A f \in DOMAIN files :
                 /\ files[f] \in Seq(Nat) /\ files'[f] \in Seq(Nat)
                 /\ \A n \in DOMAIN files[f] : n \in DOMAIN files'[f] /\ files'[f][n] = files[f][n]
                 /\ \A n \in DOMAIN files'[f] : \/ n \in DOMAIN files[f]
                                                \/ files'[f][n] = writer[t].line
           /\ \E f \in DOMAIN files : \E n \in DOMAIN files'[f] : files'[f][n] = writer[t].line
           /\ OwnFile'
<1> DEFINE h == writer[t].handle
           w == handles[h].file
           at == handles[h].offset + 1
           line == writer[t].line
<1>1. /\ h \in DOMAIN handles /\ w \in DOMAIN files /\ line \in Nat
      /\ DOMAIN files' = DOMAIN files /\ DOMAIN handles' = DOMAIN handles
      /\ files' \in Seq(Seq(Nat))
      /\ \A f \in DOMAIN files : f # w => files'[f] = files[f]
      /\ files'[w] = Put(files[w], at, line)
      /\ \A g \in DOMAIN handles : handles'[g].file = handles[g].file
      /\ \A g \in DOMAIN handles : g # h => handles'[g].offset = handles[g].offset
      /\ handles'[h].offset = at
  BY WriteFacts, SMTT(30)
<1> HIDE DEF h, at, line, w
<1>2. \A f \in DOMAIN files : files[f] \in Seq(Nat) /\ files'[f] \in Seq(Nat)
  BY <1>1, LenProperties, ElementOfSeq DEF TypeInv, FileTypes
<1>3. Len(files[w]) \in Nat /\ at = Len(files[w]) + 1
  BY <1>1, <1>2, LenProperties DEF OwnFile, at, w
<1>4. /\ Len(files'[w]) = at /\ files'[w][at] = line
      /\ \A n \in 1..Len(files[w]) : files'[w][n] = files[w][n]
  BY <1>1, <1>2, <1>3, PutProperties
<1>5. DOMAIN files[w] = 1..Len(files[w]) /\ DOMAIN files'[w] = 1..at
  BY <1>1, <1>2, <1>4, LenProperties
<1>6. ASSUME NEW f \in DOMAIN files
      PROVE  /\ \A n \in DOMAIN files[f] : n \in DOMAIN files'[f] /\ files'[f][n] = files[f][n]
             /\ \A n \in DOMAIN files'[f] : n \in DOMAIN files[f] \/ files'[f][n] = line
  <2>1. CASE f = w
    BY <1>3, <1>4, <1>5, <2>1
  <2>2. CASE f # w
    BY <1>1, <2>2
  <2> QED
    BY <2>1, <2>2
<1>7. \E n \in DOMAIN files'[w] : files'[w][n] = line
  BY <1>3, <1>4, <1>5
<1>8. OwnFile'
  <2>1. \A g, k \in DOMAIN handles' : handles'[g].file = handles'[k].file => g = k
    BY <1>1 DEF OwnFile
  <2>2. \A g \in DOMAIN handles' : handles'[g].offset = Len(files'[handles'[g].file])
    <3> TAKE g \in DOMAIN handles'
    <3>1. CASE g = h
      BY <1>1, <1>4, <3>1, SMTT(30) DEF w
    <3>2. CASE g # h
      <4>1. handles[g].file \in DOMAIN files /\ handles[g].file # w
        BY <1>1, <3>2, SMTT(30) DEF OwnFile, TypeInv, FileTypes, w
      <4> QED
        BY <1>1, <3>2, <4>1 DEF OwnFile
    <3> QED
      BY <3>1, <3>2
  <2>3. \A f \in DOMAIN files' :
            (\A g \in DOMAIN handles' : handles'[g].file # f) => files'[f] = <<>>
    <3> SUFFICES ASSUME NEW f \in DOMAIN files',
                        \A g \in DOMAIN handles' : handles'[g].file # f
                 PROVE  files'[f] = <<>>
      OBVIOUS
    <3>1. f # w /\ \A g \in DOMAIN handles : handles[g].file # f
      BY <1>1, ZenonT(60) DEF w
    <3>2. files[f] = <<>>
      BY <1>1, <3>1 DEF OwnFile
    <3> QED
      BY <1>1, <3>1, <3>2
  <2> QED
    BY <2>1, <2>2, <2>3 DEF OwnFile
<1> QED
  BY <1>1, <1>2, <1>6, <1>7, <1>8, SMTT(30) DEF line

\* A rename leaves every file as it is; a new one is empty.
LEMMA RenameFacts ==
    ASSUME TypeInv, Rename
    PROVE  /\ \A f \in DOMAIN files : f \in DOMAIN files' /\ files'[f] = files[f]
           /\ \A f \in DOMAIN files' : f \in DOMAIN files \/ files'[f] = <<>>
           /\ UNCHANGED handles /\ FreshPath'
<1>1. /\ files \in Seq(Seq(Nat)) /\ Len(files) \in Nat /\ DOMAIN files = 1..Len(files)
      /\ <<>> \in Seq(Nat)
  BY LenProperties, EmptySeq DEF TypeInv, FileTypes
<1>2. UNCHANGED handles
  BY DEF Rename
<1>3. \A h \in DOMAIN handles : handles[h].file \in 1..Len(files)
  BY <1>1 DEF TypeInv, FileTypes
<1>4. CASE path' = 0 /\ files' = files
  BY <1>1, <1>2, <1>3, <1>4 DEF FreshPath
<1>5. CASE path' = Len(files) + 1 /\ files' = Append(files, <<>>)
  <2>1. /\ Len(files') = Len(files) + 1 /\ DOMAIN files' = 1..Len(files')
        /\ \A f \in 1..Len(files) : files'[f] = files[f]
        /\ files'[Len(files) + 1] = <<>>
    BY <1>1, <1>5, AppendProperties, LenProperties
  <2> QED
    BY <1>1, <1>2, <1>3, <1>5, <2>1 DEF FreshPath
<1> QED
  BY <1>4, <1>5, Zenon DEF Rename

-----------------------------------------------------------------------------
(* The inductive invariant.                                                *)

\* A behaviour that is not clean stays so.
LEMMA StaysUnclean == [Next]_vars /\ clean' => clean
  BY Zenon DEF Next, vars, signalVars, StartLogging, reopen, reopen_error, reopen_skipped,
               make_writer, write, Rename, Kill, Collect

LEMMA SignalStep ==
    ASSUME TypeInv, OneSignal, [Next]_vars, clean'
    PROVE  OneSignal'
<1>1. CASE reopen \/ reopen_error \/ reopen_skipped
  <2>1. queue > 0 /\ queue' = queue - 1 /\ UNCHANGED <<signal, rotator>>
    BY <1>1, Zenon DEF reopen, reopen_error, reopen_skipped
  <2>2. queue' = 0 /\ ~signal /\ rotator = "idle"
    BY <2>1 DEF OneSignal, OnTheirWay, TypeInv, CountTypes
  <2> QED
    BY <2>1, <2>2 DEF OneSignal, OnTheirWay
<1>2. CASE Rename
  <2>1. ~OnTheirWay /\ UNCHANGED <<signal, queue>>
    BY <1>2, Zenon DEF Rename
  <2> QED
    BY <2>1 DEF OneSignal, OnTheirWay
<1>3. CASE Kill
  <2>1. rotator = "renamed" /\ UNCHANGED queue /\ rotator' = "idle"
    BY <1>3, Zenon DEF Kill
  <2> QED
    BY <2>1 DEF OneSignal, OnTheirWay, TypeInv, CountTypes
<1>4. CASE Collect
  BY <1>4 DEF Collect, OneSignal, OnTheirWay, TypeInv, CountTypes
<1>5. CASE UNCHANGED signalVars
  BY <1>5, SMTT(30) DEF signalVars, OneSignal, OnTheirWay
<1>6. (\E t \in Threads : make_writer(t) \/ write(t)) \/ StartLogging \/ UNCHANGED vars
        => UNCHANGED signalVars
  BY ZenonT(60) DEF make_writer, write, StartLogging, vars
<1> QED
  BY <1>1, <1>2, <1>3, <1>4, <1>5, <1>6 DEF Next

\* What a step makes of the files while the rotation is clean: lines are added
\* by writing and never removed.
LEMMA CleanStep ==
    ASSUME TypeInv, StartInv, CleanInv, [Next]_vars, clean'
    PROVE  /\ CleanInv'
           /\ \A f \in DOMAIN files :
                 /\ f \in DOMAIN files'
                 /\ \A n \in DOMAIN files[f] : n \in DOMAIN files'[f] /\ files'[f][n] = files[f][n]
           /\ \A f \in DOMAIN files' : \A n \in DOMAIN files'[f] :
                 \/ f \in DOMAIN files /\ n \in DOMAIN files[f]
                 \/ files'[f][n] # 0
           /\ \A l \in written' \ written :
                 \E f \in DOMAIN files' : \E n \in DOMAIN files'[f] : files'[f][n] = l
<1> DEFINE Kept == \A f \in DOMAIN files :
                       /\ f \in DOMAIN files'
                       /\ \A n \in DOMAIN files[f] :
                             n \in DOMAIN files'[f] /\ files'[f][n] = files[f][n]
           Full == \A f \in DOMAIN files' : \A n \in DOMAIN files'[f] :
                       \/ f \in DOMAIN files /\ n \in DOMAIN files[f]
                       \/ files'[f][n] # 0
           Found == \A l \in written' \ written :
                       \E f \in DOMAIN files' : \E n \in DOMAIN files'[f] : files'[f][n] = l
           Goal == PathInv' /\ OwnFile' /\ Kept /\ Full /\ Found
<1>1. OneSignal'
  BY SignalStep DEF CleanInv
<1>2. OneSignal /\ PathInv /\ OwnFile
  BY DEF CleanInv
<1>3. DOMAIN <<>> = {}
  OBVIOUS
<1>4. ASSUME FreshPath, OpenTruncated, ~OnTheirWay', rotator' = "idle", ~failed',
             UNCHANGED written
      PROVE  Goal
  <2>1. /\ \A f \in DOMAIN files : f \in DOMAIN files' /\ files'[f] = files[f]
        /\ \A f \in DOMAIN files' : f \in DOMAIN files \/ files'[f] = <<>>
        /\ OwnFile'
        /\ handles'[current'].file = path' /\ current' > 0
    BY <1>2, <1>4, OpenFresh
  <2>2. PathInv'
    BY <1>4, <2>1 DEF PathInv
  <2>3. Kept /\ Full /\ Found
    BY <1>3, <1>4, <2>1
  <2> QED
    BY <2>1, <2>2, <2>3
<1>5. ASSUME UNCHANGED <<fileVars, handles, current, written>>, PathInv'
      PROVE  Goal
  <2>1. Kept /\ Full /\ Found
    BY <1>5 DEF fileVars
  <2>2. OwnFile'
    BY <1>2, <1>5 DEF OwnFile, fileVars
  <2> QED
    BY <1>5, <2>1, <2>2
<1> HIDE DEF Goal
<1>6. ASSUME StartLogging PROVE Goal
  <2>1. current = 0 /\ configured /\ OpenTruncated /\ UNCHANGED <<written, signalVars, failed>>
    BY <1>6 DEF StartLogging, lineVars
  <2>2. ~OnTheirWay' /\ rotator' = "idle" /\ ~failed'
    BY <2>1 DEF StartInv, OnTheirWay, signalVars
  <2>3. FreshPath
    BY <1>2, <2>1 DEF PathInv
  <2> QED
    BY <1>4, <2>1, <2>2, <2>3
<1>7. ASSUME reopen PROVE Goal
  <2>1. OpenTruncated /\ UNCHANGED <<written, signal, rotator>> /\ queue > 0 /\ queue' = queue - 1
        /\ failed' = FALSE
    BY <1>7 DEF reopen, lineVars
  <2>2. OnTheirWay
    BY <2>1 DEF OnTheirWay
  <2>3. ~OnTheirWay' /\ rotator' = "idle"
    BY <1>2, <2>1, <2>2 DEF OneSignal, OnTheirWay, TypeInv, CountTypes
  <2>4. FreshPath
    BY <1>2, <2>2 DEF PathInv
  <2> QED
    BY <1>4, <2>1, <2>3, <2>4
<1>8. ASSUME reopen_error PROVE Goal
  <2>1. /\ UNCHANGED <<fileVars, handles, current, written>> /\ queue > 0 /\ failed' = TRUE
    BY <1>8 DEF reopen_error, lineVars
  <2>2. FreshPath
    BY <1>2, <2>1 DEF PathInv, OnTheirWay
  <2>3. PathInv'
    BY <2>1, <2>2 DEF PathInv, FreshPath, fileVars
  <2> QED
    BY <1>5, <2>1, <2>3
<1>9. ASSUME reopen_skipped PROVE Goal
  <2>1. /\ UNCHANGED <<fileVars, handles, current, written>> /\ current = 0
    BY <1>9 DEF reopen_skipped, StartInv, lineVars
  <2>2. PathInv'
    BY <1>2, <2>1 DEF PathInv, FreshPath, fileVars
  <2> QED
    BY <1>5, <2>1, <2>2
<1>10. ASSUME NEW t \in Threads, make_writer(t) PROVE Goal
  <2>1. UNCHANGED <<fileVars, handles, current, written, signalVars, failed>>
    BY <1>10 DEF make_writer
  <2>2. PathInv'
    BY <1>2, <2>1 DEF PathInv, FreshPath, OnTheirWay, fileVars, signalVars
  <2> QED
    BY <1>5, <2>1, <2>2
<1>11. ASSUME NEW t \in Threads, write(t) PROVE Goal
  <2>1. UNCHANGED <<path, current, signalVars, failed>> /\ written' = written \cup {writer[t].line}
    BY <1>11, SMTT(30) DEF write
  <2>2. /\ DOMAIN handles' = DOMAIN handles
        /\ \A g \in DOMAIN handles : handles'[g].file = handles[g].file
        /\ writer[t].line \in Nat \ {0}
    BY <1>11, WriteFacts
  <2>3. PathInv'
    <3>1. DOMAIN handles = 1..Len(handles) /\ Len(handles) \in Nat /\ current = Len(handles)
      BY LenProperties DEF TypeInv, FileTypes
    <3>2. FreshPath => FreshPath'
      BY <2>1, <2>2 DEF FreshPath
    <3>3. current > 0 => handles'[current].file = handles[current].file
      BY <2>2, <3>1, SMTT(30)
    <3> QED
      BY <1>2, <2>1, <3>1, <3>2, <3>3 DEF PathInv, OnTheirWay, signalVars
  <2>4. OwnFile' /\ Kept /\ Full /\ Found
    BY <1>2, <1>11, <2>1, <2>2, WriteOwn, SMTT(30)
  <2> QED
    BY <2>3, <2>4 DEF Goal
<1>12. ASSUME Rename PROVE Goal
  <2>1. /\ \A f \in DOMAIN files : f \in DOMAIN files' /\ files'[f] = files[f]
        /\ \A f \in DOMAIN files' : f \in DOMAIN files \/ files'[f] = <<>>
        /\ UNCHANGED handles /\ FreshPath'
    BY <1>12, RenameFacts
  <2>2. rotator' = "renamed" /\ UNCHANGED written
    BY <1>12 DEF Rename, lineVars
  <2>3. PathInv'
    BY <2>1, <2>2 DEF PathInv
  <2>4. Kept /\ Full /\ Found
    BY <1>3, <2>1, <2>2
  <2>5. OwnFile'
    <3>1. \A h \in DOMAIN handles : handles[h].file \in DOMAIN files
      BY DEF TypeInv, FileTypes
    <3> QED
      BY <1>2, <2>1, <3>1 DEF OwnFile
  <2> QED
    BY <2>3, <2>4, <2>5 DEF Goal
<1>13. ASSUME Kill PROVE Goal
  <2>1. /\ UNCHANGED <<fileVars, handles, current, written>> /\ rotator = "renamed"
        /\ signal' = TRUE
    BY <1>13, Zenon DEF Kill, lineVars
  <2>2. PathInv'
    BY <1>2, <2>1 DEF PathInv, FreshPath, OnTheirWay, fileVars
  <2> QED
    BY <1>5, <2>1, <2>2
<1>14. ASSUME Collect PROVE Goal
  <2>1. /\ UNCHANGED <<fileVars, handles, current, written>> /\ signal /\ queue' = queue + 1
    BY <1>14 DEF Collect, lineVars
  <2>2. OnTheirWay /\ OnTheirWay'
    BY <2>1 DEF OnTheirWay, TypeInv, CountTypes
  <2>3. PathInv'
    BY <1>2, <2>1, <2>2 DEF PathInv, FreshPath, fileVars
  <2> QED
    BY <1>5, <2>1, <2>3
<1>15. ASSUME UNCHANGED vars PROVE Goal
  <2>1. UNCHANGED <<fileVars, handles, current, written, signalVars, failed>>
    BY <1>15 DEF vars, lineVars
  <2>2. PathInv'
    BY <1>2, <2>1 DEF PathInv, FreshPath, OnTheirWay, fileVars, signalVars
  <2> QED
    BY <1>5, <2>1, <2>2
<1>16. Goal
  BY <1>6, <1>7, <1>8, <1>9, <1>10, <1>11, <1>12, <1>13, <1>14, <1>15 DEF Next
<1> QED
  BY <1>1, <1>16 DEF Goal, CleanInv

LEMMA StepIInv == IInv /\ [Next]_vars => IInv'
<1> SUFFICES ASSUME IInv, [Next]_vars PROVE IInv'
  OBVIOUS
<1>1. TypeInv' /\ StartInv'
  BY TypeStep, StartStep DEF IInv
<1>2. CASE ~clean'
  BY <1>1, <1>2 DEF IInv, NoLineLost, NotSparse
<1>3. CASE clean'
  <2>1. clean /\ CleanInv /\ TypeInv /\ StartInv
    BY <1>3, StaysUnclean DEF IInv
  <2>2. CleanInv'
    BY <1>3, <2>1, CleanStep
  <2>3. NoLineLost'
    <3> SUFFICES ASSUME NEW l \in written'
                 PROVE  \E f \in DOMAIN files' : \E n \in DOMAIN files'[f] : files'[f][n] = l
      BY DEF NoLineLost, Holds
    <3>1. CASE l \in written
      <4>1. PICK f \in DOMAIN files : \E n \in DOMAIN files[f] : files[f][n] = l
        BY <2>1, <3>1 DEF IInv, NoLineLost, Holds
      <4> QED
        BY <1>3, <2>1, <4>1, CleanStep
    <3>2. CASE l \notin written
      BY <1>3, <2>1, <3>2, CleanStep
    <3> QED
      BY <3>1, <3>2
  <2>4. NotSparse'
    <3> SUFFICES ASSUME NEW f \in DOMAIN files', NEW n \in DOMAIN files'[f]
                 PROVE  files'[f][n] # 0
      BY DEF NotSparse, Holds
    <3>1. CASE f \in DOMAIN files /\ n \in DOMAIN files[f]
      <4>1. files[f][n] # 0
        BY <2>1, <3>1 DEF IInv, NotSparse, Holds
      <4> QED
        BY <1>3, <2>1, <3>1, <4>1, CleanStep
    <3> QED
      BY <1>3, <2>1, <3>1, CleanStep
  <2> QED
    BY <1>1, <2>2, <2>3, <2>4 DEF IInv
<1> QED
  BY <1>2, <1>3

LEMMA Invariance == Spec => []IInv
  BY InitIInv, StepIInv, PTL DEF Spec

-----------------------------------------------------------------------------
(* The theorems.                                                           *)

\* Handles and offsets are those of files that exist, whatever the rotator and
\* the operator do (ReopenableFileWriter).
THEOREM TypeCorrect == Spec => []TypeInv
<1>1. IInv => TypeInv
  BY DEF IInv
<1> QED
  BY <1>1, Invariance, PTL

\* No line is lost by a clean rotation, for any number of threads that write
\* while the file is renamed and reopened (ReopenableFileWriterHandle::write).
THEOREM LinesAreKept == Spec => []NoLineLost
<1>1. IInv => NoLineLost
  BY DEF IInv
<1> QED
  BY <1>1, Invariance, PTL

\* A clean rotation leaves no hole in any file, although every handle writes at
\* an offset of its own (ReopenableFileWriterHandle::write).
THEOREM FilesAreDense == Spec => []NotSparse
<1>1. IInv => NotSparse
  BY DEF IInv
<1> QED
  BY <1>1, Invariance, PTL

\* After a clean rotation that did not fail, new lines go to the file at the
\* path (LogReopenHandle::reopen).
THEOREM LinesFollowPath == Spec => []FollowsPath
<1>1. IInv => FollowsPath
  BY DEF IInv, CleanInv, PathInv, FollowsPath, TypeInv, FileTypes
<1> QED
  BY <1>1, Invariance, PTL
=============================================================================
