---------------------------- MODULE ConfigReload ----------------------------
(***************************************************************************)
(* Configuration reload: the file on disk and whoever writes it, the two   *)
(* ways a reload is requested (the signal task and admin requests), and    *)
(* ConfigReloadHandle, which swaps the two configurations.                 *)
(*                                                                         *)
(* The file goes through the versions 1, 2, ...; what a version contains   *)
(* is a constant.  Version 1 is the one the process started with.          *)
(***************************************************************************)
EXTENDS Integers, Sequences

CONSTANTS
    Sighup,        \* the signal task, as a reloader
    Admins,        \* admin requests
    MaxVersion,    \* bound on the versions of the file
    Content,       \* what each version contains
    CliFlag,       \* --allow-wildcard-bind
    AtomicWrites,  \* the file is only replaced by rename, never rewritten in place
    IoErrors,      \* whether reading the file can fail
    MaxClock       \* bound on the clock of the file system

Reloaders == {Sighup} \cup Admins
Versions == 1..MaxVersion

\* static stands for the StaticConfig, wildcard says that a listener binds to
\* 0.0.0.0, allows is allow_wildcard_bind, sane that every other test of
\* validate passes and fits that validate_nofile passes.  torn says that a
\* prefix of the version, read while it is being written, parses and is sane.
ContentType ==
    [static : Nat, wildcard : BOOLEAN, allows : BOOLEAN, sane : BOOLEAN, fits : BOOLEAN,
     torn : BOOLEAN]

ASSUME ReloadersAssumption == Sighup \notin Admins
ASSUME BoundsAssumption == MaxVersion \in Nat \ {0} /\ MaxClock \in Nat
ASSUME ContentAssumption == Content \in [Versions -> ContentType]
ASSUME FlagsAssumption == {CliFlag, AtomicWrites, IoErrors} \subseteq BOOLEAN

VARIABLES
    file,      \* the file: version, whether it is whole, modification time
    clock,     \* clock of the file system, in units of its granularity
    pc,        \* where each reload is
    mtime,     \* its metadata_before.modified()
    got,       \* the content it read
    changed,   \* its changed_fields is not empty
    answer,    \* its outcome: the admin's response, or what is logged
    lock,      \* reload_mutex: its holder, then those that wait for it
    dynamic,   \* the DynamicConfig in ArcSwap, by the content it came from
    static     \* the last known StaticConfig

vars == <<file, clock, pc, mtime, got, changed, answer, lock, dynamic, static>>
storeVars == <<dynamic, static>>

Data == [ver : Versions, whole : BOOLEAN]
DataOf(f) == [ver |-> f.ver, whole |-> f.whole]

\* The StaticConfig of some content; a torn one lacks listeners.
StaticOf(d) == IF d.whole THEN Content[d.ver].static ELSE -1

\* validate: the flag stands for cli_allow_wildcard_bind.
validate(d, flag) ==
    LET c == Content[d.ver] IN
    /\ IF d.whole THEN c.sane ELSE c.torn
    /\ c.wildcard => c.allows \/ flag

\* fd_budget: max_connections fits the limit on open files.
validate_nofile(d) == Content[d.ver].fits

\* load_config at startup.
load_config(d) == validate(d, CliFlag) /\ validate_nofile(d)

\* What the process started with.
Started == [ver |-> 1, whole |-> TRUE]

ASSUME StartAssumption == load_config(Started)

\* Mutant: reload validation ignores how the process was started.
handle_flag_cli == FALSE

\* cli_allow_wildcard_bind of ConfigReloadHandle: load_config's flag.
handle_flag == Content[1].allows \/ CliFlag

Init ==
    /\ file = [ver |-> 1, whole |-> TRUE, mtime |-> 0]
    /\ clock = 0
    /\ pc = [r \in Reloaders |-> "idle"]
    /\ mtime = [r \in Reloaders |-> 0]
    /\ got = [r \in Reloaders |-> Started]
    /\ changed = [r \in Reloaders |-> FALSE]
    /\ answer = [r \in Reloaders |-> "none"]
    /\ lock = <<>>
    /\ dynamic = Started
    /\ static = Started

-----------------------------------------------------------------------------
(* The operator's side of the file.                                        *)

\* rename() of a new version over the file.
Replace ==
    /\ file.whole /\ file.ver < MaxVersion
    /\ file' = [ver |-> file.ver + 1, whole |-> TRUE, mtime |-> clock]
    /\ UNCHANGED <<clock, pc, mtime, got, changed, answer, lock, storeVars>>

\* A new version is written in place, in two steps.
WriteStarts ==
    /\ ~AtomicWrites /\ file.whole /\ file.ver < MaxVersion
    /\ file' = [ver |-> file.ver + 1, whole |-> FALSE, mtime |-> clock]
    /\ UNCHANGED <<clock, pc, mtime, got, changed, answer, lock, storeVars>>

WriteEnds ==
    /\ ~file.whole
    /\ file' = [file EXCEPT !.whole = TRUE, !.mtime = clock]
    /\ UNCHANGED <<clock, pc, mtime, got, changed, answer, lock, storeVars>>

Tick ==
    /\ clock < MaxClock
    /\ clock' = clock + 1
    /\ UNCHANGED <<file, pc, mtime, got, changed, answer, lock, storeVars>>

-----------------------------------------------------------------------------
(* read_and_validate_config.  Every file operation is an await.            *)

\* An admin request that passed the middleware, or a SIGHUP.
Start(r) ==
    /\ pc[r] = "idle"
    /\ pc' = [pc EXCEPT ![r] = "before"]
    /\ answer' = [answer EXCEPT ![r] = "none"]
    /\ UNCHANGED <<file, clock, mtime, got, changed, lock, storeVars>>

MetadataBefore(r) ==
    /\ pc[r] = "before"
    /\ pc' = [pc EXCEPT ![r] = "read"]
    /\ mtime' = [mtime EXCEPT ![r] = file.mtime]
    /\ UNCHANGED <<file, clock, got, changed, answer, lock, storeVars>>

ReadFile(r) ==
    /\ pc[r] = "read"
    /\ pc' = [pc EXCEPT ![r] = "after"]
    /\ got' = [got EXCEPT ![r] = DataOf(file)]
    /\ UNCHANGED <<file, clock, mtime, changed, answer, lock, storeVars>>

\* The handler returns with an outcome; its locals are gone.
Finish(r, outcome) ==
    /\ pc' = [pc EXCEPT ![r] = "idle"]
    /\ answer' = [answer EXCEPT ![r] = outcome]
    /\ mtime' = [mtime EXCEPT ![r] = 0]
    /\ got' = [got EXCEPT ![r] = Started]
    /\ changed' = [changed EXCEPT ![r] = FALSE]

FileError(r) ==
    /\ IoErrors /\ pc[r] \in {"before", "read", "after"}
    /\ Finish(r, "ioerror")
    /\ UNCHANGED <<file, clock, lock, storeVars>>

\* metadata_after, the comparison, parsing and validation.
MetadataAfter(r) ==
    /\ pc[r] = "after"
    /\ IF mtime[r] # file.mtime THEN Finish(r, "conflict")
       ELSE IF validate(got[r], handle_flag)
       THEN pc' = [pc EXCEPT ![r] = "parsed"] /\ UNCHANGED <<mtime, got, changed, answer>>
       ELSE Finish(r, "error")
    /\ UNCHANGED <<file, clock, lock, storeVars>>

-----------------------------------------------------------------------------
(* ConfigReloadHandle::reload.                                             *)

Holds(r) == lock # <<>> /\ Head(lock) = r

\* reload_mutex.lock(): acquired at once, or queued.
Lock(r) ==
    /\ pc[r] = "parsed"
    /\ pc' = [pc EXCEPT ![r] = "lock"]
    /\ lock' = Append(lock, r)
    /\ UNCHANGED <<file, clock, mtime, got, changed, answer, storeVars>>

\* Mutant: the mutex is not waited for.
CheckUnlocked(r) ==
    /\ pc[r] = "lock"
    /\ pc' = [pc EXCEPT ![r] = "swap"]
    /\ changed' = [changed EXCEPT ![r] = StaticOf(static) # StaticOf(got[r])]
    /\ UNCHANGED <<file, clock, mtime, got, answer, lock, storeVars>>

\* Mutant: a reload that fails does not unlock.
CheckKeepsLock(r) ==
    /\ pc[r] = "lock" /\ Holds(r)
    /\ IF validate(got[r], handle_flag) /\ validate_nofile(got[r])
       THEN /\ pc' = [pc EXCEPT ![r] = "swap"]
            /\ changed' = [changed EXCEPT ![r] = StaticOf(static) # StaticOf(got[r])]
            /\ UNCHANGED <<mtime, got, answer>>
       ELSE Finish(r, "error")
    /\ UNCHANGED <<file, clock, lock, storeVars>>

\* With the mutex held: validate again, validate_nofile, diff_static_config.
Check(r) ==
    /\ pc[r] = "lock" /\ Holds(r)
    /\ IF validate(got[r], handle_flag) /\ validate_nofile(got[r])
       THEN /\ pc' = [pc EXCEPT ![r] = "swap"]
            /\ changed' = [changed EXCEPT ![r] = StaticOf(static) # StaticOf(got[r])]
            /\ UNCHANGED <<mtime, got, answer, lock>>
       ELSE /\ Finish(r, "error")
            /\ lock' = Tail(lock)
    /\ UNCHANGED <<file, clock, storeVars>>

StoreDynamic(r) ==
    /\ pc[r] = "swap"
    /\ pc' = [pc EXCEPT ![r] = "swapped"]
    /\ dynamic' = got[r]
    /\ UNCHANGED <<file, clock, mtime, got, changed, answer, lock, static>>

\* The second store; the mutex is released on return.
StoreStatic(r) ==
    /\ pc[r] = "swapped"
    /\ static' = got[r]
    /\ lock' = Tail(lock)
    /\ Finish(r, "ok")
    /\ UNCHANGED <<file, clock, dynamic>>

\* The client of an admin request goes away: its handler is dropped where it
\* awaits, which is nowhere between Check and the end.
DroppedReading(r) ==
    /\ pc[r] \in {"before", "read", "after"}
    /\ Finish(r, "dropped")
    /\ UNCHANGED <<file, clock, lock, storeVars>>

\* A waiter leaves the queue of the mutex; one that was just handed the mutex
\* passes it on.
DroppedWaiting(r) ==
    /\ pc[r] = "lock"
    /\ \E i \in 1..Len(lock) :
          /\ lock[i] = r
          /\ lock' = [j \in 1..(Len(lock) - 1) |-> IF j < i THEN lock[j] ELSE lock[j + 1]]
    /\ Finish(r, "dropped")
    /\ UNCHANGED <<file, clock, storeVars>>

-----------------------------------------------------------------------------

FileStep == Replace \/ WriteStarts \/ WriteEnds \/ Tick
ReloadStep(r) ==
    \/ MetadataBefore(r) \/ ReadFile(r) \/ MetadataAfter(r)
    \/ Lock(r) \/ Check(r) \/ StoreDynamic(r) \/ StoreStatic(r)

Next ==
    \/ FileStep
    \/ \E r \in Reloaders : Start(r) \/ FileError(r) \/ ReloadStep(r)
    \/ \E r \in Admins : DroppedReading(r) \/ DroppedWaiting(r)

Spec == Init /\ [][Next]_vars

\* No two versions of the file have the same modification time.
DistinctTimesSpec == Init /\ [][Next /\ (file' # file => file'.mtime # file.mtime)]_vars

\* The executor polls every reload whose await is over.
Fairness == \A r \in Reloaders : WF_vars(ReloadStep(r))
FairSpec == Spec /\ Fairness

-----------------------------------------------------------------------------
(* Properties.                                                             *)

Stages == {"idle", "before", "read", "after", "parsed", "lock", "swap", "swapped"}
Outcomes == {"none", "ok", "conflict", "error", "ioerror", "dropped"}

StateTypes ==
    /\ file \in [ver : Versions, whole : BOOLEAN, mtime : 0..MaxClock]
    /\ clock \in 0..MaxClock
    /\ pc \in [Reloaders -> Stages]
    /\ mtime \in [Reloaders -> 0..MaxClock]
    /\ got \in [Reloaders -> Data]
    /\ changed \in [Reloaders -> BOOLEAN]
    /\ answer \in [Reloaders -> Outcomes]
    /\ lock \in Seq(Reloaders)
    /\ dynamic \in Data
    /\ static \in Data

\* The types, and the queue of reload_mutex lists no reload twice.
TypeOK == StateTypes /\ \A i, j \in 1..Len(lock) : lock[i] = lock[j] => i = j

\* Whenever no reload is between its two stores, the static configuration that
\* the next diff_static_config compares with belongs to the dynamic one that is
\* served, whatever reloads run at the same time and whichever are dropped.
StoredTogether == (\A r \in Reloaders : pc[r] # "swapped") => static = dynamic

\* A reload warns that a restart is required if and only if the StaticConfig it
\* stores differs from the one stored just before (diff_static_config): a
\* change is reported by one reload, not by none and not by two.
WarnsExactly ==
    [][\A r \in Reloaders :
        pc[r] = "swapped" /\ pc'[r] = "idle" =>
            (changed[r] <=> StaticOf(static) # StaticOf(static'))]_vars

\* A reload rejects a configuration only if load_config would have refused to
\* start with it: the flag in ConfigReloadHandle covers the command line and
\* the configuration the process was started with.
RejectsOnlyUnstartable ==
    [][\A r \in Reloaders :
        pc[r] # "idle" /\ pc'[r] = "idle" /\ answer'[r] = "error" => ~load_config(got[r])]_vars

\* Every reload comes to an end: nobody keeps reload_mutex, not a reload that
\* fails and not a request that is dropped while it waits.
ReloadEnds == \A r \in Reloaders : (pc[r] # "idle") ~> (pc[r] = "idle")

\* What docs/architecture/config.md says of reload_mutex: an older version of
\* the file is never applied over a newer one.
NeverOlder == [][dynamic'.ver >= dynamic.ver]_vars
=============================================================================
