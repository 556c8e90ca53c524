------------------------- MODULE ConfigReloadProofs -------------------------
(***************************************************************************)
(* Proofs about ConfigReload, for any number of concurrent reloads and any *)
(* contents of the file, and that ControlPlane implements it, for any      *)
(* signals.                                                                *)
(***************************************************************************)
EXTENDS ControlPlane, TLAPS

Locked == {"lock", "swap", "swapped"}

\* reload_mutex: the queue lists each reload that is in reload() once, and only
\* its head is past the acquisition.
LockInv ==
    /\ \A r \in Reloaders : pc[r] \in Locked <=> \E i \in 1..Len(lock) : lock[i] = r
    /\ \A i, j \in 1..Len(lock) : lock[i] = lock[j] => i = j
    /\ \A r \in Reloaders : pc[r] \in {"swap", "swapped"} => lock[1] = r

\* What the holder of the mutex knows.
StoreInv ==
    /\ StoredTogether
    /\ \A r \in Reloaders :
         /\ pc[r] \in {"swap", "swapped"} =>
              (changed[r] <=> StaticOf(static) # StaticOf(got[r]))
         /\ pc[r] = "swapped" => dynamic = got[r]

ReloadInv == StateTypes /\ LockInv /\ StoreInv

-----------------------------------------------------------------------------
(* Type correctness.                                                       *)

LEMMA InitType == Init => StateTypes
  <1>1. 1 \in Versions /\ 0 \in 0..MaxClock
    BY BoundsAssumption DEF Versions
  <1> QED
    BY <1>1 DEF Init, StateTypes, Data, Stages, Outcomes, Started

\* Unlocking takes the head of the queue away.
LEMMA TailOfLock ==
    ASSUME lock \in Seq(Reloaders), lock # <<>>
    PROVE  /\ Tail(lock) \in Seq(Reloaders)
           /\ Len(Tail(lock)) = Len(lock) - 1
           /\ \A i \in 1..Len(Tail(lock)) : Tail(lock)[i] = lock[i + 1]
  OBVIOUS

LEMMA AppendToLock ==
    ASSUME lock \in Seq(Reloaders), NEW r \in Reloaders
    PROVE  /\ Append(lock, r) \in Seq(Reloaders)
           /\ Len(Append(lock, r)) = Len(lock) + 1
           /\ \A i \in 1..Len(lock) : Append(lock, r)[i] = lock[i]
           /\ Append(lock, r)[Len(lock) + 1] = r
  OBVIOUS

\* A waiter leaves the queue.
LEMMA LeaveLock ==
    ASSUME lock \in Seq(Reloaders), NEW i \in 1..Len(lock),
           NEW s, s = [j \in 1..(Len(lock) - 1) |-> IF j < i THEN lock[j] ELSE lock[j + 1]]
    PROVE  /\ s \in Seq(Reloaders)
           /\ Len(s) = Len(lock) - 1
  <1>1. Len(lock) - 1 \in Nat
    OBVIOUS
  <1>2. \A j \in 1..(Len(lock) - 1) : (IF j < i THEN lock[j] ELSE lock[j + 1]) \in Reloaders
    OBVIOUS
  <1>3. s \in [1..(Len(lock) - 1) -> Reloaders]
    BY <1>2
  <1> QED
    BY <1>1, <1>3

LEMMA FinishType ==
    ASSUME StateTypes, NEW r \in Reloaders, NEW o \in Outcomes, Finish(r, o)
    PROVE  /\ pc' \in [Reloaders -> Stages]
           /\ answer' \in [Reloaders -> Outcomes]
           /\ mtime' \in [Reloaders -> 0..MaxClock]
           /\ got' \in [Reloaders -> Data]
           /\ changed' \in [Reloaders -> BOOLEAN]
  BY BoundsAssumption DEF StateTypes, Finish, Stages, Started, Data, Versions

LEMMA StepType == StateTypes /\ LockInv /\ [Next]_vars => StateTypes'
  <1> SUFFICES ASSUME StateTypes, LockInv, [Next]_vars PROVE StateTypes'
    OBVIOUS
  <1> USE BoundsAssumption
  <1>0. {"ok", "conflict", "error", "ioerror", "dropped"} \subseteq Outcomes
    BY DEF Outcomes
  <1>1. CASE FileStep
    <2>1. /\ file' \in [ver : Versions, whole : BOOLEAN, mtime : 0..MaxClock]
          /\ clock' \in 0..MaxClock
      <3>1. CASE Replace
        BY <3>1 DEF Replace, StateTypes, Versions
      <3>2. CASE WriteStarts
        BY <3>2 DEF WriteStarts, StateTypes, Versions
      <3>3. CASE WriteEnds
        BY <3>3, ZenonT(30) DEF WriteEnds, StateTypes
      <3>4. CASE Tick
        BY <3>4 DEF Tick, StateTypes
      <3> QED
        BY <1>1, <3>1, <3>2, <3>3, <3>4 DEF FileStep
    <2>2. UNCHANGED <<pc, mtime, got, changed, answer, lock, dynamic, static>>
      BY <1>1 DEF FileStep, Replace, WriteStarts, WriteEnds, Tick, storeVars
    <2> QED
      BY <2>1, <2>2 DEF StateTypes
  <1>2. ASSUME NEW r \in Reloaders, Start(r) \/ MetadataBefore(r) \/ ReadFile(r)
        PROVE  StateTypes'
    <2>1. DataOf(file) \in Data
      BY DEF DataOf, Data, StateTypes
    <2>2. /\ pc' \in [Reloaders -> Stages] /\ answer' \in [Reloaders -> Outcomes]
          /\ mtime' \in [Reloaders -> 0..MaxClock] /\ got' \in [Reloaders -> Data]
      <3>1. CASE Start(r)
        BY <3>1 DEF Start, StateTypes, Stages, Outcomes
      <3>2. CASE MetadataBefore(r)
        BY <3>2 DEF MetadataBefore, StateTypes, Stages
      <3>3. CASE ReadFile(r)
        BY <2>1, <3>3 DEF ReadFile, StateTypes, Stages
      <3> QED
        BY <1>2, <3>1, <3>2, <3>3
    <2>3. UNCHANGED <<file, clock, changed, lock, dynamic, static>>
      BY <1>2 DEF Start, MetadataBefore, ReadFile, storeVars
    <2> QED
      BY <2>2, <2>3 DEF StateTypes
  <1>3. ASSUME NEW r \in Reloaders, FileError(r) \/ DroppedReading(r)
        PROVE  StateTypes'
    <2>1. UNCHANGED <<file, clock, lock, dynamic, static>>
      BY <1>3 DEF FileError, DroppedReading, storeVars
    <2>2. \E o \in Outcomes : Finish(r, o)
      BY <1>0, <1>3 DEF FileError, DroppedReading
    <2> QED
      BY <2>1, <2>2, FinishType DEF StateTypes
  <1>4. ASSUME NEW r \in Reloaders, MetadataAfter(r)
        PROVE  StateTypes'
    <2>1. UNCHANGED <<file, clock, lock, dynamic, static>>
      BY <1>4 DEF MetadataAfter, storeVars
    <2>2. \/ \E o \in Outcomes : Finish(r, o)
          \/ pc' = [pc EXCEPT ![r] = "parsed"] /\ UNCHANGED <<mtime, got, changed, answer>>
      BY <1>0, <1>4 DEF MetadataAfter
    <2>3. CASE \E o \in Outcomes : Finish(r, o)
      BY <2>1, <2>3, FinishType DEF StateTypes
    <2>4. CASE pc' = [pc EXCEPT ![r] = "parsed"] /\ UNCHANGED <<mtime, got, changed, answer>>
      BY <2>1, <2>4 DEF StateTypes, Stages
    <2> QED
      BY <2>2, <2>3, <2>4
  <1>5. ASSUME NEW r \in Reloaders, Lock(r)
        PROVE  StateTypes'
    <2>1. lock' \in Seq(Reloaders)
      BY <1>5, AppendToLock DEF Lock, StateTypes
    <2>2. UNCHANGED <<file, clock, mtime, got, changed, answer, dynamic, static>>
      BY <1>5 DEF Lock, storeVars
    <2>3. pc' \in [Reloaders -> Stages]
      BY <1>5 DEF Lock, StateTypes, Stages
    <2> QED
      BY <2>1, <2>2, <2>3 DEF StateTypes
  <1>6. ASSUME NEW r \in Reloaders, Check(r)
        PROVE  StateTypes'
    <2>1. UNCHANGED <<file, clock, dynamic, static>> /\ lock # <<>>
      BY <1>6 DEF Check, Holds, storeVars
    <2>2. CASE /\ pc' = [pc EXCEPT ![r] = "swap"]
               /\ changed' = [changed EXCEPT ![r] = StaticOf(static) # StaticOf(got[r])]
               /\ UNCHANGED <<mtime, got, answer, lock>>
      <3>1. pc' \in [Reloaders -> Stages]
        BY <2>2 DEF StateTypes, Stages
      <3>2. changed' \in [Reloaders -> BOOLEAN]
        BY <2>2 DEF StateTypes
      <3> QED
        BY <2>1, <2>2, <3>1, <3>2 DEF StateTypes
    <2>3. CASE Finish(r, "error") /\ lock' = Tail(lock)
      <3>1. lock' \in Seq(Reloaders)
        BY <2>1, <2>3, TailOfLock DEF StateTypes
      <3> QED
        BY <1>0, <2>1, <2>3, <3>1, FinishType DEF StateTypes
    <2> QED
      BY <1>6, <2>2, <2>3 DEF Check
  <1>7. ASSUME NEW r \in Reloaders, StoreDynamic(r)
        PROVE  StateTypes'
    BY <1>7 DEF StoreDynamic, StateTypes, Stages
  <1>8. ASSUME NEW r \in Reloaders, StoreStatic(r)
        PROVE  StateTypes'
    <2>0. lock # <<>>
      BY <1>8 DEF StoreStatic, LockInv, Locked
    <2>1. lock' \in Seq(Reloaders)
      BY <1>8, <2>0, TailOfLock DEF StoreStatic, StateTypes
    <2>2. static' \in Data /\ UNCHANGED <<file, clock, dynamic>>
      BY <1>8 DEF StoreStatic, StateTypes
    <2> QED
      BY <1>0, <1>8, <2>1, <2>2, FinishType, SMTT(30) DEF StoreStatic, StateTypes
  <1>9. ASSUME NEW r \in Reloaders, DroppedWaiting(r)
        PROVE  StateTypes'
    <2>1. lock' \in Seq(Reloaders)
      BY <1>9, LeaveLock, SMTT(30) DEF DroppedWaiting, StateTypes
    <2>2. UNCHANGED <<file, clock, dynamic, static>>
      BY <1>9 DEF DroppedWaiting, storeVars
    <2> QED
      BY <1>0, <1>9, <2>1, <2>2, FinishType, SMTT(30) DEF DroppedWaiting, StateTypes
  <1>10. CASE UNCHANGED vars
    BY <1>10 DEF vars, StateTypes
  <1>11. Admins \subseteq Reloaders
    BY SMTT(30) DEF Reloaders
  <1> QED
    BY <1>1, <1>2, <1>3, <1>4, <1>5, <1>6, <1>7, <1>8, <1>9, <1>10, <1>11 DEF Next, ReloadStep

-----------------------------------------------------------------------------
(* The mutex.                                                              *)

\* The steps that do not touch reload_mutex.
Outside(r) ==
    \/ Start(r) \/ MetadataBefore(r) \/ ReadFile(r) \/ MetadataAfter(r)
    \/ FileError(r) \/ DroppedReading(r)

LEMMA OutsideStep ==
    ASSUME StateTypes, NEW r \in Reloaders, Outside(r)
    PROVE  /\ pc[r] \notin Locked /\ pc'[r] \notin Locked
           /\ pc' = [pc EXCEPT ![r] = pc'[r]]
           /\ UNCHANGED <<lock, dynamic, static>>
           /\ \A q \in Reloaders \ {r} : changed'[q] = changed[q] /\ got'[q] = got[q]
  <1>1. CASE Start(r)
    BY <1>1 DEF Start, StateTypes, Locked, storeVars
  <1>2. CASE MetadataBefore(r)
    BY <1>2 DEF MetadataBefore, StateTypes, Locked, storeVars
  <1>3. CASE ReadFile(r)
    BY <1>3 DEF ReadFile, StateTypes, Locked, storeVars
  <1>4. CASE MetadataAfter(r)
    BY <1>4 DEF MetadataAfter, Finish, StateTypes, Locked, storeVars
  <1>5. CASE FileError(r)
    BY <1>5 DEF FileError, Finish, StateTypes, Locked, storeVars
  <1>6. CASE DroppedReading(r)
    BY <1>6 DEF DroppedReading, Finish, StateTypes, Locked, storeVars
  <1> QED
    BY <1>1, <1>2, <1>3, <1>4, <1>5, <1>6 DEF Outside

\* The holder returns: the next in the queue becomes its head.
LEMMA UnlockStep ==
    ASSUME StateTypes, LockInv, NEW r \in Reloaders, lock # <<>>, lock[1] = r,
           lock' = Tail(lock), pc' = [pc EXCEPT ![r] = "idle"]
    PROVE  LockInv'
  <1>1. /\ Len(lock') = Len(lock) - 1 /\ Len(lock) \in Nat \ {0}
        /\ \A i \in 1..Len(lock') : lock'[i] = lock[i + 1]
    BY TailOfLock DEF StateTypes
  <1>2. pc'[r] = "idle" /\ \A q \in Reloaders \ {r} : pc'[q] = pc[q]
    BY DEF StateTypes
  <1>3. \A q \in Reloaders \ {r} : pc[q] \notin {"swap", "swapped"}
    BY DEF LockInv
  <1>4. \A i \in 1..Len(lock') : lock'[i] # r
    <2> SUFFICES ASSUME NEW i \in 1..Len(lock'), lock'[i] = r PROVE FALSE
      OBVIOUS
    <2>1. i + 1 \in 1..Len(lock) /\ 1 \in 1..Len(lock) /\ lock[i + 1] = lock[1] /\ i + 1 # 1
      BY <1>1
    <2> QED
      BY <2>1 DEF LockInv
  <1>5. \A q \in Reloaders \ {r} :
          (\E i \in 1..Len(lock') : lock'[i] = q) <=> (\E i \in 1..Len(lock) : lock[i] = q)
    <2> SUFFICES ASSUME NEW q \in Reloaders \ {r}
                 PROVE  (\E i \in 1..Len(lock') : lock'[i] = q) <=>
                          (\E i \in 1..Len(lock) : lock[i] = q)
      OBVIOUS
    <2>1. ASSUME NEW i \in 1..Len(lock'), lock'[i] = q PROVE \E j \in 1..Len(lock) : lock[j] = q
      BY <1>1, <2>1
    <2>2. ASSUME NEW j \in 1..Len(lock), lock[j] = q PROVE \E i \in 1..Len(lock') : lock'[i] = q
      <3>1. j # 1 /\ j - 1 \in 1..Len(lock') /\ lock'[j - 1] = q
        BY <1>1, <2>2
      <3> QED
        BY <3>1
    <2> QED
      BY <2>1, <2>2
  <1>6. \A i, j \in 1..Len(lock') : lock'[i] = lock'[j] => i = j
    <2> SUFFICES ASSUME NEW i \in 1..Len(lock'), NEW j \in 1..Len(lock'), lock'[i] = lock'[j]
                 PROVE  i = j
      OBVIOUS
    <2>1. i + 1 \in 1..Len(lock) /\ j + 1 \in 1..Len(lock) /\ lock[i + 1] = lock[j + 1]
      BY <1>1
    <2>2. i + 1 = j + 1
      BY <2>1 DEF LockInv
    <2> QED
      BY <2>2
  <1> QED
    BY <1>2, <1>3, <1>4, <1>5, <1>6 DEF LockInv, Locked

LEMMA LeaveStep ==
    ASSUME StateTypes, LockInv, NEW r \in Reloaders, DroppedWaiting(r)
    PROVE  LockInv'
  <1>1. PICK i \in 1..Len(lock) :
           /\ lock[i] = r
           /\ lock' = [j \in 1..(Len(lock) - 1) |-> IF j < i THEN lock[j] ELSE lock[j + 1]]
    BY DEF DroppedWaiting
  <1>2. Len(lock') = Len(lock) - 1 /\ Len(lock) \in Nat
    BY <1>1, LeaveLock DEF StateTypes
  <1>3. pc[r] = "lock" /\ pc' = [pc EXCEPT ![r] = "idle"]
    BY DEF DroppedWaiting, Finish
  <1>4. pc'[r] = "idle" /\ \A q \in Reloaders \ {r} : pc'[q] = pc[q]
    BY <1>3 DEF StateTypes
  <1> DEFINE f(j) == IF j < i THEN j ELSE j + 1
  <1>5. \A j \in 1..Len(lock') : f(j) \in 1..Len(lock) /\ f(j) # i /\ lock'[j] = lock[f(j)]
    BY <1>1, <1>2
  <1>6. \A k \in 1..Len(lock) : k # i => \E j \in 1..Len(lock') : f(j) = k
    <2> SUFFICES ASSUME NEW k \in 1..Len(lock), k # i
                 PROVE  \E j \in 1..Len(lock') : f(j) = k
      OBVIOUS
    <2>1. CASE k < i
      <3>1. k \in 1..Len(lock') /\ f(k) = k
        BY <1>2, <2>1
      <3> QED
        BY <3>1
    <2>2. CASE k > i
      <3>1. k - 1 \in 1..Len(lock') /\ f(k - 1) = k
        BY <1>2, <2>2
      <3> QED
        BY <3>1
    <2> QED
      BY <2>1, <2>2
  <1>7. \A j, k \in 1..Len(lock') : f(j) = f(k) => j = k
    BY <1>2
  <1> HIDE DEF f
  <1>8. \A j \in 1..Len(lock') : lock'[j] # r
    <2> SUFFICES ASSUME NEW j \in 1..Len(lock'), lock'[j] = r PROVE FALSE
      OBVIOUS
    <2>1. f(j) \in 1..Len(lock) /\ f(j) # i /\ lock[f(j)] = lock[i]
      BY <1>1, <1>5, ZenonT(30)
    <2> QED
      BY <2>1 DEF LockInv
  <1>9. \A q \in Reloaders \ {r} :
          (\E j \in 1..Len(lock') : lock'[j] = q) <=> (\E k \in 1..Len(lock) : lock[k] = q)
    <2> SUFFICES ASSUME NEW q \in Reloaders \ {r}
                 PROVE  (\E j \in 1..Len(lock') : lock'[j] = q)
                          <=> (\E k \in 1..Len(lock) : lock[k] = q)
      OBVIOUS
    <2>1. ASSUME NEW j \in 1..Len(lock'), lock'[j] = q
          PROVE  \E k \in 1..Len(lock) : lock[k] = q
      <3>1. f(j) \in 1..Len(lock) /\ lock[f(j)] = q
        BY <1>5, <2>1
      <3> QED
        BY <3>1
    <2>2. ASSUME NEW k \in 1..Len(lock), lock[k] = q
          PROVE  \E j \in 1..Len(lock') : lock'[j] = q
      <3>1. k # i
        BY <1>1, <2>2
      <3>2. PICK j \in 1..Len(lock') : f(j) = k
        BY <1>6, <3>1
      <3>3. lock'[j] = q
        BY <1>5, <2>2, <3>2
      <3> QED
        BY <3>3
    <2> QED
      BY <2>1, <2>2
  <1>10. \A j, k \in 1..Len(lock') : lock'[j] = lock'[k] => j = k
    <2> SUFFICES ASSUME NEW j \in 1..Len(lock'), NEW k \in 1..Len(lock'), lock'[j] = lock'[k]
                 PROVE  j = k
      OBVIOUS
    <2>1. f(j) \in 1..Len(lock) /\ f(k) \in 1..Len(lock) /\ lock[f(j)] = lock[f(k)]
      BY <1>5
    <2>2. f(j) = f(k)
      BY <2>1 DEF LockInv
    <2> QED
      BY <1>7, <2>2
  <1>11. ASSUME NEW q \in Reloaders, pc'[q] \in {"swap", "swapped"} PROVE lock'[1] = q
    <2>1. q # r /\ pc[q] \in {"swap", "swapped"}
      BY <1>4, <1>11
    <2>2. lock[1] = q
      BY <2>1 DEF LockInv
    <2>3. i # 1
      BY <1>1, <2>1, <2>2
    <2>4. 1 \in 1..Len(lock') /\ f(1) = 1
      BY <1>2, <2>3 DEF f
    <2> QED
      BY <1>5, <2>2, <2>4
  <1> QED
    BY <1>4, <1>8, <1>9, <1>10, <1>11, <1>3, SMTT(30) DEF LockInv, Locked

LEMMA StepLock == StateTypes /\ LockInv /\ [Next]_vars => LockInv'
  <1> SUFFICES ASSUME StateTypes, LockInv, [Next]_vars PROVE LockInv'
    OBVIOUS
  <1>1. CASE FileStep \/ UNCHANGED vars
    <2>1. UNCHANGED <<pc, lock>>
      BY <1>1 DEF FileStep, Replace, WriteStarts, WriteEnds, Tick, vars
    <2> QED
      BY <2>1 DEF LockInv
  <1>2. ASSUME NEW r \in Reloaders, Outside(r)
        PROVE  LockInv'
    <2>1. /\ pc[r] \notin Locked /\ pc'[r] \notin Locked /\ lock' = lock
          /\ \A q \in Reloaders \ {r} : pc'[q] = pc[q]
      BY <1>2, OutsideStep DEF StateTypes
    <2> QED
      BY <2>1 DEF LockInv, Locked
  <1>3. ASSUME NEW r \in Reloaders, Lock(r)
        PROVE  LockInv'
    <2>1. /\ Len(lock') = Len(lock) + 1 /\ Len(lock) \in Nat
          /\ \A i \in 1..Len(lock) : lock'[i] = lock[i]
          /\ lock'[Len(lock) + 1] = r
      BY <1>3, AppendToLock DEF Lock, StateTypes
    <2>2. /\ pc[r] = "parsed" /\ pc'[r] = "lock"
          /\ \A q \in Reloaders \ {r} : pc'[q] = pc[q]
      BY <1>3 DEF Lock, StateTypes
    <2>3. \A i \in 1..Len(lock) : lock[i] # r
      BY <2>2 DEF LockInv, Locked
    <2>4. \A q \in Reloaders : (\E i \in 1..Len(lock') : lock'[i] = q) <=>
                                 q = r \/ (\E i \in 1..Len(lock) : lock[i] = q)
      BY <2>1
    <2>5. \A i, j \in 1..Len(lock') : lock'[i] = lock'[j] => i = j
      BY <2>1, <2>3 DEF LockInv
    <2>6. ASSUME NEW q \in Reloaders, pc'[q] \in {"swap", "swapped"} PROVE lock'[1] = q
      <3>1. pc[q] \in {"swap", "swapped"}
        BY <2>2, <2>6
      <3>2. lock[1] = q /\ 1 \in 1..Len(lock)
        BY <2>1, <3>1 DEF LockInv, Locked
      <3> QED
        BY <2>1, <3>2
    <2> QED
      BY <2>2, <2>4, <2>5, <2>6 DEF LockInv, Locked
  <1>4. ASSUME NEW r \in Reloaders, Check(r)
        PROVE  LockInv'
    <2>1. pc[r] = "lock" /\ lock # <<>> /\ lock[1] = r
      BY <1>4 DEF Check, Holds, StateTypes
    <2>2. CASE pc' = [pc EXCEPT ![r] = "swap"] /\ lock' = lock
      <3>1. pc'[r] = "swap" /\ \A q \in Reloaders \ {r} : pc'[q] = pc[q]
        BY <2>2 DEF StateTypes
      <3> QED
        BY <2>1, <2>2, <3>1 DEF LockInv, Locked
    <2>3. CASE Finish(r, "error") /\ lock' = Tail(lock)
      BY <2>1, <2>3, UnlockStep, ZenonT(30) DEF Finish
    <2> QED
      BY <1>4, <2>2, <2>3 DEF Check
  <1>5. ASSUME NEW r \in Reloaders, StoreDynamic(r)
        PROVE  LockInv'
    <2>1. /\ pc[r] = "swap" /\ pc'[r] = "swapped" /\ lock' = lock
          /\ \A q \in Reloaders \ {r} : pc'[q] = pc[q]
      BY <1>5 DEF StoreDynamic, StateTypes
    <2> QED
      BY <2>1 DEF LockInv, Locked
  <1>6. ASSUME NEW r \in Reloaders, StoreStatic(r)
        PROVE  LockInv'
    <2>1. pc[r] = "swapped" /\ lock # <<>> /\ lock[1] = r
      BY <1>6 DEF StoreStatic, LockInv, Locked
    <2> QED
      BY <1>6, <2>1, UnlockStep, ZenonT(30) DEF StoreStatic, Finish
  <1>7. Admins \subseteq Reloaders
    BY DEF Reloaders
  <1> QED
    BY <1>1, <1>2, <1>3, <1>4, <1>5, <1>6, <1>7, LeaveStep DEF Next, ReloadStep, Outside

-----------------------------------------------------------------------------
(* The two stores.                                                         *)

\* Only one reload is between acquiring the mutex and returning.
LEMMA OneStores ==
    ASSUME LockInv, NEW r \in Reloaders, NEW q \in Reloaders,
           pc[r] \in {"swap", "swapped"}, pc[q] \in {"swap", "swapped"}
    PROVE  r = q
  BY DEF LockInv

LEMMA StepStore == StateTypes /\ LockInv /\ StoreInv /\ [Next]_vars => StoreInv'
  <1> SUFFICES ASSUME StateTypes, LockInv, StoreInv, [Next]_vars PROVE StoreInv'
    OBVIOUS
  <1>0. \A d : StaticOf(d)' = StaticOf(d)
    BY DEF StaticOf
  \* A step of r outside its stores that changes neither configuration.
  <1>a. ASSUME NEW r \in Reloaders,
               UNCHANGED <<dynamic, static>>,
               pc[r] \notin {"swap", "swapped"}, pc'[r] \notin {"swap", "swapped"},
               \A q \in Reloaders \ {r} :
                 pc'[q] = pc[q] /\ changed'[q] = changed[q] /\ got'[q] = got[q]
        PROVE  StoreInv'
    BY <1>a DEF StoreInv, StoredTogether, StaticOf
  <1>1. CASE FileStep \/ UNCHANGED vars
    <2>1. UNCHANGED <<pc, changed, got, dynamic, static>>
      BY <1>1 DEF FileStep, Replace, WriteStarts, WriteEnds, Tick, vars, storeVars
    <2> QED
      BY <2>1 DEF StoreInv, StoredTogether, StaticOf
  <1>2. ASSUME NEW r \in Reloaders, Outside(r)
        PROVE  StoreInv'
    <2>1. /\ pc[r] \notin Locked /\ pc'[r] \notin Locked
          /\ UNCHANGED <<dynamic, static>>
          /\ \A q \in Reloaders \ {r} :
               pc'[q] = pc[q] /\ changed'[q] = changed[q] /\ got'[q] = got[q]
      BY <1>2, OutsideStep DEF StateTypes
    <2> QED
      BY <1>a, <2>1 DEF Locked
  <1>3. ASSUME NEW r \in Reloaders, Lock(r) \/ DroppedWaiting(r)
        PROVE  StoreInv'
    <2>1. /\ pc[r] \notin {"swap", "swapped"} /\ pc'[r] \notin {"swap", "swapped"}
          /\ UNCHANGED <<dynamic, static>>
          /\ \A q \in Reloaders \ {r} :
               pc'[q] = pc[q] /\ changed'[q] = changed[q] /\ got'[q] = got[q]
      BY <1>3 DEF Lock, DroppedWaiting, Finish, StateTypes, storeVars
    <2> QED
      BY <1>a, <2>1
  <1>4. ASSUME NEW r \in Reloaders, Check(r)
        PROVE  StoreInv'
    <2>1. pc[r] = "lock" /\ UNCHANGED <<dynamic, static>>
      BY <1>4 DEF Check, storeVars
    <2>2. CASE Finish(r, "error")
      <3>1. /\ pc'[r] = "idle"
            /\ \A q \in Reloaders \ {r} :
                 pc'[q] = pc[q] /\ changed'[q] = changed[q] /\ got'[q] = got[q]
        BY <2>2 DEF Finish, StateTypes
      <3> QED
        BY <1>a, <2>1, <3>1
    <2>3. CASE /\ pc' = [pc EXCEPT ![r] = "swap"]
               /\ changed' = [changed EXCEPT ![r] = StaticOf(static) # StaticOf(got[r])]
               /\ got' = got
      <3>1. /\ pc'[r] = "swap" /\ changed'[r] = (StaticOf(static) # StaticOf(got[r]))
            /\ \A q \in Reloaders \ {r} : pc'[q] = pc[q] /\ changed'[q] = changed[q]
        BY <2>3 DEF StateTypes
      <3>2. StoredTogether'
        BY <2>1, <3>1 DEF StoreInv, StoredTogether
      <3> QED
        BY <2>1, <2>3, <3>1, <3>2, ZenonT(30) DEF StoreInv, StaticOf
    <2> QED
      BY <1>4, <2>2, <2>3 DEF Check
  <1>5. ASSUME NEW r \in Reloaders, StoreDynamic(r)
        PROVE  StoreInv'
    <2>1. /\ pc[r] = "swap" /\ pc'[r] = "swapped" /\ dynamic' = got[r]
          /\ UNCHANGED <<changed, got, static>>
          /\ \A q \in Reloaders \ {r} : pc'[q] = pc[q]
      BY <1>5 DEF StoreDynamic, StateTypes
    <2>2. \A q \in Reloaders \ {r} : pc[q] \notin {"swap", "swapped"}
      BY <2>1, OneStores
    <2> QED
      BY <2>1, <2>2 DEF StoreInv, StoredTogether, StaticOf
  <1>6. ASSUME NEW r \in Reloaders, StoreStatic(r)
        PROVE  StoreInv'
    <2>1. /\ pc[r] = "swapped" /\ pc'[r] = "idle" /\ static' = got[r] /\ dynamic' = dynamic
          /\ \A q \in Reloaders \ {r} : pc'[q] = pc[q]
      BY <1>6 DEF StoreStatic, Finish, StateTypes
    <2>2. \A q \in Reloaders : pc'[q] \notin {"swap", "swapped"}
      BY <2>1, OneStores
    <2>3. static' = dynamic'
      BY <2>1 DEF StoreInv
    <2> QED
      BY <2>2, <2>3 DEF StoreInv, StoredTogether
  <1>7. Admins \subseteq Reloaders
    BY DEF Reloaders
  <1> QED
    BY <1>1, <1>2, <1>3, <1>4, <1>5, <1>6, <1>7 DEF Next, ReloadStep, Outside

LEMMA InvHolds == Spec => []ReloadInv
  <1>1. Init => ReloadInv
    <2>1. Init => LockInv /\ StoreInv
      BY DEF Init, LockInv, StoreInv, StoredTogether, Locked
    <2> QED
      BY <2>1, InitType DEF ReloadInv
  <1>2. ReloadInv /\ [Next]_vars => ReloadInv'
    BY StepType, StepLock, StepStore DEF ReloadInv
  <1> QED
    BY <1>1, <1>2, PTL DEF Spec

\* Every variable keeps its type, in particular the queue of reload_mutex.
THEOREM TypeCorrect == Spec => []TypeOK
  <1>1. ReloadInv => TypeOK
    BY DEF ReloadInv, LockInv, TypeOK
  <1> QED
    BY <1>1, InvHolds, PTL

\* The static and the dynamic configuration always come from the same read of
\* the file, except between the two stores of one reload.
THEOREM StoresStayTogether == Spec => []StoredTogether
  <1>1. ReloadInv => StoredTogether
    BY DEF ReloadInv, StoreInv
  <1> QED
    BY <1>1, InvHolds, PTL

\* A change of the static configuration is reported by exactly the reload that
\* stores it, however many reloads run at the same time.
THEOREM WarningsAreExact == Spec => WarnsExactly
  <1>1. ReloadInv /\ [Next]_vars =>
          [\A r \in Reloaders :
             pc[r] = "swapped" /\ pc'[r] = "idle" =>
               (changed[r] <=> StaticOf(static) # StaticOf(static'))]_vars
    <2> SUFFICES ASSUME ReloadInv, [Next]_vars, NEW r \in Reloaders,
                        pc[r] = "swapped", pc'[r] = "idle"
                 PROVE  changed[r] <=> StaticOf(static) # StaticOf(static')
      OBVIOUS
    <2>1. \A q \in Reloaders : Outside(q) => pc' = [pc EXCEPT ![q] = pc'[q]] /\ pc[q] \notin Locked
      BY OutsideStep DEF ReloadInv
    <2>2. \A q \in Reloaders :
            Outside(q) \/ Lock(q) \/ Check(q) \/ StoreDynamic(q) \/ DroppedWaiting(q)
              => pc'[r] = pc[r] \/ (q = r /\ pc[r] # "swapped")
      BY <2>1, ZenonT(30) DEF Lock, Check, StoreDynamic, DroppedWaiting, Finish, ReloadInv, StateTypes, Locked
    <2>3. StoreStatic(r)
      <3>1. ~FileStep /\ ~UNCHANGED vars
        BY DEF FileStep, Replace, WriteStarts, WriteEnds, Tick, vars
      <3>2. \E q \in Reloaders : StoreStatic(q)
        BY <2>2, <3>1 DEF Next, ReloadStep, Outside, Reloaders
      <3>3. PICK q \in Reloaders : StoreStatic(q)
        BY <3>2
      <3>4. pc[q] = "swapped"
        BY <3>3 DEF StoreStatic
      <3>5. q = r
        BY <3>4, OneStores DEF ReloadInv
      <3> QED
        BY <3>3, <3>5
    <2>4. static' = got[r]
      BY <2>3 DEF StoreStatic
    <2> QED
      BY <2>4, SMTT(30) DEF ReloadInv, StoreInv
  <1> QED
    BY <1>1, InvHolds, PTL DEF Spec, WarnsExactly

\* What reload refuses, load_config would refuse as well: the flag of the handle
\* is implied by the flag of the command line.
LEMMA RefusedIsUnstartable ==
    ASSUME NEW d, ~(validate(d, handle_flag) /\ validate_nofile(d))
    PROVE  ~load_config(d)
  BY DEF load_config, validate, handle_flag

\* A reload answers with an error only for a configuration that load_config
\* would refuse too, whatever versions the file goes through.
THEOREM RejectsAreUnstartable == Spec => RejectsOnlyUnstartable
  <1>1. StateTypes /\ [Next]_vars =>
          [\A r \in Reloaders :
             pc[r] # "idle" /\ pc'[r] = "idle" /\ answer'[r] = "error" =>
               ~load_config(got[r])]_vars
    <2> SUFFICES ASSUME StateTypes, Next, NEW r \in Reloaders,
                        pc[r] # "idle", pc'[r] = "idle", answer'[r] = "error"
                 PROVE  ~load_config(got[r])
      BY DEF vars
    <2>1. ~FileStep
      BY DEF FileStep, Replace, WriteStarts, WriteEnds, Tick
    <2>2. \A q \in Reloaders : ~(Start(q) \/ MetadataBefore(q) \/ ReadFile(q) \/ Lock(q) \/ StoreDynamic(q))
      BY DEF Start, MetadataBefore, ReadFile, Lock, StoreDynamic, StateTypes
    <2>3. \A q \in Reloaders : ~(FileError(q) \/ DroppedReading(q) \/ DroppedWaiting(q) \/ StoreStatic(q))
      BY DEF FileError, DroppedReading, DroppedWaiting, StoreStatic, Finish, StateTypes
    <2>4. ASSUME NEW q \in Reloaders, MetadataAfter(q) \/ Check(q)
          PROVE  q = r /\ ~(validate(got[r], handle_flag) /\ validate_nofile(got[r]))
      BY <2>4, SMTT(30) DEF MetadataAfter, Check, Finish, StateTypes
    <2>5. \E q \in Reloaders : MetadataAfter(q) \/ Check(q)
      BY <2>1, <2>2, <2>3 DEF Next, ReloadStep, Reloaders
    <2> QED
      BY <2>4, <2>5, RefusedIsUnstartable
  <1>2. ReloadInv => StateTypes
    BY DEF ReloadInv
  <1> QED
    BY <1>1, <1>2, InvHolds, PTL DEF Spec, RejectsOnlyUnstartable

-----------------------------------------------------------------------------
(* Reloads that signals start.                                             *)

\* The process with its signals and its task is an implementation of
\* ConfigReload: whatever the signals do, to the configuration it is reloads that
\* start and run as there (register_signal_handlers, handle_sighup_reload).
THEOREM SignalsImplementReload == SSpec => Spec
  <1>1. SInit => Init
    BY DEF SInit
  <1>2. [SNext]_allVars => [Next]_vars
    <2> SUFFICES ASSUME [SNext]_allVars PROVE [Next]_vars
      OBVIOUS
    <2>1. CASE UNCHANGED allVars
      BY <2>1 DEF allVars
    <2>2. CASE (\E s \in Signals : Kill(s)) \/ Rotate \/ Collect \/ Send
      BY <2>2, Zenon DEF Kill, Rotate, Collect, Send
    <2>3. CASE ReceiveHup
      BY <2>3 DEF ReceiveHup, Next, Reloaders
    <2>4. CASE ReloadReturns \/ Reopen \/ ReopenFails \/ ReceiveTerm
      BY <2>4, Zenon DEF ReloadReturns, Reopen, ReopenFails, ReceiveTerm
    <2>5. CASE InnerStep
      BY <2>5 DEF InnerStep, Next, Reloaders
    <2> QED
      BY <2>1, <2>2, <2>3, <2>4, <2>5 DEF SNext, TaskStep
  <1> QED
    BY <1>1, <1>2, PTL DEF SSpec, Spec

\* So what holds for ConfigReload holds for the process: types, stores that stay
\* together, exact warnings and justified rejections, with reloads by signal and
\* by admin requests.
THEOREM SignalledReloadsAreSafe ==
    SSpec => []TypeOK /\ []StoredTogether /\ WarnsExactly /\ RejectsOnlyUnstartable
  BY SignalsImplementReload, TypeCorrect, StoresStayTogether, WarningsAreExact,
     RejectsAreUnstartable

\* Types of the signal variables, and OneAtATime.
TaskInv ==
    /\ pc \in [Reloaders -> Stages]
    /\ channel \in Seq(Signals)
    /\ carried \in Signals \cup {0, -1}
    /\ pending \subseteq Signals
    /\ OneAtATime

\* Only Start begins a reload.
LEMMA IdleStays ==
    ASSUME pc \in [Reloaders -> Stages], InnerStep, pc[Sighup] = "idle"
    PROVE  pc'[Sighup] = "idle"
  <1>1. CASE FileStep
    BY <1>1, SMTT(30) DEF FileStep, Replace, WriteStarts, WriteEnds, Tick
  <1>2. ASSUME NEW r \in Reloaders, FileError(r) \/ ReloadStep(r)
        PROVE  pc'[Sighup] = "idle"
    BY <1>2 DEF FileError, ReloadStep, MetadataBefore, ReadFile, MetadataAfter, Lock, Check,
                StoreDynamic, StoreStatic, Finish, Reloaders
  <1>3. ASSUME NEW r \in Admins, Start(r) \/ DroppedReading(r) \/ DroppedWaiting(r)
        PROVE  pc'[Sighup] = "idle"
    <2>1. r # Sighup /\ Sighup \in Reloaders
      BY ReloadersAssumption DEF Reloaders
    <2> QED
      BY <1>3, <2>1 DEF Start, DroppedReading, DroppedWaiting, Finish
  <1> QED
    BY <1>1, <1>2, <1>3 DEF InnerStep

LEMMA LeastSignal ==
    ASSUME NEW A, A \subseteq {1, 10, 15}, A # {}
    PROVE  \E s \in A : \A t \in A : s <= t
  <1>0. \A t \in A : t = 1 \/ t = 10 \/ t = 15
    BY Zenon
  <1>1. CASE 1 \in A
    <2>1. \A t \in A : 1 <= t
      BY <1>0
    <2> QED
      BY <1>1, <2>1, Zenon
  <1>2. CASE 1 \notin A /\ 10 \in A
    <2>1. \A t \in A : t = 10 \/ t = 15
      BY <1>0, <1>2, Zenon
    <2>2. \A t \in A : 10 <= t
      BY <2>1
    <2> QED
      BY <1>2, <2>2, Zenon
  <1>3. CASE 1 \notin A /\ 10 \notin A
    <2>1. \A t \in A : t = 15
      BY <1>0, <1>3, Zenon
    <2>2. \A t \in A : 15 <= t
      BY <2>1
    <2>3. PICK s : s \in A
      OBVIOUS
    <2>4. s = 15
      BY <2>1, <2>3, Zenon
    <2> QED
      BY <2>2, <2>3, <2>4, Zenon
  <1> QED
    BY <1>1, <1>2, <1>3, Zenon

\* The thread's choice of the next signal.
LEMMA CollectedIsSignal ==
    ASSUME pending \subseteq Signals, carried \in Signals \cup {0, -1}, Collect
    PROVE  carried' \in Signals \cup {0, -1} /\ pending' \subseteq Signals
  <1> DEFINE ahead == {s \in pending : s > position}
             first == CHOOSE s \in ahead : \A t \in ahead : s <= t
  <1>1. CASE ahead = {}
    BY <1>1, Zenon DEF Collect
  <1>2. CASE ahead # {}
    <2>1. carried' = first /\ pending' = pending \ {first}
      BY <1>2, Zenon DEF Collect
    <2>2. \E s \in ahead : \A t \in ahead : s <= t
      <3>1. ahead \subseteq {1, 10, 15}
        BY Zenon DEF Signals, SIGHUP, SIGUSR1, SIGTERM
      <3> HIDE DEF ahead
      <3> QED
        BY <1>2, <3>1, LeastSignal, Zenon
    <2>3. first \in ahead
      BY <2>2, SMTT(30)
    <2> QED
      BY <2>1, <2>3
  <1> QED
    BY <1>1, <1>2

LEMMA StepTask == TypeOK /\ TypeOK' /\ TaskInv /\ [SNext]_allVars => TaskInv'
  <1> SUFFICES ASSUME TypeOK, TypeOK', TaskInv, [SNext]_allVars PROVE TaskInv'
    OBVIOUS
  <1>0. pc' \in [Reloaders -> Stages]
    BY DEF TypeOK, StateTypes
  <1> USE DEF TaskInv, OneAtATime
  <1>1. CASE UNCHANGED allVars
    BY <1>1 DEF allVars, signalVars, threadVars, vars
  <1>2. CASE \E s \in Signals : Kill(s)
    BY <1>2 DEF Kill, vars
  <1>3. CASE Rotate
    BY <1>3 DEF Rotate, vars, threadVars
  <1>4. CASE Collect
    BY <1>4, CollectedIsSignal DEF Collect, vars
  <1>5. CASE Send
    BY <1>5, QueueAssumption, SMTT(30) DEF Send, vars, Signals, SIGHUP, SIGUSR1, SIGTERM
  <1>6. CASE ReceiveHup
    <2>1. Tail(channel) \in Seq(Signals) /\ Len(Tail(channel)) <= QueueCap
      BY <1>6, QueueAssumption DEF ReceiveHup, Receive
    <2> QED
      BY <1>0, <1>6, <2>1 DEF ReceiveHup, threadVars
  <1>7. CASE ReloadReturns
    BY <1>7 DEF ReloadReturns, vars, threadVars
  <1>8. CASE Reopen \/ ReopenFails
    <2>1. Tail(channel) \in Seq(Signals) /\ Len(Tail(channel)) <= QueueCap
      BY <1>8, QueueAssumption DEF Reopen, ReopenFails, Receive
    <2> QED
      BY <1>8, <2>1 DEF Reopen, ReopenFails, Receive, vars, threadVars
  <1>9. CASE ReceiveTerm
    BY <1>9, QueueAssumption DEF ReceiveTerm, Receive, vars, threadVars
  <1>10. CASE InnerStep
    <2>1. UNCHANGED signalVars
      BY <1>10 DEF InnerStep
    <2> QED
      BY <1>0, <1>10, <2>1, IdleStays DEF signalVars, threadVars
  <1> QED
    BY <1>1, <1>2, <1>3, <1>4, <1>5, <1>6, <1>7, <1>8, <1>9, <1>10 DEF SNext, TaskStep

\* The signal task handles one signal after the other, for any capacity of the
\* channel and any number of admin requests: when it receives a SIGHUP, the reload
\* of the one before is over, so ReceiveHup never waits (register_signal_handlers).
THEOREM TaskIsSerial == SSpec => []OneAtATime
  <1>1. SInit => TaskInv
    BY QueueAssumption DEF SInit, Init, TaskInv, OneAtATime, Stages, Reloaders
  <1>2. TaskInv => OneAtATime
    BY DEF TaskInv
  <1> QED
    BY <1>1, <1>2, StepTask, SignalsImplementReload, TypeCorrect, PTL DEF SSpec
=============================================================================
