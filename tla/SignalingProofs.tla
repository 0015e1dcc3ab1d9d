-------------------------- MODULE SignalingProofs --------------------------
(***************************************************************************)
(* The signaling runtime.                                                  *)
(*                                                                         *)
(* The counter, for every number of processes, block size and floor: the   *)
(* numbers a signing counter hands out strictly increase, over process     *)
(* crashes, power losses, failed writes and the loss of one of its files,  *)
(* on a file system whose file sync covers the directory entry             *)
(* (SyncKeepsEntry).                                                       *)
(*                                                                         *)
(* The bus, for every set of sessions and subscribers and all capacities:  *)
(* commands reach the wire once and in order, a closed session is silent,  *)
(* and a subscription has neither gap nor repetition.                      *)
(***************************************************************************)
EXTENDS SignalCounter, SignalBus, FiniteSetTheorems, SequenceTheorems,
        WellFoundedInduction, TLAPS

-----------------------------------------------------------------------------
(* The inductive invariant of the counter. *)

CounterSide == counterDisk \cup {counter}
MarkerSide  == markerDisk \cup {marker}

\* The stages of open after the initialization files exist for certain, and
\* the stages of a first opening.
Reserving == {"reserve", "refill", "open"}
Founding  == {"createMarker", "marker", "floor", "syncDir"}

\* Process p has created the counter file and is still initializing it.
Creating(p) == proc[p].stage \in Founding \/ (At(p, "locking") /\ ~proc[p].exists)

\* A process is past the lock exactly when it owns it.
LockInv == \A p \in Procs : proc[p].stage \in Locked <=> lock = p

\* Whatever the counter file may hold bounds the numbers used.
BoundInv == \A c \in CounterSide : c >= 0 => last <= c

\* The handle of a process that reserves or issues.
HandleInv ==
    \A p \in Procs :
        /\ proc[p].stage \in Reserving =>
              /\ last < proc[p].next
              /\ proc[p].next <= proc[p].reserved + 1
        /\ At(p, "syncDir") \/ At(p, "reserve") \/ At(p, "refill") =>
              proc[p].next = proc[p].reserved + 1
        /\ proc[p].stage \in {"refill", "open"} =>
              /\ Absent \notin CounterSide
              /\ \A c \in CounterSide : c >= 0 => proc[p].reserved <= c
        /\ proc[p].stage \in Writing /\ proc[p].io = "written" =>
              IF At(p, "marker") THEN marker = Valid
                                 ELSE /\ counter = Value(p)
                                      /\ counter \in 0 .. MaxU64
        /\ proc[p].stage \in Writing /\ proc[p].io # "start" => CanReserve(p)

\* Only one process founds the counter, and before any number is used.
FoundingInv ==
    /\ \A p, q \in Procs : Creating(p) /\ Creating(q) => p = q
    /\ \A p \in Procs : Creating(p) => counter # Absent /\ last = 0
    /\ \A p \in Procs : At(p, "createMarker") \/ (At(p, "locking") /\ ~proc[p].exists) =>
          marker = Absent
    /\ \A p \in Procs : At(p, "opening") /\ ~proc[p].exists /\ counter = Absent =>
          marker = Absent /\ last = 0
    /\ \A p \in Procs :
          proc[p].stage \in Reserving \cup {"marker", "floor", "syncDir"} => marker # Absent

\* The marker is durable before the counter holds a number; once a number is
\* used one of the files stays, and both if none was deleted.
EntryInv ==
    /\ ~lost /\ (\E c \in CounterSide : c >= 0) => Absent \notin MarkerSide
    /\ \A p \in Procs :
          proc[p].stage \in Reserving \cup {"floor", "syncDir"} /\ ~lost =>
             Absent \notin MarkerSide
    /\ last > 0 => Absent \notin CounterSide \/ Absent \notin MarkerSide
    /\ last > 0 /\ ~lost => Absent \notin CounterSide /\ Absent \notin MarkerSide

IInv == TypeOK /\ LockInv /\ BoundInv /\ HandleInv /\ FoundingInv /\ EntryInv
-----------------------------------------------------------------------------
LEMMA ClosedHandle == Closed \in Handles
BY CounterAssumption DEF Closed, Handles, Stages, Progress

\* Handles are closed under the updates of open and next.
LEMMA MovedHandle ==
    ASSUME NEW h \in Handles, NEW s \in Stages, NEW i \in Progress
    PROVE  [h EXCEPT !.stage = s, !.io = i] \in Handles
BY DEF Handles

LEMMA LoadedHandle ==
    ASSUME NEW h \in Handles, NEW s \in Stages, NEW i \in Progress,
           NEW r \in 0 .. MaxU64, NEW n \in 0 .. MaxU64
    PROVE  [h EXCEPT !.stage = s, !.io = i, !.reserved = r, !.next = n] \in Handles
BY DEF Handles

LEMMA InitInv == Init => IInv
<1> SUFFICES ASSUME Init PROVE IInv OBVIOUS
<1> USE CounterAssumption DEF Init, At, Absent, Closed
<1>1. TypeOK
  <2>1. Absent \in Contents /\ 0 \in 0 .. MaxU64 BY DEF Contents
  <2>2. proc \in [Procs -> Handles] BY ClosedHandle
  <2> QED BY <2>1, <2>2 DEF TypeOK
<1>2. LockInv BY DEF LockInv, Locked
<1>3. BoundInv BY DEF BoundInv, CounterSide
<1>4. HandleInv BY DEF HandleInv, Reserving, Writing
<1>5. FoundingInv BY DEF FoundingInv, Creating, Founding, Reserving
<1>6. EntryInv BY DEF EntryInv, CounterSide, Reserving
<1> QED BY <1>1, <1>2, <1>3, <1>4, <1>5, <1>6 DEF IInv

LEMMA CheckCounterInv ==
    ASSUME SyncKeepsEntry, IInv, NEW p \in Procs, CheckCounter(p)
    PROVE  IInv'
<1> USE CounterAssumption DEF IInv, At, Absent, Torn, Valid, files, CheckCounter, Goto
<1>1. TypeOK'
  <2>1. [proc[p] EXCEPT !.stage = "checkMarker", !.exists = counter # Absent] \in Handles
    BY DEF TypeOK, Handles, Stages
  <2>2. proc' \in [Procs -> Handles]
    BY <2>1 DEF TypeOK
  <2> QED BY <2>2 DEF TypeOK, Contents
<1>2. LockInv' BY DEF LockInv, Locked, TypeOK
<1>3. BoundInv' BY DEF BoundInv, CounterSide
<1>4. HandleInv' BY DEF HandleInv, CounterSide, Reserving, Writing, Value, CanReserve, TypeOK
<1>5. FoundingInv' BY DEF FoundingInv, Creating, Founding, Reserving, TypeOK
<1>6. EntryInv' BY DEF EntryInv, CounterSide, MarkerSide, Reserving, TypeOK
<1> QED BY <1>1, <1>2, <1>3, <1>4, <1>5, <1>6 DEF IInv

LEMMA CheckMarkerInv ==
    ASSUME SyncKeepsEntry, IInv, NEW p \in Procs, CheckMarker(p)
    PROVE  IInv'
<1> USE CounterAssumption DEF IInv, At, Absent, Torn, Valid, files, CheckMarker, Goto, SameExistence
<1>1. TypeOK'
  <2>1. [proc[p] EXCEPT !.stage = "opening", !.io = "start"] \in Handles
    BY DEF TypeOK, Handles, Stages, Progress
  <2>2. proc' \in [Procs -> Handles]
    BY <2>1 DEF TypeOK
  <2> QED BY <2>2 DEF TypeOK, Contents
<1>2. LockInv' BY DEF LockInv, Locked, TypeOK
<1>3. BoundInv' BY DEF BoundInv, CounterSide
<1>4. HandleInv' BY DEF HandleInv, CounterSide, Reserving, Value, CanReserve, TypeOK
<1>5. FoundingInv' BY DEF FoundingInv, Creating, Founding, Reserving, EntryInv, CounterSide, MarkerSide, TypeOK, Handles
<1>6. EntryInv' BY DEF EntryInv, CounterSide, MarkerSide, Reserving, TypeOK
<1> QED BY <1>1, <1>2, <1>3, <1>4, <1>5, <1>6 DEF IInv

LEMMA RefuseMarkerInv ==
    ASSUME SyncKeepsEntry, IInv, NEW p \in Procs, RefuseMarker(p)
    PROVE  IInv'
<1> USE CounterAssumption DEF IInv, At, Absent, Torn, Valid, files, RefuseMarker, Abandon, Closed
<1>1. TypeOK' BY DEF TypeOK, Handles, Stages, Progress
<1>2. LockInv' BY DEF LockInv, Locked
<1>3. BoundInv' BY DEF BoundInv, CounterSide
<1>4. HandleInv' BY DEF HandleInv, CounterSide, Reserving, Value, CanReserve
<1>5. FoundingInv' BY DEF FoundingInv, Creating, Founding, Reserving
<1>6. EntryInv' BY DEF EntryInv, CounterSide, MarkerSide, Reserving
<1> QED BY <1>1, <1>2, <1>3, <1>4, <1>5, <1>6 DEF IInv

LEMMA OpenCounterInv ==
    ASSUME SyncKeepsEntry, IInv, NEW p \in Procs, OpenCounter(p)
    PROVE  IInv'
<1> USE CounterAssumption DEF IInv, At, Absent, Torn, Valid, files, OpenCounter, Goto
<1>1. TypeOK'
  <2>1. [proc[p] EXCEPT !.stage = "locking", !.io = "start"] \in Handles
    BY DEF TypeOK, Handles, Stages, Progress
  <2>2. proc' \in [Procs -> Handles]
    BY <2>1 DEF TypeOK
  <2> QED BY <2>2 DEF TypeOK, Contents
<1>2. LockInv' BY DEF LockInv, Locked, TypeOK
<1>3. BoundInv' BY DEF BoundInv, CounterSide
<1>4. HandleInv' BY DEF HandleInv, CounterSide, Reserving, Value, CanReserve, TypeOK, Handles
<1>5. FoundingInv' BY DEF FoundingInv, Creating, Founding, Reserving, TypeOK, Handles
<1>6. EntryInv' BY DEF EntryInv, CounterSide, MarkerSide, Reserving, TypeOK
<1> QED BY <1>1, <1>2, <1>3, <1>4, <1>5, <1>6 DEF IInv

LEMMA RefuseOpenInv ==
    ASSUME SyncKeepsEntry, IInv, NEW p \in Procs, RefuseOpen(p)
    PROVE  IInv'
<1> USE CounterAssumption DEF IInv, At, Absent, Torn, Valid, files, RefuseOpen, Abandon, Closed
<1>1. TypeOK' BY DEF TypeOK, Handles, Stages, Progress
<1>2. LockInv' BY DEF LockInv, Locked
<1>3. BoundInv' BY DEF BoundInv, CounterSide
<1>4. HandleInv' BY DEF HandleInv, CounterSide, Reserving, Value, CanReserve
<1>5. FoundingInv' BY DEF FoundingInv, Creating, Founding, Reserving
<1>6. EntryInv' BY DEF EntryInv, CounterSide, MarkerSide, Reserving
<1> QED BY <1>1, <1>2, <1>3, <1>4, <1>5, <1>6 DEF IInv

LEMMA TryLockInv ==
    ASSUME SyncKeepsEntry, IInv, NEW p \in Procs, TryLock(p)
    PROVE  IInv'
<1> USE CounterAssumption DEF IInv, At, Absent, Torn, Valid, files, TryLock, Goto, LockFree
<1>1. TypeOK'
  <2>1. [proc[p] EXCEPT !.stage = IF proc[p].exists THEN "reading" ELSE "createMarker", !.io = "start"] \in Handles
    BY DEF TypeOK, Handles, Stages, Progress
  <2>2. proc' \in [Procs -> Handles]
    BY <2>1 DEF TypeOK
  <2> QED BY <2>2 DEF TypeOK, Contents
<1>2. LockInv' BY DEF LockInv, Locked, TypeOK
<1>3. BoundInv' BY DEF BoundInv, CounterSide
<1>4. HandleInv' BY DEF HandleInv, Reserving, Value, CanReserve, LockInv, Locked, TypeOK
<1>5. FoundingInv' BY DEF FoundingInv, Creating, Founding, Reserving, TypeOK
<1>6. EntryInv' BY DEF EntryInv, CounterSide, MarkerSide, Reserving, TypeOK
<1> QED BY <1>1, <1>2, <1>3, <1>4, <1>5, <1>6 DEF IInv

LEMMA AlreadyLockedInv ==
    ASSUME SyncKeepsEntry, IInv, NEW p \in Procs, AlreadyLocked(p)
    PROVE  IInv'
<1> USE CounterAssumption DEF IInv, At, Absent, Torn, Valid, files, AlreadyLocked, Abandon, Closed
<1>1. TypeOK' BY DEF TypeOK, Handles, Stages, Progress
<1>2. LockInv' BY DEF LockInv, Locked
<1>3. BoundInv' BY DEF BoundInv, CounterSide
<1>4. HandleInv' BY DEF HandleInv, CounterSide, Reserving, Value, CanReserve
<1>5. FoundingInv' BY DEF FoundingInv, Creating, Founding, Reserving
<1>6. EntryInv' BY DEF EntryInv, CounterSide, MarkerSide, Reserving
<1> QED BY <1>1, <1>2, <1>3, <1>4, <1>5, <1>6 DEF IInv

LEMMA ReadStateInv ==
    ASSUME SyncKeepsEntry, IInv, NEW p \in Procs, ReadState(p)
    PROVE  IInv'
<1> USE CounterAssumption DEF IInv, At, Absent, Torn, Valid, files, ReadState, Goto, Readable
<1>1. TypeOK'
  <2>0. counter \in 0 .. MaxU64 /\ counter + 1 \in 0 .. MaxU64 BY DEF TypeOK, Contents
  <2>1. [proc[p] EXCEPT !.stage = "reserve", !.io = "start", !.reserved = counter, !.next = counter + 1] \in Handles
    BY <2>0 DEF TypeOK, Handles, Stages, Progress
  <2>2. proc' \in [Procs -> Handles]
    BY <2>1 DEF TypeOK
  <2> QED BY <2>2 DEF TypeOK, Contents
<1>2. LockInv' BY DEF LockInv, Locked, TypeOK
<1>3. BoundInv' BY DEF BoundInv, CounterSide
<1>4. HandleInv' BY DEF HandleInv, CounterSide, Value, CanReserve, BoundInv, TypeOK, Handles
<1>5. FoundingInv' BY DEF FoundingInv, Creating, Founding, TypeOK
<1>6. EntryInv' BY DEF EntryInv, CounterSide, MarkerSide, TypeOK, Handles
<1> QED BY <1>1, <1>2, <1>3, <1>4, <1>5, <1>6 DEF IInv

LEMMA RefuseStateInv ==
    ASSUME SyncKeepsEntry, IInv, NEW p \in Procs, RefuseState(p)
    PROVE  IInv'
<1> USE CounterAssumption DEF IInv, At, Absent, Torn, Valid, files, RefuseState, Abandon, Closed
<1>1. TypeOK' BY DEF TypeOK, Handles, Stages, Progress
<1>2. LockInv' BY DEF LockInv, Locked, TypeOK
<1>3. BoundInv' BY DEF BoundInv, CounterSide
<1>4. HandleInv' BY DEF HandleInv, Reserving, Value, CanReserve, LockInv, Locked
<1>5. FoundingInv' BY DEF FoundingInv, Creating, Founding, Reserving
<1>6. EntryInv' BY DEF EntryInv, CounterSide, MarkerSide, Reserving
<1> QED BY <1>1, <1>2, <1>3, <1>4, <1>5, <1>6 DEF IInv

LEMMA CreateMarkerInv ==
    ASSUME SyncKeepsEntry, IInv, NEW p \in Procs, CreateMarker(p)
    PROVE  IInv'
<1> USE CounterAssumption DEF IInv, At, Absent, Torn, Valid, files, CreateMarker, Goto
<1>1. TypeOK'
  <2>1. [proc[p] EXCEPT !.stage = "marker", !.io = "start"] \in Handles
    BY DEF TypeOK, Handles, Stages, Progress
  <2>2. proc' \in [Procs -> Handles]
    BY <2>1 DEF TypeOK
  <2> QED BY <2>2 DEF TypeOK, Contents
<1>2. LockInv' BY DEF LockInv, Locked, TypeOK
<1>3. BoundInv' BY DEF BoundInv, FoundingInv, Creating, Founding
<1>4. HandleInv' BY DEF HandleInv, Reserving, Value, CanReserve, FoundingInv, TypeOK
<1>5. FoundingInv' BY DEF FoundingInv, Creating, Founding, TypeOK
<1>6. EntryInv' BY DEF EntryInv, CounterSide, MarkerSide, Reserving, TypeOK
<1> QED BY <1>1, <1>2, <1>3, <1>4, <1>5, <1>6 DEF IInv

LEMMA RefuseCreateInv ==
    ASSUME SyncKeepsEntry, IInv, NEW p \in Procs, RefuseCreate(p)
    PROVE  IInv'
<1> USE CounterAssumption DEF IInv, At, Absent, Torn, Valid, files, RefuseCreate, Abandon, Closed
<1>1. TypeOK' BY DEF TypeOK, Handles, Stages, Progress
<1>2. LockInv' BY DEF LockInv, Locked, TypeOK
<1>3. BoundInv' BY DEF BoundInv, CounterSide
<1>4. HandleInv' BY DEF HandleInv, CounterSide, Reserving, Value, CanReserve
<1>5. FoundingInv' BY DEF FoundingInv, Creating, Founding, Reserving
<1>6. EntryInv' BY DEF EntryInv, CounterSide, MarkerSide, Reserving
<1> QED BY <1>1, <1>2, <1>3, <1>4, <1>5, <1>6 DEF IInv

LEMMA SyncDirectoryInv ==
    ASSUME SyncKeepsEntry, IInv, NEW p \in Procs, SyncDirectory(p)
    PROVE  IInv'
<1> USE CounterAssumption DEF IInv, At, Absent, Torn, Valid, files, SyncDirectory, Goto
<1>1. TypeOK'
  <2>1. [proc[p] EXCEPT !.stage = "reserve", !.io = "start"] \in Handles
    BY DEF TypeOK, Handles, Stages, Progress
  <2>2. proc' \in [Procs -> Handles]
    BY <2>1 DEF TypeOK
  <2> QED BY <2>2 DEF TypeOK, Contents
<1>2. LockInv' BY DEF LockInv, Locked, TypeOK
<1>3. BoundInv' BY DEF BoundInv, FoundingInv, Creating, Founding
<1>4. HandleInv' BY DEF HandleInv, Value, CanReserve, LockInv, Locked, FoundingInv, Creating, Founding, TypeOK, Handles
<1>5. FoundingInv' BY DEF FoundingInv, Creating, Founding, TypeOK
<1>6. EntryInv' BY DEF EntryInv, MarkerSide, FoundingInv, Creating, Founding
<1> QED BY <1>1, <1>2, <1>3, <1>4, <1>5, <1>6 DEF IInv

LEMMA TruncateInv ==
    ASSUME SyncKeepsEntry, IInv, NEW p \in Procs, Truncate(p)
    PROVE  IInv'
<1> USE CounterAssumption DEF IInv, At, Absent, Torn, Valid, files, Truncate, Goto, PutMarker, PutCounter
<1>1. TypeOK' BY DEF TypeOK, Handles, Progress, Contents
<1>2. LockInv' BY DEF LockInv
<1>3. BoundInv' BY DEF BoundInv, CounterSide
<1>4. HandleInv' BY DEF HandleInv, CounterSide, Writing, Reserved, CanReserve, LockInv, Locked
<1>5. FoundingInv' BY DEF FoundingInv, Creating
<1>6. EntryInv' BY DEF EntryInv, CounterSide, MarkerSide
<1> QED BY <1>1, <1>2, <1>3, <1>4, <1>5, <1>6 DEF IInv

LEMMA WriteAllInv ==
    ASSUME SyncKeepsEntry, IInv, NEW p \in Procs, WriteAll(p)
    PROVE  IInv'
<1> USE CounterAssumption DEF IInv, At, Absent, Torn, Valid, files, WriteAll, Goto, PutMarker, PutCounter
<1>1. TypeOK' BY DEF TypeOK, Handles, Progress, Contents, Writing, CanReserve, Value, Reserved, HandleInv
<1>2. LockInv' BY DEF LockInv
<1>3. BoundInv'
  <2>1. CASE At(p, "marker") BY <2>1 DEF BoundInv, CounterSide
  <2>2. CASE At(p, "floor")
    BY <2>2 DEF BoundInv, FoundingInv, Creating, Founding
  <2>3. CASE At(p, "reserve") \/ At(p, "refill")
    <3>1. last < proc[p].reserved + 1 /\ last \in Nat /\ proc[p].reserved \in Nat
      BY <2>3 DEF HandleInv, Reserving, TypeOK, Handles
    <3> QED BY <2>3, <3>1 DEF BoundInv, CounterSide, Value, Reserved
  <2> QED BY <2>1, <2>2, <2>3 DEF Writing
<1>4. HandleInv' BY DEF HandleInv, CounterSide, Writing, Value, Reserved, CanReserve, LockInv, Locked, TypeOK, Handles
<1>5. FoundingInv' BY DEF FoundingInv, Creating, Value, Reserved, TypeOK, Handles
<1>6. EntryInv' BY DEF EntryInv, CounterSide, MarkerSide, Reserving, Writing, Value, Reserved, TypeOK, Handles
<1> QED BY <1>1, <1>2, <1>3, <1>4, <1>5, <1>6 DEF IInv

LEMMA SyncAllInv ==
    ASSUME SyncKeepsEntry, IInv, NEW p \in Procs, SyncAll(p)
    PROVE  IInv'
<1> USE CounterAssumption DEF IInv, At, Absent, Torn, Valid, files, SyncAll, Goto, PutMarker, PutCounter, AfterSync, AfterWrite
<1>1. TypeOK'
  <2>1. AfterWrite(p) \in Handles
    <3>1. CASE At(p, "marker") BY <3>1 DEF TypeOK, Handles, Stages, Progress
    <3>2. CASE At(p, "floor")
      <4>1. Floor \in 0 .. MaxU64 /\ Floor + 1 \in 0 .. MaxU64
        BY CounterAssumption
      <4>2. AfterWrite(p) = [proc[p] EXCEPT !.stage = "syncDir", !.io = "start",
                                           !.reserved = Floor, !.next = Floor + 1]
        BY <3>2
      <4>3. proc[p] \in Handles BY DEF TypeOK
      <4>4. [proc[p] EXCEPT !.stage = "syncDir", !.io = "start",
                            !.reserved = Floor, !.next = Floor + 1] \in Handles
        BY ONLY <4>1, <4>3, LoadedHandle DEF Stages, Progress
      <4> QED BY <4>2, <4>4
    <3>3. CASE At(p, "reserve") \/ At(p, "refill")
      <4>1. Reserved(proc[p]) \in 0 .. MaxU64
        BY <3>3 DEF HandleInv, CanReserve, Reserved, TypeOK, Handles
      <4> QED BY <3>3, <4>1 DEF TypeOK, Handles, Stages, Progress
    <3> QED BY <3>1, <3>2, <3>3 DEF Writing
  <2>2. proc' \in [Procs -> Handles]
    BY <2>1 DEF TypeOK
  <2> QED BY <2>2 DEF TypeOK, Contents
<1>2. LockInv' BY DEF LockInv, Locked, Writing
<1>3. BoundInv' BY DEF BoundInv, CounterSide
<1>4. HandleInv' BY DEF HandleInv, CounterSide, Reserving, Writing, Value, Reserved, LockInv, Locked, TypeOK, Handles
<1>5. FoundingInv' BY DEF FoundingInv, Creating, Founding, Reserving, Writing
<1>6. EntryInv' BY DEF EntryInv, CounterSide, MarkerSide, HandleInv
<1> QED BY <1>1, <1>2, <1>3, <1>4, <1>5, <1>6 DEF IInv

LEMMA WriteFailsInv ==
    ASSUME SyncKeepsEntry, IInv, NEW p \in Procs, WriteFails(p)
    PROVE  IInv'
<1> USE CounterAssumption DEF IInv, At, Absent, Torn, Valid, files, WriteFails, Abandon, Closed, Goto
<1>1. TypeOK'
  <2>1. [proc[p] EXCEPT !.stage = "open", !.io = "start"] \in Handles
    BY MovedHandle DEF TypeOK, Stages, Progress
  <2>2. proc' \in [Procs -> Handles]
    BY <2>1, ClosedHandle DEF TypeOK
  <2> QED BY <2>2 DEF TypeOK
<1>2. LockInv' BY DEF LockInv, Locked, TypeOK, Handles
<1>3. BoundInv' BY DEF BoundInv, CounterSide
<1>4. HandleInv' BY DEF HandleInv, CounterSide, Reserving, Value, CanReserve, TypeOK, Handles
<1>5. FoundingInv' BY DEF FoundingInv, Creating, Founding, Reserving, TypeOK, Handles
<1>6. EntryInv' BY DEF EntryInv, CounterSide, MarkerSide, Reserving, TypeOK
<1> QED BY <1>1, <1>2, <1>3, <1>4, <1>5, <1>6 DEF IInv

LEMMA RefillInv ==
    ASSUME SyncKeepsEntry, IInv, NEW p \in Procs, Refill(p)
    PROVE  IInv'
<1> USE CounterAssumption DEF IInv, At, Absent, Torn, Valid, files, Refill, Goto, BlockUsed
<1>1. TypeOK'
  <2>1. [proc[p] EXCEPT !.stage = "refill", !.io = "start"] \in Handles
    BY DEF TypeOK, Handles, Stages, Progress
  <2>2. proc' \in [Procs -> Handles]
    BY <2>1 DEF TypeOK
  <2> QED BY <2>2 DEF TypeOK, Contents
<1>2. LockInv' BY DEF LockInv, Locked, TypeOK
<1>3. BoundInv' BY DEF BoundInv, CounterSide
<1>4. HandleInv' BY DEF HandleInv, CounterSide, Reserving, Value, CanReserve, TypeOK, Handles
<1>5. FoundingInv' BY DEF FoundingInv, Creating, Founding, Reserving, TypeOK
<1>6. EntryInv' BY DEF EntryInv, CounterSide, MarkerSide, Reserving
<1> QED BY <1>1, <1>2, <1>3, <1>4, <1>5, <1>6 DEF IInv

LEMMA IssueInv ==
    ASSUME SyncKeepsEntry, IInv, NEW p \in Procs, Issue(p)
    PROVE  IInv'
<1> USE CounterAssumption DEF IInv, At, Absent, Torn, Valid, files, Issue, Goto, BlockUsed
<1>1. TypeOK' BY DEF TypeOK, Handles
<1>2. LockInv' BY DEF LockInv
<1>3. BoundInv' BY DEF BoundInv, CounterSide, HandleInv, TypeOK, Handles, Contents
<1>4. HandleInv' BY DEF HandleInv, CounterSide, Reserving, Value, Reserved, CanReserve, LockInv, Locked, TypeOK, Handles
<1>5. FoundingInv' BY DEF FoundingInv, Creating, Founding, Reserving, LockInv, Locked
<1>6. EntryInv' BY DEF EntryInv, CounterSide, MarkerSide, Reserving, HandleInv
<1> QED BY <1>1, <1>2, <1>3, <1>4, <1>5, <1>6 DEF IInv

LEMMA StopInv ==
    ASSUME SyncKeepsEntry, IInv, NEW p \in Procs, Stop(p)
    PROVE  IInv'
<1> USE CounterAssumption DEF IInv, At, Absent, Torn, Valid, files, Stop, Abandon, Closed
<1>1. TypeOK' BY DEF TypeOK, Handles, Stages, Progress
<1>2. LockInv' BY DEF LockInv, Locked, TypeOK
<1>3. BoundInv' BY DEF BoundInv, CounterSide
<1>4. HandleInv' BY DEF HandleInv, CounterSide, Reserving, Value, CanReserve
<1>5. FoundingInv' BY DEF FoundingInv, Creating, Founding, Reserving
<1>6. EntryInv' BY DEF EntryInv, CounterSide, MarkerSide, Reserving
<1> QED BY <1>1, <1>2, <1>3, <1>4, <1>5, <1>6 DEF IInv

LEMMA PowerLossInv ==
    ASSUME SyncKeepsEntry, IInv, PowerLoss
    PROVE  IInv'
<1> USE CounterAssumption DEF IInv, At, Absent, Torn, Valid, files, PowerLoss, Closed
<1>1. TypeOK' BY DEF TypeOK, Handles, Stages, Progress
<1>2. LockInv' BY DEF LockInv, Locked
<1>3. BoundInv' BY DEF BoundInv, CounterSide
<1>4. HandleInv' BY DEF HandleInv, Reserving
<1>5. FoundingInv' BY DEF FoundingInv, Creating, Founding, Reserving
<1>6. EntryInv' BY DEF EntryInv, CounterSide, MarkerSide, Reserving
<1> QED BY <1>1, <1>2, <1>3, <1>4, <1>5, <1>6 DEF IInv

LEMMA LoseFileInv ==
    ASSUME SyncKeepsEntry, IInv, LoseFile
    PROVE  IInv'
<1> USE CounterAssumption DEF IInv, At, Absent, Torn, Valid, files, LoseFile, Closed
<1>1. TypeOK' BY DEF TypeOK, Contents, Value, HandleInv
<1>2. LockInv' BY DEF LockInv
<1>3. BoundInv' BY DEF BoundInv, CounterSide
<1>4. HandleInv' BY DEF HandleInv, Writing
<1>5. FoundingInv' BY DEF FoundingInv, Creating, Founding, Reserving
<1>6. EntryInv' BY DEF EntryInv, CounterSide, MarkerSide
<1> QED BY <1>1, <1>2, <1>3, <1>4, <1>5, <1>6 DEF IInv

LEMMA NextInv == ASSUME SyncKeepsEntry, IInv, [Next]_vars PROVE IInv'
<1>1. CASE UNCHANGED vars
  BY <1>1 DEF vars, IInv, TypeOK, LockInv, BoundInv, HandleInv, FoundingInv, EntryInv,
              CounterSide, MarkerSide, Creating, At, Value, CanReserve
<1>2. ASSUME NEW p \in Procs, Step(p) PROVE IInv'
  BY <1>2, CheckCounterInv, CheckMarkerInv, RefuseMarkerInv, OpenCounterInv,
     RefuseOpenInv, TryLockInv, AlreadyLockedInv, ReadStateInv, RefuseStateInv,
     CreateMarkerInv, RefuseCreateInv, SyncDirectoryInv, TruncateInv, WriteAllInv,
     SyncAllInv, WriteFailsInv, RefillInv, IssueInv, StopInv DEF Step
<1> QED BY <1>1, <1>2, PowerLossInv, LoseFileInv DEF Next

LEMMA Invariance == ASSUME SyncKeepsEntry PROVE Spec => []IInv
<1>1. Init => IInv BY InitInv
<1>2. IInv /\ [Next]_vars => IInv' BY NextInv
<1> QED BY <1>1, <1>2, PTL DEF Spec

\* Whatever crashes, losses and failed writes happen, no counter leaves the
\* range of a u64 and the files and handles keep their shape.
THEOREM CounterTypeCorrect == ASSUME SyncKeepsEntry PROVE Spec => []TypeOK
<1>1. IInv => TypeOK BY DEF IInv
<1> QED BY <1>1, Invariance, PTL

\* "Counter reservations are synced before any number in the block can be
\* used" (counter.rs): what a power loss leaves bounds the numbers used.
THEOREM CounterReservedBeforeUse == ASSUME SyncKeepsEntry PROVE Spec => []ReservedBeforeUse
<1>1. IInv => ReservedBeforeUse
  BY DEF IInv, BoundInv, HandleInv, ReservedBeforeUse, CounterSide, Reserving, At
<1> QED BY <1>1, Invariance, PTL

\* "Neither a missing counter nor a missing marker can silently reset a
\* sequence": after a number is used no process founds the counter again.
THEOREM CounterNeverReset == ASSUME SyncKeepsEntry PROVE Spec => []NeverReset
<1>1. IInv => NeverReset
  <2> SUFFICES ASSUME IInv, last > 0, NEW p \in Procs, proc[p].stage \in Founding
               PROVE  FALSE
    BY DEF NeverReset, Founding
  <2>1. last = 0 BY DEF IInv, FoundingInv, Creating
  <2> QED BY <2>1
<1> QED BY <1>1, Invariance, PTL

\* The lock on the counter file keeps a second process from reserving or
\* handing out numbers.
THEOREM CounterOneOwner == ASSUME SyncKeepsEntry PROVE Spec => []OneOwner
<1>1. IInv => OneOwner
  BY DEF IInv, LockInv, OneOwner, Writing, Locked, At
<1> QED BY <1>1, Invariance, PTL

\* The detailed counter implements the abstract one: over every process and
\* every crash the numbers handed out strictly increase.
THEOREM CounterStrictlyIncreasing == ASSUME SyncKeepsEntry PROVE Spec => StrictlyIncreasing
<1>1. Init => Abstract!Init BY DEF Init, Abstract!Init
<1>2. IInv /\ [Next]_vars => [Abstract!Issue]_last
  <2> SUFFICES ASSUME IInv, [Next]_vars, last' # last
               PROVE  Abstract!Issue
    OBVIOUS
  <2>1. PICK p \in Procs : Issue(p)
    BY DEF Next, Step, vars, CheckCounter, CheckMarker, RefuseMarker, OpenCounter,
           RefuseOpen, TryLock, AlreadyLocked, ReadState, RefuseState, CreateMarker,
           RefuseCreate, SyncDirectory, Truncate, WriteAll, SyncAll, WriteFails,
           Refill, Stop, PowerLoss, LoseFile, Abandon
  <2> QED BY <2>1 DEF IInv, HandleInv, Issue, Abstract!Issue, At, Reserving, TypeOK, Handles
<1> QED BY <1>1, <1>2, Invariance, PTL DEF Spec, StrictlyIncreasing, Abstract!Spec

-----------------------------------------------------------------------------
(* Increasing sequences. *)

\* A set of natural numbers has a least one: what stands for induction here.
LEMMA Least ==
  ASSUME NEW S \in SUBSET Nat, S # {}
  PROVE  \E m \in S : \A k \in S : m <= k
<1> DEFINE T == {1..k : k \in S}
<1>1. IsWellFoundedOn(StrictSubsetOrdering(Nat), FiniteSubsetsOf(Nat))
  BY FS_StrictSubsetOrderingWellFounded
<1>2. T \subseteq FiniteSubsetsOf(Nat)
  <2> SUFFICES ASSUME NEW k \in S PROVE 1..k \in FiniteSubsetsOf(Nat)
    OBVIOUS
  <2>1. 1 \in Int /\ k \in Int
    OBVIOUS
  <2>2. IsFiniteSet(1..k)
    BY <2>1, FS_Interval
  <2>3. 1..k \subseteq Nat
    OBVIOUS
  <2> QED
    BY <2>2, <2>3 DEF FiniteSubsetsOf
<1>3. T # {}
  OBVIOUS
<1>4. PICK x \in T : \A y \in T : ~ (<<y, x>> \in StrictSubsetOrdering(Nat))
  <2> HIDE DEF T
  <2> QED
    BY <1>1, <1>2, <1>3, WFMin
<1>5. PICK m \in S : x = 1..m
  OBVIOUS
<1>6. ASSUME NEW k \in S, ~(m <= k)
      PROVE  FALSE
  <2>1. m \in 1..m /\ m \notin 1..k
    BY <1>6
  <2>2. 1..k \in T /\ 1..k \subseteq 1..m /\ 1..k # 1..m
    BY <1>6, <2>1
  <2>3. <<1..k, 1..m>> \in StrictSubsetOrdering(Nat)
    BY <2>2 DEF StrictSubsetOrdering
  <2> QED
    BY <1>4, <1>5, <2>2, <2>3
<1> QED
  BY <1>6

Increasing(s) == \A i, j \in 1..Len(s) : i < j => s[i] < s[j]

Members(s) == {s[i] : i \in 1..Len(s)}

\* The recursive function of Retain exists, because there is no shortest
\* prefix it is missing for.
LEMMA RetainExists ==
  ASSUME NEW s \in Seq(Nat), NEW S
  PROVE  \E f : f = [n \in 0..Len(s) |->
                        IF n = 0 THEN <<>>
                        ELSE IF s[n] \in S THEN Append(f[n-1], s[n]) ELSE f[n-1]]
<1> DEFINE Is(f, m) == f = [n \in 0..m |->
                        IF n = 0 THEN <<>>
                        ELSE IF s[n] \in S THEN Append(f[n-1], s[n]) ELSE f[n-1]]
           Has(m) == \E f : Is(f, m)
           Bad == {m \in 0..Len(s) : ~Has(m)}
<1>0. Len(s) \in 0..Len(s)
  OBVIOUS
<1>1. SUFFICES ASSUME Bad # {} PROVE FALSE
  <2> HIDE DEF Has
  <2>1. Has(Len(s))
    BY <1>0
  <2> QED
    BY <2>1 DEF Has
<1>2. PICK m \in Bad : \A k \in Bad : m <= k
  <2>1. Bad \in SUBSET Nat
    <3> HIDE DEF Has
    <3> QED
      BY <1>0
  <2> HIDE DEF Bad
  <2> QED
    BY <1>1, <2>1, Least
<1>3. m \in 0..Len(s) /\ ~Has(m)
  <2> HIDE DEF Has
  <2> QED
    OBVIOUS
<1>4. m # 0
  <2> SUFFICES ASSUME m = 0 PROVE Has(m)
    BY <1>3
  <2> DEFINE f == [n \in 0..0 |-> <<>>]
  <2>1. Is(f, 0)
    OBVIOUS
  <2> QED
    BY <2>1
<1>5. m - 1 \in 0..Len(s) /\ Has(m - 1)
  <2> HIDE DEF Has
  <2>1. m - 1 \in 0..Len(s)
    BY <1>0, <1>3, <1>4
  <2>2. m - 1 \notin Bad
    <3>1. ~(m <= m - 1)
      BY <1>3
    <3> HIDE DEF Bad
    <3> QED
      BY <1>2, <3>1
  <2> QED
    BY <2>1, <2>2
<1>6. PICK f : Is(f, m - 1)
  BY <1>5
<1> DEFINE final == IF s[m] \in S THEN Append(f[m-1], s[m]) ELSE f[m-1]
           g == [n \in 0..m |-> IF n < m THEN f[n] ELSE final]
<1>7. ASSUME NEW n \in 0..m
      PROVE  g[n] = IF n = 0 THEN <<>>
                    ELSE IF s[n] \in S THEN Append(g[n-1], s[n]) ELSE g[n-1]
  <2>1. CASE n = 0
    <3>1. 0 \in 0..(m-1) /\ 0 < m
      BY <1>3, <1>4
    <3>2. f[0] = <<>>
      BY <1>6, <3>1
    <3> QED
      BY <2>1, <3>1, <3>2
  <2>2. CASE n # 0 /\ n < m
    <3>1. n \in 0..(m-1) /\ n - 1 \in 0..m /\ n - 1 < m
      BY <1>3, <2>2
    <3>2. f[n] = IF s[n] \in S THEN Append(f[n-1], s[n]) ELSE f[n-1]
      BY <1>6, <2>2, <3>1
    <3>3. g[n] = f[n] /\ g[n-1] = f[n-1]
      BY <2>2, <3>1
    <3> QED
      BY <2>2, <3>2, <3>3
  <2>3. CASE n = m
    <3>1. m - 1 \in 0..m /\ m - 1 < m
      BY <1>3, <1>4
    <3>2. g[m-1] = f[m-1]
      BY <3>1
    <3>3. m \in 0..m /\ ~(m < m)
      BY <1>3
    <3>4. g[m] = final
      BY <3>3
    <3> QED
      BY <1>4, <2>3, <3>2, <3>4
  <2>4. n = 0 \/ (n # 0 /\ n < m) \/ n = m
    BY <1>3
  <2> QED
    BY <2>1, <2>2, <2>3, <2>4
<1>8. Is(g, m)
  <2>1. g = [n \in 0..m |-> g[n]]
    OBVIOUS
  <2> HIDE DEF g
  <2> QED
    BY <1>7, <2>1
<1> QED
  BY <1>3, <1>8

\* Retain keeps the order, and exactly the elements of S.
LEMMA RetainFacts ==
  ASSUME NEW s \in Seq(Nat), Increasing(s), NEW S
  PROVE  /\ Retain(s, S) \in Seq(Nat)
         /\ Increasing(Retain(s, S))
         /\ Members(Retain(s, S)) = Members(s) \cap S
         /\ Len(Retain(s, S)) <= Len(s)
<1> DEFINE f == CHOOSE f : f = [n \in 0..Len(s) |->
                        IF n = 0 THEN <<>>
                        ELSE IF s[n] \in S THEN Append(f[n-1], s[n]) ELSE f[n-1]]
           First(n) == {s[i] : i \in 1..n}
           Good(n) == /\ f[n] \in Seq(Nat) /\ Increasing(f[n])
                      /\ Members(f[n]) = First(n) \cap S
                      /\ Len(f[n]) <= n
           Bad == {n \in 0..Len(s) : ~Good(n)}
<1>1. f = [n \in 0..Len(s) |->
              IF n = 0 THEN <<>>
              ELSE IF s[n] \in S THEN Append(f[n-1], s[n]) ELSE f[n-1]]
  BY RetainExists, ZenonT(60)
<1>2. Retain(s, S) = f[Len(s)]
  BY DEF Retain
<1> HIDE DEF f
<1>3. Len(s) \in Nat /\ Len(s) \in 0..Len(s) /\ First(Len(s)) = Members(s)
  BY DEF Members
<1>4. ASSUME Bad # {} PROVE FALSE
  <2> HIDE DEF Good
  <2>1. Bad \in SUBSET Nat
    BY <1>3
  <2>2. PICK n \in Bad : \A k \in Bad : n <= k
    <3> HIDE DEF Bad
    <3> QED
      BY <1>4, <2>1, Least
  <2>3. n \in 0..Len(s) /\ ~Good(n)
    OBVIOUS
  <2>4. CASE n = 0
    <3>1. f[0] = <<>>
      BY <1>1, <1>3
    <3>2. Good(0)
      BY <3>1 DEF Good, Increasing, Members
    <3> QED
      BY <2>3, <2>4, <3>2
  <2>5. CASE n # 0
    <3>1. n - 1 \in 0..Len(s) /\ ~(n <= n - 1) /\ n \in 1..Len(s)
      BY <1>3, <2>3, <2>5
    <3>2. Good(n - 1)
      <4>1. n - 1 \notin Bad
        <5> HIDE DEF Bad
        <5> QED
          BY <2>2, <3>1
      <4> QED
        BY <3>1, <4>1
    <3>3. f[n] = IF s[n] \in S THEN Append(f[n-1], s[n]) ELSE f[n-1]
      BY <1>1, <2>3, <2>5
    <3>4. First(n) = First(n - 1) \cup {s[n]}
      <4>1. 1..n = (1..(n-1)) \cup {n}
        BY <3>1
      <4> QED
        BY <4>1
    <3>5. s[n] \in Nat /\ \A x \in First(n - 1) : x < s[n]
      <4>1. s[n] \in Nat
        BY <3>1
      <4>2. ASSUME NEW i \in 1..(n-1) PROVE s[i] < s[n]
        <5>1. i \in 1..Len(s) /\ i < n
          BY <3>1, <1>3
        <5> QED
          BY <3>1, <5>1 DEF Increasing
      <4> QED
        BY <4>1, <4>2
    <3> HIDE DEF First
    <3>6. PICK h : h = f[n-1]
      OBVIOUS
    <3>7. /\ h \in Seq(Nat) /\ Increasing(h) /\ Members(h) = First(n - 1) \cap S
          /\ Len(h) <= n - 1
      BY <3>2, <3>6 DEF Good
    <3>8. CASE s[n] \in S
      <4>1. PICK g : g = Append(h, s[n])
        OBVIOUS
      <4>2. /\ g \in Seq(Nat) /\ Len(g) = Len(h) + 1 /\ Len(h) \in Nat
            /\ \A i \in 1..Len(h) : g[i] = h[i]
            /\ g[Len(g)] = s[n]
        BY <3>5, <3>7, <4>1
      <4>3. \A i \in 1..Len(h) : h[i] \in Members(h) /\ h[i] \in Nat
        BY <3>7 DEF Members
      <4>4. Increasing(g)
        <5> SUFFICES ASSUME NEW i \in 1..Len(g), NEW j \in 1..Len(g), i < j
                     PROVE  g[i] < g[j]
          BY DEF Increasing
        <5>1. i \in 1..Len(h)
          BY <4>2
        <5>2. CASE j = Len(g)
          BY <3>5, <3>7, <4>2, <4>3, <5>1, <5>2
        <5>3. CASE j # Len(g)
          <6>0. Len(g) = Len(h) + 1 /\ Len(h) \in Nat
            BY <4>2
          <6>1. j \in 1..Len(h)
            BY <5>3, <6>0
          <6> QED
            BY <3>7, <4>2, <5>1, <6>1 DEF Increasing
        <5> QED
          BY <5>2, <5>3
      <4>5. Members(g) = Members(h) \cup {s[n]}
        <5>1. 1..Len(g) = (1..Len(h)) \cup {Len(g)}
          BY <4>2
        <5> QED
          BY <4>2, <5>1 DEF Members
      <4>6. Members(g) = First(n) \cap S
        BY <3>4, <3>7, <3>8, <4>5
      <4>7. f[n] = g
        BY <3>3, <3>6, <3>8, <4>1
      <4>8. Len(g) <= n
        BY <3>1, <3>7, <4>2
      <4> QED
        BY <2>3, <4>2, <4>4, <4>6, <4>7, <4>8 DEF Good
    <3>9. CASE s[n] \notin S
      <4>1. f[n] = h /\ First(n) \cap S = First(n - 1) \cap S
        BY <3>3, <3>4, <3>6, <3>9
      <4>2. Len(h) <= n
        BY <3>1, <3>7
      <4> QED
        BY <2>3, <3>7, <4>1, <4>2 DEF Good
    <3> QED
      BY <3>8, <3>9
  <2> QED
    BY <2>4, <2>5
<1>5. Good(Len(s))
  <2> HIDE DEF Good
  <2> QED
    BY <1>3, <1>4
<1> HIDE DEF First
<1> QED
  BY <1>2, <1>3, <1>5

\* An increasing sequence that has, with one element of b, all later ones is
\* the end of b.
LEMMA EndOf ==
  ASSUME NEW a \in Seq(Nat), NEW b \in Seq(Nat), Increasing(a), Increasing(b),
         Members(a) \subseteq Members(b),
         \A x \in Members(a), y \in Members(b) : x <= y => y \in Members(a)
  PROVE  Len(a) <= Len(b) /\ a = SubSeq(b, Len(b) - Len(a) + 1, Len(b))
<1> DEFINE p == Len(a)
           q == Len(b)
           Same(k) == k < q /\ a[p - k] = b[q - k]
           Bad == {k \in 0..(p-1) : ~Same(k)}
<1>1. p \in Nat /\ q \in Nat
  OBVIOUS
<1>2. /\ \A i \in 1..p : a[i] \in Nat /\ a[i] \in Members(a)
      /\ \A i \in 1..q : b[i] \in Nat /\ b[i] \in Members(b)
  BY DEF Members
<1>3. /\ \A x \in Members(a) : \E i \in 1..p : x = a[i]
      /\ \A x \in Members(b) : \E i \in 1..q : x = b[i]
  BY DEF Members
<1>4. /\ \A i, j \in 1..p : i < j => a[i] < a[j]
      /\ \A i, j \in 1..q : i < j => b[i] < b[j]
  BY DEF Increasing
<1> HIDE DEF p, q
<1>5. ASSUME Bad # {} PROVE FALSE
  <2>1. Bad \in SUBSET Nat
    BY <1>1
  <2>2. PICK k \in Bad : \A l \in Bad : k <= l
    <3> HIDE DEF Bad
    <3> QED
      BY <1>5, <2>1, Least
  <2>3. k \in Nat /\ k <= p - 1 /\ p - k \in 1..p /\ ~Same(k)
    BY <1>1
  <2> DEFINE x == a[p - k]
  <2>4. x \in Nat /\ x \in Members(a) /\ x \in Members(b)
    BY <1>2, <2>3
  <2>5. PICK j \in 1..q : x = b[j]
    BY <1>3, <2>4
  <2> HIDE DEF x
  <2>6. CASE k = 0
    <3>1. ASSUME j # q PROVE FALSE
      <4>1. q \in 1..q /\ j < q
        BY <1>1, <3>1
      <4>2. x < b[q] /\ b[q] \in Nat /\ b[q] \in Members(b)
        BY <1>2, <1>4, <2>5, <4>1
      <4>3. b[q] \in Members(a)
        BY <2>4, <4>2
      <4>4. PICK i \in 1..p : b[q] = a[i]
        BY <1>3, <4>3
      <4>5. i < p \/ i = p
        BY <1>1
      <4>6. a[i] < a[p] \/ a[i] = a[p]
        BY <1>1, <1>4, <2>3, <2>6, <4>5
      <4>7. x = a[p]
        BY <1>1, <2>6 DEF x
      <4> QED
        BY <2>4, <4>2, <4>4, <4>6, <4>7, SMTT(30)
    <3>2. Same(0)
      BY <1>1, <2>5, <2>6, <3>1 DEF x
    <3> QED
      BY <2>3, <2>6, <3>2
  <2>7. CASE k # 0
    <3>1. k - 1 \in 0..(p-1) /\ ~(k <= k - 1)
      BY <1>1, <2>3, <2>7
    <3>2. Same(k - 1)
      <4>1. k - 1 \notin Bad
        <5> HIDE DEF Bad
        <5> QED
          BY <2>2, <3>1
      <4> QED
        BY <3>1, <4>1
    <3>3. /\ p - (k - 1) = (p - k) + 1 /\ q - (k - 1) = (q - k) + 1
          /\ (p - k) + 1 \in 1..p /\ (q - k) + 1 \in 1..q
      BY <1>1, <2>3, <2>7, <3>2
    <3>4. a[(p - k) + 1] = b[(q - k) + 1]
      BY <3>2, <3>3
    <3>5. x < a[(p - k) + 1]
      BY <1>1, <1>4, <2>3, <3>3 DEF x
    <3>6. j < (q - k) + 1
      <4> SUFFICES ASSUME j > (q - k) + 1 \/ j = (q - k) + 1 PROVE FALSE
        BY <1>1, <2>3
      <4>1. b[(q - k) + 1] < b[j] \/ b[(q - k) + 1] = b[j]
        BY <1>1, <1>4, <2>3, <3>3
      <4> QED
        BY <1>2, <2>5, <3>3, <3>4, <3>5, <4>1
    <3>7. ASSUME j # q - k PROVE FALSE
      <4>1. j < q - k /\ q - k \in 1..q
        BY <1>1, <2>3, <3>6, <3>7
      <4> DEFINE y == b[q - k]
      <4>2. x < y /\ y \in Nat /\ y \in Members(b)
        BY <1>2, <1>4, <2>5, <4>1
      <4>3. y < b[(q - k) + 1]
        BY <1>1, <1>4, <2>3, <3>3, <4>1
      <4> HIDE DEF y
      <4>4. PICK i \in 1..p : y = a[i]
        BY <1>3, <2>4, <4>2
      <4>5. i > p - k
        <5> SUFFICES ASSUME i < p - k \/ i = p - k PROVE FALSE
          BY <1>1, <2>3
        <5>1. a[i] < a[p - k] \/ a[i] = a[p - k]
          BY <1>4, <2>3
        <5> QED
          BY <1>2, <2>3, <2>4, <4>2, <4>4, <5>1 DEF x
      <4>6. i > (p - k) + 1 \/ i = (p - k) + 1
        BY <1>1, <2>3, <4>5
      <4>7. a[(p - k) + 1] < a[i] \/ a[(p - k) + 1] = a[i]
        BY <1>4, <3>3, <4>6
      <4> QED
        BY <1>2, <3>3, <3>4, <4>2, <4>3, <4>4, <4>7
    <3>8. Same(k)
      BY <1>1, <2>3, <2>5, <3>7 DEF x
    <3> QED
      BY <2>3, <3>8
  <2> QED
    BY <2>6, <2>7
<1>6. \A k \in 0..(p-1) : Same(k)
  BY <1>5
<1>7. p <= q
  <2>1. CASE p = 0
    BY <1>1, <2>1
  <2>2. CASE p # 0
    <3>1. p - 1 \in 0..(p-1)
      BY <1>1, <2>2
    <3> QED
      BY <1>1, <1>6, <3>1
  <2> QED
    BY <2>1, <2>2
<1>8. ASSUME NEW i \in 1..p
      PROVE  a[i] = b[(q - p) + i]
  <2>1. p - i \in 0..(p-1) /\ p - (p - i) = i /\ q - (p - i) = (q - p) + i
    BY <1>1
  <2> QED
    BY <1>6, <2>1
<1> DEFINE m == (q - p) + 1
           c == SubSeq(b, m, q)
<1>9. m \in Int /\ q \in Int /\ \A i \in m..q : b[i] \in Nat
  BY <1>1, <1>2, <1>7
<1>10. /\ c \in Seq(Nat) /\ Len(c) = p
       /\ \A i \in 1..p : c[i] = b[(q - p) + i]
  <2>1. /\ c \in Seq(Nat)
        /\ Len(c) = IF m <= q THEN (q - m) + 1 ELSE 0
        /\ \A i \in 1..((q - m) + 1) : c[i] = b[(m + i) - 1]
    <3> HIDE DEF m
    <3>1. /\ c \in Seq(Nat)
          /\ Len(c) = IF m <= q THEN q - m + 1 ELSE 0
          /\ \A i \in 1..(q - m + 1) : c[i] = b[m + i - 1]
      BY <1>9, SubSeqProperties
    <3>2. \A i \in 1..(q - m + 1) : m + i - 1 = (m + i) - 1
      BY <1>9
    <3> QED
      BY <3>1, <3>2
  <2>2. (q - m) + 1 = p /\ (m <= q <=> p > 0)
    BY <1>1
  <2>3. \A i \in 1..p : (m + i) - 1 = (q - p) + i
    BY <1>1
  <2> QED
    BY <1>1, <2>1, <2>2, <2>3
<1>11. a = c
  <2> HIDE DEF c
  <2>1. Len(a) = Len(c) /\ \A i \in 1..Len(a) : a[i] = c[i]
    BY <1>8, <1>10 DEF p
  <2> QED
    BY <1>10, <2>1, SeqEqual
<1> QED
  BY <1>7, <1>11 DEF p, q

-----------------------------------------------------------------------------
(* The inductive invariant of the bus. *)

Request == [session : Sessions, receipt : Outcomes]
Conn == [stage : ConnStages, item : Nat \cup Sessions]

\* The connection holds a command.
Busy == {"popped", "admitted", "sending"}

\* What was written, the command in hand and the queue are in the order of
\* acceptance, and what is answered Ok was written.
RequestsInv ==
    /\ requests \in Seq(Request)
    /\ conn \in Conn
    /\ queued \in Seq(Nat) /\ Increasing(queued) /\ Members(queued) \subseteq 1..Len(requests)
    /\ wire \in Seq(Nat) /\ Increasing(wire) /\ Members(wire) \subseteq 1..Len(requests)
    /\ \A w \in Members(wire), r \in Members(queued) : w < r
    /\ conn.stage \in Busy =>
          /\ conn.item \in 1..Len(requests)
          /\ \A w \in Members(wire) : w < conn.item
          /\ \A r \in Members(queued) : conn.item < r
    /\ \A r \in 1..Len(requests) : requests[r].receipt = "ok" => r \in Members(wire)

\* A session whose close has got the lock is closed, and the connection holds
\* its read guard for an open session only.
CloseInv ==
    /\ closing \in [Sessions -> {"open", "waiting", "marked", "done"}]
    /\ closed \subseteq Sessions
    /\ \A s \in Sessions : closing[s] \in {"marked", "done"} => s \in closed
    /\ conn.stage \in {"admitted", "sending"} => SessionOf(conn.item) \notin closed

\* With one event the history has all later ones of open sessions.
EventsInv ==
    /\ log \in Seq(Sessions)
    /\ conn.stage = "received" => conn.item \in Sessions
    /\ history \in Seq(Nat) /\ Increasing(history) /\ Members(history) \subseteq 1..Len(log)
    /\ \A h \in Members(history), e \in 1..Len(log) :
          h <= e /\ log[e] \notin closed => e \in Members(history)

\* What a subscription has taken from its channel, or from the history.
Taken(b) == (b.got \o b.held) \o b.replay

Subscription ==
    [stage : SubStages, session : Sessions \cup {NoSub.session}, replay : Seq(Nat),
     live : Seq(Nat), lag : BOOLEAN, held : Seq(Nat), got : Seq(Nat)]

\* The channel holds the newest events; what was taken precedes them, is of
\* the session, and has with one event all later ones.
Following(b) ==
    /\ b.session \in Sessions
    /\ Len(b.live) <= Len(log)
    /\ \A i \in 1..Len(b.live) : b.live[i] = Len(log) - Len(b.live) + i
    /\ Increasing(Taken(b))
    /\ \A e \in Members(Taken(b)) : e \in 1..(Len(log) - Len(b.live)) /\ log[e] = b.session
    /\ ~b.lag /\ b.session \notin closed =>
          \A x \in Members(Taken(b)), e \in 1..(Len(log) - Len(b.live)) :
              x <= e /\ log[e] = b.session => e \in Members(Taken(b))

SubOK(b) ==
    /\ b \in Subscription
    /\ b.stage = "subscribing" =>
          /\ b.session \in Sessions
          /\ b.replay = <<>> /\ b.live = <<>> /\ b.held = <<>> /\ b.got = <<>>
    /\ b.stage = "idle" => b.held = <<>>
    /\ b.stage = "holding" => b.replay = <<>>
    /\ b.stage \in {"idle", "holding"} => Following(b)

SubsInv ==
    /\ subs = [u \in Subscribers |-> subs[u]]
    /\ \A u \in Subscribers : SubOK(subs[u])

BusInv == RequestsInv /\ CloseInv /\ EventsInv /\ SubsInv

-----------------------------------------------------------------------------
(* Commands. *)

LEMMA AppendFacts ==
  ASSUME NEW s \in Seq(Nat), NEW x \in Nat, Increasing(s), \A y \in Members(s) : y < x
  PROVE  /\ Append(s, x) \in Seq(Nat) /\ Increasing(Append(s, x))
         /\ Members(Append(s, x)) = Members(s) \cup {x}
<1>1. PICK g : g = Append(s, x)
  OBVIOUS
<1>2. g \in Seq(Nat) /\ Len(g) = Len(s) + 1 /\ Len(s) \in Nat
  BY <1>1
<1>3. (\A i \in 1..Len(s) : g[i] = s[i]) /\ g[Len(g)] = x
  BY <1>1
<1>4. \A i \in 1..Len(s) : s[i] \in Members(s) /\ s[i] \in Nat
  BY DEF Members
<1>5. Increasing(g)
  <2> SUFFICES ASSUME NEW i \in 1..Len(g), NEW j \in 1..Len(g), i < j
               PROVE  g[i] < g[j]
    BY DEF Increasing
  <2>1. i \in 1..Len(s)
    BY <1>2
  <2>2. CASE j = Len(g)
    BY <1>3, <1>4, <2>1, <2>2
  <2>3. CASE j # Len(g)
    <3>1. j \in 1..Len(s)
      BY <1>2, <2>3, SMTT(30)
    <3> QED
      BY <1>3, <2>1, <3>1 DEF Increasing
  <2> QED
    BY <2>2, <2>3
<1>6. Members(g) = Members(s) \cup {x}
  <2>1. 1..Len(g) = (1..Len(s)) \cup {Len(g)}
    BY <1>2
  <2> QED
    BY <1>3, <2>1, SMTT(30) DEF Members
<1> QED
  BY <1>1, <1>2, <1>5, <1>6

LEMMA TailFacts ==
  ASSUME NEW s \in Seq(Nat), Increasing(s), s # <<>>
  PROVE  /\ Tail(s) \in Seq(Nat) /\ Increasing(Tail(s)) /\ Head(s) \in Members(s)
         /\ Members(Tail(s)) \subseteq Members(s)
         /\ \A x \in Members(Tail(s)) : Head(s) < x
         /\ Members(s) = Members(Tail(s)) \cup {Head(s)}
<1>1. PICK g : g = Tail(s)
  OBVIOUS
<1>2. /\ g \in Seq(Nat) /\ Len(g) = Len(s) - 1 /\ Len(s) \in Nat /\ Len(s) >= 1
      /\ Len(g) \in Nat
  BY <1>1
<1>3. Head(s) = s[1] /\ \A i \in 1..Len(g) : g[i] = s[i + 1]
  BY <1>1
<1>4. \A i \in 1..Len(g) : i + 1 \in 1..Len(s)
  BY <1>2
<1>5. Increasing(g)
  <2> SUFFICES ASSUME NEW i \in 1..Len(g), NEW j \in 1..Len(g), i < j
               PROVE  g[i] < g[j]
    BY DEF Increasing
  <2>1. i + 1 \in 1..Len(s) /\ j + 1 \in 1..Len(s) /\ i + 1 < j + 1
    BY <1>4
  <2> QED
    BY <1>3, <2>1 DEF Increasing
<1>6. 1 \in 1..Len(s) /\ Head(s) \in Members(s)
  BY <1>2, <1>3 DEF Members
<1>7. Members(g) \subseteq Members(s)
  <2> SUFFICES ASSUME NEW i \in 1..Len(g) PROVE g[i] \in Members(s)
    BY DEF Members
  <2> QED
    BY <1>3, <1>4 DEF Members
<1>8. ASSUME NEW x \in Members(g) PROVE Head(s) < x
  <2>1. PICK i \in 1..Len(g) : x = s[i + 1]
    BY <1>3 DEF Members
  <2>2. 1 < i + 1
    BY <1>2
  <2> QED
    BY <1>3, <1>4, <1>6, <2>1, <2>2 DEF Increasing
<1>9. ASSUME NEW x \in Members(s), x # Head(s) PROVE x \in Members(g)
  <2>1. PICK i \in 1..Len(s) : x = s[i]
    BY DEF Members
  <2>2. i # 1
    BY <1>3, <1>9, <2>1
  <2>3. i - 1 \in 1..Len(g) /\ (i - 1) + 1 = i
    BY <1>2, <2>2
  <2>4. g[i - 1] = x
    BY <1>3, <2>1, <2>3
  <2> QED
    BY <2>3, <2>4 DEF Members
<1> QED
  BY <1>1, <1>2, <1>5, <1>6, <1>7, <1>8, <1>9

\* complete_authenticated and its kind: only receipts change.
SameRequests ==
    /\ requests' \in Seq(Request)
    /\ Len(requests') = Len(requests)
    /\ \A r \in 1..Len(requests) : requests'[r].session = requests[r].session

LEMMA FinishedFacts ==
  ASSUME requests \in Seq(Request), NEW rs, NEW outcome \in Outcomes,
         requests' = Finished(rs, outcome)
  PROVE  /\ SameRequests
         /\ \A r \in 1..Len(requests) :
               requests'[r].receipt = requests[r].receipt \/ (r \in rs /\ requests'[r].receipt = outcome)
<1>1. DOMAIN requests = 1..Len(requests) /\ Len(requests) \in Nat
  OBVIOUS
<1>2. ASSUME NEW r \in 1..Len(requests)
      PROVE  /\ requests'[r] \in Request /\ requests'[r].session = requests[r].session
             /\ requests'[r].receipt = requests[r].receipt \/ (r \in rs /\ requests'[r].receipt = outcome)
  <2>1. requests[r] \in Request
    OBVIOUS
  <2>2. PICK q : q = [requests[r] EXCEPT !.receipt = outcome]
    OBVIOUS
  <2>3. q \in Request /\ q.session = requests[r].session /\ q.receipt = outcome
    BY <2>1, <2>2 DEF Request
  <2>4. \/ requests'[r] = requests[r]
        \/ r \in rs /\ requests'[r] = q
    BY <1>1, <2>2 DEF Finished
  <2> QED
    BY <2>1, <2>3, <2>4
<1>3. requests' \in [1..Len(requests) -> Request]
  BY <1>1, <1>2 DEF Finished
<1>4. requests' \in Seq(Request) /\ Len(requests') = Len(requests)
  BY <1>1, <1>3
<1> QED
  BY <1>2, <1>4 DEF SameRequests

\* The connection lets go of its command, or keeps it.
HoldsSame ==
    /\ conn' \in Conn
    /\ conn'.stage \in Busy => conn.stage \in Busy /\ conn'.item = conn.item

LEMMA RequestsKept ==
  ASSUME RequestsInv, SameRequests, HoldsSame, wire' = wire,
         \A r \in 1..Len(requests) : requests'[r].receipt = "ok" => requests[r].receipt = "ok",
         queued' \in Seq(Nat), Increasing(queued'), Members(queued') \subseteq Members(queued)
  PROVE  RequestsInv'
<1>1. /\ requests' \in Seq(Request) /\ conn' \in Conn /\ Len(requests') = Len(requests)
      /\ wire' \in Seq(Nat) /\ Increasing(wire') /\ Members(wire') = Members(wire)
  BY DEF RequestsInv, SameRequests, HoldsSame
<1>2. /\ Members(queued') \subseteq 1..Len(requests')
      /\ Members(wire') \subseteq 1..Len(requests')
      /\ \A w \in Members(wire'), r \in Members(queued') : w < r
  BY <1>1 DEF RequestsInv
<1>3. conn'.stage \in Busy =>
          /\ conn'.item \in 1..Len(requests')
          /\ \A w \in Members(wire') : w < conn'.item
          /\ \A r \in Members(queued') : conn'.item < r
  BY <1>1 DEF RequestsInv, HoldsSame
<1>4. \A r \in 1..Len(requests') : requests'[r].receipt = "ok" => r \in Members(wire')
  BY <1>1 DEF RequestsInv
<1> QED
  BY <1>1, <1>2, <1>3, <1>4 DEF RequestsInv

LEMMA SameIfUnchanged ==
  ASSUME RequestsInv, requests' = requests
  PROVE  SameRequests /\ \A r \in 1..Len(requests) : requests'[r].receipt = "ok" => requests[r].receipt = "ok"
BY DEF RequestsInv, SameRequests

LEMMA SameIfFinished ==
  ASSUME RequestsInv, NEW rs, NEW outcome \in Outcomes \ {"ok"}, requests' = Finished(rs, outcome)
  PROVE  SameRequests /\ \A r \in 1..Len(requests) : requests'[r].receipt = "ok" => requests[r].receipt = "ok"
BY FinishedFacts DEF RequestsInv

LEMMA LetsGo ==
  ASSUME NEW stage \in ConnStages \ Busy, ConnTo(stage)
  PROVE  HoldsSame /\ conn'.stage = stage
BY DEF ConnTo, HoldsSame, Conn

\* The command in hand is not live any more, or goes on.
LEMMA Advances ==
  ASSUME RequestsInv, conn.stage \in Busy, NEW stage \in Busy,
         conn' = [conn EXCEPT !.stage = stage]
  PROVE  HoldsSame /\ conn'.stage = stage
<1>1. stage \in ConnStages
  BY DEF Busy, ConnStages
<1> QED
  BY <1>1 DEF RequestsInv, HoldsSame, Conn

\* Nothing but the stage of the connection changes.
LEMMA ConnOnly ==
  ASSUME RequestsInv, HoldsSame, UNCHANGED <<requests, queued, wire>>
  PROVE  RequestsInv'
BY SameIfUnchanged, RequestsKept DEF RequestsInv

LEMMA TrySendRequests ==
  ASSUME RequestsInv, NEW s \in Sessions, TrySend(s)
  PROVE  RequestsInv'
<1>1. PICK new : new = [session |-> s, receipt |-> "waiting"]
  OBVIOUS
<1>2. new \in Request /\ new.receipt = "waiting"
  BY <1>1 DEF Request, Outcomes
<1>3. /\ requests' = Append(requests, new) /\ queued' = Append(queued, Len(requests) + 1)
      /\ conn' = conn /\ wire' = wire
  BY <1>1 DEF TrySend
<1>4. Len(requests) \in Nat /\ requests \in Seq(Request)
  BY DEF RequestsInv
<1>5. /\ requests' \in Seq(Request) /\ Len(requests') = Len(requests) + 1
      /\ \A r \in 1..Len(requests) : requests'[r] = requests[r]
      /\ requests'[Len(requests) + 1] = new
  BY <1>2, <1>3, <1>4
<1>6. /\ queued' \in Seq(Nat) /\ Increasing(queued')
      /\ Members(queued') = Members(queued) \cup {Len(requests) + 1}
  <2>1. \A y \in Members(queued) : y < Len(requests) + 1
    BY <1>4 DEF RequestsInv
  <2> QED
    BY <1>3, <1>4, <2>1, AppendFacts DEF RequestsInv
<1>7. 1..Len(requests') = (1..Len(requests)) \cup {Len(requests) + 1}
  BY <1>4, <1>5
<1>8. \A w \in Members(wire) : w \in Nat /\ w < Len(requests) + 1
  BY <1>4 DEF RequestsInv
<1>9. conn.stage \in Busy => conn.item < Len(requests) + 1
  BY <1>4 DEF RequestsInv
<1>10. /\ Members(queued') \subseteq 1..Len(requests') /\ Members(wire') \subseteq 1..Len(requests')
       /\ \A w \in Members(wire'), r \in Members(queued') : w < r
  BY <1>3, <1>6, <1>7, <1>8 DEF RequestsInv
<1>11. conn'.stage \in Busy =>
          /\ conn'.item \in 1..Len(requests')
          /\ \A w \in Members(wire') : w < conn'.item
          /\ \A r \in Members(queued') : conn'.item < r
  BY <1>3, <1>6, <1>7, <1>9 DEF RequestsInv
<1>12. \A r \in 1..Len(requests') : requests'[r].receipt = "ok" => r \in Members(wire')
  BY <1>2, <1>3, <1>5, <1>7 DEF RequestsInv
<1> QED
  BY <1>3, <1>5, <1>6, <1>10, <1>11, <1>12 DEF RequestsInv

LEMMA PopRequests ==
  ASSUME RequestsInv, PopRequest
  PROVE  RequestsInv'
<1>1. /\ queued # <<>> /\ queued' = Tail(queued) /\ requests' = requests /\ wire' = wire
      /\ conn' = [stage |-> "popped", item |-> Head(queued)]
  BY DEF PopRequest
<1>2. /\ Tail(queued) \in Seq(Nat) /\ Increasing(Tail(queued)) /\ Head(queued) \in Members(queued)
      /\ Members(Tail(queued)) \subseteq Members(queued)
      /\ \A x \in Members(Tail(queued)) : Head(queued) < x
  BY <1>1, TailFacts DEF RequestsInv
<1>3. Head(queued) \in 1..Len(requests) /\ \A w \in Members(wire) : w < Head(queued)
  BY <1>2 DEF RequestsInv
<1>4. conn' \in Conn /\ conn'.item = Head(queued)
  <2>1. Head(queued) \in Nat
    BY <1>3
  <2> QED
    BY <1>1, <2>1 DEF Conn, ConnStages
<1>5. /\ Members(queued') \subseteq 1..Len(requests)
      /\ \A w \in Members(wire), r \in Members(queued') : w < r
  BY <1>1, <1>2 DEF RequestsInv
<1> QED
  BY <1>1, <1>2, <1>3, <1>4, <1>5 DEF RequestsInv

\* The command in hand is written, or may have been, and is let go.
LEMMA SentRequests ==
  ASSUME RequestsInv, SendDone \/ SendFails
  PROVE  RequestsInv'
<1>0. RequestsInv
  OBVIOUS
<1>1. /\ conn.stage = "sending" /\ wire' \in {wire, Append(wire, conn.item)} /\ queued' = queued
      /\ ConnTo("up") \/ ConnTo("down")
  BY DEF SendDone, SendFails
<1>2. /\ conn.item \in 1..Len(requests) /\ \A w \in Members(wire) : w < conn.item
      /\ \A r \in Members(queued) : conn.item < r
  BY <1>1 DEF RequestsInv, Busy
<1>3. conn.item \in Nat
  BY <1>2
<1>4. /\ wire' \in Seq(Nat) /\ Increasing(wire')
      /\ Members(wire) \subseteq Members(wire')
      /\ Members(wire') \subseteq Members(wire) \cup {conn.item}
      /\ wire' = Append(wire, conn.item) => conn.item \in Members(wire')
  BY <1>1, <1>2, <1>3, AppendFacts DEF RequestsInv
<1>5. HoldsSame /\ conn'.stage \notin Busy
  BY <1>1, LetsGo DEF ConnStages, Busy
<1>6. /\ SameRequests
      /\ \A r \in 1..Len(requests) : requests'[r].receipt = "ok" =>
            requests[r].receipt = "ok" \/ (r = conn.item /\ SendDone)
  <2>1. "ok" \in Outcomes /\ "unavailable" \in Outcomes
    BY DEF Outcomes
  <2>2. CASE requests' = requests
    BY <2>2, SameIfUnchanged
  <2>3. CASE SendDone /\ requests' = Finished({conn.item}, "ok")
    <3>1. /\ SameRequests
          /\ \A r \in 1..Len(requests) : requests'[r].receipt = requests[r].receipt
                \/ (r \in {conn.item} /\ requests'[r].receipt = "ok")
      BY <2>1, <2>3, FinishedFacts DEF RequestsInv
    <3> QED
      BY <2>3, <3>1, Zenon
  <2>4. CASE requests' = Finished({conn.item}, "unavailable")
    <3>1. "unavailable" \in Outcomes \ {"ok"}
      BY <2>1
    <3> QED
      BY <1>0, <2>4, <3>1, SameIfFinished
  <2> QED
    BY <2>2, <2>3, <2>4 DEF SendDone, SendFails, Complete
<1>7. /\ Members(wire') \subseteq 1..Len(requests') /\ Members(queued') \subseteq 1..Len(requests')
      /\ \A w \in Members(wire'), r \in Members(queued') : w < r
  BY <1>1, <1>2, <1>4, <1>6 DEF RequestsInv, SameRequests
<1>8. \A r \in 1..Len(requests') : requests'[r].receipt = "ok" => r \in Members(wire')
  BY <1>4, <1>6 DEF RequestsInv, SameRequests, SendDone
<1> QED
  BY <1>1, <1>4, <1>5, <1>6, <1>7, <1>8 DEF RequestsInv, HoldsSame, SameRequests

LEMMA StepRequests ==
  ASSUME BusInv, BusNext
  PROVE  RequestsInv'
<1>0. RequestsInv
  BY DEF BusInv
<1>1. /\ {"waiting", "dropped", "ok", "closed", "unavailable", "invalid"} \subseteq Outcomes
      /\ {"down", "up", "received", "relaySending", "inactive", "drained", "stopped"}
            \subseteq ConnStages \ Busy
      /\ {"admitted", "sending"} \subseteq Busy
  BY DEF Outcomes, ConnStages, Busy
<1>2. conn' = conn => HoldsSame
  BY <1>0 DEF RequestsInv, HoldsSame
<1>3. queued \in Seq(Nat) /\ Increasing(queued)
  BY <1>0 DEF RequestsInv
<1>4. CASE \E s \in Sessions : TrySend(s)
  BY <1>0, <1>4, TrySendRequests
<1>5. CASE PopRequest
  BY <1>0, <1>5, PopRequests
<1>6. CASE SendDone \/ SendFails
  BY <1>0, <1>6, SentRequests
<1>7. CASE Connect \/ Disconnect \/ RelayPop \/ RelayAnswer \/ Deactivate \/ DrainRelay \/ Publish
  <2>1. UNCHANGED <<requests, queued, wire>>
    BY <1>7 DEF Connect, Disconnect, RelayPop, RelayAnswer, Deactivate, DrainRelay, Publish
  <2>2. \E stage \in {"down", "up", "relaySending", "inactive", "drained"} : ConnTo(stage)
    BY <1>7 DEF Connect, Disconnect, RelayPop, RelayAnswer, Deactivate, DrainRelay, Publish, ConnTo
  <2> QED
    BY <1>0, <1>1, <2>1, <2>2, LetsGo, ConnOnly
<1>8. CASE \E s \in Sessions : Receive(s)
  <2>1. UNCHANGED <<requests, queued, wire>>
    BY <1>8 DEF Receive
  <2>2. HoldsSame
    BY <1>1, <1>8 DEF Receive, HoldsSame, Conn
  <2> QED
    BY <1>0, <2>1, <2>2, ConnOnly
<1>9. CASE Admit \/ StartSend
  <2>1. conn.stage \in Busy /\ UNCHANGED <<requests, queued, wire>>
    BY <1>9 DEF Admit, StartSend, Busy
  <2>2. ConnTo("up") \/ \E stage \in {"admitted", "sending"} : conn' = [conn EXCEPT !.stage = stage]
    BY <1>9 DEF Admit, StartSend
  <2> QED
    BY <1>0, <1>1, <2>1, <2>2, LetsGo, Advances, ConnOnly
<1>10. CASE RefuseInvalid
  <2>1. HoldsSame /\ queued' = queued /\ wire' = wire
    BY <1>1, <1>10, LetsGo DEF RefuseInvalid
  <2>2. requests' = requests \/ requests' = Finished({conn.item}, "invalid")
    BY <1>10 DEF RefuseInvalid, Complete
  <2> QED
    BY <1>0, <1>1, <1>3, <2>1, <2>2, SameIfUnchanged, SameIfFinished, RequestsKept
<1>11. CASE StopTask
  <2>1. HoldsSame /\ queued' = <<>> /\ wire' = wire /\ requests' = Finished(pending, "unavailable")
    BY <1>1, <1>11, LetsGo DEF StopTask
  <2>2. queued' \in Seq(Nat) /\ Increasing(queued') /\ Members(queued') \subseteq Members(queued)
    BY <2>1 DEF Increasing, Members
  <2> QED
    BY <1>0, <1>1, <2>1, <2>2, SameIfFinished, RequestsKept
<1>12. CASE \E r \in Ids : DropReceipt(r)
  BY <1>0, <1>1, <1>2, <1>3, <1>12, SameIfFinished, RequestsKept DEF DropReceipt
<1>13. CASE \E s \in Sessions : MarkClosed(s)
  <2>1. PICK s \in Sessions : MarkClosed(s)
    BY <1>13
  <2>2. PICK S : queued' = Retain(queued, S) /\ UNCHANGED <<requests, conn, wire>>
    BY <2>1 DEF MarkClosed
  <2>3. queued' \in Seq(Nat) /\ Increasing(queued') /\ Members(queued') \subseteq Members(queued)
    BY <1>3, <2>2, RetainFacts
  <2> QED
    BY <1>0, <1>2, <2>2, <2>3, SameIfUnchanged, RequestsKept
<1>14. CASE \E s \in Sessions : FinishClose(s)
  <2>1. /\ UNCHANGED <<queued, conn, wire>>
        /\ \E rs : requests' = Finished(rs, "closed")
    BY <1>14 DEF FinishClose
  <2> QED
    BY <1>0, <1>1, <1>2, <1>3, <2>1, SameIfFinished, RequestsKept
<1>15. CASE UNCHANGED <<requests, queued, wire, conn>>
  BY <1>0, <1>2, <1>15, ConnOnly
<1> QED
  BY <1>4, <1>5, <1>6, <1>7, <1>8, <1>9, <1>10, <1>11, <1>12, <1>13, <1>14, <1>15
     DEF BusNext, ConnStep, ConnFault, Receiving, Callers, CloseStep, SubStep, StartClose,
         Subscribe, RelayCheck, RelayEnqueue, RequestShutdown, CopyHistory, RecvReplay,
         RecvLive, Deliver

-----------------------------------------------------------------------------
(* Closing. *)

Guarded == {"admitted", "sending"}

\* Old commands keep their sessions.
SessionsKept ==
    \A r \in 1..Len(requests) : requests'[r].session = requests[r].session

LEMMA StepSessions ==
  ASSUME BusInv, BusNext
  PROVE  SessionsKept
<1>0. RequestsInv /\ Len(requests) \in Nat /\ requests \in Seq(Request)
  BY DEF BusInv, RequestsInv
<1>1. {"waiting", "dropped", "ok", "closed", "unavailable", "invalid"} \subseteq Outcomes
  BY DEF Outcomes
<1>2. CASE \E s \in Sessions : TrySend(s)
  <2>1. PICK new : requests' = Append(requests, new)
    BY <1>2 DEF TrySend
  <2>2. \A r \in 1..Len(requests) : requests'[r] = requests[r]
    BY <1>0, <2>1
  <2> QED
    BY <2>2 DEF SessionsKept
<1>3. ASSUME NEW rs, NEW outcome \in Outcomes, requests' = Finished(rs, outcome)
      PROVE  SessionsKept
  BY <1>0, <1>3, FinishedFacts DEF SessionsKept, SameRequests
<1>4. CASE requests' = requests
  BY <1>4 DEF SessionsKept
<1>5. CASE SendDone \/ SendFails \/ RefuseInvalid
  <2>1. requests' = requests \/ \E outcome \in Outcomes : requests' = Finished({conn.item}, outcome)
    BY <1>1, <1>5 DEF SendDone, SendFails, RefuseInvalid, Complete
  <2> QED
    BY <1>3, <1>4, <2>1
<1>6. CASE StopTask
  <2>1. requests' = Finished(pending, "unavailable") /\ "unavailable" \in Outcomes
    BY <1>1, <1>6 DEF StopTask
  <2> QED
    BY <1>3, <2>1
<1>7. CASE \E r \in Ids : DropReceipt(r)
  <2>1. "dropped" \in Outcomes /\ \E r \in Ids : requests' = Finished({r}, "dropped")
    BY <1>1, <1>7 DEF DropReceipt
  <2> QED
    BY <1>3, <2>1
<1>8. CASE \E s \in Sessions : FinishClose(s)
  <2>1. "closed" \in Outcomes /\ \E rs : requests' = Finished(rs, "closed")
    BY <1>1, <1>8 DEF FinishClose
  <2> QED
    BY <1>3, <2>1
<1> QED
  BY <1>2, <1>4, <1>5, <1>6, <1>7, <1>8
     DEF BusNext, ConnStep, ConnFault, Receiving, Callers, CloseStep, SubStep, StartClose,
         Subscribe, RelayCheck, RelayEnqueue, RequestShutdown, CopyHistory, RecvReplay,
         RecvLive, Deliver, Connect, Disconnect, PopRequest, Admit, StartSend, Publish, RelayPop,
         RelayAnswer, Deactivate, DrainRelay, Receive, MarkClosed

LEMMA CloseKept ==
  ASSUME BusInv, SessionsKept, UNCHANGED <<closing, closed>>,
         conn'.stage \in Guarded => conn.stage \in Guarded /\ conn'.item = conn.item
  PROVE  CloseInv'
<1>1. conn.stage \in Guarded => conn.item \in 1..Len(requests)
  BY DEF BusInv, RequestsInv, Guarded, Busy
<1>2. conn'.stage \in Guarded => SessionOf(conn.item)' \notin closed
  BY <1>1 DEF BusInv, CloseInv, SessionsKept, SessionOf, Guarded
<1>3. conn'.stage \in Guarded => SessionOf(conn.item)' \notin closed'
  BY <1>2
<1> QED
  BY <1>3 DEF BusInv, CloseInv, Guarded

\* The read guard is taken, or kept, for an open session.
LEMMA GuardOpens ==
  ASSUME BusInv, Admit \/ StartSend
  PROVE  CloseInv'
<1>1. /\ conn.stage \in Busy /\ UNCHANGED <<requests, closing, closed>>
      /\ \/ ConnTo("up")
         \/ SessionOf(conn.item) \notin closed
            /\ \E stage \in {"admitted", "sending"} : conn' = [conn EXCEPT !.stage = stage]
  BY DEF Admit, StartSend, Busy, Live
<1>2. CASE ConnTo("up")
  BY <1>1, <1>2 DEF ConnTo, BusInv, CloseInv
<1>3. CASE /\ SessionOf(conn.item) \notin closed
           /\ \E stage \in {"admitted", "sending"} : conn' = [conn EXCEPT !.stage = stage]
  <2>1. conn'.item = conn.item
    BY <1>3 DEF BusInv, RequestsInv, Conn
  <2>2. SessionOf(conn.item)' \notin closed'
    BY <1>1, <1>3, <2>1 DEF SessionOf
  <2> QED
    BY <1>1, <2>2 DEF BusInv, CloseInv
<1> QED
  BY <1>1, <1>2, <1>3

LEMMA StepClose ==
  ASSUME BusInv, BusNext
  PROVE  CloseInv'
<1>0. SessionsKept
  BY StepSessions
<1>1. CASE Admit \/ StartSend
  BY <1>1, GuardOpens
<1>2. CASE \E s \in Sessions : StartClose(s)
  <2>1. PICK s \in Sessions : StartClose(s)
    BY <1>2
  <2>2. /\ closing[s] = "open" /\ closing' = [closing EXCEPT ![s] = "waiting"]
        /\ UNCHANGED <<requests, conn, closed>>
    BY <2>1 DEF StartClose
  <2> QED
    BY <2>2 DEF BusInv, CloseInv, SessionOf
<1>3. CASE \E s \in Sessions : MarkClosed(s)
  <2>1. PICK s \in Sessions : MarkClosed(s)
    BY <1>3
  <2>2. /\ closing' = [closing EXCEPT ![s] = "marked"] /\ closed' = closed \cup {s}
        /\ UNCHANGED <<requests, conn>> /\ conn.stage \notin {"admitted", "sending"}
    BY <2>1 DEF MarkClosed, CanWrite, NoReader
  <2>3. /\ closing' \in [Sessions -> {"open", "waiting", "marked", "done"}]
        /\ closed' \subseteq Sessions
        /\ \A t \in Sessions : closing'[t] \in {"marked", "done"} => t \in closed'
    BY <2>2 DEF BusInv, CloseInv
  <2> QED
    BY <2>2, <2>3 DEF CloseInv
<1>4. CASE \E s \in Sessions : FinishClose(s)
  <2>1. PICK s \in Sessions : FinishClose(s)
    BY <1>4
  <2>2. /\ closing[s] = "marked" /\ closing' = [closing EXCEPT ![s] = "done"]
        /\ UNCHANGED <<conn, closed>>
    BY <2>1 DEF FinishClose
  <2>3. /\ closing' \in [Sessions -> {"open", "waiting", "marked", "done"}]
        /\ closed' \subseteq Sessions
        /\ \A t \in Sessions : closing'[t] \in {"marked", "done"} => t \in closed'
    BY <2>2 DEF BusInv, CloseInv
  <2>4. conn.stage \in Guarded => conn.item \in 1..Len(requests)
    BY DEF BusInv, RequestsInv, Guarded, Busy
  <2>5. conn.stage \in Guarded => SessionOf(conn.item)' \notin closed'
    BY <1>0, <2>2, <2>4 DEF BusInv, CloseInv, SessionsKept, SessionOf, Guarded
  <2> QED
    BY <2>2, <2>3, <2>5 DEF CloseInv, Guarded
<1>5. CASE /\ UNCHANGED <<closing, closed>>
           /\ conn'.stage \in Guarded => conn.stage \in Guarded /\ conn'.item = conn.item
  BY <1>0, <1>5, CloseKept
<1>6. CASE \/ Connect \/ Disconnect \/ PopRequest \/ RefuseInvalid \/ SendDone \/ SendFails
           \/ Publish \/ RelayPop \/ RelayAnswer \/ Deactivate \/ DrainRelay \/ StopTask
           \/ \E s \in Sessions : Receive(s)
  <2>1. UNCHANGED <<closing, closed>> /\ conn'.stage \notin Guarded
    BY <1>6 DEF Connect, Disconnect, PopRequest, RefuseInvalid, SendDone, SendFails, Publish,
                RelayPop, RelayAnswer, Deactivate, DrainRelay, StopTask, Receive, ConnTo, Guarded
  <2> QED
    BY <1>5, <2>1
<1>7. CASE UNCHANGED <<closing, closed, conn>>
  BY <1>5, <1>7
<1> QED
  BY <1>1, <1>2, <1>3, <1>4, <1>6, <1>7
     DEF BusNext, ConnStep, ConnFault, Receiving, Callers, CloseStep, SubStep, TrySend, DropReceipt,
         Subscribe, RelayCheck, RelayEnqueue, RequestShutdown, CopyHistory, RecvReplay,
         RecvLive, Deliver

-----------------------------------------------------------------------------
(* Events. *)

\* The ring of the newest: a full one loses its oldest element.
LEMMA KeepFacts ==
  ASSUME NEW s \in Seq(Nat), Increasing(s), NEW x \in Nat, \A y \in Members(s) : y < x
  PROVE  /\ Keep(s, x) \in Seq(Nat) /\ Increasing(Keep(s, x))
         /\ x \in Members(Keep(s, x))
         /\ Members(Keep(s, x)) \subseteq Members(s) \cup {x}
         /\ \A y \in Members(s), z \in Members(Keep(s, x)) : z <= y => y \in Members(Keep(s, x))
<1>1. EventCap \in Nat \ {0}
  BY BusAssumption
<1>2. CASE Len(s) = EventCap
  <2>0. s # <<>>
    BY <1>1, <1>2
  <2>1. PICK t : t = Tail(s)
    OBVIOUS
  <2>2. /\ t \in Seq(Nat) /\ Increasing(t) /\ Head(s) \in Members(s)
        /\ Members(t) \subseteq Members(s)
        /\ \A y \in Members(t) : Head(s) < y
        /\ Members(s) = Members(t) \cup {Head(s)}
    BY <2>0, <2>1, TailFacts
  <2>3. /\ Append(t, x) \in Seq(Nat) /\ Increasing(Append(t, x))
        /\ Members(Append(t, x)) = Members(t) \cup {x}
    BY <2>2, AppendFacts
  <2>4. Keep(s, x) = Append(t, x)
    BY <1>2, <2>1 DEF Keep
  <2>5. \A y \in Members(s) : y \in Nat
    BY DEF Members
  <2>6. ASSUME NEW z \in Members(Append(t, x)), z <= Head(s) PROVE FALSE
    <3>1. Head(s) \in Nat /\ Head(s) < x
      BY <2>2, <2>5
    <3>2. z \in Nat /\ Head(s) < z
      BY <2>2, <2>3, <2>5, <3>1
    <3> QED
      BY <2>6, <3>1, <3>2
  <2> QED
    BY <2>2, <2>3, <2>4, <2>6
<1>3. CASE Len(s) # EventCap
  <2>1. Keep(s, x) = Append(s, x)
    BY <1>3 DEF Keep
  <2> QED
    BY <2>1, AppendFacts
<1> QED
  BY <1>2, <1>3

LEMMA EventsKept ==
  ASSUME EventsInv, UNCHANGED <<log, history>>, closed \subseteq closed',
         conn'.stage = "received" => conn'.item \in Sessions
  PROVE  EventsInv'
<1>1. /\ log' \in Seq(Sessions) /\ history' \in Seq(Nat) /\ Increasing(history')
      /\ Members(history') \subseteq 1..Len(log')
  BY DEF EventsInv
<1>2. \A h \in Members(history'), e \in 1..Len(log') :
          h <= e /\ log'[e] \notin closed' => e \in Members(history')
  BY DEF EventsInv
<1> QED
  BY <1>1, <1>2 DEF EventsInv

\* close_authenticated_session: only events of a closed session leave.
LEMMA FinishCloseEvents ==
  ASSUME EventsInv, CloseInv, NEW s \in Sessions, FinishClose(s)
  PROVE  EventsInv'
<1>1. /\ history' = Retain(history, {e \in DOMAIN log : log[e] # s})
      /\ UNCHANGED <<conn, closed, log>> /\ closing[s] = "marked"
  BY DEF FinishClose
<1>2. s \in closed
  BY <1>1 DEF CloseInv
<1>3. history \in Seq(Nat) /\ Increasing(history) /\ Members(history) \subseteq 1..Len(log)
      /\ DOMAIN log = 1..Len(log)
  BY DEF EventsInv
<1>4. /\ history' \in Seq(Nat) /\ Increasing(history')
      /\ Members(history') = Members(history) \cap {e \in DOMAIN log : log[e] # s}
  BY <1>1, <1>3, RetainFacts
<1>5. ASSUME NEW h \in Members(history'), NEW e \in 1..Len(log), h <= e, log[e] \notin closed
      PROVE  e \in Members(history')
  <2>1. e \in Members(history) /\ log[e] # s
    BY <1>2, <1>4, <1>5 DEF EventsInv
  <2> QED
    BY <1>3, <1>4, <2>1
<1>6. Members(history') \subseteq 1..Len(log)
  BY <1>3, <1>4
<1> QED
  BY <1>1, <1>4, <1>5, <1>6 DEF EventsInv

LEMMA PublishEvents ==
  ASSUME EventsInv, Publish
  PROVE  EventsInv'
<1>1. /\ conn.item \in Sessions /\ conn'.stage # "received" /\ closed' = closed
      /\ \/ UNCHANGED <<history, log>>
         \/ log' = Append(log, conn.item) /\ history' = Keep(history, Len(log) + 1)
  BY DEF Publish, EventsInv, ConnTo
<1>2. CASE UNCHANGED <<history, log>>
  BY <1>1, <1>2, EventsKept
<1>3. CASE log' = Append(log, conn.item) /\ history' = Keep(history, Len(log) + 1)
  <2>1. log \in Seq(Sessions) /\ Len(log) \in Nat
    BY DEF EventsInv
  <2>2. /\ log' \in Seq(Sessions) /\ Len(log') = Len(log) + 1
        /\ \A e \in 1..Len(log) : log'[e] = log[e]
    BY <1>1, <1>3, <2>1
  <2>3. history \in Seq(Nat) /\ Increasing(history) /\ Members(history) \subseteq 1..Len(log)
    BY DEF EventsInv
  <2>4. \A y \in Members(history) : y < Len(log) + 1
    BY <2>1, <2>3
  <2>5. Len(log) + 1 \in Nat
    BY <2>1
  <2>6. /\ history' \in Seq(Nat) /\ Increasing(history')
        /\ Len(log) + 1 \in Members(history')
        /\ Members(history') \subseteq Members(history) \cup {Len(log) + 1}
        /\ \A y \in Members(history), z \in Members(history') :
              z <= y => y \in Members(history')
    BY <1>3, <2>3, <2>4, <2>5, KeepFacts
  <2>7. 1..Len(log') = (1..Len(log)) \cup {Len(log) + 1}
    BY <2>1, <2>2
  <2>8. Members(history') \subseteq 1..Len(log')
    BY <2>3, <2>6, <2>7
  <2>9. ASSUME NEW h \in Members(history'), NEW e \in 1..Len(log'), h <= e, log'[e] \notin closed
        PROVE  e \in Members(history')
    <3>1. CASE e = Len(log) + 1
      BY <2>6, <3>1
    <3>2. CASE e \in 1..Len(log)
      <4>1. h # Len(log) + 1
        BY <2>1, <2>9, <3>2
      <4>2. h \in Members(history) /\ log[e] \notin closed
        BY <2>2, <2>6, <2>9, <3>2, <4>1
      <4>3. e \in Members(history)
        BY <2>9, <3>2, <4>2 DEF EventsInv
      <4> QED
        BY <2>6, <2>9, <4>3
    <3> QED
      BY <2>7, <3>1, <3>2
  <2> QED
    BY <1>1, <2>2, <2>6, <2>8, <2>9 DEF EventsInv
<1> QED
  BY <1>1, <1>2, <1>3

LEMMA StepEvents ==
  ASSUME BusInv, BusNext
  PROVE  EventsInv'
<1>0. EventsInv /\ CloseInv
  BY DEF BusInv
<1>1. CASE Publish
  BY <1>0, <1>1, PublishEvents
<1>2. CASE \E s \in Sessions : FinishClose(s)
  BY <1>0, <1>2, FinishCloseEvents
<1>3. CASE \E s \in Sessions : MarkClosed(s)
  BY <1>0, <1>3, EventsKept DEF MarkClosed, EventsInv
<1>4. CASE \E s \in Sessions : Receive(s)
  BY <1>0, <1>4, EventsKept DEF Receive
<1>5. CASE \/ Connect \/ Disconnect \/ PopRequest \/ RefuseInvalid \/ SendDone \/ SendFails
           \/ RelayPop \/ RelayAnswer \/ Deactivate \/ DrainRelay \/ StopTask
  <2>1. UNCHANGED <<log, history, closed>> /\ conn'.stage # "received"
    BY <1>5 DEF Connect, Disconnect, PopRequest, RefuseInvalid, SendDone, SendFails,
                RelayPop, RelayAnswer, Deactivate, DrainRelay, StopTask, ConnTo
  <2> QED
    BY <1>0, <2>1, EventsKept
<1>6. CASE Admit \/ StartSend
  <2>1. UNCHANGED <<log, history, closed>>
    BY <1>6 DEF Admit, StartSend
  <2>2. ConnTo("up") \/ \E stage \in {"admitted", "sending"} : conn' = [conn EXCEPT !.stage = stage]
    BY <1>6 DEF Admit, StartSend
  <2>3. conn'.stage # "received"
    BY <2>2 DEF ConnTo, BusInv, RequestsInv, Conn
  <2> QED
    BY <1>0, <2>1, <2>3, EventsKept
<1>7. CASE UNCHANGED <<log, history, closed, conn>>
  BY <1>0, <1>7, EventsKept DEF EventsInv
<1> QED
  BY <1>1, <1>2, <1>3, <1>4, <1>5, <1>6, <1>7
     DEF BusNext, ConnStep, ConnFault, Receiving, Callers, CloseStep, SubStep, TrySend, DropReceipt,
         StartClose, Subscribe, RelayCheck, RelayEnqueue, RequestShutdown, CopyHistory, RecvReplay,
         RecvLive, Deliver

-----------------------------------------------------------------------------
(* Subscriptions. *)

LEMMA NoSubFields ==
  /\ NoSub.stage = "none" /\ NoSub.replay = <<>> /\ NoSub.live = <<>> /\ NoSub.lag = FALSE
  /\ NoSub.held = <<>> /\ NoSub.got = <<>>
BY DEF NoSub

LEMMA NoSubTyped == NoSub \in Subscription
<1>1. PICK s : s = NoSub.session
  OBVIOUS
<1>2. NoSub = [stage |-> "none", session |-> s, replay |-> <<>>, live |-> <<>>,
               lag |-> FALSE, held |-> <<>>, got |-> <<>>]
  BY <1>1 DEF NoSub
<1>3. <<>> \in Seq(Nat) /\ "none" \in SubStages /\ FALSE \in BOOLEAN
  BY DEF SubStages
<1>4. s \in Sessions \cup {NoSub.session}
  BY <1>1
<1> QED
  BY <1>2, <1>3, <1>4 DEF Subscription

\* What was taken is a sequence of events.
LEMMA TakenTyped ==
  ASSUME NEW b \in Subscription
  PROVE  Taken(b) \in Seq(Nat)
<1>1. b.got \in Seq(Nat) /\ b.held \in Seq(Nat) /\ b.replay \in Seq(Nat)
  BY DEF Subscription
<1> QED
  BY <1>1 DEF Taken

\* Closing sessions takes nothing from what a subscription owes.
LEMMA SubKept ==
  ASSUME NEW b, SubOK(b), log' = log, closed \subseteq closed'
  PROVE  SubOK(b)'
<1>1. Following(b) => Following(b)'
  BY DEF Following
<1> QED
  BY <1>1 DEF SubOK

\* A subscription that has ended owes nothing.
LEMMA EndSubFacts ==
  ASSUME NEW u \in Subscribers, SubOK(subs[u]), NEW how \in {"closed", "lagged"},
         NEW c, c = EndSub(u, how)
  PROVE  SubOK(c)'
<1>1. PICK b : b = subs[u]
  OBVIOUS
<1>2. c = [b EXCEPT !.stage = how, !.replay = <<>>, !.live = <<>>, !.held = <<>>]
  BY <1>1 DEF EndSub
<1>4. b \in Subscription
  BY <1>1 DEF SubOK
<1>5. <<>> \in Seq(Nat) /\ how \in SubStages
  BY DEF SubStages
<1>6. c \in Subscription /\ c.stage = how
  BY <1>2, <1>4, <1>5 DEF Subscription
<1> QED
  BY <1>6 DEF SubOK

\* A step of one subscription.
LEMMA OneSub ==
  ASSUME SubsInv, NEW u \in Subscribers, NEW c, SubTo(u, c), SubOK(c)',
         log' = log, closed \subseteq closed'
  PROVE  SubsInv'
<1>1. subs' = [subs EXCEPT ![u] = c] /\ subs = [v \in Subscribers |-> subs[v]]
  BY DEF SubTo, SubsInv
<1>2. ASSUME NEW v \in Subscribers PROVE SubOK(subs[v])'
  <2>1. CASE v = u
    <3>1. subs'[v] = c
      BY <1>1, <2>1
    <3> QED
      BY <3>1
  <2>2. CASE v # u
    <3>1. PICK b : b = subs[v]
      OBVIOUS
    <3>2. subs'[v] = b
      BY <1>1, <2>2, <3>1
    <3>3. SubOK(b)
      BY <3>1 DEF SubsInv
    <3>4. SubOK(b)'
      BY <3>3, SubKept
    <3> QED
      BY <3>2, <3>4
  <2> QED
    BY <2>1, <2>2
<1>3. subs' = [v \in Subscribers |-> subs'[v]]
  BY <1>1
<1> QED
  BY <1>2, <1>3 DEF SubsInv

LEMMA AllSubsKept ==
  ASSUME SubsInv, subs' = subs, log' = log, closed \subseteq closed'
  PROVE  SubsInv'
<1>1. ASSUME NEW v \in Subscribers PROVE SubOK(subs[v])'
  <2>1. PICK b : b = subs[v]
    OBVIOUS
  <2>2. SubOK(b)
    BY <2>1 DEF SubsInv
  <2>3. SubOK(b)'
    BY <2>2, SubKept
  <2> QED
    BY <2>1, <2>3
<1> QED
  BY <1>1 DEF SubsInv

\* A step that leaves the channel alone, and takes nothing out of what is owed.
LEMMA SameTaken ==
  ASSUME NEW b, SubOK(b), b.stage \in {"idle", "holding"}, log' = log, closed' = closed,
         NEW c \in Subscription, c.stage = "idle", c.held = <<>>, c.session = b.session,
         c.lag = b.lag, c.live = b.live, Taken(c) = Taken(b)
  PROVE  SubOK(c)'
<1>1. Following(b)
  BY DEF SubOK
<1>2. Following(c)'
  <2>1. PICK t : t = Taken(b)
    OBVIOUS
  <2>2. Taken(c) = t
    BY <2>1
  <2> QED
    BY <1>1, <2>1, <2>2 DEF Following
<1> QED
  BY <1>2 DEF SubOK

LEMMA SubscribeOK ==
  ASSUME SubsInv, NEW u \in Subscribers, NEW s \in Sessions, Subscribe(u, s)
  PROVE  SubsInv'
<1>1. PICK n : n = NoSub
  OBVIOUS
<1>2. PICK c : c = [n EXCEPT !.stage = "subscribing", !.session = s]
  OBVIOUS
<1>3. SubTo(u, c) /\ log' = log /\ closed' = closed
  BY <1>1, <1>2 DEF Subscribe
<1>4. /\ n \in Subscription
      /\ n.replay = <<>> /\ n.live = <<>> /\ n.held = <<>> /\ n.got = <<>>
  BY <1>1, NoSubTyped, NoSubFields
<1>5. /\ c \in Subscription /\ c.stage = "subscribing" /\ c.session = s
      /\ c.replay = <<>> /\ c.live = <<>> /\ c.held = <<>> /\ c.got = <<>>
  <2>1. "subscribing" \in SubStages /\ s \in Sessions \cup {NoSub.session}
    BY DEF SubStages
  <2> QED
    BY <1>2, <1>4, <2>1 DEF Subscription
<1>6. SubOK(c)'
  BY <1>5 DEF SubOK
<1> QED
  BY <1>3, <1>6, OneSub

\* subscribe_authenticated_session: the history holds what is owed so far.
LEMMA CopyHistoryOK ==
  ASSUME SubsInv, EventsInv, NEW u \in Subscribers, CopyHistory(u)
  PROVE  SubsInv'
<1>1. PICK b : b = subs[u]
  OBVIOUS
<1>2. PICK h : h = EventsOf(history, b.session)
  OBVIOUS
<1>3. PICK c : c = [b EXCEPT !.stage = "idle", !.replay = h]
  OBVIOUS
<1>4. SubTo(u, c) /\ log' = log /\ closed' = closed /\ b.stage = "subscribing"
  BY <1>1, <1>2, <1>3 DEF CopyHistory
<1>5. SubOK(b)
  BY <1>1 DEF SubsInv
<1>6. /\ b \in Subscription /\ b.session \in Sessions
      /\ b.live = <<>> /\ b.held = <<>> /\ b.got = <<>>
  BY <1>4, <1>5 DEF SubOK
<1>7. log \in Seq(Sessions) /\ Len(log) \in Nat /\ DOMAIN log = 1..Len(log)
  BY DEF EventsInv
<1>8. history \in Seq(Nat) /\ Increasing(history) /\ Members(history) \subseteq 1..Len(log)
  BY DEF EventsInv
<1>9. /\ h \in Seq(Nat) /\ Increasing(h)
      /\ Members(h) = Members(history) \cap {e \in DOMAIN log : log[e] = b.session}
  BY <1>2, <1>8, RetainFacts DEF EventsOf
<1>10. /\ c \in Subscription /\ c.stage = "idle" /\ c.session = b.session
       /\ c.live = <<>> /\ c.held = <<>> /\ c.got = <<>> /\ c.replay = h
  <2>1. "idle" \in SubStages
    BY DEF SubStages
  <2> QED
    BY <1>3, <1>6, <1>9, <2>1 DEF Subscription
<1>11. Taken(c) = h
  BY <1>9, <1>10 DEF Taken
<1>12. Following(c)'
  <2>1. Len(c.live) = 0 /\ Len(log) - 0 = Len(log)
    BY <1>7, <1>10
  <2>2. \A e \in Members(h) : e \in 1..Len(log) /\ log[e] = c.session
    BY <1>7, <1>8, <1>9, <1>10
  <2>3. ASSUME c.session \notin closed, NEW x \in Members(h), NEW e \in 1..Len(log),
               x <= e, log[e] = c.session
        PROVE  e \in Members(h)
    <3>1. e \in Members(history)
      BY <1>9, <2>3 DEF EventsInv
    <3> QED
      BY <1>7, <1>9, <1>10, <2>3, <3>1
  <2>4. \A i \in 1..0 : FALSE
    OBVIOUS
  <2>5. Len(log) - Len(c.live) = Len(log)
    BY <2>1
  <2>6. Increasing(Taken(c)) /\ Members(Taken(c)) = Members(h)
    BY <1>9, <1>11
  <2>7. c.session \in Sessions /\ Len(c.live) <= Len(log)
    BY <1>6, <1>7, <1>10, <2>1
  <2>8. \A e \in Members(Taken(c)) : e \in 1..(Len(log) - Len(c.live)) /\ log[e] = c.session
    BY <2>2, <2>5, <2>6
  <2>9. c.session \notin closed =>
          \A x \in Members(Taken(c)), e \in 1..(Len(log) - Len(c.live)) :
              x <= e /\ log[e] = c.session => e \in Members(Taken(c))
    BY <2>3, <2>5, <2>6
  <2>10. \A i \in 1..Len(c.live) : c.live[i] = Len(log) - Len(c.live) + i
    BY <2>1, <2>4
  <2>11. Following(c)
    BY <2>6, <2>7, <2>8, <2>9, <2>10 DEF Following
  <2> QED
    BY <1>4, <2>11 DEF Following
<1>13. SubOK(c)'
  BY <1>10, <1>12 DEF SubOK
<1> QED
  BY <1>4, <1>13, OneSub

\* recv takes a replayed event, or learns that its session is closed.
LEMMA RecvReplayOK ==
  ASSUME SubsInv, NEW u \in Subscribers, RecvReplay(u)
  PROVE  SubsInv'
<1>1. PICK b : b = subs[u]
  OBVIOUS
<1>2. b.stage = "idle" /\ log' = log /\ closed' = closed /\ SubOK(b)
  BY <1>1 DEF RecvReplay, SubsInv
<1>3. CASE SubTo(u, EndSub(u, "closed"))
  <2>1. PICK c : c = EndSub(u, "closed")
    OBVIOUS
  <2>2. SubOK(c)'
    BY <1>1, <1>2, <2>1, EndSubFacts
  <2> QED
    BY <1>2, <1>3, <2>1, <2>2, OneSub
<1>4. CASE /\ b.replay # <<>>
           /\ SubTo(u, [b EXCEPT !.replay = Tail(@), !.got = Append(@, Head(b.replay))])
  <2>1. PICK c : c = [b EXCEPT !.replay = Tail(@), !.got = Append(@, Head(b.replay))]
    OBVIOUS
  <2>2. b \in Subscription /\ b.held = <<>>
    BY <1>2 DEF SubOK
  <2>3. b.replay \in Seq(Nat) /\ b.got \in Seq(Nat)
    BY <2>2 DEF Subscription
  <2>4. PICK r, x, g : r = Tail(b.replay) /\ x = Head(b.replay) /\ g = Append(b.got, x)
    OBVIOUS
  <2>5. r \in Seq(Nat) /\ x \in Nat /\ g \in Seq(Nat)
    BY <1>4, <2>3, <2>4
  <2>6. c = [b EXCEPT !.replay = r, !.got = g]
    BY <2>1, <2>4
  <2>7. /\ c \in Subscription /\ c.stage = b.stage /\ c.session = b.session /\ c.lag = b.lag
        /\ c.live = b.live /\ c.held = b.held /\ c.replay = r /\ c.got = g
    BY <2>2, <2>5, <2>6 DEF Subscription
  <2>8. Taken(c) = Taken(b)
    <3>1. PICK y, p : y = b.replay /\ p = b.got
      OBVIOUS
    <3>2. p \in Seq(Nat) /\ y \in Seq(Nat) /\ y # <<>> /\ g = Append(p, Head(y)) /\ r = Tail(y)
      BY <1>4, <2>3, <2>4, <3>1
    <3>3. g \o r = p \o y
      <4>1. /\ Len(g) = Len(p) + 1 /\ Len(r) = Len(y) - 1 /\ Len(y) \in Nat /\ Len(p) \in Nat
            /\ Len(y) >= 1
        BY <3>2
      <4>2. /\ g \o r \in Seq(Nat) /\ p \o y \in Seq(Nat)
            /\ Len(g \o r) = Len(p \o y)
        BY <2>5, <3>2, <4>1
      <4>3. ASSUME NEW i \in 1..Len(g \o r) PROVE (g \o r)[i] = (p \o y)[i]
        <5>1. CASE i <= Len(p)
          BY <2>5, <3>2, <4>1, <4>2, <5>1
        <5>2. CASE i = Len(p) + 1
          BY <2>5, <3>2, <4>1, <4>2, <5>2
        <5>3. CASE i > Len(p) + 1
          <6>1. (g \o r)[i] = r[i - Len(g)] /\ (p \o y)[i] = y[i - Len(p)]
            BY <2>5, <3>2, <4>1, <4>2, <5>3
          <6>2. i - Len(g) \in 1..Len(r) /\ (i - Len(g)) + 1 = i - Len(p)
            BY <2>5, <3>2, <4>1, <4>2, <5>3
          <6>3. r[i - Len(g)] = y[(i - Len(g)) + 1]
            BY <3>2, <6>2
          <6> QED
            BY <6>1, <6>2, <6>3
        <5>4. i \in Int /\ Len(p) \in Int
          BY <4>1
        <5>5. i <= Len(p) \/ i = Len(p) + 1 \/ i > Len(p) + 1
          BY <5>4
        <5> QED
          BY <5>1, <5>2, <5>3, <5>5
      <4> QED
        BY <4>2, <4>3, SeqEqual
    <3>4. g \o <<>> = g /\ p \o <<>> = p
      BY <2>5, <3>2
    <3> QED
      BY <2>2, <2>7, <3>1, <3>3, <3>4 DEF Taken
  <2>9. SubOK(c)'
    BY <1>2, <2>2, <2>7, <2>8, SameTaken
  <2> QED
    BY <1>2, <1>4, <2>1, <2>9, OneSub
<1> QED
  BY <1>1, <1>3, <1>4 DEF RecvReplay

\* The event that waited for the guard is handed out, or the session is closed.
LEMMA DeliverOK ==
  ASSUME SubsInv, NEW u \in Subscribers, Deliver(u)
  PROVE  SubsInv'
<1>1. PICK b : b = subs[u]
  OBVIOUS
<1>2. b.stage = "holding" /\ log' = log /\ closed' = closed /\ SubOK(b)
  BY <1>1 DEF Deliver, SubsInv
<1>3. CASE SubTo(u, EndSub(u, "closed"))
  <2>1. PICK c : c = EndSub(u, "closed")
    OBVIOUS
  <2>2. SubOK(c)'
    BY <1>1, <1>2, <2>1, EndSubFacts
  <2> QED
    BY <1>2, <1>3, <2>1, <2>2, OneSub
<1>4. CASE SubTo(u, [b EXCEPT !.stage = "idle", !.held = <<>>, !.got = @ \o b.held])
  <2>1. PICK c : c = [b EXCEPT !.stage = "idle", !.held = <<>>, !.got = @ \o b.held]
    OBVIOUS
  <2>2. b \in Subscription /\ b.replay = <<>>
    BY <1>2 DEF SubOK
  <2>3. b.held \in Seq(Nat) /\ b.got \in Seq(Nat)
    BY <2>2 DEF Subscription
  <2>4. PICK g : g = b.got \o b.held
    OBVIOUS
  <2>5. g \in Seq(Nat) /\ <<>> \in Seq(Nat) /\ "idle" \in SubStages
    BY <2>3, <2>4 DEF SubStages
  <2>6. c = [b EXCEPT !.stage = "idle", !.held = <<>>, !.got = g]
    BY <2>1, <2>4
  <2>7. /\ c \in Subscription /\ c.stage = "idle" /\ c.session = b.session /\ c.lag = b.lag
        /\ c.live = b.live /\ c.held = <<>> /\ c.replay = b.replay /\ c.got = g
    BY <2>2, <2>5, <2>6 DEF Subscription
  <2>8. Taken(c) = Taken(b)
    <3>1. g \o <<>> = g
      BY <2>5
    <3> QED
      BY <2>4, <2>7, <3>1 DEF Taken
  <2>9. SubOK(c)'
    BY <1>2, <2>7, <2>8, SameTaken
  <2> QED
    BY <1>2, <1>4, <2>1, <2>9, OneSub
<1> QED
  BY <1>1, <1>3, <1>4 DEF Deliver

\* recv takes the oldest event of its channel: it holds it, or passes it over.
LEMMA RecvLiveOK ==
  ASSUME SubsInv, EventsInv, NEW u \in Subscribers, RecvLive(u)
  PROVE  SubsInv'
<1>1. PICK b : b = subs[u]
  OBVIOUS
<1>2. /\ b.stage = "idle" /\ b.replay = <<>> /\ b.live # <<>>
      /\ log' = log /\ closed' = closed /\ SubOK(b)
  BY <1>1 DEF RecvLive, SubsInv
<1>3. CASE SubTo(u, EndSub(u, "lagged"))
  <2>1. PICK c : c = EndSub(u, "lagged")
    OBVIOUS
  <2>2. SubOK(c)'
    BY <1>1, <1>2, <2>1, EndSubFacts
  <2> QED
    BY <1>2, <1>3, <2>1, <2>2, OneSub
<1> DEFINE e == Head(b.live)
           hold == [b EXCEPT !.stage = "holding", !.live = Tail(@), !.held = <<e>>]
           pass == [b EXCEPT !.live = Tail(@)]
<1>4. ASSUME SubTo(u, IF log[e] = b.session THEN hold ELSE pass)
      PROVE  SubsInv'
  <2>1. PICK c : c = IF log[e] = b.session THEN hold ELSE pass
    OBVIOUS
  <2>2. b \in Subscription /\ b.held = <<>> /\ Following(b)
    BY <1>2 DEF SubOK
  <2>3. /\ b.live \in Seq(Nat) /\ b.got \in Seq(Nat) /\ Len(log) \in Nat
        /\ Len(b.live) \in Nat /\ Len(b.live) >= 1
    BY <1>2, <2>2 DEF Subscription, EventsInv
  <2>4. PICK n : n = Len(log) - Len(b.live)
    OBVIOUS
  <2>5. /\ n \in Nat /\ Len(log) = n + Len(b.live)
        /\ \A i \in 1..Len(b.live) : b.live[i] = n + i
    <3>1. /\ Len(b.live) <= Len(log)
          /\ \A i \in 1..Len(b.live) : b.live[i] = Len(log) - Len(b.live) + i
      BY <2>2 DEF Following
    <3>2. n \in Nat /\ Len(log) = n + Len(b.live)
      BY <2>3, <2>4, <3>1
    <3> QED
      BY <2>4, <3>1, <3>2
  <2>6. e = n + 1 /\ e \in Nat
    <3>1. e = b.live[1] /\ 1 \in 1..Len(b.live)
      BY <1>2, <2>3
    <3> HIDE DEF e
    <3> QED
      BY <2>5, <3>1
  <2>7. PICK t : t = Tail(b.live)
    OBVIOUS
  <2>8. /\ t \in Seq(Nat) /\ Len(t) = Len(b.live) - 1
        /\ \A i \in 1..Len(t) : t[i] = b.live[i + 1]
    BY <1>2, <2>3, <2>7
  <2>9. /\ Len(log) - Len(t) = n + 1 /\ Len(t) <= Len(log)
        /\ \A i \in 1..Len(t) : t[i] = Len(log) - Len(t) + i
    <3>1. Len(log) - Len(t) = n + 1 /\ Len(t) <= Len(log)
      BY <2>3, <2>5, <2>8
    <3>2. ASSUME NEW i \in 1..Len(t) PROVE t[i] = (n + 1) + i
      <4>1. i + 1 \in 1..Len(b.live) /\ n + (i + 1) = (n + 1) + i
        BY <2>3, <2>5, <2>8
      <4> QED
        BY <2>5, <2>8, <4>1
    <3> QED
      BY <3>1, <3>2
  <2>10. PICK g : g = b.got
    OBVIOUS
  <2>11. g \in Seq(Nat) /\ Taken(b) = g
    <3>1. b.got \o <<>> = b.got
      BY <2>3
    <3> QED
      BY <1>2, <2>2, <2>3, <2>10, <3>1 DEF Taken
  <2>12. /\ Increasing(g) /\ b.session \in Sessions
         /\ \A y \in Members(g) : y \in 1..n /\ log[y] = b.session
         /\ ~b.lag /\ b.session \notin closed =>
              \A x \in Members(g), y \in 1..n : x <= y /\ log[y] = b.session => y \in Members(g)
    BY <2>2, <2>4, <2>11 DEF Following
  <2>13. 1..(n + 1) = (1..n) \cup {n + 1}
    BY <2>5
  <2>14. \A y \in Members(g) : y < n + 1
    BY <2>5, <2>12
  <2>15. CASE log[e] = b.session
    <3>1. c = [b EXCEPT !.stage = "holding", !.live = t, !.held = <<n + 1>>]
      BY <2>1, <2>6, <2>7, <2>15
    <3>2. "holding" \in SubStages /\ <<n + 1>> \in Seq(Nat)
      BY <2>5 DEF SubStages
    <3>3. /\ c \in Subscription /\ c.stage = "holding" /\ c.session = b.session /\ c.lag = b.lag
          /\ c.live = t /\ c.held = <<n + 1>> /\ c.replay = b.replay /\ c.got = g
      BY <2>2, <2>8, <2>10, <3>1, <3>2 DEF Subscription
    <3>4. Taken(c) = Append(g, n + 1)
      <4>1. g \o <<n + 1>> = Append(g, n + 1) /\ Append(g, n + 1) \o <<>> = Append(g, n + 1)
        BY <2>5, <2>11
      <4> QED
        BY <1>2, <3>3, <4>1 DEF Taken
    <3>5. PICK a : a = Append(g, n + 1)
      OBVIOUS
    <3>6. n + 1 \in Nat
      BY <2>5
    <3>7. a \in Seq(Nat) /\ Increasing(a) /\ Members(a) = Members(g) \cup {n + 1}
      BY <2>11, <2>12, <2>14, <3>5, <3>6, AppendFacts
    <3>8. log[n + 1] = b.session
      BY <2>6, <2>15
    <3>9. \A y \in Members(a) : y \in 1..(n + 1) /\ log[y] = b.session
      BY <2>12, <2>13, <3>7, <3>8
    <3>10. ASSUME ~b.lag, b.session \notin closed, NEW x \in Members(a), NEW y \in 1..(n + 1),
                  x <= y, log[y] = b.session
           PROVE  y \in Members(a)
      <4>1. CASE y = n + 1
        BY <3>7, <4>1
      <4>2. CASE y \in 1..n
        <5>1. x # n + 1
          BY <2>5, <3>10, <4>2
        <5>2. x \in Members(g)
          BY <3>7, <5>1
        <5> QED
          BY <2>12, <3>7, <3>10, <4>2, <5>2
      <4> QED
        BY <2>13, <4>1, <4>2
    <3>11. Following(c)
      BY <2>9, <2>12, <3>3, <3>4, <3>5, <3>7, <3>9, <3>10 DEF Following
    <3>12. SubOK(c)
      BY <1>2, <3>3, <3>11 DEF SubOK
    <3>13. SubOK(c)'
      BY <1>2, <3>12, SubKept
    <3> QED
      BY <1>2, <1>4, <2>1, <3>13, OneSub
  <2>16. CASE log[e] # b.session
    <3>1. c = [b EXCEPT !.live = t]
      BY <2>1, <2>7, <2>16
    <3>3. /\ c \in Subscription /\ c.stage = "idle" /\ c.session = b.session /\ c.lag = b.lag
          /\ c.live = t /\ c.held = b.held /\ c.replay = b.replay /\ c.got = g
      BY <1>2, <2>2, <2>8, <2>10, <3>1 DEF Subscription
    <3>4. Taken(c) = g
      BY <2>10, <2>11, <3>3 DEF Taken
    <3>5. log[n + 1] # b.session
      BY <2>6, <2>16
    <3>6. \A y \in Members(g) : y \in 1..(n + 1) /\ log[y] = b.session
      BY <2>12, <2>13
    <3>7. ~b.lag /\ b.session \notin closed =>
             \A x \in Members(g), y \in 1..(n + 1) : x <= y /\ log[y] = b.session => y \in Members(g)
      BY <2>12, <2>13, <3>5
    <3>8. Following(c)
      BY <2>9, <2>12, <3>3, <3>4, <3>6, <3>7 DEF Following
    <3>9. SubOK(c)
      BY <1>2, <2>2, <3>3, <3>8 DEF SubOK
    <3>10. SubOK(c)'
      BY <1>2, <3>9, SubKept
    <3> QED
      BY <1>2, <1>4, <2>1, <3>10, OneSub
  <2> QED
    BY <2>15, <2>16
<1> QED
  BY <1>1, <1>3, <1>4 DEF RecvLive

LEMMA AppendPlain ==
  ASSUME NEW s \in Seq(Nat), NEW x \in Nat, NEW k, k = Append(s, x)
  PROVE  /\ k \in Seq(Nat) /\ Len(k) = Len(s) + 1 /\ k[Len(s) + 1] = x
         /\ \A i \in 1..Len(s) : k[i] = s[i]
BY AppendProperties

LEMMA Places ==
  ASSUME NEW n \in Nat, NEW l \in Nat, NEW i \in Nat
  PROVE  /\ (n + 1) - l + l = n + 1
         /\ n - l + (i + 1) = (n + 1) - l + i
OBVIOUS

\* The sequence ends at n and has no gap.
Latest(s, n) == \A i \in 1..Len(s) : s[i] = n - Len(s) + i

\* The broadcast channel keeps the newest events in their order.
LEMMA KeepLive ==
  ASSUME NEW n \in Nat, NEW s \in Seq(Nat), Len(s) <= n, Latest(s, n),
         NEW k, k = Keep(s, n + 1)
  PROVE  /\ k \in Seq(Nat) /\ Len(k) <= n + 1 /\ Latest(k, n + 1)
         /\ IF Len(s) = EventCap THEN Len(k) = Len(s) ELSE Len(k) = Len(s) + 1
<1>0. EventCap \in Nat /\ EventCap # 0 /\ Len(s) \in Nat /\ n + 1 \in Nat
  BY BusAssumption
<1>1. CASE Len(s) = EventCap
  <2>1. PICK t : t = Tail(s)
    OBVIOUS
  <2>2. /\ t \in Seq(Nat) /\ Len(t) = Len(s) - 1 /\ Len(t) \in Nat
        /\ \A i \in 1..Len(t) : t[i] = s[i + 1]
    BY <1>0, <1>1, <2>1
  <2>3. k = Append(t, n + 1)
    BY <1>1, <2>1 DEF Keep
  <2>4. /\ k \in Seq(Nat) /\ Len(k) = Len(t) + 1
        /\ \A i \in 1..Len(t) : k[i] = t[i]
        /\ k[Len(k)] = n + 1
    <3>1. PICK x : x = n + 1
      OBVIOUS
    <3>2. x \in Nat /\ k = Append(t, x)
      BY <1>0, <2>3, <3>1
    <3>3. t \in Seq(Nat)
      BY <2>2
    <3>4. /\ k \in Seq(Nat) /\ Len(k) = Len(t) + 1 /\ k[Len(t) + 1] = x
          /\ \A i \in 1..Len(t) : k[i] = t[i]
      <4>1. PICK p : p = Append(t, x)
        OBVIOUS
      <4>2. x \in Nat
        BY <3>2
      <4>3. /\ p \in Seq(Nat) /\ Len(p) = Len(t) + 1 /\ p[Len(t) + 1] = x
            /\ \A i \in 1..Len(t) : p[i] = t[i]
        BY <3>3, <4>1, <4>2, AppendPlain
      <4>4. k = p
        BY <3>2, <4>1
      <4> QED
        BY <4>3, <4>4
    <3> QED
      BY <3>1, <3>4
  <2>5. Len(k) = Len(s)
    BY <1>0, <2>2, <2>4
  <2>6. ASSUME NEW i \in 1..Len(k) PROVE k[i] = (n + 1) - Len(k) + i
    <3>1. CASE i = Len(k)
      <4>0. PICK l : l = Len(k)
        OBVIOUS
      <4>1. (n + 1) - l + l = n + 1
        <5>1. l \in Nat
          BY <1>0, <2>5, <4>0
        <5> QED
          BY <5>1, Places
      <4> QED
        BY <2>4, <3>1, <4>0, <4>1
    <3>2. CASE i # Len(k)
      <4>1. i \in 1..Len(t) /\ i + 1 \in 1..Len(s)
        BY <1>0, <2>2, <2>5, <3>2
      <4>2. k[i] = n - Len(s) + (i + 1)
        BY <2>2, <2>4, <4>1 DEF Latest
      <4>3. PICK l : l = Len(s)
        OBVIOUS
      <4>4. i \in Nat /\ l \in Nat
        BY <1>0, <4>1, <4>3
      <4>5. n - l + (i + 1) = (n + 1) - l + i
        BY <4>4, Places
      <4> QED
        BY <2>5, <4>2, <4>3, <4>5
    <3> QED
      BY <3>1, <3>2
  <2> QED
    BY <1>0, <1>1, <2>4, <2>5, <2>6 DEF Latest
<1>2. CASE Len(s) # EventCap
  <2>1. k = Append(s, n + 1)
    BY <1>2 DEF Keep
  <2>2. /\ k \in Seq(Nat) /\ Len(k) = Len(s) + 1
        /\ \A i \in 1..Len(s) : k[i] = s[i]
        /\ k[Len(k)] = n + 1
    <3>1. PICK x : x = n + 1
      OBVIOUS
    <3>2. x \in Nat /\ k = Append(s, x)
      BY <1>0, <2>1, <3>1
    <3>3. s \in Seq(Nat)
      BY <2>1
    <3>4. /\ k \in Seq(Nat) /\ Len(k) = Len(s) + 1 /\ k[Len(s) + 1] = x
          /\ \A i \in 1..Len(s) : k[i] = s[i]
      BY <3>2, <3>3, AppendPlain
    <3> QED
      BY <3>1, <3>4
  <2>3. ASSUME NEW i \in 1..Len(k) PROVE k[i] = (n + 1) - Len(k) + i
    <3>1. CASE i = Len(k)
      BY <1>0, <2>2, <3>1
    <3>2. CASE i # Len(k)
      <4>1. i \in 1..Len(s)
        BY <1>0, <2>2, <3>2
      <4>2. k[i] = n - Len(s) + i
        BY <2>2, <4>1 DEF Latest
      <4>3. n - Len(s) + i = (n + 1) - Len(k) + i
        <5>1. PICK l : l = Len(s)
          OBVIOUS
        <5>2. Len(k) = l + 1 /\ l \in Nat /\ i \in Nat
          BY <1>0, <2>2, <4>1, <5>1
        <5>3. n - l + i = (n + 1) - (l + 1) + i
          BY <5>2
        <5> QED
          BY <5>1, <5>2, <5>3
      <4> QED
        BY <4>2, <4>3
    <3> QED
      BY <3>1, <3>2
  <2> QED
    BY <1>0, <1>2, <2>2, <2>3 DEF Latest
<1> QED
  BY <1>1, <1>2

\* publish: one more event in the channel of a subscription that goes on.
LEMMA PublishedTo ==
  ASSUME EventsInv, NEW m \in Sessions, log' = Append(log, m), closed' = closed,
         NEW b, SubOK(b), b.stage # "subscribing",
         NEW c, c = IF b.stage \in {"none", "closed", "lagged"} THEN b
                    ELSE [b EXCEPT !.live = Keep(@, Len(log) + 1),
                                   !.lag = @ \/ Len(b.live) = EventCap]
  PROVE  SubOK(c)'
<1>1. b \in Subscription
  BY DEF SubOK
<1>2. CASE b.stage \in {"none", "closed", "lagged"}
  <2>1. c = b
    BY <1>2
  <2> QED
    BY <1>1, <1>2, <2>1 DEF SubOK
<1>3. CASE b.stage \notin {"none", "closed", "lagged"}
  <2>1. b.stage \in {"idle", "holding"}
    <3>1. b.stage \in SubStages
      BY <1>1 DEF Subscription
    <3> QED
      BY <1>3, <3>1 DEF SubStages
  <2>2. Following(b)
    BY <2>1 DEF SubOK
  <2>3. PICK k, l, n : /\ k = Keep(b.live, n + 1) /\ n = Len(log)
                       /\ l = (b.lag \/ Len(b.live) = EventCap)
    OBVIOUS
  <2>4. b.live \in Seq(Nat) /\ b.lag \in BOOLEAN /\ Len(b.live) \in Nat
    BY <1>1 DEF Subscription
  <2>5. n \in Nat /\ log \in Seq(Sessions) /\ DOMAIN log = 1..n
    BY <2>3 DEF EventsInv
  <2>6. Len(b.live) <= n /\ \A i \in 1..Len(b.live) : b.live[i] = n - Len(b.live) + i
    BY <2>2, <2>3 DEF Following
  <2>7. /\ k \in Seq(Nat) /\ Len(k) <= n + 1
        /\ \A i \in 1..Len(k) : k[i] = (n + 1) - Len(k) + i
        /\ IF Len(b.live) = EventCap THEN Len(k) = Len(b.live) ELSE Len(k) = Len(b.live) + 1
    <3>1. PICK s : s = b.live
      OBVIOUS
    <3>2. /\ s \in Seq(Nat) /\ Len(s) <= n /\ k = Keep(s, n + 1)
          /\ Latest(s, n)
      BY <2>3, <2>4, <2>6, <3>1 DEF Latest
    <3>3. /\ k \in Seq(Nat) /\ Len(k) <= n + 1 /\ Latest(k, n + 1)
          /\ IF Len(s) = EventCap THEN Len(k) = Len(s) ELSE Len(k) = Len(s) + 1
      BY <2>5, <3>2, KeepLive
    <3> QED
      BY <3>1, <3>3 DEF Latest
  <2>8. c = [b EXCEPT !.live = k, !.lag = l]
    BY <1>3, <2>3
  <2>9. l \in BOOLEAN
    BY <2>3, <2>4
  <2>10. /\ c \in Subscription /\ c.stage = b.stage /\ c.session = b.session
         /\ c.live = k /\ c.held = b.held /\ c.replay = b.replay /\ c.got = b.got
    BY <1>1, <2>7, <2>8, <2>9 DEF Subscription
  <2>11. c.lag = l
    <3>1. DOMAIN b = {"stage", "session", "replay", "live", "lag", "held", "got"}
      BY <1>1 DEF Subscription
    <3> QED
      BY <2>8, <3>1, Zenon
  <2>12. ~l => ~b.lag /\ Len(b.live) # EventCap
    BY <2>3
  <2>13. PICK t, d : t = Taken(b) /\ d = n - Len(b.live)
    OBVIOUS
  <2>14. Taken(c) = t
    BY <2>10, <2>13 DEF Taken
  <2>15. /\ b.session \in Sessions /\ Increasing(t)
         /\ \A e \in Members(t) : e \in 1..d /\ log[e] = b.session
         /\ ~b.lag /\ b.session \notin closed =>
              \A x \in Members(t), e \in 1..d : x <= e /\ log[e] = b.session => e \in Members(t)
    BY <2>2, <2>3, <2>13 DEF Following
  <2>16. Len(log') = n + 1 /\ \A e \in 1..n : log'[e] = log[e]
    BY <2>3, <2>5
  <2>17. d \in Nat /\ d <= n /\ d <= (n + 1) - Len(k) /\ (~l => d = (n + 1) - Len(k))
    BY <2>4, <2>5, <2>6, <2>7, <2>12, <2>13, SMTT(30)
  <2>18. PICK f : f = (n + 1) - Len(k)
    OBVIOUS
  <2>19. f \in Nat /\ \A e \in 1..d : e \in 1..f /\ e \in 1..n
    BY <2>5, <2>7, <2>17, <2>18
  <2>20. \A e \in Members(t) : e \in 1..f /\ log'[e] = b.session
    BY <2>15, <2>16, <2>19
  <2>21. ASSUME ~l, b.session \notin closed, NEW x \in Members(t), NEW e \in 1..f,
                x <= e, log'[e] = b.session
         PROVE  e \in Members(t)
    <3>1. e \in 1..d /\ ~b.lag
      BY <2>12, <2>17, <2>18, <2>21
    <3>2. log[e] = b.session
      BY <2>16, <2>19, <2>21, <3>1
    <3> QED
      BY <2>15, <2>21, <3>1, <3>2
  <2>22. \A i \in 1..Len(k) : k[i] = f + i
    BY <2>7, <2>18
  <2>23. Following(c)'
    <3>1. Len(log') - Len(k) = f /\ Len(k) <= Len(log')
      BY <2>7, <2>16, <2>18
    <3>2. \A i \in 1..Len(c.live) : c.live[i] = Len(log') - Len(c.live) + i
      BY <2>10, <2>22, <3>1
    <3>3. \A e \in Members(Taken(c)) : e \in 1..(Len(log') - Len(c.live)) /\ log'[e] = c.session
      BY <2>10, <2>14, <2>20, <3>1
    <3>4. ~c.lag /\ c.session \notin closed' =>
             \A x \in Members(Taken(c)), e \in 1..(Len(log') - Len(c.live)) :
                 x <= e /\ log'[e] = c.session => e \in Members(Taken(c))
      <4>1. Len(log') - Len(c.live) = f
        BY <2>10, <3>1
      <4>2. ~l /\ b.session \notin closed =>
               \A x \in Members(t), e \in 1..f : x <= e /\ log'[e] = b.session => e \in Members(t)
        BY <2>21
      <4>3. ASSUME ~c.lag, c.session \notin closed', NEW x \in Members(Taken(c)),
                   NEW e \in 1..(Len(log') - Len(c.live)), x <= e, log'[e] = c.session
            PROVE  e \in Members(Taken(c))
        <5>1. x \in Members(t) /\ log'[e] = b.session /\ b.session \notin closed
          BY <2>10, <2>14, <4>3
        <5>3. e \in 1..f
          BY <4>1
        <5>2. ~l
          BY <2>11, <4>3
        <5> QED
          BY <2>14, <4>2, <4>3, <5>1, <5>2, <5>3
      <4> QED
        BY <4>3
    <3>5. c.session \in Sessions /\ Len(c.live) <= Len(log') /\ Increasing(Taken(c))
      BY <2>10, <2>14, <2>15, <3>1
    <3> QED
      BY <3>2, <3>3, <3>4, <3>5 DEF Following
  <2>24. c.stage = "idle" => c.held = <<>>
    BY <2>10 DEF SubOK
  <2>25. c.stage = "holding" => c.replay = <<>>
    BY <2>10 DEF SubOK
  <2> QED
    BY <2>1, <2>10, <2>23, <2>24, <2>25 DEF SubOK
<1> QED
  BY <1>2, <1>3

LEMMA PublishOK ==
  ASSUME SubsInv, EventsInv, Publish
  PROVE  SubsInv'
<1>1. PICK m : m = conn.item
  OBVIOUS
<1>2. m \in Sessions /\ closed' = closed /\ HistoryFree
  BY <1>1 DEF Publish, EventsInv
<1>3. CASE UNCHANGED <<history, subs, log>>
  BY <1>2, <1>3, AllSubsKept
<1>4. CASE log' = Append(log, m) /\ subs' = Broadcast(Len(log) + 1)
  <2>1. ASSUME NEW u \in Subscribers PROVE SubOK(subs[u])'
    <3>1. PICK b : b = subs[u]
      OBVIOUS
    <3>2. SubOK(b) /\ b.stage # "subscribing"
      BY <1>2, <3>1 DEF SubsInv, HistoryFree
    <3>3. PICK c : c = subs'[u]
      OBVIOUS
    <3>4. c = IF b.stage \in {"none", "closed", "lagged"} THEN b
              ELSE [b EXCEPT !.live = Keep(@, Len(log) + 1),
                             !.lag = @ \/ Len(b.live) = EventCap]
      BY <1>4, <3>1, <3>3 DEF Broadcast
    <3>5. SubOK(c)'
      BY <1>2, <1>4, <3>2, <3>4, PublishedTo
    <3> QED
      BY <3>3, <3>5
  <2>2. subs' = [u \in Subscribers |-> subs'[u]]
    BY <1>4 DEF Broadcast
  <2> QED
    BY <2>1, <2>2 DEF SubsInv
<1> QED
  BY <1>1, <1>3, <1>4 DEF Publish

LEMMA StepSubs ==
  ASSUME BusInv, BusNext
  PROVE  SubsInv'
<1>0. SubsInv /\ EventsInv
  BY DEF BusInv
<1>1. CASE Publish
  BY <1>0, <1>1, PublishOK
<1>2. CASE \E u \in Subscribers, s \in Sessions : Subscribe(u, s)
  BY <1>0, <1>2, SubscribeOK
<1>3. CASE \E u \in Subscribers : CopyHistory(u)
  BY <1>0, <1>3, CopyHistoryOK
<1>4. CASE \E u \in Subscribers : RecvReplay(u)
  BY <1>0, <1>4, RecvReplayOK
<1>5. CASE \E u \in Subscribers : RecvLive(u)
  BY <1>0, <1>5, RecvLiveOK
<1>6. CASE \E u \in Subscribers : Deliver(u)
  BY <1>0, <1>6, DeliverOK
<1>7. CASE \E s \in Sessions : MarkClosed(s)
  <2>1. subs' = subs /\ log' = log /\ closed \subseteq closed'
    BY <1>7 DEF MarkClosed
  <2> QED
    BY <1>0, <2>1, AllSubsKept
<1>8. CASE UNCHANGED <<subs, log, closed>>
  BY <1>0, <1>8, AllSubsKept
<1> QED
  BY <1>1, <1>2, <1>3, <1>4, <1>5, <1>6, <1>7, <1>8
     DEF BusNext, ConnStep, ConnFault, Receiving, Callers, CloseStep, SubStep, TrySend, DropReceipt,
         StartClose, RelayCheck, RelayEnqueue, RequestShutdown, FinishClose, Receive,
         Connect, Disconnect, PopRequest, Admit, RefuseInvalid, StartSend, SendDone, SendFails,
         RelayPop, RelayAnswer, Deactivate, DrainRelay, StopTask

-----------------------------------------------------------------------------
(* The theorems about the bus. *)

LEMMA BusStart ==
  ASSUME BusInit
  PROVE  BusInv
<1>1. /\ requests = <<>> /\ queued = <<>> /\ wire = <<>> /\ history = <<>> /\ log = <<>>
      /\ closed = {} /\ conn = [stage |-> "down", item |-> 0]
      /\ closing = [s \in Sessions |-> "open"]
      /\ subs = [u \in Subscribers |-> NoSub]
  BY DEF BusInit
<1>2. Members(<<>>) = {} /\ Increasing(<<>>) /\ <<>> \in Seq(Nat) /\ Len(<<>>) = 0 /\ 1..0 = {}
  BY DEF Members, Increasing
<1>3. conn.stage = "down" /\ conn \in Conn
  BY <1>1 DEF Conn, ConnStages
<1>4. RequestsInv
  BY <1>1, <1>2, <1>3 DEF RequestsInv, Busy
<1>5. CloseInv
  BY <1>1, <1>3 DEF CloseInv
<1>6. EventsInv
  BY <1>1, <1>2, <1>3 DEF EventsInv
<1>7. SubOK(NoSub)
  BY NoSubTyped, NoSubFields DEF SubOK
<1>8. SubsInv
  BY <1>1, <1>7 DEF SubsInv
<1> QED
  BY <1>4, <1>5, <1>6, <1>8 DEF BusInv

LEMMA BusStep ==
  ASSUME BusInv, [BusNext]_busVars
  PROVE  BusInv'
<1>1. CASE BusNext
  <2>1. RequestsInv'
    BY <1>1, StepRequests
  <2>2. CloseInv'
    BY <1>1, StepClose
  <2>3. EventsInv'
    BY <1>1, StepEvents
  <2>4. SubsInv'
    BY <1>1, StepSubs
  <2> QED
    BY <2>1, <2>2, <2>3, <2>4 DEF BusInv
<1>2. CASE UNCHANGED busVars
  <2>1. UNCHANGED <<conn, requests, queued, wire, closing, closed, history, log, subs>>
    BY <1>2 DEF busVars
  <2>2. RequestsInv'
    BY <2>1 DEF BusInv, RequestsInv
  <2>3. CloseInv'
    BY <2>1 DEF BusInv, CloseInv, SessionOf
  <2>4. EventsInv'
    BY <2>1 DEF BusInv, EventsInv
  <2>5. SubsInv'
    BY <2>1, AllSubsKept DEF BusInv
  <2> QED
    BY <2>2, <2>3, <2>4, <2>5 DEF BusInv
<1> QED
  BY <1>1, <1>2

\* The commands on the wire, in hand and in the queue are in order, closed
\* sessions are out of the connection's hands, and the history and every
\* subscription hold a suffix of what was published, at every reachable state.
THEOREM BusInvariant == BusSpec => []BusInv
<1>1. BusInit => BusInv
  BY BusStart
<1>2. BusInv /\ [BusNext]_busVars => BusInv'
  BY BusStep
<1> QED
  BY <1>1, <1>2, PTL DEF BusSpec

LEMMA OrderFromInv ==
  ASSUME BusInv
  PROVE  SentOnceInOrder
<1>1. /\ wire \in Seq(Nat) /\ DOMAIN wire = 1..Len(wire)
      /\ requests \in Seq(Request) /\ DOMAIN requests = 1..Len(requests)
  BY DEF BusInv, RequestsInv
<1>2. \A i, j \in DOMAIN wire : i < j => wire[i] < wire[j]
  BY <1>1 DEF BusInv, RequestsInv, Increasing
<1>3. ASSUME NEW r \in DOMAIN requests, requests[r].receipt = "ok"
      PROVE  \E i \in DOMAIN wire : wire[i] = r
  <2>1. r \in Members(wire)
    BY <1>1, <1>3 DEF BusInv, RequestsInv
  <2> QED
    BY <1>1, <2>1 DEF Members
<1> QED
  BY <1>2, <1>3 DEF SentOnceInOrder

\* A receipt that says Ok stands for a write, and over reconnections the
\* connection task writes every command at most once and in the order in which
\* try_send_authenticated accepted it.
THEOREM CommandsInOrder == BusSpec => []SentOnceInOrder
<1>1. BusInv => SentOnceInOrder
  BY OrderFromInv
<1> QED
  BY <1>1, BusInvariant, PTL

\* Writing to the socket.
LEMMA WireStep ==
  ASSUME [BusNext]_busVars, wire' # wire
  PROVE  conn.stage = "sending" /\ wire' = Append(wire, conn.item)
<1>1. SendDone \/ SendFails
  BY DEF BusNext, ConnStep, ConnFault, Receiving, Callers, CloseStep, SubStep, TrySend, DropReceipt,
         StartClose, RelayCheck, RelayEnqueue, RequestShutdown, FinishClose, MarkClosed, Receive,
         Connect, Disconnect, PopRequest, Admit, RefuseInvalid, StartSend, Publish,
         RelayPop, RelayAnswer, Deactivate, DrainRelay, StopTask, Subscribe, CopyHistory,
         RecvReplay, RecvLive, Deliver, busVars
<1> QED
  BY <1>1 DEF SendDone, SendFails

LEMMA SilentStep ==
  ASSUME BusInv, [BusNext]_busVars
  PROVE  [\A s \in Sessions :
             closing[s] = "done" /\ wire' # wire => SessionOf(wire'[Len(wire')]) # s]_busVars
<1> SUFFICES ASSUME NEW s \in Sessions, closing[s] = "done", wire' # wire
             PROVE  SessionOf(wire'[Len(wire')]) # s
  OBVIOUS
<1>1. PICK r : r = conn.item
  OBVIOUS
<1>2. conn.stage = "sending" /\ wire' = Append(wire, r)
  BY <1>1, WireStep
<1>3. r \in 1..Len(requests) /\ wire \in Seq(Nat) /\ requests \in Seq(Request)
  BY <1>1, <1>2 DEF BusInv, RequestsInv, Busy
<1>4. wire'[Len(wire')] = r
  BY <1>2, <1>3
<1>5. SessionOf(r) # s
  BY <1>1, <1>2 DEF BusInv, CloseInv
<1> QED
  BY <1>4, <1>5

\* Once close_authenticated_session has returned, the connection task writes no
\* command of that session any more: it holds its admission, the lifecycle
\* guard for reading, from the last liveness test to the end of the write.
THEOREM CloseSilences == BusSpec => SilentAfterClose
<1>1. BusInv /\ [BusNext]_busVars =>
        [\A s \in Sessions :
            closing[s] = "done" /\ wire' # wire => SessionOf(wire'[Len(wire')]) # s]_busVars
  BY SilentStep
<1> QED
  BY <1>1, BusInvariant, PTL DEF BusSpec, SilentAfterClose

\* The events of a session, in order.
LEMMA MineFacts ==
  ASSUME EventsInv, NEW s, NEW mine, mine = EventsOf([e \in DOMAIN log |-> e], s)
  PROVE  /\ mine \in Seq(Nat) /\ Increasing(mine)
         /\ Members(mine) = {e \in 1..Len(log) : log[e] = s}
<1>1. log \in Seq(Sessions) /\ DOMAIN log = 1..Len(log) /\ Len(log) \in Nat
  BY DEF EventsInv
<1>2. PICK a : a = [e \in 1..Len(log) |-> e]
  OBVIOUS
<1>3. a \in Seq(Nat) /\ Len(a) = Len(log) /\ \A e \in 1..Len(log) : a[e] = e
  BY <1>1, <1>2
<1>4. Increasing(a) /\ Members(a) = 1..Len(log)
  <2>1. Increasing(a)
    BY <1>3 DEF Increasing
  <2>2. Members(a) = 1..Len(log)
    BY <1>3 DEF Members
  <2> QED
    BY <2>1, <2>2
<1>5. mine = Retain(a, {e \in DOMAIN log : log[e] = s})
  BY <1>1, <1>2 DEF EventsOf
<1>6. /\ mine \in Seq(Nat) /\ Increasing(mine)
      /\ Members(mine) = Members(a) \cap {e \in DOMAIN log : log[e] = s}
  BY <1>3, <1>4, <1>5, RetainFacts
<1> QED
  BY <1>1, <1>4, <1>6

LEMMA JoinFacts ==
  ASSUME NEW s \in Seq(Nat), NEW t \in Seq(Nat), Increasing(s), Increasing(t),
         \A x \in Members(s), y \in Members(t) : x < y,
         NEW g, g = s \o t
  PROVE  /\ g \in Seq(Nat) /\ Increasing(g) /\ Members(g) = Members(s) \cup Members(t)
<1>1. g \in Seq(Nat) /\ Len(g) = Len(s) + Len(t) /\ Len(s) \in Nat /\ Len(t) \in Nat
  OBVIOUS
<1>2. /\ \A i \in 1..Len(s) : g[i] = s[i] /\ i \in 1..Len(g)
      /\ \A i \in 1..Len(t) : g[Len(s) + i] = t[i] /\ Len(s) + i \in 1..Len(g)
  OBVIOUS
<1>3. \A i \in 1..Len(g) : i \in 1..Len(s) \/ (i - Len(s) \in 1..Len(t) /\ Len(s) + (i - Len(s)) = i)
  BY <1>1
<1>4. \A i \in 1..Len(g) : i \in 1..Len(s) \/ (i - Len(s) \in 1..Len(t) /\ g[i] = t[i - Len(s)])
  BY <1>2, <1>3
<1>5. ASSUME NEW i \in 1..Len(g), NEW j \in 1..Len(g), i < j PROVE g[i] < g[j]
  <2>1. CASE i \in 1..Len(s) /\ j \in 1..Len(s)
    BY <1>2, <1>5, <2>1 DEF Increasing
  <2>2. CASE i \in 1..Len(s) /\ j \notin 1..Len(s)
    BY <1>2, <1>4, <2>2 DEF Members
  <2>3. CASE i \notin 1..Len(s)
    <3>1. j \notin 1..Len(s)
      BY <1>1, <1>5, <2>3
    <3>2. i - Len(s) < j - Len(s)
      BY <1>1, <1>5
    <3> QED
      BY <1>4, <2>3, <3>1, <3>2 DEF Increasing
  <2> QED
    BY <2>1, <2>2, <2>3
<1>6. ASSUME NEW x \in Members(g) PROVE x \in Members(s) \cup Members(t)
  <2>1. PICK i \in 1..Len(g) : x = g[i]
    BY DEF Members
  <2> QED
    BY <1>2, <1>4, <2>1 DEF Members
<1>7. ASSUME NEW x \in Members(s) \cup Members(t) PROVE x \in Members(g)
  <2>1. CASE x \in Members(s)
    BY <1>2, <2>1 DEF Members
  <2>2. CASE x \in Members(t)
    <3>1. PICK i \in 1..Len(t) : x = t[i]
      BY <2>2 DEF Members
    <3>2. x = g[Len(s) + i] /\ Len(s) + i \in 1..Len(g)
      BY <1>2, <3>1
    <3> QED
      BY <3>2 DEF Members
  <2> QED
    BY <2>1, <2>2
<1> QED
  BY <1>1, <1>5, <1>6, <1>7 DEF Increasing

LEMMA GapFromInv ==
  ASSUME BusInv
  PROVE  NoGapNoRepeat
<1> SUFFICES ASSUME NEW u \in Subscribers, subs[u].stage \in {"idle", "holding"},
                    ~subs[u].lag, subs[u].session \notin closed,
                    NEW mine, mine = EventsOf([e \in DOMAIN log |-> e], subs[u].session),
                    NEW seen, seen = subs[u].got \o subs[u].held \o subs[u].replay
                                       \o EventsOf(subs[u].live, subs[u].session)
             PROVE  /\ Len(seen) <= Len(mine)
                    /\ seen = SubSeq(mine, Len(mine) - Len(seen) + 1, Len(mine))
  BY DEF NoGapNoRepeat
<1>1. PICK b : b = subs[u]
  OBVIOUS
<1>2. SubOK(b) /\ b.stage \in {"idle", "holding"} /\ ~b.lag /\ b.session \notin closed
  BY <1>1 DEF BusInv, SubsInv
<1>3. b \in Subscription /\ Following(b) /\ EventsInv
  BY <1>2 DEF SubOK, BusInv
<1>4. PICK s, t, l, n : s = b.session /\ t = Taken(b) /\ l = b.live /\ n = Len(log) - Len(b.live)
  OBVIOUS
<1>5. t \in Seq(Nat)
  BY <1>3, <1>4, TakenTyped
<1>6. /\ l \in Seq(Nat) /\ Len(l) \in Nat /\ Len(log) \in Nat /\ DOMAIN log = 1..Len(log)
  BY <1>3, <1>4 DEF Subscription, EventsInv
<1>7. /\ Len(l) <= Len(log) /\ \A i \in 1..Len(l) : l[i] = n + i
      /\ Increasing(t)
      /\ \A e \in Members(t) : e \in 1..n /\ log[e] = s
      /\ \A x \in Members(t), e \in 1..n : x <= e /\ log[e] = s => e \in Members(t)
  BY <1>2, <1>3, <1>4 DEF Following
<1>8. n \in Nat /\ n + Len(l) = Len(log)
  <2>1. n = Len(log) - Len(l)
    BY <1>4
  <2>2. Len(l) <= Len(log)
    BY <1>7
  <2> QED
    BY <1>6, <2>1, <2>2
<1>9. Increasing(l) /\ Members(l) = (n + 1)..Len(log)
  <2>1. Increasing(l)
    BY <1>6, <1>7, <1>8 DEF Increasing
  <2>2. ASSUME NEW x \in Members(l) PROVE x \in (n + 1)..Len(log)
    <3>1. PICK i \in 1..Len(l) : x = n + i
      BY <1>7 DEF Members
    <3> QED
      BY <1>6, <1>8, <3>1
  <2>3. ASSUME NEW x \in (n + 1)..Len(log) PROVE x \in Members(l)
    <3>1. x - n \in 1..Len(l) /\ n + (x - n) = x
      BY <1>6, <1>8
    <3>2. l[x - n] = x
      BY <1>7, <3>1
    <3> QED
      BY <3>1, <3>2 DEF Members
  <2> QED
    BY <2>1, <2>2, <2>3
<1>10. PICK v : v = EventsOf(l, s)
  OBVIOUS
<1>11. /\ v \in Seq(Nat) /\ Increasing(v)
       /\ Members(v) = Members(l) \cap {e \in DOMAIN log : log[e] = s}
  BY <1>6, <1>9, <1>10, RetainFacts DEF EventsOf
<1>12. seen = t \o v
  BY <1>1, <1>4, <1>10 DEF Taken
<1>13. \A x \in Members(t), y \in Members(v) : x < y
  <2> SUFFICES ASSUME NEW x \in Members(t), NEW y \in Members(v) PROVE x < y
    OBVIOUS
  <2>1. x \in 1..n /\ y \in (n + 1)..Len(log)
    BY <1>7, <1>9, <1>11
  <2> QED
    BY <1>6, <1>8, <2>1
<1>14. /\ seen \in Seq(Nat) /\ Increasing(seen)
       /\ Members(seen) = Members(t) \cup Members(v)
  BY <1>5, <1>7, <1>11, <1>12, <1>13, JoinFacts
<1>15. /\ mine \in Seq(Nat) /\ Increasing(mine)
       /\ Members(mine) = {e \in 1..Len(log) : log[e] = s}
  BY <1>1, <1>3, <1>4, MineFacts
<1>16. 1..Len(log) = (1..n) \cup ((n + 1)..Len(log))
  BY <1>6, <1>8
<1>17. Members(seen) \subseteq Members(mine)
  BY <1>6, <1>7, <1>9, <1>11, <1>14, <1>15, <1>16
<1>18. ASSUME NEW x \in Members(seen), NEW y \in Members(mine), x <= y
       PROVE  y \in Members(seen)
  <2>1. y \in 1..Len(log) /\ log[y] = s
    BY <1>15
  <2>2. CASE y \in (n + 1)..Len(log)
    BY <1>6, <1>9, <1>11, <1>14, <2>1, <2>2
  <2>3. CASE y \in 1..n
    <3>1. x \notin Members(v)
      <4> SUFFICES ASSUME x \in (n + 1)..Len(log) PROVE FALSE
        BY <1>9, <1>11
      <4> QED
        BY <1>6, <1>8, <1>18, <2>3
    <3>2. x \in Members(t)
      BY <1>14, <3>1
    <3> QED
      BY <1>7, <1>14, <1>18, <2>1, <2>3, <3>2
  <2> QED
    BY <1>16, <2>1, <2>2, <2>3
<1> HIDE DEF Members, Increasing
<1> QED
  BY <1>14, <1>15, <1>17, <1>18, EndOf

\* What a subscription has delivered and what is still on its way to it are,
\* without gap or repetition, the last events published for its session: the
\* history is copied and the receiver is registered under one mutex, the
\* channel loses its oldest event first, and a lagged receiver is told.
THEOREM SubscriptionsComplete == BusSpec => []NoGapNoRepeat
<1>1. BusInv => NoGapNoRepeat
  BY GapFromInv
<1> QED
  BY <1>1, BusInvariant, PTL

-----------------------------------------------------------------------------
(* Capacities. *)

\* A queued command has its completion in the pending map, and the pending map
\* keeps to its capacity.
PendingInv ==
    /\ pending \subseteq 1..Len(requests)
    /\ IsFiniteSet(pending) /\ Cardinality(pending) <= QueueCap
    /\ Members(queued) \subseteq pending

LEMMA PendingKept ==
  ASSUME PendingInv, SameRequests, pending' \subseteq pending, Members(queued') \subseteq pending'
  PROVE  PendingInv'
<1>1. IsFiniteSet(pending') /\ Cardinality(pending') <= Cardinality(pending)
  BY FS_Subset DEF PendingInv
<1>2. Cardinality(pending) \in Nat /\ Cardinality(pending') \in Nat /\ QueueCap \in Nat
  BY <1>1, FS_CardinalityType, BusAssumption DEF PendingInv
<1>3. Cardinality(pending') <= QueueCap
  BY <1>1, <1>2 DEF PendingInv
<1>4. pending' \subseteq 1..Len(requests')
  BY DEF SameRequests, PendingInv
<1> QED
  BY <1>1, <1>3, <1>4 DEF PendingInv

\* The command in hand is not in the queue.
LEMMA HandNotQueued ==
  ASSUME BusInv, conn.stage \in Busy
  PROVE  conn.item \notin Members(queued)
<1>1. conn.item \in Nat /\ \A r \in Members(queued) : conn.item < r
  BY DEF BusInv, RequestsInv
<1> QED
  BY <1>1

LEMMA StepPending ==
  ASSUME BusInv, PendingInv, BusNext
  PROVE  PendingInv'
<1>0. requests \in Seq(Request) /\ queued \in Seq(Nat) /\ Increasing(queued) /\ DOMAIN requests = 1..Len(requests)
  BY DEF BusInv, RequestsInv
<1>1. ASSUME requests' = requests PROVE SameRequests
  BY <1>0, <1>1 DEF SameRequests
<1>2. ASSUME NEW s \in Sessions, TrySend(s) PROVE PendingInv'
  <2>1. /\ Cardinality(pending) < QueueCap /\ Len(requests') = Len(requests) + 1
        /\ pending' = pending \cup {Len(requests) + 1}
        /\ queued' = Append(queued, Len(requests) + 1)
    BY <1>0, <1>2 DEF TrySend, Accepts
  <2>2. IsFiniteSet(pending) /\ pending \subseteq 1..Len(requests) /\ Members(queued) \subseteq pending
    BY DEF PendingInv
  <2>3. PICK r : r = Len(requests) + 1
    OBVIOUS
  <2>4. Len(requests) \in Nat /\ r \in Nat /\ r \notin pending
    BY <1>0, <2>2, <2>3
  <2>5. IsFiniteSet(pending') /\ Cardinality(pending') = Cardinality(pending) + 1
    BY <2>1, <2>2, <2>3, <2>4, FS_AddElement
  <2>6. Cardinality(pending) \in Nat /\ QueueCap \in Nat
    BY <2>2, FS_CardinalityType, BusAssumption
  <2>7. Cardinality(pending') <= QueueCap
    BY <2>1, <2>5, <2>6
  <2>8. \A y \in Members(queued) : y < r
    <3> SUFFICES ASSUME NEW y \in 1..Len(requests) PROVE y < r
      BY <2>2
    <3> QED
      BY <2>3, <2>4
  <2>9. Members(queued') = Members(queued) \cup {r}
    BY <1>0, <2>1, <2>3, <2>4, <2>8, AppendFacts
  <2>10. pending' \subseteq 1..Len(requests')
    <3>1. 1..(Len(requests) + 1) = (1..Len(requests)) \cup {Len(requests) + 1}
      BY <2>4
    <3> QED
      BY <2>1, <2>2, <3>1
  <2> QED
    BY <2>1, <2>2, <2>3, <2>5, <2>7, <2>9, <2>10 DEF PendingInv
<1>3. ASSUME NEW s \in Sessions, MarkClosed(s) PROVE PendingInv'
  <2>1. /\ requests' = requests /\ pending' = pending \ Completions(s)
        /\ queued' = Retain(queued, {r \in DOMAIN requests : SessionOf(r) # s})
    BY <1>3 DEF MarkClosed
  <2>2. Members(queued') = Members(queued) \cap {r \in DOMAIN requests : SessionOf(r) # s}
    BY <1>0, <2>1, RetainFacts
  <2>3. Members(queued') \subseteq pending'
    BY <2>1, <2>2 DEF Completions, PendingInv
  <2> QED
    BY <1>1, <2>1, <2>3, PendingKept
<1>4. CASE PopRequest
  <2>1. requests' = requests /\ pending' = pending /\ queued' = Tail(queued) /\ queued # <<>>
    BY <1>4 DEF PopRequest
  <2>2. Members(queued') \subseteq pending'
    BY <1>0, <2>1, TailFacts DEF PendingInv
  <2> QED
    BY <1>1, <2>1, <2>2, PendingKept
<1>5. CASE Admit \/ StartSend
  <2>1. /\ requests' = requests /\ queued' = queued
        /\ pending' = pending \/ pending' = pending \ {conn.item}
    BY <1>5 DEF Admit, StartSend
  <2>2. conn.stage \in Busy
    BY <1>5 DEF Admit, StartSend, Busy
  <2>3. Members(queued') \subseteq pending'
    BY <2>1, <2>2, HandNotQueued DEF PendingInv
  <2> QED
    BY <1>1, <2>1, <2>3, PendingKept
<1>6. CASE RefuseInvalid \/ SendDone \/ SendFails
  <2>1. /\ queued' = queued /\ conn.stage \in Busy
        /\ \E outcome \in Outcomes : Complete(conn.item, outcome)
    BY <1>6 DEF RefuseInvalid, SendDone, SendFails, Busy, Outcomes
  <2>2. PICK outcome \in Outcomes : Complete(conn.item, outcome)
    BY <2>1
  <2>3. SameRequests
    <3>1. CASE requests' = Finished({conn.item}, outcome)
      BY <1>0, <3>1, FinishedFacts
    <3>2. CASE requests' = requests
      BY <1>1, <3>2
    <3> QED
      BY <2>2, <3>1, <3>2 DEF Complete
  <2>4. pending' = pending \ {conn.item}
    BY <2>2 DEF Complete
  <2>5. Members(queued') \subseteq pending'
    BY <2>1, <2>4, HandNotQueued DEF PendingInv
  <2> QED
    BY <2>3, <2>4, <2>5, PendingKept
<1>7. CASE StopTask
  <2>1. requests' = Finished(pending, "unavailable") /\ pending' = {} /\ queued' = <<>>
    BY <1>7 DEF StopTask
  <2>2. SameRequests
    BY <1>0, <2>1, FinishedFacts DEF Outcomes
  <2>3. Members(queued') = {}
    BY <2>1 DEF Members
  <2> QED
    BY <2>1, <2>2, <2>3, PendingKept
<1>8. CASE \/ \E r \in Ids : DropReceipt(r)
           \/ \E s \in Sessions : FinishClose(s)
  <2>1. /\ pending' = pending /\ queued' = queued
        /\ \E rs, outcome : outcome \in Outcomes /\ requests' = Finished(rs, outcome)
    BY <1>8 DEF DropReceipt, FinishClose, Outcomes
  <2>2. PICK rs, outcome : outcome \in Outcomes /\ requests' = Finished(rs, outcome)
    BY <2>1
  <2>3. SameRequests
    BY <1>0, <2>2, FinishedFacts
  <2>4. Members(queued') \subseteq pending'
    BY <2>1 DEF PendingInv
  <2> QED
    BY <2>1, <2>3, <2>4, PendingKept
<1>9. CASE UNCHANGED <<requests, pending, queued>>
  BY <1>9 DEF PendingInv
<1> QED
  BY <1>2, <1>3, <1>4, <1>5, <1>6, <1>7, <1>8, <1>9
     DEF BusNext, ConnStep, ConnFault, Receiving, Callers, CloseStep, SubStep, StartClose,
         RelayCheck, RelayEnqueue, RequestShutdown, Receive, Connect, Disconnect, Publish,
         RelayPop, RelayAnswer, Deactivate, DrainRelay, Subscribe, CopyHistory, RecvReplay,
         RecvLive, Deliver

LEMMA KeepLength ==
  ASSUME NEW s \in Seq(Nat), NEW x \in Nat, Len(s) <= EventCap, NEW k, k = Keep(s, x)
  PROVE  Len(k) <= EventCap
<1>0. EventCap \in Nat /\ EventCap # 0 /\ Len(s) \in Nat
  BY BusAssumption
<1>1. CASE Len(s) = EventCap
  <2>1. PICK t : t = Tail(s)
    OBVIOUS
  <2>2. t \in Seq(Nat) /\ Len(t) = Len(s) - 1
    BY <1>0, <1>1, <2>1
  <2>3. k = Append(t, x)
    BY <1>1, <2>1 DEF Keep
  <2>4. Len(k) = Len(t) + 1
    BY <2>2, <2>3
  <2> QED
    BY <1>0, <1>1, <2>2, <2>4
<1>2. CASE Len(s) # EventCap
  <2>1. k = Append(s, x)
    BY <1>2 DEF Keep
  <2>2. Len(k) = Len(s) + 1
    BY <2>1
  <2> QED
    BY <1>0, <1>2, <2>2
<1> QED
  BY <1>1, <1>2

LEMMA StepHistory ==
  ASSUME BusInv, Len(history) <= EventCap, BusNext
  PROVE  Len(history') <= EventCap
<1>0. /\ history \in Seq(Nat) /\ Increasing(history) /\ Len(log) \in Nat /\ Len(log) + 1 \in Nat
      /\ EventCap \in Nat
  BY BusAssumption DEF BusInv, EventsInv
<1>1. CASE history' = Keep(history, Len(log) + 1)
  BY <1>0, <1>1, KeepLength
<1>2. ASSUME NEW S, history' = Retain(history, S) PROVE Len(history') <= EventCap
  <2>1. Len(history') <= Len(history) /\ history' \in Seq(Nat)
    BY <1>0, <1>2, RetainFacts
  <2>2. Len(history') \in Nat /\ Len(history) \in Nat
    BY <1>0, <2>1
  <2> QED
    BY <1>0, <2>1, <2>2
<1>3. CASE UNCHANGED history
  BY <1>3
<1>4. \/ history' = Keep(history, Len(log) + 1)
      \/ \E S : history' = Retain(history, S)
      \/ UNCHANGED history
  BY DEF BusNext, ConnStep, ConnFault, Receiving, Callers, CloseStep, SubStep, TrySend, DropReceipt,
         StartClose, RelayCheck, RelayEnqueue, RequestShutdown, FinishClose, MarkClosed, Receive,
         Connect, Disconnect, PopRequest, Admit, RefuseInvalid, StartSend, SendDone, SendFails,
         Publish, RelayPop, RelayAnswer, Deactivate, DrainRelay, StopTask, Subscribe, CopyHistory,
         RecvReplay, RecvLive, Deliver
<1> QED
  BY <1>1, <1>2, <1>3, <1>4

\* The channels keep to theirs.
LiveBound == \A u \in Subscribers : Len(subs[u].live) <= EventCap

LEMMA OneLive ==
  ASSUME BusInv, LiveBound, NEW u \in Subscribers, NEW c, SubTo(u, c), Len(c.live) <= EventCap
  PROVE  LiveBound'
<1>1. subs' = [subs EXCEPT ![u] = c] /\ subs = [v \in Subscribers |-> subs[v]]
  BY DEF SubTo, BusInv, SubsInv
<1>2. ASSUME NEW v \in Subscribers PROVE Len(subs'[v].live) <= EventCap
  <2>1. subs'[v] = IF v = u THEN c ELSE subs[v]
    BY <1>1
  <2> QED
    BY <2>1 DEF LiveBound
<1> QED
  BY <1>2 DEF LiveBound

LEMMA LiveShrinks ==
  ASSUME BusInv, LiveBound, NEW u \in Subscribers, NEW c, SubTo(u, c),
         c.live \in {<<>>, subs[u].live} \/ (subs[u].live # <<>> /\ c.live = Tail(subs[u].live))
  PROVE  LiveBound'
<1>1. PICK l : l = subs[u].live
  OBVIOUS
<1>2. l \in Seq(Nat) /\ Len(l) <= EventCap /\ EventCap \in Nat
  BY <1>1, BusAssumption DEF BusInv, SubsInv, SubOK, Subscription, LiveBound
<1>3. Len(c.live) <= EventCap
  <2>1. CASE c.live = <<>>
    BY <1>2, <2>1
  <2>2. CASE c.live = l
    BY <1>2, <2>2
  <2>3. CASE l # <<>> /\ c.live = Tail(l)
    <3>1. Len(Tail(l)) = Len(l) - 1 /\ Len(l) \in Nat
      BY <1>2, <2>3
    <3> QED
      BY <1>2, <2>3, <3>1
  <2> QED
    BY <1>1, <2>1, <2>2, <2>3
<1> QED
  BY <1>3, OneLive

LEMMA StepLive ==
  ASSUME BusInv, LiveBound, BusNext
  PROVE  LiveBound'
<1>0. \A u \in Subscribers : subs[u] \in Subscription
  BY DEF BusInv, SubsInv, SubOK
<1>1. ASSUME NEW u \in Subscribers, NEW s \in Sessions, Subscribe(u, s) PROVE LiveBound'
  <2>1. PICK n, c : n = NoSub /\ c = [n EXCEPT !.stage = "subscribing", !.session = s]
    OBVIOUS
  <2>2. SubTo(u, c)
    BY <1>1, <2>1 DEF Subscribe
  <2>3. n \in Subscription /\ n.live = <<>>
    BY <2>1, NoSubTyped, NoSubFields
  <2>4. c.live = <<>>
    BY <2>1, <2>3 DEF Subscription
  <2> QED
    BY <2>2, <2>4, LiveShrinks
<1>2. ASSUME NEW u \in Subscribers, NEW how, SubTo(u, EndSub(u, how)) PROVE LiveBound'
  <2>1. PICK b, c : b = subs[u] /\ c = EndSub(u, how)
    OBVIOUS
  <2>2. c.live = <<>>
    BY <1>0, <2>1 DEF EndSub, Subscription
  <2> QED
    BY <1>2, <2>1, <2>2, LiveShrinks
<1>3. CASE subs' = Broadcast(Len(log) + 1)
  <2> SUFFICES ASSUME NEW u \in Subscribers PROVE Len(subs'[u].live) <= EventCap
    BY DEF LiveBound
  <2>1. PICK b, l, n : b = subs[u] /\ l = b.live /\ n = Len(log) + 1
    OBVIOUS
  <2>2. /\ b \in Subscription /\ l \in Seq(Nat) /\ Len(l) <= EventCap
    BY <1>0, <2>1 DEF Subscription, LiveBound
  <2>3. n \in Nat
    BY <2>1 DEF BusInv, EventsInv
  <2>4. PICK k : k = Keep(l, n)
    OBVIOUS
  <2>5. Len(k) <= EventCap
    BY <2>2, <2>3, <2>4, KeepLength
  <2>6. \/ subs'[u] = b
        \/ subs'[u] = [b EXCEPT !.live = k, !.lag = @ \/ Len(b.live) = EventCap]
    BY <1>3, <2>1, <2>4 DEF Broadcast
  <2>7. subs'[u].live \in {l, k}
    BY <2>1, <2>2, <2>6 DEF Subscription
  <2> QED
    BY <2>2, <2>5, <2>7
<1>4. CASE UNCHANGED subs
  BY <1>4 DEF LiveBound
<1>5. ASSUME NEW u \in Subscribers, SubStep(u) PROVE LiveBound'
  <2>0. PICK b : b = subs[u]
    OBVIOUS
  <2>1. b \in Subscription
    BY <1>0, <2>0
  <2>2. CASE CopyHistory(u)
    <3>1. PICK h, c : h = EventsOf(history, b.session) /\ c = [b EXCEPT !.stage = "idle", !.replay = h]
      OBVIOUS
    <3>2. SubTo(u, c)
      BY <2>0, <2>2, <3>1 DEF CopyHistory
    <3>3. c.live = b.live
      BY <2>1, <3>1 DEF Subscription
    <3> QED
      BY <2>0, <3>2, <3>3, LiveShrinks
  <2>3. CASE RecvReplay(u)
    <3>1. CASE SubTo(u, EndSub(u, "closed"))
      BY <1>2, <3>1
    <3>2. CASE SubTo(u, [b EXCEPT !.replay = Tail(@), !.got = Append(@, Head(b.replay))])
      <4>1. PICK c : c = [b EXCEPT !.replay = Tail(@), !.got = Append(@, Head(b.replay))]
        OBVIOUS
      <4>2. c.live = b.live
        BY <2>1, <4>1 DEF Subscription
      <4> QED
        BY <2>0, <3>2, <4>1, <4>2, LiveShrinks
    <3> QED
      BY <2>0, <2>3, <3>1, <3>2 DEF RecvReplay
  <2>4. CASE RecvLive(u)
    <3> DEFINE e == Head(b.live)
               hold == [b EXCEPT !.stage = "holding", !.live = Tail(@), !.held = <<e>>]
               pass == [b EXCEPT !.live = Tail(@)]
    <3>1. CASE SubTo(u, EndSub(u, "lagged"))
      BY <1>2, <3>1
    <3>2. CASE SubTo(u, IF log[e] = b.session THEN hold ELSE pass)
      <4>1. PICK c : c = IF log[e] = b.session THEN hold ELSE pass
        OBVIOUS
      <4>2. c.live = Tail(b.live)
        BY <2>1, <4>1 DEF Subscription
      <4>3. b.live # <<>>
        BY <2>0, <2>4 DEF RecvLive
      <4> QED
        BY <2>0, <3>2, <4>1, <4>2, <4>3, LiveShrinks
    <3> QED
      BY <2>0, <2>4, <3>1, <3>2 DEF RecvLive
  <2>5. CASE Deliver(u)
    <3>1. CASE SubTo(u, EndSub(u, "closed"))
      BY <1>2, <3>1
    <3>2. CASE SubTo(u, [b EXCEPT !.stage = "idle", !.held = <<>>, !.got = @ \o b.held])
      <4>1. PICK c : c = [b EXCEPT !.stage = "idle", !.held = <<>>, !.got = @ \o b.held]
        OBVIOUS
      <4>2. c.live = b.live
        BY <2>1, <4>1 DEF Subscription
      <4> QED
        BY <2>0, <3>2, <4>1, <4>2, LiveShrinks
    <3> QED
      BY <2>0, <2>5, <3>1, <3>2 DEF Deliver
  <2> QED
    BY <1>5, <2>2, <2>3, <2>4, <2>5 DEF SubStep
<1> QED
  BY <1>1, <1>3, <1>4, <1>5
     DEF BusNext, ConnStep, ConnFault, Receiving, Callers, CloseStep, TrySend, DropReceipt,
         StartClose, RelayCheck, RelayEnqueue, RequestShutdown, FinishClose, MarkClosed, Receive,
         Connect, Disconnect, PopRequest, Admit, RefuseInvalid, StartSend, SendDone, SendFails,
         Publish, RelayPop, RelayAnswer, Deactivate, DrainRelay, StopTask

CapacityInv ==
    /\ active \in BOOLEAN /\ shutdown \in BOOLEAN
    /\ relay \in {"none", "checked", "queued", "ok", "invalid", "unavailable"}
    /\ PendingInv
    /\ Len(history) <= EventCap
    /\ LiveBound

LEMMA CapacityStart ==
  ASSUME BusInit
  PROVE  CapacityInv
<1>1. /\ active = TRUE /\ shutdown = FALSE /\ relay = "none" /\ requests = <<>> /\ queued = <<>>
      /\ pending = {} /\ history = <<>> /\ subs = [u \in Subscribers |-> NoSub]
  BY DEF BusInit
<1>2. QueueCap \in Nat /\ EventCap \in Nat
  BY BusAssumption
<1>3. IsFiniteSet({}) /\ Cardinality({}) = 0
  BY FS_EmptySet
<1>4. Members(<<>>) = {} /\ Len(<<>>) = 0
  BY DEF Members
<1>5. PendingInv
  BY <1>1, <1>2, <1>3, <1>4 DEF PendingInv
<1>6. LiveBound
  BY <1>1, <1>2, <1>4, NoSubFields DEF LiveBound
<1>7. active \in BOOLEAN /\ shutdown \in BOOLEAN
  BY <1>1
<1>8. Len(history) <= EventCap
  BY <1>1, <1>2, <1>4
<1>9. relay \in {"none", "checked", "queued", "ok", "invalid", "unavailable"}
  BY <1>1
<1> QED
  BY <1>5, <1>6, <1>7, <1>8, <1>9 DEF CapacityInv

LEMMA CapacityStep ==
  ASSUME BusInv, CapacityInv, [BusNext]_busVars
  PROVE  CapacityInv'
<1>0. PendingInv /\ Len(history) <= EventCap /\ LiveBound
  BY DEF CapacityInv
<1>1. CASE BusNext
  <2>1. PendingInv'
    BY <1>0, <1>1, StepPending
  <2>2. Len(history') <= EventCap
    BY <1>0, <1>1, StepHistory
  <2>3. LiveBound'
    BY <1>0, <1>1, StepLive
  <2>4. /\ active' = active \/ active' = FALSE
        /\ shutdown' = shutdown \/ shutdown' = TRUE
        /\ relay' \in {relay, "checked", "queued", "ok", "invalid", "unavailable"}
    BY <1>1 DEF BusNext, ConnStep, ConnFault, Receiving, Callers, CloseStep, SubStep, TrySend,
         DropReceipt, StartClose, RelayCheck, RelayEnqueue, RequestShutdown, FinishClose, MarkClosed,
         Receive, Connect, Disconnect, PopRequest, Admit, RefuseInvalid, StartSend, SendDone,
         SendFails, Publish, RelayPop, RelayAnswer, Deactivate, DrainRelay, StopTask, Subscribe,
         CopyHistory, RecvReplay, RecvLive, Deliver
  <2>5. active' \in BOOLEAN /\ shutdown' \in BOOLEAN
    BY <2>4 DEF CapacityInv
  <2>6. relay' \in {"none", "checked", "queued", "ok", "invalid", "unavailable"}
    BY <2>4 DEF CapacityInv
  <2> QED
    BY <2>1, <2>2, <2>3, <2>5, <2>6 DEF CapacityInv
<1>2. CASE UNCHANGED busVars
  <2>1. UNCHANGED <<active, shutdown, relay, requests, pending, queued, history, subs>>
    BY <1>2 DEF busVars
  <2>2. PendingInv'
    BY <1>0, <2>1 DEF PendingInv
  <2>3. LiveBound'
    BY <1>0, <2>1 DEF LiveBound
  <2> QED
    BY <2>1, <2>2, <2>3 DEF CapacityInv
<1> QED
  BY <1>1, <1>2

LEMMA TypesFromInv ==
  ASSUME BusInv, CapacityInv
  PROVE  BusTypeOK
<1>1. /\ requests \in Seq([session : Sessions, receipt : Outcomes])
      /\ DOMAIN requests = 1..Len(requests) /\ conn \in Conn
      /\ queued \in Seq(Nat) /\ DOMAIN queued = 1..Len(queued)
  BY DEF BusInv, RequestsInv, Request
<1>2. pending \subseteq DOMAIN requests /\ Cardinality(pending) <= QueueCap
  BY <1>1 DEF CapacityInv, PendingInv
<1>3. \A i \in DOMAIN queued : queued[i] \in pending
  BY <1>1 DEF CapacityInv, PendingInv, Members
<1>4. \A u \in Subscribers : subs[u].stage \in SubStages /\ Len(subs[u].live) <= EventCap
  BY DEF CapacityInv, LiveBound, BusInv, SubsInv, SubOK, Subscription
<1>5. conn.stage \in ConnStages
  BY <1>1 DEF Conn
<1>6. /\ closing \in [Sessions -> {"open", "waiting", "marked", "done"}]
      /\ closed \subseteq Sessions
  BY DEF BusInv, CloseInv
<1>7. /\ active \in BOOLEAN /\ shutdown \in BOOLEAN /\ Len(history) <= EventCap
      /\ relay \in {"none", "checked", "queued", "ok", "invalid", "unavailable"}
  BY DEF CapacityInv
<1> QED
  BY <1>1, <1>2, <1>3, <1>4, <1>5, <1>6, <1>7 DEF BusTypeOK

\* The pending map, the history and every subscription's channel stay within
\* their capacities, and every command in the queue has a completion for the
\* caller that waits on its receipt.
THEOREM BusTypes == BusSpec => []BusTypeOK
<1>1. BusInit => BusInv /\ CapacityInv
  BY BusStart, CapacityStart
<1>2. (BusInv /\ CapacityInv) /\ [BusNext]_busVars => (BusInv /\ CapacityInv)'
  BY BusStep, CapacityStep
<1>3. BusInv /\ CapacityInv => BusTypeOK
  BY TypesFromInv
<1> QED
  BY <1>1, <1>2, <1>3, PTL DEF BusSpec
=============================================================================
