--------------------------- MODULE SignalCounter ---------------------------
(***************************************************************************)
(* The signing counter of a device key (signaling/counter.rs): a counter   *)
(* file and an initialization marker, opened by at most one process at a   *)
(* time, from which blocks of numbers are reserved before they are used.   *)
(*                                                                         *)
(* A file's contents are abstracted to the number it holds, Torn (bytes    *)
(* that do not unprotect: empty, cut short) or Absent.  For each file the  *)
(* model keeps what a read returns and the set of contents the disk may    *)
(* hold after a power loss, which only sync_all narrows to one.  The       *)
(* directory entry of a new file is durable once the directory is synced.  *)
(***************************************************************************)
EXTENDS Integers

CONSTANTS
    Procs,      \* processes that may open the counter
    Floor,      \* LEGACY_MIGRATION_FLOOR
    Block,      \* RESERVATION_SIZE
    MaxU64,     \* u64::MAX
    NoProc,     \* the holder of a free lock
    SyncKeepsEntry  \* the file system makes a new file's directory entry
                    \* durable when the file itself is synced

ASSUME CounterAssumption ==
    /\ Floor \in Nat \ {0}
    /\ Block \in Nat \ {0}
    /\ MaxU64 \in Nat
    /\ Floor + Block <= MaxU64
    /\ NoProc \notin Procs
    /\ SyncKeepsEntry \in BOOLEAN

VARIABLES
    counter,      \* what a read of the counter file returns
    counterDisk,  \* what a power loss may leave of it
    marker,       \* the same for the initialization marker
    markerDisk,
    lock,         \* the process that holds the counter file's lock
    proc,         \* per process: where it is in open or next, and its Reservation
    lost,         \* an operator has deleted one of the two files
    last          \* history: the last number handed out by next

vars == <<counter, counterDisk, marker, markerDisk, lock, proc, lost, last>>

Absent == -2
Torn   == -1
Valid  == 0       \* a marker of this key and format

\* Steps of open and next.  "closed": no handle; "open": between calls.
Stages == {"closed", "checkMarker", "opening", "locking", "reading",
           "createMarker", "marker", "floor", "syncDir", "reserve", "refill",
           "open"}

\* Stages in which write_protected is under way, and how far it has got.
Writing  == {"marker", "floor", "reserve", "refill"}
Progress == {"start", "torn", "written"}

\* Stages in which the process holds the lock.
Locked == {"reading", "createMarker", "marker", "floor", "syncDir", "reserve",
           "refill", "open"}

Closed == [stage |-> "closed", io |-> "start", exists |-> FALSE,
           reserved |-> 0, next |-> 0]

Init == /\ counter = Absent /\ counterDisk = {Absent}
        /\ marker = Absent  /\ markerDisk = {Absent}
        /\ lock = NoProc
        /\ proc = [p \in Procs |-> Closed]
        /\ lost = FALSE
        /\ last = 0

At(p, s) == proc[p].stage = s

Goto(p, s) == proc' = [proc EXCEPT ![p].stage = s, ![p].io = "start"]

files == <<counter, counterDisk, marker, markerDisk>>

\* The handle goes away: an error out of open, a drop, or the end of the process.
Abandon(p) == /\ proc' = [proc EXCEPT ![p] = Closed]
              /\ lock' = IF lock = p THEN NoProc ELSE lock
              /\ UNCHANGED <<files, lost, last>>
-----------------------------------------------------------------------------
(* open *)

CheckCounter(p) ==
    /\ At(p, "closed")
    /\ proc' = [proc EXCEPT ![p].stage = "checkMarker",
                            ![p].exists = counter # Absent]
    /\ UNCHANGED <<files, lock, lost, last>>

\* Fault: the counter file alone decides that this is the first opening.
CounterDecides(p) == TRUE

\* Either file without the other is InvalidState.
SameExistence(p) == proc[p].exists = (marker # Absent)

CheckMarker(p) ==
    /\ At(p, "checkMarker")
    /\ SameExistence(p)
    /\ Goto(p, "opening")
    /\ UNCHANGED <<files, lock, lost, last>>

RefuseMarker(p) == At(p, "checkMarker") /\ ~SameExistence(p) /\ Abandon(p)

\* open_private: create_new when neither file was there, else the file must exist.
OpenCounter(p) ==
    /\ At(p, "opening")
    /\ proc[p].exists = (counter # Absent)
    /\ counter' = IF proc[p].exists THEN counter ELSE Torn
    /\ counterDisk' = IF proc[p].exists THEN counterDisk ELSE counterDisk \cup {Torn}
    /\ Goto(p, "locking")
    /\ UNCHANGED <<marker, markerDisk, lock, lost, last>>

RefuseOpen(p) == /\ At(p, "opening")
                 /\ proc[p].exists # (counter # Absent)
                 /\ Abandon(p)

LockFree == lock = NoProc

TryLock(p) ==
    /\ At(p, "locking")
    /\ LockFree
    /\ lock' = p
    /\ Goto(p, IF proc[p].exists THEN "reading" ELSE "createMarker")
    /\ UNCHANGED <<files, lost, last>>

AlreadyLocked(p) == At(p, "locking") /\ ~LockFree /\ Abandon(p)

\* read_protected of both files, and next = reserved_through + 1.
Readable == marker = Valid /\ counter >= Floor /\ counter < MaxU64

ReadState(p) ==
    /\ At(p, "reading")
    /\ Readable
    /\ proc' = [proc EXCEPT ![p].stage = "reserve", ![p].io = "start",
                            ![p].reserved = counter, ![p].next = counter + 1]
    /\ UNCHANGED <<files, lock, lost, last>>

RefuseState(p) == At(p, "reading") /\ ~Readable /\ Abandon(p)

CreateMarker(p) ==
    /\ At(p, "createMarker")
    /\ marker = Absent
    /\ marker' = Torn
    /\ markerDisk' = markerDisk \cup {Torn}
    /\ Goto(p, "marker")
    /\ UNCHANGED <<counter, counterDisk, lock, lost, last>>

\* open_private fails on an existing marker and on any error of the file system.
RefuseCreate(p) == At(p, "createMarker") /\ Abandon(p)

SyncDirectory(p) ==
    /\ At(p, "syncDir")
    /\ counterDisk' = counterDisk \ {Absent}
    /\ markerDisk' = markerDisk \ {Absent}
    /\ Goto(p, "reserve")
    /\ UNCHANGED <<counter, marker, lock, lost, last>>
-----------------------------------------------------------------------------
(* write_protected: truncate, write_all, sync_all *)

\* The bound a reservation writes and then keeps.
Reserved(r) == r.reserved + Block

\* reserve's checked_add
CanReserve(p) == proc[p].stage \in {"reserve", "refill"} =>
                    Reserved(proc[p]) <= MaxU64

Value(p) == CASE proc[p].stage = "marker" -> Valid
              [] proc[p].stage = "floor"  -> Floor
              [] OTHER                    -> Reserved(proc[p])

PutMarker(p, v, possible) ==
    /\ proc[p].stage = "marker"
    /\ marker' = v
    /\ markerDisk' = possible
    /\ UNCHANGED <<counter, counterDisk>>

PutCounter(p, v, possible) ==
    /\ proc[p].stage # "marker"
    /\ counter' = v
    /\ counterDisk' = possible
    /\ UNCHANGED <<marker, markerDisk>>

Truncate(p) ==
    /\ proc[p].stage \in Writing /\ proc[p].io = "start"
    /\ CanReserve(p)
    /\ \/ PutMarker(p, Torn, markerDisk \cup {Torn})
       \/ PutCounter(p, Torn, counterDisk \cup {Torn})
    /\ proc' = [proc EXCEPT ![p].io = "torn"]
    /\ UNCHANGED <<lock, lost, last>>

WriteAll(p) ==
    /\ proc[p].stage \in Writing /\ proc[p].io = "torn"
    /\ \/ PutMarker(p, Value(p), markerDisk \cup {Value(p)})
       \/ PutCounter(p, Value(p), counterDisk \cup {Value(p)})
    /\ proc' = [proc EXCEPT ![p].io = "written"]
    /\ UNCHANGED <<lock, lost, last>>

\* The caller's continuation once the file is synced.
AfterWrite(p) ==
    CASE proc[p].stage = "marker" -> [proc[p] EXCEPT !.stage = "floor", !.io = "start"]
      [] proc[p].stage = "floor"  -> [proc[p] EXCEPT !.stage = "syncDir", !.io = "start",
                                                     !.reserved = Floor, !.next = Floor + 1]
      [] OTHER                    -> [proc[p] EXCEPT !.stage = "open", !.io = "start",
                                                     !.reserved = Reserved(proc[p])]

\* Fault: write_protected returns without sync_all.
Unsynced(v, possible) == possible

\* sync_all leaves one content possible.  Where it says nothing about the
\* directory, the entry of a new file may still go.
AfterSync(v, possible) ==
    {v} \cup (IF SyncKeepsEntry THEN {} ELSE possible \cap {Absent})

SyncAll(p) ==
    /\ proc[p].stage \in Writing /\ proc[p].io = "written"
    /\ \/ PutMarker(p, marker, AfterSync(marker, markerDisk))
       \/ PutCounter(p, counter, AfterSync(counter, counterDisk))
    /\ proc' = [proc EXCEPT ![p] = AfterWrite(p)]
    /\ UNCHANGED <<lock, lost, last>>

\* An I/O error or an exhausted range ends open, but leaves an open counter
\* as it was: the next call of next tries the same reservation again.
WriteFails(p) ==
    /\ proc[p].stage \in Writing
    /\ IF At(p, "refill") THEN /\ Goto(p, "open")
                               /\ UNCHANGED <<files, lock, lost, last>>
                          ELSE Abandon(p)
-----------------------------------------------------------------------------
(* next *)

BlockUsed(r) == r.next > r.reserved

Refill(p) ==
    /\ At(p, "open")
    /\ BlockUsed(proc[p])
    /\ Goto(p, "refill")
    /\ UNCHANGED <<files, lock, lost, last>>

Issue(p) ==
    /\ At(p, "open")
    /\ ~BlockUsed(proc[p])
    /\ proc[p].next < MaxU64
    /\ last' = proc[p].next
    /\ proc' = [proc EXCEPT ![p].next = @ + 1]
    /\ UNCHANGED <<files, lock, lost>>
-----------------------------------------------------------------------------
(* The environment *)

\* The process ends or drops the counter: the kernel keeps what was written.
Stop(p) == proc[p].stage # "closed" /\ Abandon(p)

PowerLoss ==
    /\ counter' \in counterDisk /\ counterDisk' = {counter'}
    /\ marker' \in markerDisk   /\ markerDisk' = {marker'}
    /\ lock' = NoProc
    /\ proc' = [p \in Procs |-> Closed]
    /\ UNCHANGED <<lost, last>>

\* One of the two files is deleted while no process is running.
LoseFile ==
    /\ ~lost
    /\ \A p \in Procs : At(p, "closed")
    /\ \/ /\ counter' = Absent /\ counterDisk' = {Absent}
          /\ marker # Absent
          /\ UNCHANGED <<marker, markerDisk>>
       \/ /\ marker' = Absent  /\ markerDisk' = {Absent}
          /\ counter # Absent
          /\ UNCHANGED <<counter, counterDisk>>
    /\ lost' = TRUE
    /\ UNCHANGED <<lock, proc, last>>

Step(p) ==
    \/ CheckCounter(p) \/ CheckMarker(p) \/ RefuseMarker(p)
    \/ OpenCounter(p) \/ RefuseOpen(p) \/ TryLock(p) \/ AlreadyLocked(p)
    \/ ReadState(p) \/ RefuseState(p) \/ CreateMarker(p) \/ RefuseCreate(p)
    \/ SyncDirectory(p) \/ Truncate(p) \/ WriteAll(p) \/ SyncAll(p)
    \/ WriteFails(p) \/ Refill(p) \/ Issue(p) \/ Stop(p)

Next == (\E p \in Procs : Step(p)) \/ PowerLoss \/ LoseFile

Spec == Init /\ [][Next]_vars
-----------------------------------------------------------------------------
Contents == Absent .. MaxU64

Handles == [stage : Stages, io : Progress, exists : BOOLEAN,
            reserved : 0 .. MaxU64, next : 0 .. MaxU64]

\* The shape of the two files, the lock and every process's handle; no number
\* written, reserved or handed out leaves the range of a u64.
TypeOK ==
    /\ counter \in Contents /\ counterDisk \in SUBSET Contents
    /\ marker \in Contents  /\ markerDisk \in SUBSET Contents
    /\ lock \in Procs \cup {NoProc}
    /\ proc \in [Procs -> Handles]
    /\ lost \in BOOLEAN
    /\ last \in 0 .. MaxU64

\* "Counter reservations are synced before any number in the block can be
\* used": whatever a power loss leaves in the counter file is a bound on every
\* number used so far, and so is every number the open counter may still use.
ReservedBeforeUse ==
    /\ \A c \in counterDisk \cup {counter} : c >= 0 => last <= c
    /\ \A p \in Procs : At(p, "open") =>
          /\ last < proc[p].next
          /\ \A c \in counterDisk : c >= 0 => proc[p].reserved <= c

\* "Neither a missing counter nor a missing marker can silently reset a
\* sequence": after the first number is used no crash or deletion lets a
\* process start the counter again at the floor.
NeverReset ==
    last > 0 => \A p \in Procs :
                   proc[p].stage \notin {"createMarker", "marker", "floor", "syncDir"}

\* The counter file has one owner: two open handles never hand out numbers.
OneOwner ==
    \A p, q \in Procs : At(p, "open") /\ proc[q].stage \in Writing => p = q

Abstract == INSTANCE MonotoneCounter WITH last <- last

\* The numbers used over all processes, crashes and reopenings strictly increase.
StrictlyIncreasing == Abstract!Spec
=============================================================================
