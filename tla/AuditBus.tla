------------------------------- MODULE AuditBus -------------------------------
(***************************************************************************)
(* governance/lib/audit_bus.py as it runs: every hook invocation is a      *)
(* process of its own that builds an AuditBus (opening the database and    *)
(* replaying the fallback buffer), emits its events and exits.  A process  *)
(* has two threads, the hook itself and the daemon worker that drains the  *)
(* queue of emit_nowait.  Processes share only the SQLite database, the    *)
(* buffer file and the file the buffer is renamed to while it is replayed. *)
(*                                                                         *)
(* One atomic step is one file-system call or one database transaction.    *)
(* Files are inodes with names, so that an append through a descriptor     *)
(* opened before a rename goes where the operating system sends it.  The   *)
(* inode created by the open() for event e is named e.                     *)
(***************************************************************************)
EXTENDS Naturals, Sequences, FiniteSets

CONSTANTS
    Proc,         \* hook processes that may exist at the same time
    Event,        \* audit events, one per event_id
    QueueMax,     \* AuditBus.QUEUE_MAX
    MaxOutages,   \* bound: how often the database becomes unavailable
    Overlap,      \* may hook processes overlap in time?
    Crashes,      \* may a process be killed between two steps?
    TornWrites,   \* may an append leave part of a line, or nothing (disk full)?
    NoFile,       \* no inode has this name / no descriptor is open
    Torn          \* a line that is not valid JSON

ASSUME QueueMaxAssumption == QueueMax \in Nat \ {0}
ASSUME OutagesAssumption  == MaxOutages \in Nat
ASSUME FaultsAssumption   == {Overlap, Crashes, TornWrites} \subseteq BOOLEAN
ASSUME NamesAssumption    == NoFile \notin Event /\ Torn \notin Event

VARIABLES
    dbUp,         \* can a connection be opened and a transaction committed?
    outages,      \* how many outages have begun
    db,           \* event_ids in audit_events (UNIQUE, INSERT OR IGNORE)
    lines,        \* lines[i]: what has been appended to inode i
    buffer,       \* the inode named audit-buffer.json, or NoFile
    replaying,    \* the inode named audit-buffer.replaying, or NoFile
    pc,           \* pc[t]: the next step of thread t
    held,         \* held[t]: the event thread t is buffering
    fd,           \* fd[t]: the inode thread t has open for append
    batch,        \* batch[p]: the lines process p has read to replay
    nowait,       \* nowait[p]: the in-memory queue of process p
    emitted,      \* history: events passed to emit()
    returned,     \* history: those whose emit() has returned
    deferred      \* history: events passed to emit_nowait()

busFiles == <<lines, buffer, replaying>>
vars == <<dbUp, outages, db, busFiles, pc, held, fd, batch, nowait,
          emitted, returned, deferred>>

Thread    == Proc \X {"hook", "worker"}
Hook(p)   == <<p, "hook">>
Worker(p) == <<p, "worker">>
Line      == Event \cup {Torn}

\* Where a thread is when it has nothing half done.
Home(t) == IF t[2] = "hook" THEN "ready" ELSE "idle"

Running(p)   == pc[Hook(p)] # "off"
Fresh(e)     == e \notin emitted \cup deferred
Contents(i)  == IF i = NoFile THEN {} ELSE lines[i]
Goto(t, l)   == pc' = [pc EXCEPT ![t] = l]

TypeOK ==
    /\ dbUp \in BOOLEAN /\ outages \in 0..MaxOutages
    /\ db \subseteq Event
    /\ lines \in [Event -> SUBSET Line]
    /\ buffer \in Event \cup {NoFile} /\ replaying \in Event \cup {NoFile}
    /\ pc \in [Thread -> {"off", "check", "rename", "read", "insert", "unlink",
                          "restore", "ready", "idle", "open", "append"}]
    /\ held \in [Thread -> Event \cup {NoFile}]
    /\ fd \in [Thread -> Event \cup {NoFile}]
    /\ batch \in [Proc -> SUBSET Line]
    /\ nowait \in [Proc -> Seq(Event)]
    /\ emitted \subseteq Event /\ returned \subseteq emitted /\ deferred \subseteq Event

Init ==
    /\ dbUp = TRUE /\ outages = 0 /\ db = {}
    /\ lines = [i \in Event |-> {}]
    /\ buffer = NoFile /\ replaying = NoFile
    /\ pc = [t \in Thread |-> IF t[2] = "hook" THEN "off" ELSE "idle"]
    /\ held = [t \in Thread |-> NoFile]
    /\ fd = [t \in Thread |-> NoFile]
    /\ batch = [p \in Proc |-> {}]
    /\ nowait = [p \in Proc |-> <<>>]
    /\ emitted = {} /\ returned = {} /\ deferred = {}

-------------------------------------------------------------------------------
(* The database goes away (locked past the timeout, full disk) and returns. *)

DbFail ==
    /\ dbUp /\ outages < MaxOutages
    /\ dbUp' = FALSE /\ outages' = outages + 1
    /\ UNCHANGED <<db, busFiles, pc, held, fd, batch, nowait,
                   emitted, returned, deferred>>

DbRecover ==
    /\ ~dbUp /\ dbUp' = TRUE
    /\ UNCHANGED <<outages, db, busFiles, pc, held, fd, batch, nowait,
                   emitted, returned, deferred>>

-------------------------------------------------------------------------------
(* Life of a hook process. *)

\* AuditBus.__init__ up to _ensure_schema, which raises when the database is
\* unavailable: such a process never gets a bus and emits nothing.
Start(p) ==
    /\ ~Running(p)
    /\ Overlap \/ \A q \in Proc : ~Running(q)
    /\ dbUp
    /\ Goto(Hook(p), "check")
    /\ UNCHANGED <<dbUp, outages, db, busFiles, held, fd, batch, nowait,
                   emitted, returned, deferred>>

\* The process is gone: descriptors close, the queue and the daemon thread die.
Vanish(p) ==
    /\ pc' = [pc EXCEPT ![Hook(p)] = "off", ![Worker(p)] = "idle"]
    /\ held' = [held EXCEPT ![Hook(p)] = NoFile, ![Worker(p)] = NoFile]
    /\ fd' = [fd EXCEPT ![Hook(p)] = NoFile, ![Worker(p)] = NoFile]
    /\ batch' = [batch EXCEPT ![p] = {}]
    /\ nowait' = [nowait EXCEPT ![p] = <<>>]
    /\ UNCHANGED <<dbUp, outages, db, busFiles, emitted, returned, deferred>>

\* main() returns; the worker is a daemon thread, so nobody waits for it.
Exit(p) == pc[Hook(p)] = "ready" /\ Vanish(p)

Crash(p) == Crashes /\ Running(p) /\ Vanish(p)

-------------------------------------------------------------------------------
(* _replay_buffer_if_needed, one call per step. *)

\* Mutant: nothing is replayed when the bus is built.
CheckBufferNever(p) ==
    /\ pc[Hook(p)] = "check"
    /\ Goto(Hook(p), "ready")
    /\ UNCHANGED <<dbUp, outages, db, busFiles, held, fd, batch, nowait,
                   emitted, returned, deferred>>

CheckBuffer(p) ==
    /\ pc[Hook(p)] = "check"
    /\ Goto(Hook(p), IF buffer = NoFile THEN "ready" ELSE "rename")
    /\ UNCHANGED <<dbUp, outages, db, busFiles, held, fd, batch, nowait,
                   emitted, returned, deferred>>

\* Mutant: the buffer is copied for the replay instead of renamed.
RenameAwayCopies(p) ==
    /\ pc[Hook(p)] = "rename"
    /\ buffer # NoFile
    /\ replaying' = buffer
    /\ Goto(Hook(p), "read")
    /\ UNCHANGED <<dbUp, outages, db, lines, buffer, held, fd, batch, nowait,
                   emitted, returned, deferred>>

\* rename() replaces whatever already has the target's name.
RenameAway(p) ==
    /\ pc[Hook(p)] = "rename"
    /\ buffer # NoFile
    /\ replaying' = buffer /\ buffer' = NoFile
    /\ Goto(Hook(p), "read")
    /\ UNCHANGED <<dbUp, outages, db, lines, held, fd, batch, nowait,
                   emitted, returned, deferred>>

\* Somebody else renamed it since the check: rename and move both raise, out of
\* __init__, and the hook goes on (fails open) without a bus.
RenameFails(p) ==
    /\ pc[Hook(p)] = "rename"
    /\ buffer = NoFile
    /\ Vanish(p)

\* Mutant: lines are replayed without parsing them.
ReadLinesUnparsed(p) ==
    /\ pc[Hook(p)] = "read"
    /\ Goto(Hook(p), "insert")
    /\ batch' = [batch EXCEPT ![p] = Contents(replaying)]
    /\ UNCHANGED <<dbUp, outages, db, busFiles, held, fd, nowait,
                   emitted, returned, deferred>>

\* Mutant: the file is unlinked once read, before the transaction.
ReadLinesUnlinks(p) ==
    /\ pc[Hook(p)] = "read"
    /\ Goto(Hook(p), "insert")
    /\ batch' = [batch EXCEPT ![p] = Contents(replaying)]
    /\ replaying' = NoFile
    /\ UNCHANGED <<dbUp, outages, db, lines, buffer, held, fd, nowait,
                   emitted, returned, deferred>>

\* open and parse every line; a missing file or a bad line is an exception.
ReadLines(p) ==
    /\ pc[Hook(p)] = "read"
    /\ IF replaying = NoFile \/ Torn \in Contents(replaying)
       THEN Goto(Hook(p), "restore") /\ UNCHANGED batch
       ELSE /\ Goto(Hook(p), "insert")
            /\ batch' = [batch EXCEPT ![p] = Contents(replaying)]
    /\ UNCHANGED <<dbUp, outages, db, busFiles, held, fd, nowait,
                   emitted, returned, deferred>>

\* All lines in one transaction; OR IGNORE makes rows already there no error.
InsertBatch(p) ==
    /\ pc[Hook(p)] = "insert"
    /\ IF dbUp
       THEN db' = db \cup batch[p] /\ Goto(Hook(p), "unlink")
       ELSE Goto(Hook(p), "restore") /\ UNCHANGED db
    /\ batch' = [batch EXCEPT ![p] = {}]
    /\ UNCHANGED <<dbUp, outages, busFiles, held, fd, nowait,
                   emitted, returned, deferred>>

Unlink(p) ==
    /\ pc[Hook(p)] = "unlink"
    /\ replaying' = NoFile
    /\ Goto(Hook(p), IF replaying = NoFile THEN "restore" ELSE "ready")
    /\ UNCHANGED <<dbUp, outages, db, lines, buffer, held, fd, batch, nowait,
                   emitted, returned, deferred>>

\* Mutant: a failed replay discards its file.
RestoreDiscards(p) ==
    /\ pc[Hook(p)] = "restore"
    /\ replaying' = NoFile
    /\ Goto(Hook(p), "ready")
    /\ UNCHANGED <<dbUp, outages, db, lines, buffer, held, fd, batch, nowait,
                   emitted, returned, deferred>>

\* The exception path renames the file back over the buffer; a failure of that
\* rename is swallowed.
Restore(p) ==
    /\ pc[Hook(p)] = "restore"
    /\ buffer' = IF replaying = NoFile THEN buffer ELSE replaying
    /\ replaying' = NoFile
    /\ Goto(Hook(p), "ready")
    /\ UNCHANGED <<dbUp, outages, db, lines, held, fd, batch, nowait,
                   emitted, returned, deferred>>

-------------------------------------------------------------------------------
(* Emission. *)

\* The body shared by emit and _emit_safe: one transaction, and on any error
\* the event goes to the buffer.
Write(t, e) ==
    /\ IF dbUp
       THEN db' = db \cup {e} /\ UNCHANGED <<pc, held>>
       ELSE /\ Goto(t, "open")
            /\ held' = [held EXCEPT ![t] = e]
            /\ UNCHANGED db
    /\ UNCHANGED <<dbUp, outages, busFiles, fd, batch>>

\* Mutant: emit goes through the queue like emit_nowait.
EmitQueued(p, e) ==
    /\ pc[Hook(p)] = "ready"
    /\ Fresh(e)
    /\ emitted' = emitted \cup {e} /\ returned' = returned \cup {e}
    /\ nowait' = [nowait EXCEPT ![p] = Append(@, e)]
    /\ UNCHANGED <<dbUp, outages, db, busFiles, pc, held, fd, batch, deferred>>

Emit(p, e) ==
    /\ pc[Hook(p)] = "ready"
    /\ Fresh(e)
    /\ emitted' = emitted \cup {e}
    /\ Write(Hook(p), e)
    /\ returned' = IF dbUp THEN returned \cup {e} ELSE returned
    /\ UNCHANGED <<nowait, deferred>>

\* put_nowait, or the synchronous path when the queue is full.
EmitNowait(p, e) ==
    /\ pc[Hook(p)] = "ready"
    /\ Fresh(e)
    /\ deferred' = deferred \cup {e}
    /\ \/ /\ Len(nowait[p]) < QueueMax
          /\ nowait' = [nowait EXCEPT ![p] = Append(@, e)]
          /\ UNCHANGED <<dbUp, outages, db, busFiles, pc, held, fd, batch>>
       \/ /\ Len(nowait[p]) >= QueueMax
          /\ Write(Hook(p), e)
          /\ UNCHANGED nowait
    /\ UNCHANGED <<emitted, returned>>

\* The worker takes the oldest queued event through _emit_safe.
Drain(p) ==
    /\ pc[Worker(p)] = "idle"
    /\ nowait[p] # <<>>
    /\ nowait' = [nowait EXCEPT ![p] = Tail(@)]
    /\ Write(Worker(p), Head(nowait[p]))
    /\ UNCHANGED <<emitted, returned, deferred>>

\* os.open(buffer_path, O_CREAT | O_APPEND)
OpenBuffer(t) ==
    /\ pc[t] = "open"
    /\ buffer' = IF buffer = NoFile THEN held[t] ELSE buffer
    /\ fd' = [fd EXCEPT ![t] = buffer']
    /\ Goto(t, "append")
    /\ UNCHANGED <<dbUp, outages, db, lines, replaying, held, batch, nowait,
                   emitted, returned, deferred>>

\* What the write leaves in the file: the line, a piece of it or nothing (the exception
\* is swallowed and the event dropped).
Appended(e) == {{e}} \cup (IF TornWrites THEN {{Torn}, {}} ELSE {})

AppendLine(t) ==
    /\ pc[t] = "append"
    /\ \E new \in Appended(held[t]) :
           lines' = [lines EXCEPT ![fd[t]] = @ \cup new]
    /\ returned' = returned \cup ({held[t]} \cap emitted)
    /\ Goto(t, Home(t))
    /\ held' = [held EXCEPT ![t] = NoFile]
    /\ fd' = [fd EXCEPT ![t] = NoFile]
    /\ UNCHANGED <<dbUp, outages, db, buffer, replaying, batch, nowait,
                   emitted, deferred>>

-------------------------------------------------------------------------------

Replayer(p) == \/ CheckBuffer(p) \/ RenameAway(p) \/ RenameFails(p)
               \/ ReadLines(p) \/ InsertBatch(p) \/ Unlink(p) \/ Restore(p)

Next ==
    \/ DbFail
    \/ DbRecover
    \/ \E p \in Proc : Start(p) \/ Exit(p) \/ Crash(p) \/ Replayer(p) \/ Drain(p)
    \/ \E p \in Proc, e \in Event : Emit(p, e) \/ EmitNowait(p, e)
    \/ \E t \in Thread : OpenBuffer(t) \/ AppendLine(t)

Spec == Init /\ [][Next]_vars

\* Hooks keep being invoked, run to their end, and outages end.  Nothing makes
\* a hook emit, and nothing makes the worker run before the process exits.
Fairness ==
    /\ WF_vars(DbRecover)
    /\ WF_vars(\E p \in Proc : Start(p))
    /\ \A p \in Proc : /\ WF_vars(Exit(p))
                       /\ WF_vars(Replayer(p))
                       /\ WF_vars(OpenBuffer(Hook(p)))
                       /\ WF_vars(AppendLine(Hook(p)))

FairSpec == Spec /\ Fairness

-------------------------------------------------------------------------------
(* Properties. *)

OnDisk  == Contents(buffer) \cup Contents(replaying)
InHand  == {held[t] : t \in Thread} \ {NoFile}
Queued  == UNION {{nowait[p][i] : i \in DOMAIN nowait[p]} : p \in Proc}

\* Events taken by emit() that are not recorded but can still be.
Waiting == (returned \cap OnDisk) \ db

\* Every event whose emit() returned is in the database, in the buffer or in the
\* file being replayed (the fallback of emit, _buffer_event_dict and
\* _replay_buffer_if_needed taken together).
NothingLost == returned \subseteq db \cup OnDisk

\* The same for the events of emit_nowait, with the in-memory queue as one more
\* place (emit_nowait and _drain, up to the exit of the hook process).
DeferredKept == deferred \subseteq db \cup OnDisk \cup InHand \cup Queued

\* A file named .replaying always has a hook at work on it: whoever renamed the
\* buffer away removes it or puts it back (_replay_buffer_if_needed).
ReplayOwned ==
    replaying # NoFile =>
        \E p \in Proc : pc[Hook(p)] \in {"read", "insert", "unlink", "restore"}

\* However hooks overlap or die, an event of emit() is recorded before emit()
\* returns as long as the database has never been away.
RecordedWhileDbUp == outages = 0 => returned \subseteq db /\ OnDisk = {}

\* The buffer and the file being replayed are never the same file, whatever the
\* interleaving of renames, opens and restores.
NamesDistinct == buffer # NoFile => buffer # replaying

\* A queued event, or one a thread is about to buffer, is nowhere else: no row,
\* no line and no other thread has it (_drain takes an event off the queue once,
\* and a failed insert leaves no row).
OneCarrier ==
    /\ Queued \cap (db \cup OnDisk \cup InHand) = {}
    /\ InHand \cap (db \cup OnDisk) = {}
    /\ \A t, u \in Thread : held[t] = held[u] /\ held[t] # NoFile => t = u
    /\ \A p \in Proc : \A i, j \in DOMAIN nowait[p] :
           nowait[p][i] = nowait[p][j] => i = j

\* The two: however hooks overlap, die or tear lines, nothing that waits to be
\* recorded is in two places.
CarriersDistinct == NamesDistinct /\ OneCarrier

\* Hook processes that do not overlap or crash implement the abstract log: an
\* event is recorded or kept pending, and is only taken off by recording it.
Log == INSTANCE AuditLog WITH log <- db \cap returned, pending <- Waiting
ImplementsAuditLog == Log!LogSpec

\* Every event emit() took is recorded at last: the buffer is replayed once
\* the database is back ("replayed on recovery").
EventuallyRecorded == \A e \in Event : e \in returned ~> e \in db

\* Every whole line that reached the buffer is recorded at last.
BufferReplayed == \A e \in Event : e \in Contents(buffer) ~> e \in db
===============================================================================
