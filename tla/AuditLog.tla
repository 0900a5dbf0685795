------------------------------- MODULE AuditLog -------------------------------
(***************************************************************************)
(* What the audit bus promises its callers, without hooks, files or a      *)
(* database: an event handed to the bus is either recorded at once or kept *)
(* pending, a pending event is only ever removed by recording it, and      *)
(* nothing leaves the record.  AuditBus.tla is shown to implement this     *)
(* module as long as hook processes do not overlap or crash.               *)
(***************************************************************************)
CONSTANT Event      \* the audit events (one per event_id)

VARIABLES log,      \* the events recorded, for good
          pending   \* the events accepted but not yet recorded

logVars == <<log, pending>>

LogTypeOK == log \subseteq Event /\ pending \subseteq Event

LogInit == log = {} /\ pending = {}

\* The database takes the event immediately.
Record(e) ==
    /\ e \notin log \cup pending
    /\ log' = log \cup {e}
    /\ UNCHANGED pending

\* The database is unavailable: the event waits.
Defer(e) ==
    /\ e \notin log \cup pending
    /\ pending' = pending \cup {e}
    /\ UNCHANGED log

\* Waiting events move, together, into the record.
Replay ==
    \E batch \in SUBSET pending :
        /\ batch # {}
        /\ log' = log \cup batch
        /\ pending' = pending \ batch

LogNext == Replay \/ \E e \in Event : Record(e) \/ Defer(e)

LogSpec == LogInit /\ [][LogNext]_logVars

===============================================================================
