# Verification of the governance plugin

TLA+ models of the governance plugin's core, TLC runs that check them on small
instances, and theorems about them that TLAPS checks. `PROJECT.json` lists for each
definition the lines of `src/` it translates, for each run what it asks, and for each
property a plausible bug of the code (a *mutant*) that the run would find.

Run a check with `tlc -config X.cfg M`, where M is the module the run names, and the
proofs with `tlapm` on each module whose name ends in `Proofs`.

## 1. The system

Claude Code calls the plugin's hooks around every tool call. Each hook is a **process of
its own** that lives for one call; hooks of parallel tool calls run at the same time, and
the host kills a hook that takes too long. So the objects in `singletons.py` live for one
hook only, and all that outlives it is in files under `state/` and in Qdrant:

| state | kept in | written by |
|---|---|---|
| audit log | `audit.db` (SQLite, WAL) | `AuditBus.emit`, its worker thread, the replay |
| fallback buffer | `audit-buffer.json`, while replayed `audit-buffer.replaying` | `_buffer_event_dict`, `_replay_buffer_if_needed` |
| manifest registry | `active-manifests.json`, under a lock per access | `ManifestRegistry` |
| session state, pending gate | `session-state.json`, no lock | `session_start.py`, `track_pending_gate`, `consume_pending_gate` |
| credentials, baselines, quarantine, threats | Qdrant collections | identity lifecycle, behavioral monitor, memory integrity, guardian |

| component | operations | what makes it correct | what is hard |
|---|---|---|---|
| **audit bus** (`audit_bus.py`) | emit, emit_nowait, drain, buffer, replay, query | an event that emit has returned from is recorded once the database is back; no file is left behind | two processes rename, append to and unlink the same buffer; a process dies in the middle; torn lines; a daemon thread |
| **identity lifecycle** (`identity_lifecycle.py`) | provision, authenticate, authorize, rotate, suspend, unsuspend, revoke, throttle, validate_scope | changes of state keep to the table; revocation is final; nothing but a human lifts a restriction | load and upsert of the whole record with no lock; timers; several credentials in a session; Qdrant down |
| **trust broker** (`trust_broker.py`, `manifest.py`) | evaluate_delegation, register, deregister, purge, resolve_manifest | the parent's ceiling and depth hold down the chain; breadth limit per session | parallel Task hooks count before they record; one registry entry per agent, not per task; fail-open |
| **human gates** (`policy_engine.py`, `singletons.py`, `post_tool_metrics.py`, `hitl_api.py`) | open and track, peek, respond, consume, list pending | a gate is answered once, after it was opened, and can be answered | one slot; truncate-and-write without a lock; two hooks far apart in time |
| **policy engine** (`policy_engine.py`), **memory governor** (`memory_governor.py`) | classify tool, evaluate; classify and gate a memory | an agent that was delegated to may do no more than the conductor, and asks a human where it would | the order of the checks, levels and tiers that outbid one another |
| **guardian** (`guardian_agent.py`) | score, gate by autonomy, rate limit, lockdown, execute | at most five suspensions or terminations a minute; lockdown until a human lifts it | its state dies with the hook; the result of an action is not looked at |
| **memory integrity** (`memory_integrity.py`, `memory_integrity_hook.py`) | verify, quarantine, promote, reject | what is blocked is not stored; an entry has one status | upsert and delete are two calls; fail-open |
| **threat detection** (`threat_detection.py`, `pre_tool_security.py`, `post_tool_security.py`) | scan with five detectors, windows, eviction; refuse, warn | what a scan finds stops the call or is reported; a window forgets and never invents | the credential read twice in a scan; detectors, guardian and hook failing apart |
| **behavioral monitor** (`behavioral_monitor.py`) | record, baseline, check | a baseline is that of the samples it has; an outlier is seen | unlocked read-modify-write; a sample is judged by a baseline that contains it |
| **coordination scorer** (`coordination_scorer.py`) | utilization, consecutive lows, synergy, collusion | the thresholds mean what they say | what is counted twice, or is not among the scores asked for |
| dashboard, forensic replay, compliance reporter, configuration | read, merge, count | agree with what is stored | mostly I/O and layout |

**How they interact.** `pre_tool_check` loads the session id, resolves the caller's
manifest in the registry, asks the trust broker about a Task call (whose bus is built first, which raises if the
database is away; it queries the audit
log for its count, registers the target and emits to the bus), then the policy engine
(which may open a human gate). Whatever raises in it lets the call through. `post_tool_metrics` answers the gate, `post_task_cleanup`
deregisters the target. The security hooks scan, score and call the guardian, which
drives the identity lifecycle. Everything emits to the audit bus.

The hazards of each part, with the line where they bite, are in `PROJECT.json`.

## 2. Plan

Written in this order, the most important behaviour first:

1. `AuditBus`, with the abstract log `AuditLog` it implements, and `AuditBusProofs`. *Done.*
2. `IdentityLifecycle` and `IdentityProofs`. *Done.*
3. `Manifest`, `Delegation` and `DelegationProofs`. *Done.*
4. `GatePairing` and `GatePairingProofs`. *Done.*
5. `Guardian`, composed with `IdentityLifecycle`, and `GuardianProofs`. *Done.*
6. `MemoryWrite` (the integrity hook, the pipeline, the quarantine and its review) and
   `MemoryProofs`. *Done.*
7. `PolicyEngine` and `MemoryGovernor`, applied to the running agents of `Delegation`;
   `ThreatDetection` and, with both security hooks, `ToolSecurity`; `BehavioralMonitor`;
   `CoordinationScorer`; and `ToolSecurityProofs`, `TelemetryProofs`. *Done.*
8. Every invariant and action property of the passing runs as a theorem: one carrier of an event
   and the refinement of `AuditLog` in `AuditBusProofs`, restriction and authorize's answer in
   `IdentityProofs`, `GuardRestrains` in `GuardianProofs`, the one-shot gate in
   `GatePairingProofs`, the textbook baseline and both scores in `TelemetryProofs`. *Done.*
9. Left: by TLC's check of `audit_serial` with `TornWrites = TRUE`, hooks one at a time implement
   `AuditLog` with torn lines as well. The proof's invariant contains `NothingLost`, which
   torn lines break; it would have to speak of the whole lines instead.

Each run asks one question of one component or of one composition; properties that share a
hazard are conjuncts of one definition.

No module that proofs are about, or will be, has a RECURSIVE operator.

## 3. What is modelled

### AuditBus

A process `p` has a hook thread and a worker thread (`Worker(p)`). `lines[i]` is inode `i`
of the buffer's directory, `buffer` and `replaying` are the inodes that the two names have,
or `NoFile`; a thread that has the buffer open holds the inode, so an append after a rename
goes where it goes in Unix. Each call on the file system or the database in
`_replay_buffer_if_needed` is an action (`CheckBuffer`, `RenameAway`, `ReadLines`,
`InsertBatch`, `Unlink`, `Restore`), and so are opening and appending in
`_buffer_event_dict` (`TornWrites` lets a write leave a piece of the line, or nothing: the error is
swallowed); `Emit`, `EmitNowait`, `Drain` are the operations. The database is up or
down (`DbFail`, `DbRecover`). Events are told apart by identity alone.

`AuditLog` is what the bus promises: an event accepted is pending or recorded, a pending one
is removed only by recording it, and nothing leaves the record. `ImplementsAuditLog` maps it
to events in the database and events waiting on disk; that they are recorded at last is a
property of its own (`EventuallyRecorded`).

Bounds: `MaxOutages` outages, a fixed set of events (each is emitted once) and of processes
that may run at once; a process that has exited may be started again, as the next hook.
Two processes are enough for every race between replays, and between a replay and an
append; two outages make a replay fail and be repeated.

### IdentityLifecycle

One session; `store[c]` is the payload of the point with id `c`. An operation is a load
(`Begin`, `TimerFires`) and a write by its own action, on the copy that was loaded. A scroll
with limit 1 returns the lowest id. Tokens are identified with ids. `Failures` lets a process
die between, an upsert raise, and a process find Qdrant down for as long as it lives.
Bounds: `MaxCreds` ids; two show every case of a superseded or doubly provisioned
credential. Expiry (`max_ttl`), which no operation but the timer reads, and the audit events
are left out.

### Manifest and Delegation

`Manifest` has the resolution of manifests as functions on records (classification levels
are their indices, pattern lists the sets they match). The five attribution fields, which
`_propagate_human_attribution` copies one by one, are one anchor, so a mix of a parent's and a
child's fields is not told from the parent's.

`Delegation` is a session. A Task hook goes through `Load` (up to the manifest it goes by),
`BuildBroker` (the constructor of its bus, which replays the buffer), `Evaluate` (the broker's checks
with the query of the audit log), `Register` and `Emit`; `Finish` is the cleanup hook. The
hook can lose its way in three places, and each lets the call through with the target unregistered:

- `session-state.json` has been truncated by another hook (`Cut`, `WrittenBack`; `sid` is whether the
  id can be read). A hook that reads no id is *blind* (`seen[h]` is FALSE): it looks in no
  registry and goes by the static manifest (`Effective`), counts nothing (`Counted`), registers under
  a key nobody asks for, and emits for no session. Its static manifest names no session either,
  so under a target with a static manifest the ceiling raises (`Resolvable`).
- The audit database is away when the bus is built: `_ensure_schema` raises (`Raising`). If it
  goes away later, the count is read as none and the event is buffered.
- With `Failures`, the hook is killed or raises anywhere else.

`FailOpen` is the end of such a hook: "Fail-open on any exception". The task it lets start, and
every task below it, is `astray`: nothing registered holds it, it goes by its static
manifest, and no ceiling can be claimed for it. `Governed` is the set of the other running
agents, and `CeilingInherited` and `GateInherited` are about them, beside any number of
astray tasks and failing hooks that use the same registry. `NoneAstray` says there are no
others. `issued` and `late` are delegations recorded and still in the fallback buffer;
`running`, `level`, `granted` and `astray` are the history the properties speak of.

Bounds: tasks of one agent, nesting, delegations recorded. Two hooks: a third adds no kind of
step, and what a hook does wrong it does to one other. The switches choose which of the hard
cases a run includes. No manifest of the runs has a limit of zero, which only the proof of
`OvershootBounded` covers, and the run of it has no outage, in which it claims nothing.

`PolicyDecision` (in `PolicyEngine`) is `evaluate` as a function of a manifest, a tool and its
tier, and `MemoryDecision` (in `MemoryGovernor`) is `classify_and_gate` as a function of a manifest
and the levels whose patterns the content matches. `Delegation` applies both to every governed agent
(`GateInherited`). A manifest's `elevated_destructive` is read by no code; a decision
`human_gate` of the engine is recorded and let through, so what a gate protects is
that it is asked, which is `GatePairing`'s subject.

### Guardian

`Guardian` extends `IdentityLifecycle`: a guard `p` is an actor of the lifecycle that is a hook
process with a guardian (`Start`, `Exit`, which forgets all it remembered). `process_event` is
`Decide`: the matrix (`Score`, `ScoreToAction`), then `Judge` with the autonomy level, the
lockdown and the rate limit in the order of the code, then the load of the operation it calls
for; `Complete` is that operation's write and the entry in the log of actions, `Fail` its
exception. `actions` is the log as the ages of its entries, and `Tick` ages them. The
operator's two commands have the scope or have it not; no hook calls them. `Other` is everyone else who operates on
the session's credentials. The model shows what the names do not say: a lockdown is entered by
an action that is executed all the same, forces SUSPEND on every event, also under ADVISORY, and
ends with its process. `LOG_ONLY` is never the matrix's answer, whose lowest score is 3.

Bounds: `MaxLog` severe actions in the log at once, one more than the limit of two so that it is
exceeded; a window of two ticks; one credential, since a guardian acts on the one that a load
finds. `MASS_ACTION_LIMIT` (5) and `MASS_ACTION_WINDOW` (60 s) are constants; the theorems are for
every value.

### ThreatDetection and ToolSecurity

`ThreatDetection` is what an engine remembers: the tool abuse detector's calls per session,
exactly (`Record`), the order of its sessions with their eviction, `cleanup_session`. A call is its
age, and `EngineTick` ages all of them. `ToolSecurity` is the two hooks around one call:
`Begin`, one action per detector in the order of `scan` (`ScanInjection`, `CheckState`,
`CheckScope`, `ScanTraffic`, `ScanAbuse`), each of which may fail and is then a threat of its own,
`Report` for each threat in any order, `Answer`; `Raise` is an exception outside the
detectors, `Die` a kill. The PostToolUse hook scans a response that `holds` some kinds of
findings (`Respond`), one kind after the other: `ScanResponse` puts down what is there, then
`Dispatch` tells the guardian or `DispatchFails` does not (it cannot be built, or raises before or after it
has acted; the error is caught in `_emit_to_guardian`), and after the last kind `Warn` tells the
model. `ResponseFails` is an exception elsewhere, which ends the hook with no warning.
`CredChanges` is everyone else, between the two readings of the credential. Text
patterns are data: what a text is found to contain is chosen.

What the model shows: every hook makes its own engine, so as long as a hook is a process of its
own the window of a session is the call itself, and neither a flood nor a sequence of calls is ever
found. `ToolSecurity` therefore lets an engine live for many calls, as the class is written for,
and `EngineRestart` is the hook of today. `set_rate_threshold` and `cleanup_session` have no
caller; the exfiltration detector's volumes, kept in the same way, are only reported.

Bounds: three sessions where two are tracked, a threshold of two calls, a window of two ticks,
`MaxMade` calls of a session within it, one more than the threshold.

### BehavioralMonitor

One agent in one metric, by overlapping hooks: `Load` and `Store` (Welford's update and the upsert
of the whole baseline), `Check` against what is stored by then, `End` (the
report, or a failure or kill at any place; a failure of the upsert is among them, and a server that
insists on UUIDs or integers refuses every one, since the id is `baseline-<agent>-<metric>`). Values are integers, and a baseline is its count, its sum and its spread (count times `m2`), so the model is
exact: the code's floating point rounds, and Welford's algorithm is the one chosen to keep that
small. `MinSessions` counts samples, which are tool calls. Distances are compared by their squares
(`Beyond`, `ZToSeverity`).

Since a sample is added first and judged afterwards, among `n` samples none is further off than
the root of `n - 1` deviations: at the tenth, the first that is judged, at most 3, and a critical
one (more than 4) needs the eighteenth. `OutlierCapped` says so, `OutlierHolds` proves
it. Bounds: two hooks, 18 samples of two values, one overwritten.

### CoordinationScorer

Fractions are multiplied out. `ComputeTue` is `compute_tue` up to its verdict, with the
scores that `get_recent_scores` may return (a scroll with a limit returns the first ids, and ids are
random); `ComputeCss` is `compute_css`, with the collusion penalty, for interactions of weight 1.
A process that has found Qdrant unavailable is `blind`. No hook asks for a score. The critical
alert names neither an agent nor a session, so the guardian would find nothing to isolate.
Bounds: a window of two calls of three kept, six scores (one more than is asked for), three interactions.

### MemoryWrite

A write `w` is its own hook process and has its own entry in the quarantine. `pc[w]` goes through
`main` of the hook: `Begin`, `UsePolicy`, `BuildEntry`, the pipeline's stage 1
(`ValidateProvenance`) and stages 2 to 4 (`Verify`, which puts the entry into quarantine), and
`Refuse`; `Call` is the host. `FailOpen` is an exception at any of these places or a kill, and a
stage that cannot reach its service passes (`Visible`). Similarities and distances are what a
write looks suspect of. `skipped[w]` records where checks were left out, and `verdict[w]` what
the pipeline would say with nothing missing. The reviews are those of the dashboard, one at a
time (its handler does not yield between the load and the end): `StartReview` is the
handler up to the load, `Promote`, `Archive` and `Delete` the calls that follow, and `ReviewFails` a failure
of any of them. A write with no content, which the hook lets through without a look, is left out.
So is the guardian, whose part in a refusal is inside a `try` of its own.

Bounds: two writes, which only the revocation and the one dashboard relate; each entry rejected
twice, so that one is archived again after a delete that failed.

### GatePairing

`file` is what a reader of `session-state.json` finds: truncating and writing are two
actions and what is between reads as `{}`. A call `c` passes through its PreToolUse hook
(`OpenGate`, `Track`, `Cut`, `WriteBack`) and its PostToolUse hook (`Peek`, `Consume`, `Cut`,
`WriteBack`, `Respond`). A gate has the name of the call it is for. `Age` makes a gate
older than ten minutes. `Drop` refuses a call after the hook let it through, `Crash` kills a
hook. `Miss` is a PostToolUse hook that ends before its peek: monitor, guardian and scorer, with
their buses and upserts, come first under the same `try`, whose handler is `pass`. It may
happen to any call in every run; no fairness excludes it.

Two simplifications: a gate whose hook gets that far is in the log (what `emit` does without a database,
and with a buffer it cannot write, is in `AuditBus`; with the database away when the hook starts no gate
is opened, since the engine's bus raises), and two overlapping writes leave one of the two texts or
something that reads as `{}`. The manifest hash in the file, which nobody reads, is left out.

## 4. The runs

| run | asks | result |
|---|---|---|
| `audit_serial` | one hook at a time, none killed, two outages: is every event of `emit` kept and recorded at last, no file left behind, `AuditLog` implemented? | holds |
| `audit_faults` | overlap, crashes, torn lines and outages at once: types, `CarriersDistinct` (two names never one inode, one carrier of a waiting event), recorded when `emit` returns as long as the database was up | holds |
| `id_serial` | operations that do not overlap, with failures between load and write: transition table, verification, restriction, authorize's answer | holds |
| `deleg_ceiling` | two hooks that overlap, read no session id, raise or are killed, an outage, static manifests for all, one task per agent: ceiling, depth and attribution (`CeilingInherited`), and what the policy engine and the memory governor answer (`GateInherited`), for every governed agent | holds |
| `deleg_faults` | overlapping and failing hooks, expiry, several tasks of an agent, no outage: by how much is the breadth limit exceeded by what is recorded for the session? | by one with two hooks |
| `guardian` | a guardian and a user on one session, operations one at a time, failures, exits, commands: lockdown on excess, level respected, restriction only tightened, the lifecycle implemented | holds |
| `gate_faults` | calls in parallel, hooks overlapping or killed, calls refused: no response before its gate | holds |
| `gate_serial` | calls in sequence, some refused, some with a PostToolUse hook that ends before its peek: one response, session id kept, the slot never an answered gate; while none was refused or missed, every open gate in the slot; a gate answered at last unless that befell its own call | holds |
| `memory_faults` | hooks that raise, die or find services down, a revocation, reviews that fail half-way: what is stored was judged clean, lawful and is not quarantined (`StoredJudged`), no entry lost or archived twice | holds |
| `tool_security` | one call after the other, detectors, guardian and hook failing, the credential changing in a scan, sessions evicted: is a forbidden or flagged call stopped, does a warning name all that a response holds whatever the guardian does, is the engine's memory true? | holds |
| `telemetry` | two overlapping hooks on a baseline; scores in sequence: exact baseline, capped outliers, when an agent is degraded and a pair in breach | holds |
| `memory_unstamped` | with no failure at all, is every memory verified before it is stored? (memory_integrity_hook.py:5: "FAIL CLOSED on exception") | **no**: without a timestamp the hook raises before it verifies |

The passing runs are as wide as their properties allow. Each of these settings, tried by
hand on the same configuration, makes TLC refute the property:

| property | refuted with | because |
|---|---|---|
| `NothingLost` | `Crashes = TRUE`, one process | a hook dies between rename and unlink, and the next replay renames over `audit-buffer.replaying` |
| `NothingLost` | two processes, `Overlap = TRUE`, no crash | a hook appends to the inode that another's replay has read and unlinks (docs/ADMINISTRATOR.md:15: "Buffer fallback … replayed on recovery") |
| `BufferReplayed` | `FairSpec`, `TornWrites = TRUE` | one torn line keeps the whole buffer from being parsed |
| `ImplementsAuditLog` | `Crashes = TRUE`, or two processes and `Overlap = TRUE` | what is lost in these ways is no longer pending, and not recorded |
| `DeferredKept` | one process, one event | the queue dies with the daemon thread |
| `SupersededRevoked` | `FairSpec`, two credentials, no failure | no code revokes the credential a rotation replaces (identity_lifecycle.py:243: "revoke old within 60s") |
| `RevokeTerminal` | `Concurrent = TRUE` | an operation writes back a copy loaded before the revocation (tests/test_identity_lifecycle.py:188 has it terminal) |
| `BadTokenRevokes` | operations one at a time, no failure | PROVISION to REVOKE is not in the transition table, so `authenticate` writes nothing (tests/test_identity_lifecycle.py:113: "Invalid token should fail and revoke.") |
| `RestrictedUntilCleared` | `Concurrent = TRUE` | an operation writes back a copy loaded before the suspension |
| `AuthorizedIsMonitored` | `Concurrent = TRUE` | the second half of authorize loads again and answers yes whatever state it finds |
| `ReplayOwned` | `Crashes = TRUE`, one process | a file named `.replaying` is left behind |
| `BreadthKept` | one hook at a time, none failing, `MaxOutages = 1` | the count misses what is in the fallback buffer, and is none while the query fails (without the outage it holds) |
| `BreadthKept` | `Overlap = TRUE`, no outage, none failing | both hooks count before either records (docs/HOW-TO-USE.md:55: "the source may not exceed its `max_delegation_count` for the session"); `OvershootBounded` says by how much |
| `NoneAstray` | hooks one at a time, none failing, `MaxOutages = 1` | the broker's bus cannot be built, and the hook fails open |
| `NoneAstray` | `Overlap = TRUE`, no outage, none failing | a hook reads the truncated `session-state.json` and goes by static manifests |
| `AnsweredOnce` | `Parallel` and `Overlap` TRUE, no crash | two PostToolUse hooks peek at the gate before either consumes it (singletons.py:136: "Pop the pending gate record (one-shot)") |
| `PromotionTakes` | `Failures = FALSE`, `SizeChecked = TRUE` | `promote` passes no vector, and the client's default has one dimension: a Qdrant that checks the size refuses it |
| `ReviewFinal` | `Failures = FALSE`, `SizeChecked = FALSE` | `reject` does not look at the status of what it loads |
| `GuardRestrains` | `Concurrent = TRUE` | a throttle writes back the copy it loaded before the session was suspended or revoked |
| `CeilingInherited` | one hook at a time, none failing, `SameAgentTwice` or `Expiry` | the entry that two tasks share goes with the first, or is purged, and with it the attribution (manifest.py:195: "This guarantees attribution flows down the delegation chain") |
| `CeilingInherited` | one hook at a time, manifests `Ghost` | the derived manifest has no tools, so that of `unknown` counts |
| `ToolsCapped` | one hook at a time | the child's `permitted_tools` are those of its static manifest, whatever its parent has |
| `SlotHoldsOpenGate` | `Parallel = TRUE`, hooks one at a time | the second gate takes the slot |
| `SessionIdKept` | `Parallel` and `Overlap` TRUE | a reader sees the truncated file and writes it back |
| `FailsClosed` | `Failures = TRUE` | of the exceptions outside the detectors those of storage and network let the call through (pre_tool_security.py:4 says it fails closed) |
| `NothingOverwritten` | two hooks | both load the baseline before either stores it |
| `DegradedAfterThree` | `telemetry` as it is | the current score has been stored and is counted again (coordination_scorer.py:6: "3 consecutive windows") |

`BufferReplayed`, `ReplayOwned`, `DeferredKept`, `SupersededRevoked`, `RevokeTerminal`, `BadTokenRevokes`,
`BreadthKept`, `ToolsCapped`, `FailsClosed`, `NothingOverwritten`, `DegradedAfterThree`,
`PromotionTakes` and `ReviewFinal` are stated in the modules for this table alone, and `NoneAstray` for it
and its theorem. The one disagreement that needs no failure and no overlap and stores what nobody
judged is a run of its own and a finding; the others are listed here with the sentence of the repository that
each contradicts.

`gate_*`, `deleg_*`, `memory_*` and
`telemetry` say `CHECK_DEADLOCK FALSE`: a session is over
when its calls are made, or its delegations, writes or samples. Symmetry is used for processes, events,
hooks, writes and the sessions of an engine, and not with liveness. The three calls of the gate runs (two of one tool, one of
another) make a gate taken for that of a call of the same or of another tool; three agents
and the fallback `unknown` make a chain of two delegations and a return to an agent of it.

## 5. Fairness

`AuditBus!Fairness`: an outage ends, there is a later hook, the hook thread's replay goes on,
what it has begun to buffer it buffers, and the process exits: straight-line code on a
scheduled thread, in a session that goes on calling tools. Nothing makes a hook emit, and
nothing makes the worker thread run before the process exits. `GatePairing!FairSpec`: a hook
of a call that has begun goes on (`Step`), and `session_start.py` writes what it has
truncated the file for. Nothing is assumed of crashes, outages, refusals or new calls.
That a hook goes on does not say that it succeeds: a PostToolUse hook at its peek may always
end in `Miss`, and `GateAnswered` allows for it. `IdentityLifecycle!FairSpec`, of no run but of the table above: an
operation that has loaded goes on to its write.

## 6. What is proved

`AuditBusProofs`, for every set of processes and events:

- `TypeCorrect`: `Spec => []TypeOK`; the invariant adds that what a thread holds at the step it
  is at (the event to buffer, the open file, the batch) is there.
- `SerialHooksLoseNothing`: if hooks do not overlap, crash or tear lines,
  `Spec => []NothingLost`. `NothingLost` is not inductive: a replay unlinks a file whose lines
  it believes to have inserted. The invariant adds what the thread that is in the replay
  holds (a batch that has been read is the renamed file's content, one that is inserted is in
  the database), that the thread is the only one with a file open, and that no name is left
  behind between hooks.
- `RecordedBeforeOutages`: `Spec => []RecordedWhileDbUp`, whatever overlaps, dies or is torn. As
  long as there was no outage no thread is on its way to the buffer and no file exists
  (`NeverAway`).
- `OneCarrierOnly`: `Spec => []CarriersDistinct`, whatever overlaps, dies or is torn. That an event
  in a queue or in a thread's hand is in no *named* file is not inductive: an unlinked
  inode may still be written to, and a batch read from it be inserted. The invariant (`CarrierInv`)
  has it written in no inode and in no batch at all, and no inode named after an event still
  carried, except by the thread that opened it; so a fresh file cannot be one that has a name.
- `SerialHooksImplementLog`: under the premises of `SerialHooksLoseNothing`,
  `Spec => ImplementsAuditLog`. As nothing is lost, what waits is what has been returned and is
  not in the database, and each step is one of the log's by what it does to these two sets
  (`LogStep`): an emission records or, at its append, defers; a committed batch replays; all else
  stutters. That a recorded event is new to the log is `CarrierInv`.

`IdentityProofs`, for every set of actors, number of credentials, tools and scope:

- `TypeCorrect`.
- `NothingLiveUnverified`: `Spec => []VerifiedOnly`, with any overlap and failure. Since an
  upsert puts a whole copy back, the invariant says of every copy held what `VerifiedOnly`
  says of the store (`Trusted`), that the copy is of a stored credential, and that a rotation
  holds one in MONITOR. Then the only way from PROVISION to a live state is the
  transition of `authenticate`, and a point made by a rotation descends from a verified one.
- `TransitionsFollowTable`: without overlap, `Spec => TransitionsValid`. The invariant adds
  that one actor at most is in an operation (`Alone`) and that its copy is what the
  store holds (`Fresh`), except between the two halves of authorize, which loads
  again. Section 4 has what happens without the premise.
- `YesIsMonitored`, `RestrictionStays`: without overlap, `Spec => AuthorizedIsMonitored` and
  `Spec => RestrictedUntilCleared`. Both speak of what a load would return, the point with the lowest
  id, of a session that may have several. The invariant adds (`InView`) that an operation under way
  holds just that credential, and that between the halves of authorize it is in AUTHORIZE;
  `LoadOverwritten` says that a point written over stays the one seen, and a rotation's new
  point has a higher id. TLC refutes both with `Concurrent = TRUE`.

`DelegationProofs`, for all agents, tools and humans, all static manifests and any finite set
of hooks:

- `TypeCorrect`: the autonomy depth that is decremented is positive when it is.
- `CeilingHolds`: with a static manifest that permits a tool for every agent, one task of each at a
  time and no expiry, `Spec => []CeilingInherited`, whatever hooks overlap, are blind, raise or
  are killed, and in any number of outages. The invariant says of each governed agent
  that its registry entry lies under the conductor's manifest for its level of nesting
  (`EntriesUnder`), and of each hook that has read the session id and whose source is governed
  (`HookPlace`) that the manifest it goes by is that entry, that its target does not
  run yet and has no other hook, and that what it registers is the child of the two. A hook that goes astray
  registers, if anything, under the key of a target that does not run, or of none. `ChildUnder` and the lemmas
  on `Manifest` show that a child lies under the conductor's manifest one level deeper.
- `GatesHold`: under the same premises `Spec => []GateInherited`: where the
  conductor would meet a human gate no governed agent under it is simply allowed, and what such an agent may
  remember the conductor may. The ceiling keeps it under the conductor's
  manifest; the lemma `UnderGated` says that the engine's answer respects that order.
- `EveryoneGoverned`: without overlap, failures and outages, `Spec => []NoneAstray`, so that the two
  theorems are about every running agent. Each of the three is needed (section 4; a kill is a `FailOpen`).
- `BreadthOvershoot`: `Spec => []OvershootBounded`. The invariant counts recorded delegations
  together with the hooks past the check: a hook that passes the check has counted fewer than
  the limit recorded, and all others past it are counted among `Cardinality(Hook) - 1`.

`GuardianProofs`, for all actors and guards, limits and windows, overlapping operations included:

- `GuardsImplementLifecycle`: `GuardSpec => Spec`, step by step: a decision is a load of the
  lifecycle (`DecideLoads`), a completion a write, an exit in the middle an abort. With
  `NothingLiveUnverified` it gives `GuardsKeepVerified`.
- `GuardTypeCorrect`: the log is sorted by age, so that the entries a tick drops are a prefix
  (`AgedLog`).
- `LimitHolds`: `GuardSpec => []LockdownOnExcess`. The entry in the log is made a step later than the
  rate check, so the invariant (`Acting`) says of an operation under way that it has passed
  the check, or that the lockdown is on or lifted.
- `AutonomyHolds`: `GuardSpec => AutonomyRespected`. `Acting` also says that what is under way was
  let through at a level that still holds, and that a throttle never holds a revoked copy,
  which it would otherwise write over a live one.
- `GuardsRestrain`: without overlap, `GuardSpec => GuardRestrains`. `InView` of the lifecycle, which a
  guardian's operation keeps as any other's does, makes the copy it writes back the credential
  the session has; then each decision writes a state that allows no more tools.

`GatePairingProofs`, for every set of calls:

- `TypeCorrect`.
- `ResponseFollowsGate`: `Spec => []ResponseAfterGate` under every fault. The gate
  in the slot, in what a hook has loaded and in what it has peeked is one recorded in the log
  or none (`RecordedOnly`), because tracking comes after recording.
- `NoGateAnsweredTwice`: with hook processes one at a time, `Spec => [](AnsweredOnce /\ SlotIsPending)`,
  for calls in parallel, of which any is refused, and hooks that are killed. The run
  `gate_serial` has calls in sequence only. The invariant (`HookInv`) follows the one hook under way:
  what it peeked at is what the slot holds until it clears it, and neither it nor the slot
  holds an answered gate.
- `SessionKept`: if none is killed either, `Spec => []SessionIdKept`, again for parallel calls: the
  file is empty only between a truncation and its write (`FileWhole`).
- `SerialSlotHoldsGate`: with calls in sequence as well, `Spec => []SlotHoldsOpenGate`; the
  invariant adds that one call at most is under way (`OneCall`) and that, unless a call was refused
  or a PostToolUse hook ended before its peek (`NoneMissed`, which `OpenGateInSlot` has as its premise),
  the only pending gate is in the slot or in the hook of that call (`PendingHeld`). Section 4
  has what happens without each of the premises `~Overlap` and `~Parallel`.

`MemoryProofs`, for every set of writes, whatever fails:

- `TypeCorrect`.
- `StoredIsJudged`: `Spec => []StoredJudged`. Its three parts
  speak of the end of a call only; the invariant (`HookInv`) says of each place in the hook
  which checks have been passed or left out, that an entry in quarantine has a hook past its
  verification, and that a late write implies the revocation.
- `EntriesKept`: `Spec => EntryKept`.
- `RejectedOnce`: `Spec => []ArchivedOnce`. It needs that a rejection past its archive has not
  been counted as undeleted yet (`Bounded`), and that reviews are of entries in the quarantine
  (`Reviewing`).

`ToolSecurityProofs`, for every set of sessions, threshold and window:

- `SecTypeCorrect`.
- `EngineHolds`: `SecSpec => []EngineFaithful`. That the dictionary and the order name the same
  sessions is inductive only with the order having none twice (`OrderInv`), which makes
  its length the number of sessions; that nothing is missing before an eviction needs that the
  sessions met are those tracked as long as they were never too many (`LogInv`). The lemmas say
  that ageing, appending and forgetting keep one list the end of the other.
- `RestrictedHolds`, `AllowedHolds`, `WarningHolds`: `[]RestrictedBlocked`, `[]AllowedIsClean`,
  `[]FindingsWarned`. They speak of the end of a hook; the invariant says of each place in a
  scan what must have been found by then (`ScanInv`: a call forbidden all along has its threat
  after the second reading, unless the hook has failed), of what is let through that every
  threat was given to the guardian (`ThroughInv`), and of each kind the response scan is past that it has been
  put down if it is there, wherever the guardian failed (`FindingInv`).

`TelemetryProofs`, for all integers as values, any hooks, thresholds and windows:

- A small library first. Baselines and scores are sums over the values of a function
  (`MapThenSumSet`), and the library's induction theorems cannot be used; so induction is
  stated over sets: a set of numbers (or of finite subsets) that contains the first and
  the successor of each contains all (`AllNumbers`, `AllSubsets`, from `LeastNumber`). From these: a
  sum exists (`AddsExists`), is an integer (`SumIsInt`), grows by what is added to one
  value (`SumWithMore`) and is monotonic (`SumNoGreater`).

- `WelfordExact`, a lemma: if a baseline has the count, sum and spread of a bag of samples, the
  updated one has those of the bag with the sample added; the division in the update leaves no
  remainder (`DivisionExact`).
- `MonitorTypeCorrect`.
- `StoredIsTextbook`: `Spec => []BaselineOfSamples`, overlap and death included. The invariant
  (`SamplesInv`) says of the stored baseline and of each copy held of which samples it is the
  textbook baseline; `UpdateIsTextbook`, from `WelfordExact` and the sums, is its step.
- `OutlierHolds`: `Spec => []OutlierCapped`, overlap included. A sample's deviation from a baseline
  that contains it is at most the root of `n - 1` (`UpdateCaps`), and later samples only
  loosen that (`CappedStays`); both are polynomial inequalities over the integers,
  split until the solver has them. The invariant (`CapInv`) says of the stored baseline,
  of each copy held and of each baseline judged by which samples it caps, as long as no sample was
  overwritten.
- `CriticalLate`, a lemma: more than four deviations need eighteen samples.

- `TelemetryTypeCorrect`: `TelemetrySpec => []TelemetryTypeOK`, monitor and scorer together.
- `BreachHolds`: `TelemetrySpec => BreachByQuality`. An interaction's quality counts twice, or
  three times if it crosses domains; `ScoreBounds` puts the weighted sum between two and three
  times the sum of qualities, for any numbers of interactions.
- `DegradedHolds`: `TelemetrySpec => DegradedAfterTwo`, with `LowInARow = 3`, the code's constant
  (coordination_scorer.py, `TUE_CONSECUTIVE_WINDOWS`). Counting low scores from the end until the
  first that is not low needs a set with an upper end (`UpperPart`); three in a row where the latest
  is counted twice are two in the store (`ThreeInARow`, `TwoStored`).

Where a theorem has a premise on a fault (`~Overlap`, `~Crashes`, `~TornWrites`, `~Concurrent`,
`~Parallel`), the model includes the fault when it is TRUE; the premise is the setting of the run
that checks the property, or a wider one. The table in section 4 has what goes wrong otherwise. The
theorems need no assumption but the named ones on the constants and the premises
given here.

Only model-checked: `EventuallyRecorded` and `GateAnswered`, since liveness is outside TLAPS's
reach, and the violation of `VerifiedBeforeStored`. The statements kept for the table of
section 4 are refuted there, so there is nothing to prove.

## 7. What is not modelled, and why

- **Audit bus**: the service token, the schema and its migration, redaction, identity
  normalisation, query and export: transformations of data that no property here depends on.
- **Manifests**: loading, hashing and validating YAML.
- **Hooks**: metrics and anomaly events of `post_tool_metrics`, the HTTP server of the
  approvals, output formats.
- **Compliance reporter**: it queries the audit bus and Qdrant, counts and formats. It changes no
  state, and what it counts is what other modules record. (Its evidence is at most a thousand
  events of a type; the period is printed and not asked for.)
- **Dashboard and forensic replay**: all but the review of a quarantined entry reads, merges and
  lays out.
- **Security configuration** and the **collection setup script**: read once, run once by hand.
- **Qdrant client**: connection, names and vector search; what its callers see of it (cached
  availability, a scroll's first ids, a delete that swallows its failure) is in their modules.
- **Behavioral monitor**: the 95th percentile and the summary, which only report. Floating-point
  rounding.
- **Memory pipeline**: similarities and distances are chosen freely.
- The hook of another plugin (`pre_store.py`) and Claude Code itself are outside the
  repository; what they do is a nondeterministic environment here.

A guardian's lockdown and its log of actions die with the hook process (`Exit`); no property
is stated over several hooks, because none holds.
