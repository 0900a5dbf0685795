--------------------------- MODULE DelegationProofs ---------------------------
(***************************************************************************)
(* Theorems about Delegation.tla for any agents, manifests and hooks:      *)
(* types under every switch; the ceiling, the depth budget, the            *)
(* attribution and the gates of governed agents, when every agent has a    *)
(* static manifest and one task at a time, whatever overlaps, fails or is  *)
(* away; that without those every agent is governed; and how far           *)
(* overlapping hooks can exceed the breadth limit.                         *)
(***************************************************************************)
EXTENDS Delegation, FiniteSetTheorems, TLAPS

-------------------------------------------------------------------------------
(* Resolution of manifests. *)

LEMMA DefaultType == DefaultRestrictive \in Manifest
BY DEF DefaultRestrictive, Manifest, TrustLevel, Classification

\* Without a parent: the static manifest or the default one.
LEMMA ResolveAlone ==
    ASSUME NEW static \in Manifest \cup {NoManifest}
    PROVE  /\ ResolveManifest(static, NoManifest) \in Manifest
           /\ static # NoManifest => ResolveManifest(static, NoManifest) = static
           /\ static = NoManifest => ResolveManifest(static, NoManifest) = DefaultRestrictive
BY DefaultType DEF ResolveManifest

\* Under a parent: what the ceiling leaves of the static manifest.
LEMMA CeilingFields ==
    ASSUME NEW static \in Manifest, NEW parent \in Manifest
    PROVE  LET m == EnforceParentCeiling(static, parent)
           IN /\ m \in Resolved
              /\ parent.depth > 0 => m \in Manifest
              /\ m.trust <= parent.trust /\ m.class <= parent.class
              /\ m.depth <= parent.depth - 1
              /\ m.tools = static.tools /\ m.count = static.count
              /\ parent.anchor # NoHuman => m.anchor = parent.anchor
              /\ parent.human => m.human
<1> DEFINE m == EnforceParentCeiling(static, parent)
<1>1. /\ m.trust = Least(static.trust, parent.trust)
      /\ m.class = Least(static.class, parent.class)
      /\ m.tools = static.tools
      /\ m.depth = Least(static.depth, parent.depth - 1)
      /\ m.count = static.count
      /\ m.anchor = Propagate(parent, static.anchor)
      /\ m.human = (static.human \/ parent.human)
  BY DEF EnforceParentCeiling, Manifest
<1>2. /\ Least(static.trust, parent.trust) \in TrustLevel
      /\ Least(static.trust, parent.trust) <= parent.trust
      /\ Least(static.class, parent.class) \in Classification
      /\ Least(static.class, parent.class) <= parent.class
  BY DEF Least, Manifest, TrustLevel, Classification
<1>3. /\ Least(static.depth, parent.depth - 1) \in Nat \cup {-1}
      /\ Least(static.depth, parent.depth - 1) <= parent.depth - 1
      /\ parent.depth > 0 => Least(static.depth, parent.depth - 1) \in Nat
  BY DEF Least, Manifest
<1>4. /\ Propagate(parent, static.anchor) \in Human \cup {NoHuman}
      /\ parent.anchor # NoHuman => Propagate(parent, static.anchor) = parent.anchor
  BY DEF Propagate, Manifest
<1>5. (static.human \/ parent.human) \in BOOLEAN
  OBVIOUS
<1>6. static \in Resolved
  BY DEF Manifest, Resolved
<1>7. m \in Resolved
  BY <1>2, <1>3, <1>4, <1>5, <1>6 DEF EnforceParentCeiling, Resolved
<1>8. parent.depth > 0 => m \in Manifest
  BY <1>2, <1>3, <1>4, <1>5 DEF EnforceParentCeiling, Manifest
<1> HIDE DEF m
<1>9. /\ m.trust <= parent.trust /\ m.class <= parent.class
      /\ m.depth <= parent.depth - 1
      /\ m.tools = static.tools /\ m.count = static.count
      /\ parent.anchor # NoHuman => m.anchor = parent.anchor
      /\ parent.human => m.human
  BY <1>1, <1>2, <1>3, <1>4
<1> QED BY <1>7, <1>8, <1>9 DEF m

\* A derived manifest is one, and permits no tool.
LEMMA DeriveType ==
    ASSUME NEW parent \in Manifest
    PROVE  DeriveChildManifest(parent) \in Manifest /\ DeriveChildManifest(parent).tools = {}
<1>1. /\ Least(parent.trust, 2) \in TrustLevel /\ parent.class \in Classification
      /\ (parent.trust <= 2) \in BOOLEAN
      /\ (IF parent.depth >= 1 THEN parent.depth - 1 ELSE 0) \in Nat
  BY DEF Least, Manifest, TrustLevel
<1>2. Propagate(parent, NoHuman) \in Human \cup {NoHuman}
  BY DEF Propagate, Manifest
<1> QED BY <1>1, <1>2 DEF DeriveChildManifest, Manifest

LEMMA EffectiveType ==
    ASSUME TypeOK, NEW a \in Agent, NEW sees \in BOOLEAN
    PROVE  Effective(a, sees) \in Manifest
<1>1. /\ ResolveManifest(Static[a], NoManifest) \in Manifest
      /\ ResolveManifest(Static[Unknown], NoManifest) \in Manifest
  BY ResolveAlone, StaticAssumption, AgentAssumption
<1>2. registry[a] \in Manifest \cup {NoManifest}
  BY DEF TypeOK
<1> QED BY <1>1, <1>2 DEF Effective

\* A target of a source that has depth left gets a manifest.
LEMMA ChildType ==
    ASSUME TypeOK, NEW h \in Hook, loaded[h].depth > 0
    PROVE  Child(h) \in Manifest
<1>1. /\ loaded[h] \in Manifest /\ loaded[h] # NoManifest
      /\ Static[target[h]] \in Manifest \cup {NoManifest}
  <2>1. loaded[h] \in Manifest /\ target[h] \in Agent
    BY DEF TypeOK
  <2>2. NoManifest \notin Manifest
    BY ManifestAssumption DEF Manifest, Resolved
  <2> QED BY <2>1, <2>2, StaticAssumption
<1>2. CASE Static[target[h]] = NoManifest
  BY <1>1, <1>2, DeriveType DEF Child, ResolveManifest
<1>3. CASE Static[target[h]] # NoManifest
  BY <1>1, <1>3, CeilingFields DEF Child, ResolveManifest
<1> QED BY <1>2, <1>3

-------------------------------------------------------------------------------
(* Type correctness.  That the entry a hook registers is a manifest rests on   *)
(* the depth the hook has checked before.                                      *)

DepthLeft == \A h \in Hook : pc[h] \in {"register", "emit"} => loaded[h].depth > 0

TypeInv == TypeOK /\ DepthLeft

LEMMA TypeInit == Init => TypeInv
<1> SUFFICES ASSUME Init PROVE TypeInv
  OBVIOUS
<1>1. Top \in Manifest
  BY ResolveAlone, StaticAssumption, AgentAssumption DEF Top
<1>2. 0 \in 0..MaxOutages
  BY BoundsAssumption
<1>3. TypeOK
  BY <1>1, <1>2, DefaultType, AgentAssumption DEF Init, TypeOK
<1>4. DepthLeft
  BY DEF Init, DepthLeft
<1> QED BY <1>3, <1>4 DEF TypeInv

\* What a hook leaves when it exits.
LEMMA ExitType ==
    ASSUME TypeInv, NEW h \in Hook, Exit(h)
    PROVE  /\ pc' \in [Hook -> {"idle", "broker", "evaluate", "register", "emit"}]
           /\ source' \in [Hook -> Agent] /\ target' \in [Hook -> Agent]
           /\ seen' \in [Hook -> BOOLEAN] /\ loaded' \in [Hook -> Manifest]
           /\ DepthLeft'
BY DefaultType, AgentAssumption DEF Exit, TypeInv, TypeOK, DepthLeft

LEMMA StartType ==
    ASSUME TypeInv, NEW h \in Hook, StartTask(h)
    PROVE  /\ running' \in [Agent -> Nat] /\ level' \in [Agent -> Nat]
           /\ granted' \in [Agent -> Nat] /\ astray' \subseteq Agent
<1>1. source[h] \in Agent /\ target[h] \in Agent
  BY DEF TypeInv, TypeOK
<1> QED BY <1>1 DEF StartTask, TypeInv, TypeOK

LEMMA TypeNext == TypeInv /\ [Next]_vars => TypeInv'
<1> SUFFICES ASSUME TypeInv, [Next]_vars PROVE TypeInv'
  OBVIOUS
<1> USE DEF TypeInv, TypeOK, DepthLeft, database, hooks, tasks
<1>1. ASSUME NEW h \in Hook, NEW a \in Agent, NEW t \in Agent, Load(h, a, t)
      PROVE  TypeInv'
  <2>1. Effective(a, sid) \in Manifest
    BY EffectiveType
  <2> QED BY <1>1, <2>1 DEF Load
<1>2. ASSUME NEW h \in Hook, Evaluate(h) PROVE TypeInv'
  <2>1. CASE Permitted(h, Counted(h))
    BY <1>2, <2>1 DEF Evaluate, Permitted
  <2>2. CASE ~Permitted(h, Counted(h))
    BY <1>2, <2>2, ExitType DEF Evaluate
  <2> QED BY <2>1, <2>2
<1>3. ASSUME NEW h \in Hook, Register(h) PROVE TypeInv'
  <2>1. Child(h) \in Manifest
    BY <1>3, ChildType DEF Register, Entered
  <2> QED BY <1>3, <2>1 DEF Register, Entered
<1>4. ASSUME NEW h \in Hook, Emit(h) PROVE TypeInv'
  <2>1. issued' \in [Agent -> Nat] /\ late' \in [Agent -> Nat]
    BY <1>4 DEF Emit
  <2>2. /\ running' \in [Agent -> Nat] /\ level' \in [Agent -> Nat]
        /\ granted' \in [Agent -> Nat] /\ astray' \subseteq Agent
    BY <1>4, StartType DEF Emit
  <2>3. Exit(h) /\ UNCHANGED <<sid, registry, stale, dbUp, outages>>
    BY <1>4 DEF Emit
  <2> QED BY <2>1, <2>2, <2>3, ExitType
<1>5. ASSUME NEW h \in Hook, FailOpen(h) PROVE TypeInv'
  <2>1. Exit(h) /\ StartTask(h) /\ UNCHANGED <<sid, registry, stale, dbUp, outages, issued, late>>
    BY <1>5 DEF FailOpen
  <2> QED BY <2>1, ExitType, StartType
<1>6. ASSUME (\E h \in Hook : BuildBroker(h)) \/ Replay PROVE TypeInv'
  <2>1. issued' \in [Agent -> Nat] /\ late' \in [Agent -> Nat]
    BY <1>6 DEF BuildBroker, Replay, Replayed
  <2> QED BY <1>6, <2>1 DEF BuildBroker, Replay
<1>7. ASSUME NEW a \in Agent, Finish(a) PROVE TypeInv'
  <2>1. /\ running' \in [Agent -> Nat] /\ level' \in [Agent -> Nat] /\ astray' \subseteq Agent
        /\ registry' \in [Agent -> Manifest \cup {NoManifest}] /\ stale' \subseteq Agent
    BY <1>7 DEF Finish
  <2>2. UNCHANGED <<sid, dbUp, outages, issued, late, pc, source, target, seen, loaded, granted>>
    BY <1>7 DEF Finish
  <2> QED BY <2>1, <2>2
<1>8. ASSUME NEW a \in Agent, Expire(a) PROVE TypeInv'
  BY <1>8 DEF Expire
<1>9. CASE Purge
  BY <1>9 DEF Purge
<1>10. CASE DbFail
  <2>1. outages' \in 0..MaxOutages
    BY <1>10, BoundsAssumption DEF DbFail
  <2> QED BY <1>10, <2>1 DEF DbFail
<1>11. CASE DbRecover \/ Cut \/ WrittenBack
  BY <1>11 DEF DbRecover, Cut, WrittenBack
<1>12. CASE UNCHANGED vars
  BY <1>12 DEF vars
<1> QED
  BY <1>1, <1>2, <1>3, <1>4, <1>5, <1>6, <1>7, <1>8, <1>9, <1>10, <1>11, <1>12 DEF Next

\* The registry, the hooks and the counts keep their types under every switch; in
\* particular no registered manifest has a negative depth.
THEOREM TypeCorrect == Spec => []TypeOK
<1>1. TypeInv => TypeOK
  BY DEF TypeInv
<1> QED BY TypeInit, TypeNext, <1>1, PTL DEF Spec

-------------------------------------------------------------------------------
(* The ceiling.  What a governed agent goes by is its registry entry, and that *)
(* is under the conductor's manifest because its source's was.  So the         *)
(* invariant says of each hook that its source is running, that it goes by     *)
(* what the hook has loaded if it is governed and the hook is not blind, and   *)
(* that the target is nobody else's.                                           *)

SwitchesOff == AllKnown /\ ~SameAgentTwice /\ ~Expiry

\* m gives no more than the conductor has, at a nesting of l.
Under(m, l) ==
    /\ m.trust <= Top.trust /\ m.class <= Top.class
    /\ l + m.depth <= Top.depth
    /\ Top.anchor # NoHuman => m.anchor = Top.anchor
    /\ Top.human => m.human
    /\ m.tools # {}

EntriesUnder ==
    \A a \in Agent : running[a] > 0 /\ a \notin astray =>
        registry[a] # NoManifest /\ Under(registry[a], level[a])

\* A hook that hands its source's ceiling on.
Handing(h) == seen[h] /\ source[h] \notin astray

HookPlace ==
    \A h \in Hook : Busy(h) =>
        /\ running[source[h]] > 0 /\ running[target[h]] = 0
        /\ Handing(h) => loaded[h] = registry[source[h]]
        /\ pc[h] = "emit" /\ seen[h] => registry[target[h]] = Child(h)
        /\ \A k \in Hook : Busy(k) /\ target[k] = target[h] => k = h

OneTask == running[Conductor] = 1 /\ \A a \in Agent : running[a] <= 1

CeilingInv == stale = {} /\ EntriesUnder /\ HookPlace /\ OneTask

LEMMA NoManifestNotOne == NoManifest \notin Manifest
BY ManifestAssumption DEF Manifest, Resolved

LEMMA CeilingInit == AllKnown /\ Init => CeilingInv
<1> SUFFICES ASSUME AllKnown, Init PROVE CeilingInv
  OBVIOUS
<1>1. Top = Static[Conductor] /\ Top \in Manifest /\ Top.tools # {}
  BY ResolveAlone, StaticAssumption, AgentAssumption DEF Top, AllKnown
<1>2. Top.trust \in Int /\ Top.class \in Int /\ Top.depth \in Nat
  BY <1>1 DEF Manifest, TrustLevel, Classification
<1>3. Under(Top, 0)
  BY <1>1, <1>2 DEF Under
<1>4. EntriesUnder
  BY <1>1, <1>3, NoManifestNotOne, AgentAssumption DEF Init, EntriesUnder
<1> QED BY <1>4, AgentAssumption DEF Init, CeilingInv, HookPlace, OneTask, Busy

\* The manifest a source that is governed gives its target is under the
\* conductor's as well, one level deeper.
LEMMA ChildUnder ==
    ASSUME AllKnown, TypeInv, CeilingInv, NEW h \in Hook, pc[h] \in {"register", "emit"},
           Handing(h)
    PROVE  /\ Child(h) \in Manifest
           /\ Under(Child(h), level[source[h]] + 1)
<1>1. loaded[h].depth > 0 /\ Child(h) \in Manifest
  BY ChildType DEF TypeInv, DepthLeft
<1>2. /\ target[h] \in Agent /\ source[h] \in Agent /\ loaded[h] \in Manifest
      /\ loaded[h] # NoManifest /\ level[source[h]] \in Nat
  BY NoManifestNotOne DEF TypeInv, TypeOK
<1>3. Static[target[h]] \in Manifest /\ Static[target[h]] # NoManifest
  BY <1>2, StaticAssumption DEF AllKnown
<1>4. Child(h) = EnforceParentCeiling(Static[target[h]], loaded[h])
  BY <1>2, <1>3 DEF Child, ResolveManifest
<1>5. Under(loaded[h], level[source[h]])
  BY <1>2 DEF CeilingInv, HookPlace, Handing, EntriesUnder, Busy
<1>6. /\ Child(h).trust <= loaded[h].trust /\ Child(h).class <= loaded[h].class
      /\ Child(h).depth <= loaded[h].depth - 1
      /\ Child(h).tools = Static[target[h]].tools
      /\ loaded[h].anchor # NoHuman => Child(h).anchor = loaded[h].anchor
      /\ loaded[h].human => Child(h).human
  BY <1>2, <1>3, <1>4, CeilingFields
<1>7. /\ Child(h).trust \in Int /\ Child(h).class \in Int /\ Child(h).depth \in Int
      /\ loaded[h].trust \in Int /\ loaded[h].class \in Int /\ loaded[h].depth \in Int
  BY <1>1, <1>2 DEF Manifest, TrustLevel, Classification
<1>8. Top.trust \in Int /\ Top.class \in Int /\ Top.depth \in Int
  <2>1. Top \in Manifest
    BY ResolveAlone, StaticAssumption, AgentAssumption DEF Top
  <2> QED BY <2>1 DEF Manifest, TrustLevel, Classification
<1>9. Child(h).tools # {}
  BY <1>2, <1>6 DEF AllKnown
<1>10. Child(h).trust <= Top.trust /\ Child(h).class <= Top.class
  BY <1>5, <1>6, <1>7, <1>8 DEF Under
<1>11. level[source[h]] + 1 + Child(h).depth <= Top.depth
  BY <1>2, <1>5, <1>6, <1>7, <1>8 DEF Under
<1>12. /\ Top.anchor # NoHuman => Child(h).anchor = Top.anchor
       /\ Top.human => Child(h).human
  BY <1>5, <1>6 DEF Under
<1> QED BY <1>1, <1>9, <1>10, <1>11, <1>12 DEF Under

\* A hook that exits leaves the others where they are.
LEMMA ExitPlace ==
    ASSUME TypeInv, NEW h \in Hook, Exit(h)
    PROVE  /\ ~Busy(h)'
           /\ \A k \in Hook : k # h => /\ pc'[k] = pc[k] /\ source'[k] = source[k]
                                       /\ target'[k] = target[k] /\ loaded'[k] = loaded[k]
                                       /\ seen'[k] = seen[k]
BY DEF Exit, Busy, TypeInv, TypeOK

\* While the registry, the running tasks and their levels stay, so does what
\* governs them.
LEMMA ExitKeeps ==
    ASSUME TypeInv, CeilingInv, NEW h \in Hook, Exit(h),
           UNCHANGED <<registry, stale, running, level, astray>>
    PROVE  CeilingInv'
<1>1. EntriesUnder' /\ OneTask' /\ stale' = {}
  BY DEF CeilingInv, EntriesUnder, OneTask, Under, Top
<1>2. HookPlace'
  BY ExitPlace DEF CeilingInv, HookPlace, Handing, Busy, Child
<1> QED BY <1>1, <1>2 DEF CeilingInv

\* A hook moves on with what it has loaded.
LEMMA MoveKeeps ==
    ASSUME TypeInv, CeilingInv, NEW h \in Hook, Busy(h),
           pc' = [pc EXCEPT ![h] = "evaluate"] \/ pc' = [pc EXCEPT ![h] = "register"],
           UNCHANGED <<registry, stale, source, target, seen, loaded, running, level, astray>>
    PROVE  CeilingInv'
<1>1. pc'[h] \in {"evaluate", "register"} /\ \A k \in Hook : k # h => pc'[k] = pc[k]
  BY DEF TypeInv, TypeOK
<1>2. HookPlace'
  BY <1>1 DEF CeilingInv, HookPlace, Handing, Busy, Child
<1>3. EntriesUnder' /\ OneTask' /\ stale' = {}
  BY DEF CeilingInv, EntriesUnder, OneTask, Under, Top
<1> QED BY <1>2, <1>3 DEF CeilingInv

\* A hook lets its call through: before it has registered, or after.
LEMMA StartKeeps ==
    ASSUME AllKnown, TypeInv, CeilingInv, NEW h \in Hook, Busy(h), Exit(h), StartTask(h),
           UNCHANGED <<registry, stale>>
    PROVE  CeilingInv'
<1> DEFINE t == target[h]
           governed == pc[h] = "emit" /\ seen[h] /\ source[h] \notin astray
<1>1. /\ t \in Agent /\ source[h] \in Agent /\ running[t] = 0 /\ running[source[h]] > 0
      /\ governed => registry[t] = Child(h)
  BY DEF CeilingInv, HookPlace, TypeInv, TypeOK
<1>2. /\ running'[t] = 1 /\ level'[t] = level[source[h]] + 1
      /\ \A a \in Agent : a # t => running'[a] = running[a] /\ level'[a] = level[a]
      /\ t \notin astray' <=> governed
      /\ \A a \in Agent : a # t => (a \in astray' <=> a \in astray)
  BY <1>1 DEF StartTask, TypeInv, TypeOK
<1>3. governed => Under(Child(h), level[source[h]] + 1) /\ Child(h) # NoManifest
  BY ChildUnder, NoManifestNotOne DEF Handing
<1>4. EntriesUnder'
  BY <1>1, <1>2, <1>3 DEF CeilingInv, EntriesUnder, Under, Top
<1>5. OneTask'
  BY <1>1, <1>2, AgentAssumption DEF CeilingInv, OneTask
<1>6. ASSUME NEW k \in Hook, Busy(k)'
      PROVE  k # h /\ Busy(k) /\ target[k] # t /\ source[k] # t
             /\ target[k] \in Agent /\ source[k] \in Agent
  <2>1. k # h /\ Busy(k)
    BY <1>6, ExitPlace DEF Busy
  <2> QED BY <1>1, <2>1 DEF CeilingInv, HookPlace, TypeInv, TypeOK
<1>7. HookPlace'
  BY <1>2, <1>6, ExitPlace DEF CeilingInv, HookPlace, Handing, Busy, Child
<1> QED BY <1>4, <1>5, <1>7 DEF CeilingInv

LEMMA CeilingNext ==
    ASSUME SwitchesOff, TypeInv, CeilingInv, [Next]_vars
    PROVE  CeilingInv'
<1> USE DEF SwitchesOff, database, hooks, tasks
<1>1. ASSUME NEW h \in Hook, NEW a \in Agent, NEW t \in Agent, Load(h, a, t)
      PROVE  CeilingInv'
  <2>1. /\ pc' = [pc EXCEPT ![h] = "broker"]
        /\ source' = [source EXCEPT ![h] = a] /\ target' = [target EXCEPT ![h] = t]
        /\ seen' = [seen EXCEPT ![h] = sid]
        /\ loaded' = [loaded EXCEPT ![h] = Effective(a, sid)]
        /\ running[a] > 0 /\ running[t] = 0 /\ \A k \in Hook : Busy(k) => target[k] # t
        /\ UNCHANGED <<registry, stale, running, level, astray>>
    BY <1>1 DEF Load
  <2>2. sid /\ a \notin astray => Effective(a, sid) = registry[a]
    BY <2>1 DEF Effective, CeilingInv, EntriesUnder, Under
  <2>3. /\ pc'[h] = "broker" /\ source'[h] = a /\ target'[h] = t
        /\ seen'[h] = sid /\ loaded'[h] = Effective(a, sid)
        /\ \A k \in Hook : k # h => /\ pc'[k] = pc[k] /\ source'[k] = source[k]
                                    /\ target'[k] = target[k] /\ loaded'[k] = loaded[k]
                                    /\ seen'[k] = seen[k]
    BY <2>1 DEF TypeInv, TypeOK
  <2>4. HookPlace'
    BY <2>1, <2>2, <2>3 DEF CeilingInv, HookPlace, Handing, Busy, Child
  <2>5. EntriesUnder' /\ OneTask' /\ stale' = {}
    BY <2>1 DEF CeilingInv, EntriesUnder, OneTask, Under, Top
  <2> QED BY <2>4, <2>5 DEF CeilingInv
<1>2. ASSUME NEW h \in Hook, Evaluate(h) PROVE CeilingInv'
  <2>1. Busy(h) /\ UNCHANGED <<registry, stale, running, level, astray>>
    BY <1>2 DEF Evaluate, Busy
  <2>2. CASE Exit(h)
    BY <2>1, <2>2, ExitKeeps
  <2>3. CASE pc' = [pc EXCEPT ![h] = "register"] /\ UNCHANGED <<source, target, seen, loaded>>
    BY <2>1, <2>3, MoveKeeps
  <2> QED BY <1>2, <2>2, <2>3 DEF Evaluate
<1>3. ASSUME NEW h \in Hook, Register(h) PROVE CeilingInv'
  <2>1. /\ pc[h] = "register" /\ pc' = [pc EXCEPT ![h] = "emit"] /\ stale' = {}
        /\ UNCHANGED <<source, target, seen, loaded, running, level, astray>>
    BY <1>3 DEF Register, Entered
  <2>2. Busy(h) /\ running[target[h]] = 0 /\ target[h] \in Agent
    BY <2>1 DEF Busy, CeilingInv, HookPlace, TypeInv, TypeOK
  <2>3. /\ seen[h] => registry'[target[h]] = Child(h)
        /\ \A a \in Agent : a # target[h] => registry'[a] = registry[a]
    BY <1>3, <2>2 DEF Register, Entered, CeilingInv
  <2>4. pc'[h] = "emit" /\ \A k \in Hook : k # h => pc'[k] = pc[k]
    BY <2>1 DEF TypeInv, TypeOK
  <2>5. \A k \in Hook : Busy(k) => source[k] # target[h] /\ source[k] \in Agent
    BY <2>2 DEF CeilingInv, HookPlace, TypeInv, TypeOK
  <2>6. ASSUME NEW k \in Hook, Busy(k)'
        PROVE  /\ running'[source'[k]] > 0 /\ running'[target'[k]] = 0
               /\ Handing(k)' => loaded'[k] = registry'[source'[k]]
               /\ pc'[k] = "emit" /\ seen'[k] => registry'[target'[k]] = Child(k)'
               /\ \A l \in Hook : Busy(l)' /\ target'[l] = target'[k] => l = k
    <3>1. Busy(k) /\ \A l \in Hook : Busy(l)' => Busy(l)
      BY <2>2, <2>4, <2>6 DEF Busy
    <3>2. Child(k)' = Child(k) /\ target[k] \in Agent /\ (Handing(k)' <=> Handing(k))
      BY <2>1 DEF Child, Handing, TypeInv, TypeOK
    <3>3. pc'[k] = "emit" /\ seen[k] => registry'[target[k]] = Child(k)
      BY <2>2, <2>3, <2>4, <3>1, <3>2 DEF CeilingInv, HookPlace
    <3> QED BY <2>1, <2>3, <2>5, <3>1, <3>2, <3>3 DEF CeilingInv, HookPlace
  <2>7. EntriesUnder' /\ OneTask'
    BY <2>1, <2>2, <2>3 DEF CeilingInv, EntriesUnder, OneTask, Under, Top
  <2> QED BY <2>1, <2>6, <2>7 DEF CeilingInv, HookPlace
<1>4. ASSUME NEW h \in Hook, Emit(h) \/ FailOpen(h) PROVE CeilingInv'
  <2>1. /\ Busy(h) /\ Exit(h) /\ UNCHANGED <<registry, stale>>
        /\ StartTask(h) \/ UNCHANGED <<running, level, astray>>
    BY <1>4 DEF Emit, FailOpen, Raising, Busy
  <2> QED BY <2>1, ExitKeeps, StartKeeps
<1>5. ASSUME NEW h \in Hook, BuildBroker(h) PROVE CeilingInv'
  <2>1. /\ Busy(h) /\ pc' = [pc EXCEPT ![h] = "evaluate"]
        /\ UNCHANGED <<registry, stale, source, target, seen, loaded, running, level, astray>>
    BY <1>5 DEF BuildBroker, Busy
  <2> QED BY <2>1, MoveKeeps
<1>6. ASSUME NEW t \in Agent, Finish(t) PROVE CeilingInv'
  <2>1. /\ t # Conductor /\ running[t] = 1
        /\ \A h \in Hook : Busy(h) => source[h] # t
        /\ running' = [running EXCEPT ![t] = @ - 1] /\ level' = [level EXCEPT ![t] = 0]
        /\ astray' = astray \ {t} /\ stale' = {}
        /\ registry' = [registry EXCEPT ![t] = NoManifest] \/ registry' = registry
        /\ UNCHANGED <<pc, source, target, seen, loaded>>
    <3>1. running[t] \in Nat /\ running[t] <= 1 /\ stale = {}
      BY DEF CeilingInv, OneTask, TypeInv, TypeOK
    <3> QED BY <1>6, <3>1 DEF Finish
  <2>2. /\ running'[t] = 0
        /\ \A a \in Agent : a # t => /\ running'[a] = running[a] /\ registry'[a] = registry[a]
                                     /\ level'[a] = level[a] /\ (a \in astray' <=> a \in astray)
    BY <2>1 DEF TypeInv, TypeOK
  <2>3. \A h \in Hook : Busy(h) => target[h] # t /\ target[h] \in Agent /\ source[h] \in Agent
    BY <2>1 DEF CeilingInv, HookPlace, TypeInv, TypeOK
  <2>4. HookPlace'
    BY <2>1, <2>2, <2>3 DEF CeilingInv, HookPlace, Handing, Busy, Child
  <2>5. EntriesUnder' /\ OneTask'
    BY <2>1, <2>2, AgentAssumption DEF CeilingInv, EntriesUnder, OneTask, Under, Top
  <2> QED BY <2>1, <2>4, <2>5 DEF CeilingInv
<1>7. ASSUME NEW a \in Agent, Expire(a) PROVE CeilingInv'
  BY <1>7 DEF Expire
<1>8. CASE Purge
  BY <1>8 DEF Purge, CeilingInv
<1>9. ASSUME UNCHANGED <<registry, stale, pc, source, target, seen, loaded, running, level, astray>>
      PROVE  CeilingInv'
  BY <1>9 DEF CeilingInv, EntriesUnder, HookPlace, Handing, OneTask, Under, Top, Busy, Child
<1>10. CASE Replay \/ DbFail \/ DbRecover \/ Cut \/ WrittenBack \/ UNCHANGED vars
  BY <1>9, <1>10 DEF Replay, DbFail, DbRecover, Cut, WrittenBack, vars
<1> QED
  BY <1>1, <1>2, <1>3, <1>4, <1>5, <1>6, <1>7, <1>8, <1>10 DEF Next

\* What the invariant says of the governed agents.
LEMMA RunningUnder ==
    ASSUME TypeInv, CeilingInv, NEW a \in Governed
    PROVE  /\ a \in Agent /\ Governing(a) \in Manifest /\ level[a] \in Nat
           /\ Under(Governing(a), level[a])
<1>1. a \in Agent /\ running[a] > 0 /\ a \notin astray
  BY DEF Governed
<1>2. Governing(a) = registry[a] /\ Under(Governing(a), level[a])
  BY <1>1 DEF CeilingInv, EntriesUnder, Under, Governing, Effective
<1> QED BY <1>1, <1>2, EffectiveType DEF Governing, TypeInv, TypeOK

LEMMA GovernedUnder ==
    ASSUME TypeInv, CeilingInv
    PROVE  CeilingInherited
<1>1. \A a \in Governed : /\ Governing(a).depth \in Nat /\ level[a] \in Nat
                          /\ Under(Governing(a), level[a])
  BY RunningUnder DEF Manifest
<1>2. Top.depth \in Nat
  <2>1. Top \in Manifest
    BY ResolveAlone, StaticAssumption, AgentAssumption DEF Top
  <2> QED BY <2>1 DEF Manifest
<1> QED
  BY <1>1, <1>2 DEF CeilingInherited, CeilingKept, DepthBudget, AttributionFlows, Under

\* What the policy engine answers, whatever the tool and the tier.
LEMMA PolicyCases ==
    ASSUME NEW m \in Manifest, NEW tool, NEW tier
    PROVE  LET d == PolicyDecision(m, tool, tier).action
               elevated == ClassifyTool(tool) = "elevated" /\ tier = "MAJOR"
           IN /\ d = "human_gate" =>
                    ClassifyTool(tool) # "exempt" /\ (m.depth = 0 \/ m.human \/ elevated)
              /\ d = "allow" =>
                    ClassifyTool(tool) = "exempt" \/ (m.depth > 0 /\ ~m.human /\ ~elevated)
<1>1. m.depth \in Nat
  BY DEF Manifest
<1>2. CASE ClassifyTool(tool) = "exempt"
  <2>1. PolicyDecision(m, tool, tier).action = "allow"
    BY <1>2 DEF PolicyDecision, Decided
  <2> QED BY <1>2, <2>1
<1>3. CASE ClassifyTool(tool) # "exempt" /\ tool \notin m.tools
  <2>1. PolicyDecision(m, tool, tier).action = "deny"
    BY <1>3 DEF PolicyDecision, Decided
  <2> QED BY <2>1
<1>4. CASE ClassifyTool(tool) # "exempt" /\ tool \in m.tools
  <2>1. CASE m.depth <= 0
    BY <1>1, <1>4, <2>1 DEF PolicyDecision, Decided
  <2>2. CASE m.depth > 0 /\ m.human
    BY <1>1, <1>4, <2>2 DEF PolicyDecision, Decided
  <2>3. CASE m.depth > 0 /\ ~m.human
    BY <1>1, <1>4, <2>3 DEF PolicyDecision, Decided
  <2> QED BY <1>1, <2>1, <2>2, <2>3
<1> QED BY <1>2, <1>3, <1>4

\* A manifest under the conductor's is gated where the conductor's is, and stores
\* nothing the conductor's may not.
LEMMA UnderGated ==
    ASSUME NEW m \in Manifest, NEW l \in Nat, Under(m, l), Top \in Manifest
    PROVE  /\ \A tool \in Tool, tier \in ConductorTier :
                 PolicyDecision(Top, tool, tier).action = "human_gate" =>
                    PolicyDecision(m, tool, tier).action # "allow"
           /\ \A matches \in SUBSET Classification :
                 MemoryDecision(m, matches).action = "allow" =>
                    MemoryDecision(Top, matches).action = "allow"
<1>1. /\ Top.human => m.human
      /\ Top.depth = 0 => m.depth = 0
      /\ m.class <= Top.class /\ m.class \in Int /\ Top.class \in Int
  BY DEF Under, Manifest, Classification
<1>2. ASSUME NEW tool \in Tool, NEW tier \in ConductorTier,
             PolicyDecision(Top, tool, tier).action = "human_gate"
      PROVE  PolicyDecision(m, tool, tier).action # "allow"
  BY <1>1, <1>2, PolicyCases
<1>3. ASSUME NEW matches \in SUBSET Classification, MemoryDecision(m, matches).action = "allow"
      PROVE  MemoryDecision(Top, matches).action = "allow"
  <2>1. ClassifyContent(matches) \in Int
    BY DEF ClassifyContent, Public, Internal, Confidential, Restricted
  <2>2. ~(ClassifyContent(matches) > m.class) => ~(ClassifyContent(matches) > Top.class)
    BY <1>1, <2>1
  <2> QED BY <1>3, <2>2 DEF MemoryDecision
<1> QED BY <1>2, <1>3

\* So no delegation turns a call that needs a human into one that is allowed.
LEMMA GovernedGated ==
    ASSUME TypeInv, CeilingInv
    PROVE  GateInherited
<1>1. Top \in Manifest
  BY ResolveAlone, StaticAssumption, AgentAssumption DEF Top
<1> QED BY <1>1, RunningUnder, UnderGated DEF GateInherited

LEMMA CeilingSpec == ASSUME SwitchesOff PROVE Spec => [](TypeInv /\ CeilingInv)
<1>1. Init => TypeInv /\ CeilingInv
  BY TypeInit, CeilingInit DEF SwitchesOff
<1>2. TypeInv /\ CeilingInv /\ [Next]_vars => (TypeInv /\ CeilingInv)'
  BY TypeNext, CeilingNext
<1> QED BY <1>1, <1>2, PTL DEF Spec

\* With static manifests for all, one task per agent, and entries that do not outlive
\* their TTL, no governed agent is above the conductor's trust level or classification,
\* has more depth than is left, or acts for somebody else: however Task hooks interleave,
\* whichever of them are blind or fail open, and whenever the audit database is away.
THEOREM CeilingHolds ==
    ASSUME SwitchesOff
    PROVE  Spec => []CeilingInherited
BY CeilingSpec, GovernedUnder, PTL

\* Under the same conditions, whatever the tiers of the tools and of the task, a call
\* that would need a human's approval at the conductor is not simply allowed to any
\* governed agent, and no governed agent may store what the conductor may not.
THEOREM GatesHold ==
    ASSUME SwitchesOff
    PROVE  Spec => []GateInherited
BY CeilingSpec, GovernedGated, PTL

\* When hooks neither overlap nor fail and the database stays up, no hook is blind or
\* raises, and every running agent is governed: the two theorems speak of all of them.
THEOREM EveryoneGoverned ==
    ASSUME ~Overlap, ~Failures, MaxOutages = 0
    PROVE  Spec => []NoneAstray
<1> DEFINE Calm == sid /\ dbUp /\ NoneAstray
<1>1. Init => Calm
  BY DEF Init, NoneAstray, Busy
<1>2. ASSUME TypeOK, Calm, [Next]_vars PROVE Calm'
  <2> USE DEF NoneAstray, Busy, database, hooks, tasks, TypeOK
  <2>1. ASSUME NEW h \in Hook, NEW a \in Agent, NEW t \in Agent, Load(h, a, t) PROVE Calm'
    BY <1>2, <2>1 DEF Load
  <2>2. ASSUME NEW h \in Hook, BuildBroker(h) \/ Evaluate(h) \/ Register(h) PROVE Calm'
    BY <1>2, <2>2 DEF BuildBroker, Evaluate, Register, Entered, Exit
  <2>3. ASSUME NEW h \in Hook, Emit(h) PROVE Calm'
    BY <1>2, <2>3 DEF Emit, Exit, StartTask
  <2>4. ASSUME NEW h \in Hook, FailOpen(h) PROVE FALSE
    BY <1>2, <2>4 DEF FailOpen, Raising, Resolvable, HasSession
  <2>5. ASSUME NEW a \in Agent, Finish(a) \/ Expire(a) PROVE Calm'
    BY <1>2, <2>5 DEF Finish, Expire
  <2>6. CASE DbFail
    BY <1>2, <2>6 DEF DbFail
  <2>7. CASE Replay \/ Purge \/ DbRecover \/ Cut \/ WrittenBack
    BY <1>2, <2>7 DEF Replay, Purge, DbRecover, Cut, WrittenBack
  <2>8. CASE UNCHANGED vars
    BY <1>2, <2>8 DEF vars
  <2> QED BY <1>2, <2>1, <2>2, <2>3, <2>4, <2>5, <2>6, <2>7, <2>8 DEF Next
<1>3. Calm => NoneAstray
  OBVIOUS
<1> QED BY <1>1, <1>2, <1>3, TypeCorrect, PTL DEF Spec

-------------------------------------------------------------------------------
(* The breadth limit.  What the hooks that have passed the check will still    *)
(* record has to be added to what is recorded; the last of them passed while   *)
(* that was below the limit, and the others are at most all other hooks.       *)
(* (Blind hooks record nothing for the session.)                               *)

Passed(a) == {h \in Hook : pc[h] \in {"register", "emit"} /\ source[h] = a /\ seen[h]}

\* A ceiling leaves the tools and the count of a static manifest, and a derived one
\* has no tools and is replaced.
RegistryCounts ==
    \A a \in Agent : registry[a] # NoManifest =>
        IF Static[a] # NoManifest
        THEN registry[a].tools = Static[a].tools /\ registry[a].count = Static[a].count
        ELSE registry[a].tools = {}

HookCounts == \A h \in Hook : Busy(h) => loaded[h].count = Limit(source[h])

WithinLimit ==
    outages = 0 =>
        /\ dbUp
        /\ \A a \in Agent :
              /\ late[a] = 0
              /\ Limit(a) = 0 => issued[a] = 0 /\ Passed(a) = {}
              /\ issued[a] + Cardinality(Passed(a)) <= Limit(a) + Cardinality(Hook) - 1

BreadthInv == RegistryCounts /\ HookCounts /\ WithinLimit

LEMMA LimitType == ASSUME NEW a \in Agent PROVE Limit(a) \in Nat
<1>1. Static[a] \in Manifest \cup {NoManifest} /\ Static[Unknown] \in Manifest \cup {NoManifest}
  BY StaticAssumption, AgentAssumption
<1> QED BY <1>1 DEF Limit, Manifest

LEMMA HookCount == IsFiniteSet(Hook) /\ Cardinality(Hook) \in Nat \ {0}
<1>1. Cardinality(Hook) \in Nat /\ Cardinality(Hook) # 0
  BY HookAssumption, FS_CardinalityType, FS_EmptySet
<1> QED BY <1>1, HookAssumption

LEMMA PassedCount ==
    ASSUME NEW a
    PROVE  /\ IsFiniteSet(Passed(a))
           /\ Cardinality(Passed(a)) \in Nat /\ Cardinality(Passed(a)) <= Cardinality(Hook)
<1>1. Passed(a) \subseteq Hook
  BY DEF Passed
<1> QED BY <1>1, HookCount, FS_Subset, FS_CardinalityType

\* The limit a hook holds its source to is the one of the property.
LEMMA EffectiveCount ==
    ASSUME TypeOK, RegistryCounts, NEW a \in Agent, NEW sees \in BOOLEAN
    PROVE  Effective(a, sees).count = Limit(a)
<1>1. /\ Static[a] \in Manifest \cup {NoManifest} /\ Static[Unknown] \in Manifest \cup {NoManifest}
      /\ registry[a] \in Manifest \cup {NoManifest}
  BY StaticAssumption, AgentAssumption DEF TypeOK
<1>2. /\ ResolveManifest(Static[Unknown], NoManifest).count =
            IF Static[Unknown] # NoManifest THEN Static[Unknown].count ELSE 0
      /\ ResolveManifest(Static[a], NoManifest).tools =
            IF Static[a] # NoManifest THEN Static[a].tools ELSE {}
      /\ Static[a] # NoManifest => ResolveManifest(Static[a], NoManifest) = Static[a]
  BY <1>1, ResolveAlone DEF DefaultRestrictive
<1>3. CASE ~sees \/ registry[a] = NoManifest
  BY <1>2, <1>3 DEF Effective, Limit
<1>4. CASE sees /\ registry[a] # NoManifest
  <2>1. CASE Static[a] # NoManifest
    BY <1>2, <1>4, <2>1 DEF Effective, Limit, RegistryCounts
  <2>2. CASE Static[a] = NoManifest
    BY <1>2, <1>4, <2>2 DEF Effective, Limit, RegistryCounts
  <2> QED BY <2>1, <2>2
<1> QED BY <1>3, <1>4

LEMMA BreadthInit == Init => BreadthInv
<1> SUFFICES ASSUME Init PROVE BreadthInv
  OBVIOUS
<1>1. /\ Static[Conductor] \in Manifest \cup {NoManifest}
      /\ Static[Conductor] # NoManifest => Top = Static[Conductor]
      /\ Static[Conductor] = NoManifest => Top.tools = {}
  BY ResolveAlone, StaticAssumption, AgentAssumption DEF Top, DefaultRestrictive
<1>2. RegistryCounts
  BY <1>1 DEF Init, RegistryCounts
<1>3. HookCounts
  BY DEF Init, HookCounts, Busy
<1>4. \A a \in Agent : Passed(a) = {}
  BY DEF Init, Passed
<1>5. WithinLimit
  <2>1. Cardinality({}) = 0
    BY FS_EmptySet
  <2>2. ASSUME NEW a \in Agent
        PROVE  issued[a] + Cardinality(Passed(a)) <= Limit(a) + Cardinality(Hook) - 1
    <3>1. issued[a] = 0 /\ Cardinality(Passed(a)) = 0
      BY <1>4, <2>1 DEF Init
    <3> QED BY <3>1, HookCount, LimitType
  <2> QED BY <1>4, <2>2 DEF Init, WithinLimit
<1> QED BY <1>2, <1>3, <1>5 DEF BreadthInv

\* Hooks that go on to no later step, or leave, disturb nothing.
LEMMA FewerPassed ==
    ASSUME TypeInv, BreadthInv, UNCHANGED <<dbUp, outages, issued, late>>,
           \A a \in Agent : Passed(a)' \subseteq Passed(a)
    PROVE  WithinLimit'
<1>1. ASSUME NEW a \in Agent, outages = 0
      PROVE  /\ late[a] = 0
             /\ Limit(a) = 0 => issued[a] = 0 /\ Passed(a)' = {}
             /\ issued[a] + Cardinality(Passed(a)') <= Limit(a) + Cardinality(Hook) - 1
  <2>1. Cardinality(Passed(a)') <= Cardinality(Passed(a)) /\ Cardinality(Passed(a)') \in Nat
    BY PassedCount, FS_Subset, FS_CardinalityType
  <2>2. /\ late[a] = 0 /\ (Limit(a) = 0 => issued[a] = 0 /\ Passed(a) = {})
        /\ issued[a] + Cardinality(Passed(a)) <= Limit(a) + Cardinality(Hook) - 1
    BY <1>1 DEF BreadthInv, WithinLimit
  <2>3. issued[a] \in Nat /\ Limit(a) \in Nat
    BY LimitType DEF TypeInv, TypeOK
  <2> QED BY <2>1, <2>2, <2>3, PassedCount, HookCount
<1>2. \A a \in Agent : Limit(a)' = Limit(a)
  BY DEF Limit
<1> QED BY <1>1, <1>2 DEF BreadthInv, WithinLimit

\* A hook exits without recording.
LEMMA ExitBreadth ==
    ASSUME TypeInv, BreadthInv, NEW h \in Hook, Exit(h),
           UNCHANGED <<dbUp, outages, issued, late, registry>>
    PROVE  BreadthInv'
<1>1. \A a \in Agent : Passed(a)' \subseteq Passed(a)
  BY ExitPlace DEF Passed, Busy
<1>2. HookCounts'
  BY ExitPlace DEF BreadthInv, HookCounts, Busy, Limit
<1>3. RegistryCounts'
  BY DEF BreadthInv, RegistryCounts
<1> QED BY <1>1, <1>2, <1>3, FewerPassed DEF BreadthInv

LEMMA BreadthNext == TypeInv /\ BreadthInv /\ [Next]_vars => BreadthInv'
<1> SUFFICES ASSUME TypeInv, BreadthInv, [Next]_vars PROVE BreadthInv'
  OBVIOUS
<1> USE DEF database, hooks, tasks
<1>1. ASSUME NEW h \in Hook, NEW a \in Agent, NEW t \in Agent, Load(h, a, t)
      PROVE  BreadthInv'
  <2>1. /\ ~Busy(h) /\ pc' = [pc EXCEPT ![h] = "broker"]
        /\ source' = [source EXCEPT ![h] = a]
        /\ seen' = [seen EXCEPT ![h] = sid]
        /\ loaded' = [loaded EXCEPT ![h] = Effective(a, sid)]
        /\ UNCHANGED <<dbUp, outages, issued, late, registry>>
    BY <1>1 DEF Load
  <2>2. /\ pc'[h] = "broker" /\ source'[h] = a /\ loaded'[h] = Effective(a, sid)
        /\ \A k \in Hook : k # h => /\ pc'[k] = pc[k] /\ source'[k] = source[k]
                                    /\ loaded'[k] = loaded[k] /\ seen'[k] = seen[k]
    BY <2>1 DEF TypeInv, TypeOK
  <2>3. \A b \in Agent : Passed(b)' \subseteq Passed(b)
    BY <2>2 DEF Passed
  <2>4. Effective(a, sid).count = Limit(a)
    <3>1. sid \in BOOLEAN
      BY DEF TypeInv, TypeOK
    <3> QED BY <3>1, EffectiveCount DEF TypeInv, BreadthInv
  <2>5. HookCounts'
    BY <2>2, <2>4 DEF BreadthInv, HookCounts, Busy, Limit
  <2>6. RegistryCounts'
    BY <2>1 DEF BreadthInv, RegistryCounts
  <2> QED BY <2>1, <2>3, <2>5, <2>6, FewerPassed DEF BreadthInv
<1>2. ASSUME NEW h \in Hook, Evaluate(h) PROVE BreadthInv'
  <2>1. pc[h] = "evaluate" /\ Busy(h) /\ UNCHANGED <<dbUp, outages, issued, late, registry>>
    BY <1>2 DEF Evaluate, Busy
  <2>2. CASE ~Permitted(h, Counted(h))
    BY <1>2, <2>1, <2>2, ExitBreadth DEF Evaluate
  <2>3. CASE Permitted(h, Counted(h))
    <3> DEFINE s == source[h]
    <3>1. /\ pc' = [pc EXCEPT ![h] = "register"] /\ UNCHANGED <<source, target, seen, loaded>>
          /\ s \in Agent
      BY <1>2, <2>3 DEF Evaluate, TypeInv, TypeOK
    <3>2. pc'[h] = "register" /\ \A k \in Hook : k # h => pc'[k] = pc[k]
      BY <3>1 DEF TypeInv, TypeOK
    <3>3. HookCounts' /\ RegistryCounts'
      BY <2>1, <3>1, <3>2 DEF BreadthInv, HookCounts, RegistryCounts, Busy, Limit
    <3>4. Counted(h) < Limit(s)
      BY <2>1, <2>3 DEF Permitted, BreadthInv, HookCounts
    <3>5. ASSUME NEW a \in Agent, outages = 0
          PROVE  /\ late[a] = 0
                 /\ Limit(a) = 0 => issued[a] = 0 /\ Passed(a)' = {}
                 /\ issued[a] + Cardinality(Passed(a)') <= Limit(a) + Cardinality(Hook) - 1
      <4>1. /\ dbUp /\ late[a] = 0 /\ (Limit(a) = 0 => issued[a] = 0 /\ Passed(a) = {})
            /\ issued[a] + Cardinality(Passed(a)) <= Limit(a) + Cardinality(Hook) - 1
        BY <3>5 DEF BreadthInv, WithinLimit
      <4>2. CASE a # s \/ ~seen[h]
        <5>1. Passed(a)' = Passed(a)
          BY <2>1, <3>1, <3>2, <4>2 DEF Passed
        <5> QED BY <4>1, <5>1
      <4>3. CASE a = s /\ seen[h]
        <5>1. issued[a] < Limit(a)
          BY <3>4, <4>1, <4>3 DEF Counted
        <5>2. issued[a] \in Nat /\ Limit(a) \in Nat
          BY LimitType DEF TypeInv, TypeOK
        <5>3. Cardinality(Passed(a)') <= Cardinality(Hook) /\ Cardinality(Passed(a)') \in Nat
          <6>1. Passed(a)' \subseteq Hook
            BY DEF Passed
          <6> QED BY <6>1, HookCount, FS_Subset, FS_CardinalityType
        <5> QED BY <4>1, <5>1, <5>2, <5>3, HookCount
      <4> QED BY <4>2, <4>3
    <3>6. WithinLimit'
      BY <2>1, <3>5 DEF BreadthInv, WithinLimit, Limit
    <3> QED BY <3>3, <3>6 DEF BreadthInv
  <2> QED BY <2>2, <2>3
<1>3. ASSUME NEW h \in Hook, Register(h) PROVE BreadthInv'
  <2>1. /\ pc[h] = "register" /\ pc' = [pc EXCEPT ![h] = "emit"]
        /\ UNCHANGED <<source, seen, loaded, dbUp, outages, issued, late>>
    BY <1>3 DEF Register, Entered
  <2>2. pc'[h] = "emit" /\ \A k \in Hook : k # h => pc'[k] = pc[k]
    BY <2>1 DEF TypeInv, TypeOK
  <2>3. \A a \in Agent : Passed(a)' \subseteq Passed(a)
    BY <2>1, <2>2 DEF Passed
  <2>4. HookCounts'
    BY <2>1, <2>2 DEF BreadthInv, HookCounts, Busy, Limit
  <2>5. ASSUME NEW a \in Agent, registry'[a] # NoManifest
        PROVE  IF Static[a] # NoManifest
               THEN registry'[a].tools = Static[a].tools /\ registry'[a].count = Static[a].count
               ELSE registry'[a].tools = {}
    <3>1. CASE a # target[h]
      BY <1>3, <2>5, <3>1 DEF Register, Entered, BreadthInv, RegistryCounts
    <3>2. CASE a = target[h] /\ ~seen[h]
      BY <1>3, <2>5, <3>2 DEF Register, Entered, BreadthInv, RegistryCounts
    <3>3. CASE a = target[h] /\ seen[h]
      <4>1. registry'[a] = ResolveManifest(Static[a], loaded[h])
        BY <1>3, <3>3 DEF Register, Entered, Child
      <4>2. /\ loaded[h] \in Manifest /\ loaded[h] # NoManifest
            /\ Static[a] \in Manifest \cup {NoManifest}
        BY NoManifestNotOne, StaticAssumption DEF TypeInv, TypeOK
      <4>3. CASE Static[a] = NoManifest
        BY <4>1, <4>2, <4>3, DeriveType DEF ResolveManifest
      <4>4. CASE Static[a] # NoManifest
        BY <4>1, <4>2, <4>4, CeilingFields DEF ResolveManifest
      <4> QED BY <4>3, <4>4
    <3> QED BY <3>1, <3>2, <3>3
  <2> QED BY <2>1, <2>3, <2>4, <2>5, FewerPassed DEF BreadthInv, RegistryCounts
<1>4. ASSUME NEW h \in Hook, Emit(h) PROVE BreadthInv'
  <2> DEFINE s == source[h]
  <2>1. /\ pc[h] = "emit" /\ Exit(h) /\ UNCHANGED <<registry, dbUp, outages>> /\ s \in Agent
    BY <1>4 DEF Emit, TypeInv, TypeOK
  <2>2. HookCounts' /\ RegistryCounts'
    BY <2>1, ExitPlace DEF BreadthInv, HookCounts, RegistryCounts, Busy, Limit
  <2>3. ASSUME NEW a \in Agent, outages = 0
        PROVE  /\ late'[a] = 0
               /\ Limit(a) = 0 => issued'[a] = 0 /\ Passed(a)' = {}
               /\ issued'[a] + Cardinality(Passed(a)') <= Limit(a) + Cardinality(Hook) - 1
    <3>1. /\ dbUp /\ late[a] = 0 /\ (Limit(a) = 0 => issued[a] = 0 /\ Passed(a) = {})
          /\ issued[a] + Cardinality(Passed(a)) <= Limit(a) + Cardinality(Hook) - 1
      BY <2>3 DEF BreadthInv, WithinLimit
    <3>2. late' = late /\ issued' = IF seen[h] THEN [issued EXCEPT ![s] = @ + 1] ELSE issued
      BY <1>4, <3>1 DEF Emit
    <3>3. CASE a # s \/ ~seen[h]
      <4>1. issued'[a] = issued[a] /\ Passed(a)' = Passed(a)
        BY <2>1, <3>2, <3>3, ExitPlace DEF Passed, Busy, TypeInv, TypeOK
      <4> QED BY <3>1, <3>2, <4>1
    <3>4. CASE a = s /\ seen[h]
      <4>1. issued'[a] = issued[a] + 1 /\ issued[a] \in Nat
        BY <2>1, <3>2, <3>4 DEF TypeInv, TypeOK
      <4>2. h \in Passed(a) /\ Passed(a)' = Passed(a) \ {h}
        BY <2>1, <3>4, ExitPlace DEF Passed, Busy
      <4>3. Cardinality(Passed(a)') = Cardinality(Passed(a)) - 1
        BY <4>2, PassedCount, FS_RemoveElement
      <4> QED BY <3>1, <3>2, <4>1, <4>2, <4>3, PassedCount, HookCount, LimitType
    <3> QED BY <3>3, <3>4
  <2>4. WithinLimit'
    BY <2>1, <2>3 DEF BreadthInv, WithinLimit, Limit
  <2> QED BY <2>2, <2>4 DEF BreadthInv
<1>5. ASSUME NEW h \in Hook, FailOpen(h) PROVE BreadthInv'
  BY <1>5, ExitBreadth DEF FailOpen
<1>6. ASSUME (\E h \in Hook : BuildBroker(h)) \/ Replay PROVE BreadthInv'
  <2>1. /\ UNCHANGED <<source, seen, loaded, dbUp, outages, registry>>
        /\ UNCHANGED <<issued, late>> \/ Replayed
        /\ \A k \in Hook : pc'[k] = pc[k] \/ (pc'[k] = "evaluate" /\ Busy(k))
    BY <1>6 DEF BuildBroker, Replay, Busy, TypeInv, TypeOK
  <2>2. HookCounts' /\ RegistryCounts'
    BY <2>1 DEF BreadthInv, HookCounts, RegistryCounts, Busy, Limit
  <2>3. \A a \in Agent : Passed(a)' \subseteq Passed(a)
    BY <2>1 DEF Passed
  <2>4. CASE outages = 0
    <3>1. \A a \in Agent : late[a] = 0 /\ issued[a] \in Nat
      BY <2>4 DEF BreadthInv, WithinLimit, TypeInv, TypeOK
    <3>2. issued' = issued /\ late' = late
      BY <2>1, <3>1 DEF Replayed, TypeInv, TypeOK
    <3> QED BY <2>1, <2>2, <2>3, <3>2, FewerPassed DEF BreadthInv
  <2>5. CASE outages # 0
    BY <2>1, <2>2, <2>5 DEF BreadthInv, WithinLimit
  <2> QED BY <2>4, <2>5
<1>7. ASSUME UNCHANGED <<pc, source, seen, loaded, dbUp, outages, issued, late>>,
             \A a \in Agent : registry'[a] \in {registry[a], NoManifest}
      PROVE  BreadthInv'
  <2>1. \A a \in Agent : Passed(a)' \subseteq Passed(a)
    BY <1>7 DEF Passed
  <2>2. HookCounts' /\ RegistryCounts'
    BY <1>7 DEF BreadthInv, HookCounts, RegistryCounts, Busy, Limit
  <2> QED BY <1>7, <2>1, <2>2, FewerPassed DEF BreadthInv
<1>8. ASSUME NEW a \in Agent, Finish(a) \/ Expire(a) PROVE BreadthInv'
  <2>1. registry' \in {registry, [registry EXCEPT ![a] = NoManifest]}
    BY <1>8 DEF Finish, Expire
  <2>2. \A b \in Agent : registry'[b] \in {registry[b], NoManifest}
    BY <2>1 DEF TypeInv, TypeOK
  <2> QED BY <1>7, <1>8, <2>2 DEF Finish, Expire
<1>9. CASE Purge
  BY <1>7, <1>9 DEF Purge
<1>10. CASE DbFail \/ DbRecover
  <2>1. outages' # 0
    <3>1. CASE DbFail
      BY <3>1, BoundsAssumption DEF DbFail, TypeInv, TypeOK
    <3>2. CASE DbRecover
      BY <3>2 DEF DbRecover, BreadthInv, WithinLimit
    <3> QED BY <1>10, <3>1, <3>2
  <2> QED
    BY <1>10, <2>1 DEF DbFail, DbRecover, BreadthInv, RegistryCounts, HookCounts, WithinLimit,
       Busy, Limit
<1>11. CASE Cut \/ WrittenBack \/ UNCHANGED vars
  BY <1>7, <1>11 DEF Cut, WrittenBack, vars
<1> QED
  BY <1>1, <1>2, <1>3, <1>4, <1>5, <1>6, <1>8, <1>9, <1>10, <1>11 DEF Next

\* However many hooks overlap, fail or outlive their entries, in a session without an
\* audit outage the delegations recorded for an agent exceed its max_delegation_count
\* by less than the number of hooks that can run at once, and by none if it is zero.
THEOREM BreadthOvershoot == Spec => []OvershootBounded
<1>1. TypeInv /\ BreadthInv => OvershootBounded
  <2> SUFFICES ASSUME TypeInv, BreadthInv, outages = 0, NEW a \in Agent
               PROVE  issued[a] <= IF Limit(a) = 0 THEN 0 ELSE Limit(a) + Cardinality(Hook) - 1
    BY DEF OvershootBounded
  <2>1. /\ Limit(a) = 0 => issued[a] = 0
        /\ issued[a] + Cardinality(Passed(a)) <= Limit(a) + Cardinality(Hook) - 1
    BY DEF BreadthInv, WithinLimit
  <2>2. issued[a] \in Nat /\ Limit(a) \in Nat
    BY LimitType DEF TypeInv, TypeOK
  <2> QED BY <2>1, <2>2, PassedCount, HookCount
<1> QED BY TypeInit, TypeNext, BreadthInit, BreadthNext, <1>1, PTL DEF Spec
===============================================================================
