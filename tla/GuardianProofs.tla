----------------------------- MODULE GuardianProofs -----------------------------
(***************************************************************************)
(* Theorems about Guardian.tla for any actors, guards, limits and windows, *)
(* operations that overlap or fail included: guardians implement the       *)
(* identity lifecycle, so that what is proved of it holds with them, they  *)
(* keep to the rate limit and to their autonomy level, and, when no other  *)
(* operation overlaps theirs, they restrict what they act on.              *)
(***************************************************************************)
EXTENDS Guardian, IdentityProofs, FiniteSetTheorems, SequenceTheorems

-------------------------------------------------------------------------------
(* The log of actions. *)

\* Oldest first.
Sorted(log) == \A i, j \in DOMAIN log : i <= j => log[j] <= log[i]

Age == 0..MassActionWindow - 1

LEMMA FirstCount == \A n \in Nat : IsFiniteSet(1..n) /\ Cardinality(1..n) = n
<1> SUFFICES ASSUME NEW n \in Nat PROVE IsFiniteSet(1..n) /\ Cardinality(1..n) = n
  OBVIOUS
<1>1. IsFiniteSet(1..n) /\ Cardinality(1..n) = IF 1 > n THEN 0 ELSE n - 1 + 1
  <2>1. 1 \in Int /\ n \in Int
    OBVIOUS
  <2> QED BY <2>1, FS_Interval
<1> QED BY <1>1

\* A tick takes away a prefix of a sorted log, and ages what is left.
LEMMA AgedLog ==
    ASSUME NEW log \in Seq(Age), Sorted(log)
    PROVE  Aged(log) \in Seq(Age) /\ Sorted(Aged(log)) /\ Len(Aged(log)) <= Len(log)
<1> DEFINE Old == {i \in DOMAIN log : log[i] + 1 >= MassActionWindow}
           left == Cardinality(Old)
<1>1. Len(log) \in Nat /\ DOMAIN log = 1..Len(log) /\ MassActionWindow \in Nat
      /\ \A i \in 1..Len(log) : log[i] \in Age
  BY LimitAssumption DEF Age
<1>2. IsFiniteSet(1..Len(log)) /\ Cardinality(1..Len(log)) = Len(log)
  BY <1>1, FirstCount
<1>3. IsFiniteSet(Old) /\ left \in Nat /\ left <= Len(log)
  BY <1>1, <1>2, FS_Subset, FS_CardinalityType
<1>4. ASSUME NEW k \in 1..Len(log), k > left PROVE log[k] + 1 < MassActionWindow
  <2>1. SUFFICES ASSUME log[k] + 1 >= MassActionWindow PROVE FALSE
    BY <1>1 DEF Age
  <2>2. 1..k \in SUBSET Old
    <3> SUFFICES ASSUME NEW i \in 1..k PROVE i \in Old
      OBVIOUS
    <3>1. i \in 1..Len(log) /\ log[k] <= log[i] /\ log[k] \in Int /\ log[i] \in Int
      BY <1>1 DEF Sorted, Age
    <3> QED BY <1>1, <2>1, <3>1
  <2>3. Cardinality(1..k) = k
    BY <1>1, FirstCount
  <2>4. Cardinality(1..k) <= left
    BY <1>3, <2>2, FS_Subset
  <2> QED BY <1>3, <1>4, <2>3, <2>4
<1> DEFINE rest == Len(log) - left
           new == [i \in 1..rest |-> log[i + left] + 1]
<1>5. Aged(log) = new
  BY DEF Aged
<1> HIDE DEF left
<1>6. rest \in Nat /\ rest <= Len(log)
  BY <1>1, <1>3
<1>7. ASSUME NEW i \in 1..rest
      PROVE  i + left \in 1..Len(log) /\ i + left > left /\ log[i + left] + 1 \in Age
  <2>1. i + left \in 1..Len(log) /\ i + left > left
    BY <1>1, <1>3
  <2> QED BY <1>1, <1>4, <2>1 DEF Age
<1>8. new \in [1..rest -> Age]
  BY <1>7
<1>9. new \in Seq(Age) /\ Len(new) = rest
  BY <1>6, <1>8, SeqDef, LenProperties
<1>10. Sorted(new)
  <2> SUFFICES ASSUME NEW i \in 1..rest, NEW j \in 1..rest, i <= j PROVE new[j] <= new[i]
    BY DEF Sorted
  <2>1. i + left <= j + left
    BY <1>3, <1>6
  <2>2. log[j + left] <= log[i + left] /\ log[j + left] \in Int /\ log[i + left] \in Int
    BY <1>1, <1>7, <2>1 DEF Sorted, Age
  <2> QED BY <2>2
<1> QED BY <1>5, <1>6, <1>9, <1>10

\* A new entry keeps the log typed and sorted.
LEMMA LongerLog ==
    ASSUME NEW log \in Seq(Age), Sorted(log)
    PROVE  /\ Append(log, 0) \in Seq(Age) /\ Sorted(Append(log, 0))
           /\ Len(Append(log, 0)) = Len(log) + 1
<1>1. 0 \in Age
  BY LimitAssumption DEF Age
<1>2. Append(log, 0) \in Seq(Age) /\ Len(Append(log, 0)) = Len(log) + 1
      /\ \A i \in 1..Len(log) : Append(log, 0)[i] = log[i]
      /\ Append(log, 0)[Len(log) + 1] = 0
  BY <1>1, AppendProperties
<1>3. \A i \in 1..Len(log) : log[i] \in Nat
  BY LimitAssumption DEF Age
<1>4. DOMAIN Append(log, 0) = 1..(Len(log) + 1) /\ Len(log) \in Nat /\ DOMAIN log = 1..Len(log)
  BY <1>2
<1>5. Sorted(Append(log, 0))
  <2> DEFINE new == Append(log, 0)
  <2> HIDE DEF new
  <2> SUFFICES ASSUME NEW i \in 1..(Len(log) + 1), NEW j \in 1..(Len(log) + 1), i <= j
               PROVE  new[j] <= new[i]
    BY <1>4 DEF Sorted, new
  <2>1. CASE j = Len(log) + 1 /\ i = j
    BY <1>2, <2>1 DEF new
  <2>2. CASE j = Len(log) + 1 /\ i # j
    BY <1>2, <1>3, <1>4, <2>2 DEF new
  <2>3. CASE j # Len(log) + 1
    BY <1>2, <1>3, <1>4, <2>3 DEF new, Sorted
  <2> QED BY <2>1, <2>2, <2>3
<1> QED BY <1>2, <1>5

-------------------------------------------------------------------------------
(* Guardians implement the identity lifecycle.                                 *)

\* A decision is a load of the lifecycle, or does nothing to it.
LEMMA DecideLoads ==
    ASSUME NEW p \in Guard, Decide(p)
    PROVE  UNCHANGED vars \/
           /\ MayBegin(p) /\ UNCHANGED armed
           /\ \E name \in {"throttle", "suspend", "revoke"} : LoadFor(p, name, NoCred, TRUE)
<1>1. PICK original \in Originals, known \in BOOLEAN :
          LET d == Judge(p, original) IN
          IF known /\ d.action \in DOMAIN OperationOf
          THEN LoadFor(p, OperationOf[d.action], NoCred, TRUE) /\ UNCHANGED armed
          ELSE UNCHANGED <<vars, actions>>
  BY DEF Decide
<1> DEFINE action == Judge(p, original).action
<1>2. CASE known /\ action \in DOMAIN OperationOf
  <2>1. LoadFor(p, OperationOf[action], NoCred, TRUE) /\ UNCHANGED armed
    BY <1>1, <1>2
  <2> HIDE DEF action
  <2>2. OperationOf[action] \in {"throttle", "suspend", "revoke"}
    BY <1>2 DEF OperationOf
  <2> QED BY <2>1, <2>2 DEF Decide
<1>3. CASE ~(known /\ action \in DOMAIN OperationOf)
  BY <1>1, <1>3
<1> QED BY <1>2, <1>3

LEMMA GuardStep == [GuardNext]_allVars => [Next]_vars
<1> SUFFICES ASSUME [GuardNext]_allVars PROVE [Next]_vars
  OBVIOUS
<1> USE GuardAssumption
<1>1. CASE UNCHANGED allVars \/ Tick
  BY <1>1 DEF allVars, Tick
<1>2. ASSUME NEW a \in Actor, Other(a) PROVE Next
  BY <1>2 DEF Other, Next
<1>3. ASSUME NEW p \in Guard, Start(p) PROVE UNCHANGED vars
  BY <1>3 DEF Start
<1>4. ASSUME NEW p \in Guard, Exit(p) PROVE [Next]_vars
  BY <1>4 DEF Exit, Next
<1>5. ASSUME NEW p \in Guard, Decide(p) PROVE [Next]_vars
  <2>1. CASE UNCHANGED vars
    BY <2>1
  <2>2. CASE ~UNCHANGED vars
    <3>1. /\ MayBegin(p) /\ UNCHANGED armed
          /\ \E name \in {"throttle", "suspend", "revoke"} : LoadFor(p, name, NoCred, TRUE)
      BY <1>5, <2>2, DecideLoads
    <3>2. Begin(p)
      BY <3>1, Zenon DEF Begin
    <3> QED BY <3>2 DEF Next
  <2> QED BY <2>1, <2>2
<1>7. ASSUME NEW p \in Guard, Complete(p) PROVE Next
  BY <1>7 DEF Complete, Next
<1>8. ASSUME NEW p \in Guard, Fail(p) PROVE Next
  BY <1>8 DEF Fail, Next
<1>9. ASSUME NEW p \in Guard, NEW new \in Level, NEW scoped \in BOOLEAN,
             SetAutonomyLevel(p, new, scoped)
      PROVE  UNCHANGED vars
  BY <1>9 DEF SetAutonomyLevel
<1>10. ASSUME NEW p \in Guard, NEW scoped \in BOOLEAN, LiftGlobalLockdown(p, scoped)
       PROVE  UNCHANGED vars
  BY <1>10 DEF LiftGlobalLockdown
<1> QED BY <1>1, <1>2, <1>3, <1>4, <1>5, <1>7, <1>8, <1>9, <1>10, Zenon DEF GuardNext

\* A guardian is one more caller of the identity lifecycle: with any number of
\* them every behaviour is one of the lifecycle.
THEOREM GuardsImplementLifecycle == GuardSpec => ActsThroughIdentity
<1>1. GuardInit => Init
  BY DEF GuardInit
<1> QED BY <1>1, GuardStep, PTL DEF GuardSpec, ActsThroughIdentity, Spec

\* So nothing becomes live unverified by what guardians do, however their
\* operations overlap with others.
THEOREM GuardsKeepVerified == GuardSpec => []VerifiedOnly
BY GuardsImplementLifecycle, NothingLiveUnverified, PTL DEF ActsThroughIdentity

-------------------------------------------------------------------------------
(* Types, the rate limit and the autonomy level.  An operation that is under   *)
(* way has passed the gate and the rate check of the decision it comes from.   *)

GuardType ==
    /\ alive \subseteq Guard
    /\ level \in [Guard -> Level]
    /\ actions \in [Guard -> Seq(Age)]
    /\ lockdown \in [Guard -> BOOLEAN] /\ lifted \in [Guard -> BOOLEAN]

\* An operation of p that is under way was let through.
Acting(p) == op[p] # Idle =>
    /\ op[p].name \in {"throttle", "suspend", "revoke"}
    /\ copy[p].payload.state # "REVOKE"
    /\ level[p] = "ADVISORY" => lockdown[p]
    /\ op[p].name = "revoke" => level[p] = "FULLY_AUTONOMOUS"
    /\ op[p].name # "throttle" /\ Len(actions[p]) >= MassActionLimit => lockdown[p] \/ lifted[p]

InLimit(p) == Len(actions[p]) > MassActionLimit => lockdown[p] \/ lifted[p]

Guarded(p) == Sorted(actions[p]) /\ Acting(p) /\ InLimit(p)

GuardInv == VerifiedInv /\ GuardType /\ \A p \in Guard : Guarded(p)

LEMMA EmptyLog == <<>> \in Seq(Age) /\ Sorted(<<>>) /\ Len(<<>>) = 0
BY DEF Sorted

LEMMA GuardianInit == GuardInit => GuardInv
<1> SUFFICES ASSUME GuardInit PROVE GuardInv
  OBVIOUS
<1>1. Init /\ VerifiedInv
  BY VerifiedInit DEF GuardInit
<1>2. GuardType
  <2>1. ConfigLevel \in Level
    BY GuardAssumption
  <2> QED BY <2>1, EmptyLog DEF GuardInit, GuardType
<1>3. ASSUME NEW p \in Guard PROVE Guarded(p)
  <2>1. actions[p] = <<>> /\ op[p] = Idle
    BY <1>1, <1>3, GuardAssumption DEF GuardInit, Init
  <2> QED BY <2>1, EmptyLog, LimitAssumption DEF Guarded, Acting, InLimit
<1> QED BY <1>1, <1>2, <1>3 DEF GuardInv

\* The other guards are as they were.
LEMMA OthersGuarded ==
    ASSUME NEW p \in Guard, Guarded(p), op'[p] = op[p], copy'[p] = copy[p],
           level'[p] = level[p], actions'[p] = actions[p],
           lockdown'[p] = lockdown[p], lifted'[p] = lifted[p]
    PROVE  Guarded(p)'
BY DEF Guarded, Acting, InLimit

\* A step of the lifecycle by a is none by b.
LEMMA OthersUntouched ==
    ASSUME TypeOK, NEW a \in Actor, NEW b \in Actor, a # b,
           \/ Provision(a) \/ Begin(a) \/ TimerFires(a) \/ Write(a) \/ Abort(a) \/ TimerDies(a)
    PROVE  op'[b] = op[b] /\ copy'[b] = copy[b]
<1> USE DEF TypeOK
<1>1. CASE Provision(a) \/ TimerDies(a)
  BY <1>1 DEF Provision, TimerDies
<1>2. CASE Begin(a) \/ TimerFires(a)
  BY <1>2 DEF Begin, TimerFires, LoadFor
<1>3. CASE Abort(a)
  BY <1>3 DEF Abort, Done
<1>4. CASE Authenticate(a) \/ Authorize(a) \/ Reload(a) \/ Monitor(a) \/ Rotate(a)
  BY <1>4 DEF Authenticate, Authorize, Reload, Monitor, Rotate, Done
<1>5. CASE Suspend(a) \/ Revoke(a) \/ Throttle(a)
  BY <1>5 DEF Suspend, Revoke, Throttle, Done
<1> QED BY <1>1, <1>2, <1>3, <1>4, <1>5 DEF Write

\* An operation of a guardian that completes is one of three, and returns.
LEMMA CompleteReturns ==
    ASSUME GuardInv, NEW p \in Guard, Complete(p)
    PROVE  /\ op[p] # Idle /\ Done(p)
           /\ \/ op[p].name = "suspend" /\ Transition(p, "SUSPEND")
              \/ op[p].name = "revoke" /\ Transition(p, "REVOKE")
              \/ /\ op[p].name = "throttle"
                 /\ Persist(copy[p].id, [copy[p].payload EXCEPT !.throttled = TRUE])
<1>1. Write(p) /\ Guarded(p)
  BY DEF Complete, GuardInv
<1>2. op[p] # Idle
  <2>1. \/ op[p].name \in {"authenticate", "authorize", "reload", "monitor", "rotate"}
        \/ op[p].name \in {"suspend", "unsuspend", "revoke", "throttle"}
    <3>1. CASE Authenticate(p) \/ Authorize(p) \/ Reload(p) \/ Monitor(p) \/ Rotate(p)
      BY <3>1 DEF Authenticate, Authorize, Reload, Monitor, Rotate
    <3>2. CASE Suspend(p) \/ Revoke(p) \/ Throttle(p)
      BY <3>2 DEF Suspend, Revoke, Throttle
    <3> QED BY <1>1, <3>1, <3>2 DEF Write
  <2>2. Idle.name = "idle"
    BY DEF Idle
  <2> QED BY <2>1, <2>2
<1>3. op[p].name \in {"throttle", "suspend", "revoke"}
  BY <1>1, <1>2 DEF Guarded, Acting
<1>4. Suspend(p) \/ Revoke(p) \/ Throttle(p)
  BY <1>1, <1>3 DEF Write, Authenticate, Authorize, Reload, Monitor, Rotate
<1>5. CASE Suspend(p)
  BY <1>2, <1>3, <1>5 DEF Suspend
<1>6. CASE Revoke(p)
  BY <1>2, <1>6 DEF Revoke
<1>7. CASE Throttle(p)
  BY <1>2, <1>7 DEF Throttle
<1> QED BY <1>4, <1>5, <1>6, <1>7

\* What a decision lets through.
LEMMA JudgeFacts ==
    ASSUME GuardInv, NEW p \in Guard, NEW original
    PROVE  LET d == Judge(p, original) IN
           /\ d.lockdown \in BOOLEAN
           /\ lockdown[p] => d.lockdown
           /\ d.action \in Severe /\ RateLimited(p) => d.lockdown
           /\ d.action \in {"THROTTLE", "SUSPEND", "TERMINATE"} /\ level[p] = "ADVISORY" =>
                  lockdown[p]
           /\ d.action = "TERMINATE" => level[p] = "FULLY_AUTONOMOUS"
<1> DEFINE gated == Gate(level[p], original)
           action == IF lockdown[p] THEN "SUSPEND" ELSE gated
           limited == action \in Severe /\ RateLimited(p)
           d == Judge(p, original)
<1>1. /\ d.action = action
      /\ d.lockdown = (lockdown[p] \/ limited)
  BY DEF Judge
<1>2. level[p] \in Level /\ lockdown[p] \in BOOLEAN
  BY DEF GuardInv, GuardType
<1>3. /\ gated \in {"THROTTLE", "SUSPEND", "TERMINATE"} => level[p] # "ADVISORY"
      /\ gated = "TERMINATE" => level[p] = "FULLY_AUTONOMOUS"
  BY <1>2 DEF Gate, Level, Severe
<1> HIDE DEF gated
<1>4. /\ action \in {"THROTTLE", "SUSPEND", "TERMINATE"} /\ level[p] = "ADVISORY" => lockdown[p]
      /\ action = "TERMINATE" => level[p] = "FULLY_AUTONOMOUS"
  BY <1>3
<1> HIDE DEF action, d
<1>5. limited \in BOOLEAN /\ (lockdown[p] \/ limited) \in BOOLEAN
  OBVIOUS
<1> QED BY <1>1, <1>4, <1>5 DEF d

LEMMA DecideGuarded ==
    ASSUME GuardInv, NEW p \in Guard, Decide(p)
    PROVE  GuardType' /\ Guarded(p)' /\ \A b \in Guard : b # p => Guarded(b)'
<1> USE GuardAssumption
<1>0. PICK original \in Originals, known \in BOOLEAN :
          LET d == Judge(p, original) IN
          /\ lockdown' = [lockdown EXCEPT ![p] = d.lockdown]
          /\ lifted' = [lifted EXCEPT ![p] = @ /\ ~(d.action \in Severe /\ RateLimited(p))]
          /\ IF known /\ d.action \in DOMAIN OperationOf
             THEN /\ LoadFor(p, OperationOf[d.action], NoCred, TRUE)
                  /\ IF op'[p] = Idle THEN Logged(p, OperationOf[d.action])
                     ELSE UNCHANGED actions
                  /\ UNCHANGED armed
             ELSE UNCHANGED <<vars, actions>>
  BY DEF Decide
<1>1. PICK d : d = Judge(p, original)
  OBVIOUS
<1>2. /\ d.lockdown \in BOOLEAN
      /\ lockdown[p] => d.lockdown
      /\ d.action \in Severe /\ RateLimited(p) => d.lockdown
      /\ d.action \in {"THROTTLE", "SUSPEND", "TERMINATE"} /\ level[p] = "ADVISORY" =>
             lockdown[p]
      /\ d.action = "TERMINATE" => level[p] = "FULLY_AUTONOMOUS"
  BY <1>1, JudgeFacts
<1>3. /\ lockdown' = [lockdown EXCEPT ![p] = d.lockdown]
      /\ lifted' = [lifted EXCEPT ![p] = @ /\ ~(d.action \in Severe /\ RateLimited(p))]
      /\ UNCHANGED <<alive, level>> /\ op[p] = Idle
  BY <1>0, <1>1 DEF Decide, MayBegin
<1>4. IF known /\ d.action \in DOMAIN OperationOf
      THEN /\ LoadFor(p, OperationOf[d.action], NoCred, TRUE)
           /\ IF op'[p] = Idle THEN Logged(p, OperationOf[d.action]) ELSE UNCHANGED actions
      ELSE UNCHANGED <<vars, actions>>
  BY <1>0, <1>1
<1>5. /\ actions \in [Guard -> Seq(Age)] /\ lockdown \in [Guard -> BOOLEAN]
      /\ lifted \in [Guard -> BOOLEAN] /\ GuardType /\ Guarded(p)
  BY DEF GuardInv, GuardType
<1>6. /\ lockdown'[p] = d.lockdown
      /\ lifted'[p] = (lifted[p] /\ ~(d.action \in Severe /\ RateLimited(p)))
      /\ lockdown' \in [Guard -> BOOLEAN] /\ lifted' \in [Guard -> BOOLEAN]
  BY <1>2, <1>3, <1>5
\* Either way lockdown or lifted is kept.
<1>8. lockdown[p] \/ lifted[p] => lockdown'[p] \/ lifted'[p]
  BY <1>2, <1>6
<1>9. d.action \in Severe /\ Len(actions[p]) >= MassActionLimit => lockdown'[p]
  BY <1>2, <1>6 DEF RateLimited
<1>10. ASSUME NEW b \in Guard, b # p
       PROVE  /\ op'[b] = op[b] /\ copy'[b] = copy[b] /\ actions'[b] = actions[b]
              /\ lockdown'[b] = lockdown[b] /\ lifted'[b] = lifted[b]
  <2>1. op'[b] = op[b] /\ copy'[b] = copy[b]
    <3>1. CASE UNCHANGED vars
      BY <3>1 DEF vars
    <3>2. CASE \E name \in {"throttle", "suspend", "revoke"} : LoadFor(p, name, NoCred, TRUE)
      BY <1>10, <3>2 DEF LoadFor, GuardInv, VerifiedInv, TypeOK
    <3> QED BY <3>1, <3>2, DecideLoads
  <2>2. actions'[b] = actions[b]
    BY <1>4, <1>5, <1>10 DEF Logged
  <2> QED BY <1>3, <1>5, <1>10, <2>1, <2>2
<1>11. \A b \in Guard : b # p => Guarded(b)'
  BY <1>3, <1>10, OthersGuarded DEF GuardInv
<1>12. CASE ~(known /\ d.action \in DOMAIN OperationOf)
  <2>1. UNCHANGED <<vars, actions>>
    BY <1>4, <1>12
  <2>2. op'[p] = Idle /\ actions' = actions
    BY <1>3, <2>1 DEF vars
  <2>3. Guarded(p)'
    BY <1>5, <1>8, <2>2 DEF Guarded, Acting, InLimit
  <2> QED BY <1>3, <1>5, <1>6, <1>11, <2>2, <2>3 DEF GuardType
<1>13. CASE known /\ d.action \in DOMAIN OperationOf
  <2>1. PICK name : name = OperationOf[d.action]
    OBVIOUS
  <2>2. /\ LoadFor(p, name, NoCred, TRUE)
        /\ IF op'[p] = Idle THEN Logged(p, name) ELSE UNCHANGED actions
    BY <1>4, <1>13, <2>1
  <2>3. /\ name \in {"throttle", "suspend", "revoke"}
        /\ name # "throttle" => d.action \in Severe
        /\ name = "revoke" => d.action = "TERMINATE"
        /\ d.action \in {"THROTTLE", "SUSPEND", "TERMINATE"}
    BY <1>13, <2>1 DEF OperationOf, Severe
  <2>4. PICK seen \in Seen :
            IF Proceeds(name, seen.payload.state)
            THEN /\ op' = [op EXCEPT ![p] = [name |-> name, token |-> NoCred, ok |-> TRUE]]
                 /\ copy' = [copy EXCEPT ![p] = seen]
            ELSE UNCHANGED <<op, copy>>
    BY <2>2 DEF LoadFor
  <2>5. CASE Proceeds(name, seen.payload.state)
    <3>1. PICK held \in Pending :
              held = [name |-> name, token |-> NoCred, ok |-> TRUE] /\ held.name = name
      <4>1. [name |-> name, token |-> NoCred, ok |-> TRUE] \in Pending
        BY <2>3 DEF Pending, Operations
      <4> QED BY <4>1
    <3>2. op'[p] = held /\ copy'[p] = seen
      BY <2>4, <2>5, <3>1 DEF GuardInv, VerifiedInv, TypeOK
    <3>3. held # Idle
      BY <2>3, <3>1 DEF Idle
    <3>4. seen.payload.state # "REVOKE"
      BY <2>3, <2>5 DEF Proceeds
    <3>5. actions' = actions
      BY <2>2, <3>2, <3>3
    <3>6. Acting(p)'
      <4>1. /\ op'[p].name = name /\ level' = level /\ copy'[p].payload.state # "REVOKE"
            /\ actions' = actions
        BY <1>3, <3>1, <3>2, <3>4, <3>5
      <4>2. level[p] = "ADVISORY" => lockdown'[p]
        BY <1>2, <1>6, <2>3
      <4>3. name = "revoke" => level[p] = "FULLY_AUTONOMOUS"
        BY <1>2, <2>3
      <4>4. name # "throttle" /\ Len(actions[p]) >= MassActionLimit => lockdown'[p]
        BY <1>9, <2>3
      <4> QED BY <2>3, <4>1, <4>2, <4>3, <4>4 DEF Acting
    <3>7. Guarded(p)'
      BY <1>5, <1>8, <3>5, <3>6 DEF Guarded, InLimit
    <3> QED BY <1>3, <1>5, <1>6, <1>11, <3>5, <3>7 DEF GuardType
  <2>6. CASE ~Proceeds(name, seen.payload.state)
    <3>1. op'[p] = Idle /\ Logged(p, name)
      BY <1>3, <2>2, <2>4, <2>6
    <3>2. actions[p] \in Seq(Age) /\ Sorted(actions[p]) /\ Len(actions[p]) \in Nat
      BY <1>5 DEF Guarded
    <3>3. /\ actions' \in [Guard -> Seq(Age)]
          /\ actions'[p] = IF name = "throttle" THEN actions[p] ELSE Append(actions[p], 0)
      BY <1>5, <3>1, <3>2, LongerLog DEF Logged
    <3>4. Sorted(actions'[p])
      BY <3>2, <3>3, LongerLog
    <3>5. Len(actions'[p]) > MassActionLimit => lockdown'[p] \/ lifted'[p]
      <4>1. CASE name = "throttle"
        BY <1>5, <1>8, <3>3, <4>1 DEF Guarded, InLimit
      <4>2. CASE name # "throttle"
        <5>1. Len(actions'[p]) = Len(actions[p]) + 1
          BY <3>2, <3>3, <4>2, LongerLog
        <5> QED BY <1>9, <2>3, <3>2, <4>2, <5>1, LimitAssumption
      <4> QED BY <4>1, <4>2
    <3>6. Guarded(p)'
      BY <3>1, <3>4, <3>5 DEF Guarded, Acting, InLimit
    <3> QED BY <1>3, <1>5, <1>6, <1>11, <3>3, <3>6 DEF GuardType
  <2> QED BY <2>5, <2>6
<1> QED BY <1>12, <1>13

\* The guard's own variables keep theirs for everyone but p, who is idle now.
LEMMA IdleGuarded ==
    ASSUME GuardInv, NEW p \in Guard, op'[p] = Idle, GuardType',
           Sorted(actions'[p]), InLimit(p)',
           \A b \in Guard : b # p =>
               /\ op'[b] = op[b] /\ copy'[b] = copy[b] /\ level'[b] = level[b]
               /\ actions'[b] = actions[b] /\ lockdown'[b] = lockdown[b] /\ lifted'[b] = lifted[b]
    PROVE  GuardType' /\ \A b \in Guard : Guarded(b)'
<1>1. Guarded(p)'
  BY DEF Guarded, Acting
<1>2. ASSUME NEW b \in Guard, b # p PROVE Guarded(b)'
  BY <1>2, OthersGuarded DEF GuardInv
<1> QED BY <1>1, <1>2

LEMMA GuardianNext == GuardInv /\ [GuardNext]_allVars => GuardInv'
<1> SUFFICES ASSUME GuardInv, [GuardNext]_allVars PROVE GuardType' /\ \A b \in Guard : Guarded(b)'
  BY GuardStep, VerifiedNext DEF GuardInv
<1> USE GuardAssumption
<1>0. /\ GuardType /\ TypeOK /\ \A b \in Guard : Guarded(b)
      /\ \A b \in Guard : actions[b] \in Seq(Age) /\ Sorted(actions[b]) /\ Len(actions[b]) \in Nat
  BY DEF GuardInv, VerifiedInv, GuardType, Guarded
<1>1. CASE UNCHANGED allVars
  BY <1>0, <1>1 DEF allVars, guardVars, vars, GuardType, Guarded, Acting, InLimit
<1>2. CASE Tick
  <2>1. UNCHANGED <<op, copy, alive, level, lockdown, lifted>>
        /\ actions' = [p \in Guard |-> Aged(actions[p])]
    BY <1>2 DEF Tick, vars
  <2>2. \A b \in Guard : /\ actions'[b] = Aged(actions[b]) /\ Aged(actions[b]) \in Seq(Age)
                         /\ Sorted(Aged(actions[b])) /\ Len(Aged(actions[b])) <= Len(actions[b])
    BY <1>0, <2>1, AgedLog
  <2>3. GuardType'
    BY <1>0, <2>1, <2>2 DEF GuardType
  <2>4. ASSUME NEW b \in Guard PROVE Guarded(b)'
    <3>1. Len(actions'[b]) \in Nat /\ Len(actions'[b]) <= Len(actions[b]) /\ Sorted(actions'[b])
      BY <2>2
    <3> QED BY <1>0, <2>1, <3>1, LimitAssumption DEF Guarded, Acting, InLimit
  <2> QED BY <2>3, <2>4
<1>3. ASSUME NEW a \in Actor, Other(a) PROVE GuardType' /\ \A b \in Guard : Guarded(b)'
  <2>1. UNCHANGED guardVars /\ \A b \in Guard : op'[b] = op[b] /\ copy'[b] = copy[b]
    BY <1>0, <1>3, OthersUntouched DEF Other
  <2>2. UNCHANGED <<alive, level, actions, lockdown, lifted>>
    BY <2>1 DEF guardVars
  <2> QED BY <1>0, <2>1, <2>2, OthersGuarded DEF GuardType
<1>4. ASSUME NEW p \in Guard, Start(p) PROVE GuardType' /\ \A b \in Guard : Guarded(b)'
  <2>1. UNCHANGED <<op, copy, level, actions, lockdown, lifted>> /\ alive' \subseteq Guard
    BY <1>0, <1>4 DEF Start, vars, GuardType
  <2> QED BY <1>0, <2>1, OthersGuarded DEF GuardType
<1>5. ASSUME NEW p \in Guard, Exit(p) PROVE GuardType' /\ \A b \in Guard : Guarded(b)'
  <2>1. op'[p] = Idle /\ \A b \in Guard : b # p => op'[b] = op[b] /\ copy'[b] = copy[b]
    <3>1. CASE UNCHANGED vars /\ op[p] = Idle
      BY <3>1 DEF vars
    <3>2. CASE Abort(p)
      BY <1>0, <3>2 DEF Abort, Done, TypeOK
    <3> QED BY <1>5, <3>1, <3>2 DEF Exit
  <2>2. /\ alive' = alive \ {p} /\ level' = [level EXCEPT ![p] = ConfigLevel]
        /\ actions' = [actions EXCEPT ![p] = <<>>]
        /\ lockdown' = [lockdown EXCEPT ![p] = FALSE] /\ lifted' = [lifted EXCEPT ![p] = FALSE]
    BY <1>5 DEF Exit
  <2>3. GuardType'
    <3> QED BY <1>0, <2>2, EmptyLog DEF GuardType
  <2>4. actions'[p] = <<>> /\ \A b \in Guard : b # p =>
            /\ level'[b] = level[b] /\ actions'[b] = actions[b]
            /\ lockdown'[b] = lockdown[b] /\ lifted'[b] = lifted[b]
    BY <1>0, <2>2 DEF GuardType
  <2>5. Sorted(actions'[p]) /\ InLimit(p)'
    BY <2>4, EmptyLog, LimitAssumption DEF InLimit
  <2> QED BY <2>1, <2>3, <2>4, <2>5, IdleGuarded
<1>6. ASSUME NEW p \in Guard, Decide(p) PROVE GuardType' /\ \A b \in Guard : Guarded(b)'
  BY <1>6, DecideGuarded
<1>8. ASSUME NEW p \in Guard, Complete(p) PROVE GuardType' /\ \A b \in Guard : Guarded(b)'
  <2>1. op[p] # Idle /\ Done(p)
    BY <1>8, CompleteReturns
  <2>2. op'[p] = Idle /\ \A b \in Guard : b # p => op'[b] = op[b] /\ copy'[b] = copy[b]
    BY <1>0, <2>1 DEF Done, TypeOK
  <2>3. UNCHANGED <<alive, level, lockdown, lifted>> /\ Logged(p, op[p].name)
    BY <1>8 DEF Complete
  <2>4. /\ actions' \in [Guard -> Seq(Age)]
        /\ actions'[p] = IF op[p].name = "throttle" THEN actions[p] ELSE Append(actions[p], 0)
        /\ \A b \in Guard : b # p => actions'[b] = actions[b]
    BY <1>0, <2>3, LongerLog DEF Logged, GuardType
  <2>5. GuardType'
    BY <1>0, <2>3, <2>4 DEF GuardType
  <2>6. Sorted(actions'[p])
    BY <1>0, <2>4, LongerLog
  <2>7. InLimit(p)'
    <3>1. CASE op[p].name = "throttle"
      BY <1>0, <2>3, <2>4, <3>1 DEF Guarded, InLimit
    <3>2. CASE op[p].name # "throttle"
      <4>1. Len(actions'[p]) = Len(actions[p]) + 1
        BY <1>0, <2>4, <3>2, LongerLog
      <4>2. Len(actions[p]) >= MassActionLimit => lockdown[p] \/ lifted[p]
        BY <1>0, <2>1, <3>2 DEF Guarded, Acting
      <4> QED BY <1>0, <2>3, <4>1, <4>2, LimitAssumption DEF InLimit
    <3> QED BY <3>1, <3>2
  <2> QED BY <2>2, <2>3, <2>4, <2>5, <2>6, <2>7, IdleGuarded
<1>9. ASSUME NEW p \in Guard, Fail(p) PROVE GuardType' /\ \A b \in Guard : Guarded(b)'
  <2>1. op'[p] = Idle /\ \A b \in Guard : b # p => op'[b] = op[b] /\ copy'[b] = copy[b]
    BY <1>0, <1>9 DEF Fail, Abort, Done, TypeOK
  <2>2. UNCHANGED <<alive, level, actions, lockdown, lifted>>
    BY <1>9 DEF Fail, guardVars
  <2>3. GuardType' /\ Sorted(actions'[p]) /\ InLimit(p)'
    BY <1>0, <2>2 DEF GuardType, Guarded, InLimit
  <2> QED BY <2>1, <2>2, <2>3, IdleGuarded
<1>10. ASSUME NEW p \in Guard, NEW new \in Level, NEW scoped \in BOOLEAN,
              SetAutonomyLevel(p, new, scoped)
       PROVE  GuardType' /\ \A b \in Guard : Guarded(b)'
  <2>1. UNCHANGED <<op, copy, alive, actions, lockdown, lifted>> /\ op[p] = Idle
        /\ level' = [level EXCEPT ![p] = new]
    BY <1>10 DEF SetAutonomyLevel, vars
  <2>2. GuardType' /\ \A b \in Guard : b # p => level'[b] = level[b]
    BY <1>0, <2>1 DEF GuardType
  <2>3. Sorted(actions'[p]) /\ InLimit(p)'
    BY <1>0, <2>1 DEF Guarded, InLimit
  <2> QED BY <2>1, <2>2, <2>3, IdleGuarded
<1>11. ASSUME NEW p \in Guard, NEW scoped \in BOOLEAN, LiftGlobalLockdown(p, scoped)
       PROVE  GuardType' /\ \A b \in Guard : Guarded(b)'
  <2>1. UNCHANGED <<op, copy, alive, level, actions>> /\ op[p] = Idle
        /\ lockdown' = [lockdown EXCEPT ![p] = FALSE] /\ lifted' = [lifted EXCEPT ![p] = TRUE]
    BY <1>11 DEF LiftGlobalLockdown, vars
  <2>2. GuardType' /\ lifted'[p] = TRUE /\ \A b \in Guard : b # p =>
            lockdown'[b] = lockdown[b] /\ lifted'[b] = lifted[b]
    BY <1>0, <2>1 DEF GuardType
  <2>3. Sorted(actions'[p]) /\ InLimit(p)'
    BY <1>0, <2>1, <2>2 DEF InLimit
  <2> QED BY <2>1, <2>2, <2>3, IdleGuarded
<1> QED BY <1>1, <1>2, <1>3, <1>4, <1>5, <1>6, <1>8, <1>9, <1>10, <1>11, Zenon
        DEF GuardNext

\* Every reachable state is well typed; no entry of a log is outside the window.
THEOREM GuardTypeCorrect == GuardSpec => []GuardTypeOK
<1>1. GuardInv => GuardTypeOK
  BY DEF GuardInv, VerifiedInv, GuardType, GuardTypeOK, Age
<1> QED BY GuardianInit, GuardianNext, <1>1, PTL DEF GuardSpec

\* For every limit and window, a process that has acted severely more often than
\* the limit within the window is in lockdown, or an operator has lifted it.
THEOREM LimitHolds == GuardSpec => []LockdownOnExcess
<1>1. GuardInv => LockdownOnExcess
  BY DEF GuardInv, Guarded, InLimit, LockdownOnExcess
<1> QED BY GuardianInit, GuardianNext, <1>1, PTL DEF GuardSpec

-------------------------------------------------------------------------------
(* What an operation of a guardian may do at its level.                        *)

\* Storing a payload in state q, at one point.
LEMMA OnePoint ==
    ASSUME TypeOK, NEW c \in CredId, NEW q, Persist(c, q)
    PROVE  \A d \in CredId : store'[d].state # store[d].state => store'[d].state = q.state
<1>1. store' = [store EXCEPT ![c] = q] /\ store \in [CredId -> Payload]
  BY DEF Persist, TypeOK
<1>2. store'[c] = q /\ \A d \in CredId : d # c => store'[d] = store[d]
  BY <1>1
<1> QED BY <1>2

LEMMA TransitionOnce ==
    ASSUME VerifiedInv, NEW a \in Actor, op[a] # Idle, NEW to \in ValidStates, Transition(a, to)
    PROVE  \A d \in CredId : store'[d].state # store[d].state => store'[d].state = to
<1>1. PICK c \in CredId, p \in Payload : c = copy[a].id /\ p = copy[a].payload
  BY DEF VerifiedInv, CopyPlace, TypeOK, Credential
<1>2. PICK q \in Payload : q = [p EXCEPT !.state = to] /\ q.state = to
  BY WithState
<1>3. Persist(c, q) \/ UNCHANGED store
  BY <1>1, <1>2 DEF Transition
<1>4. CASE Persist(c, q)
  BY <1>2, <1>4, OnePoint DEF VerifiedInv
<1>5. CASE UNCHANGED store
  BY <1>5
<1> QED BY <1>3, <1>4, <1>5

\* Whatever the level is changed to and however operations overlap, an advisory
\* guardian changes nothing outside a lockdown, and only a fully autonomous one
\* revokes.
THEOREM AutonomyHolds == GuardSpec => AutonomyRespected
<1>1. ASSUME GuardInv, NEW p \in Guard, Complete(p)
      PROVE  /\ level[p] = "ADVISORY" => lockdown[p]
             /\ (\E c \in Known : store'[c].state # store[c].state /\ store'[c].state = "REVOKE")
                    => level[p] = "FULLY_AUTONOMOUS"
  <2>1. VerifiedInv /\ TypeOK /\ Acting(p) /\ p \in Actor
    BY <1>1, GuardAssumption DEF GuardInv, VerifiedInv, Guarded
  <2>2. /\ op[p] # Idle
        /\ \/ op[p].name = "suspend" /\ Transition(p, "SUSPEND")
           \/ op[p].name = "revoke" /\ Transition(p, "REVOKE")
           \/ /\ op[p].name = "throttle"
              /\ Persist(copy[p].id, [copy[p].payload EXCEPT !.throttled = TRUE])
    BY <1>1, CompleteReturns
  <2>3. /\ level[p] = "ADVISORY" => lockdown[p]
        /\ op[p].name = "revoke" => level[p] = "FULLY_AUTONOMOUS"
        /\ copy[p].payload.state # "REVOKE"
    BY <2>1, <2>2 DEF Acting
  <2>4. ASSUME NEW c \in Known, store'[c].state # store[c].state, store'[c].state = "REVOKE"
        PROVE  level[p] = "FULLY_AUTONOMOUS"
    <3>1. c \in CredId
      BY DEF Known
    <3>2. CASE op[p].name = "suspend" /\ Transition(p, "SUSPEND")
      <4>1. store'[c].state = "SUSPEND"
        <5>1. "SUSPEND" \in ValidStates
          BY DEF ValidStates
        <5> QED BY <2>1, <2>2, <2>4, <3>1, <3>2, <5>1, TransitionOnce
      <4> QED BY <2>4, <4>1
    <3>3. CASE op[p].name = "revoke"
      BY <2>3, <3>3
    <3>4. CASE Persist(copy[p].id, [copy[p].payload EXCEPT !.throttled = TRUE])
      <4>1. PICK d \in CredId, m \in Payload : d = copy[p].id /\ m = copy[p].payload
        BY <2>1, <2>2 DEF VerifiedInv, CopyPlace, TypeOK, Credential
      <4>2. PICK q \in Payload : q = [m EXCEPT !.throttled = TRUE] /\ q.state = m.state
        <5>1. [m EXCEPT !.throttled = TRUE] \in Payload
              /\ [m EXCEPT !.throttled = TRUE].state = m.state
          BY DEF Payload
        <5> QED BY <5>1
      <4>3. Persist(d, q)
        BY <3>4, <4>1, <4>2
      <4>4. store'[c].state = m.state
        BY <2>1, <2>4, <3>1, <4>2, <4>3, OnePoint
      <4> QED BY <2>3, <2>4, <4>1, <4>4
    <3> QED BY <2>2, <3>2, <3>3, <3>4
  <2> QED BY <2>3, <2>4
<1>2. GuardInv => [\A p \in Guard : Complete(p) =>
          /\ level[p] = "ADVISORY" => lockdown[p]
          /\ (\E c \in Known : store'[c].state # store[c].state /\ store'[c].state = "REVOKE")
                 => level[p] = "FULLY_AUTONOMOUS"]_allVars
  BY <1>1
<1> QED BY GuardianInit, GuardianNext, <1>2, PTL DEF GuardSpec, AutonomyRespected

-------------------------------------------------------------------------------
(* What an operation of a guardian does to the session, when no other overlaps *)
(* it: it acts on the credential that a validation of the scope would find.    *)

LEMMA GuardSeen == ASSUME ~Concurrent PROVE GuardSpec => [](SeenInv /\ GuardInv)
<1>1. GuardInit => SeenInv /\ GuardInv
  BY SeenInit, GuardianInit DEF GuardInit
<1>2. SeenInv /\ GuardInv /\ [GuardNext]_allVars => (SeenInv /\ GuardInv)'
  BY GuardStep, SeenNext, GuardianNext
<1> QED BY <1>1, <1>2, PTL DEF GuardSpec

\* A tool allowed after the operation was allowed before.
NoToolBack == \A t \in Tool : ScopeAllows(t, Load'.payload) => ScopeAllows(t, Load.payload)

LEMMA SuspendTakes ==
    ASSUME SeenInv, TypeOK', NEW p \in Actor, op[p] # Idle, op[p].name # "reload",
           NEW to \in {"SUSPEND", "REVOKE"}, Transition(p, to)
    PROVE  /\ copy[p].payload.state = "MONITOR" => Load'.payload.state = to
           /\ NoToolBack
<1>1. copy[p] = Load /\ Load.payload.state \in ValidStates
  BY HoldsSeen
<1>2. CASE to \notin ValidTransitions[Load.payload.state]
  <2>1. Load' = Load
    BY <1>2, TransitionSeen
  <2>2. Load.payload.state # "MONITOR"
    BY <1>2 DEF ValidTransitions
  <2> QED BY <1>1, <2>1, <2>2 DEF NoToolBack
<1>3. CASE to \in ValidTransitions[Load.payload.state]
  <2>1. Load'.payload.state = to
    BY <1>3, TransitionSeen
  <2>2. Load.payload.state # "REVOKE"
    BY <1>3 DEF ValidTransitions
  <2>3. ASSUME NEW t \in Tool, ScopeAllows(t, Load'.payload)
        PROVE  ScopeAllows(t, Load.payload)
    BY <2>1, <2>2, <2>3 DEF ScopeAllows
  <2> QED BY <2>1, <2>3 DEF NoToolBack
<1> QED BY <1>2, <1>3

LEMMA ThrottleTakes ==
    ASSUME SeenInv, TypeOK', NEW p \in Actor, op[p] # Idle, op[p].name # "reload",
           Persist(copy[p].id, [copy[p].payload EXCEPT !.throttled = TRUE])
    PROVE  NoToolBack
<1>1. copy[p] = Load /\ Stored(Load) /\ Load.payload \in Payload
  BY HoldsSeen
<1>2. PICK q : q = [Load.payload EXCEPT !.throttled = TRUE]
  OBVIOUS
<1>3. q.state = Load.payload.state /\ q.state # "absent"
  BY <1>1, <1>2 DEF Payload, Stored
<1>4. store' = [store EXCEPT ![Load.id] = q]
  BY <1>1, <1>2 DEF Persist
<1>5. Load'.payload = q
  BY <1>1, <1>3, <1>4, LoadOverwritten DEF SeenInv, SerialInv, VerifiedInv
<1> QED BY <1>3, <1>5 DEF NoToolBack, ScopeAllows

\* When operations do not overlap, a suspension or termination decided on a monitored
\* session restricts it, and no operation of a guardian gives a session a tool back.
THEOREM GuardsRestrain == ASSUME ~Concurrent PROVE GuardSpec => GuardRestrains
<1>1. ASSUME SeenInv, GuardInv, TypeOK', NEW p \in Guard, Complete(p)
      PROVE  /\ op[p].name \in {"suspend", "revoke"} /\ copy[p].payload.state = "MONITOR" =>
                    Load'.payload.state \in {"SUSPEND", "REVOKE"}
             /\ NoToolBack
  <2>1. p \in Actor /\ op[p] # Idle
    BY <1>1, GuardAssumption, CompleteReturns
  <2>2. \/ op[p].name = "suspend" /\ Transition(p, "SUSPEND")
        \/ op[p].name = "revoke" /\ Transition(p, "REVOKE")
        \/ /\ op[p].name = "throttle"
           /\ Persist(copy[p].id, [copy[p].payload EXCEPT !.throttled = TRUE])
    BY <1>1, CompleteReturns
  <2>3. CASE op[p].name = "throttle" /\
             Persist(copy[p].id, [copy[p].payload EXCEPT !.throttled = TRUE])
    BY <1>1, <2>1, <2>3, ThrottleTakes
  <2>4. CASE op[p].name = "suspend" /\ Transition(p, "SUSPEND")
    BY <1>1, <2>1, <2>4, SuspendTakes
  <2>5. CASE op[p].name = "revoke" /\ Transition(p, "REVOKE")
    BY <1>1, <2>1, <2>5, SuspendTakes
  <2> QED BY <2>2, <2>3, <2>4, <2>5
<1>2. SeenInv /\ GuardInv /\ (SeenInv /\ GuardInv)' =>
         [\A p \in Guard : Complete(p) =>
           /\ op[p].name \in {"suspend", "revoke"} /\ copy[p].payload.state = "MONITOR" =>
                  Load'.payload.state \in {"SUSPEND", "REVOKE"}
           /\ \A t \in Tool : ScopeAllows(t, Load'.payload) => ScopeAllows(t, Load.payload)]_allVars
  BY <1>1 DEF NoToolBack, SeenInv, SerialInv, VerifiedInv
<1> QED BY GuardSeen, <1>2, PTL DEF GuardRestrains
===============================================================================
