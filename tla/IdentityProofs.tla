---------------------------- MODULE IdentityProofs ----------------------------
(***************************************************************************)
(* Theorems about IdentityLifecycle.tla for any actors, number of          *)
(* credentials, tools and scope: types and VerifiedOnly under every        *)
(* interleaving and failure; and, for operations that do not overlap,      *)
(* TransitionsValid, AuthorizedIsMonitored and RestrictedUntilCleared.     *)
(***************************************************************************)
EXTENDS IdentityLifecycle, WellFoundedInduction, TLAPS

-------------------------------------------------------------------------------
(* What a load finds. *)

LEMMA LeastExists ==
    ASSUME NEW S \in SUBSET Nat, S # {}
    PROVE  \E c \in S : \A d \in S : c <= d
<1> DEFINE R == OpToRel(<, Nat)
<1>1. IsWellFoundedOn(R, Nat)
  BY NatLessThanWellFounded
<1>2. PICK c \in S : \A d \in S : ~(<<d, c>> \in R)
  <2> HIDE DEF R
  <2> QED BY <1>1, WFMin
<1>3. ASSUME NEW d \in S PROVE c <= d
  <2>1. ~(d < c)
    BY <1>2, <1>3 DEF OpToRel
  <2> QED BY <2>1
<1> QED BY <1>3

\* A credential as it is stored now, or none.
Stored(m) == m.id \in CredId /\ m.payload = store[m.id] /\ m.payload.state # "absent"

LEMMA LoadFinds ==
    ASSUME TypeOK, NEW m \in Seen \cup {Load}
    PROVE  m \in Credential /\ (m = Nothing \/ Stored(m))
<1>1. Nothing \in Credential
  BY DEF Nothing, Credential, Absent, Payload
<1>2. CASE m = Nothing
  BY <1>1, <1>2
<1>3. CASE m = Load /\ Known # {}
  <2>1. \E c \in Known : \A d \in Known : c <= d
    <3>1. Known \in SUBSET Nat
      BY DEF Known, CredId
    <3> QED BY <1>3, <3>1, LeastExists
  <2>2. PICK c \in Known : m = [id |-> c, payload |-> store[c]]
    BY <1>3, <2>1 DEF Load
  <2>3. c \in CredId /\ store[c] \in Payload /\ store[c].state # "absent"
    BY <2>2 DEF Known, TypeOK
  <2>4. m.id = c /\ m.payload = store[c]
    BY <2>2
  <2>5. m \in Credential
    BY <2>2, <2>3 DEF Credential
  <2> QED BY <2>3, <2>4, <2>5 DEF Stored
<1>4. CASE m = Load /\ Known = {}
  BY <1>1, <1>4 DEF Load
<1> QED BY <1>2, <1>3, <1>4 DEF Seen

-------------------------------------------------------------------------------
(* Types and verification.  A write stores what was loaded with one field      *)
(* changed, so what VerifiedOnly says of the store it must say of the copies   *)
(* as well; a copy in PROVISION can only become live in authenticate, and a    *)
(* rotation starts from a live one.                                            *)

Trusted(c, payload) == payload.state \in Live \/ payload.previous # NoCred => c \in verified

CopyPlace ==
    \A a \in Actor : op[a] # Idle =>
        /\ copy[a].id \in CredId /\ copy[a].payload.state \in ValidStates
        /\ op[a].name = "rotate" => copy[a].payload.state = "MONITOR"
        /\ Trusted(copy[a].id, copy[a].payload)

VerifiedInv == TypeOK /\ CopyPlace /\ VerifiedOnly

LEMMA VerifiedInit == Init => VerifiedInv
<1> SUFFICES ASSUME Init PROVE VerifiedInv
  OBVIOUS
<1>1. Absent \in Payload /\ Nothing \in Credential
  BY DEF Absent, Nothing, Payload, Credential
<1>2. TypeOK
  BY <1>1 DEF Init, TypeOK
<1>3. VerifiedOnly
  BY DEF Init, VerifiedOnly, Absent, Live
<1> QED BY <1>2, <1>3 DEF Init, VerifiedInv, CopyPlace

\* Storing a payload that is trusted and typed.
LEMMA PersistTrusted ==
    ASSUME VerifiedInv, NEW c \in CredId, NEW payload \in Payload, Persist(c, payload),
           verified \subseteq verified', verified' \subseteq CredId,
           payload.state \in Live \/ payload.previous # NoCred => c \in verified'
    PROVE  store' \in [CredId -> Payload] /\ VerifiedOnly'
<1>1. store' = [store EXCEPT ![c] = payload] /\ store \in [CredId -> Payload]
  BY DEF Persist, VerifiedInv, TypeOK
<1>2. store'[c] = payload /\ \A d \in CredId : d # c => store'[d] = store[d]
  BY <1>1
<1> QED BY <1>1, <1>2 DEF VerifiedInv, VerifiedOnly, Trusted

\* The state machine: a state that is not PROVISION leads to live ones only if live.
LEMMA WithState ==
    ASSUME NEW p \in Payload, NEW to \in ValidStates
    PROVE  /\ [p EXCEPT !.state = to] \in Payload
           /\ [p EXCEPT !.state = to].state = to
           /\ [p EXCEPT !.state = to].previous = p.previous
BY DEF Payload

LEMMA TableFacts ==
    ASSUME NEW from \in ValidStates, NEW to \in ValidTransitions[from]
    PROVE  /\ to \in ValidStates
           /\ to \in Live => from \in Live \/ to = "AUTHENTICATE"
<1>1. /\ ValidTransitions["PROVISION"] = {"AUTHENTICATE"}
      /\ ValidTransitions["AUTHENTICATE"] = {"AUTHORIZE", "REVOKE"}
      /\ ValidTransitions["AUTHORIZE"] = {"MONITOR", "REVOKE"}
      /\ ValidTransitions["MONITOR"] = {"SUSPEND", "REVOKE"}
      /\ ValidTransitions["SUSPEND"] = {"MONITOR", "REVOKE"}
      /\ ValidTransitions["REVOKE"] = {}
  BY DEF ValidTransitions
<1> QED BY <1>1 DEF ValidStates, Live

LEMMA TransitionTrusted ==
    ASSUME VerifiedInv, NEW a \in Actor, op[a] # Idle, NEW to, Transition(a, to),
           verified \subseteq verified', verified' \subseteq CredId,
           to = "AUTHENTICATE" => copy[a].id \in verified'
    PROVE  store' \in [CredId -> Payload] /\ VerifiedOnly'
<1>1. /\ copy[a].id \in CredId /\ copy[a].payload \in Payload
      /\ copy[a].payload.state \in ValidStates /\ Trusted(copy[a].id, copy[a].payload)
  BY DEF VerifiedInv, CopyPlace, TypeOK, Credential
<1>2. PICK c \in CredId, p \in Payload : c = copy[a].id /\ p = copy[a].payload
  BY <1>1
<1>3. CASE to \notin ValidTransitions[p.state]
  BY <1>2, <1>3 DEF Transition, VerifiedInv, TypeOK, VerifiedOnly
<1>4. CASE to \in ValidTransitions[p.state]
  <2>1. to \in ValidStates /\ (to \in Live => p.state \in Live \/ to = "AUTHENTICATE")
    BY <1>1, <1>2, <1>4, TableFacts
  <2>2. PICK q \in Payload :
            q = [p EXCEPT !.state = to] /\ q.state = to /\ q.previous = p.previous
    BY <2>1, WithState
  <2>3. q.state \in Live \/ q.previous # NoCred => c \in verified'
    BY <1>1, <1>2, <2>1, <2>2 DEF Trusted
  <2>4. Persist(c, q)
    BY <1>2, <1>4, <2>2 DEF Transition, Persist
  <2> QED BY <2>3, <2>4, PersistTrusted
<1> QED BY <1>3, <1>4

\* An operation that returns.
LEMMA DonePlace ==
    ASSUME VerifiedInv, NEW a \in Actor, Done(a), verified \subseteq verified'
    PROVE  op' \in [Actor -> Pending \cup {Idle}] /\ copy' \in [Actor -> Credential]
           /\ CopyPlace'
<1>1. Nothing \in Credential
  BY DEF Absent, Nothing, Payload, Credential
<1>2. /\ op' = [op EXCEPT ![a] = Idle] /\ copy' = [copy EXCEPT ![a] = Nothing]
      /\ op \in [Actor -> Pending \cup {Idle}] /\ copy \in [Actor -> Credential]
  BY DEF Done, VerifiedInv, TypeOK
<1>3. op'[a] = Idle /\ \A b \in Actor : b # a => op'[b] = op[b] /\ copy'[b] = copy[b]
  BY <1>2
<1>4. CopyPlace'
  BY <1>3 DEF VerifiedInv, CopyPlace, Trusted
<1> QED BY <1>1, <1>2, <1>4

\* A load, whether the operation goes on or returns.
LEMMA LoadKeeps ==
    ASSUME VerifiedInv, NEW a \in Actor, NEW name \in Operations \ {"reload", "monitor"},
           NEW token \in CredId \cup {NoCred}, NEW ok \in BOOLEAN,
           LoadFor(a, name, token, ok), armed' \subseteq Actor
    PROVE  VerifiedInv'
<1>1. PICK seen \in Seen :
          IF Proceeds(name, seen.payload.state)
          THEN /\ op' = [op EXCEPT ![a] = [name |-> name, token |-> token, ok |-> ok]]
               /\ copy' = [copy EXCEPT ![a] = seen]
               /\ UNCHANGED answer
          ELSE Answer(name, seen.id, FALSE) /\ UNCHANGED <<op, copy>>
  BY DEF LoadFor
<1>2. UNCHANGED <<store, verified>>
  BY DEF LoadFor
<1>3. seen \in Credential /\ (seen = Nothing \/ Stored(seen))
  BY LoadFinds DEF VerifiedInv
<1>4. VerifiedOnly'
  BY <1>2 DEF VerifiedInv, VerifiedOnly
<1>5. CASE ~Proceeds(name, seen.payload.state)
  <2>1. Answer(name, seen.id, FALSE) /\ UNCHANGED <<op, copy>>
    BY <1>1, <1>5
  <2>2. seen.id \in CredId \cup {NoCred}
    BY <1>3 DEF Credential
  <2>3. TypeOK'
    BY <1>2, <2>1, <2>2 DEF VerifiedInv, TypeOK, Answer
  <2>4. CopyPlace'
    BY <1>2, <2>1 DEF VerifiedInv, CopyPlace, Trusted
  <2> QED BY <1>4, <2>3, <2>4 DEF VerifiedInv
<1>6. CASE Proceeds(name, seen.payload.state)
  <2>1. /\ op' = [op EXCEPT ![a] = [name |-> name, token |-> token, ok |-> ok]]
        /\ copy' = [copy EXCEPT ![a] = seen] /\ UNCHANGED answer
    BY <1>1, <1>6
  <2>2. PICK held \in Pending :
            held = [name |-> name, token |-> token, ok |-> ok] /\ held.name = name
    <3>1. [name |-> name, token |-> token, ok |-> ok] \in Pending
      BY DEF Pending
    <3> QED BY <3>1
  <2>3. TypeOK'
    BY <1>2, <1>3, <2>1, <2>2 DEF VerifiedInv, TypeOK
  <2>4. op'[a] = held /\ copy'[a] = seen /\ \A b \in Actor : b # a =>
            op'[b] = op[b] /\ copy'[b] = copy[b]
    BY <2>1, <2>2 DEF VerifiedInv, TypeOK
  <2>5. /\ seen.payload.state \in ValidStates
        /\ name = "rotate" => seen.payload.state = "MONITOR"
    BY <1>6 DEF Proceeds, ValidStates, Operations
  <2>6. Stored(seen)
    BY <1>3, <2>5 DEF Nothing, Absent, ValidStates
  <2>7. seen.id \in CredId /\ Trusted(seen.id, seen.payload)
    BY <2>6 DEF Stored, VerifiedInv, VerifiedOnly, Trusted
  <2>8. CopyPlace'
    BY <1>2, <2>2, <2>4, <2>5, <2>7 DEF VerifiedInv, CopyPlace, Trusted
  <2> QED BY <1>4, <2>3, <2>8 DEF VerifiedInv
<1> QED BY <1>5, <1>6

\* A write that is a transition of the copy, after which the operation returns.
LEMMA FinishKeeps ==
    ASSUME VerifiedInv, NEW a \in Actor, op[a] # Idle, NEW to, Transition(a, to), Done(a),
           verified \subseteq verified', verified' \subseteq CredId,
           to = "AUTHENTICATE" => copy[a].id \in verified',
           armed' \subseteq Actor,
           NEW name \in Operations, NEW yes \in BOOLEAN, Answer(name, copy[a].id, yes)
    PROVE  VerifiedInv'
<1>1. store' \in [CredId -> Payload] /\ VerifiedOnly'
  BY TransitionTrusted
<1>2. /\ op' \in [Actor -> Pending \cup {Idle}] /\ copy' \in [Actor -> Credential]
      /\ CopyPlace'
  BY DonePlace
<1>3. copy[a].id \in CredId
  BY DEF VerifiedInv, CopyPlace
<1>4. TypeOK'
  BY <1>1, <1>2, <1>3 DEF TypeOK, Answer
<1> QED BY <1>1, <1>2, <1>4 DEF VerifiedInv

-------------------------------------------------------------------------------
(* One step per action. *)

LEMMA VerifiedNext == VerifiedInv /\ [Next]_vars => VerifiedInv'
<1> SUFFICES ASSUME VerifiedInv, [Next]_vars PROVE VerifiedInv'
  OBVIOUS
<1>0. TypeOK /\ CopyPlace /\ VerifiedOnly
  BY DEF VerifiedInv
<1>1. ASSUME NEW a \in Actor, Provision(a) PROVE VerifiedInv'
  <2>1. PICK c \in Unused :
            /\ \/ Persist(c, [Absent EXCEPT !.state = "PROVISION"])
               \/ Failures /\ UNCHANGED store
            /\ Answer("provision", c, TRUE)
    BY <1>1 DEF Provision
  <2>2. UNCHANGED <<op, copy, armed, verified>> /\ c \in CredId
    BY <1>1, <2>1 DEF Provision, Unused
  <2>3. store' \in [CredId -> Payload] /\ VerifiedOnly'
    <3>1. CASE UNCHANGED store
      BY <1>0, <2>2, <3>1 DEF TypeOK, VerifiedOnly
    <3>2. CASE Persist(c, [Absent EXCEPT !.state = "PROVISION"])
      <4>1. PICK p \in Payload : /\ p = [Absent EXCEPT !.state = "PROVISION"]
                                 /\ p.state = "PROVISION" /\ p.previous = NoCred
        <5>1. Absent \in Payload /\ "PROVISION" \in ValidStates /\ Absent.previous = NoCred
          BY DEF Absent, Payload, ValidStates
        <5> QED BY <5>1, WithState
      <4>2. Persist(c, p)
        BY <3>2, <4>1
      <4>3. verified \subseteq verified' /\ verified' \subseteq CredId
        BY <1>0, <2>2 DEF TypeOK
      <4>4. ~(p.state \in Live \/ p.previous # NoCred)
        BY <4>1 DEF Live
      <4> QED BY <2>2, <4>2, <4>3, <4>4, PersistTrusted
    <3> QED BY <2>1, <3>1, <3>2
  <2>4. TypeOK'
    BY <1>0, <2>1, <2>2, <2>3 DEF TypeOK, Answer
  <2>5. CopyPlace'
    BY <1>0, <2>2 DEF CopyPlace, Trusted
  <2> QED BY <2>3, <2>4, <2>5 DEF VerifiedInv
<1>2. ASSUME NEW a \in Actor, Begin(a) PROVE VerifiedInv'
  <2>1. armed' \subseteq Actor
    BY <1>0, <1>2 DEF Begin, TypeOK
  <2>2. PICK name \in Operations \ {"reload", "monitor"}, token \in CredId \cup {NoCred},
             ok \in BOOLEAN : LoadFor(a, name, token, ok)
    BY <1>2 DEF Begin, Operations, Known
  <2> QED BY <2>1, <2>2, LoadKeeps
<1>3. ASSUME NEW a \in Actor, TimerFires(a) PROVE VerifiedInv'
  <2>1. armed' \subseteq Actor /\ LoadFor(a, "rotate", NoCred, TRUE)
    BY <1>0, <1>3 DEF TimerFires, TypeOK
  <2>2. "rotate" \in Operations \ {"reload", "monitor"}
    BY DEF Operations
  <2> QED BY <2>1, <2>2, LoadKeeps
<1>4. ASSUME NEW a \in Actor, Authenticate(a) PROVE VerifiedInv'
  <2>1. op[a] # Idle /\ Done(a) /\ UNCHANGED armed
    BY <1>4 DEF Authenticate, Idle
  <2>2. copy[a].id \in CredId /\ "authenticate" \in Operations
    BY <1>0, <2>1 DEF CopyPlace, Operations
  <2>3. CASE op[a].token = copy[a].id /\ op[a].ok
    <3>1. /\ Transition(a, "AUTHENTICATE") /\ verified' = verified \cup {copy[a].id}
          /\ Answer("authenticate", copy[a].id, TRUE)
      BY <1>4, <2>3 DEF Authenticate, Answer
    <3>2. /\ verified \subseteq verified' /\ verified' \subseteq CredId
          /\ copy[a].id \in verified' /\ armed' \subseteq Actor
      BY <1>0, <2>1, <2>2, <3>1 DEF TypeOK
    <3> QED BY <2>1, <2>2, <3>1, <3>2, FinishKeeps
  <2>4. CASE ~(op[a].token = copy[a].id /\ op[a].ok)
    <3>1. /\ Transition(a, "REVOKE") /\ verified' = verified
          /\ Answer("authenticate", copy[a].id, FALSE)
      BY <1>4, <2>4 DEF Authenticate, Answer
    <3>2. verified \subseteq verified' /\ verified' \subseteq CredId /\ armed' \subseteq Actor
      BY <1>0, <2>1, <3>1 DEF TypeOK
    <3> QED BY <2>1, <2>2, <3>1, <3>2, FinishKeeps
  <2> QED BY <2>3, <2>4
<1>5. ASSUME NEW a \in Actor, Authorize(a) PROVE VerifiedInv'
  <2>1. op[a].name = "authorize" /\ op[a] # Idle /\ UNCHANGED <<armed, verified>>
    BY <1>5 DEF Authorize, Idle
  <2>2. verified \subseteq verified' /\ verified' \subseteq CredId /\ armed' \subseteq Actor
    BY <1>0, <2>1 DEF TypeOK
  <2>3. CASE ~op[a].ok
    <3>1. Transition(a, "REVOKE") /\ Done(a) /\ Answer("authorize", copy[a].id, FALSE)
      BY <1>5, <2>3 DEF Authorize
    <3>2. "authorize" \in Operations
      BY DEF Operations
    <3> QED BY <2>1, <2>2, <3>1, <3>2, FinishKeeps
  <2>4. CASE op[a].ok
    <3>1. /\ Transition(a, "AUTHORIZE") /\ op' = [op EXCEPT ![a].name = "reload"]
          /\ UNCHANGED <<copy, answer>>
      BY <1>5, <2>4 DEF Authorize
    <3>2. store' \in [CredId -> Payload] /\ VerifiedOnly'
      BY <2>1, <2>2, <3>1, TransitionTrusted
    <3>3. op'[a] \in Pending /\ op'[a].name = "reload"
      BY <1>0, <2>1, <3>1 DEF TypeOK, Pending, Operations, Idle
    <3>4. op' \in [Actor -> Pending \cup {Idle}] /\ \A b \in Actor : b # a => op'[b] = op[b]
      BY <1>0, <3>1, <3>3 DEF TypeOK
    <3>5. TypeOK'
      BY <1>0, <2>1, <3>1, <3>2, <3>4 DEF TypeOK
    <3>6. CopyPlace'
      BY <1>0, <2>1, <3>1, <3>3, <3>4 DEF CopyPlace, Trusted
    <3> QED BY <3>2, <3>5, <3>6 DEF VerifiedInv
  <2> QED BY <2>3, <2>4
<1>6. ASSUME NEW a \in Actor, Reload(a) PROVE VerifiedInv'
  <2>1. op[a].name = "reload" /\ op[a] # Idle /\ UNCHANGED <<store, armed, verified>>
    BY <1>6 DEF Reload, Idle
  <2>2. Load \in Credential /\ (Load = Nothing \/ Stored(Load))
    BY <1>0, LoadFinds
  <2>3. VerifiedOnly'
    BY <1>0, <2>1 DEF VerifiedOnly
  <2>4. CASE Load.payload.state = "AUTHORIZE"
    <3>1. op' = [op EXCEPT ![a].name = "monitor"] /\ copy' = [copy EXCEPT ![a] = Load]
          /\ UNCHANGED answer
      BY <1>6, <2>4 DEF Reload
    <3>2. op'[a] \in Pending /\ op'[a].name = "monitor"
      BY <1>0, <2>1, <3>1 DEF TypeOK, Pending, Operations, Idle
    <3>3. op' \in [Actor -> Pending \cup {Idle}] /\ \A b \in Actor : b # a => op'[b] = op[b]
      BY <1>0, <3>1, <3>2 DEF TypeOK
    <3>4. /\ copy' \in [Actor -> Credential] /\ copy'[a] = Load
          /\ \A b \in Actor : b # a => copy'[b] = copy[b]
      BY <1>0, <2>2, <3>1 DEF TypeOK
    <3>5. TypeOK'
      BY <1>0, <2>1, <3>1, <3>3, <3>4 DEF TypeOK
    <3>6. Stored(Load)
      BY <2>2, <2>4 DEF Nothing, Absent
    <3>7. /\ Load.id \in CredId /\ Load.payload.state \in ValidStates
          /\ Trusted(Load.id, Load.payload)
      BY <1>0, <2>4, <3>6 DEF Stored, VerifiedOnly, Trusted, ValidStates
    <3>8. CopyPlace'
      BY <1>0, <2>1, <3>2, <3>3, <3>4, <3>7 DEF CopyPlace, Trusted
    <3> QED BY <2>3, <3>5, <3>8 DEF VerifiedInv
  <2>5. CASE Load.payload.state # "AUTHORIZE"
    <3>1. Done(a) /\ Answer("authorize", Load.id, TRUE)
      BY <1>6, <2>5 DEF Reload
    <3>2. /\ op' \in [Actor -> Pending \cup {Idle}] /\ copy' \in [Actor -> Credential]
          /\ CopyPlace'
      BY <2>1, <3>1, DonePlace
    <3>3. Load.id \in CredId \cup {NoCred}
      BY <2>2 DEF Credential
    <3>4. TypeOK'
      BY <1>0, <2>1, <3>1, <3>2, <3>3 DEF TypeOK, Answer, Operations
    <3> QED BY <2>3, <3>2, <3>4 DEF VerifiedInv
  <2> QED BY <2>4, <2>5
<1>7. ASSUME NEW a \in Actor, Monitor(a) PROVE VerifiedInv'
  <2>1. /\ op[a] # Idle /\ Transition(a, "MONITOR") /\ Done(a)
        /\ Answer("authorize", copy[a].id, TRUE) /\ UNCHANGED verified
    <3>1. op[a] # Idle
      BY <1>7 DEF Monitor, Idle
    <3> QED BY <1>7, <3>1 DEF Monitor
  <2>2. /\ verified \subseteq verified' /\ verified' \subseteq CredId /\ armed' \subseteq Actor
        /\ "authorize" \in Operations
    BY <1>0, <1>7, <2>1 DEF TypeOK, Monitor, Operations
  <2> QED BY <2>1, <2>2, FinishKeeps
<1>8. ASSUME NEW a \in Actor, Rotate(a) PROVE VerifiedInv'
  <2>1. /\ op[a].name = "rotate" /\ op[a] # Idle /\ Done(a)
        /\ armed' = armed \cup {a}
    BY <1>8 DEF Rotate, Idle
  <2>2. PICK c \in Unused :
            /\ Persist(c, [copy[a].payload EXCEPT !.previous = copy[a].id])
            /\ verified' = IF copy[a].id \in verified THEN verified \cup {c} ELSE verified
            /\ Answer("rotate", c, TRUE)
    BY <1>8 DEF Rotate
  <2>3. /\ copy[a].id \in CredId /\ copy[a].payload \in Payload
        /\ copy[a].payload.state = "MONITOR" /\ copy[a].id \in verified /\ c \in CredId
    BY <1>0, <2>1, <2>2 DEF CopyPlace, Trusted, TypeOK, Credential, Live, Unused
  <2>4. verified \subseteq verified' /\ verified' \subseteq CredId /\ c \in verified'
    BY <1>0, <2>2, <2>3 DEF TypeOK
  <2>5. PICK q \in Payload : q = [copy[a].payload EXCEPT !.previous = copy[a].id]
    BY <2>3 DEF Payload
  <2>6. Persist(c, q)
    BY <2>2, <2>5
  <2>7. store' \in [CredId -> Payload] /\ VerifiedOnly'
    BY <2>3, <2>4, <2>6, PersistTrusted
  <2>8. /\ op' \in [Actor -> Pending \cup {Idle}] /\ copy' \in [Actor -> Credential]
        /\ CopyPlace'
    BY <2>1, <2>4, DonePlace
  <2>9. TypeOK'
    BY <1>0, <2>1, <2>2, <2>3, <2>4, <2>7, <2>8 DEF TypeOK, Answer, Operations
  <2> QED BY <2>7, <2>8, <2>9 DEF VerifiedInv
<1>9. ASSUME NEW a \in Actor, Suspend(a) PROVE VerifiedInv'
  <2>1. /\ op[a].name \in {"suspend", "unsuspend"} /\ op[a] # Idle /\ Done(a)
        /\ UNCHANGED <<armed, verified>>
    BY <1>9 DEF Suspend, Idle
  <2>2. PICK name \in {"suspend", "unsuspend"}, to \in {"SUSPEND", "MONITOR"} :
            Transition(a, to) /\ Answer(name, copy[a].id, TRUE)
    BY <1>9, <2>1 DEF Suspend
  <2>3. /\ verified \subseteq verified' /\ verified' \subseteq CredId /\ armed' \subseteq Actor
        /\ name \in Operations /\ to # "AUTHENTICATE"
    BY <1>0, <2>1 DEF TypeOK, Operations
  <2> QED BY <2>1, <2>2, <2>3, FinishKeeps
<1>10. ASSUME NEW a \in Actor, Revoke(a) PROVE VerifiedInv'
  <2>1. /\ op[a] # Idle /\ Transition(a, "REVOKE") /\ Done(a)
        /\ Answer("revoke", copy[a].id, TRUE) /\ UNCHANGED verified
    <3>1. op[a] # Idle
      BY <1>10 DEF Revoke, Idle
    <3> QED BY <1>10, <3>1 DEF Revoke
  <2>2. /\ verified \subseteq verified' /\ verified' \subseteq CredId /\ armed' \subseteq Actor
        /\ "revoke" \in Operations
    BY <1>0, <1>10, <2>1 DEF TypeOK, Revoke, Operations
  <2> QED BY <2>1, <2>2, FinishKeeps
<1>11. ASSUME NEW a \in Actor, Throttle(a) PROVE VerifiedInv'
  <2>1. /\ op[a] # Idle /\ Done(a) /\ UNCHANGED <<armed, verified>>
        /\ Persist(copy[a].id, [copy[a].payload EXCEPT !.throttled = TRUE])
        /\ Answer("throttle", copy[a].id, TRUE)
    <3>1. op[a] # Idle
      BY <1>11 DEF Throttle, Idle
    <3> QED BY <1>11, <3>1 DEF Throttle
  <2>2. PICK c \in CredId, p \in Payload :
            c = copy[a].id /\ p = copy[a].payload /\ Trusted(c, p)
    BY <1>0, <2>1 DEF CopyPlace, TypeOK, Credential
  <2>3. PICK q \in Payload : /\ q = [p EXCEPT !.throttled = TRUE]
                             /\ q.state = p.state /\ q.previous = p.previous
    <3>1. /\ [p EXCEPT !.throttled = TRUE] \in Payload
          /\ [p EXCEPT !.throttled = TRUE].state = p.state
          /\ [p EXCEPT !.throttled = TRUE].previous = p.previous
      BY DEF Payload
    <3> QED BY <3>1
  <2>4. /\ verified \subseteq verified' /\ verified' \subseteq CredId
        /\ q.state \in Live \/ q.previous # NoCred => c \in verified'
    BY <1>0, <2>1, <2>2, <2>3 DEF TypeOK, Trusted
  <2>5. Persist(c, q)
    BY <2>1, <2>2, <2>3 DEF Persist
  <2>6. store' \in [CredId -> Payload] /\ VerifiedOnly'
    BY <2>4, <2>5, PersistTrusted
  <2>7. /\ op' \in [Actor -> Pending \cup {Idle}] /\ copy' \in [Actor -> Credential]
        /\ CopyPlace'
    BY <2>1, <2>4, DonePlace
  <2>8. TypeOK'
    BY <1>0, <2>1, <2>2, <2>4, <2>6, <2>7 DEF TypeOK, Answer, Operations
  <2> QED BY <2>6, <2>7, <2>8 DEF VerifiedInv
<1>12. ASSUME NEW a \in Actor, Abort(a) PROVE VerifiedInv'
  <2>1. Done(a) /\ UNCHANGED <<store, armed, verified, answer>>
    BY <1>12 DEF Abort
  <2>2. /\ op' \in [Actor -> Pending \cup {Idle}] /\ copy' \in [Actor -> Credential]
        /\ CopyPlace'
    BY <2>1, DonePlace
  <2>3. TypeOK' /\ VerifiedOnly'
    BY <1>0, <2>1, <2>2 DEF TypeOK, VerifiedOnly
  <2> QED BY <2>2, <2>3 DEF VerifiedInv
<1>13. ASSUME NEW a \in Actor, TimerDies(a) PROVE VerifiedInv'
  BY <1>0, <1>13 DEF TimerDies, TypeOK, VerifiedOnly, CopyPlace, Trusted, VerifiedInv
<1>14. ASSUME UNCHANGED vars PROVE VerifiedInv'
  BY <1>0, <1>14 DEF vars, TypeOK, VerifiedOnly, CopyPlace, Trusted, VerifiedInv
<1> QED
  BY <1>1, <1>2, <1>3, <1>4, <1>5, <1>6, <1>7, <1>8, <1>9, <1>10, <1>11, <1>12, <1>13,
     <1>14 DEF Next, Write

\* Every reachable state is well typed.
THEOREM TypeCorrect == Spec => []TypeOK
<1>1. VerifiedInv => TypeOK
  BY DEF VerifiedInv
<1> QED BY VerifiedInit, VerifiedNext, <1>1, PTL DEF Spec

\* However operations interleave, fail or die half way, a credential that is live
\* or descends from a rotation had its token and manifest verified.
THEOREM NothingLiveUnverified == Spec => []VerifiedOnly
<1>1. VerifiedInv => VerifiedOnly
  BY DEF VerifiedInv
<1> QED BY VerifiedInit, VerifiedNext, <1>1, PTL DEF Spec

-------------------------------------------------------------------------------
(* Operations that do not overlap.  The one under way decided on what is       *)
(* stored; only authorize, between its halves, holds a copy it will not use.   *)

Alone == \A a, b \in Actor : op[a] # Idle /\ op[b] # Idle => a = b

Fresh == \A a \in Actor : op[a] # Idle /\ op[a].name # "reload" =>
             store[copy[a].id] = copy[a].payload

SerialInv == VerifiedInv /\ Alone /\ Fresh

\* When an operation returns, no other is under way.
LEMMA DoneSerial ==
    ASSUME SerialInv, NEW a \in Actor, op[a] # Idle, Done(a) PROVE Alone' /\ Fresh'
<1>1. /\ op'[a] = Idle
      /\ \A b \in Actor : b # a => op'[b] = op[b]
  BY DEF Done, SerialInv, VerifiedInv, TypeOK
<1>2. \A b \in Actor : op'[b] = Idle
  BY <1>1 DEF SerialInv, Alone
<1> QED BY <1>2 DEF Alone, Fresh

LEMMA LoadSerial ==
    ASSUME SerialInv, ~Concurrent, NEW a \in Actor, MayBegin(a),
           NEW name \in Operations \ {"reload", "monitor"},
           NEW token \in CredId \cup {NoCred}, NEW ok \in BOOLEAN, LoadFor(a, name, token, ok)
    PROVE  Alone' /\ Fresh'
<1>1. PICK seen \in Seen :
          \/ UNCHANGED <<op, copy>>
          \/ /\ Proceeds(name, seen.payload.state)
             /\ op' = [op EXCEPT ![a] = [name |-> name, token |-> token, ok |-> ok]]
             /\ copy' = [copy EXCEPT ![a] = seen]
  BY DEF LoadFor
<1>2. UNCHANGED store /\ \A b \in Actor : op[b] = Idle
  BY DEF LoadFor, MayBegin
<1>3. CASE UNCHANGED <<op, copy>>
  BY <1>2, <1>3 DEF Alone, Fresh
<1>4. CASE /\ Proceeds(name, seen.payload.state)
           /\ op' = [op EXCEPT ![a] = [name |-> name, token |-> token, ok |-> ok]]
           /\ copy' = [copy EXCEPT ![a] = seen]
  <2>1. copy'[a] = seen /\ \A b \in Actor : b # a => op'[b] = Idle
    BY <1>2, <1>4 DEF SerialInv, VerifiedInv, TypeOK
  <2>2. Stored(seen)
    <3>1. seen = Nothing \/ Stored(seen)
      BY LoadFinds DEF SerialInv, VerifiedInv
    <3>2. seen.payload.state # "absent"
      BY <1>4 DEF Proceeds, ValidStates
    <3> QED BY <3>1, <3>2 DEF Nothing, Absent
  <2> QED BY <1>2, <2>1, <2>2 DEF Alone, Fresh, Stored
<1> QED BY <1>1, <1>3, <1>4

LEMMA SerialNext == ASSUME ~Concurrent PROVE SerialInv /\ [Next]_vars => SerialInv'
<1> SUFFICES ASSUME SerialInv, [Next]_vars PROVE SerialInv'
  OBVIOUS
<1>0. VerifiedInv /\ VerifiedInv' /\ Alone /\ Fresh
  BY VerifiedNext DEF SerialInv
<1>1. ASSUME NEW a \in Actor, Provision(a) PROVE Alone' /\ Fresh'
  <2>1. UNCHANGED op /\ \A b \in Actor : op[b] = Idle
    BY <1>1 DEF Provision, MayBegin
  <2> QED BY <2>1 DEF Alone, Fresh
<1>2. ASSUME NEW a \in Actor, Begin(a) PROVE Alone' /\ Fresh'
  <2>1. PICK name \in Operations \ {"reload", "monitor"}, token \in CredId \cup {NoCred},
             ok \in BOOLEAN : LoadFor(a, name, token, ok)
    BY <1>2 DEF Begin, Operations, Known
  <2>2. MayBegin(a)
    BY <1>2 DEF Begin
  <2> QED BY <2>1, <2>2, LoadSerial
<1>3. ASSUME NEW a \in Actor, TimerFires(a) PROVE Alone' /\ Fresh'
  <2>1. LoadFor(a, "rotate", NoCred, TRUE) /\ MayBegin(a)
    BY <1>3 DEF TimerFires
  <2>2. "rotate" \in Operations \ {"reload", "monitor"}
    BY DEF Operations
  <2> QED BY <2>1, <2>2, LoadSerial
<1>4. ASSUME NEW a \in Actor, op[a] # Idle, Done(a) PROVE Alone' /\ Fresh'
  BY <1>4, DoneSerial
<1>5. ASSUME NEW a \in Actor, op[a] # Idle, op' = [op EXCEPT ![a].name = "reload"]
      PROVE  Alone' /\ Fresh'
  <2>1. \A b \in Actor : b # a => op'[b] = Idle
    BY <1>0, <1>5 DEF Alone, VerifiedInv, TypeOK
  <2>2. op'[a].name = "reload"
    BY <1>0, <1>5 DEF VerifiedInv, TypeOK, Pending
  <2> QED BY <2>1, <2>2 DEF Alone, Fresh
<1>6. ASSUME NEW a \in Actor, Reload(a), Load.payload.state = "AUTHORIZE"
      PROVE  Alone' /\ Fresh'
  <2>1. /\ op[a] # Idle /\ UNCHANGED store
        /\ op' = [op EXCEPT ![a].name = "monitor"] /\ copy' = [copy EXCEPT ![a] = Load]
    BY <1>6 DEF Reload, Idle
  <2>2. copy'[a] = Load /\ \A b \in Actor : b # a => op'[b] = Idle
    BY <1>0, <2>1 DEF Alone, VerifiedInv, TypeOK
  <2>3. Stored(Load)
    BY <1>0, <1>6, LoadFinds DEF VerifiedInv, Nothing, Absent
  <2> QED BY <2>1, <2>2, <2>3 DEF Alone, Fresh, Stored
<1>7. ASSUME NEW a \in Actor, Write(a) PROVE Alone' /\ Fresh'
  <2>1. op[a] # Idle
    <3>1. op[a].name \in Operations
      BY <1>7, Zenon DEF Write, Authenticate, Authorize, Reload, Monitor, Rotate, Suspend,
                         Revoke, Throttle, Operations
    <3> QED BY <3>1 DEF Idle, Operations
  <2>2. \/ Done(a)
        \/ op' = [op EXCEPT ![a].name = "reload"]
        \/ Reload(a) /\ Load.payload.state = "AUTHORIZE"
    BY <1>7 DEF Write, Authenticate, Authorize, Reload, Monitor, Rotate, Suspend, Revoke,
                Throttle
  <2> QED BY <1>4, <1>5, <1>6, <2>1, <2>2
<1>8. ASSUME NEW a \in Actor, Abort(a) PROVE Alone' /\ Fresh'
  BY <1>4, <1>8 DEF Abort
<1>9. ASSUME UNCHANGED <<store, op, copy>> PROVE Alone' /\ Fresh'
  BY <1>0, <1>9 DEF Alone, Fresh
<1> QED
  BY <1>0, <1>1, <1>2, <1>3, <1>7, <1>8, <1>9 DEF Next, TimerDies, vars, SerialInv

\* A change of a stored credential's state is in the table.
StateSteps == \A c \in Known : store'[c].state # store[c].state =>
                  store'[c].state \in ValidTransitions[store[c].state]

LEMMA TransitionSteps ==
    ASSUME SerialInv, NEW a \in Actor, op[a] # Idle, op[a].name # "reload", NEW to,
           Transition(a, to)
    PROVE  StateSteps
<1>1. PICK c \in CredId, p \in Payload :
          c = copy[a].id /\ p = copy[a].payload /\ p = store[c]
  BY DEF SerialInv, VerifiedInv, CopyPlace, TypeOK, Credential, Fresh
<1>2. CASE to \notin ValidTransitions[p.state]
  BY <1>1, <1>2 DEF Transition, StateSteps
<1>3. CASE to \in ValidTransitions[p.state]
  <2>1. PICK q : q = [p EXCEPT !.state = to]
    OBVIOUS
  <2>2. q.state = to
    BY <2>1 DEF Payload
  <2>3. store' = [store EXCEPT ![c] = q]
    BY <1>1, <1>3, <2>1 DEF Transition, Persist
  <2>4. store'[c] = q /\ \A d \in CredId : d # c => store'[d] = store[d]
    BY <2>3 DEF SerialInv, VerifiedInv, TypeOK
  <2> QED BY <1>1, <1>3, <2>2, <2>4 DEF StateSteps, Known
<1> QED BY <1>2, <1>3

\* A new point takes no id in use.
LEMMA NewPointSteps ==
    ASSUME SerialInv, NEW c \in Unused, NEW payload, Persist(c, payload) PROVE StateSteps
<1>1. \A d \in Known : store'[d] = store[d]
  BY DEF Unused, Known, Persist, SerialInv, VerifiedInv, TypeOK
<1> QED BY <1>1 DEF StateSteps

LEMMA SerialSteps == SerialInv /\ [Next]_vars => StateSteps
<1> SUFFICES ASSUME SerialInv, [Next]_vars PROVE StateSteps
  OBVIOUS
<1>1. ASSUME UNCHANGED store PROVE StateSteps
  BY <1>1 DEF StateSteps
<1>2. ASSUME NEW a \in Actor, Provision(a) PROVE StateSteps
  <2>1. PICK c \in Unused : \/ Persist(c, [Absent EXCEPT !.state = "PROVISION"])
                            \/ UNCHANGED store
    BY <1>2 DEF Provision
  <2>2. PICK p : p = [Absent EXCEPT !.state = "PROVISION"]
    OBVIOUS
  <2>3. Persist(c, p) \/ UNCHANGED store
    BY <2>1, <2>2
  <2> QED BY <1>1, <2>3, NewPointSteps
<1>3. ASSUME NEW a \in Actor, Rotate(a) PROVE StateSteps
  <2>1. PICK c \in Unused : Persist(c, [copy[a].payload EXCEPT !.previous = copy[a].id])
    BY <1>3 DEF Rotate
  <2>2. PICK p : p = [copy[a].payload EXCEPT !.previous = copy[a].id]
    OBVIOUS
  <2>3. Persist(c, p)
    BY <2>1, <2>2
  <2> QED BY <2>3, NewPointSteps
<1>4. ASSUME NEW a \in Actor, Throttle(a) PROVE StateSteps
  <2>1. op[a] # Idle /\ op[a].name # "reload"
    BY <1>4 DEF Throttle, Idle
  <2>2. PICK c \in CredId, p \in Payload :
            c = copy[a].id /\ p = copy[a].payload /\ p = store[c]
    BY <2>1 DEF SerialInv, VerifiedInv, CopyPlace, TypeOK, Credential, Fresh
  <2>3. PICK q : q = [p EXCEPT !.throttled = TRUE]
    OBVIOUS
  <2>4. q.state = p.state
    BY <2>3 DEF Payload
  <2>5. store' = [store EXCEPT ![c] = q]
    BY <1>4, <2>2, <2>3 DEF Throttle, Persist
  <2>6. store'[c] = q /\ \A d \in CredId : d # c => store'[d] = store[d]
    BY <2>5 DEF SerialInv, VerifiedInv, TypeOK
  <2> QED BY <2>2, <2>4, <2>6 DEF StateSteps, Known
<1>5. ASSUME NEW a \in Actor, \/ Authenticate(a) \/ Authorize(a) \/ Monitor(a) \/ Suspend(a)
                              \/ Revoke(a)
      PROVE  StateSteps
  <2>1. op[a] # Idle /\ op[a].name # "reload"
    <3>1. op[a].name \in {"authenticate", "authorize", "monitor", "suspend", "unsuspend",
                           "revoke"}
      BY <1>5, Zenon DEF Authenticate, Authorize, Monitor, Suspend, Revoke
    <3> QED BY <3>1 DEF Idle
  <2>2. PICK to \in ValidStates : Transition(a, to)
    BY <1>5 DEF Authenticate, Authorize, Monitor, Suspend, Revoke, ValidStates
  <2> QED BY <2>1, <2>2, TransitionSteps
<1>6. ASSUME NEW a \in Actor, \/ Begin(a) \/ TimerFires(a) \/ Reload(a) \/ Abort(a)
                              \/ TimerDies(a)
      PROVE  UNCHANGED store
  BY <1>6 DEF Begin, TimerFires, LoadFor, Reload, Abort, TimerDies
<1> QED
  BY <1>1, <1>2, <1>3, <1>4, <1>5, <1>6 DEF Next, Write, vars

\* When operations do not overlap, every change of a stored credential's state is
\* a transition of the table, wherever a process fails.
THEOREM TransitionsFollowTable == ASSUME ~Concurrent PROVE Spec => TransitionsValid
<1>1. Init => SerialInv
  BY VerifiedInit DEF Init, SerialInv, Alone, Fresh
<1>2. SerialInv /\ [Next]_vars => SerialInv'
  BY SerialNext
<1>3. SerialInv /\ [Next]_vars =>
          [\A c \in Known : store'[c].state # store[c].state =>
               store'[c].state \in ValidTransitions[store[c].state]]_vars
  BY SerialSteps DEF StateSteps
<1> QED BY <1>1, <1>2, <1>3, PTL DEF Spec, TransitionsValid

-------------------------------------------------------------------------------
(* What a load sees, followed through an operation that nothing overlaps: the  *)
(* operation under way holds what a load would see now, and authorize, between *)
(* its halves, has left it in AUTHORIZE.  That several credentials may exist   *)
(* matters here: the one seen is the one with the lowest id.                   *)

InView ==
    \A a \in Actor : op[a] # Idle =>
        /\ IF op[a].name = "reload" THEN Load.payload.state = "AUTHORIZE"
                                    ELSE copy[a] = Load
        /\ op[a].name = "authorize" => copy[a].payload.state = "AUTHENTICATE"
        /\ op[a].name = "monitor" => copy[a].payload.state = "AUTHORIZE"

SeenInv == SerialInv /\ InView

LEMMA LeastUnique ==
    ASSUME NEW S \in SUBSET Nat, NEW c \in S, \A d \in S : c <= d
    PROVE  (CHOOSE x \in S : \A d \in S : x <= d) = c
<1>1. PICK x \in S : x = (CHOOSE y \in S : \A d \in S : y <= d) /\ \A d \in S : x <= d
  OBVIOUS
<1>2. x <= c /\ c <= x /\ x \in Nat /\ c \in Nat
  BY <1>1
<1> QED BY <1>1, <1>2

\* What is seen stays the one seen when its point is overwritten.
LEMMA LoadOverwritten ==
    ASSUME TypeOK, TypeOK', Stored(Load), NEW q, q.state # "absent",
           store' = [store EXCEPT ![Load.id] = q]
    PROVE  Load'.id = Load.id /\ Load'.payload = q
<1>1. PICK c \in CredId : c = Load.id /\ store[c].state # "absent"
  BY DEF Stored
<1>2. Known # {} /\ Known \in SUBSET Nat
  BY <1>1 DEF Known, CredId
<1>3. PICK l \in Known : \A d \in Known : l <= d
  BY <1>2, LeastExists
<1>4. Load = [id |-> l, payload |-> store[l]]
  BY <1>2, <1>3, LeastUnique DEF Load
<1>5. l = c
  BY <1>1, <1>4
<1>6. store'[c] = q /\ \A d \in CredId : d # c => store'[d] = store[d]
  BY <1>1 DEF TypeOK
<1>7. Known' = Known
  BY <1>1, <1>6 DEF Known
<1>8. Load' = [id |-> l, payload |-> store'[l]]
  BY <1>2, <1>3, <1>7, LeastUnique DEF Load
<1> QED BY <1>1, <1>5, <1>6, <1>8

LEMMA LoadSame == ASSUME UNCHANGED store PROVE Load' = Load
BY DEF Load, Known

\* What the operation under way has loaded.
LEMMA HoldsSeen ==
    ASSUME SeenInv, NEW a \in Actor, op[a] # Idle, op[a].name # "reload"
    PROVE  /\ copy[a] = Load /\ Stored(Load)
           /\ Load.id \in CredId /\ Load.payload \in Payload
           /\ Load.payload.state \in ValidStates
<1>1. copy[a] = Load /\ copy[a].payload.state \in ValidStates
  BY DEF SeenInv, SerialInv, VerifiedInv, InView, CopyPlace
<1>2. Load \in Credential /\ (Load = Nothing \/ Stored(Load))
  BY LoadFinds DEF SeenInv, SerialInv, VerifiedInv
<1>3. Load # Nothing
  BY <1>1 DEF Nothing, Absent, ValidStates
<1> QED BY <1>1, <1>2, <1>3 DEF Stored, Credential

\* Its transition is one of what is seen.
LEMMA TransitionSeen ==
    ASSUME SeenInv, TypeOK', NEW a \in Actor, op[a] # Idle, op[a].name # "reload",
           NEW to, Transition(a, to)
    PROVE  IF to \in ValidTransitions[Load.payload.state]
           THEN Load'.id = Load.id /\ Load'.payload.state = to /\ store'[Load.id].state = to
           ELSE Load' = Load
<1>1. /\ copy[a] = Load /\ Stored(Load)
      /\ Load.id \in CredId /\ Load.payload \in Payload /\ Load.payload.state \in ValidStates
  BY HoldsSeen
<1>2. CASE to \notin ValidTransitions[Load.payload.state]
  BY <1>1, <1>2, LoadSame DEF Transition
<1>3. CASE to \in ValidTransitions[Load.payload.state]
  <2>1. to \in ValidStates
    BY <1>1, <1>3, TableFacts
  <2>2. PICK q \in Payload : q = [Load.payload EXCEPT !.state = to] /\ q.state = to
    BY <1>1, <2>1, WithState
  <2>3. store' = [store EXCEPT ![Load.id] = q]
    BY <1>1, <1>3, <2>2 DEF Transition, Persist
  <2>4. Load'.id = Load.id /\ Load'.payload = q
    <3>1. q.state # "absent"
      BY <2>1, <2>2 DEF ValidStates
    <3>2. TypeOK
      BY DEF SeenInv, SerialInv, VerifiedInv
    <3> QED BY <1>1, <2>3, <3>1, <3>2, LoadOverwritten
  <2>5. store'[Load.id] = q
    BY <1>1, <2>3 DEF SeenInv, SerialInv, VerifiedInv, TypeOK
  <2> QED BY <1>3, <2>2, <2>4, <2>5
<1> QED BY <1>2, <1>3

LEMMA SeenNext == ASSUME ~Concurrent PROVE SeenInv /\ [Next]_vars => SeenInv'
<1> SUFFICES ASSUME SeenInv, [Next]_vars PROVE InView'
  BY SerialNext DEF SeenInv
<1>0. SerialInv /\ SerialInv' /\ InView /\ TypeOK /\ TypeOK'
  BY SerialNext DEF SeenInv, SerialInv, VerifiedInv
<1>1. ASSUME \A a \in Actor : op'[a] = Idle PROVE InView'
  BY <1>1 DEF InView
<1>2. ASSUME NEW a \in Actor, op[a] # Idle
      PROVE  \A b \in Actor : b # a => op[b] = Idle
  BY <1>0, <1>2 DEF SerialInv, Alone
<1>3. ASSUME NEW a \in Actor, op[a] # Idle, Done(a) PROVE InView'
  <2>1. \A b \in Actor : op'[b] = Idle
    BY <1>0, <1>2, <1>3 DEF Done, TypeOK
  <2> QED BY <1>1, <2>1
<1>4. ASSUME UNCHANGED <<store, op, copy>> PROVE InView'
  BY <1>0, <1>4, LoadSame DEF InView
<1>5. ASSUME NEW a \in Actor, Provision(a) PROVE InView'
  <2>1. UNCHANGED op /\ \A b \in Actor : op[b] = Idle
    BY <1>5 DEF Provision, MayBegin
  <2> QED BY <1>1, <2>1
<1>6. ASSUME NEW a \in Actor, MayBegin(a), NEW name \in Operations \ {"reload", "monitor"},
             NEW token, NEW ok, LoadFor(a, name, token, ok)
      PROVE  InView'
  <2>1. UNCHANGED store /\ Load' = Load /\ \A b \in Actor : op[b] = Idle
    BY <1>6, LoadSame DEF LoadFor, MayBegin
  <2>2. CASE UNCHANGED <<op, copy>>
    BY <1>4, <2>1, <2>2
  <2>3. CASE ~UNCHANGED <<op, copy>>
    <3>1. PICK seen \in Seen :
              /\ Proceeds(name, seen.payload.state)
              /\ op' = [op EXCEPT ![a] = [name |-> name, token |-> token, ok |-> ok]]
              /\ copy' = [copy EXCEPT ![a] = seen]
      BY <1>6, <2>3 DEF LoadFor
    <3>2. copy'[a] = seen /\ op'[a].name = name /\ \A b \in Actor : b # a => op'[b] = Idle
      BY <1>0, <2>1, <3>1 DEF TypeOK
    <3>3. seen.payload.state # "absent"
      BY <3>1 DEF Proceeds, ValidStates
    <3>4. seen = Load
      BY <3>3 DEF Seen, Nothing, Absent
    <3>5. /\ name # "reload" /\ name # "monitor"
          /\ name = "authorize" => seen.payload.state = "AUTHENTICATE"
      BY <3>1 DEF Proceeds
    <3> QED BY <2>1, <3>2, <3>4, <3>5 DEF InView
  <2> QED BY <2>2, <2>3
<1>7. ASSUME NEW a \in Actor, Begin(a) PROVE InView'
  <2>1. PICK name \in Operations \ {"reload", "monitor"}, token \in CredId \cup {NoCred},
             ok \in BOOLEAN : LoadFor(a, name, token, ok)
    BY <1>7 DEF Begin, Operations, Known
  <2>2. MayBegin(a)
    BY <1>7 DEF Begin
  <2> QED BY <1>6, <2>1, <2>2
<1>8. ASSUME NEW a \in Actor, TimerFires(a) PROVE InView'
  <2>1. LoadFor(a, "rotate", NoCred, TRUE) /\ MayBegin(a)
    BY <1>8 DEF TimerFires
  <2>2. "rotate" \in Operations \ {"reload", "monitor"}
    BY DEF Operations
  <2> QED BY <1>6, <2>1, <2>2
<1>9. ASSUME NEW a \in Actor, Authorize(a) PROVE InView'
  <2>1. op[a].name = "authorize" /\ op[a] # Idle
    BY <1>9 DEF Authorize, Idle
  <2>2. CASE ~op[a].ok
    BY <1>3, <1>9, <2>1, <2>2 DEF Authorize
  <2>3. CASE op[a].ok
    <3>1. Transition(a, "AUTHORIZE") /\ op' = [op EXCEPT ![a].name = "reload"]
      BY <1>9, <2>3 DEF Authorize
    <3>2. copy[a] = Load /\ copy[a].payload.state = "AUTHENTICATE"
      BY <1>0, <2>1, HoldsSeen DEF InView
    <3>3. "AUTHORIZE" \in ValidTransitions[Load.payload.state]
      BY <3>2 DEF ValidTransitions
    <3>4. Load'.payload.state = "AUTHORIZE"
      BY <1>0, <2>1, <3>1, <3>3, TransitionSeen
    <3>5. op'[a].name = "reload" /\ \A b \in Actor : b # a => op'[b] = Idle
      BY <1>0, <1>2, <2>1, <3>1 DEF TypeOK, Pending
    <3> QED BY <3>4, <3>5 DEF InView
  <2> QED BY <2>2, <2>3
<1>10. ASSUME NEW a \in Actor, Reload(a) PROVE InView'
  <2>1. op[a].name = "reload" /\ op[a] # Idle /\ UNCHANGED store /\ Load' = Load
    BY <1>10, LoadSame DEF Reload, Idle
  <2>2. Load.payload.state = "AUTHORIZE"
    BY <1>0, <2>1 DEF InView
  <2>3. op' = [op EXCEPT ![a].name = "monitor"] /\ copy' = [copy EXCEPT ![a] = Load]
    BY <1>10, <2>2 DEF Reload
  <2>4. /\ op'[a].name = "monitor" /\ copy'[a] = Load
        /\ \A b \in Actor : b # a => op'[b] = Idle
    BY <1>0, <1>2, <2>1, <2>3 DEF TypeOK, Pending
  <2> QED BY <2>1, <2>2, <2>4 DEF InView
<1>11. ASSUME NEW a \in Actor, \/ Authenticate(a) \/ Monitor(a) \/ Rotate(a) \/ Suspend(a)
                               \/ Revoke(a) \/ Throttle(a)
       PROVE  InView'
  <2>1. op[a].name \in Operations
    BY <1>11, Zenon DEF Authenticate, Monitor, Rotate, Suspend, Revoke, Throttle, Operations
  <2>2. op[a] # Idle
    BY <2>1 DEF Idle, Operations
  <2>3. Done(a)
    BY <1>11 DEF Authenticate, Monitor, Rotate, Suspend, Revoke, Throttle
  <2> QED BY <1>3, <2>2, <2>3
<1>12. ASSUME NEW a \in Actor, Abort(a) PROVE InView'
  BY <1>3, <1>12 DEF Abort
<1> QED
  BY <1>4, <1>5, <1>7, <1>8, <1>9, <1>10, <1>11, <1>12 DEF Next, Write, TimerDies, vars

LEMMA SeenInit == Init => SeenInv
BY VerifiedInit DEF Init, SeenInv, SerialInv, Alone, Fresh, InView

-------------------------------------------------------------------------------
(* What the operations then do to the credential that is seen. *)

\* authorize says yes of what is monitored.
MonitoredStep ==
    answer' # answer /\ answer'.op = "authorize" /\ answer'.yes =>
        store'[answer'.cred].state = "MONITOR"

LEMMA MonitoredSteps == SeenInv /\ TypeOK' /\ [Next]_vars => MonitoredStep
<1> SUFFICES ASSUME SeenInv, TypeOK', [Next]_vars,
                    answer' # answer, answer'.op = "authorize", answer'.yes
             PROVE  store'[answer'.cred].state = "MONITOR"
  BY DEF MonitoredStep
<1>0. InView /\ TypeOK
  BY DEF SeenInv, SerialInv, VerifiedInv
<1>1. PICK a \in Actor : Reload(a) \/ Monitor(a)
  <2>1. PICK a \in Actor : \/ Provision(a) \/ Begin(a) \/ TimerFires(a) \/ Write(a)
                           \/ Abort(a) \/ TimerDies(a)
    BY DEF Next, vars
  <2>2. ~LoadFor(a, "rotate", NoCred, TRUE)
    BY DEF LoadFor, Answer
  <2>3. ~Begin(a)
    BY DEF Begin, LoadFor, Answer
  <2>4. ~Authorize(a)
    BY DEF Authorize, Answer
  <2>5. ~Suspend(a)
    BY DEF Suspend, Answer
  <2>6. ~Provision(a) /\ ~Authenticate(a) /\ ~Rotate(a) /\ ~Revoke(a) /\ ~Throttle(a)
    BY DEF Provision, Authenticate, Rotate, Revoke, Throttle, Answer
  <2> QED BY <2>1, <2>2, <2>3, <2>4, <2>5, <2>6 DEF TimerFires, Write, Abort, TimerDies
<1>2. CASE Reload(a)
  <2>1. op[a].name = "reload" /\ op[a] # Idle
    BY <1>2 DEF Reload, Idle
  <2>2. Load.payload.state = "AUTHORIZE"
    BY <1>0, <2>1 DEF InView
  <2> QED BY <1>2, <2>2 DEF Reload
<1>3. CASE Monitor(a)
  <2>1. /\ op[a].name = "monitor" /\ op[a] # Idle /\ Transition(a, "MONITOR")
        /\ answer'.cred = copy[a].id
    BY <1>3 DEF Monitor, Idle, Answer
  <2>2. copy[a] = Load /\ Load.payload.state = "AUTHORIZE"
    BY <1>0, <2>1, HoldsSeen DEF InView
  <2>3. "MONITOR" \in ValidTransitions[Load.payload.state]
    BY <2>2 DEF ValidTransitions
  <2>4. store'[Load.id].state = "MONITOR"
    BY <2>1, <2>3, TransitionSeen
  <2> QED BY <2>1, <2>2, <2>4
<1> QED BY <1>1, <1>2, <1>3

\* When operations do not overlap, authorize answers yes only of a credential that is in
\* MONITOR when it answers, although its second half loads again and answers yes whatever
\* it finds.
THEOREM YesIsMonitored == ASSUME ~Concurrent PROVE Spec => AuthorizedIsMonitored
<1>1. SeenInv /\ [Next]_vars => SeenInv'
  BY SeenNext
<1>2. SeenInv /\ SeenInv' /\ [Next]_vars =>
          [answer' # answer /\ answer'.op = "authorize" /\ answer'.yes =>
               store'[answer'.cred].state = "MONITOR"]_vars
  BY MonitoredSteps DEF MonitoredStep, SeenInv, SerialInv, VerifiedInv
<1> QED BY SeenInit, <1>1, <1>2, PTL DEF Spec, AuthorizedIsMonitored

Restricted(payload) == \A t \in Tool \ ReadOnlyTool : ~ScopeAllows(t, payload)

LEMMA RestrictedStates ==
    ASSUME NEW p, p.state \in {"SUSPEND", "REVOKE"} PROVE Restricted(p)
BY DEF Restricted, ScopeAllows

\* No other step lifts the restriction of what is seen.
LEMMA RestrictedSteps ==
    ASSUME SeenInv, TypeOK', [Next]_vars, Load.payload.state \in {"SUSPEND", "REVOKE"}
    PROVE  \/ Restricted(Load'.payload)
           \/ \E a \in Actor : Provision(a) \/ (op[a].name = "unsuspend" /\ Suspend(a))
<1>0. InView /\ TypeOK /\ CopyPlace
  BY DEF SeenInv, SerialInv, VerifiedInv
<1>1. ASSUME UNCHANGED store PROVE Restricted(Load'.payload)
  BY <1>1, LoadSame, RestrictedStates
<1>2. ASSUME NEW a \in Actor, op[a] # Idle, op[a].name # "reload", NEW to,
             Transition(a, to), to # "MONITOR"
      PROVE  Restricted(Load'.payload)
  <2>1. CASE to \notin ValidTransitions[Load.payload.state]
    BY <1>2, <2>1, TransitionSeen, RestrictedStates
  <2>2. CASE to \in ValidTransitions[Load.payload.state]
    <3>1. to = "REVOKE"
      BY <1>2, <2>2 DEF ValidTransitions
    <3>2. Load'.payload.state = "REVOKE"
      BY <1>2, <2>2, <3>1, TransitionSeen
    <3> QED BY <3>2, RestrictedStates
  <2> QED BY <2>1, <2>2
<1>3. ASSUME NEW a \in Actor, \/ Authenticate(a) \/ Authorize(a) \/ Revoke(a)
                              \/ Suspend(a) /\ op[a].name # "unsuspend"
      PROVE  Restricted(Load'.payload)
  <2>1. op[a] # Idle /\ op[a].name # "reload"
    <3>1. op[a].name \in {"authenticate", "authorize", "revoke", "suspend"}
      BY <1>3, Zenon DEF Authenticate, Authorize, Revoke, Suspend
    <3> QED BY <3>1 DEF Idle
  <2>2. PICK to \in ValidStates : Transition(a, to) /\ to # "MONITOR"
    BY <1>3 DEF Authenticate, Authorize, Revoke, Suspend, ValidStates
  <2> QED BY <1>2, <2>1, <2>2
<1>4. ASSUME NEW a \in Actor, Monitor(a) \/ Rotate(a) PROVE FALSE
  <2>1. op[a].name \in {"monitor", "rotate"} /\ op[a] # Idle
    <3>1. op[a].name \in {"monitor", "rotate"}
      BY <1>4, Zenon DEF Monitor, Rotate
    <3> QED BY <3>1 DEF Idle
  <2>2. copy[a] = Load /\ copy[a].payload.state \in {"AUTHORIZE", "MONITOR"}
    BY <1>0, <2>1, HoldsSeen DEF InView, CopyPlace
  <2> QED BY <2>2
<1>5. ASSUME NEW a \in Actor, Throttle(a) PROVE Restricted(Load'.payload)
  <2>1. op[a].name = "throttle" /\ op[a] # Idle
    BY <1>5 DEF Throttle, Idle
  <2>2. copy[a] = Load /\ Stored(Load) /\ Load.payload \in Payload
    BY <2>1, HoldsSeen
  <2>3. PICK q : q = [Load.payload EXCEPT !.throttled = TRUE]
    OBVIOUS
  <2>4. q.state = Load.payload.state
    BY <2>2, <2>3 DEF Payload
  <2>5. store' = [store EXCEPT ![Load.id] = q] /\ q.state # "absent"
    BY <1>5, <2>2, <2>3, <2>4 DEF Throttle, Persist
  <2>6. Load'.payload = q
    BY <1>0, <2>2, <2>5, LoadOverwritten
  <2> QED BY <2>4, <2>6, RestrictedStates
<1>6. ASSUME NEW a \in Actor, \/ Begin(a) \/ TimerFires(a) \/ Reload(a) \/ Abort(a)
                              \/ TimerDies(a)
      PROVE  UNCHANGED store
  BY <1>6 DEF Begin, TimerFires, LoadFor, Reload, Abort, TimerDies
<1> QED
  BY <1>1, <1>3, <1>4, <1>5, <1>6 DEF Next, Write, vars

\* When operations do not overlap, a suspended or revoked session stays restricted to the
\* read-only tools, whatever rotates, throttles, dies or fails, until it is unsuspended or
\* provisioned anew.
THEOREM RestrictionStays == ASSUME ~Concurrent PROVE Spec => RestrictedUntilCleared
<1>1. SeenInv /\ [Next]_vars => SeenInv'
  BY SeenNext
<1>2. SeenInv /\ SeenInv' /\ [Next]_vars =>
          [Load.payload.state \in {"SUSPEND", "REVOKE"} =>
               \/ \A t \in Tool \ ReadOnlyTool : ~ScopeAllows(t, Load'.payload)
               \/ \E a \in Actor : Provision(a) \/ (op[a].name = "unsuspend" /\ Suspend(a))]_vars
  BY RestrictedSteps DEF Restricted, SeenInv, SerialInv, VerifiedInv
<1> QED BY SeenInit, <1>1, <1>2, PTL DEF Spec, RestrictedUntilCleared
===============================================================================
