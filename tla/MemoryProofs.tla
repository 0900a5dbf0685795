------------------------------ MODULE MemoryProofs ------------------------------
(***************************************************************************)
(* Theorems about MemoryWrite, for any set of writes and either value of   *)
(* the switches.  The bound on the number of rejections is a parameter.    *)
(***************************************************************************)
EXTENDS MemoryWrite, TLAPS

-------------------------------------------------------------------------------
(* Types, with the one review at a time that keeps to the bound. *)

\* A rejection under way is below the bound until it has archived; what was not
\* deleted after that was archived before.
Bounded ==
    \A w \in Write : /\ review[w] = "reject" => rejected[w] < MaxArchived
                     /\ review[w] = "archived" => undeleted[w] < rejected[w]
                     /\ undeleted[w] <= rejected[w]

TInv == TypeOK /\ Bounded

LEMMA VerdictType == \A suspect : Verdict(suspect) \in Verdicts
BY DEF Verdict, Verdicts

LEMMA InitTyped == Init => TInv
<1>1. NoInput \in Input
    BY DEF NoInput, Input
<1> SUFFICES ASSUME Init PROVE TInv
    OBVIOUS
<1>2. input \in [Write -> Input]
    BY <1>1 DEF Init
<1>3. rejected \in [Write -> 0..MaxArchived] /\ undeleted \in [Write -> 0..MaxArchived]
    BY ArchiveAssumption DEF Init
<1>4. /\ pc \in [Write -> Place] /\ verdict \in [Write -> Verdicts \cup {"none"}]
      /\ quarantine \in [Write -> {"absent", "pending", "promoted"}]
      /\ review \in [Write -> {"none", "promote", "reject", "archived"}]
      /\ skipped \in [Write -> {"no", "policy", "pipeline", "refusal"}]
    BY DEF Init, Place
<1>5. revoked \in BOOLEAN
    BY DEF Init
<1>6. TypeOK
    BY <1>2, <1>3, <1>4, <1>5 DEF TypeOK
<1>7. Bounded
    BY ArchiveAssumption DEF Init, Bounded
<1> QED BY <1>6, <1>7 DEF TInv

LEMMA HookTyped ==
    ASSUME TInv, NEW w \in Write,
           Begin(w) \/ UsePolicy(w) \/ BuildEntry(w) \/ ValidateProvenance(w)
               \/ Verify(w) \/ Refuse(w) \/ FailOpen(w) \/ Call(w)
    PROVE  TInv'
<1> USE DEF TInv, TypeOK, Bounded, Goto, Skip, Place, InHook, reviewVars
<1>1. CASE Begin(w)
    BY <1>1 DEF Begin, Input, Violates
<1>2. CASE UsePolicy(w)
    BY <1>2 DEF UsePolicy
<1>3. CASE BuildEntry(w)
    BY <1>3 DEF BuildEntry
<1>4. CASE ValidateProvenance(w)
    BY <1>4 DEF ValidateProvenance
<1>5. CASE Verify(w)
    BY <1>5, VerdictType DEF Verify, Look, Quarantine
<1>6. CASE Refuse(w)
    BY <1>6 DEF Refuse
<1>7. CASE FailOpen(w)
    BY <1>7 DEF FailOpen
<1>8. CASE Call(w)
    BY <1>8 DEF Call
<1> QED BY <1>1, <1>2, <1>3, <1>4, <1>5, <1>6, <1>7, <1>8

LEMMA ReviewTyped ==
    ASSUME TInv, NEW w \in Write,
           StartReview(w, "promote") \/ StartReview(w, "reject") \/ Promote(w) \/ Archive(w)
               \/ Delete(w) \/ ReviewFails(w)
    PROVE  TInv'
<1> USE ArchiveAssumption DEF TInv, TypeOK, Bounded, EndReview, hookVars
<1>1. CASE StartReview(w, "promote") \/ StartReview(w, "reject")
    BY <1>1 DEF StartReview
<1>2. CASE Promote(w)
    BY <1>2 DEF Promote
<1>3. CASE Archive(w)
    BY <1>3 DEF Archive
<1>4. CASE Delete(w)
    BY <1>4 DEF Delete
<1>5. CASE ReviewFails(w)
    BY <1>5 DEF ReviewFails
<1> QED BY <1>1, <1>2, <1>3, <1>4, <1>5

LEMMA NextTyped == TInv /\ [Next]_vars => TInv'
<1> SUFFICES ASSUME TInv, [Next]_vars PROVE TInv'
    OBVIOUS
<1>1. CASE Revoke
    BY <1>1 DEF Revoke, TInv, TypeOK, Bounded, hookVars, reviewVars
<1>2. CASE UNCHANGED vars
    BY <1>2 DEF vars, hookVars, reviewVars, TInv, TypeOK, Bounded
<1> QED BY <1>1, <1>2, HookTyped, ReviewTyped DEF Next

\* Type correctness: hooks, quarantine, archive and reviews keep their types, and no
\* entry is archived more often than the bound allows.
THEOREM TypeCorrect == Spec => []TypeOK
<1>1. TInv => TypeOK
    BY DEF TInv
<1> QED BY <1>1, InitTyped, NextTyped, PTL DEF Spec

THEOREM TypesInvariant == Spec => []TInv
BY InitTyped, NextTyped, PTL DEF Spec

-------------------------------------------------------------------------------
(* What is known of a write at each place of its hook. *)

PastPolicy == {"lawful", "entry", "vouched", "refusing", "allowed", "stored"}
Early == {"idle", "begun", "lawful", "entry", "vouched"}

\* Only a hook that began after the revocation is late.
LateAfterRevocation == \A w \in Write : input[w].late => revoked

\* A hook that is still at its checks has left out none but those of the pipeline.
OnCourse ==
    \A w \in Write : pc[w] \in InHook \cup {"idle"} => skipped[w] \in {"no", "pipeline"}

\* A write that got past the use policy is lawful, or its hook failed before it.
PolicyKnown ==
    \A w \in Write : pc[w] \in PastPolicy => input[w].lawful \/ skipped[w] = "policy"

\* What the checks that were not left out have said of a write.
ChecksKnown ==
    \A w \in Write : skipped[w] = "no" =>
        /\ pc[w] \in {"vouched", "allowed", "stored"} => input[w].session /\ ~input[w].late
        /\ pc[w] \in {"allowed", "stored"} => verdict[w] = "pass"

\* An entry comes into the quarantine once, and its write is then refused, or its hook
\* was killed before it could say so.
ApartKnown ==
    \A w \in Write : quarantine[w] # "absent" \/ rejected[w] > 0 =>
        /\ pc[w] \notin Early
        /\ pc[w] \in {"allowed", "stored"} => skipped[w] = "refusal"

HookInv == LateAfterRevocation /\ OnCourse /\ PolicyKnown /\ ChecksKnown /\ ApartKnown

LEMMA InitHook == Init => HookInv
BY DEF Init, HookInv, LateAfterRevocation, OnCourse, PolicyKnown, ChecksKnown, ApartKnown,
       NoInput, PastPolicy, Early

LEMMA HookKept ==
    ASSUME TInv, HookInv, NEW w \in Write,
           Begin(w) \/ UsePolicy(w) \/ BuildEntry(w) \/ ValidateProvenance(w)
               \/ Verify(w) \/ Refuse(w) \/ FailOpen(w) \/ Call(w)
    PROVE  HookInv'
<1> USE DEF TInv, TypeOK, HookInv, LateAfterRevocation, OnCourse, PolicyKnown, ChecksKnown,
            ApartKnown, PastPolicy, Early, InHook, Goto, Skip, reviewVars
<1>1. CASE Begin(w)
    BY <1>1 DEF Begin
<1>2. CASE UsePolicy(w)
    BY <1>2 DEF UsePolicy
<1>3. CASE BuildEntry(w)
    BY <1>3 DEF BuildEntry
<1>4. CASE ValidateProvenance(w)
    BY <1>4 DEF ValidateProvenance
<1>5. CASE Verify(w)
    BY <1>5, VerdictType DEF Verify, Look, Quarantine
<1>6. CASE Refuse(w)
    BY <1>6 DEF Refuse
<1>7. CASE FailOpen(w)
    BY <1>7 DEF FailOpen
<1>8. CASE Call(w)
    BY <1>8 DEF Call
<1> QED BY <1>1, <1>2, <1>3, <1>4, <1>5, <1>6, <1>7, <1>8

\* A review works on entries that have been quarantined.
Reviewing == \A w \in Write : review[w] # "none" => quarantine[w] # "absent"

LEMMA ReviewingKept == TInv /\ Reviewing /\ [Next]_vars => Reviewing'
<1> SUFFICES ASSUME TInv, Reviewing, [Next]_vars PROVE Reviewing'
    OBVIOUS
<1> USE DEF TInv, TypeOK, Reviewing, hookVars, reviewVars, EndReview
<1>1. CASE Revoke \/ UNCHANGED vars
    BY <1>1 DEF Revoke, vars
<1>2. ASSUME NEW w \in Write,
             Begin(w) \/ UsePolicy(w) \/ BuildEntry(w) \/ ValidateProvenance(w)
                 \/ Refuse(w) \/ FailOpen(w) \/ Call(w)
      PROVE  Reviewing'
    BY <1>2 DEF Begin, UsePolicy, BuildEntry, ValidateProvenance, Refuse, FailOpen, Call
<1>3. ASSUME NEW w \in Write, Verify(w) PROVE Reviewing'
    BY <1>3 DEF Verify, Quarantine
<1>4. ASSUME NEW w \in Write, NEW action \in {"promote", "reject"}, StartReview(w, action)
      PROVE  Reviewing'
    BY <1>4 DEF StartReview
<1>5. ASSUME NEW w \in Write, Promote(w) \/ Archive(w) \/ Delete(w) \/ ReviewFails(w)
      PROVE  Reviewing'
    BY <1>5 DEF Promote, Archive, Delete, ReviewFails
<1> QED BY <1>1, <1>2, <1>3, <1>4, <1>5 DEF Next

LEMMA HookReviewed ==
    ASSUME TInv, HookInv, Reviewing, NEW w \in Write,
           StartReview(w, "promote") \/ StartReview(w, "reject") \/ Promote(w) \/ Archive(w)
               \/ Delete(w) \/ ReviewFails(w)
    PROVE  HookInv'
<1> USE DEF TInv, TypeOK, HookInv, LateAfterRevocation, OnCourse, PolicyKnown, ChecksKnown,
            ApartKnown, Reviewing, hookVars, EndReview
<1>1. CASE StartReview(w, "promote") \/ StartReview(w, "reject")
    BY <1>1 DEF StartReview
<1>2. CASE Promote(w)
    BY <1>2 DEF Promote
<1>3. CASE Archive(w)
    BY <1>3 DEF Archive
<1>4. CASE Delete(w)
    BY <1>4 DEF Delete
<1>5. CASE ReviewFails(w)
    BY <1>5 DEF ReviewFails
<1> QED BY <1>1, <1>2, <1>3, <1>4, <1>5

LEMMA NextHook == TInv /\ Reviewing /\ HookInv /\ [Next]_vars => HookInv'
<1> SUFFICES ASSUME TInv, Reviewing, HookInv, [Next]_vars PROVE HookInv'
    OBVIOUS
<1>1. CASE Revoke \/ UNCHANGED vars
    BY <1>1 DEF Revoke, vars, hookVars, reviewVars, HookInv, LateAfterRevocation, OnCourse,
                PolicyKnown, ChecksKnown, ApartKnown
<1> QED BY <1>1, HookKept, HookReviewed DEF Next

LEMMA InitReviewing == Init => Reviewing
BY DEF Init, Reviewing

THEOREM PlacesKnown == Spec => [](HookInv /\ Reviewing)
BY InitTyped, InitHook, InitReviewing, NextTyped, NextHook, ReviewingKept, PTL DEF Spec

\* For any number of writes, with hooks that raise or die anywhere and services that
\* come and go: what is stored was judged clean by every check that was not left out,
\* is lawful unless the hook failed before the policy, and is not in quarantine unless
\* the hook was killed in its refusal.
THEOREM StoredIsJudged == Spec => []StoredJudged
<1>1. HookInv => StoredJudged
    BY DEF HookInv, PolicyKnown, ChecksKnown, ApartKnown, PastPolicy, Stored,
           StoredJudged, OnlyCleanStored, UsePolicyKept, QuarantinedApart
<1> QED BY <1>1, PlacesKnown, PTL

-------------------------------------------------------------------------------
(* Reviews. *)

\* No review, wherever it fails, and no later one loses an entry: it is in the
\* quarantine or in the archive (reject stores before it deletes).
THEOREM EntriesKept == Spec => EntryKept
<1> DEFINE Here == \A w \in Write : quarantine[w] # "absent" \/ rejected[w] > 0 =>
                       quarantine'[w] # "absent" \/ rejected'[w] > 0
<1>1. TInv /\ [Next]_vars => Here
    <2> SUFFICES ASSUME TInv, [Next]_vars PROVE Here
        OBVIOUS
    <2> USE DEF TInv, TypeOK, Bounded, hookVars, reviewVars
    <2>1. CASE Revoke \/ UNCHANGED vars
        BY <2>1 DEF Revoke, vars
    <2>2. ASSUME NEW w \in Write,
                 Begin(w) \/ UsePolicy(w) \/ BuildEntry(w) \/ ValidateProvenance(w)
                     \/ Refuse(w) \/ FailOpen(w) \/ Call(w)
          PROVE  Here
        BY <2>2 DEF Begin, UsePolicy, BuildEntry, ValidateProvenance, Refuse, FailOpen, Call
    <2>3. ASSUME NEW w \in Write, Verify(w) PROVE Here
        BY <2>3 DEF Verify, Quarantine
    <2>4. ASSUME NEW w \in Write, NEW action \in {"promote", "reject"}, StartReview(w, action)
          PROVE  Here
        BY <2>4 DEF StartReview
    <2>5. ASSUME NEW w \in Write, Promote(w) \/ ReviewFails(w) PROVE Here
        BY <2>5 DEF Promote, ReviewFails
    <2>6. ASSUME NEW w \in Write, Archive(w) PROVE Here
        BY <2>6 DEF Archive
    <2>7. ASSUME NEW w \in Write, Delete(w) PROVE Here
        BY <2>7 DEF Delete
    <2> QED BY <2>1, <2>2, <2>3, <2>4, <2>5, <2>6, <2>7 DEF Next
<1>2. Here => [Here]_vars
    OBVIOUS
<1> QED BY <1>1, <1>2, TypesInvariant, PTL DEF Spec, EntryKept

LEMMA OnceKept ==
    TInv /\ HookInv /\ Reviewing /\ ArchivedOnce /\ [Next]_vars => ArchivedOnce'
<1> SUFFICES ASSUME TInv, HookInv, Reviewing, ArchivedOnce, [Next]_vars PROVE ArchivedOnce'
    OBVIOUS
<1> USE DEF TInv, TypeOK, Bounded, Reviewing, ArchivedOnce, hookVars, reviewVars, EndReview
<1>1. CASE Revoke \/ UNCHANGED vars
    BY <1>1 DEF Revoke, vars
<1>2. ASSUME NEW w \in Write,
             Begin(w) \/ UsePolicy(w) \/ BuildEntry(w) \/ ValidateProvenance(w)
                 \/ Refuse(w) \/ FailOpen(w) \/ Call(w)
      PROVE  ArchivedOnce'
    BY <1>2 DEF Begin, UsePolicy, BuildEntry, ValidateProvenance, Refuse, FailOpen, Call
<1>3. ASSUME NEW w \in Write, Verify(w) PROVE ArchivedOnce'
    <2>1. rejected[w] = 0
        BY <1>3 DEF Verify, HookInv, ApartKnown, Early
    <2> QED BY <2>1, <1>3 DEF Verify, Quarantine
<1>4. ASSUME NEW w \in Write, NEW action \in {"promote", "reject"}, StartReview(w, action)
      PROVE  ArchivedOnce'
    BY <1>4 DEF StartReview
<1>5. ASSUME NEW w \in Write, Promote(w) PROVE ArchivedOnce'
    BY <1>5 DEF Promote
<1>6. ASSUME NEW w \in Write, Archive(w) PROVE ArchivedOnce'
    BY <1>6 DEF Archive
<1>7. ASSUME NEW w \in Write, Delete(w) PROVE ArchivedOnce'
    BY <1>7 DEF Delete
<1>8. ASSUME NEW w \in Write, ReviewFails(w) PROVE ArchivedOnce'
    BY <1>8 DEF ReviewFails
<1> QED BY <1>1, <1>2, <1>3, <1>4, <1>5, <1>6, <1>7, <1>8 DEF Next

LEMMA InitOnce == Init => ArchivedOnce
BY DEF Init, ArchivedOnce

\* For any number of writes and reviews: an entry is archived once, and once more for
\* each delete that failed (reject).
THEOREM RejectedOnce == Spec => []ArchivedOnce
BY InitOnce, OnceKept, TypesInvariant, PlacesKnown, PTL DEF Spec
================================================================================
