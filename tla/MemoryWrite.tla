------------------------------ MODULE MemoryWrite ------------------------------
(***************************************************************************)
(* Memory writes: hooks/memory_integrity_hook.py, which runs before each   *)
(* memory_store call, the pipeline and the quarantine of                   *)
(* governance/lib/security/memory_integrity.py, and the operator's reviews *)
(* through dashboard_api.py.  A write is its own hook's process and its    *)
(* own quarantine entry.  The dashboard is one process whose handlers have *)
(* no await between the load of an entry and the end of its review, so     *)
(* there is one review at a time.                                          *)
(*                                                                         *)
(* The host carries out a call unless a hook answers "block": a hook that  *)
(* raises or is killed lets it through.  Similarities and distances are    *)
(* abstracted to what a write looks suspect of.  The call of the guardian  *)
(* after a refusal, whose exceptions are caught, is left out.              *)
(***************************************************************************)
EXTENDS Naturals, FiniteSets

CONSTANTS
    Write,        \* the memory_store calls
    MaxArchived,  \* bound: times an entry is archived as rejected
    Failures,     \* may a hook raise, find its services down, or be killed, and may a
                  \* step of a review fail?
    SizeChecked   \* does Qdrant refuse a vector that has not the collection's size?

ASSUME SwitchAssumption == {Failures, SizeChecked} \subseteq BOOLEAN
ASSUME ArchiveAssumption == MaxArchived \in Nat \ {0}

-------------------------------------------------------------------------------
(* The use policy. *)

Provenance == {"observed", "inferred", "user_confirmed", "imported", "generated"}

\* Sources, by how they are matched: "auto" stands for every name of a program that
\* extracts or generates.
Source == {"", "auto", "user", "import", "other"}

\* _derive_prov
Derived(source) ==
    CASE source = "auto"   -> "generated"
      [] source = "user"   -> "user_confirmed"
      [] source = "import" -> "imported"
      [] OTHER             -> "observed"

\* An explicit provenance, if it is one of the enumeration, goes before the source.
Effective(explicit, source) == IF explicit \in Provenance THEN explicit ELSE Derived(source)

\* _use_policy_block
Violates(instruct, explicit, source) ==
    instruct /\ Effective(explicit, source) \notin {"user_confirmed", "imported"}

-------------------------------------------------------------------------------
(* The pipeline's judgement of the content. *)

Suspicion == {"dissimilar", "contradicting", "anomalous"}

\* The stages that need an embedding, in their order.
Verdict(suspect) ==
    CASE "dissimilar" \in suspect    -> "quarantine"
      [] "contradicting" \in suspect -> "reject"
      [] "anomalous" \in suspect     -> "quarantine"
      [] OTHER                       -> "pass"

Verdicts == {"pass", "quarantine", "reject"}

-------------------------------------------------------------------------------
VARIABLES
    input,       \* input[w]: what the hook of w is given
    pc,          \* pc[w]: where the hook, and then the call, is
    verdict,     \* verdict[w]: what the complete pipeline says of w, once it is asked
    quarantine,  \* review_status of w's entry in memory_quarantine
    rejected,    \* how many entries memory_rejected has of w
    review,      \* review[w]: what the dashboard is doing with w's entry
    revoked,     \* the session's credential is revoked (agent_identity_sessions)
    skipped,     \* history: where the hook of w left its checks, if it did
    undeleted    \* history: reviews of w that archived it and did not delete it

hookVars == <<input, pc, verdict, skipped>>
reviewVars == <<review, rejected, undeleted>>
vars == <<hookVars, reviewVars, quarantine, revoked>>

\* lawful: the use policy allows it; session: a session id is known; stamped: it has
\* a timestamp; late: it began after the revocation.
Input == [lawful : BOOLEAN, session : BOOLEAN, stamped : BOOLEAN, late : BOOLEAN]
NoInput == [lawful |-> TRUE, session |-> TRUE, stamped |-> TRUE, late |-> FALSE]

InHook == {"begun", "lawful", "entry", "vouched", "refusing"}
Place == InHook \cup {"idle", "allowed", "stored", "blocked"}

TypeOK ==
    /\ input \in [Write -> Input]
    /\ pc \in [Write -> Place]
    /\ verdict \in [Write -> Verdicts \cup {"none"}]
    /\ quarantine \in [Write -> {"absent", "pending", "promoted"}]
    /\ rejected \in [Write -> 0..MaxArchived]
    /\ review \in [Write -> {"none", "promote", "reject", "archived"}]
    /\ revoked \in BOOLEAN
    /\ skipped \in [Write -> {"no", "policy", "pipeline", "refusal"}]
    /\ undeleted \in [Write -> 0..MaxArchived]

Init ==
    /\ input = [w \in Write |-> NoInput]
    /\ pc = [w \in Write |-> "idle"]
    /\ verdict = [w \in Write |-> "none"]
    /\ quarantine = [w \in Write |-> "absent"]
    /\ rejected = [w \in Write |-> 0]
    /\ review = [w \in Write |-> "none"]
    /\ revoked = FALSE
    /\ skipped = [w \in Write |-> "no"]
    /\ undeleted = [w \in Write |-> 0]

Goto(w, place) == pc' = [pc EXCEPT ![w] = place]
Skip(w, checks) == skipped' = [skipped EXCEPT ![w] = checks]

-------------------------------------------------------------------------------
(* The hook. *)

\* It reads its input, the session state and the manifest.
Begin(w) ==
    /\ pc[w] = "idle"
    /\ \E instruct, session, stamped \in BOOLEAN, source \in Source,
          explicit \in Provenance \cup {"none"} :
           input' = [input EXCEPT ![w] =
               [lawful |-> ~Violates(instruct, explicit, source), session |-> session,
                stamped |-> stamped, late |-> revoked]]
    /\ Goto(w, "begun")
    /\ UNCHANGED <<verdict, skipped, reviewVars, quarantine, revoked>>

UsePolicy(w) ==
    /\ pc[w] = "begun"
    /\ Goto(w, IF input[w].lawful THEN "lawful" ELSE "blocked")
    /\ UNCHANGED <<input, verdict, skipped, reviewVars, quarantine, revoked>>

\* Without a timestamp the entry asks for the time, and raises: a later import of
\* the same function has made datetime a local name that is not bound yet.
BuildEntry(w) ==
    /\ pc[w] = "lawful"
    /\ IF input[w].stamped
       THEN Goto(w, "entry") /\ UNCHANGED skipped
       ELSE Goto(w, "allowed") /\ Skip(w, "pipeline")
    /\ UNCHANGED <<input, verdict, reviewVars, quarantine, revoked>>

\* Mutant: a revoked session is accepted.
ValidateProvenanceLenient(w) ==
    /\ pc[w] = "entry"
    /\ Goto(w, IF input[w].session THEN "vouched" ELSE "refusing")
    /\ UNCHANGED <<input, verdict, skipped, reviewVars, quarantine, revoked>>

\* Stage 1, with the session's credential as it is stored now; a session that cannot
\* be looked up is taken for one that is not revoked.
ValidateProvenance(w) ==
    /\ pc[w] = "entry"
    /\ \E found \in {TRUE, ~Failures} :
           /\ Goto(w, IF input[w].session /\ ~(revoked /\ found)
                      THEN "vouched" ELSE "refusing")
           /\ IF found THEN UNCHANGED skipped ELSE Skip(w, "pipeline")
    /\ UNCHANGED <<input, verdict, reviewVars, quarantine, revoked>>

\* The stages, by what they would find, that get an embedding: embed answers None for
\* every failure, and the next stage asks again.
Embedded == IF Failures THEN SUBSET Suspicion ELSE {Suspicion}

\* The stages whose search is answered: none if Qdrant was not there at the first probe,
\* else all (or the hook raises).
Searched == IF Failures THEN {{}, Suspicion} ELSE {Suspicion}

\* What the stages can find: without the one or the other a stage passes.
Visible(suspect) == {suspect \cap e \cap q : e \in Embedded, q \in Searched}

Look(w, seen, suspect) ==
    /\ verdict' = [verdict EXCEPT ![w] = Verdict(suspect)]
    /\ IF seen = suspect THEN UNCHANGED skipped ELSE Skip(w, "pipeline")

\* The entry is stored in memory_quarantine, under a new id.
Quarantine(w) == quarantine' = [quarantine EXCEPT ![w] = "pending"]

\* Stages 2 to 4.
Verify(w) ==
    /\ pc[w] = "vouched"
    /\ \E suspect \in SUBSET Suspicion :
        \E seen \in Visible(suspect) :
           /\ Look(w, seen, suspect)
           /\ Goto(w, IF Verdict(seen) = "pass" THEN "allowed" ELSE "refusing")
           /\ IF Verdict(seen) = "quarantine" THEN Quarantine(w) ELSE UNCHANGED quarantine
    /\ UNCHANGED <<input, reviewVars, revoked>>

\* The hook prints its refusal.
Refuse(w) ==
    /\ pc[w] = "refusing" /\ Goto(w, "blocked")
    /\ UNCHANGED <<input, verdict, skipped, reviewVars, quarantine, revoked>>

\* The hook raises (and answers {}), or is killed.
FailOpen(w) ==
    /\ Failures /\ pc[w] \in InHook
    /\ Goto(w, "allowed")
    /\ Skip(w, CASE pc[w] = "begun" -> "policy"
                 [] pc[w] = "refusing" -> "refusal"
                 [] OTHER -> "pipeline")
    /\ UNCHANGED <<input, verdict, reviewVars, quarantine, revoked>>

\* The host carries the call out, or another hook refuses it.
Call(w) ==
    /\ pc[w] = "allowed"
    /\ Goto(w, "stored") \/ Goto(w, "blocked")
    /\ UNCHANGED <<input, verdict, skipped, reviewVars, quarantine, revoked>>

\* The identity lifecycle revokes the session's credential.
Revoke ==
    /\ ~revoked /\ revoked' = TRUE
    /\ UNCHANGED <<hookVars, reviewVars, quarantine>>

-------------------------------------------------------------------------------
(* Reviews. *)

\* review_quarantine loads the entry.  (One that is absent is answered 404.  The
\* bound is on rejections.)
StartReview(w, action) ==
    /\ \A v \in Write : review[v] = "none"
    /\ quarantine[w] # "absent"
    /\ action = "reject" => rejected[w] < MaxArchived
    /\ review' = [review EXCEPT ![w] = action]
    /\ UNCHANGED <<hookVars, rejected, undeleted, quarantine, revoked>>

EndReview(w) == review' = [review EXCEPT ![w] = "none"]

\* promote writes the entry back with its new status.  It passes no vector, and the
\* default has one dimension where the collection has 768.
Promote(w) ==
    /\ review[w] = "promote" /\ ~SizeChecked
    /\ quarantine' = [quarantine EXCEPT ![w] = "promoted"]
    /\ EndReview(w)
    /\ UNCHANGED <<hookVars, rejected, undeleted, revoked>>

\* Mutant: the entry is deleted before it is archived.
ArchiveLate(w) ==
    /\ review[w] = "reject"
    /\ quarantine' = [quarantine EXCEPT ![w] = "absent"]
    /\ review' = [review EXCEPT ![w] = "archived"]
    /\ UNCHANGED <<hookVars, rejected, undeleted, revoked>>

\* Mutant: the archive is a status of the entry.
ArchiveInPlace(w) ==
    /\ review[w] = "reject"
    /\ quarantine' = [quarantine EXCEPT ![w] = "rejected"]
    /\ review' = [review EXCEPT ![w] = "archived"]
    /\ UNCHANGED <<hookVars, rejected, undeleted, revoked>>

\* reject stores the entry in memory_rejected,
Archive(w) ==
    /\ review[w] = "reject"
    /\ rejected' = [rejected EXCEPT ![w] = @ + 1]
    /\ review' = [review EXCEPT ![w] = "archived"]
    /\ UNCHANGED <<hookVars, undeleted, quarantine, revoked>>

\* Mutant: the rejected entry stays in the quarantine.
DeleteSkipped(w) ==
    /\ review[w] = "archived" /\ EndReview(w)
    /\ UNCHANGED <<hookVars, rejected, undeleted, quarantine, revoked>>

\* and deletes it from the quarantine.
Delete(w) ==
    /\ review[w] = "archived" /\ EndReview(w)
    /\ quarantine' = [quarantine EXCEPT ![w] = "absent"]
    /\ UNCHANGED <<hookVars, rejected, undeleted, revoked>>

\* The next call of the review fails (nobody looks whether the delete did), or the
\* dashboard dies.
ReviewFails(w) ==
    /\ review[w] # "none" /\ EndReview(w)
    /\ Failures \/ (SizeChecked /\ review[w] = "promote")
    /\ undeleted' = IF review[w] = "archived" THEN [undeleted EXCEPT ![w] = @ + 1]
                    ELSE undeleted
    /\ UNCHANGED <<hookVars, rejected, quarantine, revoked>>

Next ==
    \/ \E w \in Write :
        \/ Begin(w) \/ UsePolicy(w) \/ BuildEntry(w) \/ ValidateProvenance(w)
        \/ Verify(w) \/ Refuse(w) \/ FailOpen(w) \/ Call(w)
        \/ StartReview(w, "promote") \/ StartReview(w, "reject")
        \/ Promote(w) \/ Archive(w) \/ Delete(w) \/ ReviewFails(w)
    \/ Revoke

Spec == Init /\ [][Next]_vars

-------------------------------------------------------------------------------
(* Properties. *)

Stored == {w \in Write : pc[w] = "stored"}

\* Every memory that is stored has been through the pipeline ("FAIL CLOSED on
\* exception", memory_integrity_hook.py).
VerifiedBeforeStored == \A w \in Stored : skipped[w] = "no"

\* A write whose hook left none of its checks out is stored only if its session is
\* known and was not revoked before it began, and nothing about it is suspect
\* (verify, and the block of the hook).
OnlyCleanStored ==
    \A w \in Stored : skipped[w] = "no" =>
        input[w].session /\ ~input[w].late /\ verdict[w] = "pass"

\* Unless the hook fails before it gets to the use policy, no memory is stored for
\* use as an instruction that is not confirmed by a user or imported, whatever fails
\* later ("it does no I/O so it cannot raise on infrastructure").
UsePolicyKept == \A w \in Stored : input[w].lawful \/ skipped[w] = "policy"

\* An entry put into quarantine is not stored as a memory, unless the hook is killed
\* between the two (quarantine, then the block).
QuarantinedApart ==
    \A w \in Stored : quarantine[w] # "absent" \/ rejected[w] > 0 => skipped[w] = "refusal"

\* The three: what the hook and the pipeline decided about a memory is what became
\* of it.
StoredJudged == OnlyCleanStored /\ UsePolicyKept /\ QuarantinedApart

\* What was quarantined is in the quarantine or in the archive, at every step of
\* every review and wherever it fails (reject stores before it deletes).
EntryKept ==
    [][\A w \in Write : quarantine[w] # "absent" \/ rejected[w] > 0 =>
           quarantine'[w] # "absent" \/ rejected'[w] > 0]_vars

\* An entry is archived once, and once more for each delete that failed: after a
\* review that archived and deleted it, it is gone from the quarantine for good.
ArchivedOnce ==
    \A w \in Write :
        /\ rejected[w] <= undeleted[w] + 1
        /\ rejected[w] > undeleted[w] =>
               quarantine[w] = "absent" \/ review[w] = "archived"

\* A promotion that nothing disturbs promotes (test_promote_updates_status).
PromotionTakes ==
    [][\A w \in Write : review[w] = "promote" /\ review'[w] = "none" =>
           quarantine'[w] = "promoted"]_vars

\* A review is final: a promoted entry is not rejected after all.
ReviewFinal ==
    [][\A w \in Write : quarantine[w] = "promoted" => quarantine'[w] = "promoted"]_vars
================================================================================
