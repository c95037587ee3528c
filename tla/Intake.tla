------------------------------- MODULE Intake -------------------------------
(***************************************************************************)
(* The intake of one revision: the checkpointed saga of                    *)
(* apps/integration-api/src/orchestrator/intake-orchestrator.ts, its row   *)
(* in packages/integration-store/src/repos/intake-checkpoint.ts, and the   *)
(* gateway with its in-memory idempotency ledger, apps/integration-api/    *)
(* src/gateway.                                                            *)
(*                                                                         *)
(* A digest is the draft it is the digest of: its fields and the profile   *)
(* and version the reviewer saw.  Applied steps are always a prefix of     *)
(* STEP_ORDER, so their number stands for the list.  Every await is the    *)
(* end of a step of the run; the gateway looks up, applies and caches      *)
(* before its first await.                                                 *)
(***************************************************************************)
EXTENDS Naturals, Sequences

CONSTANTS Runs,       \* run() and resumeWithPayload() calls that may overlap
          Profiles, NoProfile,
          Drafts,     \* the drafts clients submit for this revision
          NoDraft,
          MaxFaults   \* bound: store errors, lost answers, restarts

ASSUME IntakeNulls == NoProfile \notin Profiles /\ NoDraft \notin Drafts
ASSUME IntakeDrafts == \A d \in Drafts : d.cid \in Profiles \cup {NoProfile} /\ d.ver \in {0, 1}
ASSUME IntakeBound == MaxFaults \in Nat

VARIABLES ckpt,      \* the IntakeCheckpoint row
          run,       \* the locals of each call
          cache,     \* resultCache of the CallLedger, by idempotency key
          applied,   \* history: how often HRP applied the command of a key
          acts,      \* history: on which draft and profile
          overlap,   \* history: a call started while another was running
          faults, restarts

vars == <<ckpt, run, cache, applied, acts, overlap, faults, restarts>>

-----------------------------------------------------------------------------
STEP_ORDER == <<"CONFIRM_VALIDATE", "IDENTITY", "PROFILE", "CASE", "AVAILABILITY">>
Calls == {STEP_ORDER[k] : k \in 2 .. 5}
Ids   == Profiles \cup {NoProfile}
Vers  == 0 .. 2

Final  == {"COMPLETED", "FAILED", "PARTIAL", "REVIEW_PENDING"}
Row    == [state : Final \cup {"NONE", "RUNNING"}, draft : Drafts \cup {NoDraft},
           cid : Ids, ver : Vers, done : 0 .. 5]
NoRow  == [state |-> "NONE", draft |-> NoDraft, cid |-> NoProfile, ver |-> 0, done |-> 0]

Run    == [pc : {"off", "create", "mark", "call", "commit", "final"},
           draft : Drafts \cup {NoDraft}, confirmed : Drafts \cup {NoDraft},
           cid : Ids, ver : Vers, done : 0 .. 5, verdict : Final \cup {"RUNNING"}]
Idle   == [pc |-> "off", draft |-> NoDraft, confirmed |-> NoDraft, cid |-> NoProfile,
           ver |-> 0, done |-> 0, verdict |-> "RUNNING"]

Answer(kind, cid, ver) == [kind |-> kind, cid |-> cid, ver |-> ver]
Payload(d, cid, ver, at) == [draft |-> d, cid |-> cid, ver |-> ver, at |-> at]
NoEntry == [payload |-> Payload(NoDraft, NoProfile, 0, 0), answer |-> Answer("none", NoProfile, 0)]

Init == /\ ckpt = NoRow
        /\ run = [r \in Runs |-> Idle]
        /\ cache = [k \in Calls |-> NoEntry]
        /\ applied = [k \in Calls |-> 0]
        /\ acts = {}
        /\ overlap = FALSE
        /\ faults = 0 /\ restarts = 0

Active(r) == run[r].pc # "off"
Fault == faults < MaxFaults /\ faults' = faults + 1
Go(r, place) == run' = [run EXCEPT ![r].pc = place]
End(r)       == run' = [run EXCEPT ![r] = Idle]

-----------------------------------------------------------------------------
\* computeServerDigest over the canonical draft: SHA-256 does not collide.
Digest(d) == d

\* isConfirmationValid against the context of the saved row.
ConfirmationValid(d, row) == Digest(d) = row.draft /\ d.cid = row.cid /\ d.ver = row.ver

\* Mutant: the client's digests are not compared with the server's.
AnyDigest(d, c) == TRUE

\* The digest of the payload d is the one the staff confirmed in c.
DigestsAgree(d, c) == Digest(d) = Digest(c)

\* A call without a row starts with the confirmed context, one with a row where that stands.
Fresh(d, c)   == [Idle EXCEPT !.pc = "create", !.draft = d, !.confirmed = c]
Resumed(d, c) == [Idle EXCEPT !.pc = "mark", !.draft = d, !.confirmed = c,
                              !.cid = ckpt.cid, !.ver = ckpt.ver, !.done = ckpt.done]
Begin(r, locals) ==
    /\ run[r] = Idle
    /\ overlap' = (overlap \/ \E q \in Runs : Active(q))
    /\ run' = [run EXCEPT ![r] = locals]
    /\ UNCHANGED <<ckpt, cache, applied, acts, faults, restarts>>

\* run: a row with another digest, or one the confirmation no longer fits, refuses.
Submit(r, d, c) ==
    /\ DigestsAgree(d, c)
    /\ ckpt # NoRow => ConfirmationValid(d, ckpt)
    /\ Begin(r, IF ckpt = NoRow THEN Fresh(d, c) ELSE Resumed(d, c))

\* resumeWithPayload needs the row.
Resume(r, d, c) ==
    /\ DigestsAgree(d, c)
    /\ ckpt # NoRow /\ ConfirmationValid(d, ckpt)
    /\ Begin(r, Resumed(d, c))

\* createIntakeCheckpoint inserts; who loses the race gets a unique violation and ends.
Create(r) ==
    /\ run[r].pc = "create"
    /\ IF ckpt = NoRow
       THEN /\ ckpt' = [NoRow EXCEPT !.state = "RUNNING", !.draft = run[r].draft,
                                     !.cid = run[r].draft.cid, !.ver = run[r].draft.ver]
            /\ run' = [run EXCEPT ![r].pc = "mark", ![r].cid = run[r].draft.cid,
                                  ![r].ver = run[r].draft.ver]
       ELSE UNCHANGED ckpt /\ End(r)
    /\ UNCHANGED <<cache, applied, acts, overlap, faults, restarts>>

\* updateIntakeCheckpoint: the row is overwritten with the lists of the caller; without
\* an id or a version the saved ones stay.  Its findUnique and its update are one step: the
\* first yields the row's id alone, which no other step changes, and the update writes
\* values of the caller by that id, so nothing between the two can make a difference.
Save(state, done, cid, ver) ==
    ckpt' = [ckpt EXCEPT !.state = state, !.done = done,
                         !.cid = IF cid = NoProfile THEN @ ELSE cid,
                         !.ver = IF ver = 0 THEN @ ELSE ver]

\* Head of the loop: skip what is applied, record the step before it is executed.
\* CONFIRM_VALIDATE is a marker without a call.
Mark(r) ==
    /\ run[r].pc = "mark"
    /\ IF run[r].done = 5
       THEN /\ run' = [run EXCEPT ![r].pc = "final", ![r].verdict = "COMPLETED"]
            /\ UNCHANGED ckpt
       ELSE /\ Save("RUNNING", run[r].done, NoProfile, 0)
            /\ IF run[r].done = 0
               THEN run' = [run EXCEPT ![r].pc = "commit", ![r].done = 1]
               ELSE Go(r, "call")
    /\ UNCHANGED <<cache, applied, acts, overlap, faults, restarts>>

Step(r) == STEP_ORDER[run[r].done + 1]

-----------------------------------------------------------------------------
\* The gateway.

\* What HRP may answer a command it applies: external, read off the uses in the steps.
\* "OK" stands for the answers a step goes on with, "ACCEPTED" for one without the
\* outcome or the case id that IDENTITY and CASE need.  PROFILE and AVAILABILITY go on with
\* every answer that is not FAILED (intake-orchestrator.ts:783-811, 914-933): were theirs
\* ACCEPTED, "OK" would stand for it too, and what is counted as applied here would only be
\* taken over.  The scenarios the orchestrator pins for them never answer so.
Answers(k, cid, ver) ==
    CASE k = "IDENTITY" -> {Answer("OK", id, 1) : id \in Profiles}
                           \cup {Answer("POSSIBLE_MATCH", NoProfile, 0), Answer("ACCEPTED", NoProfile, 0)}
      [] k = "PROFILE"  -> {Answer("OK", cid, ver), Answer("OK", cid, IF ver < 2 THEN ver + 1 ELSE 2)}
      [] k = "CASE"     -> {Answer("OK", cid, 1), Answer("ACCEPTED", NoProfile, 0)}
      [] OTHER          -> {Answer("OK", cid, 1)}

Failed == Answer("FAILED", NoProfile, 0)

\* Mutant: the correlation id is part of the cache key, so a retry misses.
CallAlwaysApplies(k, p, d, answer) ==
    /\ \/ answer = Failed /\ UNCHANGED <<cache, applied, acts>>
       \/ /\ answer \in Answers(k, p.cid, p.ver)
          /\ cache' = [cache EXCEPT ![k] = [payload |-> p, answer |-> answer]]
          /\ applied' = [applied EXCEPT ![k] = @ + 1]
          /\ acts' = acts \cup {[key |-> k, draft |-> d, cid |-> p.cid, gave |-> answer.cid]}

\* MockGateway.call: the same payload gets the cached answer, another payload under the
\* same key a conflict; only what was applied or accepted is cached.
Call(k, p, d, answer) ==
    IF cache[k] # NoEntry
    THEN /\ answer = IF cache[k].payload = p THEN cache[k].answer ELSE Failed
         /\ UNCHANGED <<cache, applied, acts>>
    ELSE \/ answer = Failed /\ UNCHANGED <<cache, applied, acts>>
         \/ /\ answer \in Answers(k, p.cid, p.ver)
            /\ cache' = [cache EXCEPT ![k] = [payload |-> p, answer |-> answer]]
            /\ applied' = [applied EXCEPT ![k] = @ + 1]
            /\ acts' = acts \cup {[key |-> k, draft |-> d, cid |-> p.cid, gave |-> answer.cid]}

AllAnswers == {Answer(kind, cid, ver) :
    kind \in {"OK", "POSSIBLE_MATCH", "ACCEPTED", "FAILED"}, cid \in Ids, ver \in Vers}

\* The step throws, also when the outcome or the case id is missing.
Refused(answer) == answer.kind \in {"FAILED", "ACCEPTED"}

\* Mutant: the step is in the list when it is tried.
FailCounts(r) == run' = [run EXCEPT ![r].pc = "final", ![r].done = @ + 1, ![r].verdict = "PARTIAL"]

\* The catch of the loop.
Fail(r) == run' = [run EXCEPT ![r].pc = "final",
                     ![r].verdict = IF run[r].done > 0 THEN "PARTIAL" ELSE "FAILED"]

\* Mutant: the profile that IDENTITY found is not carried on.
SucceedKeepsTarget(r, k, answer) ==
    run' = [run EXCEPT ![r].pc = "commit", ![r].done = @ + 1,
              ![r].verdict = IF answer.kind = "POSSIBLE_MATCH" THEN "REVIEW_PENDING" ELSE @]

\* The step is in newAppliedSteps, and IDENTITY and PROFILE move the effective profile.
Succeed(r, k, answer) ==
    run' = [run EXCEPT ![r].pc = "commit", ![r].done = @ + 1,
              ![r].cid = IF k = "IDENTITY" /\ answer.cid # NoProfile THEN answer.cid ELSE @,
              ![r].ver = IF k \in {"IDENTITY", "PROFILE"} /\ answer.ver # 0 THEN answer.ver ELSE @,
              ![r].verdict = IF answer.kind = "POSSIBLE_MATCH" THEN "REVIEW_PENDING" ELSE @]

\* A gateway call of a step, and its answer, which may get lost on the way back.
Perform(r, k, payload) ==
    /\ \E answer \in AllAnswers :
         /\ Call(k, payload, run[r].confirmed, answer)
         /\ \/ (IF Refused(answer) THEN Fail(r) ELSE Succeed(r, k, answer)) /\ UNCHANGED faults
            \/ Fail(r) /\ Fault
    /\ UNCHANGED <<ckpt, overlap, restarts>>

\* A step that needs a profile throws without one.
ForTarget(r, k, payload) ==
    IF run[r].cid # NoProfile THEN Perform(r, k, payload)
    ELSE Fail(r) /\ UNCHANGED <<ckpt, cache, applied, acts, overlap, faults, restarts>>

\* The payload of IDENTITY has the time in collectedAt: a later call has the time of the
\* cached one (0) or another.
IdentityStep(r) ==
    \E at \in IF cache["IDENTITY"] = NoEntry THEN {0} ELSE {0, 1} :
        Perform(r, "IDENTITY", Payload(run[r].draft, NoProfile, 0, at))
ProfileStep(r) ==
    ForTarget(r, "PROFILE", Payload(run[r].draft, run[r].cid, run[r].ver, 0))
CaseStep(r) ==      \* without the version
    ForTarget(r, "CASE", Payload(run[r].draft, run[r].cid, 0, 0))
AvailabilityStep(r) ==
    ForTarget(r, "AVAILABILITY", Payload(run[r].draft, run[r].cid, run[r].ver, 0))

ExecuteStep(r) ==
    /\ run[r].pc = "call"
    /\ \/ Step(r) = "IDENTITY" /\ IdentityStep(r)
       \/ Step(r) = "PROFILE" /\ ProfileStep(r)
       \/ Step(r) = "CASE" /\ CaseStep(r)
       \/ Step(r) = "AVAILABILITY" /\ AvailabilityStep(r)

-----------------------------------------------------------------------------
\* Mutant: the list of the row is replaced by this step alone.
CommitStepOnly(r) ==
    /\ run[r].pc = "commit"
    /\ Save("RUNNING", 1, run[r].cid, run[r].ver)
    /\ Go(r, IF run[r].verdict = "REVIEW_PENDING" THEN "final" ELSE "mark")
    /\ UNCHANGED <<cache, applied, acts, overlap, faults, restarts>>

\* The result of the step and the effective profile are saved.
Commit(r) ==
    /\ run[r].pc = "commit"
    /\ Save("RUNNING", run[r].done, run[r].cid, run[r].ver)
    /\ Go(r, IF run[r].verdict = "REVIEW_PENDING" THEN "final" ELSE "mark")
    /\ UNCHANGED <<cache, applied, acts, overlap, faults, restarts>>

\* Mutant: a run that fails leaves the checkpoint as it is.
FinishCompletedOnly(r) ==
    /\ run[r].pc = "final"
    /\ IF run[r].verdict = "COMPLETED"
       THEN Save("COMPLETED", run[r].done, run[r].cid, run[r].ver)
       ELSE UNCHANGED ckpt
    /\ End(r)
    /\ UNCHANGED <<cache, applied, acts, overlap, faults, restarts>>

\* The terminal state.
Finish(r) ==
    /\ run[r].pc = "final"
    /\ Save(run[r].verdict, run[r].done, run[r].cid, run[r].ver)
    /\ End(r)
    /\ UNCHANGED <<cache, applied, acts, overlap, faults, restarts>>

\* A store error: in the commit of a step the loop catches it, elsewhere it ends the call.
StoreError(r) ==
    /\ run[r].pc \in {"create", "mark", "commit", "final"} /\ Fault
    /\ IF run[r].pc = "commit" THEN Fail(r) ELSE End(r)
    /\ UNCHANGED <<ckpt, cache, applied, acts, overlap, restarts>>

\* The process with its calls and with the ledger is gone; the row stays.
Restart ==
    /\ Fault
    /\ run' = [r \in Runs |-> Idle]
    /\ cache' = [k \in Calls |-> NoEntry]
    /\ restarts' = restarts + 1
    /\ UNCHANGED <<ckpt, applied, acts, overlap>>

Proceed(r) == Create(r) \/ Mark(r) \/ ExecuteStep(r) \/ Commit(r) \/ Finish(r)

Next == \/ \E r \in Runs : \/ Proceed(r) \/ StoreError(r)
                           \/ \E d, c \in Drafts : Submit(r, d, c) \/ Resume(r, d, c)
        \/ Restart

Spec == Init /\ [][Next]_vars

\* The event loop resumes every call whose await is over.
FairSpec == Spec /\ \A r \in Runs : WF_vars(Proceed(r))

-----------------------------------------------------------------------------
\* Values the variables may take.
TypeOK == /\ ckpt \in Row
          /\ run \in [Runs -> Run]
          /\ applied \in [Calls -> 0 .. MaxFaults + 1]
          /\ overlap \in BOOLEAN
          /\ faults \in 0 .. MaxFaults /\ restarts \in 0 .. faults

\* Retries, overlapping runs, lost answers and failed checkpoints never make HRP apply a
\* command twice under one key: only a restart, which empties the ledger, can, once each.
AtMostOnce == \A k \in Calls : applied[k] <= 1 + restarts

\* A checkpoint, and a run, never counts a step whose command was not applied (B2,
\* "resume() skips appliedSteps"): what is skipped has happened.
CheckpointTruth ==
    \A k \in Calls, n \in 2 .. 5 : STEP_ORDER[n] = k =>
        /\ ckpt.done >= n => applied[k] > 0
        /\ \A r \in Runs : run[r].done >= n => applied[k] > 0

\* Every command of the revision carries one draft, the one staff confirmed and the row
\* was created with: two clients with different drafts cannot mix their effects.
OneDraft == \A a \in acts : a.draft = ckpt.draft

\* Without a restart, and as long as calls do not overlap, what follows IDENTITY concerns
\* the profile IDENTITY returned, or, after POSSIBLE_MATCH, the one the reviewer confirmed.
OneTarget == restarts = 0 /\ ~overlap =>
    \A a, b \in acts : a.key = "IDENTITY" /\ b.key \in Calls \ {"IDENTITY"} =>
        b.cid = IF a.gave # NoProfile THEN a.gave ELSE ckpt.draft.cid

\* As long as calls do not overlap the checkpoint only moves forward.
GrowsAlone == [][~overlap' => ckpt'.done >= ckpt.done]_vars

\* Types, and what no overlap, lost answer or failed checkpoint can break.
IntakeInv == TypeOK /\ AtMostOnce

\* Without faults a checkpoint does not stay RUNNING.
Settles == (ckpt.state = "RUNNING") ~> (ckpt.state # "RUNNING" \/ faults > 0)

\* "Profile applied ... case fail: partial result ..., resume ... step/idempotency key"
\* (intake-orchestrator.ts:18): a PARTIAL checkpoint accepts its own payload again.
PartialResumable == ckpt.state = "PARTIAL" => ConfirmationValid(ckpt.draft, ckpt)
=============================================================================
