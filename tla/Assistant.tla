----------------------------- MODULE Assistant ------------------------------
(***************************************************************************)
(* The assistant of the context panel (apps/context-panel/src/assistant):  *)
(* autofill proposals that staff accept into drafts and confirm, and       *)
(* planning batches that may be sent again.  The routes of server.ts pass  *)
(* the kill switch, wait for the body, run the service in one turn, and    *)
(* register a receipt.                                                     *)
(***************************************************************************)
EXTENDS KillSwitch, Sequences

CONSTANTS Staff,     \* staff ids that send requests, of IdentityMap
          Profiles,  \* profile ids, by the scope pattern they match
          Proposals, \* kinds of proposals looked at, of those makeAutofillProposals makes
          Batches, Items, Digests  \* batch ids, item ids, payload digests ("" for none)

VARIABLES status,   \* proposals that were made: <<profile, kind>> -> status
          draft,    \* drafts: <<staff, profile, kind, fields>> -> applied?
          ledger,   \* appliedMutations
          item,     \* batchItemsMeta: <<batch, item>> -> digest and outcome
          results,  \* batches that have batchResults
          mutated,  \* history: draft id -> how often its mutation was applied
          answers   \* history: <<batch, item>> -> outcome first answered, APPLIED answers
assistantVars == <<status, draft, ledger, item, results, mutated, answers>>

\* MOCK_IDENTITY_MAP: role, organization, kind of actor, profiles in scope, draft.confirm.
IdentityMap == [
    talent     |-> [role |-> "TALENT_REVIEWER", org |-> "org-001", kind |-> "USER",
                    scope |-> {"profile-talent"}, confirm |-> FALSE],
    intake     |-> [role |-> "INTAKE_OPERATOR", org |-> "org-001", kind |-> "USER",
                    scope |-> {"profile-intake"}, confirm |-> TRUE],
    supervisor |-> [role |-> "SUPERVISOR", org |-> "org-001", kind |-> "USER",
                    scope |-> Profiles, confirm |-> TRUE],
    service    |-> [role |-> "SYSTEM", org |-> "*", kind |-> "SERVICE",
                    scope |-> Profiles, confirm |-> FALSE],
    noscope    |-> [role |-> "TALENT_REVIEWER", org |-> "org-001", kind |-> "USER",
                    scope |-> {}, confirm |-> FALSE]]

\* canProposeAutofill and canConfirmAutofillDraft; every proposal is of org-001.
InOrg(who)         == IdentityMap[who].org \in {"*", "org-001"}
CanPropose(who, p) == InOrg(who) /\ p \in IdentityMap[who].scope
CanConfirm(who, p) == InOrg(who) /\ IdentityMap[who].confirm /\ p \in IdentityMap[who].scope

\* makeAutofillProposals: what a profile starts with, on the first read.
FieldsOf == [clear |-> {"availability", "experience"}, conflict |-> {"location"},
             stale |-> {"stale"}]
Made(p) ==
    IF \E k \in Proposals : <<p, k>> \in DOMAIN status THEN status
    ELSE Over(status, [x \in {p} \X Proposals |->
                         IF x[2] = "stale" THEN "STALE" ELSE "PENDING_REVIEW"])

AssistantInit ==
    /\ status = <<>> /\ draft = <<>> /\ ledger = {} /\ mutated = <<>>
    /\ item = <<>> /\ results = {} /\ answers = <<>>

-----------------------------------------------------------------------------
\* Proposals and drafts.

\* acceptAutofillFields.
AcceptAnswer(who, p, kind, fields) ==
    IF kind = "stale" THEN "STALE_CONTEXT"
    ELSE IF ~CanPropose(who, p) THEN "FORBIDDEN"
    ELSE IF ~(fields \subseteq FieldsOf[kind]) THEN "INVALID_FIELD"
    ELSE IF IdentityMap[who].kind # "SERVICE" /\ CanConfirm(who, p) THEN "DRAFT" ELSE "PROPOSED"

\* createAutofillDraft: a draft that is not applied is reused, an applied one is made anew.
DraftsWith(id) == IF id \in DOMAIN draft /\ ~draft[id] THEN draft
                  ELSE Over([x \in {id} |-> FALSE], draft)

Accept(s) ==
    LET r == slot[s]
        answer == AcceptAnswer(r.who, r.profile, r.kind, r.fields) IN
    /\ r # Idle /\ r.op = "accept"
    /\ IF answer \notin {"DRAFT", "PROPOSED"}
       THEN status' = Made(r.profile) /\ draft' = draft /\ Failed(s)
       ELSE /\ status' = [Made(r.profile) EXCEPT ![<<r.profile, r.kind>>] = "PENDING_REVIEW"]
            /\ draft' = IF answer = "DRAFT"
                        THEN DraftsWith(<<r.who, r.profile, r.kind, r.fields>>) ELSE draft
            /\ Applied(s, <<"accept", r.who, r.profile, r.kind>>)
    /\ UNCHANGED <<ledger, item, results, mutated, answers>>

\* Mutant: the ledger of mutations is not asked.
ConfirmForgetful(who, id, good) ==
    IF id \notin DOMAIN draft THEN "NOT_FOUND"
    ELSE IF ~CanConfirm(who, id[2]) \/ id[1] # who THEN "FORBIDDEN"
    ELSE IF ~good THEN "MISMATCH"
    ELSE IF draft[id] THEN "SAME" ELSE "APPLY"

\* confirmAutofillDraft of service and store; good is a matching revision and digest.
ConfirmAnswer(who, id, good) ==
    IF id \notin DOMAIN draft THEN "NOT_FOUND"
    ELSE IF ~CanConfirm(who, id[2]) \/ id[1] # who THEN "FORBIDDEN"
    ELSE IF draft[id] THEN IF good THEN "SAME" ELSE "MISMATCH"
    ELSE IF id \in ledger THEN "DUPLICATE_MUTATION"
    ELSE IF ~good THEN "MISMATCH" ELSE "APPLY"

Confirm(s) ==
    LET r == slot[s]
        answer == ConfirmAnswer(r.who, r.draft, r.good) IN
    /\ r # Idle /\ r.op = "confirm"
    /\ IF answer \in {"SAME", "APPLY"} THEN Applied(s, <<"confirm", r.draft>>) ELSE Failed(s)
    /\ IF answer = "APPLY"
       THEN /\ draft' = [draft EXCEPT ![r.draft] = TRUE]
            /\ ledger' = ledger \cup {r.draft}
            /\ status' = [status EXCEPT ![<<r.draft[2], r.draft[3]>>] = "ACCEPTED"]
            /\ mutated' = Over([x \in {r.draft} |->
                                   IF x \in DOMAIN mutated THEN mutated[x] + 1 ELSE 1], mutated)
       ELSE UNCHANGED <<draft, ledger, status, mutated>>
    /\ UNCHANGED <<item, results, answers>>

\* rejectAutofillProposal: no guard and no scope; the drafts of the proposal stay.
Reject(s) ==
    LET r == slot[s] IN
    /\ r # Idle /\ r.op = "reject"
    /\ status' = IF <<r.profile, r.kind>> \in DOMAIN status /\ r.kind # "stale"
                 THEN [status EXCEPT ![<<r.profile, r.kind>>] = "REJECTED"] ELSE status
    /\ Failed(s)
    /\ UNCHANGED <<draft, ledger, item, results, mutated, answers>>

-----------------------------------------------------------------------------
\* Planning batches.  A request names items, maybe one of them twice; digest and outcome are
\* what its inputs and the simulated outcomes say.

\* What an item that was decided before is answered.
ReplayOf(previous, digest) ==
    IF digest # "" /\ digest # previous.digest THEN "FAILED"
    ELSE IF previous.outcome = "APPLIED" THEN "SKIPPED" ELSE previous.outcome

\* The places of an item in a request; the results find its first outcome, the ledger of
\* items keeps the last.
PlacesOf(r, i) == {n \in DOMAIN r.items : r.items[n] = i}
FirstOutcome(r, i) ==
    r.outcomes[CHOOSE n \in PlacesOf(r, i) : \A m \in PlacesOf(r, i) : n <= m]
LastOutcome(r, i) ==
    r.outcomes[CHOOSE n \in PlacesOf(r, i) : \A m \in PlacesOf(r, i) : m <= n]

\* What item i of a request is answered.
ItemAnswer(r, i) ==
    IF <<r.batch, i>> \notin DOMAIN item THEN FirstOutcome(r, i)
    ELSE ReplayOf(item[<<r.batch, i>>], r.digest)

\* The items of a request, and those of them that no request decided before.
AskedItems(r) == {r.items[n] : n \in DOMAIN r.items}
FreshItems(r) == {i \in AskedItems(r) : <<r.batch, i>> \notin DOMAIN item}
TimesApplied(k) == IF k \in DOMAIN answers THEN answers[k].applied ELSE 0

\* commitPlanningBatch.
Commit(s) ==
    LET r == slot[s]
        fresh(k) == k[2] \in FreshItems(r) IN
    /\ r # Idle /\ r.op = "commit"
    /\ item' = Over([k \in {r.batch} \X FreshItems(r) |->
                       [digest |-> r.digest, outcome |-> LastOutcome(r, k[2])]], item)
    /\ results' = results \cup {r.batch}
    /\ answers' = Over([k \in {r.batch} \X AskedItems(r) |->
                     [twice |-> IF fresh(k) THEN Cardinality(PlacesOf(r, k[2])) > 1
                                ELSE answers[k].twice,
                      first |-> IF fresh(k) THEN ItemAnswer(r, k[2]) ELSE answers[k].first,
                      digest |-> IF fresh(k) THEN r.digest ELSE answers[k].digest,
                      applied |-> TimesApplied(k)
                                    + (IF ItemAnswer(r, k[2]) = "APPLIED" THEN 1 ELSE 0)]],
                   answers)
    /\ Applied(s, <<"batch", r.batch>>)
    /\ UNCHANGED <<status, draft, ledger, mutated>>

-----------------------------------------------------------------------------
\* Requests up to their body.

ReadProposals(p) == status' = Made(p) /\ UNCHANGED <<draft, ledger, item, results, mutated,
                                                      answers, switchVars>>

RequestAutofill(s, who, p, kind) ==
    \/ \E fields \in SUBSET FieldsOf[kind] :
         Guarded(s, "accept", [op |-> "accept", who |-> who, profile |-> p, kind |-> kind,
                               fields |-> fields])
    \/ \E id \in DOMAIN draft, good \in BOOLEAN :
         /\ id[2] = p /\ id[3] = kind
         /\ Guarded(s, "confirm", [op |-> "confirm", who |-> who, draft |-> id, good |-> good])
    \/ ReadBody(s, [op |-> "reject", who |-> who, profile |-> p, kind |-> kind])

Outcomes == {"APPLIED", "FAILED", "SKIPPED", "ACCEPTED"}
RequestCommit(s, b) ==
    \E n \in 1..2 : \E items \in [1..n -> Items], outcomes \in [1..n -> Outcomes], d \in Digests :
      Guarded(s, "commit", [op |-> "commit", batch |-> b, items |-> items,
                            outcomes |-> outcomes, digest |-> d])

AutofillNext ==
    \/ \E p \in Profiles : ReadProposals(p)
    \/ \E s \in Slots :
         \/ \E who \in Staff, p \in Profiles, kind \in Proposals :
              RequestAutofill(s, who, p, kind) /\ UNCHANGED assistantVars
         \/ Accept(s) \/ Confirm(s) \/ Reject(s)

PlanningNext ==
    \E s \in Slots :
      \/ \E b \in Batches : RequestCommit(s, b) /\ UNCHANGED assistantVars
      \/ Commit(s)

AssistantNext == AutofillNext \/ PlanningNext \/ (SwitchNext /\ UNCHANGED assistantVars)

-----------------------------------------------------------------------------
\* A mutation is applied at most once, however often its proposal is accepted again, its
\* confirmation repeated or raced, and only for whoever may confirm it; what is recorded as
\* applied was.
OneMutation ==
    /\ \A id \in DOMAIN mutated : mutated[id] <= 1 /\ CanConfirm(id[1], id[2])
    /\ ledger = DOMAIN mutated
    /\ \A id \in DOMAIN draft : draft[id] => id \in ledger

\* An item of a batch is applied at most once and for one payload, and a replay repeats what
\* was answered first (unless one request named the item twice).
BatchReplaySafe ==
    \A k \in DOMAIN answers :
      /\ answers[k].applied <= 1
      /\ item[k].digest = answers[k].digest
      /\ ~answers[k].twice => item[k].outcome = answers[k].first
      /\ answers[k].applied = 1 => answers[k].first = "APPLIED"

\* An applied receipt of a confirmation or a batch stands for an effect.
ReceiptsTrue ==
    \A k \in DOMAIN receipt \ (refused \cup resolved) :
      /\ k[1] = "confirm" => k[2] \in ledger
      /\ k[1] = "batch" => k[2] \in results

\* The assistant acts once on what it is asked, and its ledgers tell the truth about it.
AssistantInv == OneMutation /\ BatchReplaySafe /\ ReceiptsTrue /\ RefusedKept
=============================================================================
