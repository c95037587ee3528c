------------------------------- MODULE Panel --------------------------------
(***************************************************************************)
(* The intake form of the context panel (ui/components/intake-review.tsx)  *)
(* against the panel's server session (orchestrator-wire.ts): a preview    *)
(* stores a review snapshot, a run has to match it.  Other clients call    *)
(* the same routes; the browser gives up on a slow answer while the server *)
(* goes on.                                                                *)
(*                                                                         *)
(* A digest is the draft and the canonical id it is the digest of.  What a *)
(* run does in detail is Intake; here it is its outcome and its row.  The  *)
(* id of a snapshot is made of the organization and the revision, so it    *)
(* says no more than those.                                                *)
(***************************************************************************)
EXTENDS Naturals

CONSTANTS Users,      \* staff with a form on the screen
          Callers,    \* staff whose programs call the routes
          Submitters, \* staff with a role that may submit
          Revisions,
          DraftData, StrongDrafts,  \* drafts, and those whose phone finds a strong candidate
          Requests    \* requests under way at one time

ASSUME PanelBounds == StrongDrafts \subseteq DraftData

VARIABLES form,       \* the form of each user
          snapshot,   \* reviewSnapshots: revision -> snapshot or Nothing
          checkpoint, \* checkpoints: revision -> row or Nothing
          request,    \* requests that the server has not answered, or whose answer is under way
          previewed,  \* history: what the server previewed for whom
          confirmed,  \* history: revisions whose preview a user confirmed
          acted       \* history: what runs acted on
panelVars == <<form, snapshot, checkpoint, request, previewed, confirmed, acted>>
formVars  == <<form, confirmed>>
storeVars == <<snapshot, checkpoint, previewed, acted>>

Nothing == [status |-> "none"]
Strong(d) == IF d \in StrongDrafts THEN "exact" ELSE "none"

PanelInit ==
    /\ form \in [Users -> {[kind |-> "idle", draft |-> d, checked |-> FALSE, rev |-> Nothing,
                            ready |-> FALSE, waits |-> Nothing] : d \in DraftData}]
    /\ snapshot = [r \in Revisions |-> Nothing]
    /\ checkpoint = [r \in Revisions |-> Nothing]
    /\ request = [q \in Requests |-> Nothing]
    /\ previewed = {} /\ confirmed = {} /\ acted = {}

Send(q, op, who, ui, r, d) ==
    /\ request[q] = Nothing
    /\ request' = [request EXCEPT ![q] = [status |-> op, who |-> who, ui |-> ui, rev |-> r,
                                          draft |-> d, snap |-> Nothing]]

-----------------------------------------------------------------------------
\* The form.  The fields can be edited at any time; that takes the confirmation back.
EditField(u, d) ==
    /\ form' = [form EXCEPT ![u] = [form[u] EXCEPT !.draft = d, !.checked = FALSE]]
    /\ UNCHANGED <<storeVars, request, confirmed>>

\* handlePreview: a revision id of its own for every preview.
PressPreview(u, q, r) ==
    /\ form[u].kind \in {"idle", "preview-error"}
    /\ snapshot[r] = Nothing
    /\ \A p \in Requests : request[p] # Nothing => request[p].rev # r
    /\ Send(q, "preview", u, TRUE, r, form[u].draft)
    /\ form' = [form EXCEPT ![u] = [form[u] EXCEPT !.kind = "previewing", !.waits = q]]
    /\ UNCHANGED <<storeVars, confirmed>>

ReceivePreview(u) ==
    LET q == form[u].waits IN
    /\ form[u].kind = "previewing" /\ request[q].status \in {"ok", "error"}
    /\ form' = [form EXCEPT ![u] =
         IF request[q].status = "error"
         THEN [form[u] EXCEPT !.kind = "preview-error", !.waits = Nothing]
         ELSE [form[u] EXCEPT !.kind = "preview-success", !.waits = Nothing,
                              !.rev = request[q].rev, !.ready = TRUE, !.checked = FALSE]]
    /\ request' = [request EXCEPT ![q] = Nothing]
    /\ UNCHANGED <<storeVars, confirmed>>

\* handleConfirmChange: the checkbox is shown with the preview.
ConfirmChange(u, on) ==
    /\ form[u].kind = "preview-success"
    /\ form' = [form EXCEPT ![u] = [form[u] EXCEPT !.checked = on]]
    /\ confirmed' = IF on THEN confirmed \cup {<<u, form[u].rev>>} ELSE confirmed
    /\ UNCHANGED <<storeVars, request>>

\* handleSubmit: the revision of the preview, the fields of now.
PressSubmit(u, q) ==
    /\ form[u].kind = "preview-success" /\ form[u].checked /\ form[u].ready
    /\ Send(q, "run", u, TRUE, form[u].rev, form[u].draft)
    /\ form' = [form EXCEPT ![u] = [form[u] EXCEPT !.kind = "submitting", !.waits = q]]
    /\ UNCHANGED <<storeVars, confirmed>>

ReceiveRun(u) ==
    LET q == form[u].waits
        kind == IF request[q].status = "COMPLETED" THEN "success"
                ELSE IF request[q].status \in {"PARTIAL", "REVIEW_PENDING"} THEN "partial"
                ELSE "error"
        ready == form[u].ready /\ request[q].status \notin
                                   {"MISSING_REVIEW", "SNAPSHOT_EXPIRED", "DIGEST_MISMATCH"} IN
    /\ form[u].kind = "submitting" /\ request[q].status \notin {"run", "checked"}
    /\ form' = [form EXCEPT ![u] =
                   [form[u] EXCEPT !.kind = kind, !.waits = Nothing, !.ready = ready]]
    /\ request' = [request EXCEPT ![q] = Nothing]
    /\ UNCHANGED <<storeVars, confirmed>>

\* fetchJson aborts after ten seconds; the server goes on with the request.
TimeOut(u) ==
    /\ form[u].kind \in {"previewing", "submitting"}
    /\ LET kind == IF form[u].kind = "previewing" THEN "preview-error" ELSE "error" IN
       form' = [form EXCEPT ![u] = [form[u] EXCEPT !.kind = kind, !.waits = Nothing]]
    /\ UNCHANGED <<storeVars, request, confirmed>>

\* handleReset; a partial result has no button.
PressReset(u) ==
    /\ form[u].kind \in {"success", "error"}
    /\ form' = [form EXCEPT ![u] =
                   [form[u] EXCEPT !.kind = "idle", !.ready = FALSE, !.checked = FALSE]]
    /\ UNCHANGED <<storeVars, request, confirmed>>

-----------------------------------------------------------------------------
\* The server.  An answer nobody waits for is dropped.
Waiting(q) == \E u \in Users : form[u].waits = q
Answer(q, status) ==
    request' = [request EXCEPT ![q] =
                  IF Waiting(q) THEN [request[q] EXCEPT !.status = status] ELSE Nothing]

\* handlePreview after its await: the snapshot of an earlier preview of this revision is
\* replaced.
HandlePreview(p) ==
    /\ snapshot' = [snapshot EXCEPT ![p.rev] =
          [status |-> "fresh", who |-> p.who, draft |-> p.draft, canonical |-> Strong(p.draft)]]
    /\ previewed' = previewed \cup {[who |-> p.who, rev |-> p.rev, draft |-> p.draft]}

\* POST /api/intake/preview.
PostPreview(q) ==
    /\ request[q].status = "preview"
    /\ \/ HandlePreview(request[q]) /\ Answer(q, "ok")
       \/ Answer(q, "error") /\ UNCHANGED <<snapshot, previewed>>
    /\ UNCHANGED <<formVars, checkpoint, acted>>

\* Five minutes.
ExpireSnapshot(r) ==
    /\ snapshot[r].status = "fresh"
    /\ snapshot' = [snapshot EXCEPT ![r] = [snapshot[r] EXCEPT !.status = "expired"]]
    /\ UNCHANGED <<formVars, request, checkpoint, previewed, acted>>

\* handleRun up to its await.  A target or a version the request names otherwise than the
\* preview is refused like the rest.
Checked(p) ==
    IF snapshot[p.rev] = Nothing THEN "MISSING_REVIEW"
    ELSE IF snapshot[p.rev].status = "expired" THEN "SNAPSHOT_EXPIRED"
    ELSE IF snapshot[p.rev].who # p.who THEN "CROSS_ACTOR" ELSE "OK"

\* POST /api/intake/run: the role, then handleRun.
PostRun(q) ==
    LET p == request[q]
        answer == IF p.who \in Submitters THEN Checked(p) ELSE "FORBIDDEN" IN
    /\ p.status = "run"
    /\ IF answer = "OK"
       THEN request' = [request EXCEPT ![q] =
                          [p EXCEPT !.status = "checked", !.snap = snapshot[p.rev]]]
       ELSE Answer(q, answer)
    /\ UNCHANGED <<formVars, storeVars>>

\* Mutant: the payload is not compared with the preview.
AnyDraft(actual, snap) == TRUE

\* The digest of the payload is the one of the snapshot.
DigestBound(actual, snap) == actual = [draft |-> snap.draft, canonical |-> snap.canonical]

\* The row of a revision as checkpointCreate puts it, or finds it, and as a run of the
\* orchestrator leaves it: IDENTITY may have put the profile the gateway matched into it.
RunOutcomes == {"COMPLETED", "PARTIAL", "REVIEW_PENDING", "FAILED"}
RowFor(r, actual) ==
    IF checkpoint[r] # Nothing THEN checkpoint[r]
    ELSE [status |-> "RUNNING", digest |-> actual, canonical |-> actual.canonical]
RowAfter(row, outcome, canonical) == [row EXCEPT !.status = outcome, !.canonical = canonical]

\* handleRun after its await: the canonical id of the row comes before the one of the snapshot
\* that was read before.
ServeRun(q) ==
    LET p == request[q]
        row == checkpoint[p.rev]
        effective == IF row # Nothing /\ row.canonical # "none" THEN row.canonical
                     ELSE p.snap.canonical
        actual == [draft |-> p.draft, canonical |-> effective] IN
    /\ p.status = "checked"
    /\ \/ /\ ~DigestBound(actual, p.snap)
          /\ Answer(q, "DIGEST_MISMATCH") /\ UNCHANGED <<checkpoint, acted>>
       \/ /\ DigestBound(actual, p.snap) /\ row # Nothing /\ row.digest # actual
          /\ Answer(q, "IDEMPOTENCY_CONFLICT") /\ UNCHANGED <<checkpoint, acted>>
       \/ /\ DigestBound(actual, p.snap) /\ (row # Nothing => row.digest = actual)
          /\ \E outcome \in RunOutcomes, canonical \in {effective, "exact"} :
               /\ row # Nothing /\ row.status = "COMPLETED" => outcome = "COMPLETED"
               /\ checkpoint' = [checkpoint EXCEPT ![p.rev] =
                                   RowAfter(RowFor(p.rev, actual), outcome, canonical)]
               /\ acted' = IF outcome = "FAILED" THEN acted
                           ELSE acted \cup {[who |-> p.who, ui |-> p.ui, rev |-> p.rev,
                                             draft |-> p.draft]}
               /\ Answer(q, outcome)
    /\ UNCHANGED <<formVars, snapshot, previewed>>

PanelNext ==
    \/ \E u \in Users :
         \/ \E d \in DraftData \ {form[u].draft} : EditField(u, d)
         \/ \E q \in Requests : PressSubmit(u, q) \/ \E r \in Revisions : PressPreview(u, q, r)
         \/ \E on \in BOOLEAN : ConfirmChange(u, on)
         \/ ReceivePreview(u) \/ ReceiveRun(u) \/ TimeOut(u) \/ PressReset(u)
    \/ \E q \in Requests :
         \/ \E who \in Callers, r \in Revisions, d \in DraftData, op \in {"preview", "run"} :
              Send(q, op, who, FALSE, r, d) /\ UNCHANGED <<formVars, storeVars>>
         \/ PostPreview(q) \/ PostRun(q) \/ ServeRun(q)
    \/ \E r \in Revisions : ExpireSnapshot(r)

PanelSpec == PanelInit /\ [][PanelNext]_panelVars

-----------------------------------------------------------------------------
\* However previews are replaced, forms edited and answers lost: a run acts only on a draft
\* that was previewed, for whoever runs it; from a form also only on a preview its user
\* confirmed; and a revision is acted on with one draft.
PanelInv ==
    /\ \A a \in acted :
         /\ [who |-> a.who, rev |-> a.rev, draft |-> a.draft] \in previewed
         /\ a.ui => <<a.who, a.rev>> \in confirmed
    /\ \A a, b \in acted : a.rev = b.rev => a.draft = b.draft
=============================================================================
