----------------------------- MODULE PanelProofs -----------------------------
(***************************************************************************)
(* What the context panel promises, for any clients, settings, profiles    *)
(* and requests: the intake form, do-not-contact, the versioned settings,  *)
(* the assistant and its tabs, and the dashboard.  Each part has an        *)
(* inductive invariant of its own, whose conjuncts say what the promise    *)
(* rests on.                                                               *)
(***************************************************************************)
EXTENDS Panel, DoNotContact, Config, AssistantScreen, Dashboard, FiniteSetTheorems,
        TLAPS

-----------------------------------------------------------------------------
(* Intake form.                                                            *)

People == Users \cup Callers
Form == [kind : {"idle", "previewing", "preview-error", "preview-success", "submitting",
                 "success", "partial", "error"},
         draft : DraftData, checked : BOOLEAN, rev : Revisions \cup {Nothing},
         ready : BOOLEAN, waits : Requests \cup {Nothing}]
Snapshot == [status : {"fresh", "expired"}, who : People, draft : DraftData,
             canonical : {"exact", "none"}]
Digest == [draft : DraftData, canonical : {"exact", "none"}]
CheckpointRow == [status : {"RUNNING"} \cup RunOutcomes, digest : Digest,
                  canonical : {"exact", "none"}]
Answers == {"ok", "error", "FORBIDDEN", "MISSING_REVIEW", "SNAPSHOT_EXPIRED", "CROSS_ACTOR",
            "DIGEST_MISMATCH", "IDEMPOTENCY_CONFLICT"} \cup RunOutcomes
Request == [status : {"preview", "run", "checked"} \cup Answers, who : People, ui : BOOLEAN,
            rev : Revisions, draft : DraftData, snap : Snapshot \cup {Nothing}]
Act == [who : People, ui : BOOLEAN, rev : Revisions, draft : DraftData]

PreviewOf(who, r, d) == [who |-> who, rev |-> r, draft |-> d]

\* Request q is one that the form of u sent.
Asked(u, q) == q \in Requests /\ request[q] # Nothing /\ request[q].who = u /\ request[q].ui

\* A form waits for a request of its own; a ticked box confirms the preview it is shown with.
Forms ==
    /\ form \in [Users -> Form]
    /\ \A u \in Users :
         /\ form[u].kind \in {"preview-success", "submitting"} => form[u].rev \in Revisions
         /\ form[u].kind = "preview-success" /\ form[u].checked => <<u, form[u].rev>> \in confirmed
         /\ form[u].kind \in {"previewing", "submitting"} => Asked(u, form[u].waits)

\* A run of a form is of a preview its user confirmed; one that passed the checks has the
\* snapshot of a preview of whoever runs it.
Sound(p) ==
    /\ p \in Request
    /\ p.status \in {"run", "checked"} /\ p.ui => <<p.who, p.rev>> \in confirmed
    /\ p.status = "checked" => /\ p.snap \in Snapshot /\ p.snap.who = p.who
                               /\ PreviewOf(p.who, p.rev, p.snap.draft) \in previewed
Requested ==
    /\ request = [q \in Requests |-> request[q]]
    /\ \A q \in Requests : request[q] = Nothing \/ Sound(request[q])

Snapshots ==
    /\ snapshot \in [Revisions -> Snapshot \cup {Nothing}]
    /\ \A r \in Revisions : snapshot[r] # Nothing =>
         PreviewOf(snapshot[r].who, r, snapshot[r].draft) \in previewed

\* The row of a revision has the draft that runs of it acted on.
Acts ==
    /\ checkpoint \in [Revisions -> CheckpointRow \cup {Nothing}]
    /\ acted \subseteq Act
    /\ \A a \in acted :
         /\ PreviewOf(a.who, a.rev, a.draft) \in previewed
         /\ a.ui => <<a.who, a.rev>> \in confirmed
         /\ checkpoint[a.rev] # Nothing /\ checkpoint[a.rev].digest.draft = a.draft

Session == Forms /\ Requested /\ Snapshots /\ Acts

LEMMA SessionHolds == Session => PanelInv
  BY DEF Session, Acts, PreviewOf, PanelInv

LEMMA Something ==
    /\ \A x \in Snapshot : x # Nothing
    /\ \A x \in Request : x # Nothing
    /\ \A x \in CheckpointRow : x # Nothing
  <1>1. Nothing.status = "none" BY DEF Nothing
  <1>2. \A x \in Snapshot : x.status # "none" BY DEF Snapshot
  <1>3. \A x \in Request : x.status # "none" BY DEF Request, Answers, RunOutcomes
  <1>4. \A x \in CheckpointRow : x.status # "none" BY DEF CheckpointRow, RunOutcomes
  <1> QED BY <1>1, <1>2, <1>3, <1>4

LEMMA InitSession == PanelInit => Session
  <1> SUFFICES ASSUME PanelInit PROVE Session
    OBVIOUS
  <1>1. /\ form \in [Users -> {[kind |-> "idle", draft |-> d, checked |-> FALSE, rev |-> Nothing,
                               ready |-> FALSE, waits |-> Nothing] : d \in DraftData}]
        /\ snapshot = [r \in Revisions |-> Nothing]
        /\ checkpoint = [r \in Revisions |-> Nothing]
        /\ request = [q \in Requests |-> Nothing]
        /\ previewed = {} /\ confirmed = {} /\ acted = {}
    BY DEF PanelInit
  <1>2. \A u \in Users : form[u] \in Form /\ form[u].kind = "idle"
    <2>1. TAKE u \in Users
    <2>2. PICK d \in DraftData :
            form[u] = [kind |-> "idle", draft |-> d, checked |-> FALSE, rev |-> Nothing,
                       ready |-> FALSE, waits |-> Nothing]
      BY <1>1
    <2> QED BY <2>2 DEF Form
  <1>3. form \in [Users -> Form] BY <1>1, <1>2
  <1>4. Forms BY <1>2, <1>3 DEF Forms
  <1>5. Requested /\ Snapshots /\ Acts BY <1>1 DEF Requested, Snapshots, Acts
  <1> QED BY <1>4, <1>5 DEF Session

\* One form changes; what the others wait for stays.
LEMMA OneForm ==
    ASSUME Session, NEW u \in Users, NEW f \in Form, form' = [form EXCEPT ![u] = f],
           confirmed \subseteq confirmed',
           f.kind \in {"preview-success", "submitting"} => f.rev \in Revisions,
           f.kind = "preview-success" /\ f.checked => <<u, f.rev>> \in confirmed',
           f.kind \in {"previewing", "submitting"} => Asked(u, f.waits)',
           \A v \in Users \ {u} : \A q \in Requests : Asked(v, q) => Asked(v, q)'
    PROVE  Forms'
  <1>1. /\ form' \in [Users -> Form] /\ form'[u] = f
        /\ \A v \in Users \ {u} : form'[v] = form[v]
    BY DEF Session, Forms
  <1>2. ASSUME NEW v \in Users
        PROVE  /\ form'[v].kind \in {"preview-success", "submitting"} => form'[v].rev \in Revisions
               /\ form'[v].kind = "preview-success" /\ form'[v].checked =>
                    <<v, form'[v].rev>> \in confirmed'
               /\ form'[v].kind \in {"previewing", "submitting"} => Asked(v, form[v].waits)'
    <2>1. CASE v = u BY <1>1, <2>1 DEF Asked
    <2>2. CASE v # u
      <3>1. /\ form[v].kind \in {"preview-success", "submitting"} => form[v].rev \in Revisions
            /\ form[v].kind = "preview-success" /\ form[v].checked =>
                 <<v, form[v].rev>> \in confirmed
            /\ form[v].kind \in {"previewing", "submitting"} => Asked(v, form[v].waits)
        BY DEF Session, Forms
      <3>2. PICK q : q = form[v].waits OBVIOUS
      <3>3. form[v].kind \in {"previewing", "submitting"} => Asked(v, q)'
        BY <2>2, <3>1, <3>2 DEF Asked
      <3> QED BY <1>1, <2>2, <3>1, <3>2, <3>3 DEF Asked
    <2> QED BY <2>1, <2>2
  <1> QED BY <1>1, <1>2 DEF Forms

\* One request changes; histories only grow.
LEMMA OneRequest ==
    ASSUME Session, NEW q \in Requests, NEW p, request' = [request EXCEPT ![q] = p],
           confirmed \subseteq confirmed', previewed \subseteq previewed',
           p = Nothing \/ Sound(p)'
    PROVE  Requested'
  <1>1. /\ request' = [s \in Requests |-> request'[s]] /\ request'[q] = p
        /\ \A s \in Requests \ {q} : request'[s] = request[s]
    BY DEF Session, Requested
  <1>2. \A x : Sound(x) => Sound(x)' BY DEF Sound
  <1>3. ASSUME NEW s \in Requests PROVE request'[s] = Nothing \/ Sound(request[s])'
    <2>1. CASE s = q BY <1>1, <2>1 DEF Sound
    <2>2. CASE s # q
      <3>1. PICK x : x = request[s] OBVIOUS
      <3>2. x = Nothing \/ Sound(x)' BY <1>2, <3>1 DEF Session, Requested
      <3> QED BY <1>1, <2>2, <3>1, <3>2 DEF Sound
    <2> QED BY <2>1, <2>2
  <1> QED BY <1>1, <1>3 DEF Requested

\* A new request, with who the form is that it comes from.
LEMMA Sent ==
    ASSUME Session, NEW q \in Requests, NEW op \in {"preview", "run"}, NEW who \in People,
           NEW ui \in BOOLEAN, NEW r \in Revisions, NEW d \in DraftData,
           Send(q, op, who, ui, r, d), confirmed' = confirmed, previewed' = previewed,
           op = "run" /\ ui => <<who, r>> \in confirmed
    PROVE  /\ Requested' /\ request[q] = Nothing
           /\ ui => Asked(who, q)'
           /\ \A v \in Users : \A s \in Requests : Asked(v, s) => Asked(v, s)'
  <1> DEFINE p == [status |-> op, who |-> who, ui |-> ui, rev |-> r, draft |-> d, snap |-> Nothing]
  <1>1. request[q] = Nothing /\ request' = [request EXCEPT ![q] = p] BY DEF Send
  <1>2. p \in Request /\ p.status = op /\ p.who = who /\ p.ui = ui /\ p.rev = r
    BY DEF Request
  <1> HIDE DEF p
  <1>3. p # Nothing BY <1>2, Something
  <1>4. Sound(p)' BY <1>2 DEF Sound
  <1>5. Requested' BY <1>1, <1>4, OneRequest
  <1>6. request'[q] = p /\ \A s \in Requests \ {q} : request'[s] = request[s]
    BY <1>1 DEF Session, Requested
  <1> QED BY <1>1, <1>2, <1>3, <1>5, <1>6 DEF Asked

LEMMA StoresKept ==
    ASSUME Session, UNCHANGED storeVars, confirmed \subseteq confirmed'
    PROVE  Snapshots' /\ Acts'
  BY DEF Session, Snapshots, Acts, storeVars

LEMMA FormType ==
    ASSUME Session, NEW u \in Users
    PROVE  form[u] \in Form
  BY DEF Session, Forms

LEMMA Edited == ASSUME Session, NEW u \in Users, NEW d \in DraftData, EditField(u, d) PROVE Session'
  <1>1. PICK f : f = [form[u] EXCEPT !.draft = d, !.checked = FALSE] OBVIOUS
  <1>2. /\ form' = [form EXCEPT ![u] = f] /\ UNCHANGED <<storeVars, request, confirmed>>
    BY <1>1 DEF EditField
  <1>3. /\ f \in Form /\ f.kind = form[u].kind /\ f.rev = form[u].rev /\ f.waits = form[u].waits
        /\ ~f.checked
    BY <1>1, FormType DEF Form
  <1>4. Forms' BY <1>2, <1>3, OneForm DEF Session, Forms, Asked
  <1>5. Requested' BY <1>2 DEF Session, Requested, Sound, storeVars
  <1> QED BY <1>2, <1>4, <1>5, StoresKept DEF Session

LEMMA PreviewPressed ==
    ASSUME Session, NEW u \in Users, NEW q \in Requests, NEW r \in Revisions, PressPreview(u, q, r)
    PROVE  Session'
  <1>1. PICK f : f = [form[u] EXCEPT !.kind = "previewing", !.waits = q] OBVIOUS
  <1>2. PICK d \in DraftData : d = form[u].draft BY FormType DEF Form
  <1>3. /\ form' = [form EXCEPT ![u] = f] /\ UNCHANGED <<storeVars, confirmed>>
        /\ Send(q, "preview", u, TRUE, r, d)
    BY <1>1, <1>2 DEF PressPreview
  <1>4. f \in Form /\ f.kind = "previewing" /\ f.waits = q
    BY <1>1, FormType DEF Form
  <1>5. /\ Requested' /\ Asked(u, q)'
        /\ \A v \in Users : \A s \in Requests : Asked(v, s) => Asked(v, s)'
    BY <1>3, Sent DEF People, storeVars
  <1>6. Forms' BY <1>3, <1>4, <1>5, OneForm
  <1> QED BY <1>3, <1>5, <1>6, StoresKept DEF Session

LEMMA SubmitPressed ==
    ASSUME Session, NEW u \in Users, NEW q \in Requests, PressSubmit(u, q)
    PROVE  Session'
  <1>1. PICK f : f = [form[u] EXCEPT !.kind = "submitting", !.waits = q] OBVIOUS
  <1>2. PICK d \in DraftData : d = form[u].draft BY FormType DEF Form
  <1>3. PICK r \in Revisions : r = form[u].rev /\ <<u, r>> \in confirmed
    BY DEF PressSubmit, Session, Forms
  <1>4. /\ form' = [form EXCEPT ![u] = f] /\ UNCHANGED <<storeVars, confirmed>>
        /\ Send(q, "run", u, TRUE, r, d)
    BY <1>1, <1>2, <1>3 DEF PressSubmit
  <1>5. f \in Form /\ f.kind = "submitting" /\ f.waits = q /\ f.rev = r
    BY <1>1, <1>3, FormType DEF Form
  <1>6. /\ Requested' /\ Asked(u, q)'
        /\ \A v \in Users : \A s \in Requests : Asked(v, s) => Asked(v, s)'
    BY <1>3, <1>4, Sent DEF People, storeVars
  <1>7. Forms' BY <1>4, <1>5, <1>6, OneForm
  <1> QED BY <1>4, <1>6, <1>7, StoresKept DEF Session

\* An answer is taken by the form that waits for it; nobody else waits for the same.
LEMMA Taken ==
    ASSUME Session, NEW u \in Users, NEW q \in Requests, Asked(u, q),
           request' = [request EXCEPT ![q] = Nothing], UNCHANGED <<storeVars, confirmed>>
    PROVE  /\ Requested' /\ Snapshots' /\ Acts'
           /\ \A v \in Users \ {u} : \A s \in Requests : Asked(v, s) => Asked(v, s)'
  <1>1. Requested' BY OneRequest DEF storeVars
  <1>2. /\ \A s \in Requests \ {q} : request'[s] = request[s]
    BY DEF Session, Requested
  <1>3. \A v \in Users \ {u} : ~Asked(v, q) BY DEF Asked
  <1> QED BY <1>1, <1>2, <1>3, StoresKept DEF Asked

LEMMA PreviewReceived == ASSUME Session, NEW u \in Users, ReceivePreview(u) PROVE Session'
  <1>1. PICK q : q = form[u].waits OBVIOUS
  <1>2. /\ form[u].kind = "previewing" /\ request[q].status \in {"ok", "error"}
        /\ request' = [request EXCEPT ![q] = Nothing] /\ UNCHANGED <<storeVars, confirmed>>
    BY <1>1 DEF ReceivePreview
  <1>3. q \in Requests /\ Asked(u, q)
    BY <1>1, <1>2 DEF Session, Forms, Asked
  <1>4. request[q].rev \in Revisions
    BY <1>3 DEF Asked, Session, Requested, Sound, Request
  <1>5. PICK r \in Revisions : r = request[q].rev BY <1>4
  <1>6. /\ Requested' /\ Snapshots' /\ Acts'
        /\ \A v \in Users \ {u} : \A s \in Requests : Asked(v, s) => Asked(v, s)'
    BY <1>2, <1>3, Taken
  <1>7. CASE request[q].status = "error"
    <2>1. PICK f : f = [form[u] EXCEPT !.kind = "preview-error", !.waits = Nothing] OBVIOUS
    <2>2. form' = [form EXCEPT ![u] = f] BY <1>1, <1>7, <2>1 DEF ReceivePreview
    <2>3. f \in Form /\ f.kind = "preview-error" BY <2>1, FormType DEF Form
    <2>4. Forms' BY <1>2, <1>6, <2>2, <2>3, OneForm
    <2> QED BY <1>6, <2>4 DEF Session
  <1>8. CASE request[q].status # "error"
    <2>1. PICK f : f = [form[u] EXCEPT !.kind = "preview-success", !.waits = Nothing, !.rev = r,
                                       !.ready = TRUE, !.checked = FALSE]
      OBVIOUS
    <2>2. form' = [form EXCEPT ![u] = f] BY <1>1, <1>5, <1>8, <2>1 DEF ReceivePreview
    <2>3. f.kind = "preview-success" /\ f.rev = r /\ ~f.checked BY <2>1, FormType DEF Form
    <2>4. f \in Form BY <2>1, FormType DEF Form
    <2>5. Forms' BY <1>2, <1>6, <2>2, <2>3, <2>4, OneForm
    <2> QED BY <1>6, <2>5 DEF Session
  <1> QED BY <1>7, <1>8

LEMMA RunReceived == ASSUME Session, NEW u \in Users, ReceiveRun(u) PROVE Session'
  <1>1. PICK q : q = form[u].waits OBVIOUS
  <1>2. /\ form[u].kind = "submitting"
        /\ request' = [request EXCEPT ![q] = Nothing] /\ UNCHANGED <<storeVars, confirmed>>
    BY <1>1 DEF ReceiveRun
  <1>3. q \in Requests /\ Asked(u, q)
    BY <1>1, <1>2 DEF Session, Forms, Asked
  <1>4. PICK shown \in {"success", "partial", "error"}, ready \in BOOLEAN :
          form' = [form EXCEPT ![u] =
                     [form[u] EXCEPT !.kind = shown, !.waits = Nothing, !.ready = ready]]
    <2>1. form[u].ready \in BOOLEAN BY FormType DEF Form
    <2> QED BY <2>1 DEF ReceiveRun
  <1>5. PICK f : f = [form[u] EXCEPT !.kind = shown, !.waits = Nothing, !.ready = ready] OBVIOUS
  <1>6. f \in Form /\ f.kind = shown BY <1>5, FormType DEF Form
  <1>7. /\ Requested' /\ Snapshots' /\ Acts'
        /\ \A v \in Users \ {u} : \A s \in Requests : Asked(v, s) => Asked(v, s)'
    BY <1>2, <1>3, Taken
  <1>8. Forms' BY <1>2, <1>4, <1>5, <1>6, <1>7, OneForm
  <1> QED BY <1>7, <1>8 DEF Session

\* The steps of a form that send and take nothing.
LEMMA FormOnly ==
    ASSUME Session, NEW u \in Users, NEW f \in Form, form' = [form EXCEPT ![u] = f],
           f.kind \in {"idle", "preview-error", "preview-success", "error"},
           UNCHANGED <<storeVars, request>>, confirmed \subseteq confirmed',
           f.kind = "preview-success" => 
             f.rev \in Revisions /\ (f.checked => <<u, f.rev>> \in confirmed')
    PROVE  Session'
  <1>1. Forms' BY OneForm DEF Asked
  <1>2. Requested' BY DEF Session, Requested, Sound, storeVars
  <1> QED BY <1>1, <1>2, StoresKept DEF Session

LEMMA Confirmed ==
    ASSUME Session, NEW u \in Users, NEW on \in BOOLEAN, ConfirmChange(u, on)
    PROVE  Session'
  <1>1. PICK f : f = [form[u] EXCEPT !.checked = on] OBVIOUS
  <1>2. /\ form[u].kind = "preview-success" /\ form' = [form EXCEPT ![u] = f]
        /\ UNCHANGED <<storeVars, request>>
        /\ confirmed' = IF on THEN confirmed \cup {<<u, form[u].rev>>} ELSE confirmed
    BY <1>1 DEF ConfirmChange
  <1>3. f \in Form /\ f.kind = form[u].kind /\ f.rev = form[u].rev /\ f.checked = on
    BY <1>1, FormType DEF Form
  <1>4. f.rev \in Revisions BY <1>2, <1>3 DEF Session, Forms
  <1> QED BY <1>2, <1>3, <1>4, FormOnly

LEMMA TimedOut == ASSUME Session, NEW u \in Users, TimeOut(u) PROVE Session'
  <1>1. PICK shown \in {"preview-error", "error"} :
          form' = [form EXCEPT ![u] = [form[u] EXCEPT !.kind = shown, !.waits = Nothing]]
    BY DEF TimeOut
  <1>2. PICK f : f = [form[u] EXCEPT !.kind = shown, !.waits = Nothing] OBVIOUS
  <1>3. f \in Form /\ f.kind = shown BY <1>2, FormType DEF Form
  <1>4. UNCHANGED <<storeVars, request, confirmed>> BY DEF TimeOut
  <1> QED BY <1>1, <1>2, <1>3, <1>4, FormOnly

LEMMA ResetPressed == ASSUME Session, NEW u \in Users, PressReset(u) PROVE Session'
  <1>1. PICK f : f = [form[u] EXCEPT !.kind = "idle", !.ready = FALSE, !.checked = FALSE]
    OBVIOUS
  <1>2. form' = [form EXCEPT ![u] = f] /\ UNCHANGED <<storeVars, request, confirmed>>
    BY <1>1 DEF PressReset
  <1>3. f \in Form /\ f.kind = "idle" BY <1>1, FormType DEF Form
  <1> QED BY <1>2, <1>3, FormOnly

\* An answer keeps the request for the form that waits for it, and drops it for others.
LEMMA Answering ==
    ASSUME Session, NEW q \in Requests, request[q] # Nothing, NEW reply \in Answers,
           Answer(q, reply), UNCHANGED formVars, previewed \subseteq previewed'
    PROVE  Forms' /\ Requested'
  <1>1. PICK p : p = IF Waiting(q) THEN [request[q] EXCEPT !.status = reply] ELSE Nothing
    OBVIOUS
  <1>2. request' = [request EXCEPT ![q] = p] BY <1>1 DEF Answer
  <1>3. request[q] \in Request BY DEF Session, Requested, Sound
  <1>4. Waiting(q) => /\ p \in Request /\ p.status = reply
                      /\ p.who = request[q].who /\ p.ui = request[q].ui
    BY <1>1, <1>3 DEF Request
  <1>5. reply \notin {"run", "checked"} BY DEF Answers, RunOutcomes
  <1>6. Requested'
    <2>1. p = Nothing \/ Sound(p)' BY <1>1, <1>4, <1>5 DEF Sound
    <2> QED BY <1>2, <2>1, OneRequest DEF formVars
  <1>7. Forms'
    <2>1. request'[q] = p /\ \A s \in Requests \ {q} : request'[s] = request[s]
      BY <1>2 DEF Session, Requested
    <2>2. ASSUME NEW u \in Users, form[u].kind \in {"previewing", "submitting"}
          PROVE  Asked(u, form[u].waits)'
      <3>1. Asked(u, form[u].waits) BY <2>2 DEF Session, Forms
      <3>2. CASE form[u].waits = q
        <4>1. Waiting(q) BY <3>2 DEF Waiting
        <4> QED BY <1>4, <2>1, <3>1, <3>2, <4>1, Something DEF Asked, formVars
      <3>3. CASE form[u].waits # q BY <2>1, <3>1, <3>3 DEF Asked, formVars
      <3> QED BY <3>2, <3>3
    <2> QED BY <2>2 DEF Session, Forms, formVars
  <1> QED BY <1>6, <1>7

LEMMA Previewed == ASSUME Session, NEW q \in Requests, PostPreview(q) PROVE Session'
  <1>1. request[q].status = "preview" /\ UNCHANGED <<formVars, checkpoint, acted>>
    BY DEF PostPreview
  <1>2. request[q] # Nothing BY <1>1 DEF Nothing
  <1>3. PICK p : p = request[q] OBVIOUS
  <1>4. p \in Request BY <1>2, <1>3 DEF Session, Requested, Sound
  <1>5. p.who \in People /\ p.rev \in Revisions /\ p.draft \in DraftData
    BY <1>4 DEF Request
  <1>6. CASE HandlePreview(p) /\ Answer(q, "ok")
    <2> DEFINE snap == [status |-> "fresh", who |-> p.who, draft |-> p.draft,
                        canonical |-> Strong(p.draft)]
    <2>1. /\ snapshot' = [snapshot EXCEPT ![p.rev] = snap]
          /\ previewed' = previewed \cup {PreviewOf(p.who, p.rev, p.draft)}
      BY <1>6 DEF HandlePreview, PreviewOf
    <2>2. snap \in Snapshot /\ snap.who = p.who /\ snap.draft = p.draft
      BY <1>5 DEF Snapshot, Strong
    <2> HIDE DEF snap
    <2>3. Forms' /\ Requested' BY <1>1, <1>2, <1>6, <2>1, Answering DEF Answers
    <2>4. Snapshots'
      <3>1. /\ snapshot'[p.rev] = snap
            /\ \A r \in Revisions \ {p.rev} : snapshot'[r] = snapshot[r]
            /\ snapshot' \in [Revisions -> Snapshot \cup {Nothing}]
        BY <1>5, <2>1, <2>2 DEF Session, Snapshots
      <3> QED BY <1>5, <2>1, <2>2, <3>1 DEF Session, Snapshots
    <2>5. Acts' BY <1>1, <2>1 DEF Session, Acts, formVars
    <2> QED BY <2>3, <2>4, <2>5 DEF Session
  <1>7. CASE Answer(q, "error") /\ UNCHANGED <<snapshot, previewed>>
    <2>1. Forms' /\ Requested' BY <1>1, <1>2, <1>7, Answering DEF Answers
    <2>2. Snapshots' /\ Acts' BY <1>1, <1>7 DEF Session, Snapshots, Acts, formVars
    <2> QED BY <2>1, <2>2 DEF Session
  <1> QED BY <1>3, <1>6, <1>7 DEF PostPreview

LEMMA Expired == ASSUME Session, NEW r \in Revisions, ExpireSnapshot(r) PROVE Session'
  <1>1. /\ snapshot[r].status = "fresh"
        /\ snapshot' = [snapshot EXCEPT ![r] = [snapshot[r] EXCEPT !.status = "expired"]]
        /\ UNCHANGED <<formVars, request, checkpoint, previewed, acted>>
    BY DEF ExpireSnapshot
  <1>2. snapshot[r] # Nothing BY <1>1 DEF Nothing
  <1>3. snapshot[r] \in Snapshot BY <1>2 DEF Session, Snapshots
  <1>4. PICK snap : snap = [snapshot[r] EXCEPT !.status = "expired"] OBVIOUS
  <1>5. snap \in Snapshot /\ snap.who = snapshot[r].who /\ snap.draft = snapshot[r].draft
    BY <1>3, <1>4 DEF Snapshot
  <1>6. /\ snapshot'[r] = snap /\ \A s \in Revisions \ {r} : snapshot'[s] = snapshot[s]
        /\ snapshot' \in [Revisions -> Snapshot \cup {Nothing}]
    BY <1>1, <1>4, <1>5 DEF Session, Snapshots
  <1>7. Snapshots' BY <1>1, <1>2, <1>5, <1>6 DEF Session, Snapshots
  <1>8. Forms' /\ Requested' /\ Acts'
    BY <1>1 DEF Session, Forms, Asked, Requested, Sound, Acts, formVars
  <1> QED BY <1>7, <1>8 DEF Session

LEMMA RunPosted == ASSUME Session, NEW q \in Requests, PostRun(q) PROVE Session'
  <1>1. PICK p : p = request[q] OBVIOUS
  <1>2. p.status = "run" /\ UNCHANGED <<formVars, storeVars>> BY <1>1 DEF PostRun
  <1>3. p # Nothing BY <1>2 DEF Nothing
  <1>4. p \in Request /\ (p.ui => <<p.who, p.rev>> \in confirmed)
    BY <1>1, <1>2, <1>3 DEF Session, Requested, Sound
  <1>5. Snapshots' /\ Acts' BY <1>2, StoresKept DEF formVars
  <1> DEFINE answer == IF p.who \in Submitters THEN Checked(p) ELSE "FORBIDDEN"
  <1>6. CASE answer # "OK"
    <2>1. answer \in Answers BY <1>6 DEF Checked, Answers
    <2>2. Answer(q, answer) BY <1>1, <1>6 DEF PostRun
    <2>3. PICK reply \in Answers : Answer(q, reply) BY <2>1, <2>2
    <2>4. Forms' /\ Requested'
      BY <1>1, <1>2, <1>3, <2>3, Answering DEF storeVars
    <2> QED BY <1>5, <2>4 DEF Session
  <1>7. CASE answer = "OK"
    <2>1. Checked(p) = "OK" BY <1>7
    <2>2. p.rev \in Revisions BY <1>4 DEF Request
    <2>3. /\ snapshot[p.rev] # Nothing /\ snapshot[p.rev].who = p.who
      BY <2>1 DEF Checked
    <2>4. PICK snap \in Snapshot : /\ snap = snapshot[p.rev] /\ snap.who = p.who
                                   /\ PreviewOf(p.who, p.rev, snap.draft) \in previewed
      BY <2>2, <2>3 DEF Session, Snapshots
    <2>5. PICK new : new = [p EXCEPT !.status = "checked", !.snap = snap] OBVIOUS
    <2>6. request' = [request EXCEPT ![q] = new]
      BY <1>1, <1>7, <2>4, <2>5 DEF PostRun
    <2>7. /\ new \in Request /\ new.status = "checked" /\ new.who = p.who /\ new.ui = p.ui
          /\ new.rev = p.rev /\ new.snap = snap
      BY <1>4, <2>4, <2>5 DEF Request
    <2>8. Sound(new)'
      BY <1>2, <1>4, <2>4, <2>7 DEF Sound, formVars, storeVars
    <2>9. Requested' BY <1>2, <2>6, <2>8, OneRequest DEF formVars, storeVars
    <2>10. Forms'
      <3>1. request'[q] = new /\ \A s \in Requests \ {q} : request'[s] = request[s]
        BY <2>6 DEF Session, Requested
      <3>2. new # Nothing BY <2>7, Something
      <3>3. \A u \in Users : Asked(u, form[u].waits) => Asked(u, form[u].waits)'
        BY <1>1, <1>2, <2>7, <3>1, <3>2 DEF Asked, formVars
      <3> QED BY <1>2, <3>3 DEF Session, Forms, formVars
    <2> QED BY <1>5, <2>9, <2>10 DEF Session
  <1> QED BY <1>6, <1>7

LEMMA RunServed == ASSUME Session, NEW q \in Requests, ServeRun(q) PROVE Session'
  <1>1. PICK p : p = request[q] OBVIOUS
  <1>2. p.status = "checked" /\ UNCHANGED <<formVars, snapshot, previewed>>
    BY <1>1 DEF ServeRun
  <1>3. p # Nothing BY <1>2 DEF Nothing
  <1>4. /\ p \in Request /\ (p.ui => <<p.who, p.rev>> \in confirmed)
        /\ p.snap \in Snapshot /\ p.snap.who = p.who
        /\ PreviewOf(p.who, p.rev, p.snap.draft) \in previewed
    BY <1>1, <1>2, <1>3 DEF Session, Requested, Sound
  <1>5. p.rev \in Revisions /\ p.draft \in DraftData /\ p.who \in People /\ p.ui \in BOOLEAN
    BY <1>4 DEF Request
  <1>6. PICK row : row = checkpoint[p.rev] OBVIOUS
  <1>7. row = Nothing \/ row \in CheckpointRow BY <1>5, <1>6 DEF Session, Acts
  <1> DEFINE effective == IF row # Nothing /\ row.canonical # "none" THEN row.canonical
                          ELSE p.snap.canonical
             actual == [draft |-> p.draft, canonical |-> effective]
  <1>8. effective \in {"exact", "none"} BY <1>4, <1>7 DEF Snapshot, CheckpointRow
  <1>9. actual \in Digest /\ actual.draft = p.draft /\ actual.canonical = effective
    BY <1>5, <1>8 DEF Digest
  <1>10. CASE \E reply \in {"DIGEST_MISMATCH", "IDEMPOTENCY_CONFLICT"} :
                Answer(q, reply) /\ UNCHANGED <<checkpoint, acted>>
    <2>1. Forms' /\ Requested' BY <1>1, <1>2, <1>3, <1>10, Answering DEF Answers
    <2>2. Snapshots' /\ Acts' BY <1>2, <1>10 DEF Session, Snapshots, Acts, formVars
    <2> QED BY <2>1, <2>2 DEF Session
  <1> HIDE DEF actual, effective
  <1>11. ASSUME NEW outcome \in RunOutcomes, NEW canonical \in {effective, "exact"},
                DigestBound(actual, p.snap), row # Nothing => row.digest = actual,
                checkpoint' = [checkpoint EXCEPT ![p.rev] =
                                 RowAfter(RowFor(p.rev, actual), outcome, canonical)],
                acted' = IF outcome = "FAILED" THEN acted
                         ELSE acted \cup {[who |-> p.who, ui |-> p.ui, rev |-> p.rev,
                                           draft |-> p.draft]},
                Answer(q, outcome)
         PROVE  Session'
    <2>1. Forms' /\ Requested' BY <1>1, <1>2, <1>3, <1>11, Answering DEF Answers
    <2>2. Snapshots' BY <1>2 DEF Session, Snapshots, formVars
    <2>3. PICK old \in CheckpointRow : old = RowFor(p.rev, actual) /\ old.digest = actual
      <3>1. CASE row # Nothing BY <1>6, <1>7, <1>11, <3>1 DEF RowFor
      <3>2. CASE row = Nothing
        <4>1. RowFor(p.rev, actual) = [status |-> "RUNNING", digest |-> actual,
                                       canonical |-> effective]
          BY <1>6, <1>9, <3>2 DEF RowFor
        <4> QED BY <1>8, <1>9, <4>1 DEF CheckpointRow
      <3> QED BY <3>1, <3>2
    <2>4. PICK new : new = RowAfter(old, outcome, canonical) OBVIOUS
    <2>5. new \in CheckpointRow /\ new.digest = actual
      BY <1>8, <2>3, <2>4 DEF RowAfter, CheckpointRow
    <2>6. /\ checkpoint' \in [Revisions -> CheckpointRow \cup {Nothing}]
          /\ checkpoint'[p.rev] = new
          /\ \A r \in Revisions \ {p.rev} : checkpoint'[r] = checkpoint[r]
      BY <1>5, <1>11, <2>3, <2>4, <2>5 DEF Session, Acts
    <2> DEFINE act == [who |-> p.who, ui |-> p.ui, rev |-> p.rev, draft |-> p.draft]
    <2>7. /\ act \in Act /\ act.who = p.who /\ act.ui = p.ui /\ act.rev = p.rev
          /\ act.draft = p.draft
      BY <1>5 DEF Act
    <2>8. p.draft = p.snap.draft
      <3>1. actual = [draft |-> p.snap.draft, canonical |-> p.snap.canonical]
        BY <1>11 DEF DigestBound
      <3> QED BY <1>9, <3>1
    <2> HIDE DEF act
    <2>9. new # Nothing BY <2>5, Something
    <2>10. ASSUME NEW a \in acted
           PROVE  /\ a \in Act /\ PreviewOf(a.who, a.rev, a.draft) \in previewed
                  /\ a.ui => <<a.who, a.rev>> \in confirmed
                  /\ checkpoint'[a.rev] # Nothing /\ checkpoint'[a.rev].digest.draft = a.draft
      <3>1. /\ a \in Act /\ PreviewOf(a.who, a.rev, a.draft) \in previewed
            /\ a.ui => <<a.who, a.rev>> \in confirmed
            /\ checkpoint[a.rev] # Nothing /\ checkpoint[a.rev].digest.draft = a.draft
        BY DEF Session, Acts
      <3>2. a.rev \in Revisions BY <3>1 DEF Act
      <3>3. CASE a.rev = p.rev
        <4>1. row # Nothing /\ row.digest.draft = a.draft BY <1>6, <3>1, <3>3
        <4> QED BY <1>11, <2>5, <2>6, <2>9, <3>1, <3>3, <4>1
      <3>4. CASE a.rev # p.rev BY <2>6, <3>1, <3>2, <3>4
      <3> QED BY <3>3, <3>4
    <2>11. /\ PreviewOf(act.who, act.rev, act.draft) \in previewed
           /\ act.ui => <<act.who, act.rev>> \in confirmed
           /\ checkpoint'[act.rev] # Nothing /\ checkpoint'[act.rev].digest.draft = act.draft
      BY <1>4, <1>9, <2>5, <2>6, <2>7, <2>8, <2>9
    <2>12. acted' \subseteq acted \cup {act} BY <1>11 DEF act
    <2>13. Acts'
      BY <1>2, <2>6, <2>7, <2>10, <2>11, <2>12 DEF Acts, formVars
    <2> QED BY <2>1, <2>2, <2>13 DEF Session
  <1> QED BY <1>1, <1>6, <1>10, <1>11 DEF ServeRun, actual, effective

LEMMA NextSession == Session /\ [PanelNext]_panelVars => Session'
  <1> SUFFICES ASSUME Session, [PanelNext]_panelVars PROVE Session'
    OBVIOUS
  <1>1. CASE UNCHANGED panelVars
    BY <1>1
       DEF panelVars, Session, Forms, Asked, Requested, Sound, Snapshots, Acts
  <1>2. ASSUME NEW q \in Requests, NEW who \in Callers, NEW r \in Revisions, NEW d \in DraftData,
               NEW op \in {"preview", "run"},
               Send(q, op, who, FALSE, r, d), UNCHANGED <<formVars, storeVars>>
        PROVE  Session'
    <2>1. /\ Requested'
          /\ \A v \in Users : \A s \in Requests : Asked(v, s) => Asked(v, s)'
      BY <1>2, Sent DEF People, formVars, storeVars
    <2>2. Forms'
      <3>1. \A u \in Users : Asked(u, form[u].waits) => Asked(u, form[u].waits)'
        <4>1. TAKE u \in Users
        <4>2. PICK s : s = form[u].waits OBVIOUS
        <4>3. Asked(u, s) => Asked(u, s)' BY <2>1 DEF Asked
        <4> QED BY <1>2, <4>2, <4>3 DEF Asked, formVars
      <3> QED BY <1>2, <3>1 DEF Session, Forms, formVars
    <2> QED BY <1>2, <2>1, <2>2, StoresKept DEF Session, formVars
  <1> QED
    BY <1>1, <1>2, Edited, PreviewPressed, SubmitPressed, PreviewReceived, RunReceived,
       Confirmed, TimedOut, ResetPressed, Previewed, Expired, RunPosted, RunServed
       DEF PanelNext

\* PanelInv: however previews are replaced, forms edited and answers lost, a run acts on what
\* was previewed for whoever runs it, a form's run on what its user confirmed, and a revision
\* is acted on with one draft.
THEOREM RunsWhatWasPreviewed == PanelSpec => []PanelInv
  <1>1. PanelSpec => []Session BY InitSession, NextSession, PTL DEF PanelSpec
  <1> QED BY <1>1, SessionHolds, PTL

-----------------------------------------------------------------------------
(* Do not contact.                                                         *)

Keys == {KeyOf(c) : c \in Contacts}

DncTypes ==
    /\ kept \in [Keys -> Payloads \cup {Free}]
    /\ resets \in Nat
    /\ suppressed \in [Payloads -> Nat]
    /\ told \subseteq Nat \X Keys \X Payloads

\* What the gateway keeps it accepted, and what it accepts is well formed.
Accepted ==
    /\ \A k \in Keys : kept[k] # Free => suppressed[kept[k]] > 0
    /\ \A p \in Payloads : suppressed[p] > 0 => p.reason \in DncReasons

\* What is answered since the last reset is what the gateway keeps under the key.
Answered ==
    \A t \in told : /\ t[1] <= resets /\ suppressed[t[3]] > 0
                    /\ t[1] = resets => kept[t[2]] = t[3]
OnePayload == \A t, u \in told : t[1] = u[1] /\ t[2] = u[2] => t = u

\* A contact was suppressed once per reset, and since the last one only if the gateway keeps it.
OncePerReset ==
    \A p \in Payloads : p.target # TheProfile =>
      \/ suppressed[p] <= resets
      \/ suppressed[p] = resets + 1 /\ p.target.id \in Keys /\ kept[p.target.id] = p

Ledger == DncTypes /\ Accepted /\ Answered /\ OnePayload /\ OncePerReset

LEMMA LedgerHolds == Ledger => DncInv
  <1> SUFFICES ASSUME Ledger PROVE DncInv
    OBVIOUS
  <1>1. \A t \in told : suppressed[t[3]] > 0 BY DEF Ledger, Answered
  <1>2. \A t, u \in told : t[1] = u[1] /\ t[2] = u[2] => t = u BY DEF Ledger, OnePayload
  <1>3. \A p \in Payloads : p.target # TheProfile => suppressed[p] <= 1 + resets
    <2>1. resets \in Nat /\ \A p \in Payloads : suppressed[p] \in Nat BY DEF Ledger, DncTypes
    <2> QED BY <2>1 DEF Ledger, OncePerReset
  <1> QED BY <1>1, <1>2, <1>3 DEF DncInv

LEMMA InitLedger == DncInit => Ledger
  <1> SUFFICES ASSUME DncInit PROVE Ledger
    OBVIOUS
  <1>1. /\ kept = [k \in Keys |-> Free] /\ resets = 0 /\ told = {}
        /\ suppressed = [p \in Payloads |-> 0]
    BY DEF DncInit, Keys
  <1>2. DncTypes BY <1>1 DEF DncTypes
  <1>3. Accepted /\ Answered /\ OnePayload /\ OncePerReset
    BY <1>1 DEF Accepted, Answered, OnePayload, OncePerReset
  <1> QED BY <1>2, <1>3 DEF Ledger

LEMMA GatewayReset == ASSUME Ledger, ResetGateway PROVE Ledger'
  <1>1. /\ resets' = resets + 1 /\ kept' = [k \in Keys |-> Free]
        /\ UNCHANGED <<suppressed, told>> /\ resets \in Nat
    BY DEF ResetGateway, Ledger, DncTypes
  <1>2. \A k \in Keys : kept'[k] = Free BY <1>1
  <1>3. \A t \in told : t[1] \in Nat BY DEF Ledger, DncTypes
  <1>4. \A p \in Payloads : suppressed[p] \in Nat BY DEF Ledger, DncTypes
  <1>5. DncTypes' BY <1>1 DEF Ledger, DncTypes
  <1>6. Accepted' BY <1>1, <1>2 DEF Ledger, Accepted
  <1>7. Answered' BY <1>1, <1>3 DEF Ledger, Answered
  <1>8. OnePayload' BY <1>1 DEF Ledger, OnePayload
  <1>9. OncePerReset' BY <1>1, <1>4 DEF Ledger, OncePerReset
  <1> QED BY <1>5, <1>6, <1>7, <1>8, <1>9 DEF Ledger

LEMMA CommandExecuted ==
    ASSUME Ledger, NEW c \in Contacts, NEW profile \in BOOLEAN, NEW reason \in Reasons,
           reason \in DncReasons, Execute(KeyOf(c), Payload(c, profile, reason)),
           ~ UNCHANGED dncVars
    PROVE  Ledger'
  <1> DEFINE k == KeyOf(c)  p == Payload(c, profile, reason)
  <1>1. /\ p \in Payloads /\ p.reason = reason /\ k \in Keys
        /\ p.target = TheProfile \/ p.target.id = k
    BY DEF Payloads, Payload, Keys, KeyOf
  <1>2. p # Free
    <2>1. Free.reason = "none" BY DEF Free
    <2> QED BY <1>1, <2>1 DEF DncReasons
  <1>3. /\ ~Conflicts(k, p) /\ CallGateway(k, p) /\ resets' = resets
        /\ told' = told \cup {<<resets, k, p>>}
    BY DEF Execute
  <1> HIDE DEF p, k
  <1>4. /\ resets \in Nat /\ kept \in [Keys -> Payloads \cup {Free}]
        /\ suppressed \in [Payloads -> Nat]
    BY DEF Ledger, DncTypes
  <1>5. /\ kept' \in [Keys -> Payloads \cup {Free}] /\ suppressed' \in [Payloads -> Nat]
        /\ kept'[k] = p /\ \A j \in Keys \ {k} : kept'[j] = kept[j]
        /\ \A q \in Payloads \ {p} : suppressed'[q] = suppressed[q]
        /\ \/ kept[k] = Free /\ suppressed'[p] = suppressed[p] + 1
           \/ kept[k] = p /\ suppressed' = suppressed
    <2>1. CASE kept[k] = Free
      BY <1>1, <1>3, <1>4, <2>1 DEF CallGateway
    <2>2. CASE kept[k] # Free
      BY <1>1, <1>3, <1>4, <2>2 DEF CallGateway, Conflicts
    <2> QED BY <2>1, <2>2
  <1>6. suppressed'[p] > 0
    <2>1. kept[k] # Free => suppressed[kept[k]] > 0 BY <1>1 DEF Ledger, Accepted
    <2> QED BY <1>1, <1>2, <1>4, <1>5, <2>1
  <1>7. \A q \in Payloads : suppressed[q] > 0 => suppressed'[q] > 0
    BY <1>4, <1>5, <1>6
  <1>8. DncTypes' BY <1>1, <1>3, <1>4, <1>5 DEF Ledger, DncTypes
  <1>9. Accepted'
    <2>1. \A j \in Keys : kept'[j] # Free => suppressed'[kept'[j]] > 0
      BY <1>4, <1>5, <1>6, <1>7 DEF Ledger, Accepted
    <2>2. \A q \in Payloads : suppressed'[q] > 0 => q.reason \in DncReasons
      BY <1>1, <1>5 DEF Ledger, Accepted
    <2> QED BY <2>1, <2>2 DEF Accepted
  <1>10. \A t \in told : /\ t[1] \in Nat /\ t[2] \in Keys /\ t[3] \in Payloads
                         /\ t = <<t[1], t[2], t[3]>>
    BY DEF Ledger, DncTypes
  <1> DEFINE new == <<resets, k, p>>
  <1>11. new[1] = resets /\ new[2] = k /\ new[3] = p OBVIOUS
  <1>12. \A t \in told : t[1] = resets /\ t[2] = k => t = new
    <2>1. SUFFICES ASSUME NEW t \in told, t[1] = resets, t[2] = k PROVE t[3] = p
      BY <1>10
    <2>2. kept[k] = t[3] /\ suppressed[t[3]] > 0 BY <2>1 DEF Ledger, Answered
    <2>3. t[3] # Free
      <3>1. t[3].reason \in DncReasons BY <1>10, <2>1, <2>2 DEF Ledger, Accepted
      <3>2. Free.reason = "none" BY DEF Free
      <3> QED BY <3>1, <3>2 DEF DncReasons
    <2> QED BY <1>5, <2>2, <2>3
  <1>13. Answered'
    <2>1. \A t \in told : /\ t[1] <= resets /\ suppressed'[t[3]] > 0
                          /\ t[1] = resets => kept'[t[2]] = t[3]
      <3>1. SUFFICES ASSUME NEW t \in told
                     PROVE  /\ t[1] <= resets /\ suppressed'[t[3]] > 0
                            /\ t[1] = resets => kept'[t[2]] = t[3]
        OBVIOUS
      <3>2. /\ t[1] <= resets /\ suppressed[t[3]] > 0
            /\ t[1] = resets => kept[t[2]] = t[3]
        BY DEF Ledger, Answered
      <3>3. t[1] = resets => kept'[t[2]] = t[3]
        BY <1>5, <1>10, <1>11, <1>12, <3>2
      <3> QED BY <1>7, <1>10, <3>2, <3>3
    <2>2. new[1] <= resets /\ suppressed'[new[3]] > 0 /\ kept'[new[2]] = new[3]
      BY <1>4, <1>5, <1>6, <1>11
    <2> HIDE DEF new
    <2> QED BY <1>3, <2>1, <2>2 DEF Answered, new
  <1>14. OnePayload'
    <2> HIDE DEF new
    <2>1. told' = told \cup {new} BY <1>3 DEF new
    <2> QED BY <1>11, <1>12, <2>1 DEF Ledger, OnePayload
  <1>15. OncePerReset'
    <2>1. SUFFICES ASSUME NEW q \in Payloads, q.target # TheProfile
                   PROVE  \/ suppressed'[q] <= resets
                          \/ /\ suppressed'[q] = resets + 1 /\ q.target.id \in Keys
                             /\ kept'[q.target.id] = q
      BY <1>3 DEF OncePerReset
    <2>2. \/ suppressed[q] <= resets
          \/ suppressed[q] = resets + 1 /\ q.target.id \in Keys /\ kept[q.target.id] = q
      BY <2>1 DEF Ledger, OncePerReset
    <2>3. q.reason \in DncReasons \/ suppressed[q] = 0
      BY <1>4 DEF Ledger, Accepted
    <2>4. q = Free => suppressed[q] = 0
      <3>1. Free.reason \notin DncReasons BY DEF Free, DncReasons
      <3> QED BY <2>3, <3>1
    <2>5. CASE q = p BY <1>1, <1>2, <1>4, <1>5, <2>1, <2>2, <2>5
    <2>6. CASE q # p BY <1>4, <1>5, <2>2, <2>4, <2>6
    <2> QED BY <2>5, <2>6
  <1> QED BY <1>8, <1>9, <1>13, <1>14, <1>15 DEF Ledger

LEMMA NextLedger == Ledger /\ [DncNext]_dncVars => Ledger'
  <1> SUFFICES ASSUME Ledger, [DncNext]_dncVars PROVE Ledger'
    OBVIOUS
  <1>1. CASE UNCHANGED dncVars
    BY <1>1 DEF dncVars, Ledger, DncTypes, Accepted, Answered, OnePayload, OncePerReset
  <1>2. CASE ResetGateway BY <1>2, GatewayReset
  <1>3. CASE \E who \in Requesters : PostDnc(who)
    <2>1. PICK who \in Requesters, c \in Contacts, profile \in BOOLEAN, reason \in Reasons,
               note \in {"plain", "url"}, actor \in {"absent"} \cup Requesters :
            HandleDnc(who, c, profile, reason, note, actor)
      BY <1>3 DEF PostDnc
    <2>2. CASE UNCHANGED dncVars BY <1>1, <2>2
    <2>3. CASE ~ UNCHANGED dncVars
      <3>1. /\ WellFormed(Payload(c, profile, reason), note)
            /\ Execute(KeyOf(c), Payload(c, profile, reason))
        BY <2>1, <2>3 DEF HandleDnc
      <3>2. reason \in DncReasons BY <3>1 DEF WellFormed, Payload
      <3> QED BY <2>3, <3>1, <3>2, CommandExecuted
    <2> QED BY <2>2, <2>3
  <1> QED BY <1>1, <1>2, <1>3 DEF DncNext

\* DncInv: whoever is told that a suppression was applied asked for one the gateway accepted,
\* and what names a contact is accepted once, resets apart.
THEOREM ToldWhatWasApplied == DncSpec => []DncInv
  <1>1. DncSpec => []Ledger BY InitLedger, NextLedger, PTL DEF DncSpec
  <1> QED BY <1>1, LedgerHolds, PTL

-----------------------------------------------------------------------------
(* Versioned settings.                                                     *)

Cohorts == {"none", "period", "backwards"}
Setting == [version : Nat, write : Nat, by : Clients \cup {"seed"}, zero : BOOLEAN,
            cohort : Cohorts]
UpdateRequest == [op : {"update"}, who : Clients, seen : [version : Nat, write : Nat],
                  body : {"some", "forbidden", "secret", "keep", "zero"}]
AssignRequest == [op : {"create"}, who : Clients, zero : BOOLEAN, cohort : Cohorts]

ConfigTypes ==
    /\ kind \in {"pool", "provider", "kpi", "action"}
    /\ value \in Setting \cup {None} /\ (value # None => value.version > 0)
    /\ known \in [Clients -> [version : Nat, write : Nat]]
    /\ second \in Nat \ {0, 1}
    /\ versions \subseteq Nat /\ again \in BOOLEAN /\ blind \in BOOLEAN
    /\ slot = [s \in Slots |-> slot[s]]

\* Whoever knows a version that the setting still has knows its write, unless a version came
\* twice.
Knows(p) ==
    /\ p.version \in versions
    /\ ~again /\ p.version = value.version => p.write = value.write
KnownIsTrue ==
    \A c \in Clients : Knows(known[c]) \/ (known[c] = None /\ kind # "action")

\* What waits for its body was asked by whom the route lets pass.
Sendable(r) ==
    /\ r.op = "update" => r \in UpdateRequest /\ Knows(r.seen)
                          /\ (kind = "kpi" => r.who \in Managers)
    /\ r.op = "create" /\ kind = "pool" => r.who \in Clients \cap Managers
    /\ r.op = "create" /\ kind = "kpi" => r \in AssignRequest /\ r.who \in Managers
WaitingSettings == \A s \in Slots : slot[s] = Idle \/ Sendable(slot[s])

\* A setting had no version but those that are recorded, and a setting with a counter none
\* above the one it has.
Counter ==
    /\ value.version \in versions
    /\ value = None => versions = {0}
    /\ kind \in {"provider", "kpi"} => \A v \in versions : v <= value.version

Settings == ConfigTypes /\ KnownIsTrue /\ WaitingSettings /\ Counter /\ ConfigInv

LEMMA SettingIsSome == \A v \in Setting : v # None
  BY DEF Setting, None

\* The stored value with another number, author or target.
LEMMA StoredTyped ==
    ASSUME NEW v \in Nat, NEW w \in Nat, NEW who \in Clients \cup {"seed"}, NEW zero \in BOOLEAN,
           NEW cohort \in Cohorts
    PROVE  /\ Stored(v, w, who, zero, cohort) \in Setting
           /\ Stored(v, w, who, zero, cohort).version = v
           /\ Stored(v, w, who, zero, cohort).write = w
           /\ Stored(v, w, who, zero, cohort).by = who
           /\ Stored(v, w, who, zero, cohort).zero = zero
           /\ Stored(v, w, who, zero, cohort).cohort = cohort
  BY DEF Stored, Setting

LEMMA SeenTyped ==
    ASSUME NEW v, v.version \in Nat, v.write \in Nat
    PROVE  /\ Seen(v) \in [version : Nat, write : Nat]
           /\ Seen(v).version = v.version /\ Seen(v).write = v.write
  BY DEF Seen

LEMMA SeededTyped ==
    /\ Seeded \in Setting /\ Seeded.version = 1 /\ Seeded.write = 1
    /\ Seeded.by = "seed" /\ Seeded.zero = FALSE
  BY DEF Seeded, Stored, Setting, Cohorts

LEMMA InitSettings == ConfigInit /\ SwitchInit => Settings
  <1> SUFFICES ASSUME ConfigInit, SwitchInit PROVE Settings
    OBVIOUS
  <1>1. /\ kind \in {"pool", "provider", "kpi", "action"}
        /\ value \in {None, Seeded}
        /\ kind \in {"pool", "action"} => value = Seeded
        /\ second = 2 /\ versions = {value.version} /\ again = FALSE /\ blind = FALSE
    BY DEF ConfigInit
  <1>2. known = [c \in Clients |-> IF kind = "action" THEN Seen(value) ELSE None]
    BY DEF ConfigInit
  <1>3. slot = [s \in Slots |-> Idle] BY DEF SwitchInit
  <1>4. /\ None \in [version : Nat, write : Nat] /\ None.version = 0 /\ None.write = 0
        /\ Seen(Seeded) \in [version : Nat, write : Nat]
        /\ Seen(Seeded).version = 1 /\ Seen(Seeded).write = 1
    BY SeededTyped, SeenTyped DEF None
  <1>5. ConfigTypes
    <2>1. known \in [Clients -> [version : Nat, write : Nat]] BY <1>1, <1>2, <1>4
    <2>2. value \in Setting \cup {None} /\ (value # None => value.version > 0)
      BY <1>1, SeededTyped
    <2>3. value.version \in Nat BY <1>1, <1>4, SeededTyped
    <2>4. versions \subseteq Nat /\ second \in Nat \ {0, 1} BY <1>1, <2>3
    <2>5. slot = [s \in Slots |-> slot[s]] BY <1>3
    <2> QED BY <1>1, <2>1, <2>2, <2>4, <2>5 DEF ConfigTypes
  <1>6. KnownIsTrue BY <1>1, <1>2, <1>4, SeededTyped DEF KnownIsTrue, Knows
  <1>7. WaitingSettings BY <1>3 DEF WaitingSettings
  <1>8. Counter BY <1>1, <1>4, SeededTyped, SettingIsSome DEF Counter
  <1>9. ConfigInv BY <1>1, SeededTyped DEF ConfigInv
  <1> QED BY <1>5, <1>6, <1>7, <1>8, <1>9 DEF Settings

\* Steps that leave the setting and what is known of it alone.
LEMMA SettingKept ==
    ASSUME Settings, UNCHANGED <<kind, value, known, second, versions, again, blind>>,
           slot' = [s \in Slots |-> slot'[s]],
           \A s \in Slots : slot'[s] \in {slot[s], Idle} \/ Sendable(slot'[s])
    PROVE  Settings'
  <1>1. ConfigTypes' BY DEF Settings, ConfigTypes
  <1>2. KnownIsTrue' BY DEF Settings, KnownIsTrue, Knows
  <1>3. Counter' /\ ConfigInv' BY DEF Settings, Counter, ConfigInv
  <1>4. WaitingSettings'
    <2>1. SUFFICES ASSUME NEW s \in Slots PROVE (slot[s] = Idle \/ Sendable(slot[s]))'
      BY DEF WaitingSettings
    <2>2. slot'[s] = Idle \/ Sendable(slot'[s]) BY DEF Settings, WaitingSettings
    <2>3. PICK r : r = slot'[s] OBVIOUS
    <2>4. Sendable(r) => Sendable(r)' BY DEF Sendable, Knows
    <2> QED BY <2>2, <2>3, <2>4
  <1> QED BY <1>1, <1>2, <1>3, <1>4 DEF Settings

LEMMA RequestRead ==
    ASSUME Settings, NEW s \in Slots, NEW r, Sendable(r), ReadBody(s, r), UNCHANGED configVars
    PROVE  Settings'
  <1>1. slot' = [slot EXCEPT ![s] = r] /\ slot = [x \in Slots |-> slot[x]]
    BY DEF ReadBody, Settings, ConfigTypes
  <1> QED BY <1>1, SettingKept DEF configVars

\* The request of slot s is over.
LEMMA RequestOver ==
    ASSUME Settings, NEW s \in Slots, Leave(s)
    PROVE  slot' = [x \in Slots |-> slot'[x]] /\ \A x \in Slots : slot'[x] \in {slot[x], Idle}
  <1>1. slot' = [slot EXCEPT ![s] = Idle] /\ slot = [x \in Slots |-> slot[x]]
    BY DEF Leave, Settings, ConfigTypes
  <1> QED BY <1>1

\* What is read is what is stored, or what listProviderConfigs seeds.
LEMMA SettingRead ==
    ASSUME Settings, NEW c \in Clients, NEW v, Got(c, v),
           kind # "action", v = value \/ (kind = "provider" /\ value = None /\ v = Seeded)
    PROVE  Settings'
  <1>1. /\ value' = v /\ known' = [known EXCEPT ![c] = IF v = None THEN None ELSE Seen(v)]
        /\ versions' = versions \cup {v.version}
        /\ UNCHANGED <<kind, second, proposals, again, blind, slot>>
    BY DEF Got, switchVars
  <1>2. None \in [version : Nat, write : Nat] /\ None.version = 0 /\ None.write = 0
    BY DEF None
  <1>3. v \in Setting \cup {None} /\ (v # None => v.version > 0)
    BY SeededTyped DEF Settings, ConfigTypes
  <1>4. v.version \in Nat /\ v.write \in Nat BY <1>2, <1>3 DEF Setting
  <1>5. ConfigTypes'
    <2>1. known' \in [Clients -> [version : Nat, write : Nat]]
      BY <1>1, <1>2, <1>4, SeenTyped DEF Settings, ConfigTypes
    <2>2. versions' \subseteq Nat BY <1>1, <1>4 DEF Settings, ConfigTypes
    <2> QED BY <1>1, <1>3, <2>1, <2>2 DEF Settings, ConfigTypes
  <1>6. Counter'
    <2>1. CASE v = value BY <1>1, <2>1 DEF Settings, Counter
    <2>2. CASE value = None /\ v = Seeded
      BY <1>1, <2>2, SeededTyped, SettingIsSome, <1>2 DEF Settings, Counter
    <2> QED BY <2>1, <2>2
  <1>7. \A p : p.version \in versions /\ Knows(p) => Knows(p)'
    <2>1. CASE v = value BY <1>1, <2>1 DEF Knows
    <2>2. CASE value = None /\ v = Seeded
      BY <1>1, <2>2, SeededTyped DEF Settings, Counter, Knows
    <2> QED BY <2>1, <2>2
  <1>8. KnownIsTrue'
    <2>1. SUFFICES ASSUME NEW d \in Clients
                   PROVE  (Knows(known[d]) \/ (known[d] = None /\ kind # "action"))'
      BY DEF KnownIsTrue
    <2>2. PICK p : p = known[d] OBVIOUS
    <2>3. (p = None /\ kind # "action") \/ (Knows(p) /\ p.version \in versions)
      BY <2>2 DEF Settings, KnownIsTrue, Knows
    <2>4. (p = None /\ kind # "action") \/ Knows(p)' BY <2>3, <1>7
    <2>5. v # None => Knows(Seen(v))'
      <3>1. PICK q : q = Seen(v) OBVIOUS
      <3>2. Knows(q)' BY <3>1, <1>1, <1>4, SeenTyped DEF Knows
      <3> QED BY <3>1, <3>2
    <2>6. known'[d] \in {p, None} \/ (v # None /\ known'[d] = Seen(v))
      BY <1>1, <2>2 DEF Settings, ConfigTypes
    <2> QED BY <1>1, <2>4, <2>5, <2>6
  <1>9. WaitingSettings'
    <2>1. SUFFICES ASSUME NEW s \in Slots PROVE (slot[s] = Idle \/ Sendable(slot[s]))'
      BY DEF WaitingSettings
    <2>2. PICK r : r = slot[s] OBVIOUS
    <2>3. r = Idle \/ Sendable(r) BY <2>2 DEF Settings, WaitingSettings
    <2>4. PICK p : p = r.seen OBVIOUS
    <2>5. Knows(p) => Knows(p)' BY <1>7 DEF Knows
    <2>6. Sendable(r) => Sendable(r)' BY <1>1, <2>4, <2>5 DEF Sendable
    <2> QED BY <1>1, <2>2, <2>3, <2>6
  <1>10. ConfigInv'
    <2>1. v # None /\ v # value => v.by = "seed" /\ v.zero = FALSE BY SeededTyped
    <2> QED BY <1>1, <2>1 DEF Settings, ConfigInv
  <1> QED BY <1>5, <1>6, <1>8, <1>9, <1>10 DEF Settings

\* What may be written over the value that is there.
Fitting(new) ==
    /\ new \in Setting /\ new.version > 0
    /\ kind \in {"provider", "kpi"} => new.version = value.version + 1
    /\ kind # "action" => new.by \in Managers \cup {"seed"}
    /\ kind = "kpi" => (new.zero => new.cohort # "none")

LEMMA SettingWritten ==
    ASSUME Settings, NEW s \in Slots, NEW c \in Clients, NEW new, Fitting(new),
           NEW unseen \in BOOLEAN, unseen => again, WriteBy(c, new, unseen), Leave(s),
           UNCHANGED <<kind, second>>
    PROVE  Settings'
  <1>1. /\ value' = new /\ known' = [known EXCEPT ![c] = Seen(new)]
        /\ versions' = versions \cup {new.version}
        /\ again' = (again \/ new.version \in versions)
        /\ blind' = (blind \/ unseen)
    BY DEF WriteBy
  <1>2. /\ new \in Setting /\ new # None /\ new.version \in Nat /\ new.version > 0
        /\ new.write \in Nat
    BY SettingIsSome DEF Fitting, Setting
  <1>3. slot' = [x \in Slots |-> slot'[x]] /\ \A x \in Slots : slot'[x] \in {slot[x], Idle}
    BY RequestOver
  <1>4. ConfigTypes'
    <2>1. known' \in [Clients -> [version : Nat, write : Nat]]
      BY <1>1, <1>2, SeenTyped DEF Settings, ConfigTypes
    <2>2. versions' \subseteq Nat BY <1>1, <1>2 DEF Settings, ConfigTypes
    <2>3. again' \in BOOLEAN /\ blind' \in BOOLEAN BY <1>1
    <2> QED BY <1>1, <1>2, <1>3, <2>1, <2>2, <2>3 DEF Settings, ConfigTypes
  <1>5. value.version \in Nat /\ versions \subseteq Nat
    BY DEF Settings, ConfigTypes, Setting, None
  <1>6. Counter'
    <2>1. CASE kind \in {"provider", "kpi"}
      <3>1. \A v \in versions : v <= value.version BY <2>1 DEF Settings, Counter
      <3>2. new.version = value.version + 1 BY <2>1 DEF Fitting
      <3>3. \A v \in versions' : v <= new.version BY <1>1, <1>5, <3>1, <3>2
      <3> QED BY <1>1, <1>2, <3>3 DEF Counter
    <2>2. CASE kind \notin {"provider", "kpi"} BY <1>1, <1>2, <2>2 DEF Counter
    <2> QED BY <2>1, <2>2
  <1>7. \A p : Knows(p) => Knows(p)' BY <1>1 DEF Knows
  <1>8. KnownIsTrue'
    <2>1. SUFFICES ASSUME NEW d \in Clients
                   PROVE  (Knows(known[d]) \/ (known[d] = None /\ kind # "action"))'
      BY DEF KnownIsTrue
    <2>2. PICK p : p = known[d] OBVIOUS
    <2>3. (p = None /\ kind # "action") \/ Knows(p)' BY <1>7, <2>2 DEF Settings, KnownIsTrue
    <2>4. Knows(Seen(new))'
      <3>1. PICK q : q = Seen(new) OBVIOUS
      <3>2. Knows(q)' BY <3>1, <1>1, <1>2, SeenTyped DEF Knows
      <3> QED BY <3>1, <3>2
    <2>5. known'[d] = p \/ known'[d] = Seen(new) BY <1>1, <2>2 DEF Settings, ConfigTypes
    <2> QED BY <2>3, <2>4, <2>5
  <1>9. WaitingSettings'
    <2>1. SUFFICES ASSUME NEW x \in Slots PROVE (slot[x] = Idle \/ Sendable(slot[x]))'
      BY DEF WaitingSettings
    <2>2. PICK r : r = slot[x] OBVIOUS
    <2>3. r = Idle \/ Sendable(r) BY <2>2 DEF Settings, WaitingSettings
    <2>4. PICK p : p = r.seen OBVIOUS
    <2>5. Knows(p) => Knows(p)' BY <1>7
    <2>6. Sendable(r) => Sendable(r)' BY <2>4, <2>5 DEF Sendable
    <2> QED BY <1>3, <2>2, <2>3, <2>6
  <1>10. ConfigInv'
    <2>1. blind' => again' BY <1>1 DEF Settings, ConfigInv
    <2>2. again' => kind \in {"pool", "action"}
      <3>1. CASE kind \in {"provider", "kpi"}
        <4>1. \A v \in versions : v <= value.version BY <3>1 DEF Settings, Counter
        <4>2. new.version = value.version + 1 BY <3>1 DEF Fitting
        <4>3. new.version \notin versions BY <1>5, <4>1, <4>2
        <4> QED BY <1>1, <4>3 DEF Settings, ConfigInv
      <3> QED BY <3>1 DEF Settings, ConfigTypes
    <2>3. kind # "action" => new.by \in Managers \cup {"seed"} BY DEF Fitting
    <2>4. kind = "kpi" => (new.zero => new.cohort # "none") BY DEF Fitting
    <2> QED BY <1>1, <2>1, <2>2, <2>3, <2>4 DEF ConfigInv
  <1> QED BY <1>4, <1>6, <1>8, <1>9, <1>10 DEF Settings

\* An accepted update: who sent it knew the write it replaces, unless a version came twice.
LEMMA SettingUpdated ==
    ASSUME Settings, NEW s \in Slots, NEW op, NEW of, Serves(s, op, of), op = "update",
           NEW version \in Nat \ {0}, NEW zero \in BOOLEAN,
           VersionMatches(slot[s].seen), Updated(slot[s], version, zero), Leave(s),
           kind \in {"provider", "kpi"} => version = value.version + 1,
           kind \in {"pool", "provider"} => slot[s].who \in Managers,
           kind = "kpi" => (zero => value.cohort # "none")
    PROVE  Settings'
  <1>1. /\ slot[s] # Idle /\ slot[s].op = "update" /\ UNCHANGED <<kind, second>>
        /\ value \in Setting /\ value.version = slot[s].seen.version
    BY DEF Serves, VersionMatches, Settings, ConfigTypes
  <1>2. /\ slot[s] \in UpdateRequest /\ Knows(slot[s].seen)
        /\ kind = "kpi" => slot[s].who \in Managers
    BY <1>1 DEF Settings, WaitingSettings, Sendable
  <1>3. PICK r : r = slot[s] OBVIOUS
  <1>4. r.who \in Clients BY <1>2, <1>3 DEF UpdateRequest
  <1>5. PICK new : new = Stored(version, value.write + 1, r.who, zero, value.cohort) OBVIOUS
  <1>6. /\ new \in Setting /\ new.version = version /\ new.by = r.who /\ new.zero = zero
        /\ new.cohort = value.cohort
    BY <1>1, <1>4, <1>5, StoredTyped DEF Setting
  <1>7. Fitting(new) BY <1>2, <1>3, <1>6 DEF Fitting, Settings, ConfigTypes
  <1>8. PICK unseen : unseen = (r.seen.write # value.write) OBVIOUS
  <1>9. unseen \in BOOLEAN /\ (unseen => again) BY <1>1, <1>2, <1>3, <1>8 DEF Knows
  <1>10. WriteBy(r.who, new, unseen) BY <1>3, <1>5, <1>8 DEF Updated
  <1> QED BY <1>1, <1>4, <1>7, <1>9, <1>10, SettingWritten

\* A request that changes nothing.
LEMMA RequestRefused ==
    ASSUME Settings, NEW s \in Slots, NEW op, NEW of, Serves(s, op, of), Refused, Leave(s)
    PROVE  Settings'
  <1>1. UNCHANGED configVars BY DEF Serves, Refused, configVars
  <1> QED BY <1>1, RequestOver, SettingKept DEF configVars

LEMMA PoolCreated == ASSUME Settings, NEW s \in Slots, CreatePool(s) PROVE Settings'
  <1>1. /\ kind = "pool" /\ slot[s] # Idle /\ slot[s].op = "create" /\ UNCHANGED <<kind, second>>
        /\ Leave(s)
    BY DEF CreatePool, Serves, Failed
  <1>2. slot[s].who \in Clients \cap Managers BY <1>1 DEF Settings, WaitingSettings, Sendable
  <1>3. PICK c : c = slot[s].who OBVIOUS
  <1>4. PICK new : new = Stored(1, value.write + 1, c, FALSE, "none") OBVIOUS
  <1>5. value.write \in Nat BY DEF Settings, ConfigTypes, Setting, None
  <1>6. /\ new \in Setting /\ new.version = 1 /\ new.by = c
    <2>1. /\ c \in Clients \cup {"seed"} /\ 1 \in Nat /\ value.write + 1 \in Nat
          /\ "none" \in Cohorts /\ FALSE \in BOOLEAN
      BY <1>2, <1>3, <1>5 DEF Cohorts
    <2> QED BY <1>4, <2>1 DEF Stored, Setting
  <1>7. Fitting(new) BY <1>1, <1>2, <1>3, <1>6 DEF Fitting
  <1>8. WriteBy(c, new, FALSE) BY <1>3, <1>4 DEF CreatePool
  <1> QED BY <1>1, <1>2, <1>3, <1>7, <1>8, SettingWritten

LEMMA PoolUpdated == ASSUME Settings, NEW s \in Slots, UpdatePool(s) PROVE Settings'
  <1>1. Serves(s, "update", "pool") /\ Leave(s) /\ kind = "pool"
    BY DEF UpdatePool, Serves, Failed
  <1>2. ASSUME PoolAllowed(slot[s]), VersionMatches(slot[s].seen), PoolMerged(slot[s])
        PROVE  Settings'
    <2>1. value.version + 1 \in Nat \ {0} BY DEF Settings, ConfigTypes, Setting, None
    <2> QED BY <1>1, <1>2, <2>1, SettingUpdated DEF PoolAllowed, PoolMerged
  <1>3. CASE Refused BY <1>1, <1>3, RequestRefused
  <1> QED BY <1>2, <1>3 DEF UpdatePool

LEMMA ProviderUpdated == ASSUME Settings, NEW s \in Slots, UpdateProvider(s) PROVE Settings'
  <1>1. Serves(s, "update", "provider") /\ Leave(s) /\ kind = "provider"
    BY DEF UpdateProvider, Serves, Failed, Applied
  <1>2. ASSUME ProviderAccepted(slot[s]), Updated(slot[s], value.version + 1, FALSE)
        PROVE  Settings'
    <2>1. value.version + 1 \in Nat \ {0} BY DEF Settings, ConfigTypes, Setting, None
    <2> QED BY <1>1, <1>2, <2>1, SettingUpdated DEF ProviderAccepted
  <1>3. CASE Refused BY <1>1, <1>3, RequestRefused
  <1> QED BY <1>2, <1>3 DEF UpdateProvider

LEMMA KpiAssigned == ASSUME Settings, NEW s \in Slots, AssignKpi(s) PROVE Settings'
  <1>1. /\ Serves(s, "create", "kpi") /\ Leave(s) /\ kind = "kpi" /\ UNCHANGED <<kind, second>>
        /\ slot[s] # Idle /\ slot[s].op = "create"
    BY DEF AssignKpi, Serves, Failed
  <1>2. slot[s] \in AssignRequest /\ slot[s].who \in Managers
    BY <1>1 DEF Settings, WaitingSettings, Sendable
  <1>3. PICK r : r = slot[s] OBVIOUS
  <1>4. PICK new : new = Stored(1, value.write + 1, r.who, r.zero, r.cohort) OBVIOUS
  <1>5. ASSUME value = None, KpiAllowed(r.zero, r.cohort), WriteBy(r.who, new, FALSE)
        PROVE  Settings'
    <2>1. r.who \in Clients /\ r.zero \in BOOLEAN /\ r.cohort \in Cohorts
      BY <1>2, <1>3 DEF AssignRequest
    <2>2. value.version = 0 /\ value.write = 0 BY <1>5 DEF None
    <2>3. /\ new \in Setting /\ new.version = 1 /\ new.by = r.who /\ new.zero = r.zero
          /\ new.cohort = r.cohort
      BY <1>4, <2>1, <2>2, StoredTyped
    <2>4. Fitting(new) BY <1>1, <1>2, <1>3, <1>5, <2>2, <2>3 DEF Fitting, KpiAllowed
    <2> QED BY <1>1, <1>5, <2>1, <2>4, SettingWritten
  <1>6. CASE Refused BY <1>1, <1>6, RequestRefused
  <1> QED BY <1>3, <1>4, <1>5, <1>6 DEF AssignKpi

LEMMA KpiUpdated == ASSUME Settings, NEW s \in Slots, ReviseKpi(s) PROVE Settings'
  <1>1. Serves(s, "update", "kpi") /\ Leave(s) /\ kind = "kpi"
    BY DEF ReviseKpi, Serves, Failed
  <1>2. PICK zero : zero = IF slot[s].body = "keep" THEN value.zero ELSE slot[s].body = "zero"
    OBVIOUS
  <1>3. ASSUME KpiRevisable(slot[s]), Updated(slot[s], value.version + 1, zero)
        PROVE  Settings'
    <2>1. value \in Setting BY <1>3 DEF KpiRevisable, VersionMatches, Settings, ConfigTypes
    <2>2. value.version + 1 \in Nat \ {0} /\ value.zero \in BOOLEAN BY <2>1 DEF Setting
    <2>3. value.zero => value.cohort # "none"
      BY <1>1, <1>3 DEF KpiRevisable, VersionMatches, Settings, ConfigInv
    <2>4. slot[s].body = "zero" => value.cohort # "none" BY <1>3 DEF KpiRevisable, KpiAllowed
    <2>5. zero \in BOOLEAN /\ (zero => value.cohort # "none") BY <1>2, <2>2, <2>3, <2>4
    <2> QED BY <1>1, <1>3, <2>2, <2>5, SettingUpdated DEF KpiRevisable
  <1>4. CASE Refused BY <1>1, <1>4, RequestRefused
  <1> QED BY <1>2, <1>3, <1>4 DEF ReviseKpi, KpiRevised

LEMMA ActionMoved == ASSUME Settings, NEW s \in Slots, Reschedule(s) PROVE Settings'
  <1>1. /\ Serves(s, "update", "action") /\ Leave(s) /\ kind = "action"
        /\ slot[s] # Idle /\ slot[s].op = "update"
    BY DEF Reschedule, Serves, Failed
  <1>2. PICK r : r = slot[s] OBVIOUS
  <1>3. ASSUME VersionMatches(r.seen), Updated(r, second, FALSE) PROVE Settings'
    <2>1. second \in Nat \ {0} BY DEF Settings, ConfigTypes
    <2> QED BY <1>1, <1>2, <1>3, <2>1, SettingUpdated
  <1>4. ASSUME known' = [known EXCEPT ![r.who] = Seen(value)],
               UNCHANGED <<value, again, versions, blind>>
        PROVE  Settings'
    <2>1. UNCHANGED <<kind, second>> BY <1>1 DEF Serves
    <2>2. value.version \in Nat /\ value.write \in Nat
      BY DEF Settings, ConfigTypes, Setting, None
    <2>3. PICK p : p = Seen(value) OBVIOUS
    <2>4. p \in [version : Nat, write : Nat] /\ Knows(p)
      BY <2>2, <2>3, SeenTyped DEF Knows, Settings, Counter
    <2>5. \A q : Knows(q) => Knows(q)' BY <1>4 DEF Knows
    <2>6. ConfigTypes' BY <1>4, <2>1, <2>3, <2>4, RequestOver, <1>1 DEF Settings, ConfigTypes
    <2>7. KnownIsTrue'
      <3>1. SUFFICES ASSUME NEW d \in Clients
                   PROVE  (Knows(known[d]) \/ (known[d] = None /\ kind # "action"))'
        BY DEF KnownIsTrue
      <3>2. PICK q : q = known'[d] OBVIOUS
      <3>3. q = known[d] \/ q = p BY <1>4, <2>3, <3>2 DEF Settings, ConfigTypes
      <3>4. Knows(q) \/ (q = None /\ kind # "action") BY <2>4, <3>3 DEF Settings, KnownIsTrue
      <3> QED BY <2>1, <2>5, <3>2, <3>4
    <2>8. WaitingSettings'
      <3>1. SUFFICES ASSUME NEW x \in Slots PROVE (slot[x] = Idle \/ Sendable(slot[x]))'
        BY DEF WaitingSettings
      <3>2. PICK q : q = slot[x] OBVIOUS
      <3>3. q = Idle \/ Sendable(q) BY <3>2 DEF Settings, WaitingSettings
      <3>4. Sendable(q) => Sendable(q)' BY <1>4, <2>1 DEF Sendable, Knows
      <3>5. slot'[x] \in {q, Idle} BY <1>1, <3>2, RequestOver
      <3> QED BY <3>3, <3>4, <3>5
    <2>9. Counter' /\ ConfigInv' BY <1>4, <2>1 DEF Settings, Counter, ConfigInv
    <2> QED BY <2>6, <2>7, <2>8, <2>9 DEF Settings
  <1> QED BY <1>2, <1>3, <1>4 DEF Reschedule

LEMMA NextSettings ==
    Settings /\ [ConfigNext \/ (SwitchNext /\ UNCHANGED configVars)]_<<configVars, switchVars>>
      => Settings'
  <1> SUFFICES ASSUME Settings,
               [ConfigNext \/ (SwitchNext /\ UNCHANGED configVars)]_<<configVars, switchVars>>
               PROVE  Settings'
    OBVIOUS
  <1>1. ASSUME NEW c \in Clients, ListPools(c) \/ ListKpis(c) \/ ListProviders(c) PROVE Settings'
    <2>1. ListPools(c) \/ ListKpis(c) => Settings'
      BY SettingRead DEF ListPools, ListKpis
    <2>2. ASSUME ListProviders(c) PROVE Settings'
      <3>1. Got(c, ProvidersSeeded) /\ kind = "provider" BY <2>2 DEF ListProviders
      <3>2. PICK v : v = ProvidersSeeded OBVIOUS
      <3>3. v = value \/ (value = None /\ v = Seeded) BY <3>2 DEF ProvidersSeeded
      <3> QED BY <3>1, <3>2, <3>3, SettingRead
    <2> QED BY <1>1, <2>1, <2>2
  <1>2. ASSUME NEW s \in Slots, NEW c \in Clients,
               PostPool(s, c) \/ PostKpi(s, c) \/ PostProposal(s, c)
        PROVE  Settings'
    <2>1. CASE PostPool(s, c)
      <3>1. PICK r : r = [op |-> "create", who |-> c] OBVIOUS
      <3>2. Sendable(r) BY <2>1, <3>1 DEF PostPool, Sendable
      <3> QED BY <2>1, <3>1, <3>2, RequestRead DEF PostPool
    <2>2. CASE PostKpi(s, c)
      <3>1. PICK zero \in BOOLEAN, cohort \in Cohorts :
              ReadBody(s, [op |-> "create", who |-> c, zero |-> zero, cohort |-> cohort])
        BY <2>2 DEF PostKpi, Cohorts
      <3>2. PICK r : r = [op |-> "create", who |-> c, zero |-> zero, cohort |-> cohort] OBVIOUS
      <3>3. r \in AssignRequest /\ r.op = "create" /\ r.who = c BY <3>2 DEF AssignRequest
      <3>4. Sendable(r) BY <2>2, <3>3 DEF PostKpi, MayAssign, Sendable
      <3> QED BY <2>2, <3>1, <3>2, <3>4, RequestRead DEF PostKpi
    <2>3. CASE PostProposal(s, c)
      <3>1. PICK r : r = [op |-> "propose", who |-> c] OBVIOUS
      <3>2. Sendable(r) BY <3>1 DEF Sendable
      <3> QED BY <2>3, <3>1, <3>2, RequestRead DEF PostProposal
    <2> QED BY <1>2, <2>1, <2>2, <2>3
  <1>3. ASSUME NEW c \in Clients, known[c] # None \/ kind = "action",
               NEW body \in {"some", "forbidden", "secret", "keep", "zero"},
               kind = "kpi" => c \in Managers
        PROVE  Sendable(UpdateBy(c, body))
    <2>1. PICK p : p = known[c] OBVIOUS
    <2>2. p \in [version : Nat, write : Nat] BY <2>1 DEF Settings, ConfigTypes
    <2>3. Knows(p) BY <1>3, <2>1 DEF Settings, KnownIsTrue
    <2>4. PICK r : r = UpdateBy(c, body) OBVIOUS
    <2>5. /\ r = [op |-> "update", who |-> c, seen |-> p, body |-> body]
          /\ r.op = "update" /\ r.seen = p /\ r.who = c
      BY <2>1, <2>4 DEF UpdateBy
    <2>6. r \in UpdateRequest BY <2>2, <2>5 DEF UpdateRequest
    <2>7. kind = "kpi" => r.who \in Managers BY <1>3, <2>5
    <2>8. Sendable(r) BY <2>3, <2>5, <2>6, <2>7 DEF Sendable
    <2> QED BY <2>4, <2>8
  <1>4. ASSUME NEW s \in Slots, NEW c \in Clients,
               PutPool(s, c) \/ PutKpi(s, c) \/ PostReschedule(s, c)
        PROVE  Settings'
    <2>1. known[c] # None \/ kind = "action" BY <1>4 DEF PutPool, PutKpi, PostReschedule
    <2>2. kind = "kpi" => c \in Managers
      BY <1>4 DEF PutPool, PutKpi, PostReschedule, MayAssign
    <2>3. PICK body \in {"some", "forbidden", "secret", "keep", "zero"} :
            ReadBody(s, UpdateBy(c, body)) /\ UNCHANGED configVars
      BY <1>4 DEF PutPool, PutKpi, PostReschedule
    <2> QED BY <1>3, <2>1, <2>2, <2>3, RequestRead
  <1>5. ASSUME NEW s \in Slots, NEW c \in Clients, PutProvider(s, c) PROVE Settings'
    <2>1. known[c] # None /\ kind = "provider" /\ UNCHANGED configVars BY <1>5 DEF PutProvider
    <2>2. PICK body \in {"some", "secret"} : Guarded(s, "provider", UpdateBy(c, body))
      BY <1>5 DEF PutProvider
    <2>3. CASE ReadBody(s, UpdateBy(c, body)) BY <1>3, <2>1, <2>3, RequestRead
    <2>4. CASE UNCHANGED slot
      BY <2>1, <2>4, SettingKept DEF Settings, ConfigTypes, configVars
    <2> QED BY <2>2, <2>3, <2>4 DEF Guarded, Refuse
  <1>6. ASSUME NEW s \in Slots, ProposeKpi(s) PROVE Settings'
    <2>1. Leave(s) /\ UNCHANGED <<kind, value, known, second, versions, again, blind>>
      BY <1>6 DEF ProposeKpi, Failed
    <2> QED BY <2>1, SettingKept, RequestOver
  <1>7. ASSUME Tick PROVE Settings'
    <2>1. /\ second' = second + 1 /\ UNCHANGED <<kind, value, known, versions, again, blind, slot>>
      BY <1>7 DEF Tick, switchVars
    <2>2. second' \in Nat \ {0, 1} BY <2>1 DEF Settings, ConfigTypes
    <2>3. ConfigTypes' BY <2>1, <2>2 DEF Settings, ConfigTypes
    <2>4. KnownIsTrue' /\ WaitingSettings'
      BY <2>1 DEF Settings, KnownIsTrue, WaitingSettings, Sendable, Knows
    <2>5. Counter' /\ ConfigInv' BY <2>1 DEF Settings, Counter, ConfigInv
    <2> QED BY <2>3, <2>4, <2>5 DEF Settings
  <1>8. ASSUME UNCHANGED configVars, UNCHANGED slot PROVE Settings'
    BY <1>8, SettingKept DEF Settings, ConfigTypes, configVars
  <1>9. SwitchNext => UNCHANGED slot BY DEF SwitchNext, SetState, RecoveryRun, Resolve
  <1> QED
    BY <1>1, <1>2, <1>4, <1>5, <1>6, <1>7, <1>8, <1>9, PoolCreated, PoolUpdated, ProviderUpdated,
       KpiAssigned, KpiUpdated, ActionMoved DEF ConfigNext, switchVars

\* ConfigInv: however the requests of the clients overlap, nobody overwrites a setting it has
\* not seen unless the setting got a version twice, which a provider configuration and a KPI
\* assignment never do; what is written came from a manager; a target of 0 keeps its cohort.
THEOREM NobodyOverwritesBlindly == ConfigSpec => []ConfigInv
  <1>1. ConfigSpec => []Settings BY InitSettings, NextSettings, PTL DEF ConfigSpec
  <1>2. Settings => ConfigInv BY DEF Settings
  <1> QED BY <1>1, <1>2, PTL

-----------------------------------------------------------------------------
(* Assistant.                                                              *)

\* Receipts of refused writes have keys of their own.
Receipts ==
    /\ RefusedKept
    /\ \A k \in refused : k[1] = "guard"
    /\ \A k \in DOMAIN receipt : k[1] = "guard" => k \in refused

\* A batch that waits for its body names one item or two, with an outcome for each.
CommitRequest(r) ==
    \E n \in 1..2 : r.items \in [1..n -> Items] /\ r.outcomes \in [1..n -> Outcomes]
CommitsWaiting ==
    /\ slot = [s \in Slots |-> slot[s]]
    /\ \A s \in Slots : slot[s] # Idle /\ slot[s].op = "commit" => CommitRequest(slot[s])

Batched ==
    /\ DOMAIN answers = DOMAIN item
    /\ \A k \in DOMAIN answers : answers[k].applied \in Nat
    /\ BatchReplaySafe

Booked == OneMutation /\ Batched /\ ReceiptsTrue /\ Receipts /\ CommitsWaiting

LEMMA BookedHolds == Booked => AssistantInv
  BY DEF Booked, Batched, Receipts, AssistantInv

LEMMA InitBooked == AssistantInit /\ SwitchInit => Booked
  <1> SUFFICES ASSUME AssistantInit, SwitchInit PROVE Booked
    OBVIOUS
  <1>1. /\ DOMAIN draft = {} /\ ledger = {} /\ DOMAIN mutated = {} /\ DOMAIN item = {}
        /\ DOMAIN answers = {} /\ DOMAIN receipt = {} /\ refused = {}
    BY DEF AssistantInit, SwitchInit
  <1>2. OneMutation BY <1>1 DEF OneMutation
  <1>3. Batched BY <1>1 DEF Batched, BatchReplaySafe
  <1>4. ReceiptsTrue BY <1>1 DEF ReceiptsTrue
  <1>5. Receipts BY <1>1 DEF Receipts, RefusedKept
  <1>6. CommitsWaiting BY DEF CommitsWaiting, SwitchInit
  <1> QED BY <1>2, <1>3, <1>4, <1>5, <1>6 DEF Booked

\* A pending receipt keeps the status from being healthy.
LEMMA PendingShows ==
    ASSUME refused \subseteq DOMAIN receipt,
           \A k \in refused \ resolved : receipt[k] = "pending"
    PROVE  RefusedKept
  BY DEF RefusedKept, RecoveryState, Pending

LEMMA SlotLeft ==
    ASSUME CommitsWaiting, NEW s \in Slots, Leave(s)
    PROVE  CommitsWaiting'
  <1>1. slot' = [slot EXCEPT ![s] = Idle] BY DEF Leave
  <1>2. slot' = [x \in Slots |-> slot'[x]] /\ \A x \in Slots : slot'[x] \in {slot[x], Idle}
    BY <1>1 DEF CommitsWaiting
  <1> QED BY <1>2 DEF CommitsWaiting, CommitRequest

\* A receipt that is registered and applied.
LEMMA ReceiptApplied ==
    ASSUME Receipts, NEW s \in Slots, NEW k, k[1] # "guard", Applied(s, k)
    PROVE  /\ Receipts' /\ refused' = refused /\ resolved' = resolved
           /\ DOMAIN receipt' = DOMAIN receipt \cup {k}
  <1>1. receipt' = Over([x \in {k} |-> "applied"], receipt) /\ UNCHANGED <<refused, resolved>>
    BY DEF Applied, RegisterApplied
  <1>2. /\ DOMAIN receipt' = DOMAIN receipt \cup {k}
        /\ \A j \in DOMAIN receipt : j # k => receipt'[j] = receipt[j]
    BY <1>1 DEF Over
  <1>3. \A j \in refused : j # k BY DEF Receipts
  <1>4. RefusedKept'
    <2>1. refused' \subseteq DOMAIN receipt' BY <1>1, <1>2 DEF Receipts, RefusedKept
    <2>2. \A j \in refused' \ resolved' : receipt'[j] = "pending"
      BY <1>1, <1>2, <1>3 DEF Receipts, RefusedKept
    <2> QED BY <2>1, <2>2 DEF RefusedKept, RecoveryState, Pending
  <1>5. Receipts' BY <1>1, <1>2, <1>4 DEF Receipts
  <1> QED BY <1>1, <1>2, <1>5

LEMMA WriteRefused ==
    ASSUME Receipts, NEW s \in Slots, NEW route, NEW c, Refuse(s, route, c)
    PROVE  /\ Receipts' /\ resolved' = resolved /\ slot' = slot
           /\ refused \subseteq refused'
           /\ DOMAIN receipt' \ refused' = DOMAIN receipt \ refused
  <1>1. PICK k : k = RefusalKey(route, c) OBVIOUS
  <1>2. k[1] = "guard" BY <1>1 DEF RefusalKey
  <1>3. /\ receipt' = Register(k) /\ refused' = refused \cup {k}
        /\ UNCHANGED <<resolved, slot>>
    BY <1>1 DEF Refuse
  <1>4. /\ DOMAIN receipt' = DOMAIN receipt \cup {k}
        /\ \A j \in DOMAIN receipt : receipt'[j] = receipt[j]
        /\ k \notin DOMAIN receipt => receipt'[k] = "pending"
    BY <1>3 DEF Register, Over
  <1>5. RefusedKept'
    <2>1. refused' \subseteq DOMAIN receipt' BY <1>3, <1>4 DEF Receipts, RefusedKept
    <2>2. \A j \in refused' \ resolved' : receipt'[j] = "pending"
      BY <1>2, <1>3, <1>4 DEF Receipts, RefusedKept
    <2> QED BY <2>1, <2>2 DEF RefusedKept, RecoveryState, Pending
  <1>6. Receipts' BY <1>2, <1>3, <1>4, <1>5 DEF Receipts
  <1>7. DOMAIN receipt' \ refused' = DOMAIN receipt \ refused
    BY <1>2, <1>3, <1>4 DEF Receipts
  <1> QED BY <1>3, <1>6, <1>7

\* The kill switch and the recovery of a manager.
LEMMA SwitchBooked ==
    ASSUME Booked, SwitchNext, UNCHANGED assistantVars
    PROVE  Booked'
  <1>1. OneMutation' /\ Batched' BY DEF Booked, OneMutation, Batched, BatchReplaySafe, assistantVars
  <1>2. slot' = slot BY DEF SwitchNext, SetState, RecoveryRun, Resolve
  <1>3. CommitsWaiting' BY <1>2 DEF Booked, CommitsWaiting, CommitRequest
  <1>4. CASE UNCHANGED <<receipt, refused, resolved>>
    <2>1. RefusedKept'
      BY <1>4 DEF Booked, Receipts, RefusedKept, RecoveryState, Pending
    <2>2. Receipts' /\ ReceiptsTrue'
      BY <1>4, <2>1 DEF Booked, Receipts, ReceiptsTrue, assistantVars
    <2> QED BY <1>1, <1>3, <2>2 DEF Booked
  <1>5. ASSUME NEW who \in Managers, NEW k \in DOMAIN receipt, Resolve(who, k) PROVE Booked'
    <2>1. /\ receipt' = [receipt EXCEPT ![k] = "applied"] /\ refused' = refused
          /\ resolved' = resolved \cup ({k} \cap Pending)
      BY <1>5 DEF Resolve
    <2>2. /\ DOMAIN receipt' = DOMAIN receipt
          /\ \A j \in DOMAIN receipt : j # k => receipt'[j] = receipt[j]
      BY <2>1
    <2>3. RefusedKept'
      <3>1. refused' \subseteq DOMAIN receipt' BY <2>1, <2>2 DEF Booked, Receipts, RefusedKept
      <3>2. \A j \in refused' \ resolved' : receipt'[j] = "pending"
        <4>1. k \in refused \ resolved => k \in Pending
          BY DEF Booked, Receipts, RefusedKept, Pending
        <4> QED BY <2>1, <2>2, <4>1 DEF Booked, Receipts, RefusedKept
      <3> QED BY <3>1, <3>2 DEF RefusedKept, RecoveryState, Pending
    <2>4. Receipts' BY <2>1, <2>2, <2>3 DEF Booked, Receipts
    <2>5. ReceiptsTrue' BY <2>1, <2>2 DEF Booked, ReceiptsTrue, assistantVars
    <2> QED BY <1>1, <1>3, <2>4, <2>5 DEF Booked
  <1> QED BY <1>4, <1>5 DEF SwitchNext, SetState, RecoveryRun

\* A request that ended without a receipt.
LEMMA RequestFailed ==
    ASSUME Booked, NEW s \in Slots, Failed(s), UNCHANGED <<ledger, results>>
    PROVE  ReceiptsTrue' /\ Receipts' /\ CommitsWaiting'
  <1>1. UNCHANGED <<armed, receipt, refused, resolved>> BY DEF Failed
  <1>2. RefusedKept' BY <1>1 DEF Booked, Receipts, RefusedKept, RecoveryState, Pending
  <1>3. Receipts' BY <1>1, <1>2 DEF Booked, Receipts
  <1>4. ReceiptsTrue' BY <1>1 DEF Booked, ReceiptsTrue
  <1>5. CommitsWaiting' BY SlotLeft DEF Booked, Failed
  <1> QED BY <1>3, <1>4, <1>5

\* A request that ended with an applied receipt for an effect that is there.
LEMMA RequestApplied ==
    ASSUME Booked, NEW s \in Slots, NEW k, k[1] # "guard", Applied(s, k),
           ledger \subseteq ledger', results \subseteq results',
           k[1] = "confirm" => k[2] \in ledger', k[1] = "batch" => k[2] \in results'
    PROVE  ReceiptsTrue' /\ Receipts' /\ CommitsWaiting'
  <1>1. /\ Receipts' /\ refused' = refused /\ resolved' = resolved
        /\ DOMAIN receipt' = DOMAIN receipt \cup {k}
    BY ReceiptApplied DEF Booked
  <1>2. ReceiptsTrue' BY <1>1 DEF Booked, ReceiptsTrue
  <1>3. CommitsWaiting' BY SlotLeft DEF Booked, Applied
  <1> QED BY <1>1, <1>2, <1>3

LEMMA BatchedKept ==
    ASSUME Booked, UNCHANGED <<item, answers>>
    PROVE  Batched'
  BY DEF Booked, Batched, BatchReplaySafe

LEMMA AcceptBooked == ASSUME Booked, NEW s \in Slots, Accept(s) PROVE Booked'
  <1>1. PICK r : r = slot[s] OBVIOUS
  <1>2. UNCHANGED <<ledger, item, results, mutated, answers>> BY DEF Accept
  <1>3. Batched' BY <1>2, BatchedKept
  <1>4. CASE draft' = draft /\ Failed(s)
    <2>1. OneMutation' BY <1>2, <1>4 DEF Booked, OneMutation
    <2> QED BY <1>2, <1>3, <1>4, <2>1, RequestFailed DEF Booked
  <1>5. ASSUME Applied(s, <<"accept", r.who, r.profile, r.kind>>), NEW id,
               draft' \in {draft, DraftsWith(id)}
        PROVE  Booked'
    <2>1. PICK k : k = <<"accept", r.who, r.profile, r.kind>> OBVIOUS
    <2>2. k[1] = "accept" BY <2>1
    <2>3. ReceiptsTrue' /\ Receipts' /\ CommitsWaiting'
      BY <1>2, <1>5, <2>1, <2>2, RequestApplied
    <2>4. \A x \in DOMAIN draft' : draft'[x] => x \in DOMAIN draft /\ draft[x]
      BY <1>5 DEF DraftsWith, Over
    <2>5. OneMutation' BY <1>2, <2>4 DEF Booked, OneMutation
    <2> QED BY <1>3, <2>3, <2>5 DEF Booked
  <1> QED BY <1>1, <1>4, <1>5 DEF Accept

LEMMA ConfirmBooked == ASSUME Booked, NEW s \in Slots, Confirm(s) PROVE Booked'
  <1>1. PICK r : r = slot[s] OBVIOUS
  <1>2. PICK answer : answer = ConfirmAnswer(r.who, r.draft, r.good) OBVIOUS
  <1>3. UNCHANGED <<item, results, answers>> BY DEF Confirm
  <1>4. Batched' BY <1>3, BatchedKept
  <1>5. CASE answer \notin {"SAME", "APPLY"}
    <2>1. Failed(s) /\ UNCHANGED <<draft, ledger, status, mutated>>
      BY <1>1, <1>2, <1>5 DEF Confirm
    <2>2. OneMutation' BY <2>1 DEF Booked, OneMutation
    <2> QED BY <1>3, <1>4, <2>1, <2>2, RequestFailed DEF Booked
  <1>6. CASE answer \in {"SAME", "APPLY"}
    <2>1. PICK k : k = <<"confirm", r.draft>> OBVIOUS
    <2>2. Applied(s, k) /\ k[1] = "confirm" /\ k[2] = r.draft
      BY <1>1, <1>2, <1>6, <2>1 DEF Confirm
    <2>3. CASE answer = "SAME"
      <3>1. UNCHANGED <<draft, ledger, status, mutated>> BY <1>1, <1>2, <2>3 DEF Confirm
      <3>2. r.draft \in DOMAIN draft /\ draft[r.draft] BY <1>2, <2>3 DEF ConfirmAnswer
      <3>3. r.draft \in ledger BY <3>2 DEF Booked, OneMutation
      <3>4. OneMutation' BY <3>1 DEF Booked, OneMutation
      <3> QED BY <1>3, <1>4, <2>2, <3>1, <3>3, <3>4, RequestApplied DEF Booked
    <2>4. CASE answer = "APPLY"
      <3>1. /\ draft' = [draft EXCEPT ![r.draft] = TRUE]
            /\ ledger' = ledger \cup {r.draft}
            /\ mutated' = Over([x \in {r.draft} |->
                                  IF x \in DOMAIN mutated THEN mutated[x] + 1 ELSE 1], mutated)
        BY <1>1, <1>2, <2>4 DEF Confirm
      <3>2. /\ r.draft \notin ledger /\ CanConfirm(r.who, r.draft[2]) /\ r.draft[1] = r.who
        BY <1>2, <2>4 DEF ConfirmAnswer
      <3>3. PICK id : id = r.draft OBVIOUS
      <3>4. CanConfirm(id[1], id[2]) BY <3>2, <3>3
      <3>5. /\ DOMAIN mutated' = DOMAIN mutated \cup {id} /\ mutated'[id] = 1
            /\ \A x \in DOMAIN mutated : mutated'[x] = mutated[x]
        BY <3>1, <3>2, <3>3 DEF Over, Booked, OneMutation
      <3>6. \A x \in DOMAIN mutated' : mutated'[x] <= 1 /\ CanConfirm(x[1], x[2])
        BY <3>4, <3>5 DEF Booked, OneMutation
      <3>7. ledger' = DOMAIN mutated' BY <3>1, <3>3, <3>5 DEF Booked, OneMutation
      <3>8. \A x \in DOMAIN draft' : draft'[x] => x \in ledger'
        BY <3>1 DEF Booked, OneMutation
      <3>9. OneMutation'
        <4>1. \A a, b : CanConfirm(a, b)' <=> CanConfirm(a, b) BY DEF CanConfirm, InOrg, IdentityMap
        <4> QED BY <3>6, <3>7, <3>8, <4>1 DEF OneMutation
      <3> QED BY <1>3, <1>4, <2>2, <3>1, <3>9, RequestApplied DEF Booked
    <2> QED BY <1>6, <2>3, <2>4
  <1> QED BY <1>5, <1>6

LEMMA RejectBooked == ASSUME Booked, NEW s \in Slots, Reject(s) PROVE Booked'
  <1>1. Failed(s) /\ UNCHANGED <<draft, ledger, item, results, mutated, answers>> BY DEF Reject
  <1>2. OneMutation' BY <1>1 DEF Booked, OneMutation
  <1> QED BY <1>1, <1>2, BatchedKept, RequestFailed DEF Booked

\* An item that a request names once has one outcome in it.
LEMMA OneOutcome ==
    ASSUME NEW r, CommitRequest(r), NEW i \in {r.items[n] : n \in DOMAIN r.items},
           ~(Cardinality(PlacesOf(r, i)) > 1)
    PROVE  FirstOutcome(r, i) = LastOutcome(r, i)
  <1>1. PlacesOf(r, i) \subseteq 1..2 /\ PlacesOf(r, i) # {}
    BY DEF PlacesOf, CommitRequest
  <1>2. \A a, b \in PlacesOf(r, i) : a = b
    <2> SUFFICES ASSUME NEW a \in PlacesOf(r, i), NEW b \in PlacesOf(r, i), a # b PROVE FALSE
      OBVIOUS
    <2>1. IsFiniteSet(PlacesOf(r, i))
      <3>1. IsFiniteSet({1}) BY FS_Singleton
      <3>2. IsFiniteSet({1} \cup {2}) BY <3>1, FS_AddElement
      <3>3. PlacesOf(r, i) \subseteq {1} \cup {2} BY <1>1
      <3> QED BY <3>2, <3>3, FS_Subset
    <2>2. Cardinality(PlacesOf(r, i)) \in Nat BY <2>1, FS_CardinalityType
    <2>3. Cardinality({a}) = 1 /\ IsFiniteSet({a}) BY FS_Singleton
    <2>4. b \notin {a} OBVIOUS
    <2>5. Cardinality({a} \cup {b}) = 1 + 1 BY <2>3, <2>4, FS_AddElement
    <2>6. {a} \cup {b} \subseteq PlacesOf(r, i) OBVIOUS
    <2>7. Cardinality({a} \cup {b}) <= Cardinality(PlacesOf(r, i)) BY <2>1, <2>6, FS_Subset
    <2> QED BY <2>2, <2>5, <2>7
  <1>3. PICK p : PlacesOf(r, i) = {p} /\ p \in Int BY <1>1, <1>2
  <1>4. FirstOutcome(r, i) = r.outcomes[p]
    <2>1. (CHOOSE n \in {p} : \A m \in {p} : n <= m) = p BY <1>3
    <2> QED BY <1>3, <2>1 DEF FirstOutcome
  <1>5. LastOutcome(r, i) = r.outcomes[p]
    <2>1. (CHOOSE n \in {p} : \A m \in {p} : m <= n) = p BY <1>3
    <2> QED BY <1>3, <2>1 DEF LastOutcome
  <1> QED BY <1>4, <1>5

\* What was answered about an item agrees with what the ledger of items keeps of it.
Agree(a, entry) ==
    /\ a.applied \in Nat /\ a.applied <= 1
    /\ entry.digest = a.digest
    /\ ~a.twice => entry.outcome = a.first
    /\ a.applied = 1 => a.first = "APPLIED"

LEMMA CommitBooked == ASSUME Booked, NEW s \in Slots, Commit(s) PROVE Booked'
  <1> DEFINE r == slot[s]
             g == [k \in {r.batch} \X FreshItems(r) |->
                    [digest |-> r.digest, outcome |-> LastOutcome(r, k[2])]]
             h == [k \in {r.batch} \X AskedItems(r) |->
                   [twice |-> IF k[2] \in FreshItems(r)
                              THEN Cardinality(PlacesOf(r, k[2])) > 1 ELSE answers[k].twice,
                    first |-> IF k[2] \in FreshItems(r) THEN ItemAnswer(r, k[2])
                              ELSE answers[k].first,
                    digest |-> IF k[2] \in FreshItems(r) THEN r.digest ELSE answers[k].digest,
                    applied |-> TimesApplied(k)
                                  + (IF ItemAnswer(r, k[2]) = "APPLIED" THEN 1 ELSE 0)]]
             named == AskedItems(r)
             unseen == FreshItems(r)
  <1>1. CommitRequest(r) BY DEF Commit, Booked, CommitsWaiting
  <1>2. \A i \in named : i \in {r.items[n] : n \in DOMAIN r.items} BY DEF AskedItems
  <1>3. unseen = {i \in named : <<r.batch, i>> \notin DOMAIN item} BY DEF FreshItems
  <1>4. /\ r # Idle /\ r.op = "commit"
        /\ results' = results \cup {r.batch}
        /\ Applied(s, <<"batch", r.batch>>)
        /\ UNCHANGED <<status, draft, ledger, mutated>>
    BY DEF Commit
  <1>6. item' = Over(g, item) BY DEF Commit
  <1>7. answers' = Over(h, answers) BY DEF Commit
  <1>8. DOMAIN answers = DOMAIN item /\ \A k \in DOMAIN answers : Agree(answers[k], item[k])
    BY DEF Booked, Batched, BatchReplaySafe, Agree
  <1>9. /\ DOMAIN g = {r.batch} \X unseen /\ DOMAIN h = {r.batch} \X named
        /\ \A k \in {r.batch} \X unseen :
             g[k].digest = r.digest /\ g[k].outcome = LastOutcome(r, k[2])
    OBVIOUS
  <1>Decided. \A k \in {r.batch} \X named :
           IF k[2] \in unseen
           THEN /\ h[k].first = ItemAnswer(r, k[2]) /\ h[k].digest = r.digest
                /\ ~h[k].twice => ~(Cardinality(PlacesOf(r, k[2])) > 1)
           ELSE /\ h[k].first = answers[k].first /\ h[k].digest = answers[k].digest
                /\ h[k].twice = answers[k].twice
    OBVIOUS
  <1>Applied. \A k \in {r.batch} \X named :
           h[k].applied = TimesApplied(k) + (IF ItemAnswer(r, k[2]) = "APPLIED" THEN 1 ELSE 0)
    OBVIOUS
  <1> HIDE DEF g, h, named, unseen
  <1>10. /\ DOMAIN answers' = DOMAIN item'
         /\ DOMAIN answers' = ({r.batch} \X named) \cup DOMAIN answers
    <2>1. DOMAIN item' = ({r.batch} \X unseen) \cup DOMAIN item BY <1>6, <1>9 DEF Over
    <2>2. DOMAIN answers' = ({r.batch} \X named) \cup DOMAIN answers BY <1>7, <1>9 DEF Over
    <2> QED BY <1>3, <1>8, <2>1, <2>2
  <1>11. ASSUME NEW i \in named PROVE Agree(answers'[<<r.batch, i>>], item'[<<r.batch, i>>])
    <2>1. PICK k : k = <<r.batch, i>> OBVIOUS
    <2>2. k \in {r.batch} \X named /\ k[2] = i BY <1>11, <2>1
    <2>3. answers'[k] = h[k] BY <1>7, <1>9, <2>2 DEF Over
    <2>4. CASE i \in unseen
      <3>1. k \notin DOMAIN item /\ k \notin DOMAIN answers BY <1>3, <1>8, <2>1, <2>4
      <3>2. k \in {r.batch} \X unseen BY <2>1, <2>4
      <3>3. item'[k] = g[k] BY <1>6, <1>9, <3>2 DEF Over
      <3>4. g[k].digest = r.digest /\ g[k].outcome = LastOutcome(r, i) BY <1>9, <2>2, <3>2
      <3>5. ItemAnswer(r, i) = FirstOutcome(r, i) BY <2>1, <3>1 DEF ItemAnswer
      <3>6. /\ h[k].first = FirstOutcome(r, i) /\ h[k].digest = r.digest
            /\ h[k].applied = IF FirstOutcome(r, i) = "APPLIED" THEN 1 ELSE 0
        BY <1>Decided, <1>Applied, <2>2, <2>4, <3>1, <3>5 DEF TimesApplied
      <3>7. ~h[k].twice => ~(Cardinality(PlacesOf(r, i)) > 1) BY <1>Decided, <2>2, <2>4
      <3>8. ~h[k].twice => FirstOutcome(r, i) = LastOutcome(r, i)
        BY <1>1, <1>2, <3>7, OneOutcome
      <3>9. Agree(h[k], g[k]) BY <3>4, <3>6, <3>8 DEF Agree
      <3> QED BY <2>1, <2>3, <3>3, <3>9
    <2>5. CASE i \notin unseen
      <3>1. k \in DOMAIN item /\ k \in DOMAIN answers BY <1>3, <1>8, <1>11, <2>1, <2>5
      <3>2. item'[k] = item[k] BY <1>6, <1>9, <2>2, <2>5, <3>1 DEF Over
      <3>3. ItemAnswer(r, i) # "APPLIED" BY <2>1, <3>1 DEF ItemAnswer, ReplayOf
      <3>4. Agree(answers[k], item[k]) BY <1>8, <3>1
      <3>5. /\ h[k].first = answers[k].first /\ h[k].digest = answers[k].digest
            /\ h[k].applied = answers[k].applied + 0
        BY <1>Decided, <1>Applied, <2>2, <2>5, <3>1, <3>3 DEF TimesApplied
      <3>6. h[k].twice = answers[k].twice BY <1>Decided, <2>2, <2>5
      <3>7. Agree(h[k], item[k]) BY <3>4, <3>5, <3>6 DEF Agree
      <3> QED BY <2>1, <2>3, <3>2, <3>7
    <2> QED BY <2>4, <2>5
  <1>12. \A k \in DOMAIN answers' : Agree(answers'[k], item'[k])
    <2>1. TAKE k \in DOMAIN answers'
    <2>2. CASE k \notin {r.batch} \X named
      <3>1. k \in DOMAIN answers /\ k \notin DOMAIN h BY <1>9, <1>10, <2>2
      <3>2. k \in DOMAIN item /\ k \notin DOMAIN g BY <1>3, <1>8, <1>9, <2>2, <3>1
      <3>3. answers'[k] = answers[k] BY <1>7, <3>1 DEF Over
      <3>4. item'[k] = item[k] BY <1>6, <3>2 DEF Over
      <3> QED BY <1>8, <3>1, <3>3, <3>4
    <2>3. CASE k \in {r.batch} \X named
      <3>1. PICK i \in named : k = <<r.batch, i>> BY <2>3
      <3> QED BY <1>11, <3>1
    <2> QED BY <2>2, <2>3
  <1>13. Batched' BY <1>10, <1>12 DEF Batched, BatchReplaySafe, Agree
  <1>14. OneMutation' BY <1>4 DEF Booked, OneMutation
  <1>15. ReceiptsTrue' /\ Receipts' /\ CommitsWaiting'
    <2>1. PICK k : k = <<"batch", r.batch>> OBVIOUS
    <2>2. k[1] = "batch" /\ k[2] = r.batch BY <2>1
    <2>3. r.batch \in results' /\ results \subseteq results' /\ ledger' = ledger BY <1>4
    <2> QED BY <1>4, <2>1, <2>2, <2>3, RequestApplied
  <1> QED BY <1>13, <1>14, <1>15 DEF Booked

LEMMA RequestBooked ==
    ASSUME Booked, NEW s \in Slots, NEW r, slot[s] = Idle, slot' = [slot EXCEPT ![s] = r],
           UNCHANGED <<assistantVars, armed, receipt, refused, resolved>>,
           r.op = "commit" => CommitRequest(r)
    PROVE  Booked'
  <1>1. OneMutation' /\ Batched'
    BY BatchedKept DEF Booked, OneMutation, assistantVars
  <1>2. RefusedKept' BY DEF Booked, Receipts, RefusedKept, RecoveryState, Pending
  <1>3. Receipts' /\ ReceiptsTrue'
    BY <1>2 DEF Booked, Receipts, ReceiptsTrue, assistantVars
  <1>4. CommitsWaiting'
    <2>1. /\ slot' = [x \in Slots |-> slot'[x]] /\ slot'[s] = r
          /\ \A x \in Slots \ {s} : slot'[x] = slot[x]
      BY DEF Booked, CommitsWaiting
    <2>2. SUFFICES ASSUME NEW x \in Slots
                   PROVE  (slot[x] # Idle /\ slot[x].op = "commit" => CommitRequest(slot[x]))'
      BY <2>1 DEF CommitsWaiting
    <2>3. PICK q : q = slot'[x] OBVIOUS
    <2>4. q # Idle /\ q.op = "commit" => CommitRequest(q)
      BY <2>1, <2>3 DEF Booked, CommitsWaiting
    <2> QED BY <2>3, <2>4 DEF CommitRequest
  <1> QED BY <1>1, <1>3, <1>4 DEF Booked

LEMMA RefusalBooked ==
    ASSUME Booked, NEW s \in Slots, NEW route, NEW c, Refuse(s, route, c), UNCHANGED assistantVars
    PROVE  Booked'
  <1>1. /\ Receipts' /\ resolved' = resolved /\ slot' = slot /\ refused \subseteq refused'
        /\ DOMAIN receipt' \ refused' = DOMAIN receipt \ refused
    BY WriteRefused DEF Booked
  <1>2. OneMutation' /\ Batched'
    BY BatchedKept DEF Booked, OneMutation, assistantVars
  <1>3. \A k \in DOMAIN receipt' \ (refused' \cup resolved') :
          k \in DOMAIN receipt \ (refused \cup resolved)
    BY <1>1
  <1>4. ReceiptsTrue' BY <1>3 DEF Booked, ReceiptsTrue, assistantVars
  <1>5. CommitsWaiting' BY <1>1 DEF Booked, CommitsWaiting, CommitRequest
  <1> QED BY <1>1, <1>2, <1>4, <1>5 DEF Booked

LEMMA NextBooked ==
    Booked /\ [AssistantNext]_<<assistantVars, switchVars>> => Booked'
  <1> SUFFICES ASSUME Booked, [AssistantNext]_<<assistantVars, switchVars>> PROVE Booked'
    OBVIOUS
  <1>1. ASSUME NEW s \in Slots, NEW route, NEW r, Guarded(s, route, r), UNCHANGED assistantVars,
               r.op = "commit" => CommitRequest(r)
        PROVE  Booked'
    BY <1>1, RequestBooked, RefusalBooked DEF Guarded, ReadBody
  <1>2. ASSUME NEW s \in Slots, NEW who \in Staff, NEW p \in Profiles, NEW k \in Proposals,
               RequestAutofill(s, who, p, k), UNCHANGED assistantVars
        PROVE  Booked'
    <2>1. ASSUME NEW fields \in SUBSET FieldsOf[k],
                 Guarded(s, "accept", [op |-> "accept", who |-> who, profile |-> p, kind |-> k,
                                       fields |-> fields])
          PROVE  Booked'
      <3>1. PICK r : r = [op |-> "accept", who |-> who, profile |-> p, kind |-> k,
                          fields |-> fields]
        OBVIOUS
      <3>2. r.op # "commit" BY <3>1
      <3> QED BY <1>1, <1>2, <2>1, <3>1, <3>2
    <2>2. ASSUME NEW id, NEW good \in BOOLEAN,
                 Guarded(s, "confirm", [op |-> "confirm", who |-> who, draft |-> id, good |-> good])
          PROVE  Booked'
      <3>1. PICK r : r = [op |-> "confirm", who |-> who, draft |-> id, good |-> good] OBVIOUS
      <3>2. r.op # "commit" BY <3>1
      <3> QED BY <1>1, <1>2, <2>2, <3>1, <3>2
    <2>3. ASSUME ReadBody(s, [op |-> "reject", who |-> who, profile |-> p, kind |-> k])
          PROVE  Booked'
      <3>1. PICK r : r = [op |-> "reject", who |-> who, profile |-> p, kind |-> k] OBVIOUS
      <3>2. r.op # "commit" BY <3>1
      <3> QED BY <1>2, <2>3, <3>1, <3>2, RequestBooked DEF ReadBody
    <2> QED BY <1>2, <2>1, <2>2, <2>3 DEF RequestAutofill
  <1>3. ASSUME NEW s \in Slots, NEW b \in Batches, RequestCommit(s, b), UNCHANGED assistantVars
        PROVE  Booked'
    <2>1. PICK n \in 1..2 :
            \E items \in [1..n -> Items], outcomes \in [1..n -> Outcomes], d \in Digests :
              Guarded(s, "commit", [op |-> "commit", batch |-> b, items |-> items,
                                    outcomes |-> outcomes, digest |-> d])
      BY <1>3 DEF RequestCommit
    <2>2. PICK items \in [1..n -> Items], outcomes \in [1..n -> Outcomes], d \in Digests :
            Guarded(s, "commit", [op |-> "commit", batch |-> b, items |-> items,
                                  outcomes |-> outcomes, digest |-> d])
      BY <2>1
    <2>3. PICK r : r = [op |-> "commit", batch |-> b, items |-> items, outcomes |-> outcomes,
                        digest |-> d]
      OBVIOUS
    <2>4. r.items = items /\ r.outcomes = outcomes BY <2>3
    <2>5. CommitRequest(r) BY <2>4 DEF CommitRequest
    <2> QED BY <1>1, <1>3, <2>2, <2>3, <2>5
  <1>4. ASSUME NEW p \in Profiles, ReadProposals(p) PROVE Booked'
    <2>1. UNCHANGED <<draft, ledger, item, results, mutated, answers, switchVars>>
      BY <1>4 DEF ReadProposals
    <2>2. OneMutation' /\ Batched' BY <2>1, BatchedKept DEF Booked, OneMutation
    <2>3. RefusedKept' BY <2>1 DEF Booked, Receipts, RefusedKept, RecoveryState, Pending, switchVars
    <2>4. Receipts' /\ ReceiptsTrue' /\ CommitsWaiting'
      BY <2>1, <2>3 DEF Booked, Receipts, ReceiptsTrue, CommitsWaiting, CommitRequest, switchVars
    <2> QED BY <2>2, <2>4 DEF Booked
  <1>5. CASE UNCHANGED <<assistantVars, switchVars>>
    <2>1. OneMutation' /\ Batched'
      BY <1>5, BatchedKept DEF Booked, OneMutation, assistantVars
    <2>2. RefusedKept' BY <1>5 DEF Booked, Receipts, RefusedKept, RecoveryState, Pending, switchVars
    <2>3. Receipts' /\ ReceiptsTrue' /\ CommitsWaiting'
      BY <1>5, <2>2 DEF Booked, Receipts, ReceiptsTrue, CommitsWaiting, CommitRequest, switchVars,
                        assistantVars
    <2> QED BY <2>1, <2>3 DEF Booked
  <1> QED
    BY <1>2, <1>3, <1>4, <1>5, AcceptBooked, ConfirmBooked, RejectBooked, CommitBooked, SwitchBooked
       DEF AssistantNext, AutofillNext, PlanningNext

-----------------------------------------------------------------------------
(* Tabs of the assistant.                                                  *)

Topics == Typeable \cup {"all"}
Call == [tab : Tabs, op : {"load", "accept", "reject", "confirm", "commit"}, profile : Topics,
         about : Topics \cup {"none"}, then : {"end", "offer", "propose"}, live : BOOLEAN]

ScreenTypes ==
    /\ tab \in Tabs /\ typed \in Topics /\ listed \in Topics \cup {"none"}
    /\ busy \in BOOLEAN /\ alert \in Tabs \cup {"none"}
    /\ orphaned \in BOOLEAN /\ mixed \in BOOLEAN
    /\ calls \subseteq Call

\* A draft is offered, now or with the next list, only for the profile of its proposals.
Offers ==
    /\ offered.profile = offered.about
    /\ \A c \in calls : c.then = "offer" => c.profile = c.about

\* Only the planning tab commits; without orphans every call is of the view that is open, and
\* unless two profiles were loaded at once it is about the profile in the input.
OwnCalls ==
    /\ \A c \in calls : c.op = "commit" => c.tab = "planning"
    /\ ~orphaned => \A c \in calls : c.tab = tab /\ c.live
    /\ ~orphaned /\ ~mixed => \A c \in calls : c.profile = typed

View == ScreenTypes /\ Offers /\ OwnCalls /\ TabsInv

LEMMA InitView == TabsInit => View
  <1> SUFFICES ASSUME TabsInit PROVE View
    OBVIOUS
  <1>1. /\ tab = "today" /\ typed = "all" /\ listed = "none" /\ busy = TRUE
        /\ alert = "none" /\ orphaned = FALSE /\ mixed = FALSE
    BY DEF TabsInit
  <1>2. PICK c : c = NewCall("load", "today", "all") OBVIOUS
  <1>3. /\ c \in Call /\ c.tab = "today" /\ c.op = "load" /\ c.profile = "all" /\ c.then = "end"
        /\ c.live = TRUE
    BY <1>1, <1>2 DEF NewCall, Call, Topics, Tabs
  <1>4. calls = {c} BY <1>2 DEF TabsInit
  <1>5. offered.profile = offered.about BY DEF TabsInit, NoOffer
  <1>6. ScreenTypes BY <1>1, <1>3, <1>4 DEF ScreenTypes, Topics, Tabs
  <1>7. Offers BY <1>3, <1>4, <1>5 DEF Offers
  <1>8. OwnCalls BY <1>1, <1>3, <1>4 DEF OwnCalls
  <1>9. TabsInv BY <1>1, <1>5 DEF TabsInv
  <1> QED BY <1>6, <1>7, <1>8, <1>9 DEF View

\* Opening a tab, with a load or, for planning, without one.
LEMMA TabOpened ==
    ASSUME View, NEW t \in Tabs, NEW p \in Topics, Mount(t, p),
           Load(t, p, Left) \/ (t = "planning" /\ calls' = Left /\ busy' = FALSE /\ UNCHANGED alert)
    PROVE  View'
  <1>1. /\ tab' = t /\ typed' = p /\ listed' = "none" /\ offered' = NoOffer
        /\ orphaned' = (calls # {}) /\ mixed' = FALSE
    BY DEF Mount
  <1>2. ScreenTypes BY DEF View
  <1>3. PICK n : n = NewCall("load", t, p) OBVIOUS
  <1>4. /\ n \in Call /\ n.tab = t /\ n.op = "load" /\ n.profile = p /\ n.then = "end"
        /\ n.live = TRUE
    BY <1>2, <1>3 DEF NewCall, Call, ScreenTypes
  <1>5. \A c \in Left : /\ c \in Call
                        /\ c.op = "commit" => c.tab = "planning"
                        /\ c.then = "offer" => c.profile = c.about
    <2>1. SUFFICES ASSUME NEW c \in calls
                   PROVE  LET d == [c EXCEPT !.live = FALSE] IN
                          /\ d \in Call
                          /\ d.op = "commit" => d.tab = "planning"
                          /\ d.then = "offer" => d.profile = d.about
      BY DEF Left
    <2>2. c \in Call BY <1>2 DEF ScreenTypes
    <2>3. PICK d : d = [c EXCEPT !.live = FALSE] OBVIOUS
    <2>4. d \in Call BY <2>2, <2>3 DEF Call
    <2>5. d.op = c.op /\ d.tab = c.tab /\ d.then = c.then BY <2>2, <2>3 DEF Call
    <2>6. d.profile = c.profile /\ d.about = c.about BY <2>2, <2>3 DEF Call
    <2> QED BY <2>3, <2>4, <2>5, <2>6 DEF View, Offers, OwnCalls
  <1>6. calls = {} => Left = {} BY DEF Left
  <1>7. \A c \in calls' : c \in Left \/ (c = n /\ busy' = TRUE)
    BY <1>3 DEF Load, Fetch
  <1>8. /\ busy' \in BOOLEAN /\ alert' \in Tabs \cup {"none"}
        /\ t \in Clearing => alert' = "none"
        /\ t # "planning" => busy' = TRUE
    BY <1>2 DEF Load, ScreenTypes, Clearing
  <1>9. ScreenTypes' BY <1>1, <1>4, <1>5, <1>7, <1>8 DEF ScreenTypes
  <1>10. NoOffer.profile = NoOffer.about BY DEF NoOffer
  <1>11. Offers' BY <1>1, <1>4, <1>5, <1>7, <1>10 DEF Offers
  <1>12. OwnCalls' BY <1>1, <1>4, <1>5, <1>6, <1>7 DEF OwnCalls
  <1>13. TabsInv' BY <1>1, <1>8, <1>10 DEF TabsInv
  <1> QED BY <1>9, <1>11, <1>12, <1>13 DEF View

\* A call of the view that is open, when it loads and when it does not.
LEMMA CallMade ==
    ASSUME View, NEW p \in Topics, NEW op \in {"load", "accept", "reject", "confirm", "commit"},
           Fetch(NewCall(op, tab, p), calls),
           typed' = p, p # typed => mixed' = (mixed \/ \E c \in calls : c.live /\ c.profile # p),
           p = typed => mixed' = mixed,
           op = "commit" => tab = "planning",
           \/ busy' = TRUE /\ alert' \in {alert, "none"}
           \/ p = typed /\ UNCHANGED <<busy, alert>>,
           UNCHANGED <<tab, listed, offered, orphaned>>
    PROVE  View'
  <1>1. ScreenTypes BY DEF View
  <1>2. PICK n : n = NewCall(op, tab, p) OBVIOUS
  <1>3. /\ n \in Call /\ n.tab = tab /\ n.op = op /\ n.profile = p /\ n.then = "end"
        /\ n.live = TRUE
    BY <1>1, <1>2 DEF NewCall, Call, ScreenTypes
  <1>4. calls' = calls \cup {n} BY <1>2 DEF Fetch
  <1>5. ScreenTypes'
    <2>1. mixed' \in BOOLEAN /\ busy' \in BOOLEAN BY <1>1 DEF ScreenTypes
    <2> QED BY <1>1, <1>3, <1>4, <2>1 DEF ScreenTypes
  <1>6. Offers' BY <1>3, <1>4 DEF View, Offers
  <1>7. OwnCalls' BY <1>3, <1>4 DEF View, OwnCalls
  <1>8. TabsInv' BY DEF View, TabsInv
  <1> QED BY <1>5, <1>6, <1>7, <1>8 DEF View

\* An answer takes its call away; what it sets, and the load that may follow, is of that call.
LEMMA CallAnswered ==
    ASSUME View, NEW c \in calls,
           \A d \in calls' :
             \/ d \in calls
             \/ /\ d \in Call /\ d.op # "commit"
                /\ d.tab = c.tab /\ d.live = c.live /\ d.profile = c.profile
                /\ d.then = "offer" => d.profile = d.about,
           UNCHANGED <<tab, typed, orphaned, mixed>>,
           offered'.profile = offered'.about,
           busy' \in BOOLEAN, c.live /\ ~busy' /\ alert' = "none" /\ c.op # "commit" =>
                                \/ listed' = c.profile
                                \/ (~busy /\ alert = "none" /\ listed' = listed),
           c.live \/ busy' = busy,
           listed' \in {listed} \cup (IF c.live THEN {c.profile} ELSE {}),
           alert' \in {alert, c.tab, "none"}
    PROVE  View'
  <1>1. /\ ScreenTypes /\ c \in Call /\ c.tab \in Tabs /\ c.profile \in Topics
        /\ c.live \in BOOLEAN
    BY DEF View, ScreenTypes, Call
  <1>2. ScreenTypes'
    <2>1. calls' \subseteq Call BY <1>1 DEF ScreenTypes
    <2>2. listed' \in Topics \cup {"none"} /\ alert' \in Tabs \cup {"none"}
      BY <1>1 DEF ScreenTypes
    <2> QED BY <1>1, <2>1, <2>2 DEF ScreenTypes
  <1>3. Offers'
    <2>1. \A d \in calls' : d.then = "offer" => d.profile = d.about BY DEF View, Offers
    <2> QED BY <2>1 DEF Offers
  <1>4. OwnCalls'
    <2>1. \A d \in calls' : d.op = "commit" => d.tab = "planning" BY DEF View, OwnCalls
    <2>2. ~orphaned' => \A d \in calls' : d.tab = tab' /\ d.live BY DEF View, OwnCalls
    <2>3. ~orphaned' /\ ~mixed' => \A d \in calls' : d.profile = typed' BY DEF View, OwnCalls
    <2> QED BY <2>1, <2>2, <2>3 DEF OwnCalls
  <1>5. TabsInv'
    <2>1. SUFFICES ASSUME ~orphaned
                   PROVE  (/\ tab \in Clearing /\ alert # "none" => alert = tab
                           /\ ~mixed /\ ~busy /\ alert = "none" /\ tab # "planning" =>
                                listed = typed)'
      BY DEF TabsInv
    <2>2. c.tab = tab /\ c.live BY <2>1 DEF View, OwnCalls
    <2>3. tab \in Clearing /\ alert' # "none" => alert' = tab
      BY <2>1, <2>2 DEF View, TabsInv
    <2>4. ASSUME ~mixed, ~busy', alert' = "none", tab # "planning" PROVE listed' = typed
      <3>1. c.op # "commit" /\ c.profile = typed
        BY <2>1, <2>2, <2>4 DEF View, OwnCalls
      <3>2. ~busy /\ alert = "none" => listed = typed BY <2>1, <2>4 DEF View, TabsInv
      <3> QED BY <2>2, <2>4, <3>1, <3>2
    <2> QED BY <2>3, <2>4
  <1> QED BY <1>2, <1>3, <1>4, <1>5 DEF View

\* The load that follows the answer of c, with or without an offer.
LEMMA LoadFollows ==
    ASSUME View, NEW c \in calls, NEW then \in {"end", "offer", "propose"}, LoadAfter(c, then),
           c.op # "commit", then = "offer" => c.profile = c.about,
           UNCHANGED <<tab, typed, orphaned, mixed>>,
           offered'.profile = offered'.about
    PROVE  View'
  <1>1. /\ c \in Call /\ ScreenTypes /\ c.live \in BOOLEAN /\ busy \in BOOLEAN
    BY DEF View, ScreenTypes, Call
  <1>2. PICK d : d = [c EXCEPT !.op = "load", !.then = then] OBVIOUS
  <1>3. d \in Call BY <1>1, <1>2 DEF Call
  <1>4. d.op = "load" /\ d.then = then BY <1>1, <1>2 DEF Call
  <1>5. d.tab = c.tab /\ d.live = c.live BY <1>1, <1>2 DEF Call
  <1>6. d.profile = c.profile /\ d.about = c.about BY <1>1, <1>2 DEF Call
  <1>7. /\ calls' = (calls \ {c}) \cup {d} /\ busy' = (busy \/ c.live) /\ alert' = "none"
        /\ UNCHANGED listed
    BY <1>2 DEF LoadAfter
  <1>8. \A x \in calls' : x \in calls \/ x = d BY <1>7
  <1> QED BY <1>1, <1>3, <1>4, <1>5, <1>6, <1>7, <1>8, CallAnswered

LEMMA CallIsAnswered ==
    ASSUME View, NEW c \in calls, UNCHANGED <<tab, typed, orphaned, mixed>>,
           \/ AnswerLoad(c) \/ AnswerAccept(c) \/ AnswerReject(c)
           \/ AnswerConfirm(c) \/ AnswerCommit(c) \/ Refusal(c)
    PROVE  View'
  <1>1. /\ c \in Call /\ ScreenTypes /\ c.live \in BOOLEAN /\ busy \in BOOLEAN
        /\ c.tab \in Tabs /\ c.tab # "none"
    BY DEF View, ScreenTypes, Call, Tabs
  <1>2. offered.profile = offered.about /\ (c.then = "offer" => c.profile = c.about)
    BY DEF View, Offers
  <1>3. CASE AnswerLoad(c)
    <2>1. PICK good \in BOOLEAN :
            /\ listed' = IF c.live /\ good THEN c.profile ELSE listed
            /\ alert' = IF good /\ c.then # "propose" THEN alert ELSE c.tab
      BY <1>3 DEF AnswerLoad
    <2>2. /\ calls' = calls \ {c} /\ busy' = (busy /\ ~c.live)
          /\ offered' = IF c.live /\ c.then = "offer"
                        THEN [profile |-> c.profile, about |-> c.about] ELSE offered
      BY <1>3 DEF AnswerLoad
    <2>3. offered'.profile = offered'.about BY <1>2, <2>2
    <2>4. c.live /\ alert' = "none" => listed' = c.profile BY <1>1, <2>1
    <2> QED BY <1>1, <2>1, <2>2, <2>3, <2>4, CallAnswered
  <1>4. CASE AnswerAccept(c)
    <2>1. PICK then \in {"offer", "propose"} : LoadAfter(c, then) BY <1>4 DEF AnswerAccept
    <2>2. c.op = "accept" /\ c.profile = c.about /\ offered' = offered
      BY <1>4 DEF AnswerAccept, ProposalFound
    <2> QED BY <1>2, <2>1, <2>2, LoadFollows
  <1>5. CASE AnswerReject(c)
    <2>1. LoadAfter(c, "end") /\ c.op = "reject" /\ offered' = offered BY <1>5 DEF AnswerReject
    <2> QED BY <1>2, <2>1, LoadFollows
  <1>6. CASE AnswerConfirm(c)
    <2>1. LoadAfter(c, "end") /\ c.op = "confirm" /\ offered' \in {offered, NoOffer}
      BY <1>6 DEF AnswerConfirm
    <2>2. NoOffer.profile = NoOffer.about BY DEF NoOffer
    <2> QED BY <1>2, <2>1, <2>2, LoadFollows
  <1>7. CASE AnswerCommit(c)
    <2>1. /\ c.op = "commit" /\ calls' = calls \ {c} /\ alert' \in {alert, c.tab}
          /\ busy' = (busy /\ ~c.live) /\ UNCHANGED <<listed, offered>>
      BY <1>7 DEF AnswerCommit
    <2> QED BY <1>1, <1>2, <2>1, CallAnswered
  <1>8. CASE Refusal(c)
    <2>1. /\ calls' = calls \ {c} /\ alert' = c.tab /\ UNCHANGED <<listed, busy, offered>>
      BY <1>8 DEF Refusal
    <2> QED BY <1>1, <1>2, <2>1, CallAnswered
  <1> QED BY <1>3, <1>4, <1>5, <1>6, <1>7, <1>8

LEMMA NextView == View /\ [TabsNext]_tabVars => View'
  <1> SUFFICES ASSUME View, [TabsNext]_tabVars PROVE View'
    OBVIOUS
  <1>1. ScreenTypes /\ "all" \in Topics /\ FirstTyped \in Topics
    BY TabsBounds DEF View, Topics
  <1>2. tab \in Tabs /\ typed \in Topics BY <1>1 DEF ScreenTypes
  <1>3. OpenToday \/ OpenWeek \/ OpenAutofill \/ OpenProvider \/ OpenReminder => View'
    BY <1>1, TabOpened DEF OpenToday, OpenWeek, OpenAutofill, OpenProvider, OpenReminder, Tabs
  <1>4. OpenPlanning => View' BY <1>1, TabOpened DEF OpenPlanning, Tabs
  <1>5. ASSUME NEW p \in Typeable, TypeProfile(p) PROVE View'
    <2>1. p \in Topics /\ p # typed BY <1>5 DEF Topics, TypeProfile
    <2>2. Fetch(NewCall("load", tab, p), calls) /\ busy' = TRUE /\ alert' \in {alert, "none"}
      BY <1>5 DEF TypeProfile, Load
    <2>3. /\ typed' = p /\ UNCHANGED <<tab, listed, offered, orphaned>>
          /\ mixed' = (mixed \/ \E c \in calls : c.live /\ c.profile # p)
      BY <1>5 DEF TypeProfile
    <2> QED BY <2>1, <2>2, <2>3, CallMade
  <1>6. CASE PressReload
    <2>1. Fetch(NewCall("load", tab, typed), calls) /\ busy' = TRUE /\ alert' \in {alert, "none"}
      BY <1>6 DEF PressReload, Load
    <2> QED BY <1>2, <1>6, <2>1, CallMade DEF PressReload
  <1>7. CASE ToggleField
    BY <1>7 DEF ToggleField, View, ScreenTypes, Offers, OwnCalls, TabsInv
  <1>8. ASSUME NEW op \in {"accept", "reject", "confirm"}, Press(op) PROVE View'
    BY <1>2, <1>8, CallMade DEF Press
  <1>9. CASE PressCommit BY <1>2, <1>9, CallMade DEF PressCommit
  <1>10. CASE UNCHANGED tabVars
    BY <1>10 DEF tabVars, View, ScreenTypes, Offers, OwnCalls, TabsInv
  <1> QED
    BY <1>3, <1>4, <1>5, <1>6, <1>7, <1>8, <1>9, <1>10, CallIsAnswered
       DEF TabsNext, PressAccept, PressReject, PressConfirm

\* AssistantPanelInv: however confirmations, batches and retries overlap, what staff confirmed is
\* applied at most once and the ledgers and receipts say so; and however late answers come to
\* the tabs, the draft offered is of the proposals it was accepted from.
THEOREM AssistantActsOnce == AssistantPanelSpec => []AssistantPanelInv
  <1>1. AssistantInit /\ SwitchInit /\ TabsInit => Booked /\ View BY InitBooked, InitView
  <1>2. /\ Booked /\ View
        /\ [\/ AssistantNext /\ UNCHANGED tabVars
            \/ TabsNext /\ UNCHANGED <<assistantVars, switchVars>>
           ]_<<assistantVars, switchVars, tabVars>>
        => Booked' /\ View'
    BY NextBooked, NextView
  <1>3. Booked /\ View => AssistantPanelInv BY BookedHolds DEF View, AssistantPanelInv
  <1> QED BY <1>1, <1>2, <1>3, PTL DEF AssistantPanelSpec

-----------------------------------------------------------------------------
(* Dashboard.                                                              *)

\* What is shown and what is under way; without a race the charts are those of the filter bar.
Display ==
    /\ chart = Blank \/ \E f \in Filters : chart = Chart(f)
    /\ filters \in Filters /\ raced \in BOOLEAN
    /\ \A x \in fetches : x.is = "chart" => \E f \in Filters : x = Chart(f)
    /\ ~raced => \A x \in Charts : x = Chart(filters)
    /\ ShownIsChosen

LEMMA ChartIs == ASSUME NEW f
                 PROVE  Chart(f) # Blank /\ Chart(f).is = "chart" /\ Chart(f).filters = f
  BY DEF Chart, Blank

\* The rows behind a cell are those its drilldown lists, up to the chat-only ones.
LEMMA CellsAre ==
    ASSUME NEW f
    PROVE  /\ \A k : k \in DOMAIN ReadDashboard(f) <=>
                \E r \in RowsOf(f) : ~r.chat /\ k = <<Bucket(r.day, f.period), r.stage>>
           /\ \A k \in DOMAIN ReadDashboard(f) :
                LET counted == {r \in DrillOf(f, k) : ~r.chat} IN
                /\ ReadDashboard(f)[k].value = Cardinality(counted)
                /\ ReadDashboard(f)[k].available = (\A r \in counted : r.available)
  <1> DEFINE rows == {q \in RowsOf(f) : ~q.chat}
             at(k) == {r \in rows : Bucket(r.day, f.period) = k[1] /\ r.stage = k[2]}
             keys == {<<Bucket(r.day, f.period), r.stage>> : r \in rows}
  <1>1. ReadDashboard(f) = [k \in keys |->
          [value |-> Cardinality(at(k)), available |-> \A r \in at(k) : r.available]]
    BY DEF ReadDashboard, AggregateByActor, AggregateChartCells, Countable
  <1>2. ASSUME NEW k \in keys PROVE at(k) = {r \in DrillOf(f, k) : ~r.chat}
    <2>1. PICK a, b : k = <<a, b>> OBVIOUS
    <2> QED BY <2>1 DEF DrillOf
  <1> HIDE DEF rows, at, keys
  <1>3. DOMAIN ReadDashboard(f) = keys BY <1>1
  <1>4. ASSUME NEW k \in keys
        PROVE  LET counted == {r \in DrillOf(f, k) : ~r.chat} IN
               /\ ReadDashboard(f)[k].value = Cardinality(counted)
               /\ ReadDashboard(f)[k].available = (\A r \in counted : r.available)
    <2>1. PICK S : S = at(k) OBVIOUS
    <2>2. PICK all : all = (\A r \in S : r.available) OBVIOUS
    <2>3. ReadDashboard(f)[k] = [value |-> Cardinality(S), available |-> all]
      BY <1>1, <2>1, <2>2
    <2>4. ReadDashboard(f)[k].value = Cardinality(S) /\ ReadDashboard(f)[k].available = all
      BY <2>3
    <2>5. S = {r \in DrillOf(f, k) : ~r.chat} BY <1>2, <2>1
    <2> QED BY <2>2, <2>4, <2>5
  <1>5. \A k : k \in keys <=>
          \E r \in RowsOf(f) : ~r.chat /\ k = <<Bucket(r.day, f.period), r.stage>>
    BY DEF keys, rows
  <1> QED BY <1>3, <1>4, <1>5

LEMMA SumsOf == SumsAgree
  <1> SUFFICES ASSUME chart # Blank, drill.is = "drill", chart.filters = drill.filters
               PROVE  LET k == drill.cell
                          counted == {r \in DrillOf(drill.filters, k) : ~r.chat} IN
                      /\ counted = {} <=> k \notin DOMAIN Cells
                      /\ k \in DOMAIN Cells =>
                           /\ Cells[k].value = Cardinality(counted)
                           /\ Cells[k].available = (\A r \in counted : r.available)
    BY DEF SumsAgree
  <1>1. PICK f : f = drill.filters OBVIOUS
  <1>2. PICK k : k = drill.cell OBVIOUS
  <1>3. Cells = ReadDashboard(f) BY <1>1 DEF Cells
  <1>4. {r \in DrillOf(f, k) : ~r.chat} = {} <=> k \notin DOMAIN ReadDashboard(f)
    <2>1. k \in DOMAIN ReadDashboard(f) <=>
            \E r \in RowsOf(f) : ~r.chat /\ k = <<Bucket(r.day, f.period), r.stage>>
      BY CellsAre
    <2> QED BY <2>1 DEF DrillOf
  <1> QED BY <1>1, <1>2, <1>3, <1>4, CellsAre

LEMMA CountedOnce == NothingCountedTwice
  <1> SUFFICES ASSUME chart # Blank, NEW r \in {q \in RowsOf(chart.filters) : ~q.chat}
               PROVE  \E k \in DOMAIN Cells :
                        /\ r \in DrillOf(chart.filters, k)
                        /\ \A j \in DOMAIN Cells \ {k} : r \notin DrillOf(chart.filters, j)
    BY DEF NothingCountedTwice
  <1>1. PICK f : f = chart.filters OBVIOUS
  <1>2. Cells = ReadDashboard(f) BY <1>1 DEF Cells
  <1>3. PICK k : k = <<Bucket(r.day, f.period), r.stage>> OBVIOUS
  <1>4. k \in DOMAIN Cells BY <1>1, <1>2, <1>3, CellsAre
  <1>5. r \in DrillOf(f, k) /\ \A j : r \in DrillOf(f, j) => j = k BY <1>1, <1>3 DEF DrillOf
  <1> QED BY <1>1, <1>4, <1>5

LEMMA InitDisplay == DashboardInit => Display
  BY ChartIs DEF DashboardInit, Display, ShownIsChosen, Charts

LEMMA NextDisplay == Display /\ [DashboardNext]_dashboardVars => Display'
  <1> SUFFICES ASSUME Display, [DashboardNext]_dashboardVars PROVE Display'
    OBVIOUS
  <1>1. ASSUME NEW f \in Filters, ChangeFilters(f) PROVE Display'
    <2>1. /\ filters' = f /\ loading' = TRUE /\ failed' = FALSE
          /\ fetches' = fetches \cup {Chart(f)}
          /\ raced' = (raced \/ Charts # {}) /\ UNCHANGED <<chart, drill>>
      BY <1>1 DEF ChangeFilters
    <2>2. \A x \in Charts' : x \in Charts \/ x = Chart(f) BY <2>1 DEF Charts
    <2> QED BY <2>1, <2>2, ChartIs DEF Display, ShownIsChosen, Charts
  <1>2. ASSUME NEW k, OpenDrilldown(k) PROVE Display'
    <2>1. /\ fetches' = fetches \cup {Drill(filters, k)}
          /\ UNCHANGED <<filters, chart, loading, failed, raced>>
      BY <1>2 DEF OpenDrilldown
    <2>2. Drill(filters, k).is = "drill" BY DEF Drill
    <2>3. Charts' = Charts BY <2>1, <2>2 DEF Charts
    <2> QED BY <2>1, <2>2, <2>3 DEF Display, ShownIsChosen
  <1>3. ASSUME NEW x, ReceiveChart(x) PROVE Display'
    <2>1. /\ x \in Charts /\ fetches' = fetches \ {x} /\ loading' = FALSE
          /\ (chart' = x /\ failed' = failed) \/ (failed' = TRUE /\ chart' = chart)
          /\ UNCHANGED <<filters, drill, raced>>
      BY <1>3 DEF ReceiveChart
    <2>2. PICK f \in Filters : x = Chart(f) BY <2>1 DEF Display, Charts
    <2>3. ~raced => x = Chart(filters) BY <2>1 DEF Display
    <2>4. Charts' \subseteq Charts BY <2>1 DEF Charts
    <2> QED BY <2>1, <2>2, <2>3, <2>4, ChartIs DEF Display, ShownIsChosen
  <1>4. ASSUME NEW x, ReceiveDrill(x) PROVE Display'
    <2>1. fetches' = fetches \ {x} /\ UNCHANGED <<filters, chart, loading, failed, raced>>
      BY <1>4 DEF ReceiveDrill
    <2>2. Charts' \subseteq Charts BY <2>1 DEF Charts
    <2> QED BY <2>1, <2>2 DEF Display, ShownIsChosen
  <1>5. CASE UNCHANGED dashboardVars
    BY <1>5 DEF dashboardVars, Display, ShownIsChosen, Charts
  <1> QED BY <1>1, <1>2, <1>3, <1>4, <1>5 DEF DashboardNext

\* DashboardInv: a cell and its drilldown agree whenever they are of the same filters, whichever
\* answer came first; every row that counts is in one cell; and what is shown as loaded is what
\* the filter bar says, unless two charts were fetched at once.
THEOREM ChartsAddUp == DashboardSpec => []DashboardInv
  <1>1. DashboardSpec => []Display BY InitDisplay, NextDisplay, PTL DEF DashboardSpec
  <1>2. Display => DashboardInv BY SumsOf, CountedOnce DEF Display, DashboardInv
  <1> QED BY <1>1, <1>2, PTL
=============================================================================
