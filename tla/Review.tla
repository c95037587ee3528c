------------------------------- MODULE Review -------------------------------
(***************************************************************************)
(* The review queue of the API (apps/integration-api/src/review): entries  *)
(* that an intake leaves for a human, the reviewers' decisions and links,  *)
(* the append-only audit log whose length is the version of an entry, and  *)
(* the replay check that compares an entry with a checkpoint.              *)
(*                                                                         *)
(* A reviewer works on the detail it loaded (view); other reviewers change *)
(* the entry meanwhile.  Reading a request's body is asynchronous, but the *)
(* service reads the entry and writes it back within one turn.  A link is  *)
(* named by the version of the entry it was added to.                      *)
(***************************************************************************)
EXTENDS Naturals

CONSTANTS Entries,     \* review entry ids
          Reviewers,   \* actors
          DraftDigests,  \* draft digests
          Canonicals,  \* canonical id and version of a target
          OrgOf,       \* [Entries \cup Reviewers -> organization]; a server serves one
          MaxVersion   \* bound on the length of an audit log

ASSUME ReviewBounds == MaxVersion \in Nat

VARIABLES entry,    \* the store: entry id -> entry or Missing
          view,     \* the detail each reviewer has on its screen, or Missing
          reply,    \* the last answer each reviewer got
          basis     \* history: entry id -> the links the decider saw, and those there were
reviewVars == <<entry, view, reply, basis>>

Missing == [status |-> "missing"]
Kinds == {"ACCEPT", "REJECT", "REQUEST_CHANGES"}

ReviewInit ==
    /\ entry = [e \in Entries |-> Missing]
    /\ view = [r \in Reviewers |-> Missing]
    /\ reply = [r \in Reviewers |-> "none"]
    /\ basis = [e \in Entries |-> Missing]

-----------------------------------------------------------------------------
\* Store.

\* createReviewEntry; no target is written as "none".
NewEntry(digest, target) ==
    [status |-> "OPEN", version |-> 1, links |-> {}, digest |-> digest, target |-> target,
     kind |-> "none"]

\* applyDecision, addLink, removeLink: each appends to the audit log.
ApplyDecision(rec, kind) ==
    [rec EXCEPT !.status = "DECIDED", !.kind = kind, !.version = rec.version + 1]
AddLink(rec) ==
    [rec EXCEPT !.links = rec.links \cup {rec.version}, !.version = rec.version + 1]
RemoveLink(rec, l) == [rec EXCEPT !.links = rec.links \ {l}, !.version = rec.version + 1]

-----------------------------------------------------------------------------
\* Permissions.  No code sets EXPIRED or SUPERSEDED, so tiers make no difference.

CanDecide(rec) == rec.status = "OPEN"
CanLink(rec)   == rec.status = "OPEN"
CanUnlink(rec) == rec.status # "EXPIRED"

-----------------------------------------------------------------------------
\* Service: what each operation answers.

\* findEntryOrThrow.
Found(r, e) ==
    IF entry[e] = Missing THEN "NOT_FOUND" ELSE IF OrgOf[e] # OrgOf[r] THEN "FORBIDDEN" ELSE "OK"

\* Mutant: the expected version is not compared.
SubmitAnyVersion(r, e, kind, expected) ==
    IF Found(r, e) # "OK" THEN Found(r, e)
    ELSE IF ~CanDecide(entry[e]) THEN "FORBIDDEN"
    ELSE IF kind \notin Kinds THEN "VALIDATION_ERROR" ELSE "OK"

\* submitDecision.
SubmitDecision(r, e, kind, expected) ==
    IF Found(r, e) # "OK" THEN Found(r, e)
    ELSE IF ~CanDecide(entry[e]) THEN "FORBIDDEN"
    ELSE IF kind \notin Kinds THEN "VALIDATION_ERROR"
    ELSE IF entry[e].version # expected THEN "VERSION_CONFLICT" ELSE "OK"

\* linkTarget and unlinkTarget compare no version.
LinkTarget(r, e) ==
    IF Found(r, e) # "OK" THEN Found(r, e) ELSE IF ~CanLink(entry[e]) THEN "FORBIDDEN" ELSE "OK"
UnlinkTarget(r, e, l) ==
    IF Found(r, e) # "OK" THEN Found(r, e)
    ELSE IF ~CanUnlink(entry[e]) THEN "FORBIDDEN"
    ELSE IF l \notin entry[e].links THEN "NOT_FOUND" ELSE "OK"

\* replayReview: the first thing that drifted, in the order of the code.  A target is not
\* compared where one side has none.
ReplayReview(rec, digest, target, state) ==
    IF digest # rec.digest THEN "DRAFT_DIGEST_CHANGED"
    ELSE IF "none" \notin {rec.target, target} /\ target # rec.target THEN "TARGET_CHANGED"
    ELSE IF state = "COMPLETED" THEN "ALREADY_APPLIED" ELSE "CAN_PROCEED"

-----------------------------------------------------------------------------
\* Requests.

\* createFromIntake: nothing asks whether the revision has an entry already.
CreateFromIntake(e, digest, target) ==
    /\ entry[e] = Missing
    /\ entry' = [entry EXCEPT ![e] = NewEntry(digest, target)]
    /\ UNCHANGED <<view, reply, basis>>

\* handleDetail: the audit summary tells the version.
HandleDetail(r, e) ==
    /\ reply' = [reply EXCEPT ![r] = Found(r, e)]
    /\ view' = IF Found(r, e) # "OK" THEN view
               ELSE [view EXCEPT ![r] = [entry |-> e, version |-> entry[e].version,
                                         links |-> entry[e].links]]
    /\ UNCHANGED <<entry, basis>>

\* handleDecide, with the version of the detail on the screen.
HandleDecide(r, kind) ==
    /\ view[r] # Missing
    /\ LET e == view[r].entry
           answer == SubmitDecision(r, e, kind, view[r].version) IN
       /\ reply' = [reply EXCEPT ![r] = answer]
       /\ IF answer # "OK" THEN UNCHANGED <<entry, basis>>
          ELSE /\ entry' = [entry EXCEPT ![e] = ApplyDecision(@, kind)]
               /\ basis' = [basis EXCEPT ![e] = [by |-> r, kind |-> kind, saw |-> view[r].links,
                                                 links |-> entry[e].links]]
    /\ UNCHANGED view

\* handleLink and handleUnlink, of anything the reviewer names.
HandleLink(r, e) ==
    /\ entry[e] # Missing => entry[e].version < MaxVersion
    /\ reply' = [reply EXCEPT ![r] = LinkTarget(r, e)]
    /\ entry' = IF LinkTarget(r, e) # "OK" THEN entry
                ELSE [entry EXCEPT ![e] = AddLink(@)]
    /\ UNCHANGED <<view, basis>>

HandleUnlink(r, e, l) ==
    /\ entry[e] # Missing => entry[e].version < MaxVersion
    /\ reply' = [reply EXCEPT ![r] = UnlinkTarget(r, e, l)]
    /\ entry' = IF UnlinkTarget(r, e, l) # "OK" THEN entry
                ELSE [entry EXCEPT ![e] = RemoveLink(@, l)]
    /\ UNCHANGED <<view, basis>>

\* handleReplay: the checkpoint is what the caller sends.
HandleReplay(r, e, digest, target, state) ==
    /\ reply' = [reply EXCEPT ![r] = IF Found(r, e) # "OK" THEN Found(r, e)
                                     ELSE ReplayReview(entry[e], digest, target, state)]
    /\ UNCHANGED <<entry, view, basis>>

\* The routes of a reviewer.
HandleRoute(r) ==
    \/ \E e \in Entries :
         \/ HandleDetail(r, e)
         \/ HandleLink(r, e)
         \/ \E l \in 1..MaxVersion : HandleUnlink(r, e, l)
         \/ \E d \in DraftDigests, t \in Canonicals \cup {"none"}, s \in {"PARTIAL", "COMPLETED"} :
              HandleReplay(r, e, d, t, s)
    \/ \E kind \in Kinds \cup {"MERGE"} : HandleDecide(r, kind)

ReviewNext ==
    \/ \E e \in Entries, d \in DraftDigests, t \in Canonicals \cup {"none"} : CreateFromIntake(e, d, t)
    \/ \E r \in Reviewers : HandleRoute(r)

ReviewSpec == ReviewInit /\ [][ReviewNext]_reviewVars

-----------------------------------------------------------------------------
\* A decision rests on the links its reviewer had on the screen, although others link and
\* unlink meanwhile; it is made once, by the entry's organization; and afterwards nothing
\* is added to what was decided.
ReviewInv ==
    \A e \in Entries :
      /\ basis[e] # Missing <=> entry[e].status = "DECIDED"
      /\ basis[e] # Missing =>
           /\ basis[e].saw = basis[e].links
           /\ OrgOf[basis[e].by] = OrgOf[e]
           /\ entry[e].kind = basis[e].kind
           /\ entry[e].links \subseteq basis[e].links   \* canUnlink lets it lose some
=============================================================================
