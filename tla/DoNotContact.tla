---------------------------- MODULE DoNotContact ----------------------------
(***************************************************************************)
(* The do-not-contact command of the context panel (POST /api/intake/dnc,  *)
(* orchestrator-wire.ts handleDnc, apps/integration-api                    *)
(* src/orchestrator/dnc-handler.ts) against the ledger of the gateway,     *)
(* which a reset empties.  The command stands beside the intake: no        *)
(* preview, no checkpoint.  All of a request after its body is one turn.   *)
(***************************************************************************)
EXTENDS Naturals

CONSTANTS Contacts,    \* contacts: id, and the connection it is an id of
          Requesters,  \* staff whose requests come
          Operators,   \* those of them with a role that may suppress
          Reasons,     \* what a request may give as the reason
          MaxResets    \* bound on the resets of the gateway

ASSUME DncBounds == MaxResets \in Nat

VARIABLES kept,        \* resultCache of the gateway: key -> payload it accepted, or Free
          resets,
          suppressed,  \* history: how often the gateway accepted each payload
          told         \* history: payloads answered "applied", and after how many resets
dncVars == <<kept, resets, suppressed, told>>

Free == [target |-> [id |-> "none", connection |-> "none"], reason |-> "none"]

\* The key names the contact, without its connection: a retry under another correlation id
\* finds its entry, and so does a contact of the same id somewhere else.
KeyOf(c) == c.id

\* buildCommitSuppressionPayload: a known profile is the target instead of the contact.
TheProfile == [id |-> "profile", connection |-> "none"]
Payload(c, profile, reason) ==
    [target |-> IF profile THEN TheProfile ELSE c, reason |-> reason]

Payloads == {Payload(c, profile, reason) : c \in Contacts, profile \in BOOLEAN, reason \in Reasons}

DncReasons == {"CANDIDATE_REQUEST", "PRIVACY_REQUEST", "HRP_POLICY", "OTHER"}

\* CommitSuppressionInputSchema: a canonical reason (the old PRIVACY is none), a plain note.
WellFormed(payload, note) == payload.reason \in DncReasons /\ note # "url"

DncInit ==
    /\ kept = [k \in {KeyOf(c) : c \in Contacts} |-> Free]
    /\ resets = 0
    /\ suppressed = [p \in Payloads |-> 0] /\ told = {}

\* Mutant: the entry of a key kept every payload.
NeverConflicts(k, payload) == FALSE

\* The gateway keeps what it accepted under a key; another payload is a conflict.
Conflicts(k, payload) == kept[k] # Free /\ kept[k] # payload

\* The call of the gateway: what it accepts under a new key is kept.
CallGateway(k, payload) ==
    IF kept[k] = Free
    THEN /\ kept' = [kept EXCEPT ![k] = payload]
         /\ suppressed' = [suppressed EXCEPT ![payload] = @ + 1]
    ELSE UNCHANGED <<kept, suppressed>>

\* executeDncAction: the gateway's ACCEPTED, new or from the ledger, is answered as applied,
\* and a conflict as not applied, both with 200.
Execute(k, payload) ==
    IF Conflicts(k, payload) THEN UNCHANGED dncVars
    ELSE /\ CallGateway(k, payload)
         /\ told' = told \cup {<<resets, k, payload>>}
         /\ UNCHANGED resets

\* handleDnc: an actor the body names has to be the caller.
HandleDnc(who, c, profile, reason, note, actor) ==
    LET payload == Payload(c, profile, reason) IN
    IF actor \in {"absent", who} /\ WellFormed(payload, note) THEN Execute(KeyOf(c), payload)
    ELSE UNCHANGED dncVars

\* The role is asked before the body is read.
PostDnc(who) ==
    /\ who \in Operators
    /\ \E c \in Contacts, profile \in BOOLEAN, reason \in Reasons, note \in {"plain", "url"},
          actor \in {"absent"} \cup Requesters :
         HandleDnc(who, c, profile, reason, note, actor)

\* GET /api/session/reset: a gateway with an empty ledger.
ResetGateway ==
    /\ resets < MaxResets
    /\ resets' = resets + 1
    /\ kept' = [k \in DOMAIN kept |-> Free]
    /\ UNCHANGED <<suppressed, told>>

DncNext == ResetGateway \/ \E who \in Requesters : PostDnc(who)
DncSpec == DncInit /\ [][DncNext]_dncVars

-----------------------------------------------------------------------------
\* Whoever is told that a suppression was applied asked for one that the gateway accepted,
\* retries and requests of others before it notwithstanding; between two resets a key is
\* answered for one payload only, and what names a contact is accepted at most once.
DncInv ==
    /\ \A t \in told : suppressed[t[3]] > 0
    /\ \A t, u \in told : t[1] = u[1] /\ t[2] = u[2] => t = u
    /\ \A p \in Payloads : p.target # TheProfile => suppressed[p] <= 1 + resets
=============================================================================
