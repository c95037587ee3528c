------------------------------- MODULE Config -------------------------------
(***************************************************************************)
(* The settings of the context panel that carry a version: a routing pool  *)
(* (routing/config-store.ts, routing/service.ts), a provider configuration *)
(* (assistant/store.ts), a KPI assignment (dashboard/store.ts) and the     *)
(* schedule of a next action (assistant/service.ts).  One behaviour is the *)
(* life of one of them.                                                    *)
(*                                                                         *)
(* A client sends the version it knows; the route waits for the body, then *)
(* compares and writes in one turn.  Every write has a number of its own,  *)
(* so that the version a client knows can be told from the value it knows. *)
(***************************************************************************)
EXTENDS KillSwitch

CONSTANTS Clients,    \* callers of the routes; Managers are some of them
          MaxWrites,  \* bound on the writes
          MaxSeconds  \* bound on the clock

ASSUME ConfigBounds == MaxWrites \in Nat /\ MaxSeconds \in Nat

VARIABLES kind,       \* "pool", "provider", "kpi" or "action"
          value,      \* the stored value, or None: version, number of its write, author,
                      \* and of an assignment: is the target 0, is there a cohort
          known,      \* version and number each client knows, or None
          second,     \* Date.now() in seconds
          proposals,  \* who is in the log of KPI proposals
          versions,   \* history: versions the setting has had
          again,      \* history: it got one of them a second time
          blind       \* history: somebody replaced a value it did not know
configVars == <<kind, value, known, second, proposals, versions, again, blind>>

None == [version |-> 0, write |-> 0]
Stored(version, write, who, zero, cohort) ==
    [version |-> version, write |-> write, by |-> who, zero |-> zero, cohort |-> cohort]
Seen(v) == [version |-> v.version, write |-> v.write]
Seeded == Stored(1, 1, "seed", FALSE, "none")

\* The store at startup: the pool of the fixtures is there, a provider only once somebody
\* listed them (seedOnce), an assignment when it is assigned if it is none of the
\* fixtures; a next action has the version
\* 'v-current', which every client knows.
ConfigInit ==
    /\ kind \in {"pool", "provider", "kpi", "action"}
    /\ value \in CASE kind = "provider" -> {None} [] kind = "kpi" -> {None, Seeded}
                   [] OTHER -> {Seeded}
    /\ known = [c \in Clients |-> IF kind = "action" THEN Seen(value) ELSE None]
    /\ second = 2 /\ proposals = {}
    /\ versions = {value.version} /\ again = FALSE /\ blind = FALSE

\* Only the schedule of a next action looks at the clock.
Tick ==
    /\ kind = "action" /\ second < MaxSeconds /\ second' = second + 1
    /\ UNCHANGED <<kind, value, known, proposals, versions, again, blind, switchVars>>

-----------------------------------------------------------------------------
\* Reads, of anybody; nothing reads a next action.

Got(c, v) ==
    /\ value' = v
    /\ known' = [known EXCEPT ![c] = IF v = None THEN None ELSE Seen(v)]
    /\ versions' = versions \cup {v.version}
    /\ UNCHANGED <<kind, second, proposals, again, blind, switchVars>>

ListPools(c) == kind = "pool" /\ Got(c, value)
ListKpis(c)  == kind = "kpi" /\ Got(c, value)

\* listProviderConfigs seeds the configurations before it lists them.
ProvidersSeeded == IF value = None THEN Seeded ELSE value
ListProviders(c) == kind = "provider" /\ Got(c, ProvidersSeeded)

-----------------------------------------------------------------------------
\* Writes.

\* What a write leaves behind; its author gets the new value as the answer.
WriteBy(c, new, unseen) ==
    /\ value' = new
    /\ known' = [known EXCEPT ![c] = Seen(new)]
    /\ again' = (again \/ new.version \in versions)
    /\ versions' = versions \cup {new.version}
    /\ blind' = (blind \/ unseen)

\* The request of slot s that reached its service.
Serves(s, op, of) ==
    /\ kind = of /\ slot[s] # Idle /\ slot[s].op = op /\ value.write < MaxWrites
    /\ UNCHANGED <<kind, second, proposals>>

\* Mutant: an update is taken at any version.
AnyVersion(seen) == value # None

\* The value is there, at the version the client sent.
VersionMatches(seen) == value # None /\ value.version = seen.version

\* An update that was accepted, and one that was refused.
Updated(r, version, zero) ==
    WriteBy(r.who, Stored(version, value.write + 1, r.who, zero, value.cohort),
            r.seen.write # value.write)
Refused == UNCHANGED <<value, known, again, versions, blind>>

UpdateBy(c, body) == [op |-> "update", who |-> c, seen |-> known[c], body |-> body]

-----------------------------------------------------------------------------
\* Routing pools.

\* POST: the role is asked before the body is read, and again by the service.
PostPool(s, c) ==
    /\ kind = "pool" /\ c \in Managers
    /\ ReadBody(s, [op |-> "create", who |-> c])
    /\ UNCHANGED configVars

\* createPool puts version 1, whatever there was.
CreatePool(s) ==
    /\ Serves(s, "create", "pool")
    /\ WriteBy(slot[s].who, Stored(1, value.write + 1, slot[s].who, FALSE, "none"), FALSE)
    /\ Failed(s)

PutPool(s, c) ==
    /\ kind = "pool" /\ known[c] # None
    /\ \E body \in {"some", "forbidden"} : ReadBody(s, UpdateBy(c, body))
    /\ UNCHANGED configVars

\* updatePool asks the role after the body, and refuses the fields nobody may patch.
PoolAllowed(r) == r.who \in Managers /\ r.body # "forbidden"
PoolMerged(r)  == Updated(r, value.version + 1, FALSE)

UpdatePool(s) ==
    LET r == slot[s] IN
    /\ Serves(s, "update", "pool")
    /\ IF PoolAllowed(r) /\ VersionMatches(r.seen) THEN PoolMerged(r) ELSE Refused
    /\ Failed(s)

-----------------------------------------------------------------------------
\* Provider configurations, the only ones behind the kill switch.

PutProvider(s, c) ==
    /\ kind = "provider" /\ known[c] # None
    /\ \E body \in {"some", "secret"} : Guarded(s, "provider", UpdateBy(c, body))
    /\ UNCHANGED configVars

\* parseProviderConfigWrite: no unknown field, nothing that looks like a secret.
ProviderParsed(r) == r.body # "secret"

\* updateProviderConfig, updateProvider.
ProviderAccepted(r) == ProviderParsed(r) /\ r.who \in Managers /\ VersionMatches(r.seen)

UpdateProvider(s) ==
    LET r == slot[s] IN
    /\ Serves(s, "update", "provider")
    /\ IF ProviderAccepted(r)
       THEN Updated(r, value.version + 1, FALSE) /\ Applied(s, <<"provider", r.who>>)
       ELSE Refused /\ Failed(s)

-----------------------------------------------------------------------------
\* KPI assignments: the role is asked before the body, by staff id.

MayAssign(c) == c \in Managers

PostKpi(s, c) ==
    /\ kind = "kpi" /\ MayAssign(c)
    /\ \E zero \in BOOLEAN, cohort \in {"none", "period", "backwards"} :
         ReadBody(s, [op |-> "create", who |-> c, zero |-> zero, cohort |-> cohort])
    /\ UNCHANGED configVars

\* A target of 0 needs a cohort, whose period does not end before it starts.
KpiAllowed(zero, cohort) == (zero => cohort # "none") /\ cohort # "backwards"

\* assignKpi counts the assignments for the id: a second one is another row.
AssignKpi(s) ==
    LET r == slot[s] IN
    /\ Serves(s, "create", "kpi")
    /\ IF value = None /\ KpiAllowed(r.zero, r.cohort)
       THEN WriteBy(r.who, Stored(1, value.write + 1, r.who, r.zero, r.cohort), FALSE)
       ELSE Refused
    /\ Failed(s)

PutKpi(s, c) ==
    /\ kind = "kpi" /\ known[c] # None /\ MayAssign(c)
    /\ \E target \in {"keep", "zero", "some"} : ReadBody(s, UpdateBy(c, target))
    /\ UNCHANGED configVars

\* revise: the version, and a target may become 0 only where a cohort is.
KpiRevisable(r) == VersionMatches(r.seen) /\ KpiAllowed(r.body = "zero", value.cohort)
KpiRevised(r) ==
    Updated(r, value.version + 1, IF r.body = "keep" THEN value.zero ELSE r.body = "zero")

ReviseKpi(s) ==
    /\ Serves(s, "update", "kpi")
    /\ IF KpiRevisable(slot[s]) THEN KpiRevised(slot[s]) ELSE Refused
    /\ Failed(s)

\* Anybody proposes a target: a line of the log, whether or not there is such an assignment.
PostProposal(s, c) ==
    /\ kind = "kpi"
    /\ ReadBody(s, [op |-> "propose", who |-> c])
    /\ UNCHANGED configVars

ProposeKpi(s) ==
    /\ kind = "kpi" /\ slot[s] # Idle /\ slot[s].op = "propose"
    /\ proposals' = proposals \cup {slot[s].who}
    /\ Failed(s)
    /\ UNCHANGED <<kind, value, known, second, versions, again, blind>>

-----------------------------------------------------------------------------
\* The schedule of a next action, which anybody may move.

PostReschedule(s, c) ==
    /\ kind = "action"
    /\ ReadBody(s, UpdateBy(c, "some"))
    /\ UNCHANGED configVars

\* rescheduleNextAction: the seconds of the clock are the next version, and a conflict tells
\* the current one.
Reschedule(s) ==
    LET r == slot[s] IN
    /\ Serves(s, "update", "action")
    /\ IF VersionMatches(r.seen) THEN Updated(r, second, FALSE)
       ELSE /\ known' = [known EXCEPT ![r.who] = Seen(value)]
            /\ UNCHANGED <<value, again, versions, blind>>
    /\ Failed(s)

ConfigNext ==
    \/ \E c \in Clients : ListPools(c) \/ ListKpis(c) \/ ListProviders(c)
    \/ \E s \in Slots :
         \/ \E c \in Clients :
              \/ PostPool(s, c) \/ PutPool(s, c) \/ PutProvider(s, c)
              \/ PostKpi(s, c) \/ PutKpi(s, c) \/ PostProposal(s, c) \/ PostReschedule(s, c)
         \/ CreatePool(s) \/ UpdatePool(s) \/ UpdateProvider(s)
         \/ AssignKpi(s) \/ ReviseKpi(s) \/ ProposeKpi(s) \/ Reschedule(s)
    \/ Tick

ConfigSpec ==
    /\ ConfigInit /\ SwitchInit
    /\ [][ConfigNext \/ (SwitchNext /\ UNCHANGED configVars)]_<<configVars, switchVars>>

-----------------------------------------------------------------------------
\* Nobody overwrites a change it has not seen, however requests overlap, unless the setting
\* got a version a second time, which only a pool does that was created again and a next
\* action that was rescheduled twice in one second; only a manager's write reaches a setting,
\* whatever was proposed; and a target of 0 keeps its cohort.
ConfigInv ==
    /\ blind => again
    /\ again => kind \in {"pool", "action"}
    /\ kind # "action" /\ value # None => value.by \in Managers \cup {"seed"}
    /\ kind = "kpi" /\ value # None => (value.zero => value.cohort # "none")
=============================================================================
