----------------------------- MODULE KillSwitch -----------------------------
(***************************************************************************)
(* The kill switch and the recovery ledger of the context panel            *)
(* (apps/context-panel/src/observability/kill-switch.ts) and what every    *)
(* route of server.ts does with them: a guarded route asks the switch      *)
(* BEFORE it awaits the body of the request, and registers a receipt       *)
(* afterwards.  All of it is in memory.                                    *)
(***************************************************************************)
EXTENDS Naturals, FiniteSets

CONSTANTS Slots,         \* requests in progress
          Correlations,  \* correlation ids; a client may send the same one again
          Managers,      \* identities with role SUPERVISOR or SYSTEM
          Idle

VARIABLES armed,      \* KillSwitch.state
          receipt,    \* RecoveryLedger: idempotency key -> "pending" or "applied"
          replayed,   \* lastAction is a replay of a receipt
          slot,       \* the request of each slot whose body is being read, or Idle
          refused,    \* history: keys of the receipts handed out with a 423
          resolved    \* history: keys a manager resolved while they were pending
switchVars == <<armed, receipt, replayed, slot, refused, resolved>>

\* The env variable may arm the switch from the start.
SwitchInit ==
    /\ armed \in BOOLEAN
    /\ receipt = <<>> /\ replayed = FALSE
    /\ slot = [s \in Slots |-> Idle]
    /\ refused = {} /\ resolved = {}

\* A map with the entries of g, and those of f that g has no entry for.
Over(g, f) == [k \in DOMAIN g \cup DOMAIN f |-> IF k \in DOMAIN g THEN g[k] ELSE f[k]]

\* register: a key that has a receipt keeps it, whatever its state.
Register(k) == IF k \in DOMAIN receipt THEN receipt ELSE Over([x \in {k} |-> "pending"], receipt)

\* register and markApplied, what a route does once its effect is done.
RegisterApplied(k) == Over([x \in {k} |-> "applied"], receipt)

\* readBody: a request waits for its body, with what its route will read from it.
ReadBody(s, req) ==
    /\ slot[s] = Idle
    /\ slot' = [slot EXCEPT ![s] = req]
    /\ UNCHANGED <<armed, receipt, replayed, refused, resolved>>

\* guardKillSwitch while armed: 423 with the receipt of the route and correlation id, whose key
\* starts with the name of the route and so is no key of an applied effect.
RefusalKey(route, c) == <<"guard", route, c>>
Refuse(s, route, c) ==
    /\ slot[s] = Idle /\ armed
    /\ receipt' = Register(RefusalKey(route, c))
    /\ refused' = refused \cup {RefusalKey(route, c)}
    /\ UNCHANGED <<armed, replayed, slot, resolved>>

\* A guarded route up to its first await; the client sends correlation id c, or none.
Guarded(s, route, req) ==
    \/ ~armed /\ ReadBody(s, req)
    \/ \E c \in Correlations : Refuse(s, route, c)

\* A request is over; with a key its receipt is applied.
Leave(s) == slot' = [slot EXCEPT ![s] = Idle]
Applied(s, k) ==
    /\ Leave(s) /\ receipt' = RegisterApplied(k)
    /\ UNCHANGED <<armed, replayed, refused, resolved>>
Failed(s) == Leave(s) /\ UNCHANGED <<armed, receipt, replayed, refused, resolved>>

-----------------------------------------------------------------------------
\* Manager routes.

Pending == {k \in DOMAIN receipt : receipt[k] = "pending"}

\* POST /api/admin/killswitch.
SetState(who, next) ==
    /\ who \in Managers
    /\ armed' = next
    /\ UNCHANGED <<receipt, replayed, slot, refused, resolved>>

\* POST /api/admin/recovery/run: a replay is recorded, and a pending receipt stays pending.
RecoveryRun(who) ==
    /\ who \in Managers /\ Pending # {}
    /\ replayed' = TRUE
    /\ UNCHANGED <<armed, receipt, slot, refused, resolved>>

\* POST /api/admin/recovery/resolve, of any receipt.
Resolve(who, k) ==
    /\ who \in Managers /\ k \in DOMAIN receipt
    /\ receipt' = [receipt EXCEPT ![k] = "applied"]
    /\ replayed' = FALSE
    /\ resolved' = resolved \cup ({k} \cap Pending)
    /\ UNCHANGED <<armed, slot, refused>>

\* aggregateRecoveryState.  Nothing calls markFailed, so no receipt is failed, and nothing
\* returns the "recovered" of its comment.
RecoveryState ==
    IF Pending = {} THEN "healthy" ELSE IF armed THEN "recovering" ELSE "degraded"

SwitchNext ==
    \E who \in Managers :
      \/ \E next \in BOOLEAN : SetState(who, next)
      \/ RecoveryRun(who)
      \/ \E k \in DOMAIN receipt : Resolve(who, k)

-----------------------------------------------------------------------------
\* No refused write is forgotten: its receipt is there, and it stays pending, so that the
\* status is not healthy, until a manager resolved it.  (A write refused again under the
\* correlation id of a resolved receipt gets that receipt back.)
RefusedKept ==
    /\ refused \subseteq DOMAIN receipt
    /\ \A k \in refused \ resolved : receipt[k] = "pending" /\ RecoveryState # "healthy"
=============================================================================
