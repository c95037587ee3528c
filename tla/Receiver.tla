------------------------------ MODULE Receiver ------------------------------
(***************************************************************************)
(* The webhook receiver: handler.ts and its checks (scope-verify.ts,       *)
(* connection-registry.ts, hmac-verify.ts, protocol-fixture.ts) in         *)
(* apps/integration-api/src/receiver, and the transaction that makes an    *)
(* event durable, dedupe.ts and commitReceiptWithIntents of                *)
(* packages/integration-store/src/repos/event-receipt.ts.                  *)
(*                                                                         *)
(* Everything up to the transaction runs without an await.  The            *)
(* transaction is READ COMMITTED: it sees what others have committed, and  *)
(* an insert waits for an uncommitted row with the same unique value.      *)
(***************************************************************************)
EXTENDS Naturals, FiniteSets

CONSTANTS Slots,       \* requests handled at the same time
          Requests,    \* what providers send
          Scopes,      \* scopes in the registry: organization, provider, connection
          NoRequest, NoEvent,
          ReceiptId(_, _),   \* newReceiptId: prefixes of organization and event id
          Limit, Window, IdleTTL, MapMax,   \* the rate limit and its map
          MaxTime,           \* bound on the clock
          MaxErrors          \* bound on store errors, lost commits and crashes

\* What the configuration schema lets through, with an idle time of at least one window (the
\* defaults are 5 minutes and 1).
ASSUME ReceiverRate == /\ Limit \in Nat \ {0} /\ MapMax \in Nat \ {0}
                       /\ Window \in Nat \ {0} /\ IdleTTL \in Nat /\ Window <= IdleTTL
ASSUME ReceiverBounds == MaxTime \in Nat \ {0} /\ MaxErrors \in Nat

VARIABLES slot,      \* the request of each slot and how far it is
          receipts,  \* committed ExternalEventReceipt rows, one per receiptId
          intents,   \* committed DispatchIntent rows, by receiptId
          rate,      \* rateMap: scope -> RateState
          now,
          acked, refused409, sibling,  \* history: what was answered 202, 409, 503 "invisible"
          admitted,  \* history: when requests of a scope passed the limit, since the cap or
                     \* a crash last dropped its RateState
          errors

rvars == <<slot, receipts, intents, rate, now, acked, refused409, sibling, admitted, errors>>

-----------------------------------------------------------------------------
NoRate   == [start |-> 0, count |-> 0, last |-> 0]
IdleSlot == [pc |-> "idle", req |-> NoRequest]
Key(q)   == [scope |-> q.scope, event |-> q.event]
Line(q)  == [scope |-> q.scope, event |-> q.event, digest |-> q.digest]

ReceiverInit ==
    /\ slot = [s \in Slots |-> IdleSlot]
    /\ receipts = {} /\ intents = {}
    /\ rate = [c \in Scopes |-> NoRate]
    /\ now = 1
    /\ acked = {} /\ refused409 = {} /\ sibling = {}
    /\ admitted = [c \in Scopes |-> {}]
    /\ errors = 0

-----------------------------------------------------------------------------
\* The checks, in the order of handleRequest.

\* The API server hands over a POST below /webhooks whose body is not too large.
Delivered(q) == q.path /\ q.fits

\* ConnectionRegistry.resolve: the scope in the path is one of the registry.
Routed(q) == Delivered(q) /\ q.scope \in Scopes

\* verifyHmacSignature: the signature is made with the algorithm and the secret of the
\* registry; GENERIC may name the algorithm, and then it must be that one.
Verified(q) == /\ q.signature = "good"
               /\ q.provider = "GENERIC" => q.algorithm \in {"absent", "pinned"}

\* pickStableId and the extract functions: an event type and the first stable id.
Identified(q) == q.type /\ q.event # NoEvent

\* detectBodyScopeSpoof.
Spoofed(q) == q.claims # q.scope

Accepted(q) == Verified(q) /\ Identified(q) /\ ~Spoofed(q)

\* evictIdle, over all keys.
Fresh == [c \in Scopes |-> IF rate[c] # NoRate /\ now - rate[c].last >= IdleTTL THEN NoRate ELSE rate[c]]

Kept(m) == {c \in Scopes : m[c] # NoRate}

\* insertWithCap: a new key beyond the cap drops the key hit longest ago.
Victims(m, c) ==
    IF m[c] = NoRate /\ Cardinality(Kept(m)) >= MapMax
    THEN {{v} : v \in {v \in Kept(m) : \A u \in Kept(m) : m[v].last <= m[u].last}}
    ELSE {{}}

InsertWithCap(c) ==
    \E gone \in Victims(Fresh, c) :
        /\ rate' = [d \in Scopes |->
                      IF d = c THEN [start |-> now, count |-> 1, last |-> now]
                      ELSE IF d \in gone THEN NoRate ELSE Fresh[d]]
        /\ admitted' = [d \in Scopes |->
                          CASE d = c -> admitted[d] \cup {<<now, Cardinality(admitted[d])>>}
                            [] d \in gone -> {}
                            [] OTHER -> admitted[d]]

Count(c) == /\ rate' = [Fresh EXCEPT ![c] = [start |-> @.start, count |-> @.count + 1, last |-> now]]
            /\ admitted' = [admitted EXCEPT ![c] = @ \cup {<<now, Cardinality(@)>>}]

\* checkRateLimit: a window starts with the first request after the last one is over.
CheckRateLimit(c, allowed) ==
    IF Fresh[c] = NoRate \/ now - Fresh[c].start >= Window
    THEN allowed /\ InsertWithCap(c)
    ELSE IF Fresh[c].count >= Limit
         THEN ~allowed /\ rate' = Fresh /\ UNCHANGED admitted
         ELSE allowed /\ Count(c)

\* handleRequest up to the commit: a refusal before the limit changes nothing, one after
\* it has used a place in the window.
Post(s, q) ==
    /\ slot[s] = IdleSlot /\ Routed(q)
    /\ \E allowed \in BOOLEAN :
        /\ CheckRateLimit(q.scope, allowed)
        /\ slot' = IF allowed /\ Accepted(q)
                   THEN [slot EXCEPT ![s] = [pc |-> "select", req |-> q]]
                   ELSE slot
    /\ UNCHANGED <<receipts, intents, now, acked, refused409, sibling, errors>>

-----------------------------------------------------------------------------
\* The transaction.

Row(q) == [id |-> ReceiptId(q.scope, q.event), line |-> Line(q)]
Found(q) == {r \in receipts : r.line.scope = q.scope /\ r.line.event = q.event}

Answer202(s) == /\ acked' = acked \cup {Line(slot[s].req)}
                /\ slot' = [slot EXCEPT ![s] = IdleSlot]
                /\ UNCHANGED <<refused409, sibling>>
Answer409(s) == /\ refused409' = refused409 \cup {Line(slot[s].req)}
                /\ slot' = [slot EXCEPT ![s] = IdleSlot]
                /\ UNCHANGED <<acked, sibling>>
Answer503(s) == /\ slot' = [slot EXCEPT ![s] = IdleSlot]
                /\ UNCHANGED <<acked, refused409, sibling>>

\* The event is known: the same payload is answered with its row, another with 409.
Replay(s) ==
    \E r \in Found(slot[s].req) :
        IF r.line.digest = slot[s].req.digest THEN Answer202(s) ELSE Answer409(s)

\* findUnique by scope and event id.
Select(s) ==
    /\ slot[s].pc = "select"
    /\ \/ Replay(s)
       \/ /\ Found(slot[s].req) = {}
          /\ slot' = [slot EXCEPT ![s].pc = "insert"]
          /\ UNCHANGED <<acked, refused409, sibling>>
    /\ UNCHANGED <<receipts, intents, rate, now, admitted, errors>>

\* Rows that clash with the one of q in the primary key or in uq_receipt_event_id.
Clash(q, r) == r.id = Row(q).id \/ (r.line.scope = q.scope /\ r.line.event = q.event)

\* Mutant: an insert also waits for one that is about to be made.
BlockedEarly(s) ==
    \E t \in Slots \ {s} : slot[t].pc \in {"insert", "open"} /\ Clash(slot[s].req, Row(slot[t].req))

\* Another transaction has inserted such a row and has not ended.
Blocked(s) == \E t \in Slots \ {s} : slot[t].pc = "open" /\ Clash(slot[s].req, Row(slot[t].req))

\* Mutant: an insert that did nothing is taken for the own one.
InsertWins(s) ==
    /\ slot[s].pc = "insert" /\ ~Blocked(s)
    /\ IF \E r \in receipts : Clash(slot[s].req, r)
       THEN Answer202(s)
       ELSE /\ slot' = [slot EXCEPT ![s].pc = "open"]
            /\ UNCHANGED <<acked, refused409, sibling>>
    /\ UNCHANGED <<receipts, intents, rate, now, admitted, errors>>

\* INSERT ... ON CONFLICT DO NOTHING, without a constraint: any clash makes it a no-op.
\* The loser reads again by scope; when the clash was on receiptId it finds nothing and
\* the transaction fails.
Insert(s) ==
    /\ slot[s].pc = "insert" /\ ~Blocked(s)
    /\ IF \E r \in receipts : Clash(slot[s].req, r)
       THEN \/ Replay(s)
            \/ /\ Found(slot[s].req) = {}
               /\ sibling' = sibling \cup {Line(slot[s].req)}
               /\ slot' = [slot EXCEPT ![s] = IdleSlot]
               /\ UNCHANGED <<acked, refused409>>
       ELSE /\ slot' = [slot EXCEPT ![s].pc = "open"]
            /\ UNCHANGED <<acked, refused409, sibling>>
    /\ UNCHANGED <<receipts, intents, rate, now, admitted, errors>>

Durable(s) == /\ receipts' = receipts \cup {Row(slot[s].req)}
              /\ intents' = intents \cup {[receipt |-> Row(slot[s].req).id, for |-> Key(slot[s].req)]}

\* The intent is created and the transaction committed; only then the answer is sent.
Commit(s) ==
    /\ slot[s].pc = "open" /\ Durable(s) /\ Answer202(s)
    /\ UNCHANGED <<rate, now, admitted, errors>>

Failing == errors < MaxErrors /\ errors' = errors + 1

\* The store fails or an intent id is taken: rolled back, commit_failure.
StoreError(s) ==
    /\ slot[s].pc # "idle" /\ Failing /\ Answer503(s)
    /\ UNCHANGED <<receipts, intents, rate, now, admitted>>

\* The connection breaks after the commit: 503 for what is durable.
CommitLost(s) ==
    /\ slot[s].pc = "open" /\ Failing /\ Durable(s) /\ Answer503(s)
    /\ UNCHANGED <<rate, now, admitted>>

\* The process ends; rateMap and the open transactions are gone.
Crash ==
    /\ Failing
    /\ slot' = [s \in Slots |-> IdleSlot]
    /\ rate' = [c \in Scopes |-> NoRate]
    /\ admitted' = [c \in Scopes |-> {}]
    /\ UNCHANGED <<receipts, intents, now, acked, refused409, sibling>>

Tick == /\ now < MaxTime /\ now' = now + 1
        /\ UNCHANGED <<slot, receipts, intents, rate, acked, refused409, sibling, admitted, errors>>

Handle(s) == Select(s) \/ Insert(s) \/ Commit(s)

ReceiverNext ==
    \/ \E s \in Slots : \/ Handle(s) \/ StoreError(s) \/ CommitLost(s)
                        \/ \E q \in Requests : Post(s, q)
    \/ Crash \/ Tick

ReceiverSpec == ReceiverInit /\ [][ReceiverNext]_rvars

-----------------------------------------------------------------------------
\* Values the variables may take.
ReceiverTypeOK ==
    /\ \A s \in Slots : /\ slot[s].pc \in {"idle", "select", "insert", "open"}
                        /\ slot[s].req \in Requests \cup {NoRequest}
    /\ \A r, t \in receipts : r.id = t.id => r = t
    /\ now \in 1 .. MaxTime /\ errors \in 0 .. MaxErrors
    /\ Cardinality(Kept(rate)) <= MapMax

\* "202 only after commit" (handler.ts:229): whatever was acknowledged is there with its
\* own digest and with exactly one intent, across overlapping deliveries and crashes.
AckDurable ==
    \A a \in acked : \E r \in receipts :
        /\ r.line = a
        /\ {i \in intents : i.receipt = r.id} = {[receipt |-> r.id, for |-> [scope |-> a.scope, event |-> a.event]]}

\* 409 is final for the provider ("retryable: false"): it is only given when the event is
\* durable with another payload, never to the loser of a race with the same payload.
ConflictReal ==
    \A a \in refused409 : \E r \in receipts :
        r.line.scope = a.scope /\ r.line.event = a.event /\ r.line.digest # a.digest

\* Since the cap or a crash last dropped its entry, no scope gets more than two windows'
\* worth of requests into any span of one window: evicting the idle resets no busy one.
RateKept ==
    \A c \in Scopes : \A from \in 1 .. MaxTime :
        Cardinality({a \in admitted[c] : a[1] \in from .. from + Window - 1}) <= 2 * Limit

\* The receiver acknowledges what it keeps, refuses what it must, and admits no more than the
\* limit lets through.
ReceiverInv == ReceiverTypeOK /\ AckDurable /\ ConflictReal /\ RateKept

\* Every accepted request gets its answer: inserts that wait for each other's rows do not
\* wait in a circle.
Answered == \A s \in Slots : (slot[s].pc # "idle") ~> (slot[s].pc = "idle")

\* "We name the constraint explicitly so we never collide on a sibling unique index"
\* (event-receipt.ts:212).
NeverSibling == sibling = {}
=============================================================================
