------------------------------ MODULE MCInbound ------------------------------
(* Model values for TLC.  Receiver: two connections of one organization; c1 gets one event *)
(* with two payloads, c2 an event of the same id, and the rest is refused on the way.      *)
(* Pipeline: an event of every kind that matters, with two overlapping executions.         *)
(* Links: two upserts of contacts, and of one conversation.  DeadLetters: three receipts.  *)
EXTENDS Receiver, Pipeline, Links, DeadLetters
CONSTANTS s1, s2, s3, c1, c2, e1, d1, d2, x1, x2, u1, u2, k1, k2, a1, a2
MCSlots  == {s1, s2, s3}
MCScopes == {c1, c2}
Good(c, d) == [path |-> TRUE, fits |-> TRUE, scope |-> c, provider |-> "GENERIC",
               signature |-> "good", algorithm |-> "absent", type |-> TRUE,
               event |-> e1, claims |-> c, digest |-> d]
MCRequests == {Good(c1, d1), Good(c1, d2), Good(c2, d1),
               [Good(c1, d1) EXCEPT !.algorithm = "other"],
               [Good(c1, d1) EXCEPT !.signature = "bad"],
               [Good(c1, d1) EXCEPT !.event = NoEvent],
               [Good(c1, d1) EXCEPT !.claims = c2],
               [Good(c1, d1) EXCEPT !.fits = FALSE]}
MCReceiptId(c, e) == e      \* one organization

MCExecutions == {x1, x2}
MCScenarios  == {"SUCCESS", "TIMEOUT_AFTER_APPLY", "VALIDATION_FAILURE"}
MCBodies == [type : {"message_created", "conversation_created", "conversation_resolved",
                     "conversation_participant_added", "participant_added"},
             note : {"none", "note", "flag"}, sender : {"contact", "agent", "absent"},
             claim : {"none", "branch"}, branch : {"client"}, revision : {0, 1},
             match : {"EXACT_MATCH", "POSSIBLE_MATCH"}]
ABody == [type |-> "message_created", note |-> "none", sender |-> "contact", claim |-> "none",
          branch |-> "client", revision |-> 0, match |-> "EXACT_MATCH"]

MCUpserts    == {u1, u2}
MCContacts   == {k1, NoContact}
MCLetters    == 1..3
MCRedrivers  == {a1, a2}
MCReferenced == {1, 3}

\* Each behaviour explores one part: the rate limit over time, the transactions, what
\* becomes of one event, the links of contacts, those of a conversation, redrives,
\* or a listing of the dead letters.
VARIABLE focus
MCInit ==
    /\ ReceiverInit /\ PipelineInit /\ LinksInit /\ LettersInit
    /\ focus \in {"rate", "commit", "pipeline", "contacts", "conversations", "redrives", "pages"}
    /\ focus \notin {"contacts", "conversations"} => ~overlap
    /\ focus # "redrives" => ~overtake
    /\ focus # "pipeline" => body = ABody /\ side = "mock" /\ scenario = "SUCCESS"
                             /\ observed = 0 /\ owner = x1
MCNext ==
    /\ UNCHANGED focus
    /\ \/ focus = "rate" /\ ReceiverNext /\ slot' = slot /\ UNCHANGED <<pvars, linkVars, dvars>>
       \/ focus = "commit" /\ ReceiverNext /\ now' = now /\ UNCHANGED <<pvars, linkVars, dvars>>
       \/ focus = "pipeline" /\ PipelineNext /\ UNCHANGED <<rvars, linkVars, dvars>>
       \/ focus = "contacts" /\ ContactNext /\ UNCHANGED <<rvars, pvars, dvars>>
       \/ focus = "conversations" /\ ConversationNext /\ UNCHANGED <<rvars, pvars, dvars>>
       \/ focus = "redrives" /\ LettersNext /\ UNCHANGED <<rvars, pvars, linkVars, reader>>
       \/ focus = "pages" /\ LettersNext /\ UNCHANGED <<rvars, pvars, linkVars, guard>>
MCSpec == /\ MCInit /\ [][MCNext]_<<rvars, pvars, linkVars, dvars, focus>>
          /\ \A s \in Slots : WF_rvars(Handle(s))
=============================================================================
