------------------------------- MODULE Links --------------------------------
(***************************************************************************)
(* The link tables of the store: contact-link.ts and conversation-link.ts  *)
(* in packages/integration-store/src/repos, with their conversions         *)
(* (adapters.ts).  An upsert is a SELECT and then an INSERT or an UPDATE   *)
(* by primary key, in one READ COMMITTED transaction: it decides on the    *)
(* row it has read and not on the one it writes.                           *)
(***************************************************************************)
EXTENDS Naturals, Sequences

CONSTANTS Upserts,      \* transactions in progress
          Contacts,     \* external contact ids, and NoContact for a link without one
          NoContact, NoUpsert,
          Versions,     \* aggregate versions and revisions that callers send
          MaxRows,      \* bound on the rows of a table
          MaxHistory,   \* MAX_HISTORY of conversation-link.ts
          MaxNotes      \* bound on the history entries sent

ASSUME LinkBounds ==
    Versions \subseteq Nat /\ {MaxRows, MaxNotes} \subseteq Nat /\ MaxHistory \in Nat \ {0}

VARIABLES overlap,   \* whether transactions overlap in this behaviour
          contacts,  \* rows of ExternalContactLink, by linkId
          convs,     \* rows of ExternalConversationLink of one conversation, by linkId
          upsert,    \* transactions: what they write and the row they have read
          linked,    \* history: contact and version of every upsert answered without an error
          noted      \* history: revisions and history entries of those of the conversation
linkVars == <<overlap, contacts, convs, upsert, linked, noted>>

LinksInit ==
    /\ overlap \in BOOLEAN
    /\ contacts = <<>> /\ convs = <<>>
    /\ upsert = [t \in Upserts |-> NoUpsert]
    /\ linked = {} /\ noted = [revisions |-> {}, entries |-> <<>>, sent |-> 0]

Begin(t, op, input, found) ==
    /\ upsert[t] = NoUpsert
    /\ overlap \/ \A u \in Upserts : upsert[u] = NoUpsert
    /\ upsert' = [upsert EXCEPT ![t] = [op |-> op, input |-> input, found |-> found]]
    /\ UNCHANGED <<overlap, contacts, convs, linked>>
End(t) == upsert' = [upsert EXCEPT ![t] = NoUpsert] /\ UNCHANGED overlap

-----------------------------------------------------------------------------
\* Contact links.  Of a match the columns say whether a target and a candidate are there.

\* contactLinkContractToWrite refuses the other combinations.
Writable(p) ==
    CASE p.state = "EXACT_MATCH" -> p.target
      [] p.state = "POSSIBLE_MATCH" -> p.candidate /\ ~p.target
      [] p.state = "UNRESOLVED" -> ~p.candidate /\ ~p.target
ContactInputs ==
    {p \in [contact : Contacts, state : {"EXACT_MATCH", "POSSIBLE_MATCH", "UNRESOLVED"},
            target : BOOLEAN, candidate : BOOLEAN, version : Versions] : Writable(p)}

\* contactLinkRowToContract throws on what it cannot express.
Readable(row) ==
    (row.state = "EXACT_MATCH" => row.target) /\ (row.state = "POSSIBLE_MATCH" => row.candidate)

\* findUnique looks for the contact id, or for '' when there is none: a NULL is not found.
RowOf(c) == {i \in DOMAIN contacts : contacts[i].contact = c /\ c # NoContact}

SelectContact(t, p) ==
    /\ Begin(t, "contact", p, [i \in RowOf(p.contact) |-> contacts[i].version])
    /\ UNCHANGED noted

\* Mutant: only an equal version is told apart.
AnyVersionWins(new, old) == IF new = old THEN "SAME" ELSE "UPDATE"

\* Lower versions are conflicts; the same one is answered with the row, whatever it says.
VersionAnswer(new, old) ==
    IF new < old THEN "VERSION_CONFLICT" ELSE IF new = old THEN "SAME" ELSE "UPDATE"

\* The answer comes from the row that was read; without one an INSERT, which the unique
\* constraint refuses for a contact id that has a row by now.
UpdateContact(t) ==
    LET u == upsert[t] IN
    /\ u # NoUpsert /\ u.op = "contact"
    /\ \E i \in DOMAIN u.found :
         LET answer == VersionAnswer(u.input.version, u.found[i]) IN
         /\ contacts' = IF answer = "UPDATE" THEN [contacts EXCEPT ![i] = u.input] ELSE contacts
         /\ linked' = IF answer = "VERSION_CONFLICT" THEN linked
                      ELSE linked \cup {[contact |-> u.input.contact, version |-> u.input.version]}
    /\ End(t) /\ UNCHANGED <<convs, noted>>

InsertContact(t) ==
    LET u == upsert[t] IN
    /\ u # NoUpsert /\ u.op = "contact" /\ DOMAIN u.found = {}
    /\ IF RowOf(u.input.contact) # {}
       THEN UNCHANGED <<contacts, linked>>
       ELSE /\ Len(contacts) < MaxRows
            /\ contacts' = Append(contacts, u.input)
            /\ linked' = linked \cup {[contact |-> u.input.contact, version |-> u.input.version]}
    /\ End(t) /\ UNCHANGED <<convs, noted>>

ContactNext ==
    \E t \in Upserts :
      \/ \E p \in ContactInputs : SelectContact(t, p)
      \/ UpdateContact(t) \/ InsertContact(t)

-----------------------------------------------------------------------------
\* Conversation links.  An upsert may bring an entry for the history; entries are numbered.

\* findFirst, the highest revision first; nothing orders rows of the same revision.
Latest == {i \in DOMAIN convs : \A j \in DOMAIN convs : convs[j].revision <= convs[i].revision}

SelectConversation(t, revision, entry) ==
    /\ entry => noted.sent < MaxNotes
    /\ LET number == IF entry THEN noted.sent + 1 ELSE 0
           input  == [revision |-> revision, entry |-> number] IN
       IF convs = <<>> THEN Begin(t, "conversation", input, <<>>)
       ELSE \E i \in Latest : Begin(t, "conversation", input, [j \in {i} |-> convs[j]])
    /\ noted' = [noted EXCEPT !.sent = IF entry THEN noted.sent + 1 ELSE noted.sent]

Longer(history, entry) == IF entry = 0 THEN history ELSE Append(history, entry)
Acknowledge(input) ==
    noted' = [noted EXCEPT !.revisions = noted.revisions \cup {input.revision},
                           !.entries = Longer(noted.entries, input.entry)]

\* An equal revision is written again; a history that is full refuses every further entry.
UpdateConversation(t) ==
    LET u == upsert[t] IN
    /\ u # NoUpsert /\ u.op = "conversation"
    /\ \E i \in DOMAIN u.found :
         LET history == Longer(u.found[i].history, u.input.entry) IN
         IF u.input.revision < u.found[i].revision \/ Len(history) > MaxHistory
         THEN UNCHANGED <<convs, noted>>
         ELSE /\ convs' = [convs EXCEPT ![i] = [revision |-> u.input.revision,
                                                history |-> history]]
              /\ Acknowledge(u.input)
    /\ End(t) /\ UNCHANGED <<contacts, linked>>

InsertConversation(t) ==
    LET u == upsert[t] IN
    /\ u # NoUpsert /\ u.op = "conversation" /\ DOMAIN u.found = {}
    /\ Len(convs) < MaxRows
    /\ convs' = Append(convs, [revision |-> u.input.revision,
                               history |-> Longer(<<>>, u.input.entry)])
    /\ Acknowledge(u.input)
    /\ End(t) /\ UNCHANGED <<contacts, linked>>

ConversationNext ==
    \E t \in Upserts :
      \/ \E revision \in Versions, entry \in BOOLEAN : SelectConversation(t, revision, entry)
      \/ UpdateConversation(t) \/ InsertConversation(t)

LinksSpec == LinksInit /\ [][ContactNext \/ ConversationNext]_linkVars

-----------------------------------------------------------------------------
\* Whatever overlaps, a contact id has one row, every row can be read back, and no history
\* outgrows its bound.  As long as transactions do not overlap, versions and revisions only
\* grow, so that a row is at least as new as every upsert that was answered; a conversation
\* has one row, and its history is the entries that were answered, in their order.
LinksInv ==
    /\ \A i, j \in DOMAIN contacts :
          contacts[i].contact = contacts[j].contact /\ contacts[i].contact # NoContact => i = j
    /\ \A i \in DOMAIN contacts : Readable(contacts[i])
    /\ \A i \in DOMAIN convs : Len(convs[i].history) <= MaxHistory
    /\ ~overlap =>
         /\ \A a \in linked : \E i \in DOMAIN contacts :
               contacts[i].contact = a.contact /\ contacts[i].version >= a.version
         /\ Len(convs) <= 1
         /\ \A i \in DOMAIN convs : /\ \A v \in noted.revisions : v <= convs[i].revision
                                    /\ convs[i].history = noted.entries
=============================================================================
