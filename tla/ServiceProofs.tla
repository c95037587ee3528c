---------------------------- MODULE ServiceProofs ---------------------------
(***************************************************************************)
(* What the review queue promises its reviewers, the link tables their     *)
(* callers, and the dead-letter queue its operators: for any entries,      *)
(* reviewers, transactions and receipts.                                   *)
(***************************************************************************)
EXTENDS Review, Links, DeadLetters, SequenceTheorems, FiniteSetTheorems, TLAPS

-----------------------------------------------------------------------------
(* Review queue.                                                           *)

EntryRec == [status : {"OPEN", "DECIDED"}, version : Nat, links : SUBSET Nat,
             digest : DraftDigests, target : Canonicals \cup {"none"}, kind : Kinds \cup {"none"}]
Detail == [entry : Entries, version : Nat, links : SUBSET Nat]
Ground == [by : Reviewers, kind : Kinds, saw : SUBSET Nat, links : SUBSET Nat]

ReviewTypes ==
    /\ entry \in [Entries -> EntryRec \cup {Missing}]
    /\ view \in [Reviewers -> Detail \cup {Missing}]
    /\ reply = [r \in Reviewers |-> reply[r]]
    /\ basis \in [Entries -> Ground \cup {Missing}]

\* What a reviewer has on its screen is an entry of its organization as it once was: its
\* version is no greater than the entry's, and with the same version it has the same links.
Screens ==
    \A r \in Reviewers : view[r] # Missing =>
      LET v == view[r]  e == entry[v.entry] IN
      /\ e # Missing /\ OrgOf[r] = OrgOf[v.entry]
      /\ v.version <= e.version
      /\ v.version = e.version => v.links = e.links

Queue == ReviewTypes /\ Screens /\ ReviewInv

LEMMA NotMissing ==
    /\ \A x \in EntryRec : x # Missing /\ x.status # "missing"
    /\ \A x \in Detail : x # Missing
    /\ \A x \in Ground : x # Missing
    /\ Missing.status = "missing"
  BY DEF EntryRec, Detail, Ground, Missing

\* The audit log grows with every change of an entry.
LEMMA Decided ==
    ASSUME NEW rec \in EntryRec, NEW kind \in Kinds
    PROVE  /\ ApplyDecision(rec, kind) \in EntryRec
           /\ ApplyDecision(rec, kind).status = "DECIDED"
           /\ ApplyDecision(rec, kind).kind = kind
           /\ ApplyDecision(rec, kind).links = rec.links
           /\ ApplyDecision(rec, kind).version = rec.version + 1
  <1> DEFINE n == rec.version + 1
  <1>1. ApplyDecision(rec, kind) = [rec EXCEPT !.status = "DECIDED", !.kind = kind, !.version = n]
    BY DEF ApplyDecision
  <1>2. n \in Nat BY DEF EntryRec
  <1> HIDE DEF n
  <1>3. [rec EXCEPT !.status = "DECIDED", !.kind = kind, !.version = n] \in EntryRec
    BY <1>2 DEF EntryRec
  <1>4. ApplyDecision(rec, kind).status = "DECIDED" BY <1>1 DEF EntryRec
  <1>5. ApplyDecision(rec, kind).kind = kind BY <1>1 DEF EntryRec
  <1>6. ApplyDecision(rec, kind).links = rec.links BY <1>1 DEF EntryRec
  <1>7. ApplyDecision(rec, kind).version = n BY <1>1 DEF EntryRec
  <1> QED BY <1>1, <1>3, <1>4, <1>5, <1>6, <1>7 DEF n

\* What a link and an unlink make of an entry.
Relink(rec, links) == [rec EXCEPT !.links = links, !.version = rec.version + 1]

LEMMA Linked ==
    ASSUME NEW rec \in EntryRec, NEW links \in SUBSET Nat
    PROVE  /\ Relink(rec, links) \in EntryRec
           /\ Relink(rec, links).status = rec.status /\ Relink(rec, links).kind = rec.kind
           /\ Relink(rec, links).links = links
           /\ Relink(rec, links).version = rec.version + 1
  <1> DEFINE n == rec.version + 1
             new == Relink(rec, links)
  <1>1. n \in Nat BY DEF EntryRec
  <1>2. new = [rec EXCEPT !.links = links, !.version = n] BY DEF Relink
  <1> HIDE DEF n, new
  <1>3. new \in EntryRec BY <1>1, <1>2 DEF EntryRec
  <1>4. new.status = rec.status BY <1>2 DEF EntryRec
  <1>5. new.kind = rec.kind BY <1>2 DEF EntryRec
  <1>6. new.links = links BY <1>2 DEF EntryRec
  <1>7. new.version = n BY <1>2 DEF EntryRec
  <1> QED BY <1>3, <1>4, <1>5, <1>6, <1>7 DEF n, new

LEMMA Added ==
    ASSUME NEW rec \in EntryRec
    PROVE  /\ AddLink(rec) \in EntryRec
           /\ AddLink(rec).status = rec.status
           /\ AddLink(rec).kind = rec.kind
           /\ AddLink(rec).version = rec.version + 1
  <1> DEFINE links == rec.links \cup {rec.version}
  <1>1. links \in SUBSET Nat BY DEF EntryRec
  <1>2. AddLink(rec) = Relink(rec, links) BY DEF AddLink, Relink
  <1> HIDE DEF links
  <1> QED BY <1>1, <1>2, Linked

LEMMA Removed ==
    ASSUME NEW rec \in EntryRec, NEW l
    PROVE  /\ RemoveLink(rec, l) \in EntryRec
           /\ RemoveLink(rec, l).status = rec.status
           /\ RemoveLink(rec, l).kind = rec.kind
           /\ RemoveLink(rec, l).links \subseteq rec.links
           /\ RemoveLink(rec, l).version = rec.version + 1
  <1> DEFINE links == rec.links \ {l}
  <1>1. links \in SUBSET Nat /\ links \subseteq rec.links BY DEF EntryRec
  <1>2. RemoveLink(rec, l) = Relink(rec, links) BY DEF RemoveLink, Relink
  <1> HIDE DEF links
  <1>3. /\ Relink(rec, links) \in EntryRec
        /\ Relink(rec, links).status = rec.status /\ Relink(rec, links).kind = rec.kind
        /\ Relink(rec, links).links = links
        /\ Relink(rec, links).version = rec.version + 1
    BY <1>1, Linked
  <1> QED BY <1>1, <1>2, <1>3

\* An entry that gets a greater version leaves every screen true of what it was.
LEMMA Later ==
    ASSUME Queue, NEW e \in Entries, NEW rec \in EntryRec,
           entry' = [entry EXCEPT ![e] = rec], view' = view,
           entry[e] # Missing => rec.version > entry[e].version
    PROVE  /\ entry' \in [Entries -> EntryRec \cup {Missing}]
           /\ Screens'
  <1>1. /\ entry' \in [Entries -> EntryRec \cup {Missing}]
        /\ entry'[e] = rec /\ \A f \in Entries \ {e} : entry'[f] = entry[f]
    BY DEF Queue, ReviewTypes
  <1>2. ASSUME NEW r \in Reviewers, view[r] # Missing
        PROVE  LET v == view[r]  f == entry'[v.entry] IN
               /\ f # Missing /\ OrgOf[r] = OrgOf[v.entry]
               /\ v.version <= f.version
               /\ v.version = f.version => v.links = f.links
    <2>1. PICK v \in Detail : v = view[r]
      BY <1>2 DEF Queue, ReviewTypes
    <2>2. /\ entry[v.entry] # Missing /\ OrgOf[r] = OrgOf[v.entry]
          /\ v.version <= entry[v.entry].version
          /\ v.version = entry[v.entry].version => v.links = entry[v.entry].links
      BY <1>2, <2>1 DEF Queue, Screens
    <2>3. v.entry \in Entries /\ v.version \in Nat BY DEF Detail
    <2>4. CASE v.entry = e
      <3>1. entry[e] \in EntryRec BY <2>2, <2>4 DEF Queue, ReviewTypes
      <3>2. entry[e].version \in Nat /\ rec.version \in Nat BY <3>1 DEF EntryRec
      <3>3. v.version < rec.version BY <2>2, <2>3, <2>4, <3>2
      <3> QED BY <1>1, <2>1, <2>2, <2>3, <2>4, <3>2, <3>3, NotMissing
    <2>5. CASE v.entry # e
      BY <1>1, <2>1, <2>2, <2>3, <2>5
    <2> QED BY <2>4, <2>5
  <1>3. Screens' BY <1>2 DEF Screens
  <1> QED BY <1>1, <1>3

LEMMA InitQueue == ReviewInit => Queue
  <1> SUFFICES ASSUME ReviewInit PROVE Queue
    OBVIOUS
  <1>1. ReviewTypes BY DEF ReviewInit, ReviewTypes
  <1>2. Screens BY DEF ReviewInit, Screens
  <1>3. ReviewInv BY NotMissing DEF ReviewInit, ReviewInv
  <1> QED BY <1>1, <1>2, <1>3 DEF Queue

LEMMA Created ==
    ASSUME Queue, NEW e \in Entries, NEW d \in DraftDigests, NEW t \in Canonicals \cup {"none"},
           CreateFromIntake(e, d, t)
    PROVE  Queue'
  <1> DEFINE rec == NewEntry(d, t)
  <1>1. /\ rec \in EntryRec /\ rec.status = "OPEN" BY DEF NewEntry, EntryRec
  <1> HIDE DEF rec
  <1>2. /\ entry[e] = Missing /\ entry' = [entry EXCEPT ![e] = rec]
        /\ view' = view /\ reply' = reply /\ basis' = basis
    BY DEF CreateFromIntake, rec
  <1>3. entry' \in [Entries -> EntryRec \cup {Missing}] /\ Screens'
    BY <1>1, <1>2, Later
  <1>4. ReviewTypes' BY <1>2, <1>3 DEF Queue, ReviewTypes
  <1>5. ReviewInv'
    <2>1. entry'[e] = rec /\ \A f \in Entries \ {e} : entry'[f] = entry[f]
      BY <1>2 DEF Queue, ReviewTypes
    <2>2. basis[e] = Missing BY <1>2, NotMissing DEF Queue, ReviewInv
    <2> QED BY <1>1, <1>2, <2>1, <2>2 DEF Queue, ReviewInv
  <1> QED BY <1>3, <1>4, <1>5 DEF Queue

LEMMA Shown ==
    ASSUME Queue, NEW r \in Reviewers, NEW e \in Entries, HandleDetail(r, e)
    PROVE  Queue'
  <1>1. /\ entry' = entry /\ basis' = basis
        /\ reply' = [reply EXCEPT ![r] = Found(r, e)]
    BY DEF HandleDetail
  <1>2. CASE Found(r, e) # "OK"
    <2>1. view' = view BY <1>2 DEF HandleDetail
    <2> QED BY <1>1, <2>1 DEF Queue, ReviewTypes, Screens, ReviewInv
  <1>3. CASE Found(r, e) = "OK"
    <2> DEFINE v == [entry |-> e, version |-> entry[e].version, links |-> entry[e].links]
    <2>1. entry[e] \in EntryRec /\ OrgOf[r] = OrgOf[e]
      BY <1>3 DEF Found, Queue, ReviewTypes
    <2>2. /\ v \in Detail /\ v.entry = e /\ v.version = entry[e].version
          /\ v.links = entry[e].links /\ v.version \in Nat
      BY <2>1 DEF Detail, EntryRec
    <2>3. view' = [view EXCEPT ![r] = v] BY <1>3 DEF HandleDetail
    <2> HIDE DEF v
    <2>4. ReviewTypes' BY <1>1, <2>2, <2>3 DEF Queue, ReviewTypes
    <2>5. Screens'
      BY <1>1, <2>1, <2>2, <2>3, NotMissing DEF Queue, ReviewTypes, Screens
    <2> QED BY <1>1, <2>4, <2>5 DEF Queue, ReviewInv
  <1> QED BY <1>2, <1>3

LEMMA DecisionMade ==
    ASSUME Queue, NEW r \in Reviewers, NEW kind, HandleDecide(r, kind)
    PROVE  Queue'
  <1> DEFINE e == view[r].entry
             answer == SubmitDecision(r, e, kind, view[r].version)
  <1>1. /\ view[r] # Missing /\ view' = view
        /\ reply' = [reply EXCEPT ![r] = answer]
    BY DEF HandleDecide
  <1>2. CASE answer # "OK"
    <2>1. entry' = entry /\ basis' = basis BY <1>2 DEF HandleDecide
    <2> QED BY <1>1, <2>1 DEF Queue, ReviewTypes, Screens, ReviewInv
  <1>3. CASE answer = "OK"
    <2> DEFINE rec == ApplyDecision(entry[e], kind)
               why == [by |-> r, kind |-> kind, saw |-> view[r].links, links |-> entry[e].links]
    <2>1. view[r] \in Detail BY <1>1 DEF Queue, ReviewTypes
    <2>2. e \in Entries /\ view[r].links \in SUBSET Nat BY <2>1 DEF Detail
    <2>3. /\ Found(r, e) = "OK" /\ CanDecide(entry[e]) /\ kind \in Kinds
          /\ entry[e].version = view[r].version
      BY <1>3 DEF SubmitDecision
    <2>4. entry[e] # Missing /\ OrgOf[r] = OrgOf[e] BY <2>3 DEF Found
    <2>5. entry[e] \in EntryRec BY <2>2, <2>4 DEF Queue, ReviewTypes
    <2>6. entry[e].links \in SUBSET Nat /\ entry[e].version \in Nat BY <2>5 DEF EntryRec
    <2>7. view[r].links = entry[e].links BY <1>1, <2>3 DEF Queue, Screens
    <2>8. /\ entry' = [entry EXCEPT ![e] = rec] /\ basis' = [basis EXCEPT ![e] = why]
      BY <1>3 DEF HandleDecide
    <2>9. /\ rec \in EntryRec /\ rec.status = "DECIDED" /\ rec.kind = kind
          /\ rec.links = entry[e].links /\ rec.version = entry[e].version + 1
      BY <2>3, <2>5, Decided
    <2>10. /\ why \in Ground /\ why.by = r /\ why.kind = kind /\ why.saw = view[r].links
           /\ why.links = entry[e].links
      BY <2>2, <2>3, <2>6 DEF Ground
    <2> HIDE DEF rec, why, e
    <2>11. rec.version > entry[e].version BY <2>6, <2>9
    <2>12. entry' \in [Entries -> EntryRec \cup {Missing}] /\ Screens'
      BY <1>1, <2>2, <2>8, <2>9, <2>11, Later
    <2>13. ReviewTypes' BY <1>1, <2>8, <2>10, <2>12 DEF Queue, ReviewTypes
    <2>14. ReviewInv'
      <3>1. /\ entry'[e] = rec /\ \A f \in Entries \ {e} : entry'[f] = entry[f]
            /\ basis'[e] = why /\ \A f \in Entries \ {e} : basis'[f] = basis[f]
        BY <2>2, <2>8 DEF Queue, ReviewTypes
      <3>2. why # Missing BY <2>10, NotMissing
      <3> QED BY <2>4, <2>7, <2>9, <2>10, <3>1, <3>2 DEF Queue, ReviewInv
    <2> QED BY <2>12, <2>13, <2>14 DEF Queue
  <1> QED BY <1>2, <1>3

\* A link and an unlink leave the decision alone, and after it only an unlink is possible.
LEMMA Relinked ==
    ASSUME Queue, NEW r \in Reviewers, NEW e \in Entries, NEW rec \in EntryRec, NEW answer,
           entry[e] \in EntryRec, entry' = [entry EXCEPT ![e] = rec],
           rec.status = entry[e].status, rec.kind = entry[e].kind,
           rec.version = entry[e].version + 1,
           entry[e].status = "OPEN" \/ rec.links \subseteq entry[e].links,
           reply' = [reply EXCEPT ![r] = answer], view' = view, basis' = basis
    PROVE  Queue'
  <1>1. rec.version > entry[e].version
    <2>1. entry[e].version \in Nat BY DEF EntryRec
    <2> QED BY <2>1
  <1>2. entry' \in [Entries -> EntryRec \cup {Missing}] /\ Screens' BY <1>1, Later
  <1>3. ReviewTypes' BY <1>2 DEF Queue, ReviewTypes
  <1>4. ReviewInv'
    <2>1. entry'[e] = rec /\ \A f \in Entries \ {e} : entry'[f] = entry[f]
      BY DEF Queue, ReviewTypes
    <2> QED BY <2>1 DEF Queue, ReviewInv
  <1> QED BY <1>2, <1>3, <1>4 DEF Queue

LEMMA LinkMade ==
    ASSUME Queue, NEW r \in Reviewers, NEW e \in Entries, HandleLink(r, e)
    PROVE  Queue'
  <1>1. /\ view' = view /\ basis' = basis
        /\ reply' = [reply EXCEPT ![r] = LinkTarget(r, e)]
    BY DEF HandleLink
  <1>2. CASE LinkTarget(r, e) # "OK"
    <2>1. entry' = entry BY <1>2 DEF HandleLink
    <2> QED BY <1>1, <2>1 DEF Queue, ReviewTypes, Screens, ReviewInv
  <1>3. CASE LinkTarget(r, e) = "OK"
    <2>1. entry[e] # Missing /\ entry[e].status = "OPEN"
      BY <1>3 DEF LinkTarget, Found, CanLink
    <2>2. entry[e] \in EntryRec BY <2>1 DEF Queue, ReviewTypes
    <2>3. entry' = [entry EXCEPT ![e] = AddLink(entry[e])] BY <1>3 DEF HandleLink
    <2> QED BY <1>1, <2>1, <2>2, <2>3, Added, Relinked
  <1> QED BY <1>2, <1>3

LEMMA LinkRemoved ==
    ASSUME Queue, NEW r \in Reviewers, NEW e \in Entries, NEW l, HandleUnlink(r, e, l)
    PROVE  Queue'
  <1>1. /\ view' = view /\ basis' = basis
        /\ reply' = [reply EXCEPT ![r] = UnlinkTarget(r, e, l)]
    BY DEF HandleUnlink
  <1>2. CASE UnlinkTarget(r, e, l) # "OK"
    <2>1. entry' = entry BY <1>2 DEF HandleUnlink
    <2> QED BY <1>1, <2>1 DEF Queue, ReviewTypes, Screens, ReviewInv
  <1>3. CASE UnlinkTarget(r, e, l) = "OK"
    <2>1. entry[e] # Missing BY <1>3 DEF UnlinkTarget, Found
    <2>2. entry[e] \in EntryRec BY <2>1 DEF Queue, ReviewTypes
    <2>3. entry' = [entry EXCEPT ![e] = RemoveLink(entry[e], l)] BY <1>3 DEF HandleUnlink
    <2> QED BY <1>1, <2>2, <2>3, Removed, Relinked
  <1> QED BY <1>2, <1>3

LEMMA NextQueue == Queue /\ [ReviewNext]_reviewVars => Queue'
  <1> SUFFICES ASSUME Queue, [ReviewNext]_reviewVars PROVE Queue'
    OBVIOUS
  <1>1. CASE UNCHANGED reviewVars
    BY <1>1 DEF reviewVars, Queue, ReviewTypes, Screens, ReviewInv
  <1>2. ASSUME NEW r \in Reviewers, NEW e \in Entries, NEW d, NEW t, NEW s,
               HandleReplay(r, e, d, t, s)
        PROVE  Queue'
    BY <1>2 DEF HandleReplay, Queue, ReviewTypes, Screens, ReviewInv
  <1> QED
    BY <1>1, <1>2, Created, Shown, DecisionMade, LinkMade, LinkRemoved DEF ReviewNext, HandleRoute

\* ReviewInv: whatever other reviewers link, unlink and decide meanwhile, a decision was made
\* once, by the entry's organization, on the links that its reviewer had on the screen.
THEOREM DecidedOnWhatWasSeen == ReviewSpec => []ReviewInv
  <1>1. Queue => ReviewInv BY DEF Queue
  <1>2. ReviewSpec => []Queue BY InitQueue, NextQueue, PTL DEF ReviewSpec
  <1> QED BY <1>1, <1>2, PTL

-----------------------------------------------------------------------------
(* Link tables.                                                            *)

ConvRow == [revision : Versions, history : Seq(Nat)]

LinkTables ==
    /\ overlap \in BOOLEAN
    /\ contacts \in Seq(ContactInputs) /\ convs \in Seq(ConvRow)
    /\ linked \in SUBSET [contact : Contacts, version : Versions]
    /\ noted \in [revisions : SUBSET Versions, entries : Seq(Nat), sent : Nat]

\* A transaction writes to the row it has read, which keeps its contact id.
ContactUpsert(u) ==
    /\ u.op = "contact" /\ u.input \in ContactInputs
    /\ DOMAIN u.found \subseteq DOMAIN contacts
    /\ \A i \in DOMAIN u.found :
         /\ u.found[i] \in Versions
         /\ contacts[i].contact = u.input.contact /\ u.input.contact # NoContact
ConversationUpsert(u) ==
    /\ u.op = "conversation" /\ u.input \in [revision : Versions, entry : Nat]
    /\ DOMAIN u.found \subseteq DOMAIN convs
    /\ \A i \in DOMAIN u.found : u.found[i] \in ConvRow
Transactions ==
    /\ upsert = [t \in Upserts |-> upsert[t]]
    /\ \A t \in Upserts : \/ upsert[t] = NoUpsert
                          \/ ContactUpsert(upsert[t]) \/ ConversationUpsert(upsert[t])

\* A transaction that is alone has read what is still there.
Current(u) ==
    /\ u.op = "contact" =>
         /\ DOMAIN u.found = RowOf(u.input.contact)
         /\ \A i \in DOMAIN u.found : u.found[i] = contacts[i].version
    /\ u.op = "conversation" =>
         /\ DOMAIN u.found = {} => convs = <<>>
         /\ \A i \in DOMAIN u.found : u.found[i] = convs[i]
Alone ==
    ~overlap => \A t \in Upserts : upsert[t] # NoUpsert =>
      Current(upsert[t]) /\ \A s \in Upserts \ {t} : upsert[s] = NoUpsert

\* The parts of LinksInv, and what is noted before there is a row.
OneRow ==
    \A i, j \in DOMAIN contacts :
      contacts[i].contact = contacts[j].contact /\ contacts[i].contact # NoContact => i = j
Bounded == \A i \in DOMAIN convs : Len(convs[i].history) <= MaxHistory
NewEnough ==
    ~overlap => \A a \in linked : \E i \in DOMAIN contacts :
      contacts[i].contact = a.contact /\ contacts[i].version >= a.version
History ==
    ~overlap =>
      /\ Len(convs) <= 1
      /\ convs = <<>> => noted.revisions = {} /\ noted.entries = <<>>
      /\ \A i \in DOMAIN convs : /\ \A v \in noted.revisions : v <= convs[i].revision
                                 /\ convs[i].history = noted.entries

Tables == LinkTables /\ Transactions /\ Alone /\ OneRow /\ Bounded /\ NewEnough /\ History

LEMMA ContactInput ==
    ASSUME NEW p \in ContactInputs
    PROVE  /\ p.contact \in Contacts /\ p.version \in Versions /\ p.version \in Nat
           /\ Readable(p)
  <1>1. /\ p \in [contact : Contacts, state : {"EXACT_MATCH", "POSSIBLE_MATCH", "UNRESOLVED"},
                  target : BOOLEAN, candidate : BOOLEAN, version : Versions]
        /\ Writable(p)
    BY DEF ContactInputs
  <1>2. p.contact \in Contacts /\ p.version \in Versions /\ p.version \in Nat
    BY <1>1, LinkBounds
  <1>3. Readable(p) BY <1>1 DEF Writable, Readable
  <1> QED BY <1>2, <1>3

LEMMA LinkTablesHold == Tables => LinksInv
  <1> SUFFICES ASSUME Tables PROVE LinksInv
    OBVIOUS
  <1>1. \A i \in DOMAIN contacts : Readable(contacts[i])
    <2>1. \A i \in DOMAIN contacts : contacts[i] \in ContactInputs
      BY DEF Tables, LinkTables
    <2> QED BY <2>1, ContactInput
  <1> QED BY <1>1 DEF Tables, OneRow, Bounded, NewEnough, History, LinksInv

LEMMA InitTables == LinksInit => Tables
  <1> SUFFICES ASSUME LinksInit PROVE Tables
    OBVIOUS
  <1>1. contacts = <<>> /\ convs = <<>> /\ linked = {} /\ overlap \in BOOLEAN
        /\ noted = [revisions |-> {}, entries |-> <<>>, sent |-> 0]
        /\ upsert = [t \in Upserts |-> NoUpsert]
    BY DEF LinksInit
  <1>2. LinkTables BY <1>1 DEF LinkTables
  <1>3. Transactions /\ Alone BY <1>1 DEF Transactions, Alone
  <1>4. OneRow /\ Bounded /\ NewEnough /\ History
    BY <1>1 DEF OneRow, Bounded, NewEnough, History
  <1> QED BY <1>2, <1>3, <1>4 DEF Tables

\* A transaction begins on what it reads.
LEMMA Begun ==
    ASSUME Tables, NEW t \in Upserts, NEW u, upsert[t] = NoUpsert,
           overlap \/ \A s \in Upserts : upsert[s] = NoUpsert,
           upsert' = [upsert EXCEPT ![t] = u], ContactUpsert(u) \/ ConversationUpsert(u),
           Current(u), UNCHANGED <<overlap, contacts, convs, linked>>
    PROVE  Transactions' /\ Alone'
  <1>1. upsert'[t] = u /\ \A s \in Upserts \ {t} : upsert'[s] = upsert[s]
    BY DEF Tables, Transactions
  <1>2. Transactions'
    BY <1>1 DEF Tables, Transactions, ContactUpsert, ConversationUpsert
  <1>3. Alone'
    <2>1. SUFFICES ASSUME ~overlap, NEW s \in Upserts, upsert'[s] # NoUpsert
                   PROVE  /\ Current(upsert[s])'
                          /\ \A q \in Upserts \ {s} : upsert'[q] = NoUpsert
      BY DEF Alone
    <2>2. \A q \in Upserts \ {t} : upsert'[q] = NoUpsert BY <1>1, <2>1
    <2>3. s = t BY <2>1, <2>2
    <2>4. Current(upsert[s])' BY <1>1, <2>3 DEF Current, RowOf
    <2> QED BY <2>2, <2>3, <2>4
  <1> QED BY <1>2, <1>3

\* A transaction ends; rows are added and rewritten and keep their contact ids.
LEMMA Ended ==
    ASSUME Tables, NEW t \in Upserts, upsert[t] # NoUpsert, End(t),
           DOMAIN contacts \subseteq DOMAIN contacts', DOMAIN convs \subseteq DOMAIN convs',
           \A i \in DOMAIN contacts : contacts'[i].contact = contacts[i].contact
    PROVE  Transactions' /\ Alone' /\ overlap' = overlap
  <1>1. /\ upsert' = [upsert EXCEPT ![t] = NoUpsert] /\ overlap' = overlap BY DEF End
  <1>2. upsert'[t] = NoUpsert /\ \A s \in Upserts \ {t} : upsert'[s] = upsert[s]
    BY <1>1 DEF Tables, Transactions
  <1>3. Transactions'
    <2>1. \A u : ContactUpsert(u) => ContactUpsert(u)' BY DEF ContactUpsert
    <2>2. \A u : ConversationUpsert(u) => ConversationUpsert(u)' BY DEF ConversationUpsert
    <2>3. upsert' = [s \in Upserts |-> upsert'[s]]
      BY <1>1 DEF Tables, Transactions
    <2> QED BY <1>2, <2>1, <2>2, <2>3 DEF Tables, Transactions
  <1>4. Alone' BY <1>1, <1>2 DEF Tables, Alone
  <1> QED BY <1>1, <1>3, <1>4

LEMMA ContactSelected ==
    ASSUME Tables, NEW t \in Upserts, NEW p \in ContactInputs, SelectContact(t, p)
    PROVE  Tables'
  <1> DEFINE found == [i \in RowOf(p.contact) |-> contacts[i].version]
             u == [op |-> "contact", input |-> p, found |-> found]
  <1>1. /\ upsert[t] = NoUpsert /\ (overlap \/ \A s \in Upserts : upsert[s] = NoUpsert)
        /\ upsert' = [upsert EXCEPT ![t] = u]
        /\ UNCHANGED <<overlap, contacts, convs, linked, noted>>
    BY DEF SelectContact, Begin
  <1>2. /\ u.op = "contact" /\ u.input = p /\ u.found = found
        /\ DOMAIN found = RowOf(p.contact)
        /\ \A i \in DOMAIN found : found[i] = contacts[i].version
    OBVIOUS
  <1> HIDE DEF u, found
  <1>3. \A i \in DOMAIN contacts : contacts[i] \in ContactInputs
    BY DEF Tables, LinkTables
  <1>4. ContactUpsert(u)
    BY <1>2, <1>3, ContactInput DEF ContactUpsert, RowOf
  <1>5. Current(u) BY <1>2 DEF Current
  <1>6. Transactions' /\ Alone' BY <1>1, <1>4, <1>5, Begun
  <1> QED
    BY <1>1, <1>6 DEF Tables, LinkTables, OneRow, Bounded, NewEnough, History

LEMMA ContactUpdated ==
    ASSUME Tables, NEW t \in Upserts, UpdateContact(t)
    PROVE  Tables'
  <1> DEFINE u == upsert[t]
  <1>1. u # NoUpsert /\ u.op = "contact" /\ End(t) /\ UNCHANGED <<convs, noted>>
    BY DEF UpdateContact
  <1>2. ContactUpsert(u)
    BY <1>1 DEF Tables, Transactions, ConversationUpsert
  <1> DEFINE answer(i) == VersionAnswer(u.input.version, u.found[i])
             added == [contact |-> u.input.contact, version |-> u.input.version]
  <1>3. PICK i \in DOMAIN u.found :
          /\ contacts' = IF answer(i) = "UPDATE" THEN [contacts EXCEPT ![i] = u.input] ELSE contacts
          /\ linked' = IF answer(i) = "VERSION_CONFLICT" THEN linked ELSE linked \cup {added}
    BY DEF UpdateContact
  <1>4. /\ i \in DOMAIN contacts /\ u.input \in ContactInputs /\ u.found[i] \in Versions
        /\ u.found[i] \in Nat
        /\ contacts[i].contact = u.input.contact /\ u.input.contact # NoContact
    BY <1>2, LinkBounds DEF ContactUpsert
  <1>5. /\ u.input.contact \in Contacts /\ u.input.version \in Versions
        /\ u.input.version \in Nat
    BY <1>4, ContactInput
  <1>6. added \in [contact : Contacts, version : Versions]
        /\ added.contact = u.input.contact /\ added.version = u.input.version
    BY <1>5
  <1>7. /\ contacts \in Seq(ContactInputs) /\ DOMAIN contacts = 1 .. Len(contacts)
        /\ \A j \in DOMAIN contacts : contacts[j] \in ContactInputs
    BY DEF Tables, LinkTables
  <1>8. ASSUME ~overlap PROVE u.found[i] = contacts[i].version
    BY <1>1, <1>3, <1>8 DEF Tables, Alone, Current
  <1> HIDE DEF added, u
  <1>9. /\ contacts' \in Seq(ContactInputs) /\ DOMAIN contacts' = DOMAIN contacts
        /\ \A j \in DOMAIN contacts \ {i} : contacts'[j] = contacts[j]
        /\ contacts'[i] = IF answer(i) = "UPDATE" THEN u.input ELSE contacts[i]
    BY <1>3, <1>4, <1>7
  <1>10. \A j \in DOMAIN contacts : contacts'[j].contact = contacts[j].contact
    BY <1>4, <1>9
  <1>11. Transactions' /\ Alone' /\ overlap' = overlap
    BY <1>1, <1>9, <1>10, Ended DEF u
  <1>12. LinkTables'
    BY <1>1, <1>3, <1>6, <1>9, <1>11 DEF Tables, LinkTables
  <1>13. OneRow' BY <1>9, <1>10 DEF Tables, OneRow
  <1>14. Bounded' /\ History' BY <1>1, <1>11 DEF Tables, Bounded, History
  <1>15. NewEnough'
    <2>1. SUFFICES ASSUME ~overlap, NEW a \in linked'
                   PROVE  \E j \in DOMAIN contacts' :
                            contacts'[j].contact = a.contact /\ contacts'[j].version >= a.version
      BY <1>11 DEF NewEnough
    <2>2. \A j \in DOMAIN contacts : contacts[j].version \in Nat /\ contacts'[j].version \in Nat
      <3>1. \A j \in DOMAIN contacts : contacts'[j] \in ContactInputs BY <1>9
      <3> QED BY <1>7, <3>1, ContactInput
    <2>3. \A j \in DOMAIN contacts : contacts'[j].version >= contacts[j].version
      <3>1. answer(i) = "UPDATE" => u.input.version >= contacts[i].version
        BY <1>4, <1>5, <1>8, <2>1 DEF VersionAnswer
      <3> QED BY <1>9, <2>2, <3>1
    <2>4. CASE a \in linked
      <3>1. PICK j \in DOMAIN contacts :
              contacts[j].contact = a.contact /\ contacts[j].version >= a.version
        BY <2>1, <2>4 DEF Tables, NewEnough
      <3>2. a.version \in Nat BY <2>4, LinkBounds DEF Tables, LinkTables
      <3>3. contacts'[j].version >= a.version BY <2>2, <2>3, <3>1, <3>2
      <3> QED BY <1>9, <1>10, <3>1, <3>3
    <2>5. CASE a = added /\ answer(i) # "VERSION_CONFLICT"
      <3>1. contacts'[i].version >= u.input.version
        <4>1. CASE answer(i) = "UPDATE" BY <1>4, <1>5, <1>9, <4>1
        <4>2. CASE answer(i) # "UPDATE"
          <5>1. u.input.version = contacts[i].version
            BY <1>4, <1>5, <1>8, <2>1, <2>5, <4>2 DEF VersionAnswer
          <5> QED BY <1>4, <1>5, <1>9, <4>2, <5>1
        <4> QED BY <4>1, <4>2
      <3> QED BY <1>4, <1>6, <1>9, <1>10, <2>5, <3>1
    <2> QED BY <1>3, <2>1, <2>4, <2>5
  <1> QED BY <1>11, <1>12, <1>13, <1>14, <1>15 DEF Tables

LEMMA ContactInserted ==
    ASSUME Tables, NEW t \in Upserts, InsertContact(t)
    PROVE  Tables'
  <1> DEFINE u == upsert[t]
  <1>1. /\ u # NoUpsert /\ u.op = "contact" /\ End(t) /\ UNCHANGED <<convs, noted>>
    BY DEF InsertContact
  <1>2. ContactUpsert(u)
    BY <1>1 DEF Tables, Transactions, ConversationUpsert
  <1> DEFINE added == [contact |-> u.input.contact, version |-> u.input.version]
  <1>3. CASE UNCHANGED <<contacts, linked>>
    <2>1. Transactions' /\ Alone' /\ overlap' = overlap BY <1>1, <1>3, Ended
    <2> QED
      BY <1>1, <1>3, <2>1 DEF Tables, LinkTables, OneRow, Bounded, NewEnough, History
  <1>4. CASE /\ RowOf(u.input.contact) = {}
             /\ contacts' = Append(contacts, u.input) /\ linked' = linked \cup {added}
    <2>1. /\ u.input \in ContactInputs /\ u.input.contact \in Contacts
          /\ u.input.version \in Versions /\ u.input.version \in Nat
      BY <1>2, ContactInput DEF ContactUpsert
    <2>2. added \in [contact : Contacts, version : Versions]
          /\ added.contact = u.input.contact /\ added.version = u.input.version
      BY <2>1
    <2> HIDE DEF added, u
    <2>3. contacts \in Seq(ContactInputs) /\ DOMAIN contacts = 1 .. Len(contacts)
      BY DEF Tables, LinkTables
    <2>4. /\ contacts' \in Seq(ContactInputs) /\ DOMAIN contacts' = 1 .. Len(contacts) + 1
          /\ \A j \in DOMAIN contacts : contacts'[j] = contacts[j]
          /\ contacts'[Len(contacts) + 1] = u.input
      BY <1>4, <2>1, <2>3, AppendProperties
    <2>5. Len(contacts) \in Nat BY <2>3
    <2>6. DOMAIN contacts \subseteq DOMAIN contacts' /\ Len(contacts) + 1 \in DOMAIN contacts'
      BY <2>3, <2>4, <2>5
    <2>7. \A j \in DOMAIN contacts' : j \in DOMAIN contacts \/ j = Len(contacts) + 1
      BY <2>3, <2>4, <2>5
    <2>8. Transactions' /\ Alone' /\ overlap' = overlap
      BY <1>1, <2>4, <2>6, Ended DEF u
    <2>9. LinkTables' BY <1>1, <1>4, <2>2, <2>4, <2>8 DEF Tables, LinkTables
    <2>10. OneRow'
      <3>1. \A j \in DOMAIN contacts : contacts[j].contact = u.input.contact
              => u.input.contact = NoContact
        BY <1>4 DEF RowOf
      <3> QED BY <2>4, <2>7, <3>1 DEF Tables, OneRow
    <2>11. Bounded' /\ History' BY <1>1, <2>8 DEF Tables, Bounded, History
    <2>12. NewEnough'
      <3>1. u.input.version >= u.input.version BY <2>1
      <3> QED BY <1>4, <2>2, <2>4, <2>6, <2>8, <3>1 DEF Tables, NewEnough
    <2> QED BY <2>8, <2>9, <2>10, <2>11, <2>12 DEF Tables
  <1> QED BY <1>3, <1>4 DEF InsertContact

\* A history with one more entry.
LEMMA Longest ==
    ASSUME NEW h \in Seq(Nat), NEW n \in Nat
    PROVE  Longer(h, n) \in Seq(Nat) /\ Len(Longer(h, n)) <= Len(h) + 1
  <1>1. CASE n = 0 BY <1>1 DEF Longer
  <1>2. CASE n # 0 BY <1>2, AppendProperties DEF Longer
  <1> QED BY <1>1, <1>2

LEMMA Acknowledged ==
    ASSUME LinkTables, NEW input \in [revision : Versions, entry : Nat], Acknowledge(input)
    PROVE  /\ noted' \in [revisions : SUBSET Versions, entries : Seq(Nat), sent : Nat]
           /\ noted'.revisions = noted.revisions \cup {input.revision}
           /\ noted'.entries = Longer(noted.entries, input.entry)
  <1> DEFINE revs == noted.revisions \cup {input.revision}
             ents == Longer(noted.entries, input.entry)
  <1>1. noted \in [revisions : SUBSET Versions, entries : Seq(Nat), sent : Nat]
    BY DEF LinkTables
  <1>2. noted' = [noted EXCEPT !.revisions = revs, !.entries = ents] BY DEF Acknowledge
  <1>3. revs \in SUBSET Versions BY <1>1
  <1>4. ents \in Seq(Nat) BY <1>1, Longest
  <1> HIDE DEF revs, ents
  <1>5. noted'.revisions = revs BY <1>1, <1>2
  <1>6. noted'.entries = ents BY <1>1, <1>2
  <1>7. noted' \in [revisions : SUBSET Versions, entries : Seq(Nat), sent : Nat]
    BY <1>1, <1>2, <1>3, <1>4
  <1> QED BY <1>5, <1>6, <1>7 DEF revs, ents

LEMMA ConversationSelected ==
    ASSUME Tables, NEW t \in Upserts, NEW revision \in Versions, NEW more \in BOOLEAN,
           SelectConversation(t, revision, more)
    PROVE  Tables'
  <1> DEFINE number == IF more THEN noted.sent + 1 ELSE 0
             input == [revision |-> revision, entry |-> number]
             sent == IF more THEN noted.sent + 1 ELSE noted.sent
  <1>1. noted \in [revisions : SUBSET Versions, entries : Seq(Nat), sent : Nat]
    BY DEF Tables, LinkTables
  <1>2. number \in Nat /\ sent \in Nat BY <1>1
  <1>3. input \in [revision : Versions, entry : Nat] BY <1>2
  <1>4. noted' = [noted EXCEPT !.sent = sent] BY DEF SelectConversation
  <1>5. PICK found : /\ Begin(t, "conversation", input, found)
                     /\ \/ convs = <<>> /\ found = <<>>
                        \/ \E i \in Latest : convs # <<>> /\ found = [j \in {i} |-> convs[j]]
    BY DEF SelectConversation
  <1> HIDE DEF input, number, sent
  <1>6. /\ noted' \in [revisions : SUBSET Versions, entries : Seq(Nat), sent : Nat]
        /\ noted'.revisions = noted.revisions /\ noted'.entries = noted.entries
    BY <1>1, <1>2, <1>4
  <1> DEFINE u == [op |-> "conversation", input |-> input, found |-> found]
  <1>7. /\ upsert[t] = NoUpsert /\ (overlap \/ \A s \in Upserts : upsert[s] = NoUpsert)
        /\ upsert' = [upsert EXCEPT ![t] = u]
        /\ UNCHANGED <<overlap, contacts, convs, linked>>
    BY <1>5 DEF Begin
  <1>8. u.op = "conversation" /\ u.input = input /\ u.found = found
    OBVIOUS
  <1> HIDE DEF u
  <1>9. /\ DOMAIN found \subseteq DOMAIN convs /\ (DOMAIN found = {} => convs = <<>>)
        /\ \A i \in DOMAIN found : found[i] = convs[i]
    BY <1>5 DEF Latest
  <1>10. ConversationUpsert(u)
    <2>1. \A i \in DOMAIN convs : convs[i] \in ConvRow BY DEF Tables, LinkTables
    <2> QED BY <1>3, <1>8, <1>9, <2>1 DEF ConversationUpsert
  <1>11. Current(u) BY <1>8, <1>9 DEF Current
  <1>12. Transactions' /\ Alone' BY <1>7, <1>10, <1>11, Begun
  <1> QED
    BY <1>6, <1>7, <1>12 DEF Tables, LinkTables, OneRow, Bounded, NewEnough, History

LEMMA ConversationUpdated ==
    ASSUME Tables, NEW t \in Upserts, UpdateConversation(t)
    PROVE  Tables'
  <1> DEFINE u == upsert[t]
  <1>1. u # NoUpsert /\ u.op = "conversation" /\ End(t) /\ UNCHANGED <<contacts, linked>>
    BY DEF UpdateConversation
  <1>2. ConversationUpsert(u)
    BY <1>1 DEF Tables, Transactions, ContactUpsert
  <1> DEFINE history(i) == Longer(u.found[i].history, u.input.entry)
             new(i) == [revision |-> u.input.revision, history |-> history(i)]
  <1>3. PICK i \in DOMAIN u.found :
          \/ UNCHANGED <<convs, noted>>
          \/ /\ ~(u.input.revision < u.found[i].revision \/ Len(history(i)) > MaxHistory)
             /\ convs' = [convs EXCEPT ![i] = new(i)] /\ Acknowledge(u.input)
    BY DEF UpdateConversation
  <1>4. CASE UNCHANGED <<convs, noted>>
    <2>1. Transactions' /\ Alone' /\ overlap' = overlap BY <1>1, <1>4, Ended
    <2> QED
      BY <1>1, <1>4, <2>1 DEF Tables, LinkTables, OneRow, Bounded, NewEnough, History
  <1>5. CASE /\ ~(u.input.revision < u.found[i].revision \/ Len(history(i)) > MaxHistory)
             /\ convs' = [convs EXCEPT ![i] = new(i)] /\ Acknowledge(u.input)
    <2>1. /\ i \in DOMAIN convs /\ u.found[i] \in ConvRow
          /\ u.input \in [revision : Versions, entry : Nat]
      BY <1>2 DEF ConversationUpsert
    <2>2. /\ u.input.revision \in Versions /\ u.input.revision \in Nat /\ u.input.entry \in Nat
          /\ u.found[i].revision \in Nat /\ u.found[i].history \in Seq(Nat)
      BY <2>1, LinkBounds DEF ConvRow
    <2>3. history(i) \in Seq(Nat) BY <2>2, Longest
    <2>4. Len(history(i)) <= MaxHistory /\ u.input.revision >= u.found[i].revision
      BY <1>5, <2>2, <2>3, LinkBounds
    <2>5. /\ new(i) \in ConvRow /\ new(i).history = history(i)
          /\ new(i).revision = u.input.revision
      BY <2>2, <2>3 DEF ConvRow
    <2>6. ASSUME ~overlap PROVE u.found[i] = convs[i]
      BY <1>1, <1>3, <2>6 DEF Tables, Alone, Current
    <2>7. /\ noted' \in [revisions : SUBSET Versions, entries : Seq(Nat), sent : Nat]
          /\ noted'.revisions = noted.revisions \cup {u.input.revision}
          /\ noted'.entries = Longer(noted.entries, u.input.entry)
      BY <1>5, <2>1, Acknowledged DEF Tables
    <2> HIDE DEF u, new
    <2>8. /\ convs' \in Seq(ConvRow) /\ DOMAIN convs' = DOMAIN convs /\ Len(convs') = Len(convs)
          /\ convs'[i] = new(i) /\ \A j \in DOMAIN convs \ {i} : convs'[j] = convs[j]
      BY <1>5, <2>1, <2>5 DEF Tables, LinkTables
    <2>9. Transactions' /\ Alone' /\ overlap' = overlap
      BY <1>1, <2>8, Ended DEF u
    <2>10. LinkTables' BY <1>1, <2>7, <2>8, <2>9 DEF Tables, LinkTables
    <2>11. OneRow' /\ NewEnough' BY <1>1, <2>9 DEF Tables, OneRow, NewEnough
    <2>12. Bounded' BY <2>4, <2>5, <2>8 DEF Tables, Bounded
    <2>13. History'
      <3>1. SUFFICES ASSUME ~overlap
                     PROVE  /\ Len(convs') <= 1
                            /\ convs' # <<>>
                            /\ \A j \in DOMAIN convs' :
                                 /\ \A v \in noted'.revisions : v <= convs'[j].revision
                                 /\ convs'[j].history = noted'.entries
        BY <2>9 DEF History
      <3>2. /\ Len(convs) <= 1 /\ convs[i].history = noted.entries
            /\ \A v \in noted.revisions : v <= convs[i].revision
        BY <2>1, <3>1 DEF Tables, History
      <3>3. DOMAIN convs = 1 .. Len(convs) /\ Len(convs) \in Nat BY DEF Tables, LinkTables
      <3>4. DOMAIN convs' = {i} BY <2>1, <2>8, <3>2, <3>3
      <3>5. convs'[i].history = noted'.entries
        BY <2>5, <2>6, <2>7, <2>8, <3>1, <3>2
      <3>6. \A v \in noted'.revisions : v <= convs'[i].revision
        <4>1. noted.revisions \subseteq Nat BY LinkBounds DEF Tables, LinkTables
        <4>2. convs[i].revision \in Nat /\ convs[i].revision <= u.input.revision
          BY <2>2, <2>4, <2>6, <3>1
        <4>3. convs'[i].revision = u.input.revision BY <2>5, <2>8
        <4> QED BY <2>2, <2>7, <3>2, <4>1, <4>2, <4>3
      <3> QED BY <2>8, <3>2, <3>4, <3>5, <3>6
    <2> QED BY <2>9, <2>10, <2>11, <2>12, <2>13 DEF Tables
  <1> QED BY <1>3, <1>4, <1>5

LEMMA ConversationInserted ==
    ASSUME Tables, NEW t \in Upserts, InsertConversation(t)
    PROVE  Tables'
  <1> DEFINE u == upsert[t]
             history == Longer(<<>>, u.input.entry)
             new == [revision |-> u.input.revision, history |-> history]
  <1>1. /\ u # NoUpsert /\ u.op = "conversation" /\ End(t) /\ UNCHANGED <<contacts, linked>>
        /\ DOMAIN u.found = {} /\ convs' = Append(convs, new) /\ Acknowledge(u.input)
    BY DEF InsertConversation
  <1>2. u.input \in [revision : Versions, entry : Nat]
    BY <1>1 DEF Tables, Transactions, ContactUpsert, ConversationUpsert
  <1>3. /\ u.input.revision \in Versions /\ u.input.revision \in Nat /\ u.input.entry \in Nat
    BY <1>2, LinkBounds
  <1>4. history \in Seq(Nat) /\ Len(history) <= MaxHistory
    <2>1. <<>> \in Seq(Nat) /\ Len(<<>>) = 0 OBVIOUS
    <2>2. history \in Seq(Nat) /\ Len(history) <= 0 + 1 BY <1>3, <2>1, Longest
    <2> QED BY <2>2, LinkBounds
  <1>5. new \in ConvRow /\ new.history = history /\ new.revision = u.input.revision
    BY <1>3, <1>4 DEF ConvRow
  <1>6. ASSUME ~overlap PROVE convs = <<>>
    BY <1>1, <1>6 DEF Tables, Alone, Current
  <1>7. /\ noted' \in [revisions : SUBSET Versions, entries : Seq(Nat), sent : Nat]
        /\ noted'.revisions = noted.revisions \cup {u.input.revision}
        /\ noted'.entries = Longer(noted.entries, u.input.entry)
    BY <1>1, <1>2, Acknowledged DEF Tables
  <1> HIDE DEF u, new
  <1>8. convs \in Seq(ConvRow) /\ DOMAIN convs = 1 .. Len(convs) /\ Len(convs) \in Nat
    BY DEF Tables, LinkTables
  <1>9. /\ convs' \in Seq(ConvRow) /\ Len(convs') = Len(convs) + 1
        /\ DOMAIN convs' = 1 .. Len(convs) + 1
        /\ \A j \in DOMAIN convs : convs'[j] = convs[j]
        /\ convs'[Len(convs) + 1] = new /\ convs' # <<>>
    BY <1>1, <1>5, <1>8, AppendProperties
  <1>10. DOMAIN convs \subseteq DOMAIN convs' BY <1>8, <1>9
  <1>11. \A j \in DOMAIN convs' : j \in DOMAIN convs \/ j = Len(convs) + 1
    BY <1>8, <1>9
  <1>12. Transactions' /\ Alone' /\ overlap' = overlap
    BY <1>1, <1>10, Ended DEF u
  <1>13. LinkTables' BY <1>1, <1>7, <1>9, <1>12 DEF Tables, LinkTables
  <1>14. OneRow' /\ NewEnough' BY <1>1, <1>12 DEF Tables, OneRow, NewEnough
  <1>15. Bounded' BY <1>4, <1>5, <1>9, <1>11 DEF Tables, Bounded
  <1>16. History'
    <2>1. SUFFICES ASSUME ~overlap
                   PROVE  /\ Len(convs') <= 1
                          /\ convs' # <<>>
                          /\ \A j \in DOMAIN convs' :
                               /\ \A v \in noted'.revisions : v <= convs'[j].revision
                               /\ convs'[j].history = noted'.entries
      BY <1>12 DEF History
    <2>2. Len(convs) = 0 /\ noted.revisions = {} /\ noted.entries = <<>>
      BY <1>6, <2>1 DEF Tables, History
    <2>3. DOMAIN convs' = {1} /\ convs'[1] = new BY <1>9, <2>2
    <2>4. noted'.revisions = {u.input.revision} /\ noted'.entries = history
      BY <1>7, <2>2 DEF u
    <2>5. u.input.revision <= u.input.revision BY <1>3
    <2> QED BY <1>5, <1>9, <2>2, <2>3, <2>4, <2>5
  <1> QED BY <1>12, <1>13, <1>14, <1>15, <1>16 DEF Tables

LEMMA NextTables == Tables /\ [ContactNext \/ ConversationNext]_linkVars => Tables'
  <1> SUFFICES ASSUME Tables, [ContactNext \/ ConversationNext]_linkVars PROVE Tables'
    OBVIOUS
  <1>1. CASE UNCHANGED linkVars
    <2>1. Transactions'
      BY <1>1 DEF linkVars, Tables, Transactions, ContactUpsert, ConversationUpsert
    <2>2. Alone' BY <1>1 DEF linkVars, Tables, Alone, Current, RowOf
    <2> QED
      BY <1>1, <2>1, <2>2
         DEF linkVars, Tables, LinkTables, OneRow, Bounded, NewEnough, History
  <1>2. CASE ContactNext
    BY <1>2, ContactSelected, ContactUpdated, ContactInserted DEF ContactNext
  <1>3. CASE ConversationNext
    BY <1>3, ConversationSelected, ConversationUpdated, ConversationInserted
       DEF ConversationNext
  <1> QED BY <1>1, <1>2, <1>3

\* LinksInv: one row per contact id, rows that can be read back and histories within their
\* bound, whatever overlaps; and as long as nothing does, nothing answered is overwritten by
\* what is older or lost from a history.
THEOREM LinksStayInOrder == LinksSpec => []LinksInv
  <1>1. LinksSpec => []Tables BY InitTables, NextTables, PTL DEF LinksSpec
  <1> QED BY <1>1, LinkTablesHold, PTL

-----------------------------------------------------------------------------
(* Dead-letter queue.                                                      *)

LetterRec == [state : {"PENDING", "DEAD_LETTERED"}, attempts : Nat, resolved : Nat, audit : Nat]
RedriveRec == [receipt : Letters, checked : BOOLEAN, audit : Nat, free : BOOLEAN]
Listing == [cursor : Nat, seen : Seq(Letters), standing : SUBSET Letters, from : Nat,
            ordered : BOOLEAN, still : BOOLEAN, open : BOOLEAN]

\* The redrives of a receipt that succeeded.
Of(r) == {d \in redriven : d.receipt = r}

LetterTypes ==
    /\ overtake \in BOOLEAN /\ died \in Nat
    /\ letter \in [Letters -> LetterRec]
    /\ redrive = [a \in Redrivers |-> redrive[a]]
    /\ \A a \in Redrivers : redrive[a] = NoRedriver \/ redrive[a] \in RedriveRec
    /\ reader \in Listing
    /\ redriven \in SUBSET [receipt : Letters, nth : Nat, free : BOOLEAN]
    /\ IsFiniteSet(redriven) /\ IsFiniteSet(Dead)

\* A recipient that has been blocked since a redrive began is blocked now; a redrive past its
\* check is not for such a recipient.
Guarded ==
    /\ \A a \in Redrivers : redrive[a] # NoRedriver =>
         /\ redrive[a].free \/ Recipient(redrive[a].receipt) \in guard
         /\ redrive[a].checked => redrive[a].free
    /\ \A d \in redriven : d.free

\* The redrives of a receipt are numbered; one that is alone has read the count as it is.
Counted ==
    /\ \A d \in redriven : d.nth <= Cardinality(Of(d.receipt))
    /\ ~overtake => \A r \in Letters : letter[r].audit = Cardinality(Of(r))
    /\ ~overtake => \A a \in Redrivers : redrive[a] # NoRedriver =>
         /\ redrive[a].audit = letter[redrive[a].receipt].audit
         /\ \A b \in Redrivers \ {a} : redrive[b] = NoRedriver

\* A listing whose pages were in the order of the ids has come down to its cursor without
\* leaving anything out.
Got == {reader.seen[i] : i \in DOMAIN reader.seen}
Falling == \A i, j \in DOMAIN reader.seen : i < j => reader.seen[i] > reader.seen[j]
AtCursor ==
    /\ reader.cursor = 0 => reader.seen = <<>>
    /\ reader.cursor # 0 => /\ reader.seen # <<>>
                            /\ reader.cursor = reader.seen[Len(reader.seen)]
Nothing ==
    \A r \in reader.standing :
      /\ r \in Dead /\ letter[r].resolved >= reader.from
      /\ r \in Got \/ (reader.open /\ Below(r, reader.cursor))
Unchanged ==
    /\ Got \subseteq Dead
    /\ reader.standing = {r \in Dead : letter[r].resolved >= reader.from}
    /\ ~reader.open => Agreeing
Pages ==
    reader.ordered => /\ Falling /\ Nothing
                      /\ reader.open => AtCursor
                      /\ reader.still => Unchanged

Mailroom == LetterTypes /\ Guarded /\ Counted /\ Pages

LEMMA ListingEnds == LetterTypes /\ Pages => ListingComplete
  <1> SUFFICES ASSUME LetterTypes, Pages,
                      reader.seen # <<>>, ~reader.open, reader.ordered
               PROVE  /\ \A i, j \in DOMAIN reader.seen : i # j => reader.seen[i] # reader.seen[j]
                      /\ reader.standing \subseteq Got
                      /\ reader.still /\ reader.from = 0 =>
                           Len(reader.seen) = Total /\ reader.seen[Len(reader.seen)] \in Oldest
    BY DEF ListingComplete, Got
  <1> DEFINE seen == reader.seen  n == Len(seen)
  <1>1. /\ seen \in Seq(Letters) /\ DOMAIN seen = 1 .. n /\ n \in Nat \ {0}
        /\ \A i \in DOMAIN seen : seen[i] \in Letters /\ seen[i] \in Nat
    <2>1. seen \in Seq(Letters) /\ seen # <<>> BY DEF LetterTypes, Listing
    <2> HIDE DEF seen
    <2>2. DOMAIN seen = 1 .. n /\ n \in Nat \ {0} BY <2>1
    <2>3. \A i \in DOMAIN seen : seen[i] \in Letters BY <2>1
    <2> QED BY <2>1, <2>2, <2>3, LetterBounds
  <1>2. Falling /\ Nothing BY DEF Pages
  <1> HIDE DEF n
  <1>3. \A i, j \in DOMAIN seen : i # j => seen[i] # seen[j]
    <2>1. SUFFICES ASSUME NEW i \in DOMAIN seen, NEW j \in DOMAIN seen, i # j
                   PROVE  seen[i] # seen[j]
      OBVIOUS
    <2>2. i < j \/ j < i BY <1>1, <2>1
    <2>3. seen[i] > seen[j] \/ seen[j] > seen[i] BY <1>2, <2>2 DEF Falling
    <2> QED BY <1>1, <2>3
  <1>4. reader.standing \subseteq Got BY <1>2 DEF Nothing
  <1>5. ASSUME reader.still, reader.from = 0
        PROVE  n = Total /\ seen[n] \in Oldest
    <2>1. Unchanged BY <1>5 DEF Pages
    <2>2. \A r \in Dead : r \in Letters /\ letter[r].resolved \in Nat
      BY DEF LetterTypes, LetterRec, Dead
    <2>3. reader.standing = Dead BY <1>5, <2>1, <2>2 DEF Unchanged
    <2>4. Got = Dead BY <1>4, <2>1, <2>3 DEF Unchanged
    <2>5. n = Total
      <3>1. seen \in Surjection(1 .. n, Dead)
        <4>1. seen \in [1 .. n -> Dead] BY <1>1, <2>4 DEF Got
        <4>2. \A r \in Dead : \E i \in 1 .. n : seen[i] = r BY <1>1, <2>4 DEF Got
        <4> QED BY <4>1, <4>2 DEF Surjection
      <3>2. seen \in Injection(1 .. n, Dead)
        <4>1. seen \in [1 .. n -> Dead] BY <1>1, <2>4 DEF Got
        <4>2. \A i, j \in 1 .. n : i # j => seen[i] # seen[j] BY <1>1, <1>3
        <4> QED BY <4>1, <4>2 DEF Injection, IsInjective
      <3>3. IsFiniteSet(1 .. n) /\ Cardinality(1 .. n) = n BY <1>1, FS_Interval
      <3>4. Cardinality(Dead) = Cardinality(1 .. n) BY <3>1, <3>2, <3>3, FS_Surjection
      <3> QED BY <3>3, <3>4 DEF Total
    <2>6. seen[n] \in Oldest
      <3>1. n \in DOMAIN seen /\ seen[n] \in Dead /\ Agreeing
        BY <1>1, <2>1, <2>4 DEF Got, Unchanged
      <3>2. SUFFICES ASSUME NEW s \in Dead PROVE letter[seen[n]].resolved <= letter[s].resolved
        BY <3>1 DEF Oldest
      <3>3. PICK i \in DOMAIN seen : s = seen[i] BY <2>4 DEF Got
      <3>4. CASE i = n BY <2>2, <3>1, <3>3, <3>4
      <3>5. CASE i # n
        <4>1. i < n BY <1>1, <3>5
        <4>2. seen[i] > seen[n] BY <1>2, <3>1, <4>1 DEF Falling
        <4>3. seen[n] < s BY <1>1, <3>1, <3>3, <4>2
        <4>4. letter[seen[n]].resolved < letter[s].resolved BY <3>1, <4>3 DEF Agreeing
        <4> QED BY <2>2, <3>1, <4>4
      <3> QED BY <3>4, <3>5
    <2> QED BY <2>5, <2>6
  <1> QED BY <1>3, <1>4, <1>5 DEF n

LEMMA MailroomHolds == Mailroom => DlqInv
  <1> SUFFICES ASSUME Mailroom PROVE DlqInv
    OBVIOUS
  <1>1. ListingComplete BY ListingEnds DEF Mailroom
  <1>2. \A d \in redriven : d.free BY DEF Mailroom, Guarded
  <1>3. ~overtake => \A r \in Letters :
          letter[r].audit = Cardinality({d \in redriven : d.receipt = r})
    BY DEF Mailroom, Counted, Of
  <1>4. \A r \in Referenced \ Tainted :
          CanRedrive(r) <=> Standing(r) /\ HasTries(r) /\ ~GuardBlocks(r)
    BY DEF CanRedrive, GuardBlocks, PreviewedFor, Recipient
  <1> QED BY <1>1, <1>2, <1>3, <1>4 DEF DlqInv

LEMMA InitMailroom == LettersInit => Mailroom
  <1> SUFFICES ASSUME LettersInit PROVE Mailroom
    OBVIOUS
  <1>1. /\ overtake \in BOOLEAN /\ died = 0 /\ guard = {} /\ redriven = {}
        /\ letter = [r \in Letters |-> [state |-> "PENDING", attempts |-> 0, resolved |-> 0,
                                        audit |-> 0]]
        /\ redrive = [a \in Redrivers |-> NoRedriver] /\ reader = NoListing
    BY DEF LettersInit
  <1>2. Dead = {} BY <1>1 DEF Dead
  <1>3. letter \in [Letters -> LetterRec] BY <1>1 DEF LetterRec
  <1>4. reader \in Listing /\ ~reader.ordered
    <2>1. <<>> \in Seq(Letters) OBVIOUS
    <2> QED BY <1>1, <2>1 DEF NoListing, Listing
  <1>5. LetterTypes BY <1>1, <1>2, <1>3, <1>4, FS_EmptySet DEF LetterTypes
  <1>6. Guarded BY <1>1 DEF Guarded
  <1>7. Counted
    <2>1. \A r \in Letters : Of(r) = {} BY <1>1 DEF Of
    <2>2. \A r \in Letters : letter[r].audit = 0 BY <1>1
    <2> QED BY <1>1, <2>1, <2>2, FS_EmptySet DEF Counted
  <1>8. Pages BY <1>4 DEF Pages
  <1> QED BY <1>5, <1>6, <1>7, <1>8 DEF Mailroom

\* Nothing but a page moves a listing; what changes while it is read only takes from what
\* stands, and then it is not still.
LEMMA PagesKept ==
    ASSUME Mailroom, reader' \in Listing,
           reader'.cursor = reader.cursor, reader'.seen = reader.seen,
           reader'.from = reader.from, reader'.ordered = reader.ordered,
           reader'.open = reader.open, reader'.standing \subseteq reader.standing,
           \A r \in reader'.standing : r \in Dead' /\ letter'[r].resolved = letter[r].resolved,
           reader'.still => /\ reader.still /\ reader'.standing = reader.standing
                            /\ letter' = letter
    PROVE  Pages'
  <1>1. SUFFICES ASSUME reader'.ordered
                 PROVE  /\ Falling' /\ Nothing'
                        /\ reader'.open => AtCursor'
                        /\ reader'.still => Unchanged'
    BY DEF Pages
  <1>2. Falling /\ Nothing /\ (reader.open => AtCursor) /\ (reader.still => Unchanged)
    BY <1>1 DEF Mailroom, Pages
  <1>3. Falling' BY <1>2 DEF Falling
  <1>4. Got' = Got BY DEF Got
  <1>5. Nothing' BY <1>2, <1>4 DEF Nothing, Below
  <1>6. reader'.open => AtCursor' BY <1>2 DEF AtCursor
  <1>7. ASSUME reader'.still PROVE Unchanged'
    <2>1. Dead' = Dead /\ Agreeing' = Agreeing BY <1>7 DEF Dead, Agreeing
    <2> QED BY <1>2, <1>4, <1>7, <2>1 DEF Unchanged
  <1> QED BY <1>3, <1>5, <1>6, <1>7

\* The steps of redrives and of the guard that leave the rows and the listing alone.
LEMMA LettersKept ==
    ASSUME Mailroom, UNCHANGED <<overtake, letter, died, redriven, reader>>,
           redrive' = [a \in Redrivers |-> redrive'[a]],
           \A a \in Redrivers : redrive'[a] = NoRedriver \/ redrive'[a] \in RedriveRec
    PROVE  LetterTypes' /\ Pages' /\ Dead' = Dead
  <1>1. Dead' = Dead BY DEF Dead
  <1>2. LetterTypes' BY <1>1 DEF Mailroom, LetterTypes
  <1>3. \A r \in reader.standing : reader.ordered => r \in Dead
    BY DEF Mailroom, Pages, Nothing
  <1>4. Pages'
    BY <1>1 DEF Mailroom, Pages, Falling, Nothing, Got, AtCursor, Unchanged, Agreeing, Below
  <1> QED BY <1>1, <1>2, <1>4

LEMMA Blocked == ASSUME Mailroom, NEW c, BlockRecipient(c) PROVE Mailroom'
  <1>1. /\ guard' = guard \cup {c}
        /\ UNCHANGED <<overtake, letter, redrive, reader, died, redriven>>
    BY DEF BlockRecipient
  <1>2. LetterTypes' /\ Pages' BY <1>1, LettersKept DEF Mailroom, LetterTypes
  <1>3. Guarded' BY <1>1 DEF Mailroom, Guarded, Recipient
  <1>4. Counted' BY <1>1 DEF Mailroom, Counted, Of
  <1> QED BY <1>2, <1>3, <1>4 DEF Mailroom

LEMMA Unblocked == ASSUME Mailroom, NEW c, UnblockRecipient(c) PROVE Mailroom'
  <1>1. /\ guard' = guard \ {c} /\ UNCHANGED <<overtake, letter, reader, died, redriven>>
        /\ redrive' = [a \in Redrivers |->
                         IF redrive[a] # NoRedriver /\ Recipient(redrive[a].receipt) = c
                         THEN [redrive[a] EXCEPT !.free = TRUE] ELSE redrive[a]]
    BY DEF UnblockRecipient
  <1>2. ASSUME NEW a \in Redrivers, redrive[a] # NoRedriver,
               Recipient(redrive[a].receipt) = c
        PROVE  /\ redrive'[a] \in RedriveRec /\ redrive'[a].free
               /\ redrive'[a].receipt = redrive[a].receipt
               /\ redrive'[a].audit = redrive[a].audit
    <2>1. redrive[a] \in RedriveRec BY <1>2 DEF Mailroom, LetterTypes
    <2>2. redrive'[a] = [redrive[a] EXCEPT !.free = TRUE] BY <1>1, <1>2
    <2> QED BY <2>1, <2>2 DEF RedriveRec
  <1>3. \A a \in Redrivers :
          redrive[a] = NoRedriver \/ Recipient(redrive[a].receipt) # c => redrive'[a] = redrive[a]
    BY <1>1
  <1>4. \A a \in Redrivers : redrive'[a] # NoRedriver => redrive[a] # NoRedriver
    BY <1>3
  <1>5. redrive' = [a \in Redrivers |-> redrive'[a]] BY <1>1
  <1>6. LetterTypes' /\ Pages'
    BY <1>1, <1>2, <1>3, <1>5, LettersKept DEF Mailroom, LetterTypes
  <1>7. Guarded'
    <2>1. ASSUME NEW a \in Redrivers, redrive'[a] # NoRedriver
          PROVE  /\ redrive'[a].free \/ Recipient(redrive'[a].receipt) \in guard'
                 /\ redrive'[a].checked => redrive'[a].free
      <3>1. CASE Recipient(redrive[a].receipt) = c BY <1>2, <1>4, <2>1, <3>1
      <3>2. CASE Recipient(redrive[a].receipt) # c
        BY <1>1, <1>3, <1>4, <2>1, <3>2 DEF Mailroom, Guarded
      <3> QED BY <3>1, <3>2
    <2>2. \A d \in redriven' : d.free BY <1>1 DEF Mailroom, Guarded
    <2> QED BY <2>1, <2>2 DEF Guarded, Recipient
  <1>8. Counted'
    <2>1. \A a \in Redrivers : redrive'[a] # NoRedriver =>
            redrive'[a].receipt = redrive[a].receipt /\ redrive'[a].audit = redrive[a].audit
      BY <1>2, <1>3, <1>4
    <2>2. \A b \in Redrivers : redrive[b] = NoRedriver => redrive'[b] = NoRedriver
      BY <1>3
    <2> QED BY <1>1, <1>4, <2>1, <2>2 DEF Mailroom, Counted, Of
  <1> QED BY <1>6, <1>7, <1>8 DEF Mailroom

LEMMA RedriveFound == ASSUME Mailroom, NEW a \in Redrivers, NEW r \in Letters, RedriveFind(a, r)
                PROVE  Mailroom'
  <1> DEFINE q == [receipt |-> r, checked |-> FALSE, audit |-> letter[r].audit,
                   free |-> Recipient(r) \notin guard]
  <1>1. /\ redrive[a] = NoRedriver /\ redrive' = [redrive EXCEPT ![a] = q]
        /\ overtake \/ \A b \in Redrivers : redrive[b] = NoRedriver
        /\ UNCHANGED <<overtake, letter, guard, reader, died, redriven>>
    BY DEF RedriveFind
  <1>2. /\ q.receipt = r /\ ~q.checked /\ q.audit = letter[r].audit
        /\ q.free = (Recipient(r) \notin guard) /\ q \in RedriveRec
    BY DEF Mailroom, LetterTypes, LetterRec, RedriveRec
  <1> HIDE DEF q
  <1>3. /\ redrive'[a] = q /\ \A b \in Redrivers \ {a} : redrive'[b] = redrive[b]
        /\ redrive' = [b \in Redrivers |-> redrive'[b]]
    BY <1>1 DEF Mailroom, LetterTypes
  <1>4. LetterTypes' /\ Pages'
    BY <1>1, <1>2, <1>3, LettersKept DEF Mailroom, LetterTypes
  <1>5. Guarded'
    BY <1>1, <1>2, <1>3 DEF Mailroom, Guarded, Recipient
  <1>6. Counted' BY <1>1, <1>2, <1>3 DEF Mailroom, Counted, Of
  <1> QED BY <1>4, <1>5, <1>6 DEF Mailroom

LEMMA CheckedGuard == ASSUME Mailroom, NEW a \in Redrivers, RedriveCheck(a) PROVE Mailroom'
  <1>1. /\ redrive[a] # NoRedriver /\ UNCHANGED <<overtake, letter, guard, reader, died, redriven>>
    BY DEF RedriveCheck
  <1>2. redrive[a] \in RedriveRec BY <1>1 DEF Mailroom, LetterTypes
  <1>3. \/ redrive' = [redrive EXCEPT ![a] = NoRedriver]
        \/ /\ Recipient(redrive[a].receipt) \notin guard
           /\ redrive' = [redrive EXCEPT ![a] = [redrive[a] EXCEPT !.checked = TRUE]]
    BY DEF RedriveCheck, GuardBlocks
  <1>4. PICK q : /\ redrive' = [redrive EXCEPT ![a] = q]
                 /\ \/ q = NoRedriver
                    \/ /\ q \in RedriveRec /\ q.receipt = redrive[a].receipt
                       /\ q.audit = redrive[a].audit /\ q.free
    <2> DEFINE q == [redrive[a] EXCEPT !.checked = TRUE]
    <2>1. /\ q \in RedriveRec /\ q.receipt = redrive[a].receipt
          /\ q.audit = redrive[a].audit /\ q.free = redrive[a].free
      BY <1>2 DEF RedriveRec
    <2>2. redrive[a].free \/ Recipient(redrive[a].receipt) \in guard
      BY <1>1 DEF Mailroom, Guarded
    <2> HIDE DEF q
    <2>3. CASE redrive' = [redrive EXCEPT ![a] = NoRedriver] BY <2>3
    <2>4. CASE /\ Recipient(redrive[a].receipt) \notin guard
               /\ redrive' = [redrive EXCEPT ![a] = q]
      BY <2>1, <2>2, <2>4
    <2> QED BY <1>3, <2>3, <2>4 DEF q
  <1>5. /\ redrive'[a] = q /\ \A b \in Redrivers \ {a} : redrive'[b] = redrive[b]
        /\ redrive' = [b \in Redrivers |-> redrive'[b]]
    BY <1>4 DEF Mailroom, LetterTypes
  <1>6. LetterTypes' /\ Pages'
    BY <1>1, <1>4, <1>5, LettersKept DEF Mailroom, LetterTypes
  <1>7. Guarded' BY <1>1, <1>4, <1>5 DEF Mailroom, Guarded, Recipient
  <1>8. Counted' BY <1>1, <1>4, <1>5 DEF Mailroom, Counted, Of
  <1> QED BY <1>6, <1>7, <1>8 DEF Mailroom

\* A worker gives up: only the receipt's row changes, which nothing stood for.
LEMMA Died == ASSUME Mailroom, NEW r \in Letters, NEW n \in Tries, Die(r, n) PROVE Mailroom'
  <1>1. /\ letter[r].state = "PENDING" /\ died' = died + 1
        /\ reader' = [reader EXCEPT !.still = FALSE]
        /\ UNCHANGED <<overtake, guard, redrive, redriven>>
    BY DEF Die
  <1>2. PICK now \in {died, died + 1} :
          letter' = [letter EXCEPT ![r] = [state |-> "DEAD_LETTERED", attempts |-> n,
                                           resolved |-> now, audit |-> letter[r].audit]]
    BY DEF Die
  <1> DEFINE new == [state |-> "DEAD_LETTERED", attempts |-> n, resolved |-> now,
                     audit |-> letter[r].audit]
  <1>3. died \in Nat /\ now \in Nat /\ n \in Nat /\ letter[r] \in LetterRec
    BY LetterBounds DEF Mailroom, LetterTypes
  <1>4. new \in LetterRec /\ new.audit = letter[r].audit /\ new.state = "DEAD_LETTERED"
    BY <1>3 DEF LetterRec
  <1>5. letter' = [letter EXCEPT ![r] = new] BY <1>2
  <1> HIDE DEF new
  <1>6. /\ letter' \in [Letters -> LetterRec] /\ letter'[r] = new
        /\ \A s \in Letters \ {r} : letter'[s] = letter[s]
    BY <1>4, <1>5 DEF Mailroom, LetterTypes
  <1>7. Dead' = Dead \cup {r} BY <1>4, <1>6 DEF Dead
  <1>8. /\ reader' \in Listing
        /\ reader'.cursor = reader.cursor /\ reader'.seen = reader.seen
        /\ reader'.from = reader.from /\ reader'.ordered = reader.ordered
        /\ reader'.open = reader.open /\ reader'.standing = reader.standing /\ ~reader'.still
    BY <1>1 DEF Mailroom, LetterTypes, Listing
  <1>9. LetterTypes'
    <2>1. IsFiniteSet(Dead') BY <1>7, FS_AddElement DEF Mailroom, LetterTypes
    <2>2. died' \in Nat BY <1>1, <1>3
    <2> QED BY <1>1, <1>6, <1>8, <2>1, <2>2 DEF Mailroom, LetterTypes
  <1>10. Guarded' BY <1>1 DEF Mailroom, Guarded, Recipient
  <1>11. Counted'
    <2>1. \A s \in Letters : letter'[s].audit = letter[s].audit BY <1>4, <1>6
    <2>2. \A a \in Redrivers : redrive[a] # NoRedriver => redrive[a].receipt \in Letters
      BY DEF Mailroom, LetterTypes, RedriveRec
    <2> QED BY <1>1, <2>1, <2>2 DEF Mailroom, Counted, Of
  <1>12. Pages'
    <2>1. CASE reader.ordered
      <3>1. \A s \in reader.standing : s \in Dead BY <2>1 DEF Mailroom, Pages, Nothing
      <3>2. r \notin reader.standing BY <1>1, <3>1 DEF Dead
      <3>3. \A s \in reader.standing : s \in Dead' /\ letter'[s].resolved = letter[s].resolved
        BY <1>6, <1>7, <3>1, <3>2 DEF Dead
      <3> QED BY <1>8, <3>3, PagesKept
    <2>2. CASE ~reader.ordered BY <1>8, <2>2 DEF Pages
    <2> QED BY <2>1, <2>2
  <1> QED BY <1>9, <1>10, <1>11, <1>12 DEF Mailroom

\* A redrive is one more of its receipt's.
LEMMA OneMoreOf ==
    ASSUME LetterTypes, NEW r \in Letters, NEW free \in BOOLEAN, NEW d,
           d = [receipt |-> r, nth |-> Cardinality(Of(r)) + 1, free |-> free],
           \A e \in redriven : e.nth <= Cardinality(Of(e.receipt)),
           redriven' = redriven \cup {d}
    PROVE  /\ d \in [receipt : Letters, nth : Nat, free : BOOLEAN]
           /\ Cardinality(Of(r)) \in Nat /\ d.receipt = r /\ d.free = free
           /\ d.nth = Cardinality(Of(r)) + 1
           /\ IsFiniteSet(redriven')
           /\ Cardinality(Of(r)') = Cardinality(Of(r)) + 1
           /\ \A s \in Letters \ {r} : Of(s)' = Of(s)
  <1>1. Of(r) \in SUBSET redriven BY DEF Of
  <1>2. IsFiniteSet(redriven) BY DEF LetterTypes
  <1>3. IsFiniteSet(Of(r)) BY <1>1, <1>2, FS_Subset
  <1>4. Cardinality(Of(r)) \in Nat BY <1>3, FS_CardinalityType
  <1>5. d.receipt = r /\ d.nth = Cardinality(Of(r)) + 1 /\ d.free = free OBVIOUS
  <1>6. d \in [receipt : Letters, nth : Nat, free : BOOLEAN] BY <1>4
  <1>7. d \notin Of(r)
    <2>1. SUFFICES ASSUME d \in Of(r) PROVE FALSE
      OBVIOUS
    <2>2. d.nth <= Cardinality(Of(r)) BY <1>1, <1>5, <2>1
    <2> QED BY <1>4, <1>5, <2>2
  <1>8. Of(r)' = Of(r) \cup {d} /\ \A s \in Letters \ {r} : Of(s)' = Of(s)
    <2>1. d.receipt = r BY <1>5
    <2>2. Of(r)' = Of(r) \cup {d} BY <2>1 DEF Of
    <2>3. \A s \in Letters \ {r} : Of(s)' = Of(s) BY <2>1 DEF Of
    <2> QED BY <2>2, <2>3
  <1>9. IsFiniteSet(redriven') BY <1>2, FS_AddElement
  <1>10. Cardinality(Of(r)') = Cardinality(Of(r)) + 1
    <2>1. PICK o : o = Of(r) OBVIOUS
    <2>2. Cardinality(o \cup {d}) = Cardinality(o) + 1 BY <1>3, <1>7, <2>1, FS_AddElement
    <2> QED BY <1>8, <2>1, <2>2
  <1> QED BY <1>4, <1>5, <1>6, <1>8, <1>9, <1>10

LEMMA Redriven == ASSUME Mailroom, NEW a \in Redrivers, RedriveUpdate(a) PROVE Mailroom'
  <1>Request. PICK q : q = redrive[a] OBVIOUS
  <1> DEFINE r == q.receipt
             new == [state |-> "PENDING", attempts |-> 0, resolved |-> 0, audit |-> q.audit + 1]
  <1>Entry. PICK d : d = [receipt |-> r, nth |-> Cardinality(Of(r)) + 1, free |-> q.free] OBVIOUS
  <1>1. /\ q # NoRedriver /\ q.checked
        /\ letter' = [letter EXCEPT ![r] = new] /\ redriven' = redriven \cup {d}
        /\ reader' = [reader EXCEPT !.standing = reader.standing \ {r}, !.still = FALSE]
        /\ redrive' = [redrive EXCEPT ![a] = NoRedriver] /\ UNCHANGED <<overtake, guard, died>>
    BY <1>Request, <1>Entry DEF RedriveUpdate, Of
  <1>2. /\ q \in RedriveRec /\ q.free BY <1>Request, <1>1 DEF Mailroom, LetterTypes, Guarded
  <1>3. r \in Letters /\ q.audit \in Nat BY <1>2 DEF RedriveRec
  <1>4. new \in LetterRec /\ new.audit = q.audit + 1 /\ new.state = "PENDING"
    BY <1>3 DEF LetterRec
  <1>5. /\ d \in [receipt : Letters, nth : Nat, free : BOOLEAN] /\ d.free
        /\ d.receipt = r /\ d.nth = Cardinality(Of(r)) + 1
        /\ Cardinality(Of(r)) \in Nat /\ IsFiniteSet(redriven')
        /\ Cardinality(Of(r)') = Cardinality(Of(r)) + 1
        /\ \A s \in Letters \ {r} : Of(s)' = Of(s)
    <2>1. q.free \in BOOLEAN BY <1>2 DEF RedriveRec
    <2>2. \A e \in redriven : e.nth <= Cardinality(Of(e.receipt)) BY DEF Mailroom, Counted
    <2>3. LetterTypes /\ redriven' = redriven \cup {d} BY <1>1 DEF Mailroom
    <2>4. PICK s \in Letters, f \in BOOLEAN : s = r /\ f = q.free BY <1>3, <2>1
    <2>5. d = [receipt |-> s, nth |-> Cardinality(Of(s)) + 1, free |-> f] BY <1>Entry, <2>4
    <2>6. /\ d \in [receipt : Letters, nth : Nat, free : BOOLEAN]
          /\ Cardinality(Of(s)) \in Nat /\ d.receipt = s /\ d.free = f
          /\ d.nth = Cardinality(Of(s)) + 1
          /\ IsFiniteSet(redriven')
          /\ Cardinality(Of(s)') = Cardinality(Of(s)) + 1
          /\ \A t \in Letters \ {s} : Of(t)' = Of(t)
      BY <2>2, <2>3, <2>5, OneMoreOf
    <2> QED BY <1>2, <2>4, <2>6
  <1> HIDE DEF new, r
  <1>6. /\ letter' \in [Letters -> LetterRec] /\ letter'[r] = new
        /\ \A s \in Letters \ {r} : letter'[s] = letter[s]
    BY <1>1, <1>3, <1>4 DEF Mailroom, LetterTypes
  <1>7. Dead' = Dead \ {r} BY <1>4, <1>6 DEF Dead
  <1>8. /\ redrive'[a] = NoRedriver /\ \A b \in Redrivers \ {a} : redrive'[b] = redrive[b]
        /\ redrive' = [b \in Redrivers |-> redrive'[b]]
    BY <1>1 DEF Mailroom, LetterTypes
  <1>9. /\ reader' \in Listing
        /\ reader'.cursor = reader.cursor /\ reader'.seen = reader.seen
        /\ reader'.from = reader.from /\ reader'.ordered = reader.ordered
        /\ reader'.open = reader.open /\ reader'.standing = reader.standing \ {r} /\ ~reader'.still
    <2>1. reader \in Listing BY DEF Mailroom, LetterTypes
    <2> DEFINE rest == reader.standing \ {r}
    <2>2. rest \in SUBSET Letters BY <2>1 DEF Listing
    <2>3. reader' = [reader EXCEPT !.standing = rest, !.still = FALSE] BY <1>1
    <2> HIDE DEF rest
    <2>4. reader' \in Listing BY <2>1, <2>2, <2>3 DEF Listing
    <2>5. reader'.cursor = reader.cursor /\ reader'.seen = reader.seen
      BY <2>1, <2>3 DEF Listing
    <2>6. reader'.from = reader.from /\ reader'.ordered = reader.ordered
      BY <2>1, <2>3 DEF Listing
    <2>7. reader'.open = reader.open /\ reader'.standing = rest /\ ~reader'.still
      BY <2>1, <2>3 DEF Listing
    <2> QED BY <2>4, <2>5, <2>6, <2>7 DEF rest
  <1>10. LetterTypes'
    <2>1. IsFiniteSet(Dead') BY <1>7, FS_RemoveElement DEF Mailroom, LetterTypes
    <2>2. redriven' \in SUBSET [receipt : Letters, nth : Nat, free : BOOLEAN]
      BY <1>1, <1>5 DEF Mailroom, LetterTypes
    <2>3. \A b \in Redrivers : redrive'[b] = NoRedriver \/ redrive'[b] \in RedriveRec
      BY <1>8 DEF Mailroom, LetterTypes
    <2> QED BY <1>1, <1>5, <1>6, <1>8, <1>9, <2>1, <2>2, <2>3 DEF Mailroom, LetterTypes
  <1>11. Guarded' BY <1>1, <1>5, <1>8 DEF Mailroom, Guarded, Recipient
  <1>12. Counted'
    <2>1. \A e \in redriven' : e.nth <= Cardinality(Of(e.receipt)')
      <3>1. SUFFICES ASSUME NEW e \in redriven' PROVE e.nth <= Cardinality(Of(e.receipt)')
        OBVIOUS
      <3>2. CASE e = d BY <1>5, <3>2
      <3>3. CASE e \in redriven
        <4>1. e.receipt \in Letters /\ e.nth \in Nat /\ e.nth <= Cardinality(Of(e.receipt))
          BY <3>3 DEF Mailroom, LetterTypes, Counted
        <4> QED BY <1>5, <4>1
      <3> QED BY <1>1, <3>2, <3>3
    <2>2. ASSUME ~overtake
          PROVE  /\ \A s \in Letters : letter'[s].audit = Cardinality(Of(s)')
                 /\ \A b \in Redrivers : redrive'[b] = NoRedriver
      <3>1. /\ q.audit = letter[r].audit /\ \A b \in Redrivers \ {a} : redrive[b] = NoRedriver
            /\ \A s \in Letters : letter[s].audit = Cardinality(Of(s))
        BY <1>Request, <1>1, <2>2 DEF Mailroom, Counted, r
      <3> QED BY <1>3, <1>4, <1>5, <1>6, <1>8, <3>1
    <2> QED BY <1>1, <2>1, <2>2 DEF Counted, Of
  <1>13. Pages'
    <2>1. CASE reader.ordered
      <3>1. \A s \in reader.standing : s \in Dead BY <2>1 DEF Mailroom, Pages, Nothing
      <3>2. \A s \in reader'.standing : s \in Dead' /\ letter'[s].resolved = letter[s].resolved
        BY <1>6, <1>7, <1>9, <3>1 DEF Dead
      <3> QED BY <1>9, <3>2, PagesKept
    <2>2. CASE ~reader.ordered BY <1>9, <2>2 DEF Pages
    <2> QED BY <2>1, <2>2
  <1> QED BY <1>10, <1>11, <1>12, <1>13 DEF Mailroom

LEMMA Started == ASSUME Mailroom, NEW from \in 0 .. MaxDied, StartListing(from) PROVE Mailroom'
  <1> DEFINE all == {r \in Dead : letter[r].resolved >= from}
  <1>1. /\ reader' = [cursor |-> 0, seen |-> <<>>, from |-> from, open |-> TRUE,
                      standing |-> all, ordered |-> TRUE, still |-> TRUE]
        /\ UNCHANGED <<overtake, letter, guard, redrive, died, redriven>>
    BY DEF StartListing
  <1>2. /\ reader'.cursor = 0 /\ reader'.seen = <<>> /\ reader'.from = from /\ reader'.open
        /\ reader'.standing = all /\ reader'.ordered /\ reader'.still
    BY <1>1
  <1>3. reader' \in Listing
    <2>1. <<>> \in Seq(Letters) /\ from \in Nat BY LetterBounds
    <2>2. all \in SUBSET Letters BY DEF Dead
    <2> HIDE DEF all
    <2> QED BY <1>1, <2>1, <2>2 DEF Listing
  <1> HIDE DEF all
  <1>4. Dead' = Dead BY <1>1 DEF Dead
  <1>5. LetterTypes' BY <1>1, <1>3, <1>4 DEF Mailroom, LetterTypes
  <1>6. Guarded' /\ Counted' BY <1>1 DEF Mailroom, Guarded, Counted, Of, Recipient
  <1>7. Got' = {} BY <1>2 DEF Got
  <1>8. Falling' /\ AtCursor' BY <1>2 DEF Falling, AtCursor
  <1>9. Nothing' /\ Unchanged'
    BY <1>1, <1>2, <1>4, <1>7 DEF Nothing, Unchanged, Below, all
  <1>10. Pages' BY <1>8, <1>9 DEF Pages
  <1> QED BY <1>5, <1>6, <1>10 DEF Mailroom

\* Where ids and times agree a query has what matches, each receipt once, ids falling.
LEMMA Query ==
    ASSUME LetterTypes, Agreeing, NEW M \in SUBSET Dead, NEW p \in Listings(M)
    PROVE  /\ p \in Seq(Letters) /\ Len(p) \in Nat /\ DOMAIN p = 1 .. Len(p)
           /\ \A i \in DOMAIN p : p[i] \in M
           /\ \A i, j \in DOMAIN p : i < j => p[i] > p[j]
           /\ \A r \in M : \E i \in DOMAIN p : p[i] = r
  <1> DEFINE n == Cardinality(M)
  <1>1. IsFiniteSet(M) /\ n \in Nat
    BY FS_Subset, FS_CardinalityType DEF LetterTypes
  <1>2. /\ p \in [1 .. n -> M]
        /\ \A i, j \in DOMAIN p :
             i < j => p[i] # p[j] /\ letter[p[i]].resolved >= letter[p[j]].resolved
    BY DEF Listings
  <1> HIDE DEF n
  <1>3. M \subseteq Letters BY DEF Dead
  <1>4. p \in Seq(Letters) /\ Len(p) = n /\ DOMAIN p = 1 .. n
    <2>1. p \in [1 .. n -> Letters] BY <1>2, <1>3
    <2>2. p \in Seq(Letters) BY <1>1, <2>1
    <2>3. DOMAIN p = 1 .. n BY <2>1
    <2> QED BY <1>1, <2>2, <2>3, LenProperties
  <1>5. \A i \in DOMAIN p : /\ p[i] \in M /\ p[i] \in Dead /\ p[i] \in Nat
                            /\ letter[p[i]].resolved \in Nat
    BY <1>2, <1>3, <1>4, LetterBounds DEF LetterTypes, LetterRec
  <1>6. ASSUME NEW i \in DOMAIN p, NEW j \in DOMAIN p, i < j
        PROVE  p[i] > p[j]
    <2>1. p[i] # p[j] /\ letter[p[i]].resolved >= letter[p[j]].resolved BY <1>2, <1>6
    <2>2. p[i] < p[j] => letter[p[i]].resolved < letter[p[j]].resolved
      BY <1>5 DEF Agreeing
    <2> QED BY <1>5, <2>1, <2>2
  <1>7. p \in Injection(1 .. n, M)
    <2>1. \A i, j \in 1 .. n : i # j => p[i] # p[j]
      <3>1. SUFFICES ASSUME NEW i \in 1 .. n, NEW j \in 1 .. n, i # j PROVE p[i] # p[j]
        OBVIOUS
      <3>2. i < j \/ j < i BY <1>1, <3>1
      <3> QED BY <1>2, <1>4, <3>2
    <2> QED BY <1>2, <1>4, <2>1 DEF Injection, IsInjective
  <1>8. p \in Surjection(1 .. n, M)
    <2>1. Cardinality(1 .. n) = n BY <1>1, FS_Interval
    <2> QED BY <1>1, <1>7, <2>1, FS_Injection DEF n
  <1>9. \A r \in M : \E i \in DOMAIN p : p[i] = r BY <1>4, <1>8 DEF Surjection
  <1> QED BY <1>1, <1>4, <1>5, <1>6, <1>9

\* A page takes the listing down to its last receipt, which is the next cursor.
LEMMA Paged == ASSUME Mailroom, NextPage PROVE Mailroom'
  <1>1. PICK p \in Listings(Matching(reader)) :
          LET page == SubSeq(p, 1, Smaller(Len(p), PageSize)) IN
          reader' = [reader EXCEPT
              !.seen = reader.seen \o page, !.ordered = reader.ordered /\ Agreeing,
              !.open = Len(p) > PageSize,
              !.cursor = IF Len(p) > PageSize THEN page[PageSize] ELSE reader.cursor]
    BY DEF NextPage
  <1>2. reader.open /\ UNCHANGED <<overtake, letter, guard, redrive, died, redriven>>
    BY DEF NextPage
  <1>3. reader \in Listing /\ LetterTypes BY DEF Mailroom, LetterTypes
  <1> DEFINE M == Matching(reader)  n == Len(p)  k == Smaller(n, PageSize)
             page == SubSeq(p, 1, k)  seen == reader.seen \o page
             ordered == reader.ordered /\ Agreeing  open == n > PageSize
             cursor == IF n > PageSize THEN page[PageSize] ELSE reader.cursor
  <1>4. M \in SUBSET Dead /\ M \in SUBSET Letters BY DEF Matching, Dead
  <1>5. /\ p \in Seq(Letters) /\ n \in Nat /\ DOMAIN p = 1 .. n
        /\ \A i \in DOMAIN p : p[i] \in M
    <2>1. IsFiniteSet(M) BY <1>3, <1>4, FS_Subset DEF LetterTypes
    <2>2. Cardinality(M) \in Nat BY <2>1, FS_CardinalityType
    <2>3. p \in [1 .. Cardinality(M) -> M] BY DEF Listings
    <2>4. p \in Seq(Letters) BY <1>4, <2>2, <2>3
    <2> QED BY <2>3, <2>4, LenProperties
  <1>Bounds. /\ PageSize \in Nat /\ PageSize > 0 /\ PageSize >= 1
        /\ \A r \in Letters : r \in Nat /\ r # 0
    BY LetterBounds
  <1> HIDE DEF n
  <1>6. /\ k \in Nat /\ k <= n /\ k <= PageSize
        /\ n <= PageSize => k = n
        /\ n > PageSize => k = PageSize
    BY <1>5, <1>Bounds DEF Smaller
  <1> HIDE DEF k
  <1>7. /\ page \in Seq(Letters) /\ Len(page) = k /\ DOMAIN page = 1 .. k
        /\ \A i \in 1 .. k : page[i] = p[i]
    <2>1. \A i \in 1 .. k : p[i] \in Letters
      <3>1. \A i \in 1 .. k : i \in 1 .. n BY <1>5, <1>6
      <3> QED BY <1>4, <1>5, <3>1
    <2>2. /\ page \in Seq(Letters) /\ Len(page) = IF 1 <= k THEN k - 1 + 1 ELSE 0
          /\ \A i \in 1 .. k - 1 + 1 : page[i] = p[1 + i - 1]
      BY <1>6, <2>1, SubSeqProperties
    <2>3. Len(page) = k BY <1>6, <2>2
    <2>4. \A i \in 1 .. k : page[i] = p[i] BY <1>6, <2>2
    <2> QED BY <2>2, <2>3, <2>4, LenProperties
  <1>8. reader.seen \in Seq(Letters) BY <1>3 DEF Listing
  <1> DEFINE m == Len(reader.seen)
  <1> HIDE DEF page
  <1>Length. m \in Nat /\ DOMAIN reader.seen = 1 .. m BY <1>8, LenProperties
  <1>9. /\ seen \in Seq(Letters) /\ Len(seen) = m + k /\ DOMAIN seen = 1 .. m + k
        /\ m \in Nat /\ DOMAIN reader.seen = 1 .. m
        /\ \A i \in 1 .. m + k : seen[i] = IF i <= m THEN reader.seen[i] ELSE page[i - m]
    <2>1. /\ seen \in Seq(Letters) /\ Len(seen) = m + k
          /\ \A i \in 1 .. m + k : seen[i] = IF i <= m THEN reader.seen[i] ELSE page[i - m]
      BY <1>7, <1>8, ConcatProperties
    <2> HIDE DEF seen, m
    <2>2. DOMAIN seen = 1 .. m + k BY <2>1, LenProperties
    <2> QED BY <1>Length, <2>1, <2>2
  <1>10. reader' = [reader EXCEPT !.seen = seen, !.ordered = ordered, !.open = open,
                                  !.cursor = cursor]
    BY <1>1 DEF page, n, k
  <1>11. ordered \in BOOLEAN /\ open \in BOOLEAN /\ cursor \in Nat
    <2>1. n > PageSize => PageSize \in 1 .. k BY <1>6, <1>Bounds
    <2>3. \A i \in 1 .. k : page[i] \in Nat BY <1>7, <1>Bounds
    <2>2. reader.ordered \in BOOLEAN /\ reader.cursor \in Nat BY <1>3 DEF Listing
    <2> QED BY <2>1, <2>2, <2>3
  <1> HIDE DEF seen, ordered, open, cursor, m
  <1>12. reader' \in Listing BY <1>3, <1>9, <1>10, <1>11 DEF Listing
  <1>13. reader'.seen = seen /\ reader'.ordered = ordered BY <1>3, <1>10 DEF Listing
  <1>14. reader'.open = open /\ reader'.cursor = cursor BY <1>3, <1>10 DEF Listing
  <1>15. /\ reader'.standing = reader.standing /\ reader'.from = reader.from
         /\ reader'.still = reader.still
    BY <1>3, <1>10 DEF Listing
  <1>16. Dead' = Dead BY <1>2 DEF Dead
  <1>17. LetterTypes' BY <1>2, <1>12, <1>16 DEF Mailroom, LetterTypes
  <1>18. Guarded' /\ Counted' BY <1>2 DEF Mailroom, Guarded, Counted, Of, Recipient
  <1>19. ASSUME ordered
         PROVE  /\ Falling' /\ Nothing'
                /\ open => AtCursor'
                /\ reader.still => Unchanged'
    <2>1. reader.ordered /\ Agreeing BY <1>19 DEF ordered
    <2>2. Falling /\ Nothing /\ AtCursor /\ (reader.still => Unchanged)
      BY <1>2, <2>1 DEF Mailroom, Pages
    <2>3. /\ \A i, j \in DOMAIN p : i < j => p[i] > p[j]
          /\ \A r \in M : \E i \in DOMAIN p : p[i] = r
      BY <1>3, <1>4, <2>1, Query
    <2>4. \A i \in 1 .. n : p[i] \in Dead /\ p[i] \in Nat /\ Below(p[i], reader.cursor)
      BY <1>4, <1>5, <1>Bounds DEF Matching, n
    <2>5. \A i \in 1 .. m : /\ seen[i] = reader.seen[i] /\ reader.seen[i] \in Nat
                            /\ i \in DOMAIN reader.seen
      <3>1. \A i \in 1 .. m : i \in 1 .. m + k /\ i <= m BY <1>6, <1>9
      <3>2. \A i \in 1 .. m : reader.seen[i] \in Nat BY <1>8, <1>9, <1>Bounds
      <3> QED BY <1>9, <3>1, <3>2
    <2>6. \A i \in 1 .. m + k : i > m => seen[i] = p[i - m] /\ i - m \in 1 .. k /\ i - m \in 1 .. n
      <3>1. \A i \in 1 .. m + k : i > m => i - m \in 1 .. k /\ i - m \in 1 .. n /\ ~(i <= m)
        BY <1>5, <1>6, <1>9
      <3> QED BY <1>7, <1>9, <3>1
    <2>7. Falling'
      <3>1. SUFFICES ASSUME NEW i \in 1 .. m + k, NEW j \in 1 .. m + k, i < j
                     PROVE  seen[i] > seen[j]
        BY <1>9, <1>13 DEF Falling
      <3>2. CASE j <= m
        <4>1. i \in 1 .. m /\ j \in 1 .. m BY <1>6, <1>9, <3>1, <3>2
        <4> QED BY <2>2, <2>5, <3>1, <4>1 DEF Falling
      <3>3. CASE i > m
        <4>1. j > m /\ i - m < j - m BY <1>6, <1>9, <3>1, <3>3
        <4> QED BY <1>5, <2>3, <2>6, <3>3, <4>1 DEF n
      <3>4. CASE i <= m /\ j > m
        <4>1. i \in 1 .. m /\ m \in 1 .. m BY <1>6, <1>9, <3>1, <3>4
        <4>2. reader.seen # <<>> BY <1>9, <4>1
        <4>3. reader.cursor # 0 /\ reader.cursor = reader.seen[m]
          BY <2>2, <4>2 DEF AtCursor, m
        <4>4. reader.seen[i] >= reader.seen[m]
          <5>1. CASE i = m BY <2>5, <4>1, <5>1
          <5>2. CASE i # m
            <6>1. i < m BY <1>9, <4>1, <5>2
            <6> QED BY <2>2, <2>5, <4>1, <6>1 DEF Falling
          <5> QED BY <5>1, <5>2
        <4>5. seen[j] \in Nat /\ seen[j] < reader.cursor
          BY <2>4, <2>6, <3>4, <4>3 DEF Below
        <4> QED BY <2>5, <4>1, <4>3, <4>4, <4>5
      <3> QED BY <1>6, <1>9, <3>2, <3>3, <3>4
    <2>8. open => /\ k = PageSize /\ k \in 1 .. n /\ cursor = p[k] /\ cursor # 0
                  /\ m + k \in 1 .. m + k /\ seen[m + k] = p[k] /\ seen # <<>>
      <3>1. SUFFICES ASSUME open
                     PROVE  /\ k = PageSize /\ k \in 1 .. n /\ cursor = p[k] /\ cursor # 0
                            /\ m + k \in 1 .. m + k /\ seen[m + k] = p[k] /\ seen # <<>>
        OBVIOUS
      <3>2. n > PageSize /\ k = PageSize /\ k > 0 BY <1>6, <3>1, <1>Bounds DEF open
      <3>3. k \in 1 .. n /\ k \in 1 .. k /\ m + k \in 1 .. m + k /\ m + k > m
        BY <1>5, <1>6, <1>9, <3>2
      <3>4. cursor = p[k] BY <1>7, <3>2, <3>3 DEF cursor
      <3>5. p[k] # 0 BY <1>4, <1>5, <3>3, <1>Bounds DEF n
      <3>6. seen # <<>> BY <1>9, <3>3
      <3>7. seen[m + k] = p[k]
        <4>1. PICK i : i = m + k OBVIOUS
        <4>2. i \in 1 .. m + k /\ i > m /\ i - m = k BY <1>6, <1>9, <3>3, <4>1
        <4>3. seen[i] = p[i - m] BY <2>6, <4>2
        <4> QED BY <4>1, <4>2, <4>3
      <3> QED BY <3>2, <3>3, <3>4, <3>5, <3>6, <3>7
    <2>9. open => AtCursor' BY <1>9, <1>13, <1>14, <2>8 DEF AtCursor
    <2>10. /\ \A r \in Got : r \in Got'
           /\ \A i \in 1 .. k : p[i] \in Got'
      <3>1. \A i \in 1 .. m : seen[i] = reader.seen[i] /\ i \in DOMAIN seen
        BY <1>6, <1>9, <2>5
      <3>2. \A i \in 1 .. k : seen[m + i] = p[i] /\ m + i \in DOMAIN seen
        <4>1. SUFFICES ASSUME NEW i \in 1 .. k PROVE seen[m + i] = p[i] /\ m + i \in 1 .. m + k
          BY <1>9
        <4>2. PICK j : j = m + i OBVIOUS
        <4>3. j \in 1 .. m + k /\ j > m /\ j - m = i BY <1>6, <1>9, <4>1, <4>2
        <4> QED BY <2>6, <4>2, <4>3
      <3> QED BY <1>9, <1>13, <3>1, <3>2 DEF Got
    <2>11. \A r \in Got' : r \in Got \/ \E i \in 1 .. n : r = p[i]
      BY <1>9, <1>13, <2>5, <2>6 DEF Got
    <2>12. Nothing'
      <3>1. SUFFICES ASSUME NEW r \in reader.standing
                     PROVE  /\ r \in Dead /\ letter[r].resolved >= reader.from
                            /\ r \in Got' \/ (open /\ Below(r, cursor))
        BY <1>2, <1>14, <1>15, <1>16 DEF Nothing, Below
      <3>2. r \in Dead /\ letter[r].resolved >= reader.from BY <2>2, <3>1 DEF Nothing
      <3>3. CASE r \in Got BY <2>10, <3>2, <3>3
      <3>4. CASE Below(r, reader.cursor)
        <4>1. r \in M BY <3>2, <3>4 DEF Matching
        <4>2. PICK i \in 1 .. n : p[i] = r BY <1>5, <2>3, <4>1 DEF n
        <4>3. CASE i <= k
          <5>1. i \in 1 .. k BY <1>6, <4>3
          <5> QED BY <2>10, <3>2, <4>2, <5>1
        <4>4. CASE i > k
          <5>1. open
            <6>1. ~(n <= PageSize) BY <1>5, <1>6, <4>2, <4>4
            <6> QED BY <1>5, <1>Bounds, <6>1 DEF open
          <5>2. p[k] > p[i] BY <1>5, <2>3, <2>8, <4>2, <4>4, <5>1 DEF n
          <5>3. p[k] \in Nat /\ p[i] \in Nat BY <2>4, <2>8, <4>2, <5>1
          <5>4. Below(r, cursor) BY <2>8, <4>2, <5>1, <5>2, <5>3 DEF Below
          <5> QED BY <3>2, <5>1, <5>4
        <4> QED BY <1>6, <4>2, <4>3, <4>4
      <3> QED BY <1>2, <2>2, <3>1, <3>3, <3>4 DEF Nothing
    <2>13. ASSUME reader.still PROVE Unchanged'
      <3>1. Unchanged BY <2>2, <2>13
      <3>2. \A r \in Got' : r \in Dead BY <2>4, <2>11, <3>1 DEF Unchanged
      <3>3. Agreeing' BY <1>2, <1>16, <2>1 DEF Agreeing
      <3> QED BY <1>2, <1>15, <1>16, <3>1, <3>2, <3>3 DEF Unchanged
    <2> QED BY <2>7, <2>9, <2>12, <2>13
  <1>20. Pages' BY <1>13, <1>14, <1>15, <1>19 DEF Pages
  <1> QED BY <1>17, <1>18, <1>20 DEF Mailroom

LEMMA NextMailroom == Mailroom /\ [LettersNext]_dvars => Mailroom'
  <1> SUFFICES ASSUME Mailroom, [LettersNext]_dvars PROVE Mailroom'
    OBVIOUS
  <1>1. CASE UNCHANGED dvars
    <2>1. Dead' = Dead /\ Got' = Got BY <1>1 DEF dvars, Dead, Got
    <2>2. LetterTypes' BY <1>1, <2>1 DEF dvars, Mailroom, LetterTypes
    <2>3. Guarded' /\ Counted' BY <1>1 DEF dvars, Mailroom, Guarded, Counted, Of, Recipient
    <2>4. Pages'
      BY <1>1, <2>1
         DEF dvars, Mailroom, Pages, Falling, Nothing, AtCursor, Unchanged, Agreeing, Below
    <2> QED BY <2>2, <2>3, <2>4 DEF Mailroom
  <1>2. CASE \E r \in Letters : \E n \in Tries : Die(r, n) BY <1>2, Died
  <1>3. CASE \E r \in Letters : BlockRecipient(Recipient(r)) \/ UnblockRecipient(Recipient(r))
    BY <1>3, Blocked, Unblocked
  <1>4. CASE \E a \in Redrivers : HandleRedrive(a)
    BY <1>4, RedriveFound, CheckedGuard, Redriven DEF HandleRedrive
  <1>5. CASE \E from \in 0 .. MaxDied : StartListing(from) BY <1>5, Started
  <1>6. CASE NextPage BY <1>6, Paged
  <1> QED BY <1>1, <1>2, <1>3, <1>4, <1>5, <1>6 DEF LettersNext

\* DlqInv: a listing in order has everything that stood from its beginning to its end, once;
\* no redrive is for a recipient that was blocked all the while, and every one is counted.
THEOREM LettersAreAccountedFor == LettersSpec => []DlqInv
  <1>1. LettersSpec => []Mailroom BY InitMailroom, NextMailroom, PTL DEF LettersSpec
  <1> QED BY <1>1, MailroomHolds, PTL
=============================================================================
