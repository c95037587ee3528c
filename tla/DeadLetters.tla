----------------------------- MODULE DeadLetters ------------------------------
(***************************************************************************)
(* The dead-letter queue as an operator sees it: listing by pages, the     *)
(* statistics, the preview of a redrive and the redrive with its           *)
(* do-not-contact guard (apps/integration-api/src/dlq and the functions of *)
(* event-receipt.ts behind it).  ReceiptLease has what a redrive does to   *)
(* the workers; here a receipt that was redriven may die again.            *)
(***************************************************************************)
EXTENDS Naturals, Sequences, FiniteSets

CONSTANTS Letters,    \* receipts; their numbers order as the ids do
          Redrivers,  \* redrive requests in progress
          NoRedriver,
          Referenced, \* receipts with an idempotency key or a correlation id
          Tainted,    \* receipts whose evidence has a field that must not be patched
          DlqCap,     \* DlqService.maxAttempts
          Tries,      \* attempts a receipt dies with
          PageSize,   \* items of a page
          MaxDied     \* bound on the deaths, and so on the resolution times

ASSUME LetterBounds ==
    /\ Letters \subseteq Nat \ {0} /\ PageSize \in Nat \ {0}
    /\ DlqCap \in Nat /\ MaxDied \in Nat /\ Tries \subseteq Nat

VARIABLES overtake, \* whether redrives overlap in this behaviour
          letter,   \* state, attempts, resolution time and dlqAudit of each receipt
          guard,    \* recipients that must not be contacted
          redrive,  \* each request: its receipt, how far it is, the audit it has read
          reader,   \* a listing page by page: cursor, filters, what it has got
          died,     \* deaths so far
          redriven  \* history: successful redrives
dvars == <<overtake, letter, guard, redrive, reader, died, redriven>>

NoListing == [cursor |-> 0, seen |-> <<>>, standing |-> {}, from |-> 0,
              ordered |-> FALSE, still |-> FALSE, open |-> FALSE]

\* The recipient is the key of the receipt, and without one a name made up from its id: the
\* event's in a redrive and the receipt's in a preview.
Recipient(r)    == IF r \in Referenced THEN <<"key", r>> ELSE <<"event", r>>
PreviewedFor(r) == IF r \in Referenced THEN <<"key", r>> ELSE <<"receipt", r>>

LettersInit ==
    /\ overtake \in BOOLEAN
    /\ letter = [r \in Letters |-> [state |-> "PENDING", attempts |-> 0, resolved |-> 0, audit |-> 0]]
    /\ guard = {} /\ redrive = [a \in Redrivers |-> NoRedriver]
    /\ reader = NoListing /\ died = 0 /\ redriven = {}

Dead == {r \in Letters : letter[r].state = "DEAD_LETTERED"}

-----------------------------------------------------------------------------
\* A worker gives up on a receipt; two may do so within a millisecond.
Die(r, attempts) ==
    /\ letter[r].state = "PENDING" /\ died < MaxDied
    /\ died' = died + 1
    /\ \E now \in {died, died + 1} :
         letter' = [letter EXCEPT ![r] = [state |-> "DEAD_LETTERED", attempts |-> attempts,
                                          resolved |-> now, audit |-> letter[r].audit]]
    /\ reader' = [reader EXCEPT !.still = FALSE]
    /\ UNCHANGED <<overtake, guard, redrive, redriven>>

\* blockRecipient and unblockRecipient; free records that a recipient was not blocked all along.
BlockRecipient(c) ==
    /\ c \notin guard /\ guard' = guard \cup {c}
    /\ UNCHANGED <<overtake, letter, redrive, reader, died, redriven>>
UnblockRecipient(c) ==
    /\ c \in guard /\ guard' = guard \ {c}
    /\ redrive' = [a \in Redrivers |->
                     IF redrive[a] # NoRedriver /\ Recipient(redrive[a].receipt) = c
                     THEN [redrive[a] EXCEPT !.free = TRUE] ELSE redrive[a]]
    /\ UNCHANGED <<overtake, letter, reader, died, redriven>>

\* The checks of redriveReceipt before the guard, and those of the preview.
Standing(r)  == letter[r].state = "DEAD_LETTERED"
HasTries(r) == letter[r].attempts < DlqCap

\* findUnique and the checks on the row; what they refuse changes nothing.
RedriveFind(a, r) ==
    /\ redrive[a] = NoRedriver
    /\ overtake \/ \A b \in Redrivers : redrive[b] = NoRedriver
    /\ Standing(r) /\ HasTries(r)
    /\ redrive' = [redrive EXCEPT ![a] = [receipt |-> r, checked |-> FALSE,
                                          audit |-> letter[r].audit,
                                          free |-> Recipient(r) \notin guard]]
    /\ UNCHANGED <<overtake, letter, guard, reader, died, redriven>>

GuardBlocks(r) == Recipient(r) \in guard

\* The guard answers, then the evidence is looked through.
RedriveCheck(a) ==
    /\ redrive[a] # NoRedriver /\ ~redrive[a].checked
    /\ redrive' = [redrive EXCEPT ![a] =
                     IF GuardBlocks(redrive[a].receipt) \/ redrive[a].receipt \in Tainted
                     THEN NoRedriver ELSE [redrive[a] EXCEPT !.checked = TRUE]]
    /\ UNCHANGED <<overtake, letter, guard, reader, died, redriven>>

\* An update by primary key: the state is not compared again, and the count is the one read.
RedriveUpdate(a) ==
    /\ redrive[a] # NoRedriver /\ redrive[a].checked
    /\ LET r == redrive[a].receipt  count == redrive[a].audit + 1 IN
       /\ letter' = [letter EXCEPT ![r] = [state |-> "PENDING", attempts |-> 0,
                                           resolved |-> 0, audit |-> count]]
       /\ redriven' = redriven \cup {[receipt |-> r, nth |-> Cardinality(
                         {d \in redriven : d.receipt = r}) + 1, free |-> redrive[a].free]}
       /\ reader' = [reader EXCEPT !.standing = reader.standing \ {r}, !.still = FALSE]
    /\ redrive' = [redrive EXCEPT ![a] = NoRedriver]
    /\ UNCHANGED <<overtake, guard, died>>

HandleRedrive(a) == (\E r \in Letters : RedriveFind(a, r)) \/ RedriveCheck(a) \/ RedriveUpdate(a)

\* getRedrivePreview, a dry run.
CanRedrive(r) == Standing(r) /\ HasTries(r) /\ PreviewedFor(r) \notin guard

-----------------------------------------------------------------------------
\* listDeadLetteredReceipts

\* Mutant: the cursor's own receipt is listed again.
AtOrBelow(r, cursor) == cursor = 0 \/ r <= cursor

Below(r, cursor) == cursor = 0 \/ r < cursor

\* Rows come by descending resolution time, in any order when it is the same; the cursor
\* compares ids.  One row more than a page tells whether there is another.
Matching(l) == {r \in Dead : Below(r, l.cursor) /\ letter[r].resolved >= l.from}
Listings(S) ==
    {p \in [1..Cardinality(S) -> S] : \A i, j \in DOMAIN p :
       i < j => p[i] # p[j] /\ letter[p[i]].resolved >= letter[p[j]].resolved}
Smaller(x, y) == IF x < y THEN x ELSE y

\* Ids agree with the times: of two receipts the later one has the greater id.
Agreeing == \A r, s \in Dead : r < s => letter[r].resolved < letter[s].resolved

StartListing(from) ==
    /\ ~reader.open
    /\ reader' = [cursor |-> 0, seen |-> <<>>, from |-> from, open |-> TRUE,
                  standing |-> {r \in Dead : letter[r].resolved >= from},
                  ordered |-> TRUE, still |-> TRUE]
    /\ UNCHANGED <<overtake, letter, guard, redrive, died, redriven>>

NextPage ==
    /\ reader.open
    /\ \E p \in Listings(Matching(reader)) :
         LET page == SubSeq(p, 1, Smaller(Len(p), PageSize)) IN
         reader' = [reader EXCEPT
             !.seen = reader.seen \o page, !.ordered = reader.ordered /\ Agreeing,
             !.open = Len(p) > PageSize,
             !.cursor = IF Len(p) > PageSize THEN page[PageSize] ELSE reader.cursor]
    /\ UNCHANGED <<overtake, letter, guard, redrive, died, redriven>>

\* getDlqStats over the same rows.
Total  == Cardinality(Dead)
Oldest == {r \in Dead : \A s \in Dead : letter[r].resolved <= letter[s].resolved}

LettersNext ==
    \/ \E r \in Letters : \E n \in Tries : Die(r, n)
    \/ \E r \in Letters : BlockRecipient(Recipient(r)) \/ UnblockRecipient(Recipient(r))
    \/ \E a \in Redrivers : HandleRedrive(a)
    \/ (\E from \in 0..MaxDied : StartListing(from)) \/ NextPage

LettersSpec == LettersInit /\ [][LettersNext]_dvars

-----------------------------------------------------------------------------
\* A listing that has come to its end, with ids and times agreeing on every page, has each
\* receipt once at most and everything that stood from its beginning to its end; if nothing
\* changed meanwhile and nothing was filtered it is what the statistics count, and its last
\* item is their oldest.
ListingComplete ==
    LET l == reader IN
    l.seen # <<>> /\ ~l.open /\ l.ordered =>
      /\ \A i, j \in DOMAIN l.seen : i # j => l.seen[i] # l.seen[j]
      /\ l.standing \subseteq {l.seen[i] : i \in DOMAIN l.seen}
      /\ l.still /\ l.from = 0 => Len(l.seen) = Total /\ l.seen[Len(l.seen)] \in Oldest

\* No receipt is redriven for a recipient that was blocked all the while; redrives that do
\* not overlap are all counted in dlqAudit; for a receipt with a reference and without
\* forbidden fields the preview says what a redrive would do.
DlqInv ==
    /\ ListingComplete
    /\ \A d \in redriven : d.free
    /\ ~overtake => \A r \in Letters :
          letter[r].audit = Cardinality({d \in redriven : d.receipt = r})
    /\ \A r \in Referenced \ Tainted :
          CanRedrive(r) <=> Standing(r) /\ HasTries(r) /\ ~GuardBlocks(r)
=============================================================================
