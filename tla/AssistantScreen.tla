--------------------------- MODULE AssistantScreen ---------------------------
(***************************************************************************)
(* The tabs of the assistant (ui/components/assistant-panel.tsx).  Opening *)
(* a tab mounts a fresh view that starts its load; the view that was left  *)
(* is gone, but its calls go on, and all views report errors to the one    *)
(* line of the panel.  Nothing cancels a call or orders the answers.       *)
(***************************************************************************)
EXTENDS Assistant

CONSTANTS Typeable,   \* profile ids that get typed into the autofill tab
          FirstTyped, \* the one it starts with
          MaxCalls    \* bound on the calls under way

ASSUME TabsBounds == FirstTyped \in Typeable /\ MaxCalls \in Nat

VARIABLES tab,
          typed,     \* what the view is about: the profile id in the input, or "all"
          listed,    \* what the list on the screen is of, or "none"
          ticked,    \* profiles with ticked fields in their proposals
          busy,      \* the loading flag
          alert,     \* the tab that the error on the screen came from, or "none"
          offered,   \* the draft that waits for Confirm, or NoOffer
          calls,     \* calls under way; two that are alike are one
          orphaned,  \* history: a call was under way when the tab was opened
          mixed      \* history: loads of two profiles were under way at once
tabVars == <<tab, typed, listed, ticked, busy, alert, offered, calls, orphaned, mixed>>

Tabs     == {"today", "week", "autofill", "planning", "provider", "reminder"}
Clearing == {"today", "autofill", "reminder"}  \* loading clears the error

\* The pending draft: its profile, and whose proposals were on the screen at its accept.
NoOffer == [profile |-> "none", about |-> "none"]

\* apiFetch and the calls made with it; then is what follows the load after an accept.
NewCall(op, t, p) == [tab |-> t, op |-> op, profile |-> p, about |-> listed,
                      then |-> "end", live |-> TRUE]
Fetch(c, old) == Cardinality(old) < MaxCalls /\ calls' = old \cup {c}

TabsInit ==
    /\ tab = "today" /\ typed = "all" /\ listed = "none" /\ ticked = {} /\ busy = TRUE
    /\ alert = "none" /\ offered = NoOffer /\ calls = {NewCall("load", "today", "all")}
    /\ orphaned = FALSE /\ mixed = FALSE

-----------------------------------------------------------------------------
\* Opening a tab.

\* What was under way belongs to a view that is gone.
Left == {[c EXCEPT !.live = FALSE] : c \in calls}

Mount(t, p) ==
    /\ tab # t /\ tab' = t
    /\ typed' = p /\ listed' = "none" /\ ticked' = {} /\ offered' = NoOffer
    /\ orphaned' = (calls # {}) /\ mixed' = FALSE

\* load: the flag, the error of the panel, the call.
Load(t, p, old) ==
    /\ busy' = TRUE
    /\ alert' = IF t \in Clearing THEN "none" ELSE alert
    /\ Fetch(NewCall("load", t, p), old)

OpenToday    == Mount("today", "all") /\ Load("today", "all", Left)
OpenWeek     == Mount("week", "all") /\ Load("week", "all", Left)
OpenAutofill == Mount("autofill", FirstTyped) /\ Load("autofill", FirstTyped, Left)
OpenProvider == Mount("provider", "all") /\ Load("provider", "all", Left)
OpenReminder == Mount("reminder", "all") /\ Load("reminder", "all", Left)
OpenPlanning == Mount("planning", "all") /\ calls' = Left /\ busy' = FALSE /\ UNCHANGED alert

-----------------------------------------------------------------------------
\* The view that is open.

\* Every change of the input loads; a pending draft and the ticks stay.
TypeProfile(p) ==
    /\ tab = "autofill" /\ p # typed /\ typed' = p
    /\ Load(tab, p, calls)
    /\ mixed' = (mixed \/ \E c \in calls : c.live /\ c.profile # p)
    /\ UNCHANGED <<tab, listed, ticked, offered, orphaned>>

\* Today shows its button with its data only.
PressReload ==
    /\ tab \in Clearing /\ (tab = "today" => ~busy /\ listed # "none")
    /\ Load(tab, typed, calls)
    /\ UNCHANGED <<tab, typed, listed, ticked, offered, orphaned, mixed>>

ToggleField ==
    /\ tab = "autofill" /\ listed # "none"
    /\ ticked' \in {ticked \cup {listed}, ticked \ {listed}}
    /\ UNCHANGED <<tab, typed, listed, busy, alert, offered, calls, orphaned, mixed>>

\* The buttons of a proposal name the profile of the input, whatever the list is of.
Press(op) ==
    /\ Fetch(NewCall(op, tab, typed), calls)
    /\ UNCHANGED <<tab, typed, listed, ticked, busy, alert, offered, orphaned, mixed>>
PressAccept  == tab = "autofill" /\ listed \in ticked /\ Press("accept")
PressReject  == tab = "autofill" /\ listed # "none" /\ Press("reject")
PressConfirm == offered # NoOffer /\ Press("confirm")

PressCommit ==
    /\ tab = "planning" /\ ~busy
    /\ busy' = TRUE /\ alert' = "none" /\ Fetch(NewCall("commit", tab, typed), calls)
    /\ UNCHANGED <<tab, typed, listed, ticked, offered, orphaned, mixed>>

-----------------------------------------------------------------------------
\* Answers.  What a view that is gone sets is lost, except the error.

\* A proposal is looked for among those of the profile that was sent.
ProposalFound(c) == c.op \in {"accept", "reject"} => c.profile = c.about

\* The list, and what follows it: the draft of an accept, or that it only proposes.
AnswerLoad(c) ==
    /\ c.op = "load" /\ calls' = calls \ {c}
    /\ \E good \in BOOLEAN :
        /\ listed' = IF c.live /\ good THEN c.profile ELSE listed
        /\ alert' = IF good /\ c.then # "propose" THEN alert ELSE c.tab
    /\ busy' = (busy /\ ~c.live)
    /\ offered' = IF c.live /\ c.then = "offer" THEN [profile |-> c.profile, about |-> c.about]
                  ELSE offered

\* The load that follows another call, with the profile of that call.
LoadAfter(c, then) ==
    /\ calls' = (calls \ {c}) \cup {[c EXCEPT !.op = "load", !.then = then]}
    /\ busy' = (busy \/ c.live) /\ alert' = "none"
    /\ UNCHANGED listed

AnswerAccept(c) ==
    /\ c.op = "accept" /\ ProposalFound(c)
    /\ \E then \in {"offer", "propose"} : LoadAfter(c, then)
    /\ UNCHANGED offered

AnswerReject(c) == c.op = "reject" /\ ProposalFound(c) /\ LoadAfter(c, "end") /\ UNCHANGED offered

\* Whatever draft is offered by now is taken off the screen.
AnswerConfirm(c) ==
    /\ c.op = "confirm" /\ LoadAfter(c, "end")
    /\ offered' = IF c.live THEN NoOffer ELSE offered

AnswerCommit(c) ==
    /\ c.op = "commit" /\ calls' = calls \ {c}
    /\ alert' \in {alert, c.tab} /\ busy' = (busy /\ ~c.live)
    /\ UNCHANGED <<listed, offered>>

Refusal(c) ==
    /\ c.op \in {"accept", "reject", "confirm"}
    /\ calls' = calls \ {c} /\ alert' = c.tab
    /\ UNCHANGED <<listed, busy, offered>>

TabsNext ==
    \/ OpenToday \/ OpenWeek \/ OpenAutofill \/ OpenProvider \/ OpenReminder \/ OpenPlanning
    \/ (\E p \in Typeable : TypeProfile(p)) \/ PressReload \/ ToggleField
    \/ PressAccept \/ PressReject \/ PressConfirm \/ PressCommit
    \/ /\ \E c \in calls : \/ AnswerLoad(c) \/ AnswerAccept(c) \/ AnswerReject(c)
                           \/ AnswerConfirm(c) \/ AnswerCommit(c) \/ Refusal(c)
       /\ UNCHANGED <<tab, typed, ticked, orphaned, mixed>>

AssistantPanelSpec ==
    /\ AssistantInit /\ SwitchInit /\ TabsInit
    /\ [][\/ AssistantNext /\ UNCHANGED tabVars
          \/ TabsNext /\ UNCHANGED <<assistantVars, switchVars>>
          ]_<<assistantVars, switchVars, tabVars>>

-----------------------------------------------------------------------------
\* The draft offered for confirmation is of the profile whose proposals were on the screen
\* when they were accepted, whatever was typed and however late the lists came.  Unless loads
\* of two profiles overlapped, or calls of a tab that was left were still under way, a
\* loaded list is of the profile in the input, and an error is one of the open tab.
TabsInv ==
    /\ offered.profile = offered.about
    /\ ~orphaned =>
         /\ tab \in Clearing /\ alert # "none" => alert = tab
         /\ ~mixed /\ ~busy /\ alert = "none" /\ tab # "planning" => listed = typed

AssistantPanelInv == AssistantInv /\ TabsInv
=============================================================================
