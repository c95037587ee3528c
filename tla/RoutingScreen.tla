---------------------------- MODULE RoutingScreen ----------------------------
(***************************************************************************)
(* The screen of the routing simulator                                     *)
(* (apps/context-panel/src/ui/components/routing-panel.tsx).  A simulation *)
(* is a fetch that nothing cancels; the selectors stay open meanwhile.     *)
(* Managers write the pools beside it (Config), here as a version.         *)
(***************************************************************************)
EXTENDS Routing

CONSTANTS ScreenPools,  \* pools of the organization, the first of the list among them
          FirstPool,
          MaxEdits      \* bound on the writes to the pools

ASSUME ScreenBounds == FirstPool \in ScreenPools /\ MaxEdits \in Nat

VARIABLES edition,   \* version of the pools at the server
          menu,      \* the version the list on the screen has, or Unset
          choice,    \* what the selectors say
          asked,     \* the simulation under way and what it asks, or Unset
          result,    \* the answer on the screen and what it was asked, or Unset
          trouble,   \* whether an error is shown
          strayed    \* history: a selector was moved while a simulation was under way
screenVars == <<edition, menu, choice, asked, result, trouble, strayed>>

Unset == [version |-> 0]

\* Some of SCENARIOS.  simulatePool sends the choice and the route does not read it.
Situations == {"normal", "offline-B", "all-offline"}

\* listPools is asked once, when the screen opens.
ScreenInit ==
    /\ edition = 1 /\ menu = Unset /\ asked = Unset /\ result = Unset
    /\ choice = [pool |-> "", count |-> 10, mode |-> "realtime", situation |-> "normal"]
    /\ trouble = FALSE /\ strayed = FALSE

\* The list arrives, and its first pool is chosen.
ReceivePools ==
    /\ menu = Unset /\ ~trouble
    /\ \/ /\ menu' = [version |-> edition]
          /\ choice' = [choice EXCEPT !.pool = FirstPool] /\ UNCHANGED trouble
       \/ trouble' = TRUE /\ UNCHANGED <<menu, choice>>
    /\ UNCHANGED <<edition, asked, result, strayed>>

EditPools ==
    /\ edition <= MaxEdits /\ edition' = edition + 1
    /\ UNCHANGED <<menu, choice, asked, result, trouble, strayed>>

\* A selector clears the result, and a simulation under way goes on.
Strays == strayed' = (strayed \/ asked # Unset)
Choose(new) ==
    /\ menu # Unset /\ new # choice
    /\ choice' = new /\ result' = Unset /\ Strays
    /\ UNCHANGED <<edition, menu, asked, trouble>>
ChoosePool(p)      == Choose([choice EXCEPT !.pool = p])
ChooseMode(m)      == Choose([choice EXCEPT !.mode = m])
ChooseSituation(s) == Choose([choice EXCEPT !.situation = s])

\* The number of customers leaves the result where it is.
ChooseCount(n) ==
    /\ n # choice.count /\ choice' = [choice EXCEPT !.count = n] /\ Strays
    /\ UNCHANGED <<edition, menu, asked, result, trouble>>

\* handleSimulate, behind a button that is disabled while an answer is awaited.
ButtonOn == asked = Unset /\ choice.pool # ""
Simulation == [version |-> edition, of |-> choice]
PressSimulate ==
    /\ ButtonOn
    /\ asked' = Simulation /\ result' = Unset /\ trouble' = FALSE /\ strayed' = FALSE
    /\ UNCHANGED <<edition, menu, choice>>

\* The server reads the pool at some time between the press and the answer.
ReceiveSimulation ==
    /\ asked # Unset /\ asked' = Unset
    /\ \/ (\E v \in asked.version..edition : result' = [asked EXCEPT !.version = v])
          /\ UNCHANGED trouble
       \/ trouble' = TRUE /\ UNCHANGED result
    /\ UNCHANGED <<edition, menu, choice, strayed>>

ScreenNext ==
    \/ ReceivePools \/ EditPools \/ PressSimulate \/ ReceiveSimulation
    \/ \E p \in ScreenPools : ChoosePool(p)
    \/ \E m \in {"batch", "realtime"} : ChooseMode(m)
    \/ \E s \in Situations : ChooseSituation(s)
    \/ \E n \in {10, 100} : ChooseCount(n)

\* The screen and the simulation the server works on.
SimulatorSpec ==
    /\ RoutingInit /\ ScreenInit
    /\ [][(RoutingNext /\ UNCHANGED screenVars) \/ (ScreenNext /\ UNCHANGED routingVars)]_
          <<routingVars, screenVars>>

\* A result on the screen answers the selectors, up to the number of customers, unless one of
\* them was moved before it came; none stands beside a simulation under way, and it is of no
\* older version of the pool than the list.
ResultIsChosen ==
    result # Unset =>
      /\ asked = Unset /\ result.version >= menu.version
      /\ ~strayed => result.of = [choice EXCEPT !.count = result.of.count]

\* The simulator is fair and within the limits, and its screen shows what was asked for.
SimulatorInv == RoutingInv /\ ResultIsChosen
=============================================================================
