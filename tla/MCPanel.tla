------------------------------- MODULE MCPanel -------------------------------
(* Model values for TLC.  The services of the panel share the kill switch and nothing else, *)
(* so each behaviour explores one of them.                                                  *)
EXTENDS Review, RoutingScreen, AssistantScreen, Config, Panel, DoNotContact,
        Dashboard, TLC
CONSTANTS r1, r2, r3, e1, s1, s2, q1, q2, d1, d2, v1, k1, b1, i1, i2

\* Review: two reviewers of the entry's organization, one of another.
MCOrgOf == e1 :> "o1" @@ r1 :> "o1" @@ r2 :> "o1" @@ r3 :> "o2"

\* Routing: four members; weights, who is online, what each has and may have.
Weighted == [strategy : {"WEIGHTED_DISTRIBUTION"}, mode : {"realtime", "batch"}, count : {10},
             strangers : {0}, weight : {<<3, 2, 1, 4>>, <<1, 1, 4, 0>>, <<0, 0, 0, 0>>},
             online : {<<TRUE, TRUE, TRUE, TRUE>>, <<TRUE, FALSE, TRUE, TRUE>>,
                       <<FALSE, TRUE, TRUE, FALSE>>, <<FALSE, FALSE, FALSE, FALSE>>},
             used : {<<0, 0, 0, 0>>, <<0, 0, 2, 5>>}, room : {<<5, 5, 5, 5>>, <<25, 25, 25, 25>>},
             done : {<<0, 0, 0, 0>>, <<0, 9, 0, 0>>},
             cap : {<<10, 10, 10, 10>>, <<0, 0, 0, 0>>, <<20, 20, 20, 20>>}]
MCFixtures == Weighted \cup
    {[f EXCEPT !.strategy = "SOURCE_ALLOCATION"] :
       f \in {g \in Weighted : g.mode = "realtime" /\ g.weight = <<0, 0, 0, 0>>}} \cup
    {[f EXCEPT !.strategy = "HYBRID"] :
       f \in {g \in Weighted : g.mode = "batch" /\ g.weight = <<3, 2, 1, 4>> /\ g.used[3] = 0}} \cup
    {[f EXCEPT !.strangers = 5] : f \in {g \in Weighted : g.used[3] = 0 /\ g.done[2] = 0}}
AFixture == CHOOSE f \in MCFixtures : TRUE

\* Do not contact: an id that two connections have, and one of its own.
MCContacts == {[id |-> "x", connection |-> "a"], [id |-> "x", connection |-> "b"],
               [id |-> "y", connection |-> "a"]}

\* Dashboard: two weeks from 2026-08-31, the month starts on the second day.
Row(id, day, actor, source, stage, available) ==
    [id |-> id, day |-> day, actor |-> actor, source |-> source, stage |-> stage,
     chat |-> source = "CHAT_ONLY", available |-> available]
MCRows == {Row(1, 0, "A", "HRP_UI", "CREATED", TRUE), Row(2, 6, "A", "CHATWOOT", "CREATED", FALSE),
           Row(3, 6, "B", "CHAT_ONLY", "CREATED", TRUE), Row(4, 7, "B", "HRP_UI", "CREATED", TRUE),
           Row(5, 9, "A", "CHAT_ONLY", "REVIEW", TRUE)}
DefaultFilters == [grain |-> "ORGANIZATION", period |-> "WEEKLY", from |-> 0, to |-> 13,
                   actor |-> Everyone, sources |-> {}, regions |-> {}]
MCFilters == {DefaultFilters, [DefaultFilters EXCEPT !.period = "MONTHLY", !.actor = "A"],
              [DefaultFilters EXCEPT !.period = "DAILY", !.sources = {"HRP_UI", "CHAT_ONLY"}, !.to = 8],
              [DefaultFilters EXCEPT !.grain = "ACTOR", !.actor = "A"],
              [DefaultFilters EXCEPT !.regions = {"SG"}]}
MCStarts == [MONTHLY |-> {1}, QUARTERLY |-> {}]

VARIABLE focus
assistVars == <<assistantVars, switchVars>>
screens == <<screenVars, tabVars>>
MCInit ==
    /\ focus \in {"review", "routing", "autofill", "planning", "config", "form", "contact", "dashboard",
                 "simulator", "tabs"}
    /\ ReviewInit /\ RoutingInit /\ SwitchInit /\ AssistantInit /\ ConfigInit /\ PanelInit /\ DncInit
    /\ ScreenInit /\ TabsInit /\ DashboardInit /\ filters = DefaultFilters
    /\ focus # "routing" => pool = AFixture
    /\ focus # "config" => kind = "pool"
    /\ focus \notin {"autofill", "planning", "config"} => ~armed
    /\ focus = "config" /\ kind # "provider" => ~armed
    /\ focus # "form" => \A u \in Users : form[u].draft = d1

MCNext ==
    /\ UNCHANGED focus
    /\ \/ /\ focus = "review" /\ ReviewNext
          /\ UNCHANGED <<routingVars, assistVars, configVars, panelVars, dncVars, dashboardVars, screens>>
       \/ /\ focus = "routing" /\ RoutingNext
          /\ UNCHANGED <<reviewVars, assistVars, configVars, panelVars, dncVars, dashboardVars, screens>>
       \/ /\ focus = "autofill"
          /\ AutofillNext \/ (SwitchNext /\ UNCHANGED assistantVars)
          /\ UNCHANGED <<reviewVars, routingVars, configVars, panelVars, dncVars, dashboardVars, screens>>
       \/ /\ focus = "planning" /\ PlanningNext /\ slot'[s2] = Idle
          /\ UNCHANGED <<reviewVars, routingVars, configVars, panelVars, dncVars, dashboardVars, screens>>
       \/ /\ focus = "config"
          /\ ConfigNext \/ (kind = "provider" /\ SwitchNext /\ UNCHANGED configVars)
          /\ UNCHANGED <<reviewVars, routingVars, assistantVars, panelVars, dncVars, dashboardVars, screens>>
       \/ /\ focus = "form" /\ PanelNext
          /\ UNCHANGED <<reviewVars, routingVars, assistVars, configVars, dncVars, dashboardVars, screens>>
       \/ /\ focus = "contact" /\ DncNext
          /\ UNCHANGED <<reviewVars, routingVars, assistVars, configVars, panelVars, dashboardVars, screens>>
       \/ /\ focus = "dashboard" /\ DashboardNext
          /\ UNCHANGED <<reviewVars, routingVars, assistVars, configVars, panelVars, dncVars, screens>>
       \/ /\ focus = "simulator" /\ ScreenNext
          /\ UNCHANGED <<reviewVars, routingVars, assistVars, configVars, panelVars, dncVars, dashboardVars, tabVars>>
       \/ /\ focus = "tabs" /\ TabsNext
          /\ UNCHANGED <<reviewVars, routingVars, assistVars, configVars, panelVars, dncVars, dashboardVars, screenVars>>

MCSpec == MCInit /\ [][MCNext]_<<reviewVars, routingVars, assistVars, configVars, panelVars,
                                  dncVars, screens, dashboardVars, focus>>
=============================================================================
