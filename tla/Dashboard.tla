----------------------------- MODULE Dashboard ------------------------------
(***************************************************************************)
(* The dashboard of the context panel: the aggregation of lifecycle rows   *)
(* (apps/context-panel/src/dashboard/aggregator.ts, service.ts) and the    *)
(* screen that fetches a chart whenever the filters change and a drilldown *)
(* when a cell is clicked (ui/components/dashboard-panel.tsx).  Nothing    *)
(* cancels a fetch, and answers come in any order.                         *)
(*                                                                         *)
(* Days are counted from a Monday.                                         *)
(***************************************************************************)
EXTENDS Integers, FiniteSets

CONSTANTS Rows,       \* fixture rows: id, day, actor, source, stage, chat, available
          Filters,    \* what the filter bar may hold: grain, period, from, to,
                      \* actor, sources, regions
          Starts,     \* the days on which a month, and a quarter, starts
          Manager,    \* the user is a manager
          Everyone,   \* no actor chosen
          MaxFetches  \* bound on the fetches under way

ASSUME DashboardBounds == MaxFetches \in Nat

VARIABLES filters,    \* what the filter bar holds
          chart,      \* the filters of the chart on the screen, or Blank; the rows never change
          loading,    \* the loading flag, and whether an error is shown
          failed,
          drill,      \* the request of the drilldown on the screen, or Blank
          fetches,    \* fetches under way; two with the same answer are one
          raced       \* history: two chart fetches were under way at once
dashboardVars == <<filters, chart, loading, failed, drill, fetches, raced>>

Blank == [is |-> "blank"]

-----------------------------------------------------------------------------
\* bucketLabel: ISO weeks start on Monday.
Bucket(day, period) ==
    CASE period = "DAILY" -> day
      [] period = "WEEKLY" -> day \div 7
      [] OTHER -> Cardinality({d \in Starts[period] : d <= day})

\* filterRowsBySnapshot; no row has a region.
RowsOf(f) ==
    {r \in Rows : /\ f.actor \in {Everyone, r.actor}
                  /\ f.sources = {} \/ r.source \in f.sources
                  /\ f.regions = {}
                  /\ r.day \in f.from .. f.to}

\* Mutant: chat-only rows are counted.
EveryRow(r) == TRUE

\* isWholeCompanyCountable.
Countable(r) == ~r.chat

\* aggregateChartCells: bucket and stage -> cell.
AggregateChartCells(f) ==
    LET counted == {r \in RowsOf(f) : Countable(r)}
        at(k) == {r \in counted : Bucket(r.day, f.period) = k[1] /\ r.stage = k[2]} IN
    [k \in {<<Bucket(r.day, f.period), r.stage>> : r \in counted} |->
       [value |-> Cardinality(at(k)), available |-> \A r \in at(k) : r.available]]

\* aggregateByActor does not tell the actors apart: its cells are those of the chart.
AggregateByActor(f) == AggregateChartCells(f)

ReadDashboard(f) == IF f.grain = "ACTOR" THEN AggregateByActor(f) ELSE AggregateChartCells(f)

\* drilldownGuarded: whose rows may be listed.
MayDrill(f) == Manager \/ f.grain # "ACTOR" \/ f.actor = Everyone

\* drilldown: chat-only rows are listed and not summed.
DrillOf(f, k) == {r \in RowsOf(f) : <<Bucket(r.day, f.period), r.stage>> = k}

-----------------------------------------------------------------------------
Chart(f) == [is |-> "chart", filters |-> f]
Drill(f, k) == [is |-> "drill", filters |-> f, cell |-> k]
Cells == IF chart = Blank THEN <<>> ELSE ReadDashboard(chart.filters)
Charts == {x \in fetches : x.is = "chart"}

\* The first fetch comes with the default filters.
DashboardInit ==
    /\ filters \in Filters /\ chart = Blank /\ loading = TRUE /\ failed = FALSE /\ drill = Blank
    /\ fetches = {Chart(filters)} /\ raced = FALSE

\* The effect runs with every change of the filters; the drilldown stays on the screen.
ChangeFilters(f) ==
    /\ f # filters /\ Cardinality(fetches) < MaxFetches
    /\ filters' = f
    /\ loading' = TRUE /\ failed' = FALSE
    /\ fetches' = fetches \cup {Chart(f)}
    /\ raced' = (raced \/ Charts # {})
    /\ UNCHANGED <<chart, drill>>

\* openDrilldown, from a cell of the chart that is shown, with the filters of now.
OpenDrilldown(k) ==
    /\ Cardinality(fetches) < MaxFetches
    /\ drill' = [is |-> "loading"]
    /\ fetches' = fetches \cup {Drill(filters, k)}
    /\ UNCHANGED <<filters, chart, loading, failed, raced>>

\* The answers.  Each carries the filters it was asked for.
ReceiveChart(x) ==
    /\ x \in Charts
    /\ fetches' = fetches \ {x} /\ loading' = FALSE
    /\ \/ chart' = x /\ UNCHANGED failed
       \/ failed' = TRUE /\ UNCHANGED chart
    /\ UNCHANGED <<filters, drill, raced>>

ReceiveDrill(x) ==
    /\ x \in fetches \ Charts
    /\ fetches' = fetches \ {x}
    /\ drill' \in {[is |-> "error"]} \cup (IF MayDrill(x.filters) THEN {x} ELSE {})
    /\ UNCHANGED <<filters, chart, loading, failed, raced>>

DashboardNext ==
    \/ \E f \in Filters : ChangeFilters(f)
    \/ \E k \in DOMAIN Cells : OpenDrilldown(k)
    \/ \E x \in fetches : ReceiveChart(x) \/ ReceiveDrill(x)

DashboardSpec == DashboardInit /\ [][DashboardNext]_dashboardVars

-----------------------------------------------------------------------------
\* sumCheck: a cell and the drilldown of it, as they stand on the screen, agree whenever they
\* are of the same filters, whichever fetch answered first; no cell is left without rows.
SumsAgree ==
    chart # Blank /\ drill.is = "drill" /\ chart.filters = drill.filters =>
      LET k == drill.cell
          counted == {r \in DrillOf(drill.filters, k) : ~r.chat} IN
      /\ counted = {} <=> k \notin DOMAIN Cells
      /\ k \in DOMAIN Cells =>
           /\ Cells[k].value = Cardinality(counted)
           /\ Cells[k].available = (\A r \in counted : r.available)

\* Every row of the company that the filters let through is in exactly one cell.
NothingCountedTwice ==
    chart # Blank =>
      LET rows == {r \in RowsOf(chart.filters) : ~r.chat} IN
      \A r \in rows : \E k \in DOMAIN Cells :
        /\ r \in DrillOf(chart.filters, k)
        /\ \A j \in DOMAIN Cells \ {k} : r \notin DrillOf(chart.filters, j)

\* What is shown as loaded is what the filter bar says, unless a second fetch was started
\* before the first had answered.
ShownIsChosen == ~raced /\ ~loading /\ ~failed => chart # Blank /\ chart.filters = filters

DashboardInv == SumsAgree /\ NothingCountedTwice /\ ShownIsChosen
=============================================================================
