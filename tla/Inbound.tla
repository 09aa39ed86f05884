------------------------------- MODULE Inbound -------------------------------
(***************************************************************************)
(* What comes in and what is counted of it: the stream an agent sends,     *)
(* framed and read (Wire), beside the operational metrics (Metrics).  The  *)
(* two share no variable: the count of a part is taken by a recorder of    *)
(* Metrics whose budget is its own.  Metrics' names are M's here.          *)
(***************************************************************************)
EXTENDS Wire

CONSTANTS Devices, Agent, VerbOrder, Budgets   \* Metrics'

VARIABLES stats, opened, bumps, pair, lost, ever, link, parsed, previous, seen,
          plan, rows, defined, ready, handed, left

metrics == <<stats, opened, bumps, pair, lost, ever, link, parsed, previous, seen,
             plan, rows, defined, ready, handed, left>>

M == INSTANCE Metrics

ASSUME VerbsAreApart == M!VerbsApart
ASSUME AgentIsApart  == M!AgentApart

\* The intervals of the metrics' rows add up to what was counted, and the
\* link's counters to one story (Metrics).
RowsAddUp == M!IntervalsAddUp /\ M!LifecycleAddsUp
=============================================================================
