------------------------- MODULE MCActivityMetrics -------------------------
(* Changes of every kind of source: calls with and without an identified     *)
(* user, a note that is updated, a ticker added and removed.                 *)
EXTENDS ActivityReference

CONSTANTS ann, nobody

MCTables == {"agent_tool_events", "research_notes", "watchlist_tickers"}

Input(t, o, u, s) == [table |-> t, op |-> o, user |-> u, status |-> s]

MCInputs == {Input("agent_tool_events", "insert", ann, "success"),
             Input("agent_tool_events", "insert", nobody, "error"),
             Input("research_notes", "insert", ann, "success"),
             Input("research_notes", "update", ann, "success"),
             Input("watchlist_tickers", "insert", nobody, "success"),
             Input("watchlist_tickers", "delete", nobody, "success")}
=============================================================================
