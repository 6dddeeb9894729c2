----------------------------- MODULE MCMcpServer -----------------------------
(***************************************************************************)
(* McpServer with two tool calls at once.  A behaviour has lines, or       *)
(* requests, or a health that changes: the three share only the stream.    *)
(***************************************************************************)
EXTENDS McpServer

CONSTANTS t1, t2
MCCallers == {t1, t2}
Alike == Permutations(MCCallers)

MCUses ==
  { {"line", "prompt", "read_new", "wait_for", "send"},
    {"ask", "watch_add", "watch_remove", "watch_list", "stop"},
    {"ask", "rule_propose", "watch_list"},
    {"ask", "rule_propose", "stop", "once"},
    {"status", "trigger", "beat", "silent", "end"},
    {"trigger", "read_events", "wait_for_event"},
    {"status", "beat", "silent", "read_new", "alone"} }
=============================================================================
