---------------------------- MODULE MCPingOutput -----------------------------
(***************************************************************************)
(* PingOutput for TLC: one to three packets; timeouts and pauses shorter   *)
(* than, equal to and between whole milliseconds, pauses above the slack.  *)
(***************************************************************************)
EXTENDS PingOutput

SomeJobs == [count : 1 .. 3, timeout : {1, 2, 3}, interval : {0, 1, 5}]
=============================================================================
