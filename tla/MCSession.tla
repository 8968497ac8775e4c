----------------------------- MODULE MCSession -------------------------------
(***************************************************************************)
(* Session for TLC: what the commands have as their last token.  Command 0 *)
(* is "screen-length 0 temporary".                                         *)
(***************************************************************************)
EXTENDS Session

\* Every ping goes to the same host, over this link or that.
OneHost == [r \in 0 .. MaxRuns |-> IF r = 0 THEN "temporary" ELSE "host"]

\* Every ping goes to a host of its own.
ManyHosts == [r \in 0 .. MaxRuns |-> r]
=============================================================================
