-------------------------------- MODULE Shell --------------------------------
(***************************************************************************)
(* What the scheduler may rely on in a session (remote/session.go), and    *)
(* all that it knows of it: Dial gives an open session or none, Run        *)
(* answers every command once, with the output of that command or with an  *)
(* error, and a session that is closed stays closed.                       *)
(***************************************************************************)
EXTENDS Naturals

VARIABLES
  phase,     \* what the session is doing for its owner
  count,     \* how many commands it was given
  answer     \* what the last Run returned

svars == <<phase, count, answer>>

Answer(how, outs) == [run |-> count, how |-> how, outs |-> outs]
NoAnswer == [run |-> 0, how |-> "none", outs |-> {}]

ShellInit ==
  /\ phase = "opening"
  /\ count = 0
  /\ answer = NoAnswer

\* Dial returns a session, or an error.
Open ==
  /\ phase = "opening"
  /\ phase' \in {"idle", "closed"}
  /\ UNCHANGED <<count, answer>>

Begin ==
  /\ phase = "idle"
  /\ phase' = "busy"
  /\ count' = count + 1
  /\ UNCHANGED answer

\* The output, or a timeout after which the shell is silent again.
Keep ==
  /\ phase = "busy"
  /\ phase' = "idle"
  /\ answer' \in {Answer("ok", {count}), Answer("timeout", {})}
  /\ UNCHANGED count

\* ErrClosed is among the errors.
Lose ==
  /\ phase = "busy"
  /\ phase' = "closed"
  /\ answer' = Answer("closed", {})
  /\ UNCHANGED count

Discard ==
  /\ phase = "idle"
  /\ phase' = "closed"
  /\ UNCHANGED <<count, answer>>

ShellNext == Open \/ Begin \/ Keep \/ Lose \/ Discard

ShellSpec == ShellInit /\ [][ShellNext]_svars
=============================================================================
