------------------------------ MODULE PingOutput ------------------------------
(***************************************************************************)
(* The VRP ping dialect (remote/huawei.go) against a router that prints    *)
(* line by line: what ParseOutput makes of any piece of what was printed,  *)
(* and whether a command that is obeyed ends before CommandDeadline.       *)
(*                                                                         *)
(* The router is the one of the outputs in remote/huawei_test.go.  A line  *)
(* is its kind and its number.  Session may return less than one output or *)
(* a piece of two (module Session), so every piece is parsed here.         *)
(* Durations are in half milliseconds, which the command cannot express.   *)
(***************************************************************************)
EXTENDS Integers, SequencesExt, FiniteSetsExt

CONSTANTS
  Jobs,         \* the pings: count, timeout, packet interval
  Slack,        \* the constant part of CommandDeadline
  MaxCommands   \* bound: commands printed one after the other

ASSUME JobsAssumption  ==
  \A j \in Jobs : j.count \in Nat \ {0} /\ {j.timeout, j.interval} \subseteq Nat
ASSUME SlackAssumption == Slack \in Nat \ {0} /\ MaxCommands \in Nat

VARIABLES
  job,       \* the job; its commands all have the same destination
  out,       \* the lines printed so far
  phase,     \* of the router: "idle", "echoed", "pinging"
  begins,    \* where the output of each command begins in out
  sent,      \* packets of the current command
  received,  \* answers to them
  pending,   \* the last packet is neither answered nor given up
  broken,    \* Ctrl-C came
  elapsed,   \* time since Run was called
  stalled,   \* the router or the network made the command wait
  counts     \* history: what each command that got to its statistics counted

vars == <<job, out, phase, begins, sent, received, pending, broken, elapsed,
          stalled, counts>>

Line(kind, number) == [kind |-> kind, number |-> number]
Text(kind)         == Line(kind, 0)

-----------------------------------------------------------------------------
(***************************************************************************)
(* BuildCommand writes whole milliseconds; CommandDeadline counts all.     *)
(***************************************************************************)
Milliseconds(d) == d \div 2
BuildCommand(j) == [c |-> j.count, m |-> Milliseconds(j.interval),
                    t |-> Milliseconds(j.timeout)]

\* Fault: the pause between two packets is forgotten.
CommandDeadlineNoPause(j) == j.count * j.timeout + Slack

CommandDeadline(j) ==
  j.count * (j.timeout + j.interval) + Slack

(***************************************************************************)
(* ParseOutput: the first line of each count, every reply, every timeout.  *)
(***************************************************************************)
ErrParse == [ok |-> FALSE]
Found(text, kind) == {i \in DOMAIN text : text[i].kind = kind}
First(text, kind) == text[Min(Found(text, kind))].number

\* Fault: the count of the router is not compared with the replies.
ParseOutputTrusting(text) ==
  IF Found(text, "sent") = {} THEN ErrParse
  ELSE [ok |-> TRUE, sent |-> First(text, "sent"),
        replies  |-> Cardinality(Found(text, "reply")),
        timeouts |-> Cardinality(Found(text, "timeout"))]

\* Fault: what timed out is expected among the received.
ParseOutputStrict(text) ==
  IF \/ Found(text, "sent") = {}
     \/ Found(text, "received") = {}
     \/ First(text, "received") # Cardinality(Found(text, "reply") \cup Found(text, "timeout"))
  THEN ErrParse
  ELSE [ok |-> TRUE, sent |-> First(text, "sent"),
        replies  |-> Cardinality(Found(text, "reply")),
        timeouts |-> Cardinality(Found(text, "timeout"))]

ParseOutput(text) ==
  IF \/ Found(text, "sent") = {}
     \/ Found(text, "received") = {}
     \/ First(text, "received") # Cardinality(Found(text, "reply"))
  THEN ErrParse
  ELSE [ok |-> TRUE, sent |-> First(text, "sent"),
        replies  |-> Cardinality(Found(text, "reply")),
        timeouts |-> Cardinality(Found(text, "timeout"))]

-----------------------------------------------------------------------------
Init ==
  /\ job \in Jobs
  /\ out = <<>>
  /\ phase = "idle"
  /\ begins = <<>>
  /\ sent = 0 /\ received = 0
  /\ pending = FALSE
  /\ broken = FALSE
  /\ elapsed = 0
  /\ stalled = FALSE
  /\ counts = {}

\* Run writes the command, the terminal echoes it.
Echo ==
  /\ phase = "idle"
  /\ Len(begins) < MaxCommands
  /\ phase' = "echoed"
  /\ out' = Append(out, Text("echo"))
  /\ begins' = Append(begins, Len(out) + 1)
  /\ sent' = 0 /\ received' = 0
  /\ pending' = FALSE
  /\ broken' = FALSE
  /\ stalled' = FALSE
  /\ elapsed' \in 0 .. Slack - 1
  /\ UNCHANGED <<job, counts>>

\* "Error: The source address is invalid."
Refuse ==
  /\ phase = "echoed"
  /\ phase' = "idle"
  /\ out' = Append(out, Text("error"))
  /\ UNCHANGED <<job, begins, sent, received, pending, broken, elapsed, stalled, counts>>

Header ==
  /\ phase = "echoed"
  /\ phase' = "pinging"
  /\ out' = Append(out, Text("head"))
  /\ UNCHANGED <<job, begins, sent, received, pending, broken, elapsed, stalled, counts>>

\* Fault: one packet more than asked for.
SendOneMore ==
  /\ phase = "pinging" /\ ~broken /\ ~pending
  /\ sent <= BuildCommand(job).c
  /\ sent' = sent + 1
  /\ pending' = TRUE
  /\ UNCHANGED <<job, out, phase, begins, received, broken, elapsed, stalled, counts>>

\* The first packet, and every other one the pause after the previous.
Send ==
  /\ phase = "pinging" /\ ~broken /\ ~pending
  /\ sent < BuildCommand(job).c
  /\ sent' = sent + 1
  /\ pending' = TRUE
  /\ elapsed' = elapsed + (IF sent = 0 THEN 0 ELSE 2 * BuildCommand(job).m)
  /\ UNCHANGED <<job, out, phase, begins, received, broken, stalled, counts>>

\* The answer, on a line replyRe matches or, "time<1 ms", on one it does not.
Reply ==
  /\ phase = "pinging" /\ ~broken /\ pending
  /\ \E kind \in {"reply", "unreadable"} : out' = Append(out, Text(kind))
  /\ received' = received + 1
  /\ pending' = FALSE
  /\ UNCHANGED <<job, phase, begins, sent, broken, elapsed, stalled, counts>>

\* "Request time out"
TimeOut ==
  /\ phase = "pinging" /\ ~broken /\ pending
  /\ out' = Append(out, Text("timeout"))
  /\ pending' = FALSE
  /\ elapsed' = elapsed + 2 * BuildCommand(job).t
  /\ UNCHANGED <<job, phase, begins, sent, received, broken, stalled, counts>>

\* Something else holds the command up.
Stall ==
  /\ phase # "idle" /\ ~stalled
  /\ stalled' = TRUE
  /\ elapsed' = elapsed + CommandDeadline(job)
  /\ UNCHANGED <<job, out, phase, begins, sent, received, pending, broken, counts>>

\* Run gives up at the deadline and interrupts the command.
CtrlC ==
  /\ phase = "pinging" /\ ~broken
  /\ elapsed >= CommandDeadline(job)
  /\ broken' = TRUE
  /\ UNCHANGED <<job, out, phase, begins, sent, received, pending, elapsed, stalled, counts>>

\* The statistics; after a Ctrl-C they count the packet nobody answered.
Statistics ==
  /\ phase = "pinging"
  /\ broken \/ (sent = BuildCommand(job).c /\ ~pending)
  /\ out' = out \o <<Text("statistics"), Line("sent", sent), Line("received", received)>>
  /\ counts' = counts \cup {[sent |-> sent, received |-> received]}
  /\ phase' = "idle"
  /\ UNCHANGED <<job, begins, sent, received, pending, broken, elapsed, stalled>>

Next == Echo \/ Refuse \/ Header \/ Send \/ Reply \/ TimeOut \/ Stall \/ CtrlC \/ Statistics

Spec == Init /\ [][Next]_vars

-----------------------------------------------------------------------------
(***************************************************************************)
(* Pieces of text.  What Run returns begins after a line that shows the    *)
(* destination, which cleanOutput drops: the echo, the head, a reply or    *)
(* the header of the statistics.  Of an IPv6 reply it drops the first half *)
(* only, and the second is the one replyRe matches.                        *)
(***************************************************************************)
ShowsDest(line) == line.kind \in {"echo", "head", "reply", "unreadable", "statistics"}
Begins == {i \in 1 .. Len(out) :
             \/ i > 1 /\ ShowsDest(out[i - 1])
             \/ out[i].kind \in {"reply", "unreadable"}}
Pieces == {SubSeq(out, i, j) : i \in Begins, j \in 1 .. Len(out)}

-----------------------------------------------------------------------------
(***************************************************************************)
(* Properties.                                                             *)
(***************************************************************************)

\* Every variable keeps its type; the router counts no more packets than
\* the command asks for.
TypeOK ==
  /\ job \in Jobs
  /\ \A l \in ToSet(out) : /\ l.number \in 0 .. job.count
                           /\ ShowsDest(l) \/ l.kind \in {"error", "timeout", "sent", "received"}
  /\ phase \in {"idle", "echoed", "pinging"}
  /\ Len(begins) <= MaxCommands
  /\ sent \in 0 .. job.count /\ received \in 0 .. sent
  /\ {pending, broken, stalled} \subseteq BOOLEAN
  /\ elapsed \in Nat

\* No text makes up a loss (huawei.go:91-115): whatever piece of the output
\* of one command, or of two of the same destination, Run returns, what
\* ParseOutput accepts is the sent and received counts of one of them.  A
\* refused command, replies in another format and half a text are errors.
NoFalseLoss ==
  \A text \in Pieces :
    LET res == ParseOutput(text)
    IN res.ok => [sent |-> res.sent, received |-> res.replies] \in counts

\* A whole output is understood: unless a reply is in another format, it gives
\* the counts and the timeouts, and of a command that was not interrupted
\* those add up, as runJob expects (scheduler.go:231).
WholeOutputIsUnderstood ==
  LET own == SubSeq(out, begins[Len(begins)] + 1, Len(out))
      res == ParseOutput(own)
  IN begins # <<>> /\ phase = "idle" /\ Found(own, "error") = {}
       /\ Found(own, "unreadable") = {} =>
         /\ res.ok
         /\ [sent |-> res.sent, received |-> res.replies] = [sent |-> sent, received |-> received]
         /\ broken \/ res.sent = res.replies + res.timeouts

\* A lossy link is not taken for a broken session (huawei.go:80-88): a router
\* that keeps to -t and -m ends the command before CommandDeadline, even when
\* every packet is lost and Run, echo and prompt took nearly all the slack.
ObeyedCommandEndsInTime ==
  ~stalled => elapsed < CommandDeadline(job)
=============================================================================
