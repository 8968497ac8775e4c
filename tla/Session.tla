------------------------------- MODULE Session -------------------------------
(***************************************************************************)
(* An interactive shell on the router (remote/session.go): the goroutine   *)
(* that calls Dial, Run and Close (a worker of the scheduler), the         *)
(* goroutine that reads the shell's output into a buffered channel, and    *)
(* the router at the other end of the SSH connection.                      *)
(*                                                                         *)
(* The stream is abstracted to pieces: the echo of a command, its output,  *)
(* a prompt, a question.  The echo and the output of a ping both show its  *)
(* destination; neither says which run it belongs to.  The router is the   *)
(* one of remote/fakevrp_test.go.  Every timer may fire whenever it is     *)
(* waited for.                                                             *)
(***************************************************************************)
EXTENDS Integers, Sequences, SequencesExt

CONSTANTS
  MaxRuns,      \* bound: calls of Run after the one that sets up the shell
  Dest,         \* the last token of each command: what Run anchors on
  ChunkCap,     \* capacity of s.chunks
  MaxStray      \* bound: prompts the router sends although nobody asked

ASSUME RunsAssumption  == MaxRuns \in Nat
ASSUME DestAssumption  == DOMAIN Dest = 0 .. MaxRuns
ASSUME ChunkAssumption == ChunkCap \in Nat \ {0}
ASSUME StrayAssumption == MaxStray \in Nat

VARIABLES
  pc,           \* where the caller is
  n,            \* number of the run; 0 disables paging, before Dial returns
  buf,          \* s.buf
  ret,          \* what the last Run returned
  conn,         \* the TCP connection under the session
  armed,        \* it has a deadline
  reader,       \* where readLoop is
  held,         \* the chunk readLoop read and has not sent yet
  chunks,       \* s.chunks
  stdin,        \* sent by the caller, not yet read by the router
  stdout,       \* sent by the router, not yet read by readLoop
  running,      \* the command the router runs
  printed,      \* it has printed its output
  strays,       \* prompts nobody asked for, still to come
  strayed       \* how many of them there were

caller == <<pc, n, buf, ret>>
stream == <<reader, held, chunks>>
router == <<running, printed, strays, strayed>>
link   == <<conn, armed>>
vars   == <<caller, link, stream, stdin, stdout, router>>

Nobody  == -1                     \* not a run: a prompt nobody asked for
Runs    == 0 .. MaxRuns
CtrlC   == MaxRuns + 1
Piece   == [kind : {"echo", "out", "prompt", "question"}, of : Runs \cup {Nobody}]
Prompt(r) == [kind |-> "prompt", of |-> r]

Nothing == [run |-> Nobody, how |-> "none", outs |-> {}]

Asking  == {"handshake", "shell"}
Waiting == {"learn", "wait", "settle"}

-----------------------------------------------------------------------------
\* The worker calls Dial.
Init ==
  /\ pc = "connect"
  /\ n = 0
  /\ buf = <<>>
  /\ ret = Nothing
  /\ conn = "none"
  /\ armed = FALSE
  /\ reader = "none"
  /\ held = <<>>
  /\ chunks = <<>>
  /\ stdin = <<>>
  /\ stdout = <<>>
  /\ running = Nobody
  /\ printed = FALSE
  /\ strays = 0
  /\ strayed = 0

(***************************************************************************)
(* What the text read so far says.                                         *)
(***************************************************************************)
EndsIn(kind) == buf # <<>> /\ Last(buf).kind = kind

\* waitPrompt searches for a substring, so two destinations are one here when
\* one contains the other, as 1.1.1.1 and 1.1.1.10.
Shows(piece, r) ==
  piece.kind \in {"echo", "out"} /\ piece.of # Nobody /\ Dest[piece.of] = Dest[r]

\* Fault: no anchor, any text counts.
AnyText == DOMAIN buf

\* Where the anchor of the current run is found.
Anchors == {i \in DOMAIN buf : Shows(buf[i], n)}

\* waitPrompt and learnPrompt look at the text before they wait for more.
Ready ==
  CASE pc = "learn"  -> EndsIn("prompt") \/ EndsIn("question")
    [] pc = "wait"   -> EndsIn("prompt") /\ Anchors # {}
    [] pc = "settle" -> EndsIn("prompt")
    [] OTHER         -> FALSE

\* The output in the text from the anchor on.
Output == {buf[j].of : j \in {k \in DOMAIN buf :
                                /\ buf[k].kind = "out"
                                /\ \E i \in Anchors : i <= k}}

(***************************************************************************)
(* Close, and the ends of a run.                                           *)
(***************************************************************************)
\* Fault: the connection stays open.
ShutNothing == pc' = "closed" /\ UNCHANGED link

Shut == pc' = "closed" /\ conn' = "down" /\ UNCHANGED armed

Returns(how, outs) == ret' = [run |-> n, how |-> how, outs |-> outs]

\* Fault: Dial leaves its deadline on the connection it returns.
ReturnArmed(how, outs) ==
  /\ Returns(how, outs)
  /\ IF n = 0 /\ how # "ok" THEN Shut ELSE pc' = "idle" /\ UNCHANGED link

\* Run returns and the session can be used again.  The run that disables
\* paging ends Dial: an error closes the session, else the deadline goes.
ReturnKept(how, outs) ==
  /\ Returns(how, outs)
  /\ IF n = 0 /\ how # "ok"
       THEN Shut
       ELSE pc' = "idle" /\ armed' = FALSE /\ UNCHANGED conn

\* ErrClosed is among the errors Run returns.
ReturnClosed == Returns("closed", {}) /\ Shut

(***************************************************************************)
(* Dial: connect, arm a deadline and the context's hook, log in, open a    *)
(* shell.  The router may refuse any of it, or never answer.               *)
(***************************************************************************)
\* A bad key or known_hosts file, a name that does not resolve, no TCP.
ConnectFails ==
  /\ pc = "connect"
  /\ pc' = "closed"
  /\ UNCHANGED <<n, buf, ret, link, stream, stdin, stdout, router>>

\* Fault: only the context bounds Dial.
ConnectUnarmed ==
  /\ pc = "connect"
  /\ pc' = "handshake"
  /\ conn' = "up"
  /\ UNCHANGED <<n, buf, ret, armed, stream, stdin, stdout, router>>

Connect ==
  /\ pc = "connect"
  /\ pc' = "handshake"
  /\ conn' = "up"
  /\ armed' = TRUE
  /\ UNCHANGED <<n, buf, ret, stream, stdin, stdout, router>>

LoggedIn ==
  /\ pc = "handshake"
  /\ conn = "up"
  /\ pc' = "shell"
  /\ UNCHANGED <<n, buf, ret, link, stream, stdin, stdout, router>>

\* startShell.  The router greets with its prompt, asks something first, or
\* says nothing.
ShellOpens ==
  /\ pc = "shell"
  /\ conn = "up"
  /\ pc' = "learn"
  /\ reader' = "read"
  /\ stdout' \in { <<Prompt(Nobody)>>, <<[kind |-> "question", of |-> Nobody]>>, <<>> }
  /\ UNCHANGED <<n, buf, ret, link, held, chunks, stdin, router>>

Refused ==
  /\ pc \in Asking
  /\ conn = "up"
  /\ Shut
  /\ UNCHANGED <<n, buf, ret, stream, stdin, stdout, router>>

\* A blocked request returns when the connection is closed under it.
Unblocked ==
  /\ pc \in Asking
  /\ conn = "down"
  /\ Shut
  /\ UNCHANGED <<n, buf, ret, stream, stdin, stdout, router>>

\* The deadline passes: timeout + loginTimeout after the connection came up.
DeadlinePasses ==
  /\ armed
  /\ conn = "up"
  /\ conn' = "down"
  /\ UNCHANGED <<caller, armed, stream, stdin, stdout, router>>

(***************************************************************************)
(* learnPrompt.                                                            *)
(***************************************************************************)
Learned ==
  /\ pc = "learn"
  /\ EndsIn("prompt")
  /\ buf' = <<>>
  /\ pc' = "drain"
  /\ UNCHANGED <<n, ret, link, stream, stdin, stdout, router>>

LoginFails ==
  /\ pc = "learn"
  /\ ~EndsIn("prompt")      \* a question, or the timer
  /\ Shut
  /\ UNCHANGED <<n, buf, ret, stream, stdin, stdout, router>>

(***************************************************************************)
(* Run: drain, write, waitPrompt; after its timer Ctrl-C and waitPrompt    *)
(* again, this time for any prompt.                                        *)
(***************************************************************************)
StartRun ==
  /\ pc = "idle"
  /\ n < MaxRuns
  /\ n' = n + 1
  /\ buf' = <<>>
  /\ pc' = "drain"
  /\ UNCHANGED <<ret, link, stream, stdin, stdout, router>>

DrainChunk ==
  /\ pc = "drain"
  /\ chunks # <<>>
  /\ chunks' = Tail(chunks)
  /\ UNCHANGED <<caller, link, reader, held, stdin, stdout, router>>

\* A write on a dead connection may still succeed.
Write ==
  /\ pc = "drain"
  /\ chunks = <<>>
  /\ stdin' = Append(stdin, n)
  /\ pc' = "wait"
  /\ UNCHANGED <<n, buf, ret, link, stream, stdout, router>>

WriteFails ==
  /\ pc = "drain"
  /\ chunks = <<>>
  /\ conn = "down"
  /\ ReturnClosed
  /\ UNCHANGED <<n, buf, stream, stdin, stdout, router>>

Receive ==
  /\ pc \in Waiting
  /\ ~Ready
  /\ chunks # <<>>
  /\ buf' = buf \o Head(chunks)
  /\ chunks' = Tail(chunks)
  /\ UNCHANGED <<pc, n, ret, link, reader, held, stdin, stdout, router>>

\* The channel is closed and empty.
Gone ==
  /\ pc \in Waiting
  /\ ~Ready
  /\ chunks = <<>>
  /\ reader = "done"
  /\ ReturnClosed
  /\ UNCHANGED <<n, buf, stream, stdin, stdout, router>>

Answered ==
  /\ pc = "wait"
  /\ Ready
  /\ buf' = <<>>
  /\ ReturnKept("ok", Output)
  /\ UNCHANGED <<n, stream, stdin, stdout, router>>

\* Fault: Run gives up without interrupting the command.
RunTimeoutReturns ==
  /\ pc = "wait"
  /\ ~Ready
  /\ ReturnKept("timeout", {})
  /\ UNCHANGED <<n, buf, stream, stdin, stdout, router>>

RunTimeout ==
  /\ pc = "wait"
  /\ ~Ready
  /\ pc' = "interrupt"
  /\ UNCHANGED <<n, buf, ret, link, stream, stdin, stdout, router>>

\* The error of this write is ignored.
Interrupt ==
  /\ pc = "interrupt"
  /\ stdin' = Append(stdin, CtrlC)
  /\ pc' = "settle"
  /\ UNCHANGED <<n, buf, ret, link, stream, stdout, router>>

Settled ==
  /\ pc = "settle"
  /\ Ready
  /\ buf' = <<>>
  /\ ReturnKept("timeout", {})
  /\ UNCHANGED <<n, stream, stdin, stdout, router>>

\* Fault: the session is kept although no prompt came.
SettleTimeoutKeeps ==
  /\ pc = "settle"
  /\ ~Ready
  /\ ReturnKept("timeout", {})
  /\ UNCHANGED <<n, buf, stream, stdin, stdout, router>>

\* Fault: no timer bounds the second wait.
SettleForever == pc = "settle" /\ FALSE

SettleTimeout ==
  /\ pc = "settle"
  /\ ~Ready
  /\ ReturnClosed
  /\ UNCHANGED <<n, buf, stream, stdin, stdout, router>>

\* Close, called by the worker between two runs.
Close ==
  /\ pc = "idle"
  /\ Shut
  /\ UNCHANGED <<n, buf, ret, stream, stdin, stdout, router>>

Caller ==
  \/ Connect \/ ConnectFails \/ Unblocked
  \/ Learned \/ LoginFails \/ DrainChunk \/ Write \/ WriteFails
  \/ Receive \/ Gone \/ Answered \/ RunTimeout \/ Interrupt
  \/ Settled \/ SettleTimeout

(***************************************************************************)
(* readLoop.                                                               *)
(***************************************************************************)
\* One read returns any part of what has arrived.
Read ==
  /\ reader = "read"
  /\ \E k \in 1 .. Len(stdout) :
       /\ held' = SubSeq(stdout, 1, k)
       /\ stdout' = SubSeq(stdout, k + 1, Len(stdout))
  /\ reader' = "send"
  /\ UNCHANGED <<caller, link, chunks, stdin, router>>

\* Fault: the channel has no bound.
SendAlways ==
  /\ reader = "send"
  /\ chunks' = Append(chunks, held)
  /\ held' = <<>>
  /\ reader' = "read"
  /\ UNCHANGED <<caller, link, stdin, stdout, router>>

SendChunk ==
  /\ reader = "send"
  /\ Len(chunks) < ChunkCap
  /\ chunks' = Append(chunks, held)
  /\ held' = <<>>
  /\ reader' = "read"
  /\ UNCHANGED <<caller, link, stdin, stdout, router>>

\* The read fails once the connection is gone: close(s.chunks).
ReadFails ==
  /\ reader = "read"
  /\ conn = "down"
  /\ reader' = "done"
  /\ UNCHANGED <<caller, link, held, chunks, stdin, stdout, router>>

ReadLoop == Read \/ SendChunk \/ ReadFails

(***************************************************************************)
(* The router and the network.                                             *)
(***************************************************************************)
\* The connection breaks, or the context of Dial ends while Dial runs.
Disconnect ==
  /\ conn = "up"
  /\ conn' = "down"
  /\ UNCHANGED <<caller, armed, stream, stdin, stdout, router>>

Prints(piece) == stdout' = Append(stdout, piece)

TakeCommand ==
  /\ conn = "up"
  /\ stdin # <<>> /\ Head(stdin) # CtrlC
  /\ stdin' = Tail(stdin)
  /\ IF running = Nobody
       THEN /\ running' = Head(stdin)
            /\ printed' = FALSE
            /\ Prints([kind |-> "echo", of |-> Head(stdin)])
       ELSE UNCHANGED <<running, printed, stdout>>  \* typed into a running ping
  /\ UNCHANGED <<caller, stream, link, strays, strayed>>

PrintOutput ==
  /\ conn = "up"
  /\ running # Nobody /\ ~printed
  /\ printed' = TRUE
  /\ Prints([kind |-> "out", of |-> running])
  /\ UNCHANGED <<caller, stream, link, stdin, running, strays, strayed>>

Finish ==
  /\ conn = "up"
  /\ running # Nobody /\ printed
  /\ running' = Nobody
  /\ Prints(Prompt(running))
  /\ UNCHANGED <<caller, stream, link, stdin, printed, strays, strayed>>

\* Ctrl-C ends the command that runs.  The router may have a second prompt to
\* give, which comes whenever it likes (extraPromptOnCtrlC).
TakeCtrlC ==
  /\ conn = "up"
  /\ stdin # <<>> /\ Head(stdin) = CtrlC
  /\ stdin' = Tail(stdin)
  /\ running # Nobody
  /\ running' = Nobody
  /\ Prints(Prompt(running))
  /\ \E extra \in 0 .. 1 :
       /\ strayed + extra <= MaxStray
       /\ strays' = strays + extra
       /\ strayed' = strayed + extra
  /\ UNCHANGED <<caller, stream, link, printed>>

\* There is nothing to interrupt, or the router pays no attention.
IgnoreCtrlC ==
  /\ conn = "up"
  /\ stdin # <<>> /\ Head(stdin) = CtrlC
  /\ stdin' = Tail(stdin)
  /\ UNCHANGED <<caller, stream, link, stdout, router>>

StrayPrompt ==
  /\ conn = "up"
  /\ strays > 0
  /\ strays' = strays - 1
  /\ Prints(Prompt(Nobody))
  /\ UNCHANGED <<caller, stream, link, stdin, running, printed, strayed>>

Router ==
  \/ TakeCommand \/ PrintOutput \/ Finish
  \/ TakeCtrlC \/ IgnoreCtrlC \/ StrayPrompt

-----------------------------------------------------------------------------
Grants == LoggedIn \/ ShellOpens \/ Refused

Next ==
  \/ StartRun \/ Close \/ Caller \/ ReadLoop
  \/ Grants \/ Router \/ Disconnect \/ DeadlinePasses

Spec == Init /\ [][Next]_vars

\* The goroutines are scheduled and timers fire.  Nothing is assumed of the
\* router or the network, and nobody needs to call Run or Close.
FairSpec ==
  Spec /\ WF_vars(Caller) /\ WF_vars(ReadLoop) /\ WF_vars(DeadlinePasses)

-----------------------------------------------------------------------------
(***************************************************************************)
(* Properties.                                                             *)
(***************************************************************************)
\* The state has its shape; the channel holds at most its capacity
\* (session.go:184).
TypeOK ==
  /\ pc \in Asking \cup Waiting \cup {"connect", "idle", "drain", "interrupt", "closed"}
  /\ n \in Runs
  /\ buf \in Seq(Piece)
  /\ ret \in [run : Runs \cup {Nobody}, how : {"none", "ok", "timeout", "closed"},
              outs : SUBSET Runs]
  /\ conn \in {"none", "up", "down"}
  /\ armed \in BOOLEAN
  /\ reader \in {"none", "read", "send", "done"}
  /\ held \in Seq(Piece)
  /\ chunks \in Seq(Seq(Piece)) /\ Len(chunks) <= ChunkCap
  /\ stdin \in Seq(Runs \cup {CtrlC})
  /\ stdout \in Seq(Piece)
  /\ running \in Runs \cup {Nobody}
  /\ printed \in BOOLEAN
  /\ strays \in 0 .. MaxStray
  /\ strayed \in 0 .. MaxStray

\* Run never returns output of another command (session.go:293-297): what the
\* anchor is for.
OutputIsOwn == ret.how = "ok" => ret.outs \subseteq {ret.run}

\* Run leaves the session open only when the router is back at its prompt and
\* nothing it printed is still on its way: the next run starts from silence
\* (session.go:265-271).
KeptMeansQuiet ==
  pc = "idle" =>
    /\ running = Nobody
    /\ stdin \in {<<>>, <<CtrlC>>}
    /\ \A stage \in {stdout, held, chunks, buf} : stage = <<>>

\* What the router has not read is three lines at most, however many runs it
\* did not answer: a session whose Ctrl-C gets no prompt is not used again, so
\* writes never fill the SSH window and Run does not block in one
\* (session.go:250, 266-270).
InputIsBounded == Len(stdin) <= 3

\* Dial leaves nothing behind: a session it did not return, or that was
\* closed, has no connection, and one it returned has no deadline that would
\* end it later (session.go:93-120).
DialIsOver ==
  /\ pc = "closed" => conn # "up"
  /\ pc = "idle" => ~armed

\* Dial has not returned yet.
Opening == pc \notin {"idle", "closed"} /\ n = 0

PhaseView == CASE pc \in {"closed", "idle"} -> pc
               [] Opening                   -> "opening"
               [] OTHER                     -> "busy"

AnswerView == IF ret.run \in {Nobody, 0} THEN [run |-> 0, how |-> "none", outs |-> {}]
                                         ELSE ret

ShellView == INSTANCE Shell WITH phase <- PhaseView, count <- n, answer <- AnswerView

\* A session is what module Shell says the scheduler may rely on.  Above all,
\* with a router that gives one prompt for each command the text Run returns
\* is the output of its own command, all of it and nothing else, also after
\* runs that timed out on the same destination (session.go:254-264).
ImplementsShell == ShellView!ShellSpec

\* Dial returns, whatever the router does, also when it accepts the connection
\* and never answers (session.go:93-102).
DialReturns == pc = "connect" ~> pc \in {"idle", "closed"}

\* Run returns, whatever the router does (session.go:299, 267).
RunReturns == pc = "drain" ~> pc \in {"idle", "closed"}

\* Once the session is closed readLoop ends, unless the channel nobody reads
\* any more is full (session.go:197-209, 347-354).
ReaderEnds ==
  pc = "closed" ~>
    \/ reader \in {"none", "done"}
    \/ reader = "send" /\ Len(chunks) = ChunkCap
=============================================================================
